--------------------------- MODULE MCRoleDispatch ---------------------------
(* RoleDispatch with one builder and one checker, or with the checker alone.  *)
EXTENDS RoleDispatch

CONSTANTS builder, checker
==============================================================================
