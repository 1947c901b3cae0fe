-------------------------- MODULE MCPullRequestLoop --------------------------
(* PullRequestLoop for three builders, as many as the roster serves: a chain    *)
(* under a settled policy, and an independent pair with a third waiting for     *)
(* the first, under one that a person may change once.                       *)
EXTENDS PullRequestLoop

Pair == <<{}, {}, {1}>>
Chain == <<{}, {1}, {2}>>
MCPlans == {Pair, Chain}
MCTurnCause == {"ROLE_EXECUTION_ERROR", "ROLE_TURN_LIMIT"}

LoopNext == Run \/ (depends = Pair /\ SetMergePolicy)
LoopSpec == Init /\ [][LoopNext]_vars /\ WF_vars(Run)
===============================================================================
