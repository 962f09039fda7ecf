----------------------------- MODULE MCJobQueue -----------------------------
(* Small instances of JobQueue for TLC.                                    *)
EXTENDS JobQueue

CONSTANTS j1, j2, w1, w2

TwoJobs == {j1, j2}

(* j1 is more urgent and may be tried twice, j2 once.                      *)
MCPriority == [j \in Jobs |-> IF j = j1 THEN 1 ELSE 2]
MCMaxAttempts == [j \in Jobs |-> IF j = j1 THEN 2 ELSE 1]
MCPolicyDelay(n) == 1

(* The policy's delay, and one that ScheduleRetry refuses.                 *)
PolicyOrIllegal == {-1, 0}
=============================================================================
