-------------------------- MODULE MCIssueWorkflow ---------------------------
(* Small instances of IssueWorkflow for TLC.                               *)
EXTENDS IssueWorkflow, TLC

CONSTANTS e1, e2

ExecutorSymmetry == Permutations(Executors)

AllTemporary == AdapterCalls \cup PersistCalls
(* Presenting a challenge is the one call that cannot be repeated.         *)
CallsOnTheWay == AllTemporary \ {"present"}
AllPermanent == AdapterCalls \cup {"authorization"}
AnyAnswer == AllPermanent \cup {"unknown"}
=============================================================================
