---------------------------- MODULE MCAuditTrail ----------------------------
(* Instances of AuditTrail for TLC.                                        *)
EXTENDS AuditTrail, TLC

CONSTANTS c1, c2, e1, e2

MCDefault == [f \in Fields |-> "low"]

MCPatches == {[f \in {g} |-> "high"] : g \in Fields}

CallerSymmetry == Permutations(Callers) \cup Permutations(Endpoints)
=============================================================================
