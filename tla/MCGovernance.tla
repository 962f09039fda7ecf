---------------------------- MODULE MCGovernance ----------------------------
(* Instances of Governance for TLC.                                        *)
EXTENDS Governance, TLC

CONSTANTS d1, d2, n1, n2, k1, ca1, t1, x1, c1, c2

Symmetry == Permutations(Domains) \cup Permutations(DomainNames) \cup Permutations(Workers)
=============================================================================
