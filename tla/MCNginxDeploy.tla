--------------------------- MODULE MCNginxDeploy ----------------------------
(* Instances of NginxDeploy for TLC.                                       *)
EXTENDS NginxDeploy

CONSTANTS r1, r2, old, new, newer

(* Two renewals of one certificate.                                        *)
MCMaterial == [r \in Runs |-> IF r = r1 THEN new ELSE newer]
=============================================================================
