------------------------ MODULE CertificateLifecycle ------------------------
(***************************************************************************)
(* What a request for a certificate comes to, without jobs, executions,    *)
(* retries, crashes or the stages of a workflow: control of every          *)
(* identifier is demonstrated and not withdrawn before a certificate is    *)
(* issued; a certificate that was refused is never issued; one that was    *)
(* issued is kept once; the request is completed when the certificate is   *)
(* kept and all its domains are listed with it; a request that is over     *)
(* stays over.                                                             *)
(***************************************************************************)
CONSTANT Identifiers

VARIABLES
  status,          \* of the request: "none", "open", "completed" or "failed"
  controlled,      \* identifiers of which control was demonstrated
  certificate,     \* "none", "refused", "issued" or "kept"
  listed           \* identifiers whose domain refers to the certificate

life == <<status, controlled, certificate, listed>>

LifecycleInit == status = "none" /\ controlled = {} /\ certificate = "none" /\ listed = {}

Submit ==
  /\ status = "none" /\ status' = "open"
  /\ UNCHANGED <<controlled, certificate, listed>>

Demonstrate(i) ==
  /\ certificate \in {"none", "refused"}
  /\ controlled' = controlled \cup {i}
  /\ UNCHANGED <<status, certificate, listed>>

Issue ==
  /\ certificate = "none" /\ controlled = Identifiers
  /\ certificate' = "issued"
  /\ UNCHANGED <<status, controlled, listed>>

Refuse ==
  /\ certificate = "none" /\ certificate' = "refused"
  /\ UNCHANGED <<status, controlled, listed>>

Keep ==
  /\ certificate = "issued" /\ certificate' = "kept"
  /\ UNCHANGED <<status, controlled, listed>>

List(i) ==
  /\ certificate = "kept" /\ listed' = listed \cup {i}
  /\ UNCHANGED <<status, controlled, certificate>>

Complete ==
  /\ status = "open" /\ certificate = "kept" /\ listed = Identifiers
  /\ status' = "completed"
  /\ UNCHANGED <<controlled, certificate, listed>>

(* An execution that is late may fail a request whose certificate another  *)
(* one obtains.                                                            *)
Fail ==
  /\ status = "open" /\ status' = "failed"
  /\ UNCHANGED <<controlled, certificate, listed>>

LifecycleNext ==
  \/ Submit \/ Issue \/ Refuse \/ Keep \/ Complete \/ Fail
  \/ \E i \in Identifiers : Demonstrate(i) \/ List(i)

LifecycleSpec == LifecycleInit /\ [][LifecycleNext]_life
=============================================================================
