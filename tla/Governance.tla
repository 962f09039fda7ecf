----------------------------- MODULE Governance -----------------------------
(***************************************************************************)
(* What the requests of one environment leave behind: the certificate      *)
(* assets with their versions and the certificate list of every domain.    *)
(*                                                                         *)
(* A request fixes its domains and its common name when it is submitted,   *)
(* and domains may be renamed ever after.  Between submission and          *)
(* completion lies the workflow of module IssueWorkflow, which touches     *)
(* nothing here.  The completion is a job: a worker runs completeIssued,   *)
(* one store call after the other, may crash or lose its lease at any      *)
(* point, and the job is run again.                                        *)
(***************************************************************************)
EXTENDS Registry, Sequences, FiniteSets, SequencesExt

CONSTANTS
  Requests,      \* ids of certificate requests, each with one workflow, in order of creation
  Workers,       \* worker processes
  Unknown,       \* an asset id nobody issued
  MaxDomains,    \* bound: domains of one request
  MaxAttempts,   \* retry budget of a completion job
  MaxFaults      \* bound: crashes, and leases lost under a running worker

ASSUME GovernanceAssumption ==
  /\ {Requests, Assets} \subseteq SUBSET Nat
  /\ IsFiniteSet(Requests)
  /\ Assets \cap UNION {Domains, Credentials, Accounts, Targets, Endpoints} = {}
  /\ None \notin Requests \cup Workers
  /\ Unknown \notin Resources \cup {None}
  /\ {MaxDomains, MaxAttempts, MaxFaults} \subseteq Nat

VARIABLES
  request,    \* request[r]: its row
  job,        \* job[r]: the continue job of its issued workflow
  asset,      \* asset[a]: domains and current version, a position in versions[a]
  versions,   \* versions[a]: the requests whose workflows issued a's versions
  links,      \* links[d]: the assets listed under domain d
  call,       \* call[c]: what worker c is doing and its local copies
  faults      \* bound: see MaxFaults

issued == <<asset, versions, links>>
vars == <<registry, request, job, issued, call, faults>>

(* Domain ids as a request lists them: in order, none twice.               *)
DomainLists == {ds \in BoundedSeq(Domains, MaxDomains) : ds # << >> /\ IsInjective(ds)}
Listed(ds) == {ds[i] : i \in DOMAIN ds}

AssetIDs == Assets \cup {None, Unknown}

NoCall    == [step |-> "none", request |-> None, asset |-> None, domains |-> << >>, name |-> None]
NoRequest == [status |-> "none", asset |-> None, domains |-> << >>, name |-> None]
NoJob     == [tries |-> 0, holder |-> None, over |-> FALSE]

Steps == {"none", "persist", "link", "complete", "report"}

TypeOK ==
  /\ RegistryTypeOK
  /\ request \in [Requests -> [status : {"none", "running", "completed"}, asset : AssetIDs,
                    domains : DomainLists \cup {<< >>}, name : Names \cup {None}]]
  /\ job \in [Requests -> [tries : 0 .. MaxAttempts, holder : Workers \cup {None}, over : BOOLEAN]]
  /\ asset \in [Assets -> [domains : DomainLists \cup {<< >>}, current : 0 .. Cardinality(Requests)]]
  /\ versions \in [Assets -> BoundedSeq(Requests, Cardinality(Requests))]
  /\ links \in [Domains -> SUBSET Assets]
  /\ call \in [Workers -> [step : Steps, request : Requests \cup {None}, asset : AssetIDs,
                 domains : DomainLists \cup {<< >>}, name : Names \cup {None}]]
  /\ faults \in 0 .. MaxFaults

Init ==
  /\ RegistryInit
  /\ request = [r \in Requests |-> NoRequest]
  /\ job = [r \in Requests |-> NoJob]
  /\ asset = [a \in Assets |-> [domains |-> << >>, current |-> 0]]
  /\ versions = [a \in Assets |-> << >>]
  /\ links = [d \in Domains |-> {}]
  /\ call = [c \in Workers |-> NoCall]
  /\ faults = 0

Idle(c) == call[c].step = "none"

-----------------------------------------------------------------------------
(* Submission.                                                             *)

(* SubmitRequest finds the account and the domains; the asset id is taken  *)
(* as it comes.  It reads one store after the other and writes last, what  *)
(* it writes is a copy of what it read and nobody could see it before: it  *)
(* may as well have written at its first read, and is one action.          *)
Submit(ds, a) ==
  /\ \E account \in Accounts : Exists(account)
  /\ \A d \in Listed(ds) : Exists(d)
  /\ \E r \in Requests :
       /\ request[r] = NoRequest /\ \A q \in Requests : q < r => request[q] # NoRequest
       /\ request' = [request EXCEPT ![r] = [status |-> "running", asset |-> a, domains |-> ds,
                                            name |-> name[Head(ds)]]]
  /\ UNCHANGED <<registry, job, issued, call, faults>>

(* An API call may name an asset, known or not; RenewAsset names one with  *)
(* its domains.                                                            *)
CreateRequest(ds) ==
  \E a \in {None, Unknown} \cup {x \in Assets : Exists(x)} : Submit(ds, a)

RenewAsset(a) == Exists(a) /\ Submit(asset[a].domains, a)

-----------------------------------------------------------------------------
(* Completion.                                                             *)

ClaimableForEver(r) ==                                                     \* mutant
  request[r].status # "none" /\ ~job[r].over /\ job[r].holder = None

(* The queue hands out a job nobody holds, up to its retry budget.         *)
Claimable(r) ==
  /\ request[r].status # "none" /\ ~job[r].over /\ job[r].holder = None
  /\ job[r].tries < MaxAttempts

(* A worker gets the job: completeIssued reads the request and its domains. *)
StartCompletion(c, r) ==
  /\ Idle(c)
  /\ Claimable(r)
  /\ job' = [job EXCEPT ![r].tries = @ + 1, ![r].holder = c]
  /\ call' = [call EXCEPT ![c] = [step |-> "persist", request |-> r, asset |-> request[r].asset,
                                  domains |-> request[r].domains, name |-> request[r].name]]
  /\ UNCHANGED <<registry, request, issued, faults>>

(* The job of request r is over for c, or to be tried again, if c has it.  *)
Release(c, r, over) ==
  job' = IF job[r].holder = c THEN [job EXCEPT ![r].holder = None, ![r].over = over] ELSE job

(* The version of r's workflow: a second call of UpsertIssued finds it and *)
(* makes it the current one again.                                         *)
AddVersion(a, r, ds) ==
  LET known == {i \in DOMAIN versions[a] : versions[a][i] = r}
  IN  IF known # {}
      THEN /\ asset' = [asset EXCEPT ![a].current = CHOOSE i \in known : TRUE]
           /\ UNCHANGED versions
      ELSE /\ versions' = [versions EXCEPT ![a] = Append(@, r)]
           /\ asset' = [asset EXCEPT ![a] = [domains |-> ds, current |-> Len(versions[a]) + 1]]

(* UpsertIssued under name n: the asset the request names, else the one    *)
(* that bears n, else a new one; an unknown id fails and is tried again.   *)
Upsert(c, n) ==
  LET r == call[c].request
      a == IF call[c].asset # None THEN call[c].asset ELSE index[Assets][n]
  IN  /\ call[c].step = "persist"
      /\ \/ /\ a \in Assets
            /\ AddVersion(a, r, call[c].domains)
            /\ call' = [call EXCEPT ![c].step = "link", ![c].asset = a]
            /\ UNCHANGED <<registry, job>>
         \/ /\ a = None
            /\ \E new \in Assets :
                 /\ \A old \in Assets : old < new => Exists(old)
                 /\ Create(new, n)
                 /\ AddVersion(new, r, call[c].domains)
                 /\ call' = [call EXCEPT ![c].step = "link", ![c].asset = new]
            /\ UNCHANGED <<disabled, credential, job>>
         \/ /\ a = Unknown
            /\ Release(c, r, FALSE)
            /\ call' = [call EXCEPT ![c] = NoCall]
            /\ UNCHANGED <<registry, asset, versions>>
      /\ UNCHANGED <<request, links, faults>>

PersistUnderToday(c) == Upsert(c, name[Head(call[c].domains)])             \* mutant

(* The name is the request's common name.                                  *)
Persist(c) == Upsert(c, call[c].name)

(* LinkCertificateAsset of the domains, one call each.                     *)
Link(c) ==
  /\ call[c].step = "link"
  /\ links' = [links EXCEPT ![Head(call[c].domains)] = @ \cup {call[c].asset}]
  /\ call' = [call EXCEPT ![c].domains = Tail(@),
                          ![c].step = IF Len(call[c].domains) = 1 THEN "complete" ELSE "link"]
  /\ UNCHANGED <<registry, request, job, asset, versions, faults>>

(* ensureRequestCompleted, from the row read at the start: a request that  *)
(* another execution has completed since refuses the transition, and the   *)
(* job fails for good all the same.                                        *)
Complete(c) ==
  /\ call[c].step = "complete"
  /\ request' = [request EXCEPT ![call[c].request].status = "completed"]
  /\ call' = [call EXCEPT ![c].step = "report"]
  /\ UNCHANGED <<registry, job, issued, faults>>

Report(c) ==
  /\ call[c].step = "report"
  /\ Release(c, call[c].request, TRUE)
  /\ call' = [call EXCEPT ![c] = NoCall]
  /\ UNCHANGED <<registry, request, issued, faults>>

(* The process stops; its lease runs out some time later.                  *)
Crash(c) ==
  /\ call[c].request # None
  /\ faults < MaxFaults /\ faults' = faults + 1
  /\ call' = [call EXCEPT ![c] = NoCall]
  /\ UNCHANGED <<registry, request, job, issued>>

(* The lease runs out, whether or not the holder still works.              *)
LoseLease(r) ==
  /\ job[r].holder # None
  /\ IF call[job[r].holder].request = r
     THEN faults < MaxFaults /\ faults' = faults + 1
     ELSE UNCHANGED faults
  /\ job' = [job EXCEPT ![r].holder = None]
  /\ UNCHANGED <<registry, request, issued, call>>

-----------------------------------------------------------------------------

Next ==
  \/ RegistryNext /\ UNCHANGED <<request, job, issued, call, faults>>
  \/ \E ds \in DomainLists : CreateRequest(ds)
  \/ \E a \in Assets : RenewAsset(a)
  \/ \E c \in Workers :
       \/ \E r \in Requests : StartCompletion(c, r)
       \/ Persist(c) \/ Link(c) \/ Complete(c) \/ Report(c) \/ Crash(c)
  \/ \E r \in Requests : LoseLease(r)

Spec == Init /\ [][Next]_vars

-----------------------------------------------------------------------------
(* Properties.                                                             *)

(* Where request r has a version: asset and position.                      *)
Versions(r) == {v \in Assets \X (1 .. Cardinality(Requests)) :
                  v[2] \in DOMAIN versions[v[1]] /\ versions[v[1]][v[2]] = r}

(* A certificate is stored once, however often its completion is run, by   *)
(* how many workers, and whatever its domain is called by then             *)
(* (UpsertIssued recognises a workflow only among the versions of the      *)
(* asset it chose); and while no completion had to be repeated an asset    *)
(* stands for its newest version and for that version's domains.           *)
EachIssueIsOneVersion ==
  /\ \A r \in Requests : Cardinality(Versions(r)) <= 1
  /\ \A a \in Assets :
       /\ Exists(a) <=> versions[a] # << >>
       /\ Exists(a) => /\ asset[a].current \in DOMAIN versions[a]
                       /\ asset[a].domains = request[Last(versions[a])].domains
       /\ Exists(a) /\ (\A r \in Requests : job[r].tries <= 1)
            => asset[a].current = Len(versions[a])

(* A domain lists exactly the assets that had a version for it; a request  *)
(* says completed only when its version is stored and listed under each of *)
(* its domains (completeIssued, with links written one by one).            *)
ListsTellTheVersions ==
  /\ \A d \in Domains : \A a \in links[d] :
       \E i \in DOMAIN versions[a] : d \in Listed(request[versions[a][i]].domains)
  /\ \A r \in Requests : request[r].status = "completed" =>
       \E v \in Versions(r) : \A d \in Listed(request[r].domains) : v[1] \in links[d]

(* What was issued is on record, once and under every domain it is for:    *)
(* the three stores a completion writes agree after repetitions, crashes,  *)
(* overlapping executions and renamings of the domains in between.         *)
CertificatesAreOnRecord == EachIssueIsOneVersion /\ ListsTellTheVersions
=============================================================================
