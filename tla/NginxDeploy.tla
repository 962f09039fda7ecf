---------------------------- MODULE NginxDeploy -----------------------------
(***************************************************************************)
(* The deployment of a certificate to NGINX on one host:                   *)
(* internal/agent/deploy/nginx with internal/agent/verify/nginx.           *)
(*                                                                         *)
(* Deploy is a sequence of calls on the file store, the command runner and *)
(* the verifier of the host, one action each.  It takes no lock: a job     *)
(* that is handed out a second time, or two jobs for the same host, run    *)
(* side by side.  Any call may fail; the agent may stop between any two.   *)
(* The file store keeps the contract the tests' fake has: the files exist, *)
(* and a restored file is what was backed up.                              *)
(***************************************************************************)
EXTENDS Naturals, FiniteSets

CONSTANTS
  Runs,          \* executions of Deploy
  Materials,     \* certificates with their keys; no two share a key
  Old,           \* the material on the host in the beginning
  Material,      \* Material[r]: what run r is asked to install
  MaxFaults      \* bound: failing calls and crashes

ASSUME DeployAssumption ==
  /\ Old \in Materials
  /\ Material \in [Runs -> Materials]
  /\ MaxFaults \in Nat

Paths == {"certificate", "key"}

VARIABLES
  disk,          \* disk[path]: external, the material the file is of
  active,        \* external: the material NGINX serves
  deaf,          \* external: NGINX ignored the last reload, unnoticed
  status,        \* status[r]: DeployResult.Status
  step,          \* step[r]: the call run r makes next
  backup,        \* backup[r][path]: what its backup reference refers to
  found,         \* found[r]: the disk when run r began, for the properties
  alone,         \* alone[r]: no other run was under way since, for the properties
  faults         \* bound: see MaxFaults

vars == <<disk, active, deaf, status, step, backup, found, alone, faults>>

Stages   == {"pending", "prechecking", "backing_up", "installing", "reloading", "verifying",
             "rolling_back"}
Outcomes == {"succeeded", "failed", "rolled_back", "rollback_failed"}
Calls    == {"backup certificate", "backup key", "write certificate", "write key",
             "test", "reload", "verify", "restore certificate", "restore key",
             "test again", "reload again"}

TypeOK ==
  /\ disk \in [Paths -> Materials]
  /\ active \in Materials
  /\ deaf \in BOOLEAN
  /\ status \in [Runs -> Stages \cup Outcomes \cup {"crashed"}]
  /\ step \in [Runs -> Calls \cup {"begin", "precheck", "none"}]
  /\ backup \in [Runs -> [Paths -> Materials]]
  /\ found \in [Runs -> [Paths -> Materials]]
  /\ alone \in [Runs -> BOOLEAN]
  /\ faults \in 0 .. MaxFaults

Pair(m) == [path \in Paths |-> m]
Whole == disk["certificate"] = disk["key"]
UnderWay(r) == status[r] \in Stages \ {"pending"}

Init ==
  /\ disk = Pair(Old)
  /\ active = Old
  /\ deaf = FALSE
  /\ status = [r \in Runs |-> "pending"]
  /\ step = [r \in Runs |-> "begin"]
  /\ backup = [r \in Runs |-> Pair(Old)]
  /\ found = [r \in Runs |-> Pair(Old)]
  /\ alone = [r \in Runs |-> TRUE]
  /\ faults = 0

Fault == faults < MaxFaults /\ faults' = faults + 1

(* Where a run goes on: its next call, and the status it has from then on. *)
To(call, stage) == [call |-> call, stage |-> stage]
End(outcome) == To("none", outcome)
RollBack == To("restore certificate", "rolling_back")

GoOn(r, move) ==
  /\ step' = [step EXCEPT ![r] = move.call]
  /\ status' = [status EXCEPT ![r] = move.stage]

server  == <<active, deaf>>
history == <<found, alone>>

-----------------------------------------------------------------------------
Begin(r) ==
  /\ step[r] = "begin"
  /\ GoOn(r, To("precheck", "prechecking"))
  /\ found' = [found EXCEPT ![r] = disk]
  /\ LET others == {q \in Runs \ {r} : UnderWay(q)}
     IN  alone' = [q \in Runs |-> IF q = r THEN others = {} ELSE q \notin others /\ alone[q]]
  /\ UNCHANGED <<disk, server, backup, faults>>

(* The request is complete, its paths are allowed, certificate and key     *)
(* belong together, the configuration can be read; or the run is over.     *)
Precheck(r) ==
  /\ step[r] = "precheck"
  /\ GoOn(r, To("backup certificate", "backing_up")) \/ GoOn(r, End("failed"))
  /\ UNCHANGED <<disk, server, backup, history, faults>>

Backup(r, path, call, next) ==
  /\ step[r] = call
  /\ \/ /\ backup' = [backup EXCEPT ![r][path] = disk[path]]
        /\ GoOn(r, next)
        /\ UNCHANGED faults
     \/ GoOn(r, End("failed")) /\ Fault /\ UNCHANGED backup
  /\ UNCHANGED <<disk, server, history>>

ToBackupKey        == To("backup key", "backing_up")
ToWriteCertificate == To("write certificate", "installing")
BackupCertificate(r) == Backup(r, "certificate", "backup certificate", ToBackupKey)
BackupKey(r)         == Backup(r, "key", "backup key", ToWriteCertificate)

(* A write that fails may have taken effect.                               *)
Write(r, path, call, next) ==
  /\ step[r] = call
  /\ \/ /\ disk' = [disk EXCEPT ![path] = Material[r]]
        /\ \/ GoOn(r, next) /\ UNCHANGED faults
           \/ GoOn(r, RollBack) /\ Fault
     \/ GoOn(r, RollBack) /\ Fault /\ UNCHANGED disk
  /\ UNCHANGED <<server, backup, history>>

ToWriteKey == To("write key", "installing")
ToTest     == To("test", "reloading")
FailOnWriteKey(r) ==                                                       \* mutant
  /\ step[r] = "write key"
  /\ \/ disk' = [disk EXCEPT !["key"] = Material[r]] /\ GoOn(r, ToTest) /\ UNCHANGED faults
     \/ GoOn(r, End("failed")) /\ Fault /\ UNCHANGED disk
  /\ UNCHANGED <<server, backup, history>>

WriteCertificate(r) == Write(r, "certificate", "write certificate", ToWriteKey)
WriteKey(r)         == Write(r, "key", "write key", ToTest)

(* External: nginx -t refuses a certificate and a key that do not match.   *)
ConfigTest(r, call, next, giveUp) ==
  /\ step[r] = call
  /\ \/ Whole /\ GoOn(r, next) /\ UNCHANGED faults
     \/ ~Whole /\ GoOn(r, giveUp) /\ UNCHANGED faults
     \/ GoOn(r, giveUp) /\ Fault
  /\ UNCHANGED <<disk, server, backup, history>>

(* External: NGINX takes over a pair that is whole and goes on with the    *)
(* one it has otherwise, which the command need not report.  A reload that *)
(* is reported as failed may have taken effect, one that is reported as    *)
(* done may have had none.                                                 *)
TakesOver == Whole /\ active' = disk["certificate"] /\ deaf' = FALSE
Ignores   == UNCHANGED active /\ deaf' = TRUE
Reload(r, call, next, giveUp) ==
  /\ step[r] = call
  /\ \/ TakesOver /\ GoOn(r, next) /\ UNCHANGED faults
     \/ ~Whole /\ Ignores /\ (GoOn(r, next) \/ GoOn(r, giveUp)) /\ UNCHANGED faults
     \/ Ignores /\ (GoOn(r, next) \/ GoOn(r, giveUp)) /\ Fault
     \/ TakesOver /\ GoOn(r, giveUp) /\ Fault
  /\ UNCHANGED <<disk, backup, history>>

ToReload == To("reload", "reloading")
ToVerify == To("verify", "verifying")
TestInstalled(r)   == ConfigTest(r, "test", ToReload, RollBack)
ReloadInstalled(r) == Reload(r, "reload", ToVerify, RollBack)

VerifyAnything(r) ==                                                       \* mutant
  /\ step[r] = "verify"
  /\ GoOn(r, End("succeeded"))
  /\ UNCHANGED <<disk, server, backup, history, faults>>

(* The fingerprint that is served is compared with the one expected; the   *)
(* probe itself may fail.                                                  *)
Verify(r) ==
  /\ step[r] = "verify"
  /\ \/ active = Material[r] /\ GoOn(r, End("succeeded")) /\ UNCHANGED faults
     \/ active # Material[r] /\ GoOn(r, RollBack) /\ UNCHANGED faults
     \/ GoOn(r, RollBack) /\ Fault
  /\ UNCHANGED <<disk, server, backup, history>>

-----------------------------------------------------------------------------
(* Compensation: both files are restored, then tested and reloaded.        *)

Restore(r, path, call, next) ==
  /\ step[r] = call
  /\ \/ /\ disk' = [disk EXCEPT ![path] = backup[r][path]]
        /\ GoOn(r, next)
        /\ UNCHANGED faults
     \/ GoOn(r, End("rollback_failed")) /\ Fault /\ UNCHANGED disk
  /\ UNCHANGED <<server, backup, history>>

ToRestoreKey  == To("restore key", "rolling_back")
ToTestAgain   == To("test again", "rolling_back")
ToReloadAgain == To("reload again", "rolling_back")
RolledBack     == End("rolled_back")
RollbackFailed == End("rollback_failed")

RestoreCertificate(r) == Restore(r, "certificate", "restore certificate", ToRestoreKey)
RestoreKey(r)         == Restore(r, "key", "restore key", ToTestAgain)
TestRestored(r)       == ConfigTest(r, "test again", ToReloadAgain, RollbackFailed)
ReloadRestored(r)     == Reload(r, "reload again", RolledBack, RollbackFailed)

Crash(r) ==
  /\ UnderWay(r)
  /\ Fault
  /\ GoOn(r, End("crashed"))
  /\ UNCHANGED <<disk, server, backup, history>>

Deploy(r) ==
  \/ Begin(r) \/ Precheck(r)
  \/ BackupCertificate(r) \/ BackupKey(r)
  \/ WriteCertificate(r) \/ WriteKey(r)
  \/ TestInstalled(r) \/ ReloadInstalled(r) \/ Verify(r)
  \/ RestoreCertificate(r) \/ RestoreKey(r) \/ TestRestored(r) \/ ReloadRestored(r)

Next == \E r \in Runs : Deploy(r) \/ Crash(r)

Spec == Init /\ [][Next]_vars

-----------------------------------------------------------------------------
(* Properties.                                                             *)

(* service.go:27, "rolls back local changes when any post-install stage    *)
(* fails": what a run that had the host to itself reports is what it did   *)
(* to the files, whatever an earlier run that crashed or could not roll    *)
(* back left there.                                                        *)
OutcomeTellsTheDisk ==
  [][\A r \in Runs : UnderWay(r) /\ alone[r] =>
       /\ status'[r] = "succeeded" => disk' = Pair(Material[r])
       /\ status'[r] \in {"failed", "rolled_back"} => disk' = found[r]]_vars

(* service.go:75: a run that had the host to itself and ends succeeded     *)
(* leaves a pair that NGINX serves; so does one that ends rolled back,     *)
(* whose last reload is not verified, unless NGINX ignored that reload.    *)
(* A mixed pair that was found is never reported as rolled back.           *)
ReportedIsServed ==
  [][\A r \in Runs : UnderWay(r) /\ alone[r] =>
       /\ status'[r] = "succeeded" => disk' = Pair(active')
       /\ status'[r] = "rolled_back" => Whole' /\ (deaf' \/ disk' = Pair(active'))]_vars
=============================================================================
