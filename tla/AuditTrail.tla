----------------------------- MODULE AuditTrail -----------------------------
(***************************************************************************)
(* Settings, audit events, webhook notifications and exports:              *)
(* internal/domain/audit and internal/domain/settings under the commands   *)
(* of internal/application/command/settings.  A command writes its state,  *)
(* then records an event; the event leaves a notification for every        *)
(* endpoint that listens, and the caller delivers them one by one before   *)
(* it returns.  Each call on a service is one action, the network call of  *)
(* a delivery lies between two of them, and callers interleave.            *)
(***************************************************************************)
EXTENDS Registry, FiniteSets

CONSTANTS
  Callers,          \* API calls that may be under way at once
  EventTypes,       \* what an endpoint may listen to
  SettingsChanged,  \* the type of the events of webhook and security settings
  Exported,         \* the type of the event of an export
  MaxNotes,         \* bound: notifications
  MaxAttempts,      \* maxDeliveryAttempts
  Exports,          \* bound: ids of export records
  Fields, Values,   \* the security settings of the environment and what they may say
  Default,          \* Default[f]: what field f says before it is set
  Patches           \* the sparse updates callers may ask for

ASSUME AuditAssumption ==
  /\ MaxNotes \in Nat
  /\ MaxAttempts \in Nat \ {0}
  /\ IsFiniteSet(Callers) /\ IsFiniteSet(Endpoints)
  /\ {SettingsChanged, Exported} \subseteq EventTypes
  /\ Default \in [Fields -> Values]
  /\ Patches \subseteq UNION {[F -> Values] : F \in SUBSET Fields \ {{}}}

VARIABLES
  subscribed,    \* subscribed[e]: the event types endpoint e listens to
  note,          \* note[n]: the n-th notification
  notes,         \* how many there are
  export,        \* export[x]: status of an export record
  security,      \* the security settings
  wish,          \* wish[f]: the value asked for last, or "unclear", for the properties
  call           \* call[c]: what call c does next and its local copies

vars == <<registry, subscribed, note, notes, export, security, wish, call>>

Notes == 1 .. MaxNotes

NoCall == [step |-> "none", type |-> "none", todo |-> {}, at |-> 0, export |-> None,
           patch |-> << >>, copy |-> Default, late |-> FALSE]
NoNote == [status |-> "none", endpoint |-> None, attempts |-> 0, due |-> FALSE]

Steps == {"none", "write settings", "export", "record", "notify", "deliver"}
NoteStatuses == {"none", "pending", "delivering", "succeeded", "failed", "retry"}

TypeOK ==
  /\ RegistryTypeOK
  /\ subscribed \in [Endpoints -> SUBSET EventTypes]
  /\ note \in [Notes -> [status : NoteStatuses, endpoint : Endpoints \cup {None},
                 attempts : 0 .. MaxAttempts - 1 + Cardinality(Callers), due : BOOLEAN]]
  /\ notes \in 0 .. MaxNotes
  /\ export \in [Exports -> {"none", "running", "succeeded", "failed"}]
  /\ security \in [Fields -> Values]
  /\ wish \in [Fields -> Values \cup {"unclear"}]
  /\ call \in [Callers -> [step : Steps, type : EventTypes \cup {"none"}, todo : SUBSET Notes,
                 at : Notes \cup {0}, export : Exports \cup {None}, patch : Patches \cup {<< >>},
                 copy : [Fields -> Values], late : BOOLEAN]]

Init ==
  /\ RegistryInit
  /\ subscribed = [e \in Endpoints |-> {}]
  /\ note = [n \in Notes |-> NoNote]
  /\ notes = 0
  /\ export = [x \in Exports |-> "none"]
  /\ security = Default
  /\ wish = Default
  /\ call = [c \in Callers |-> NoCall]

Idle(c) == call[c] = NoCall

(* Call c goes on to record an event.                                      *)
Recording(c, type) == call' = [call EXCEPT ![c] = [NoCall EXCEPT !.step = "record", !.type = type]]

-----------------------------------------------------------------------------
(* Commands.                                                               *)

(* The body of a webhook command: what to listen to, and whether at all.   *)
Configure(e) ==
  /\ \E types \in SUBSET EventTypes \ {{}} : subscribed' = [subscribed EXCEPT ![e] = types]
  /\ disabled' \in {disabled \cup {e}, disabled \ {e}}
  /\ UNCHANGED credential

CreateWebhookEndpoint(c, e, n) ==
  /\ Idle(c)
  /\ Create(e, n)
  /\ Configure(e)
  /\ Recording(c, SettingsChanged)
  /\ UNCHANGED <<note, notes, export, security, wish>>

UpdateWebhookEndpoint(c, e, n) ==
  /\ Idle(c)
  /\ Rename(e, n)
  /\ Configure(e)
  /\ Recording(c, SettingsChanged)
  /\ UNCHANGED <<note, notes, export, security, wish>>

(* Commands of domains and credentials that are over, and the replacement  *)
(* of the renewal window: they record an event, their state is elsewhere.  *)
OtherCommand(c) ==
  /\ Idle(c)
  /\ \E type \in EventTypes : Recording(c, type)
  /\ UNCHANGED <<registry, subscribed, note, notes, export, security, wish>>

PatchOverDefault(c, patch) ==                                              \* mutant
  /\ Idle(c)
  /\ call' = [call EXCEPT ![c] = [NoCall EXCEPT !.step = "write settings", !.patch = patch]]
  /\ UNCHANGED <<registry, subscribed, note, notes, export, security, wish>>

(* UpdateSecuritySettings reads under one lock and writes under another.   *)
ReadSecuritySettings(c, patch) ==
  /\ Idle(c)
  /\ call' = [call EXCEPT ![c] = [NoCall EXCEPT !.step = "write settings", !.patch = patch,
                                                !.copy = security]]
  /\ UNCHANGED <<registry, subscribed, note, notes, export, security, wish>>

(* What else was written since the read is gone: late.                     *)
WriteSecuritySettings(c) ==
  LET patch == call[c].patch
      Over(f, old) == IF f \in DOMAIN patch THEN patch[f] ELSE old
      writing(d) == d # c /\ call[d].step = "write settings"
  IN  /\ call[c].step = "write settings"
      /\ security' = [f \in Fields |-> Over(f, call[c].copy[f])]
      /\ wish' = [f \in Fields |-> Over(f, IF call[c].late THEN "unclear" ELSE wish[f])]
      /\ call' = [d \in Callers |->
           IF d = c THEN [NoCall EXCEPT !.step = "record", !.type = SettingsChanged]
           ELSE [call[d] EXCEPT !.late = @ \/ writing(d)]]
      /\ UNCHANGED <<registry, subscribed, note, notes, export>>

(* ExportAuditCSV: the record says running before the file is written.     *)
CreateExportRecord(c, x) ==
  /\ Idle(c)
  /\ export[x] = "none"
  /\ export' = [export EXCEPT ![x] = "running"]
  /\ call' = [call EXCEPT ![c] = [NoCall EXCEPT !.step = "export", !.export = x]]
  /\ UNCHANGED <<registry, subscribed, note, notes, security, wish>>

MarkExportSucceeded(c) ==
  /\ call[c].step = "export"
  /\ export' = [export EXCEPT ![call[c].export] = "succeeded"]
  /\ Recording(c, Exported)
  /\ UNCHANGED <<registry, subscribed, note, notes, security, wish>>

(* Rendering, the directory or the file failed; nothing is recorded.       *)
MarkExportFailed(c) ==
  /\ call[c].step = "export"
  /\ export' = [export EXCEPT ![call[c].export] = "failed"]
  /\ call' = [call EXCEPT ![c] = NoCall]
  /\ UNCHANGED <<registry, subscribed, note, notes, security, wish>>

-----------------------------------------------------------------------------
(* Events and notifications.                                               *)

Listeners(type) == {e \in Endpoints : Exists(e) /\ e \notin disabled /\ type \in subscribed[e]}

(* RecordEvent up to its unlock: a notification for every listener.        *)
RecordEvent(c) ==
  LET heard == Listeners(call[c].type)
      new   == notes + 1 .. notes + Cardinality(heard)
  IN  /\ call[c].step = "record"
      /\ new \subseteq Notes
      /\ \E for \in [new -> heard] :
           /\ \A e \in heard : \E n \in new : for[n] = e
           /\ note' = [n \in Notes |->
                IF n \in new THEN [NoNote EXCEPT !.status = "pending", !.endpoint = for[n]]
                ELSE note[n]]
      /\ notes' = notes + Cardinality(heard)
      /\ call' = [call EXCEPT ![c] = IF new = {} THEN NoCall
                                     ELSE [NoCall EXCEPT !.step = "notify", !.todo = new]]
      /\ UNCHANGED <<registry, subscribed, export, security, wish>>

(* External: a caller of ProcessDueNotifications, which lists first and    *)
(* then processes as RecordEvent does; nothing in the repository calls it. *)
ProcessDueNotifications(c) ==
  LET due == {n \in Notes : note[n].status = "pending" \/ note[n].due}
  IN  /\ Idle(c)
      /\ due # {}
      /\ call' = [call EXCEPT ![c] = [NoCall EXCEPT !.step = "notify", !.todo = due]]
      /\ UNCHANGED <<registry, subscribed, note, notes, export, security, wish>>

(* processNotification up to the network call.  It looks neither at the    *)
(* status of the notification nor at that of the endpoint.                 *)
StartDelivery(c) ==
  /\ call[c].step = "notify"
  /\ \E n \in call[c].todo :
       /\ note' = [note EXCEPT ![n].status = "delivering", ![n].attempts = @ + 1, ![n].due = FALSE]
       /\ call' = [call EXCEPT ![c].step = "deliver", ![c].at = n, ![c].todo = @ \ {n}]
  /\ UNCHANGED <<registry, subscribed, notes, export, security, wish>>

(* What becomes of a notification whose delivery failed.                   *)
AfterFailureOnceMore(n) == IF note[n].attempts > MaxAttempts THEN "failed" ELSE "retry"   \* mutant
AfterFailure(n) == IF note[n].attempts >= MaxAttempts THEN "failed" ELSE "retry"

DropTheRest(c, status) ==                                                  \* mutant
  IF status # "succeeded" \/ call[c].todo = {} THEN NoCall
  ELSE [NoCall EXCEPT !.step = "notify", !.todo = call[c].todo]

(* The others on the list have their turn, whatever became of this one.    *)
Onward(c, status) ==
  IF call[c].todo = {} THEN NoCall ELSE [NoCall EXCEPT !.step = "notify", !.todo = call[c].todo]

EndDelivery(c) ==
  LET n == call[c].at
  IN  /\ call[c].step = "deliver"
      /\ \E status \in {"succeeded", AfterFailure(n)} :
           /\ note' = [note EXCEPT ![n].status = status, ![n].due = FALSE]
           /\ call' = [call EXCEPT ![c] = Onward(c, status)]
      /\ UNCHANGED <<registry, subscribed, notes, export, security, wish>>

(* The time of the next attempt has come.                                  *)
RetryComesDue(n) ==
  /\ note[n].status = "retry" /\ ~note[n].due
  /\ note' = [note EXCEPT ![n].due = TRUE]
  /\ UNCHANGED <<registry, subscribed, notes, export, security, wish, call>>

-----------------------------------------------------------------------------

Next ==
  \/ \E c \in Callers :
       \/ \E e \in Endpoints, n \in DisplayNames :
            CreateWebhookEndpoint(c, e, n) \/ UpdateWebhookEndpoint(c, e, n)
       \/ \E patch \in Patches : ReadSecuritySettings(c, patch)
       \/ \E x \in Exports : CreateExportRecord(c, x)
       \/ WriteSecuritySettings(c) \/ MarkExportSucceeded(c) \/ MarkExportFailed(c)
       \/ OtherCommand(c) \/ RecordEvent(c) \/ ProcessDueNotifications(c)
       \/ StartDelivery(c) \/ EndDelivery(c)
  \/ \E n \in Notes : RetryComesDue(n)

Spec == Init /\ [][Next]_vars

-----------------------------------------------------------------------------
(* Properties.                                                             *)

(* Whatever is under way has somebody who brings it to its end: a pending  *)
(* notification is on the list of a call, one that says delivering is      *)
(* being delivered, an export that says running is being written.  And     *)
(* processors that meet on a notification (processNotification does not    *)
(* look at its status) cannot make it retried beyond the limit for ever:   *)
(* it waits for a retry only below the limit, it has failed only at it,    *)
(* and each other processor adds one attempt at most.                      *)
NothingIsLeftBehind ==
  /\ \A n \in Notes :
       LET Being(step) == \E c \in Callers : call[c].step = step /\ call[c].at = n
       IN  /\ note[n].status = "pending" => \E c \in Callers : n \in call[c].todo
           /\ note[n].status = "delivering" => Being("deliver")
           /\ note[n].status = "retry" => note[n].attempts \in 1 .. MaxAttempts - 1
           /\ note[n].status = "failed" => note[n].attempts >= MaxAttempts
           /\ note[n].attempts < MaxAttempts + Cardinality(Callers)
  /\ \A x \in Exports : export[x] = "running" => \E c \in Callers : call[c].export = x

(* A sparse update of the security settings changes what it names and      *)
(* nothing else, unless another update was written between its read and    *)
(* its write (the two locks of UpdateSecuritySettings).                    *)
SettingsAreTheWish == \A f \in Fields : wish[f] \in {security[f], "unclear"}

(* The comment of processNotification, service.go:676, taken at its word:  *)
(* processors see that a notification is in flight and leave it alone.     *)
OneDeliveryAtATime ==
  \A c, d \in Callers : call[c].step = "deliver" /\ call[d].step = "deliver" /\ call[c].at = call[d].at
    => c = d

(* The transitions of a notification in doc/一期GA详细设计.md, 7.10: none    *)
(* leaves succeeded.                                                       *)
SucceededIsFinal ==
  [][\A n \in Notes : note[n].status = "succeeded" => note'[n].status = "succeeded"]_vars

(* The comment in UpdateSecuritySettings, settings/service.go:159, taken   *)
(* at its word: a sparse update resets no other control.                   *)
UpdatesAreSparse ==
  [][\A f \in Fields : security'[f] # security[f] =>
       \E c \in Callers : call[c].step = "write settings" /\ f \in DOMAIN call[c].patch
                           /\ call'[c].step # "write settings"]_vars
=============================================================================
