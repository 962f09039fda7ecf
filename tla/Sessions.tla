------------------------------ MODULE Sessions ------------------------------
(***************************************************************************)
(* Login, refresh, logout and the locale of a user:                        *)
(* internal/domain/identity over its memory store, called by               *)
(* internal/application/command/auth, which resolves the caller's scope    *)
(* (module Tenancy) once the session is stored.                            *)
(*                                                                         *)
(* Every operation is a few calls on the store.  The store locks for one   *)
(* call; the operations take no lock, read a record, change their copy and *)
(* write the whole of it back.  Each call on the store is one action.      *)
(***************************************************************************)
EXTENDS Naturals, FiniteSets, Tenancy

CONSTANTS
  Callers,       \* requests that may be under way at once
  Sessions,      \* session ids
  NoSession,
  MaxTokens,     \* bound: refresh tokens that get issued
  Locales,       \* supported locales
  Worlds,        \* tenancy data the deployment may be seeded with
  Selections     \* scopes a request may ask for

ASSUME SessionsAssumption ==
  /\ NoSession \notin Sessions
  /\ MaxTokens \in Nat
  /\ Locales # {} /\ {"none", "unclear"} \cap Locales = {}

ASSUME WorldsAssumption ==
  \A w \in Worlds : w \in World /\ \A b \in w.bindings : WellBound(b)

(* Refresh tokens are random: the next one is one that never was.  A token *)
(* stands for its hash and for the instant of expiry stored with it.       *)
Tokens == 1 .. MaxTokens

VARIABLES
  world,         \* the tenancy data; nothing changes it
  session,       \* session[s]: its row: status and refresh token
  index,         \* index[t]: sessionByRefresh
  locale,        \* what the user's row says
  expired,       \* refresh tokens whose time is over
  issued,        \* how many tokens have been issued
  call,          \* call[c]: the request c is and its local copies
  delivered,     \* external: refresh tokens that reached a client
  known,         \* external: sessions whose access token reached a client
  spent,         \* tokens a rotation has replaced, for the properties
  settled,       \* sessions logged out while no refresh was under way, for the properties
  wish           \* the locale that was saved last, "unclear" once that raced, for the properties

rows    == <<session, index, locale>>
history == <<spent, settled, wish>>
clients == <<delivered, known>>
vars == <<world, rows, expired, issued, call, clients, history>>

NoCall == [op |-> "none", step |-> "none", session |-> NoSession, token |-> 0,
           status |-> "none", locale |-> "none"]
NeverSaved == [status |-> "none", token |-> 0]

Operations == {"none", "login", "refresh", "logout", "locale"}
Steps      == {"none", "find session", "find user", "save session", "update session",
               "update user", "resolve"}

TypeOK ==
  /\ world \in Worlds
  /\ session \in [Sessions -> [status : {"none", "active", "revoked"}, token : Tokens \cup {0}]]
  /\ index \in [Tokens -> Sessions \cup {NoSession}]
  /\ locale \in Locales
  /\ expired \subseteq Tokens
  /\ issued \in 0 .. MaxTokens
  /\ call \in [Callers -> [op : Operations, step : Steps, session : Sessions \cup {NoSession},
                           token : Tokens \cup {0}, status : {"none", "active", "revoked"},
                           locale : Locales \cup {"none"}]]
  /\ delivered \subseteq Tokens
  /\ known \subseteq Sessions
  /\ spent \subseteq Tokens
  /\ settled \subseteq Sessions
  /\ wish \in Locales \cup {"unclear"}

Init ==
  /\ world \in Worlds
  /\ session = [s \in Sessions |-> NeverSaved]
  /\ index = [t \in Tokens |-> NoSession]
  /\ \E l \in Locales : locale = l /\ wish = l
  /\ expired = {}
  /\ issued = 0
  /\ call = [c \in Callers |-> NoCall]
  /\ delivered = {}
  /\ known = {}
  /\ spent = {}
  /\ settled = {}

Live(status, t) == status = "active" /\ t \notin expired
Idle(c) == call[c] = NoCall

(* A login or a refresh has copied the user's row and will write it back.  *)
CopiesUser(c) == call[c].locale # "none"
Refreshing(s) == \E c \in Callers : call[c].op = "refresh" /\ call[c].session = s
                                      /\ call[c].step \in {"find user", "update session"}

-----------------------------------------------------------------------------
(* The store.                                                              *)

SaveSession(s, t) ==
  /\ session' = [session EXCEPT ![s] = [status |-> "active", token |-> t]]
  /\ index' = [index EXCEPT ![t] = s]

UpdateSessionOnly(s, status, t) ==                                         \* mutant
  /\ session' = [session EXCEPT ![s] = [status |-> status, token |-> t]]
  /\ index' = [index EXCEPT ![t] = s]

(* The old token of the row leaves the index, whichever it is by now.      *)
UpdateSession(s, status, t) ==
  /\ session' = [session EXCEPT ![s] = [status |-> status, token |-> t]]
  /\ index' = [[index EXCEPT ![session[s].token] = NoSession] EXCEPT ![t] = s]

-----------------------------------------------------------------------------
(* Login.                                                                  *)

FindByUsername(c) ==
  /\ Idle(c)
  /\ call' = [call EXCEPT ![c] = [NoCall EXCEPT !.op = "login", !.step = "save session",
                                                !.locale = locale]]
  /\ UNCHANGED <<world, rows, expired, issued, clients, history>>

SaveNewSession(c) ==
  /\ call[c].step = "save session"
  /\ issued < MaxTokens
  /\ \E s \in {x \in Sessions : session[x] = NeverSaved} :
       /\ SaveSession(s, issued + 1)
       /\ call' = [call EXCEPT ![c].session = s, ![c].token = issued + 1, ![c].step = "update user"]
  /\ issued' = issued + 1
  /\ UNCHANGED <<world, locale, expired, clients, history>>

(* Refresh.                                                                *)

FindAnySession(c, t) ==                                                    \* mutant
  /\ Idle(c)
  /\ t \in delivered
  /\ index[t] # NoSession
  /\ LET s == index[t]
     IN  call' = [call EXCEPT ![c] = [NoCall EXCEPT !.op = "refresh", !.step = "find user",
                    !.session = s, !.token = session[s].token, !.status = session[s].status]]
  /\ UNCHANGED <<world, rows, expired, issued, clients, history>>

(* A token that is unknown, revoked or expired ends the request.           *)
FindByRefreshToken(c, t) ==
  /\ Idle(c)
  /\ t \in delivered
  /\ index[t] # NoSession
  /\ LET s == index[t]
     IN  /\ Live(session[s].status, session[s].token)
         /\ call' = [call EXCEPT ![c] = [NoCall EXCEPT !.op = "refresh", !.step = "find user",
                       !.session = s, !.token = session[s].token, !.status = session[s].status]]
  /\ UNCHANGED <<world, rows, expired, issued, clients, history>>

FindUser(c) ==
  /\ call[c].step = "find user"
  /\ call' = [call EXCEPT ![c] = IF @.op = "locale" THEN [@ EXCEPT !.step = "update user"]
                                  ELSE [@ EXCEPT !.step = "update session", !.locale = locale]]
  /\ UNCHANGED <<world, rows, expired, issued, clients, history>>

(* The session is active with a new token, whatever the row says by now.   *)
RotateSession(c) ==
  LET s == call[c].session IN
  /\ call[c].op = "refresh" /\ call[c].step = "update session"
  /\ issued < MaxTokens
  /\ UpdateSession(s, "active", issued + 1)
  /\ spent' = spent \cup {session[s].token}
  /\ call' = [call EXCEPT ![c].token = issued + 1, ![c].step = "update user"]
  /\ issued' = issued + 1
  /\ UNCHANGED <<world, locale, expired, clients, settled, wish>>

ForgetLocale(c) ==                                                         \* mutant
  /\ call[c].op \in {"login", "refresh"} /\ call[c].step = "update user"
  /\ locale' = CHOOSE l \in Locales : TRUE
  /\ call' = [call EXCEPT ![c].step = "resolve", ![c].locale = "none"]
  /\ UNCHANGED <<world, session, index, expired, issued, clients, history>>

(* The row of the user is written back, last login and all.                *)
UpdateLastLogin(c) ==
  /\ call[c].op \in {"login", "refresh"} /\ call[c].step = "update user"
  /\ locale' = call[c].locale
  /\ call' = [call EXCEPT ![c].step = "resolve", ![c].locale = "none"]
  /\ UNCHANGED <<world, session, index, expired, issued, clients, history>>

(* The scope is resolved when the session is stored and the token rotated: *)
(* a request for a scope that the user does not have fails, and the new    *)
(* tokens reach nobody.                                                    *)
Answer(c, selection) ==
  /\ call[c].op \in {"login", "refresh"} /\ call[c].step = "resolve"
  /\ IF Resolve(world, selection).ok
     THEN /\ delivered' = delivered \cup {call[c].token}
          /\ known' = known \cup {call[c].session}
     ELSE UNCHANGED clients
  /\ call' = [call EXCEPT ![c] = NoCall]
  /\ UNCHANGED <<world, rows, expired, issued, history>>

-----------------------------------------------------------------------------
(* Requests with an access token, which points to a session.  The token is *)
(* accepted while the session is live and for a scope that resolves.       *)

Authenticated(c, s, op, step) ==
  /\ Idle(c)
  /\ s \in known
  /\ Live(session[s].status, session[s].token)
  /\ \E selection \in Selections : Resolve(world, selection).ok
  /\ call' = [call EXCEPT ![c] = [NoCall EXCEPT !.op = op, !.step = step, !.session = s]]
  /\ UNCHANGED <<world, rows, expired, issued, clients, history>>

BeginLogout(c, s) == Authenticated(c, s, "logout", "find session")

FindSessionByID(c) ==
  /\ call[c].op = "logout" /\ call[c].step = "find session"
  /\ call' = [call EXCEPT ![c].token = session[call[c].session].token, ![c].step = "update session"]
  /\ UNCHANGED <<world, rows, expired, issued, clients, history>>

RevokeAsExpired(c) ==                                                      \* mutant
  LET s == call[c].session IN
  /\ call[c].op = "logout" /\ call[c].step = "update session"
  /\ UpdateSession(s, "expired", call[c].token)
  /\ settled' = IF Refreshing(s) THEN settled ELSE settled \cup {s}
  /\ call' = [call EXCEPT ![c] = NoCall]
  /\ UNCHANGED <<world, locale, expired, issued, clients, spent, wish>>

(* The copy is written back as revoked, its token as it was when read.     *)
Revoke(c) ==
  LET s == call[c].session IN
  /\ call[c].op = "logout" /\ call[c].step = "update session"
  /\ UpdateSession(s, "revoked", call[c].token)
  /\ settled' = IF Refreshing(s) THEN settled ELSE settled \cup {s}
  /\ call' = [call EXCEPT ![c] = NoCall]
  /\ UNCHANGED <<world, locale, expired, issued, clients, spent, wish>>

BeginLocale(c, s) == Authenticated(c, s, "locale", "find user")

SaveLocale(c, l) ==
  /\ call[c].op = "locale" /\ call[c].step = "update user"
  /\ locale' = l
  /\ wish' = IF \E d \in Callers \ {c} : CopiesUser(d) THEN "unclear" ELSE l
  /\ call' = [call EXCEPT ![c] = NoCall]
  /\ UNCHANGED <<world, session, index, expired, issued, clients, spent, settled>>

Expire(t) ==
  /\ t <= issued /\ t \notin expired
  /\ expired' = expired \cup {t}
  /\ UNCHANGED <<world, rows, issued, call, clients, history>>

Next ==
  \/ \E c \in Callers :
       \/ FindByUsername(c) \/ SaveNewSession(c)
       \/ \E t \in Tokens : FindByRefreshToken(c, t)
       \/ FindUser(c) \/ RotateSession(c) \/ UpdateLastLogin(c)
       \/ \E selection \in Selections : Answer(c, selection)
       \/ \E s \in Sessions : BeginLogout(c, s) \/ BeginLocale(c, s)
       \/ FindSessionByID(c) \/ Revoke(c)
       \/ \E l \in Locales : SaveLocale(c, l)
  \/ \E t \in Tokens : Expire(t)

Spec == Init /\ [][Next]_vars

-----------------------------------------------------------------------------
(* Properties.                                                             *)

(* memory_store.go:163: the index of refresh tokens names exactly the      *)
(* tokens that are in the rows, whoever writes stale copies of them back.  *)
IndexIsExact ==
  \A t \in Tokens, s \in Sessions : index[t] = s <=> session[s].token = t

(* service.go:113: a refresh that begins after its token was replaced is   *)
(* refused, also when a logout has written the token back into its row.    *)
(* Refreshes that read the session before the rotation are let in as well. *)
SpentTokensAreRefused ==
  [][\A c \in Callers :
       Idle(c) /\ call'[c].op = "refresh" => call'[c].token \notin spent]_vars

(* service.go:169: a logout is final, unless a refresh of the session was  *)
(* under way that had read it before.                                      *)
SettledIsRevoked == \A s \in settled : session[s].status = "revoked"

(* The comment of Refresh, service.go:111, taken at its word: no refresh   *)
(* recreates access after a logout.                                        *)
RevokedStaysRevoked ==
  [][\A s \in Sessions : session[s].status = "revoked" => session'[s].status = "revoked"]_vars

(* The comment of UpdateLocale, service.go:175, taken at its word: what it *)
(* persists stays, until the locale is updated again.                      *)
LocaleIsPersisted ==
  [][locale' # locale => \E c \in Callers : call[c].op = "locale" /\ Idle(c)']_vars

(* service.go:185: the locale of a user is the one saved last, unless a    *)
(* login, a refresh or another save had copied the row before.             *)
LocaleIsTheWish == wish = "unclear" \/ locale = wish

(* tenancy/service.go:142: what a request resolves to is an active chain   *)
(* of tenant, project and environment, and what it asked for, never a      *)
(* substitute; and tenancy/service.go:188: the user reaches every active   *)
(* environment that a binding covers, at whatever level it is bound, and   *)
(* has the role there.                                                     *)
ScopesResolve ==
  /\ \A selection \in Selections : Coherent(world, selection)
  /\ \A b \in ActiveBindings(world) : \A e \in Covers(world, b) : Reached(world, b, e)
=============================================================================
