------------------------------ MODULE Registry ------------------------------
(***************************************************************************)
(* The named resources of one environment: domains, DNS credentials, CA    *)
(* accounts, deployment targets and webhook endpoints, each kind in a      *)
(* service of its own that keeps the resources by id and an index from     *)
(* names to ids, and the commands of internal/application/command that     *)
(* write them.  Certificate assets keep the same kind of index; completed  *)
(* requests write them (module Governance), and the commands on endpoints  *)
(* stand in module AuditTrail, as they are themselves audited.             *)
(*                                                                         *)
(* A service holds its lock for the whole of an operation, so an operation *)
(* is one action.  A domain command looks the DNS credential up first;     *)
(* credentials are never deleted and every write leaves them active, so    *)
(* the answer cannot go stale and the command is one action too.           *)
(***************************************************************************)
EXTENDS Naturals

CONSTANTS
  Domains, Credentials, Accounts, Targets, Endpoints, Assets,  \* ids of the resources
  DomainNames,     \* name domains, and assets after them
  DisplayNames,    \* name the other resources
  None             \* no name, no resource

Kinds     == {Domains, Credentials, Accounts, Targets, Endpoints, Assets}
Resources == UNION Kinds
Names     == DomainNames \cup DisplayNames

ASSUME RegistryAssumption ==
  /\ \A k, l \in Kinds : k = l \/ k \cap l = {}
  /\ None \notin Names \cup Resources

VARIABLES
  name,         \* name[x]: the name of resource x, None before it exists
  index,        \* index[k][n]: the resource of kind k that name n leads to
  disabled,     \* deployment targets and webhook endpoints that are disabled
  credential    \* credential[d]: the DNS credential domain d refers to

registry == <<name, index, disabled, credential>>

Exists(x) == name[x] # None
KindOf(x) == CHOOSE k \in Kinds : x \in k

RegistryTypeOK ==
  /\ name \in [Resources -> Names \cup {None}]
  /\ index \in [Kinds -> [Names -> Resources \cup {None}]]
  /\ disabled \subseteq Targets \cup Endpoints
  /\ credential \in [Domains -> Credentials \cup {None}]

RegistryInit ==
  /\ name = [x \in Resources |-> None]
  /\ index = [k \in Kinds |-> [n \in Names |-> None]]
  /\ disabled = {}
  /\ credential = [d \in Domains |-> None]

-----------------------------------------------------------------------------
(* Create of a service: a taken name is refused.                           *)
Create(x, n) ==
  LET k == KindOf(x)
  IN  /\ ~Exists(x)
      /\ index[k][n] = None
      /\ name' = [name EXCEPT ![x] = n]
      /\ index' = [index EXCEPT ![k][n] = x]

RenameOverOthers(x, n) ==                                                  \* mutant
  LET k == KindOf(x)
  IN  /\ Exists(x)
      /\ name' = [name EXCEPT ![x] = n]
      /\ index' = [index EXCEPT ![k] = [[@ EXCEPT ![name[x]] = None] EXCEPT ![n] = x]]

(* Update of a service: the old name is free again, unless it is kept.     *)
Rename(x, n) ==
  LET k == KindOf(x)
  IN  /\ Exists(x)
      /\ index[k][n] \in {None, x}
      /\ name' = [name EXCEPT ![x] = n]
      /\ index' = [index EXCEPT ![k] = [[@ EXCEPT ![name[x]] = None] EXCEPT ![n] = x]]

-----------------------------------------------------------------------------
(* The commands.                                                           *)

(* The credential a command asks for, or none.                             *)
Resolvable == {None} \cup {c \in Credentials : Exists(c)}

CreateDomain(d, n) ==
  /\ Create(d, n)
  /\ \E c \in Resolvable : credential' = [credential EXCEPT ![d] = c]
  /\ UNCHANGED disabled

(* An update without a credential takes the old one away.                  *)
UpdateDomain(d, n) ==
  /\ Rename(d, n)
  /\ \E c \in Resolvable : credential' = [credential EXCEPT ![d] = c]
  /\ UNCHANGED disabled

BindDNSCredential(d) ==
  /\ Exists(d)
  /\ \E c \in Resolvable \ {None} : credential' = [credential EXCEPT ![d] = c]
  /\ UNCHANGED <<name, index, disabled>>

CreateDNSCredential(c, n) == Create(c, n) /\ UNCHANGED <<disabled, credential>>

(* A rotation only sets times, so it is no step of this state.             *)
UpdateDNSCredential(c, n) == Rename(c, n) /\ UNCHANGED <<disabled, credential>>

CreateCAAccount(a, n) == Create(a, n) /\ UNCHANGED <<disabled, credential>>

CreateTarget(t, n) == Create(t, n) /\ UNCHANGED <<disabled, credential>>

(* An update enables a disabled target.                                    *)
UpdateTarget(t, n) ==
  /\ Rename(t, n)
  /\ disabled' = disabled \ {t}
  /\ UNCHANGED credential

DisableTarget(t) ==
  /\ Exists(t)
  /\ disabled' = disabled \cup {t}
  /\ UNCHANGED <<name, index, credential>>

Command ==
  \/ \E d \in Domains, n \in DomainNames : CreateDomain(d, n) \/ UpdateDomain(d, n)
  \/ \E n \in DisplayNames :
       \/ \E c \in Credentials : CreateDNSCredential(c, n) \/ UpdateDNSCredential(c, n)
       \/ \E a \in Accounts : CreateCAAccount(a, n)
       \/ \E t \in Targets : CreateTarget(t, n) \/ UpdateTarget(t, n)

RegistryNext ==
  \/ Command
  \/ \E d \in Domains : BindDNSCredential(d)
  \/ \E t \in Targets : DisableTarget(t)

-----------------------------------------------------------------------------
(* A name leads to the one resource of its kind that bears it, through any *)
(* sequence of creations and renamings ("unique within one environment     *)
(* boundary", domains/service.go; the same check is repeated by every      *)
(* service), and a name nobody bears is free.                              *)
NamesAreIndexed ==
  \A k \in Kinds : \A n \in Names :
    /\ index[k][n] \in k \cup {None}
    /\ \A x \in k : index[k][n] = x <=> name[x] = n
=============================================================================
