------------------------------ MODULE Tenancy -------------------------------
(***************************************************************************)
(* Which tenant, project and environment a request is about, and the roles *)
(* its user has there: Resolve of internal/domain/tenancy, as a function   *)
(* of the tenancy data, the world, and of the scope the request selects.   *)
(*                                                                         *)
(* Ids are naturals, ordered as the code orders strings; 0 is no id.  A    *)
(* world says what is active and which bindings the user has.              *)
(***************************************************************************)
EXTENDS Naturals, FiniteSets

CONSTANTS
  Tenants, Projects, Environments,   \* ids
  TenantOf,                          \* TenantOf[p], of a project
  ProjectOf,                         \* ProjectOf[e], of an environment
  Roles,
  LevelOf                            \* LevelOf[role]: its scope level

Levels == {"tenant", "project", "environment"}

ASSUME TenancyAssumption ==
  /\ Tenants \cup Projects \cup Environments \subseteq Nat \ {0}
  /\ TenantOf \in [Projects -> Tenants]
  /\ ProjectOf \in [Environments -> Projects]
  /\ LevelOf \in [Roles -> Levels]

(* A binding of a role to a scope; its ids above the scope are filled in.  *)
Binding == [tenant : Tenants, project : Projects \cup {0}, environment : Environments \cup {0},
            role : Roles, scope : Levels, active : BOOLEAN]
World == [tenants : SUBSET Tenants, projects : SUBSET Projects,
          environments : SUBSET Environments, roles : SUBSET Roles,
          bindings : SUBSET Binding]
Selection == [tenant : Tenants \cup {0}, project : Projects \cup {0},
              environment : Environments \cup {0}]

(* What is seeded: a role is bound to a scope of its own level, and all     *)
(* ids of a binding are of one chain.                                      *)
WellBound(b) ==
  /\ b.scope = LevelOf[b.role]
  /\ b.scope = "project" => b.project \in Projects /\ TenantOf[b.project] = b.tenant
  /\ b.scope = "environment" =>
       b.environment \in Environments /\ TenantOf[ProjectOf[b.environment]] = b.tenant

(* Disabled bindings and roles take no part in anything.                   *)
ActiveBindings(w) == {b \in w.bindings : b.active /\ b.role \in w.roles}

(* What was asked for, if it can be reached; the first otherwise.  0 if    *)
(* there is none.                                                          *)
Choose(requested, reachable) ==
  CASE requested \in reachable -> requested
    [] requested = 0 /\ reachable # {} -> CHOOSE x \in reachable : \A y \in reachable : x <= y
    [] OTHER -> 0

selectTenant(w, requested) == Choose(requested, {b.tenant : b \in ActiveBindings(w)})

projectsOf(w, t) == {p \in w.projects : TenantOf[p] = t}

ownProjectOnly(w, b, t) == {b.project} \cap projectsOf(w, t)               \* mutant

(* The projects a binding opens: all, its own, or its environment's.       *)
projectsOpenedBy(w, b, t) ==
  CASE LevelOf[b.role] = "tenant"  -> projectsOf(w, t)
    [] LevelOf[b.role] = "project" -> {b.project} \cap projectsOf(w, t)
    [] OTHER -> {ProjectOf[e] : e \in {b.environment} \cap w.environments} \cap projectsOf(w, t)

selectProject(w, t, requested) ==
  Choose(requested, UNION {projectsOpenedBy(w, b, t) : b \in {x \in ActiveBindings(w) : x.tenant = t}})

environmentsOf(w, p) == {e \in w.environments : ProjectOf[e] = p}

(* A role above the environments opens all those of the project, which     *)
(* project it is bound to does not matter here.                            *)
environmentsOpenedBy(w, b, p) ==
  IF LevelOf[b.role] = "environment" THEN {b.environment} \cap environmentsOf(w, p)
                                     ELSE environmentsOf(w, p)

selectEnvironment(w, p, requested) ==
  Choose(requested, UNION {environmentsOpenedBy(w, b, p) : b \in ActiveBindings(w)})

bindingAppliesToContext(b, t, p, e) ==
  CASE b.scope = "tenant"  -> b.tenant = t
    [] b.scope = "project" -> b.project = p
    [] OTHER               -> b.environment = e

RolesIn(w, t, p, e) == {b.role : b \in {x \in ActiveBindings(w) : bindingAppliesToContext(x, t, p, e)}}

Refused == [ok |-> FALSE, tenant |-> 0, project |-> 0, environment |-> 0, roles |-> {}]

Resolve(w, selection) ==
  LET t == selectTenant(w, selection.tenant)
      p == selectProject(w, t, selection.project)
      e == selectEnvironment(w, p, selection.environment)
  IN  IF t \in w.tenants /\ p # 0 /\ e # 0
      THEN [ok |-> TRUE, tenant |-> t, project |-> p, environment |-> e, roles |-> RolesIn(w, t, p, e)]
      ELSE Refused

-----------------------------------------------------------------------------
(* What a resolved scope promises, as a reference for the checks.          *)

(* An active chain, and exactly what was asked for.                        *)
Coherent(w, selection) ==
  LET r == Resolve(w, selection) IN
  r.ok =>
    /\ r.tenant \in w.tenants /\ r.project \in w.projects /\ r.environment \in w.environments
    /\ TenantOf[r.project] = r.tenant /\ ProjectOf[r.environment] = r.project
    /\ selection.tenant \in {0, r.tenant}
    /\ selection.project \in {0, r.project}
    /\ selection.environment \in {0, r.environment}

(* The environments a binding covers, by the hierarchy alone.              *)
Covers(w, b) ==
  {e \in w.environments :
     LET p == ProjectOf[e] t == TenantOf[p] IN
     /\ p \in w.projects /\ t \in w.tenants
     /\ bindingAppliesToContext(b, t, p, e)}

(* A scope that is covered can be selected, and the role counts there.     *)
Reached(w, b, e) ==
  LET r == Resolve(w, [tenant |-> TenantOf[ProjectOf[e]], project |-> ProjectOf[e], environment |-> e])
  IN  r.ok /\ b.role \in r.roles
=============================================================================
