---------------------------- MODULE ControlPlane ----------------------------
(***************************************************************************)
(* The configuration edited through the control plane (server.rs): runtime *)
(* settings, model policy, route states and capability authority, each     *)
(* under an If-Match digest, beside the command line, which writes the     *)
(* same tables (store.rs).                                                 *)
(*                                                                         *)
(* A handler reads, compares the digest and then writes in a transaction   *)
(* of its own; other editors and processes run in between.  A digest is    *)
(* the value it is taken of.  Settings are the executable and one number   *)
(* for the other fields, 0 where they do not pass validation.              *)
(***************************************************************************)
EXTENDS Integers, Sequences, FiniteSets

CONSTANTS
  Tabs,             \* pages open in the browser that was let in
  PlaneRoutes,      \* ids of the built-in routes
  WorkerModels,     \* worker profiles
  SettingsInputs,   \* what tabs and setup put into the other settings
  PolicyInputs,     \* policies the tabs submit
  ConfigFiles,      \* files given to import
  MaxAudit,         \* bound: audited changes of authority
  MaxPlaneWrites    \* bound: other writes

VARIABLES
  plane,    \* the configuration tables
  tab,      \* per tab: the handler of its last request
  launched  \* launch_consumed

planeVars == <<plane, tab, launched>>

ASSUME PlaneConstants ==
  /\ SettingsInputs \subseteq Nat
  /\ MaxAudit \in Nat
  /\ MaxPlaneWrites \in Nat

Modes == {"shadow", "advisory", "authoritative"}
NoEvidence == 0

FixedOrder(models) == [kind |-> "fixed", models |-> models]
CheapestValidatedFirst(models) == [kind |-> "cheapest", models |-> models]
UnsetPolicy == FixedOrder({})

\* model_policy: the default follows the settings until a policy is stored.
model_policy == IF plane.policy = UnsetPolicy THEN FixedOrder({plane.settings.rest}) ELSE plane.policy

Builtin == [definition |-> 1, enabled |-> TRUE]

\* The digest of a route does not cover `enabled', nor that of a capability
\* its mode: an edit of either does not make other views stale.
Digests ==
  [settings |-> plane.settings, policy |-> model_policy,
   route |-> [r \in PlaneRoutes |-> plane.routes[r].definition], capability |-> "definition"]

IdleTab == [at |-> "idle", view |-> Digests, body |-> <<>>]

-----------------------------------------------------------------------------
(* Letting the browser in, and what it sees.                               *)

\* index: the launch token is good for one session cookie.
Launch ==
  /\ ~launched
  /\ launched' = TRUE
  /\ UNCHANGED <<plane, tab>>

\* GET control-plane, or the answer of an earlier edit.
ViewPlane(e) ==
  /\ launched
  /\ tab[e].at = "idle"
  /\ tab' = [tab EXCEPT ![e].view = Digests]
  /\ UNCHANGED <<plane, launched>>

\* security and require_if_match: a stale digest is refused (412), and the
\* body of a request that passes is kept with what the handler read.
Begin(e, at, fresh, body) ==
  /\ launched
  /\ tab[e].at = "idle"
  /\ fresh
  /\ tab' = [tab EXCEPT ![e].at = at, ![e].body = body]
  /\ UNCHANGED <<plane, launched>>

Done(e) == tab' = [tab EXCEPT ![e].at = "idle", ![e].body = <<>>]

Counted(next) ==
  /\ plane.writes < MaxPlaneWrites
  /\ plane' = [next EXCEPT !.writes = @ + 1]

-----------------------------------------------------------------------------
(* The four edits.                                                         *)

SubmitSettings(e, rest) ==
  Begin(e, "settings", tab[e].view.settings = plane.settings, [rest |-> rest])

\* set_runtime_settings validates and leaves the executable alone.
WriteSettings(e) ==
  /\ tab[e].at = "settings"
  /\ Done(e)
  /\ UNCHANGED launched
  /\ \/ tab[e].body.rest # 0 /\ Counted([plane EXCEPT !.settings.rest = tab[e].body.rest])
     \/ tab[e].body.rest = 0 /\ UNCHANGED plane

SubmitPolicy(e, policy) ==
  Begin(e, "policy", tab[e].view.policy = model_policy, [policy |-> policy])

EnabledRoutes == {r \in PlaneRoutes : plane.routes[r].enabled}

\* A cheapest-first policy needs its profiles promoted on every enabled route.
PolicyAllowed(p) ==
  p.kind = "cheapest" =>
    /\ EnabledRoutes # {}
    /\ \A r \in EnabledRoutes, m \in p.models : <<r, m>> \in plane.promoted

CheckPolicy(e) ==
  /\ tab[e].at = "policy"
  /\ UNCHANGED <<plane, launched>>
  /\ \/ PolicyAllowed(tab[e].body.policy) /\ tab' = [tab EXCEPT ![e].at = "policy checked"]
     \/ ~PolicyAllowed(tab[e].body.policy) /\ Done(e)

\* set_model_policy: the stored policy names at least one profile.
WritePolicy(e) ==
  LET policy == tab[e].body.policy IN
  /\ tab[e].at = "policy checked"
  /\ Done(e)
  /\ UNCHANGED launched
  /\ \/ policy.models # {} /\ Counted([plane EXCEPT !.policy = policy])
     \/ policy.models = {} /\ UNCHANGED plane

SubmitRoute(e, r, enabled) ==
  Begin(e, "route", tab[e].view.route[r] = plane.routes[r].definition,
        [route |-> r, enabled |-> enabled])

\* set_route_enabled selects the definition and updates it in two statements.
SelectRoute(e) ==
  LET body == tab[e].body IN
  /\ tab[e].at = "route"
  /\ tab' = [tab EXCEPT ![e].at = "route read", ![e].body =
       [route |-> body.route, next |-> [plane.routes[body.route] EXCEPT !.enabled = body.enabled]]]
  /\ UNCHANGED <<plane, launched>>

WriteRoute(e) ==
  /\ tab[e].at = "route read"
  /\ Done(e)
  /\ Counted([plane EXCEPT !.routes[tab[e].body.route] = tab[e].body.next])
  /\ UNCHANGED launched

\* Without confirmation there is no request; a raise without evidence is one
\* that the store refuses.
SubmitCapability(e, mode, evidence) ==
  Begin(e, "capability", tab[e].view.capability = "definition",
        [mode |-> mode, evidence |-> evidence, seen |-> plane.capability.mode])

Unfounded(mode, evidence) == mode # "shadow" /\ evidence = NoEvidence

SetModeFrom(e, previous) ==
  LET mode == tab[e].body.mode
      evidence == tab[e].body.evidence
  IN
  /\ tab[e].at = "capability"
  /\ Done(e)
  /\ UNCHANGED launched
  /\ \/ Unfounded(mode, evidence) /\ UNCHANGED plane
     \/ /\ ~Unfounded(mode, evidence)
        /\ Len(plane.audit) < MaxAudit
        /\ plane' = [plane EXCEPT
             !.capability = [mode |-> mode, evidence |-> evidence],
             !.audit = Append(@, [previous |-> previous, mode |-> mode, evidence |-> evidence])]

\* Fault: the previous mode is the one the handler saw before the transaction.
SetModeFromView(e) == SetModeFrom(e, tab[e].body.seen)

\* set_capability_mode: mode, evidence and audit row in one transaction.
SetCapabilityMode(e) == SetModeFrom(e, plane.capability.mode)

-----------------------------------------------------------------------------
(* The command line: setup, import and promotions.                         *)

\* initialize_defaults: settings (the executable too) and routes as new, a
\* stored policy and the modes of the capabilities stay.
InitializeDefaults(settings) ==
  /\ Counted([plane EXCEPT !.settings = settings,
                           !.policy = IF @ = UnsetPolicy THEN FixedOrder({settings.rest}) ELSE @,
                           !.routes = [r \in PlaneRoutes |-> Builtin]])
  /\ UNCHANGED <<tab, launched>>

\* import_toml: what the file says, checked for digests and an empty policy.
ImportToml(file) ==
  /\ file.policy.models # {}
  /\ Counted([plane EXCEPT !.settings = file.settings, !.policy = file.policy,
                           !.routes = [r \in PlaneRoutes |-> file.route]])
  /\ UNCHANGED <<tab, launched>>

PromoteRouteProfile(r, m) ==
  /\ Counted([plane EXCEPT !.promoted = @ \cup {<<r, m>>}])
  /\ UNCHANGED <<tab, launched>>

-----------------------------------------------------------------------------
\* The executables setup and the imported files name.
Executables == {"codex"} \cup {file.settings.executable : file \in ConfigFiles}

PlaneInit ==
  /\ plane = [settings |-> [executable |-> "codex", rest |-> 1], policy |-> UnsetPolicy,
              routes |-> [r \in PlaneRoutes |-> Builtin], promoted |-> {},
              capability |-> [mode |-> "shadow", evidence |-> NoEvidence],
              audit |-> <<>>, writes |-> 0]
  /\ tab = [e \in Tabs |-> IdleTab]
  /\ launched = FALSE

TabStep(e) ==
  \/ ViewPlane(e) \/ WriteSettings(e) \/ CheckPolicy(e) \/ WritePolicy(e)
  \/ SelectRoute(e) \/ WriteRoute(e) \/ SetCapabilityMode(e)
  \/ \E rest \in SettingsInputs : SubmitSettings(e, rest)
  \/ \E policy \in PolicyInputs : SubmitPolicy(e, policy)
  \/ \E r \in PlaneRoutes, enabled \in BOOLEAN : SubmitRoute(e, r, enabled)
  \/ \E mode \in Modes, evidence \in {NoEvidence, 1} : SubmitCapability(e, mode, evidence)

PlaneNext ==
  \/ Launch
  \/ \E e \in Tabs : TabStep(e)
  \/ \E executable \in Executables, rest \in SettingsInputs \ {0} :
       InitializeDefaults([executable |-> executable, rest |-> rest])
  \/ \E file \in ConfigFiles : ImportToml(file)
  \/ \E r \in PlaneRoutes, m \in WorkerModels : PromoteRouteProfile(r, m)

PlaneSpec == PlaneInit /\ [][PlaneNext]_planeVars

-----------------------------------------------------------------------------
\* The authority of a capability can be retraced: its audit rows lead from
\* shadow to the stored mode without a gap, in the order the changes were
\* made, and a mode that serves answers has the evidence of the row that set
\* it; whichever tabs changed it at once and whatever setup and import wrote
\* (set_capability_mode, initialize_defaults, import_toml).
AuthorityIsAudited ==
  LET rows == plane.audit
      from(i) == IF i = 1 THEN "shadow" ELSE rows[i - 1].mode
  IN
  /\ \A i \in DOMAIN rows : rows[i].previous = from(i)
  /\ plane.capability.mode = from(Len(rows) + 1)
  /\ plane.capability.mode # "shadow" =>
       plane.capability.evidence = rows[Len(rows)].evidence /\ plane.capability.evidence # NoEvidence
=============================================================================
