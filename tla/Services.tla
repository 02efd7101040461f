------------------------------ MODULE Services ------------------------------
(***************************************************************************)
(* The processes around the engine: the MCP server, the role profiles and  *)
(* the configuration of the control plane, the evidence worker, the        *)
(* resident runtime, the opening of the store and the pilot.  They share   *)
(* no state here, so a behaviour is about one of them: `focus' says which. *)
(***************************************************************************)
EXTENDS McpSession, RoleProfiles, WorkerSession, RuntimeInstance, ControlPlane,
        StoreOpening, LivePilot

VARIABLE focus

-----------------------------------------------------------------------------
serviceVars ==
  <<mcpVars, profileVars, workerVars, instanceVars, planeVars, openingVars, pilotVars, focus>>

\* The handshake has its own lines; a service that is not looked at has made it.
ServicesInit ==
  /\ focus \in {"mcp", "profiles", "worker", "instance", "plane", "opening", "pilot"}
  /\ McpInit /\ (focus # "mcp" => mcp.initialized)
  /\ ProfileInit /\ WorkerInit /\ InstanceInit /\ PlaneInit /\ OpeningInit /\ PilotInit

ServicesNext ==
  /\ UNCHANGED focus
  /\ \/ /\ focus = "mcp" /\ McpNext
        /\ UNCHANGED <<profileVars, workerVars, instanceVars, planeVars, openingVars, pilotVars>>
     \/ /\ focus = "profiles" /\ ProfileNext
        /\ UNCHANGED <<mcpVars, workerVars, instanceVars, planeVars, openingVars, pilotVars>>
     \/ /\ focus = "worker" /\ WorkerNext
        /\ UNCHANGED <<mcpVars, profileVars, instanceVars, planeVars, openingVars, pilotVars>>
     \/ /\ focus = "instance" /\ InstanceNext
        /\ UNCHANGED <<mcpVars, profileVars, workerVars, planeVars, openingVars, pilotVars>>
     \/ /\ focus = "plane" /\ PlaneNext
        /\ UNCHANGED <<mcpVars, profileVars, workerVars, instanceVars, openingVars, pilotVars>>
     \/ /\ focus = "opening" /\ OpeningNext
        /\ UNCHANGED <<mcpVars, profileVars, workerVars, instanceVars, planeVars, pilotVars>>
     \/ /\ focus = "pilot" /\ PilotNext
        /\ UNCHANGED <<mcpVars, profileVars, workerVars, instanceVars, planeVars, openingVars>>

ServicesSpec == ServicesInit /\ [][ServicesNext]_serviceVars /\ McpFairness

-----------------------------------------------------------------------------
\* Processes start side by side without harm: one resident runtime serves and
\* is found, a need is resolved once (runtime_instance.rs), and whoever has
\* opened the store has its whole schema (initialize, apply_migration).
ProcessesStartSafely == ResidentServesOnce /\ OpenStoreIsWhole

\* Authority is earned: whoever made a capability authoritative, a tab of the
\* control plane (put_capability, set_capability_mode) or the pilot (execute),
\* did so on evidence, and the evidence is there to retrace.
AuthorityIsEarned == AuthorityIsAudited /\ PilotEarnsItsClaims
=============================================================================
