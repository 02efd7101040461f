----------------------------- MODULE NeedPolicy -----------------------------
(***************************************************************************)
(* MultiNeedPolicy (needle-core/src/multi_need.rs): the limits that the    *)
(* MCP server and the supervised main session share.                       *)
(***************************************************************************)
EXTENDS Naturals

CONSTANTS
  MaxNeedsPerTask,    \* policy.max_needs_per_task
  MaxWorkersPerTask   \* policy.max_workers_per_task

\* HARD_MAX_NEEDS_PER_TASK and HARD_MAX_WORKERS_PER_TASK.
HardMax == 8

\* MultiNeedPolicy::validate.
ASSUME NeedPolicyAssumption ==
  MaxNeedsPerTask \in 1 .. HardMax /\ MaxWorkersPerTask \in 1 .. HardMax
=============================================================================
