-------------------------- MODULE MCLifecycleKernel -------------------------
\* LifecycleKernel with the constants of a small instance.
EXTENDS LifecycleKernel

MCFrozenProfile == [phase \in WorkerPhases |-> phase]
=============================================================================
