--------------------------- MODULE TraceLifecycle ---------------------------
(***************************************************************************)
(* What the trace tree promises to whoever reads its export: a trace is    *)
(* registered as active, later gets one outcome, completed or pruned, and  *)
(* keeps it until the whole tree is forgotten.                             *)
(***************************************************************************)
VARIABLES active, completed, pruned

lifecycleVars == <<active, completed, pruned>>

Decided == completed \cup pruned

LifecycleInit == active = {} /\ completed = {} /\ pruned = {}

\* Any number of traces are registered or get their outcome, or both.
Progress ==
    /\ completed \subseteq completed' /\ pruned \subseteq pruned'
    /\ active \subseteq active' \cup Decided'
    /\ active' \cap Decided' = {}
    /\ completed' \cap pruned' = {}

Forget == active' = {} /\ completed' = {} /\ pruned' = {}

LifecycleNext == Progress \/ Forget

LifecycleSpec == LifecycleInit /\ [][LifecycleNext]_lifecycleVars
=============================================================================
