--------------------------- MODULE AdapterLifecycle ---------------------------
(***************************************************************************)
(* What a partition adapter promises about its lifecycle (spec.md 4.3, 6, *)
(* 7): it runs until drain() or stop(); a drain passes through Draining    *)
(* and reaches Stopped, which is terminal; the drained callback is called *)
(* exactly once, after Stopped, and only for a drain. stop() goes from    *)
(* Running to Stopped directly and calls no callback.                     *)
(***************************************************************************)
VARIABLES
    phase,    \* "Running", "Draining" or "Stopped"
    via,      \* how Stopped is reached: "none", "drain" or "stop"
    drained   \* number of drained-callback invocations

lvars == <<phase, via, drained>>

LInit == phase = "Running" /\ via = "none" /\ drained = 0

(* drain(): the first call flips the drain flag and halts ingestion.       *)
BeginDrain ==
    /\ phase = "Running"
    /\ phase' = "Draining" /\ via' = "drain"
    /\ UNCHANGED drained

(* stop(): immediate shutdown, no synthetic deletes.                       *)
HardStop ==
    /\ phase = "Running"
    /\ phase' = "Stopped" /\ via' = "stop"
    /\ UNCHANGED drained

(* The drain activity has delivered its deletes and signals full stop.     *)
FinishDrain ==
    /\ phase = "Draining"
    /\ phase' = "Stopped"
    /\ UNCHANGED <<via, drained>>

(* drainedCallback(partitionID), once per completed drain.                 *)
NotifyDrained ==
    /\ phase = "Stopped" /\ via = "drain" /\ drained = 0
    /\ drained' = 1
    /\ UNCHANGED <<phase, via>>

LNext == BeginDrain \/ HardStop \/ FinishDrain \/ NotifyDrained

(* The drain activity runs on its own; the callers need not call at all.   *)
LSpec == LInit /\ [][LNext]_lvars /\ WF_lvars(FinishDrain) /\ WF_lvars(NotifyDrained)
=============================================================================
