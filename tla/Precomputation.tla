--------------------------- MODULE Precomputation ---------------------------
(***************************************************************************)
(* What lttv_requests_servicing_schedulers.txt promises about information  *)
(* computed in the background: each module computes each trace at most     *)
(* once, over all its events, and its ready flag says that this is done.   *)
(* A trace that is closed is forgotten.                                    *)
(***************************************************************************)
EXTENDS Integers

CONSTANTS Traces, Modules,
          Events  \* how many events each trace has

VARIABLES phase,    \* how far each module is with each trace
          computed  \* how many events of the trace it has seen

vars == <<phase, computed>>

Request(t, m) ==
  /\ phase[t][m] = "none"
  /\ phase'[t][m] = "requested"
  /\ computed'[t][m] = computed[t][m]

Compute(t, m) ==
  /\ phase[t][m] \in {"requested", "in_progress"}
  /\ phase'[t][m] = IF computed'[t][m] = Events[t] THEN "ready" ELSE "in_progress"
  /\ computed[t][m] <= computed'[t][m]
  /\ computed'[t][m] <= Events[t]

Rest(t, m) ==
  /\ phase'[t][m] = phase[t][m]
  /\ computed'[t][m] = computed[t][m]

Close(t) == \A m \in Modules : phase'[t][m] = "none" /\ computed'[t][m] = 0

Init ==
  /\ phase = [t \in Traces |-> [m \in Modules |-> "none"]]
  /\ computed = [t \in Traces |-> [m \in Modules |-> 0]]

Next ==
  \A t \in Traces :
    Close(t) \/ \A m \in Modules : Request(t, m) \/ Compute(t, m) \/ Rest(t, m)

Spec == Init /\ [][Next]_vars
=============================================================================
