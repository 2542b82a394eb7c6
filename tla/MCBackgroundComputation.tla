---------------------- MODULE MCBackgroundComputation ----------------------
(***************************************************************************)
(* Small instances of BackgroundComputation for TLC: a short trace that is *)
(* read in one chunk and longer ones, two tabs, and up to three viewers.   *)
(***************************************************************************)
EXTENDS BackgroundComputation

CONSTANTS t1, t2, t3, b1, b2, state1, state2, stats1

ModuleOf == [v \in Viewers |-> IF v = stats1 THEN "stats" ELSE "state"]

\* The statistics viewer is in the second tab.
TabOf == [v \in Viewers |-> IF v = stats1 THEN b2 ELSE b1]

EventsOf == [t \in Traces |-> CASE t = t1 -> 3 [] t = t2 -> 2 [] t = t3 -> 2]

FirstTwo == <<t1, t2>>

\* With synchronization, traces named on the command line only.
Changes == [sync \in BOOLEAN |-> IF sync THEN 0 ELSE 2]
=============================================================================
