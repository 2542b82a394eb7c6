---------------------------- MODULE MCMainWindow ----------------------------
(***************************************************************************)
(* An instance of MainWindow for TLC: seconds of three nanoseconds, a      *)
(* trace of more than two seconds and a shorter one inside its time.       *)
(***************************************************************************)
EXTENDS MainWindow

Long == [span |-> [start_time |-> 10, end_time |-> 17], events |-> {11, 12}]
Short == [span |-> [start_time |-> 13, end_time |-> 17], events |-> {17}]

MCTraces == {Long, Short}
MCClipboard == {<<4, 0, 5, 1>>}
MCWidths == <<3, 2>>
=============================================================================
