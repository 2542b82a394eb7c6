----------------------------- MODULE MCFiltering -----------------------------
(***************************************************************************)
(* An instance of Filtering for TLC: comparisons of each kind of field,    *)
(* and some that the program reads otherwise than they are meant.          *)
(***************************************************************************)
EXTENDS Filtering, TLC

Event(channel, name, sec, pid) ==
  <<"channel", "name">> :> <<channel>> @@ <<"event", "name">> :> <<<<channel>>, <<name>>>>
    @@ <<"event", "time">> :> [sec |-> sec, nsec |-> 0] @@ <<"state", "pid">> :> pid
SomeEvents == <<Event("kernel", "fork", 1, 1), Event("fs", "read", 2, 65537), Event("kernel", "read", 2, 1)>>

C(tokens, holds) == [tokens |-> tokens, holds |-> holds, plain |-> TRUE]
Misread(tokens) == [tokens |-> tokens, holds |-> {}, plain |-> FALSE]
MC ==
  [pid |-> C(<<"state", ".", "pid", "!=", "1">>, {2}),
   later |-> C(<<"event", ".", "time", ">=", "2">>, {2, 3}),
   name |-> C(<<"event", ".", "name", "=", "kernel", ".", "read">>, {3}),
   large |-> Misread(<<"state", ".", "pid", "=", "65537">>),
   short |-> Misread(<<"pid", "=", "1">>),
   quoted |-> Misread(<<"channel", ".", "name", "=", "\"", "fs", "\"">>)]

Atoi(value) == CASE value = <<"1">> -> 1 [] value = <<"2">> -> 2 [] value = <<"65537">> -> 65537 [] OTHER -> 0
=============================================================================
