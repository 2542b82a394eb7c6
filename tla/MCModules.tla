------------------------------ MODULE MCModules ------------------------------
(***************************************************************************)
(* A small instance of WindowMenus for TLC: the window, a viewer in the    *)
(* plugins' library and one of the same name in a directory of the user's, *)
(* in a library that also has a module whose second prerequisite cannot be *)
(* had, as it is registered by the wrong name                              *)
(* (modules/examples/samplemodule.c).                                      *)
(***************************************************************************)
EXTENDS WindowMenus

Builtin == <<"lttv", "builtin">>
Window == <<"plugins", "lttvwindow">>
Events == <<"plugins", "guievents">>
OwnEvents == <<"own", "guievents">>
Sample == <<"own", "samplemodule">>

Files == {Builtin, Window, Events, OwnEvents, Sample}
ModulesIn == [l \in Files |-> CASE l = Builtin -> <<"module", "stats">>
                                [] l = Window -> <<"lttvwindow">>
                                [] l = Events -> <<"guievents">>
                                [] l = OwnEvents -> <<"guievents", "sampledep">>
                                [] l = Sample -> <<"sampledep">>]
AllNames == {"module", "stats", "lttvwindow", "guievents", "samplemodule", "sampledep"}
Prerequisites == [m \in AllModules |->
  CASE m[2] = "lttvwindow" -> <<"stats">>
    [] m[2] = "guievents" -> <<"lttvwindow", "stats">>
    [] m = <<OwnEvents, "sampledep">> -> <<"lttvwindow", "samplemodule">>
    [] OTHER -> << >>]
MainModule == <<Builtin, "module">>
Viewers == {<<Events, "guievents">>, <<OwnEvents, "guievents">>}

\* There is such an order here.
ASSUME NamesAreOrdered == \E rank \in [AllNames -> 0 .. 2] : IsOrder(rank)

\* And what the windows need is linked with the program.
ASSUME WindowsAreSupplied == IsSupplied({"stats"})
=============================================================================
