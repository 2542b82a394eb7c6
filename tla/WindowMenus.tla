----------------------------- MODULE WindowMenus -----------------------------
(***************************************************************************)
(* The clients of Modules: the options of the command line, the menus of   *)
(* the main windows (callbacks.c), and the viewers' modules, which         *)
(* register a constructor with the windows when they are initialized, and  *)
(* destroy their viewers and unregister it when they are destroyed         *)
(* (lttvwindow.c, menu.c, the init and destroy of the viewers).            *)
(*                                                                         *)
(* A constructor is known by its module.  The menu and the toolbar of a    *)
(* window have the same entries.  A viewer is known by its constructor:    *)
(* bound, at most one of a kind is in a window.                            *)
(***************************************************************************)
EXTENDS Modules

CONSTANTS
  ViewerModules,   \* those that register a constructor, by the module's name
  window_name,     \* the module of the main windows, kept as long as there are any
  default_viewers, \* names of those a new window gets
  MaxPaths,        \* bound: on library paths
  MaxViewers,      \* bound: on viewers inserted from the menus, in all windows
  MaxWindows       \* bound: on windows at a time

ASSUME WindowsAssumption ==
  /\ ViewerModules \subseteq AllModules
  /\ \A m \in ViewerModules : window_name \in Range(prerequisites_names[m])
  /\ window_name \in Names /\ default_viewers \subseteq Names
  /\ {MaxPaths, MaxViewers, MaxWindows} \subseteq Nat

VARIABLES
  phase,               \* "options", "windows" once they are parsed, or "ended"
  menu,                \* global viewers/menu and viewers/toolbar: constructors
  viewer_constructors, \* global attribute: constructors by name
  main_windows         \* g_main_window_list: the menu and the viewers of each

window_vars == <<phase, menu, viewer_constructors, main_windows>>
all_vars == <<vars, window_vars>>

-----------------------------------------------------------------------------
(* What the viewers' modules do when init and destroy are called.          *)

\* Mutant: the menus of windows that are there already do not follow.
add_constructor_later(m, w) == w

add_constructor(m, w) == [w EXCEPT !.menu = Append(@, m)]

lttvwindow_register_constructor(m) ==
  /\ main_windows' = [i \in DOMAIN main_windows |-> add_constructor(m, main_windows[i])]
  /\ menu' = Append(menu, m)
  /\ viewer_constructors' = [viewer_constructors EXCEPT ![m[2]] = m]

\* The constructor that has the name now may be another's.
Unnamed(m) ==
  [n \in Names |-> IF viewer_constructors[n] = m THEN NULL ELSE viewer_constructors[n]]

remove_constructor(m, w) == [menu |-> RemoveFirst(w.menu, m), viewers |-> w.viewers \ {m}]

lttvwindow_unregister_constructor(m) ==
  /\ main_windows' = [i \in DOMAIN main_windows |-> remove_constructor(m, main_windows[i])]
  /\ menu' = RemoveFirst(menu, m)
  /\ viewer_constructors' = Unnamed(m)

Inits == (initialized' \ initialized) \cap ViewerModules
Destroys == (initialized \ initialized') \cap ViewerModules

\* An option whose module cannot be had ends the program.
OptionFails == phase = "options" /\ At("lttv_module_require") /\ result = NULL

\* Steps of a call, each with the calls of init and destroy it makes.
CallStep ==
  /\ Step
  /\ phase' = IF OptionFails THEN "ended" ELSE phase
  /\ \/ \E m \in Inits : lttvwindow_register_constructor(m)
     \/ \E m \in Destroys : lttvwindow_unregister_constructor(m)
     \/ /\ Inits \cup Destroys = {}
        /\ UNCHANGED <<menu, viewer_constructors, main_windows>>

-----------------------------------------------------------------------------
(* The options of the command line.                                        *)

lttv_module_option(n) ==
  /\ phase = "options"
  /\ lttv_module_require(n)
  /\ UNCHANGED window_vars

lttv_module_path_option(path) ==
  /\ phase = "options"
  /\ Len(library_paths) < MaxPaths
  /\ lttv_library_path_add(path)
  /\ UNCHANGED window_vars

-----------------------------------------------------------------------------
(* Windows and viewers.                                                    *)

add_all_menu_toolbar_constructors(m) == m

\* A new window has all menu entries, and a viewer of each default kind.
construct_main_window ==
  [menu |-> add_all_menu_toolbar_constructors(menu),
   viewers |-> {viewer_constructors[n] : n \in default_viewers} \ {NULL}]

IsLeft(m) == m = main_module \/ (phase = "windows" /\ m[2] = window_name)

\* lttvwindow is among the options, as in the script lttv-gui.
window_creation_hook ==
  /\ phase = "options" /\ stack = << >>
  /\ \E m \in initialized : m[2] = window_name /\ require_count[m] > 0
  /\ phase' = "windows"
  /\ main_windows' = <<construct_main_window>>
  /\ UNCHANGED <<vars, menu, viewer_constructors>>

AtMenu == phase = "windows" /\ stack = << >>

create_new_window ==
  /\ AtMenu
  /\ Len(main_windows) < MaxWindows
  /\ main_windows' = Append(main_windows, construct_main_window)
  /\ UNCHANGED <<vars, phase, menu, viewer_constructors>>

\* With the last window the main loop ends.
CloseAll(windows) ==
  /\ AtMenu
  /\ main_windows' = windows
  /\ phase' = IF windows = << >> THEN "ended" ELSE phase
  /\ UNCHANGED <<vars, menu, viewer_constructors>>

on_MWindow_destroy(i) == CloseAll(RemoveAt(main_windows, i))

on_quit_activate == CloseAll(<< >>)

ChangeViewers(i, viewers) ==
  /\ AtMenu
  /\ main_windows' = [main_windows EXCEPT ![i].viewers = viewers]
  /\ UNCHANGED <<vars, phase, menu, viewer_constructors>>

AllViewers ==
  UNION {{i} \X main_windows[i].viewers : i \in DOMAIN main_windows}

insert_viewer(i, m) ==
  /\ Cardinality(AllViewers) < MaxViewers
  /\ m \in Range(main_windows[i].menu) \ main_windows[i].viewers
  /\ ChangeViewers(i, main_windows[i].viewers \cup {m})

delete_viewer(i, m) ==
  /\ m \in main_windows[i].viewers
  /\ ChangeViewers(i, main_windows[i].viewers \ {m})

-----------------------------------------------------------------------------
(* The menus of modules and libraries.  The first of those that have the   *)
(* chosen name is taken.                                                   *)

SameName(l, k) == name_of(l) = name_of(k) /\ (l \in file_named <=> k \in file_named)

IsChosen(l) ==
  \E i \in DOMAIN libraries : /\ libraries[i] = l
                              /\ \A j \in 1..(i - 1) : ~SameName(libraries[j], l)

on_load_library_activate(n) ==
  /\ AtMenu
  /\ lttv_library_load(n)
  /\ UNCHANGED window_vars

on_unload_library_activate(l) ==
  /\ AtMenu
  /\ IsChosen(l)
  /\ lttv_library_unload(l)
  /\ UNCHANGED window_vars

\* The module is chosen in a library, and required by its name.
on_load_module_activate(m) ==
  /\ AtMenu
  /\ m \in modules[library(m)] /\ IsChosen(library(m))
  /\ lttv_module_require(m[2])
  /\ UNCHANGED window_vars

\* The module of the windows is left to the program.
on_unload_module_activate(m) ==
  /\ AtMenu
  /\ m \in modules[library(m)] /\ IsChosen(library(m))
  /\ require_count[m] > (IF IsLeft(m) THEN 1 ELSE 0)
  /\ lttv_module_release(m)
  /\ UNCHANGED window_vars

on_add_library_search_path_activate(path) ==
  /\ AtMenu
  /\ Len(library_paths) < MaxPaths
  /\ lttv_library_path_add(path)
  /\ UNCHANGED window_vars

on_remove_library_search_path_activate(path) ==
  /\ AtMenu
  /\ path \in Range(library_paths)
  /\ lttv_library_path_remove(path)
  /\ UNCHANGED window_vars

-----------------------------------------------------------------------------
WindowsInit ==
  /\ Init
  /\ phase = "options"
  /\ menu = << >>
  /\ viewer_constructors = [n \in Names |-> NULL]
  /\ main_windows = << >>

WindowsNext ==
  \/ CallStep
  \/ \E n \in Names : lttv_module_option(n) \/ on_load_library_activate(n)
  \/ \E l \in Libraries : on_unload_library_activate(l)
  \/ \E m \in AllModules : on_load_module_activate(m) \/ on_unload_module_activate(m)
  \/ \E path \in Paths : \/ lttv_module_path_option(path)
                         \/ on_add_library_search_path_activate(path)
                         \/ on_remove_library_search_path_activate(path)
  \/ window_creation_hook \/ create_new_window \/ on_quit_activate
  \/ \E i \in DOMAIN main_windows :
       \/ on_MWindow_destroy(i)
       \/ \E m \in ViewerModules : insert_viewer(i, m) \/ delete_viewer(i, m)

WindowsSpec == WindowsInit /\ [][WindowsNext]_all_vars /\ WF_all_vars(CallStep)

-----------------------------------------------------------------------------
(* Properties.                                                             *)

\* The modules of the windows can be had: what they need, and all that this needs,
\* is among the names B of modules that are linked with the program.
IsSupplied(B) ==
  /\ B \subseteq Range(modules_in[builtin])
  /\ \A m \in AllModules : m[2] \in B \cup {window_name} => Range(prerequisites_names[m]) \subseteq B

\* While windows are there, the menu of each has just the constructors of the
\* viewers' modules that are initialized, in the order of the global one, and
\* names and viewers lead to these only, as what the menus, the default viewers
\* of new windows and the redrawing of viewers call is in these modules' code;
\* and the module of the windows, which viewers' modules call in their destroy,
\* is initialized whenever one of theirs is.
MenusFollowModules ==
  /\ Range(menu) = initialized \cap ViewerModules /\ NoDuplicates(menu)
  /\ \A n \in Names : viewer_constructors[n] \in Range(menu) \cup {NULL}
  /\ \A i \in DOMAIN main_windows :
       main_windows[i].menu = menu /\ main_windows[i].viewers \subseteq Range(menu)
  /\ menu # << >> => \E m \in initialized : m[2] = window_name
=============================================================================
