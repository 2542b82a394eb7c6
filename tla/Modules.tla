------------------------------- MODULE Modules -------------------------------
(***************************************************************************)
(* The modules of LTTV and the libraries they come in (lttv/module.c).  A  *)
(* module is initialized once its prerequisites are, used by those who     *)
(* require it and by the modules it is a prerequisite of, and destroyed    *)
(* with the last use.  Its library goes when nothing in it is used.        *)
(*                                                                         *)
(* Requiring and releasing are recursive; stack holds the calls under way, *)
(* the innermost last, each step is one action, and a call of a client     *)
(* starts when no other is under way.  The clients are in WindowMenus.     *)
(*                                                                         *)
(* A library is a file: a directory and a name.  Its name is searched for  *)
(* along the library paths.  Left out: destroy, the end of the program.    *)
(***************************************************************************)
EXTENDS GSList, SequencesExt

CONSTANTS
  Names,               \* of modules and of libraries
  Paths,               \* directories
  Libraries,           \* the files there are, <<directory, name>>
  plugins_path,        \* where those of LTTV are (PACKAGE_PLUGIN_DIR)
  SystemPath,          \* where the system looks for libraries
  builtin,             \* the one linked with the program
  modules_in,          \* the names each library registers
  prerequisites_names, \* of each module
  main_module,         \* required by main as long as the program runs
  MaxLoads,            \* bound: on load counts
  MaxLibraries,        \* bound: on those loaded when the menu loads one
  MaxRequired,         \* bound: on the modules clients require at a time
  MaxCount             \* bound: on use and reference counts

\* A module is known by its library and its name; several may have one name.
AllModules == {m \in Libraries \X Names : m[2] \in Range(modules_in[m[1]])}
library(m) == m[1]
name_of(l) == l[2]

\* No library, and what a call gives who finds no module, or nothing yet.
NoLibrary == <<"none">>
NULL == <<"NULL">>
Nothing == << >>

ASSUME ModulesAssumption ==
  /\ Libraries \ {builtin} \subseteq (Paths \cup {SystemPath}) \X Names
  /\ plugins_path \in Paths
  /\ builtin \in Libraries
  /\ modules_in \in [Libraries -> Seq(Names)]
  /\ prerequisites_names \in [AllModules -> Seq(Names)]
  /\ main_module \in AllModules /\ library(main_module) = builtin
  /\ prerequisites_names[main_module] = << >>
  /\ {MaxLoads, MaxLibraries, MaxRequired, MaxCount} \subseteq Nat
  /\ NoLibrary \notin Libraries

VARIABLES
  library_paths,   \* the latest last, which is searched first
  libraries,       \* loaded, the latest last
  file_named,      \* those loaded by the name of their file, not by a module's
  modules,         \* the modules each of them has
  modules_by_name, \* for each name, those that have it, the latest last
  load_count,
  locked_loaded,
  references,      \* how often the GModule of the library was opened
  use_count,
  require_count,
  prerequisites,   \* the modules each module got its prerequisites from
  initialized,     \* init was called, and not destroy since (history)
  failed,          \* modules in use that lack a prerequisite (history)
  stack,           \* calls under way
  result           \* what the last of them returned to its caller

registered == <<library_paths, libraries, file_named, modules, modules_by_name, references>>
loading == <<registered, load_count, locked_loaded>>
counts == <<use_count, require_count, prerequisites, initialized, failed>>
vars == <<loading, counts, stack, result>>

-----------------------------------------------------------------------------
(* Libraries.                                                              *)

\* Where libraries are looked for, in this order.
Searched == Append(Reverse(library_paths), SystemPath)

\* The library a name opens.
Opened(n) ==
  LET first == SelectInSeq(Searched, LAMBDA p : <<p, n>> \in Libraries \ {builtin})
  IN IF first = 0 THEN NoLibrary ELSE <<Searched[first], n>>

\* Constructors register the modules of a library when it is first opened.
Registered(l) ==
  IF references[l] = 0 THEN {m \in AllModules : library(m) = l} ELSE {}

LibraryAdd(l, as_file) ==
  /\ libraries' = Append(libraries, l)
  /\ file_named' = IF as_file THEN file_named \cup {l} ELSE file_named
  /\ modules' = [modules EXCEPT ![l] = Registered(l)]
  /\ modules_by_name' = [n \in Names |->
       IF <<l, n>> \in Registered(l) THEN Append(modules_by_name[n], <<l, n>>)
                                     ELSE modules_by_name[n]]

LibraryLoad(l, as_file) ==
  /\ references' = [references EXCEPT ![l] = @ + 1]
  /\ IF l \in Range(libraries)
     THEN UNCHANGED <<libraries, file_named, modules, modules_by_name>>
     ELSE LibraryAdd(l, as_file)
  /\ UNCHANGED library_paths

\* Mutant: a library goes though modules in it are used.
NotLoaded(l, locks) == locks = 0 /\ load_count[l] = 0

Unloadable(l, locks) ==
  /\ locks = 0
  /\ load_count[l] = 0
  /\ \A m \in modules[l] : use_count[m] = 0

LibraryRemove(l) ==
  /\ libraries' = Without(libraries, {l})
  /\ file_named' = file_named \ {l}
  /\ modules' = [modules EXCEPT ![l] = {}]
  /\ modules_by_name' = [n \in Names |->
       Keep(modules_by_name[n], Range(modules_by_name[n]) \ modules[l])]
  /\ references' = IF l = builtin THEN references ELSE [references EXCEPT ![l] = @ - 1]
  /\ UNCHANGED library_paths

\* library_unload, after the locks of the library have become locks.
LibraryUnload(l, locks) ==
  IF Unloadable(l, locks) THEN LibraryRemove(l) ELSE UNCHANGED registered

\* library_unlock_loaded.
Unlock(l) ==
  /\ locked_loaded' = [locked_loaded EXCEPT ![l] = @ - 1]
  /\ LibraryUnload(l, locked_loaded[l] - 1)
  /\ UNCHANGED load_count

UnlockIfLoaded(l) == IF l = NoLibrary THEN UNCHANGED loading ELSE Unlock(l)

-----------------------------------------------------------------------------
(* The calls under way.                                                    *)

Frame == stack[Len(stack)]
Under == SubSeq(stack, 1, Len(stack) - 1)
Goto(frame) == stack' = Append(Under, frame)
Call(frame, callee) == stack' = Append(Append(Under, frame), callee)
Return(value) == stack' = Under /\ result' = value

At(place) == stack # << >> /\ Frame.at = place

require(n) == [at |-> "module_require", name |-> n]
release(m) == [at |-> "module_release", m |-> m]
acquiring(m, l) == [at |-> "acquiring", m |-> m, l |-> l]
undoing(m, l, i) == [at |-> "undoing", m |-> m, l |-> l, i |-> i]
releasing(m, i) == [at |-> "releasing", m |-> m, i |-> i]
loaded(n, l) == [at |-> "loaded", name |-> n, l |-> l]
requiring == [at |-> "lttv_module_require"]

Named(n) == modules_by_name[n][Len(modules_by_name[n])]

\* The module is found: its first use makes it acquire its prerequisites.
Use(m, l) ==
  /\ use_count' = [use_count EXCEPT ![m] = @ + 1]
  /\ IF use_count[m] = 0
     THEN Goto(acquiring(m, l)) /\ UNCHANGED <<loading, result>>
     ELSE Return(m) /\ UnlockIfLoaded(l)
  /\ UNCHANGED <<require_count, prerequisites, initialized, failed>>

FindModule ==
  /\ At("module_require")
  /\ modules_by_name[Frame.name] # << >>
  /\ Use(Named(Frame.name), NoLibrary)

FindNothing ==
  /\ At("module_require")
  /\ modules_by_name[Frame.name] = << >>
  /\ Opened(Frame.name) = NoLibrary
  /\ Return(NULL)
  /\ UNCHANGED <<loading, counts>>

\* A library of that name is loaded, and locked.
FindLibrary ==
  /\ At("module_require")
  /\ modules_by_name[Frame.name] = << >>
  /\ Opened(Frame.name) # NoLibrary
  /\ LibraryLoad(Opened(Frame.name), FALSE)
  /\ locked_loaded' = [locked_loaded EXCEPT ![Opened(Frame.name)] = @ + 1]
  /\ Goto(loaded(Frame.name, Opened(Frame.name)))
  /\ UNCHANGED <<load_count, counts, result>>

FindInLibrary ==
  /\ At("loaded")
  /\ modules_by_name[Frame.name] # << >>
  /\ Use(Named(Frame.name), Frame.l)

GiveUpLibrary(l) == Unlock(l)

NotInLibrary ==
  /\ At("loaded")
  /\ modules_by_name[Frame.name] = << >>
  /\ GiveUpLibrary(Frame.l)
  /\ Return(NULL)
  /\ UNCHANGED counts

RequirePrerequisite ==
  /\ At("acquiring")
  /\ result = Nothing
  /\ Len(prerequisites[Frame.m]) < Len(prerequisites_names[Frame.m])
  /\ Call(Frame, require(prerequisites_names[Frame.m][Len(prerequisites[Frame.m]) + 1]))
  /\ UNCHANGED <<loading, counts, result>>

GetPrerequisite ==
  /\ At("acquiring")
  /\ result \in AllModules
  /\ prerequisites' = [prerequisites EXCEPT ![Frame.m] = Append(@, result)]
  /\ result' = Nothing
  /\ UNCHANGED <<loading, use_count, require_count, initialized, failed, stack>>

\* All prerequisites are there: init is called.
Initialize ==
  /\ At("acquiring")
  /\ result = Nothing
  /\ Len(prerequisites[Frame.m]) = Len(prerequisites_names[Frame.m])
  /\ initialized' = initialized \cup {Frame.m}
  /\ UnlockIfLoaded(Frame.l)
  /\ Return(Frame.m)
  /\ UNCHANGED <<use_count, require_count, prerequisites, failed>>

\* Mutant: the loop goes on with the prerequisite it did not get.
TryAgain(frame) == frame

GiveUp(frame) == undoing(frame.m, frame.l, 1)

\* A prerequisite cannot be had: those acquired before are released.
MissPrerequisite ==
  /\ At("acquiring")
  /\ result = NULL
  /\ Goto(GiveUp(Frame))
  /\ result' = Nothing
  /\ UNCHANGED <<loading, counts>>

\* Mutant: what was acquired is only forgotten.
NothingToUndo(m) == 0

ToUndo(m) == Len(prerequisites[m])

UndoPrerequisite ==
  /\ At("undoing")
  /\ Frame.i <= ToUndo(Frame.m)
  /\ Call([Frame EXCEPT !.i = @ + 1], release(prerequisites[Frame.m][Frame.i]))
  /\ UNCHANGED <<loading, counts, result>>

\* The use count stays: the module will be taken for one that is initialized.
Fail ==
  /\ At("undoing")
  /\ Frame.i > ToUndo(Frame.m)
  /\ prerequisites' = [prerequisites EXCEPT ![Frame.m] = << >>]
  /\ failed' = failed \cup {Frame.m}
  /\ UnlockIfLoaded(Frame.l)
  /\ Return(NULL)
  /\ UNCHANGED <<use_count, require_count, initialized>>

LastUse(m) == use_count[m] = 1

\* With the last use destroy is called, the library being locked, and the
\* prerequisites are released after that.
ModuleRelease ==
  /\ At("module_release")
  /\ use_count' = [use_count EXCEPT ![Frame.m] = @ - 1]
  /\ IF LastUse(Frame.m)
     THEN /\ initialized' = initialized \ {Frame.m}
          /\ failed' = failed \ {Frame.m}
          /\ locked_loaded' = [locked_loaded EXCEPT ![library(Frame.m)] = @ + 1]
          /\ Goto(releasing(Frame.m, 1))
     ELSE /\ stack' = Under
          /\ UNCHANGED <<initialized, failed, locked_loaded>>
  /\ UNCHANGED <<registered, load_count, require_count, prerequisites, result>>


NextOne(i) == i + 1

ReleasePrerequisite ==
  /\ At("releasing")
  /\ Frame.i <= Len(prerequisites[Frame.m])
  /\ Call([Frame EXCEPT !.i = NextOne(@)], release(prerequisites[Frame.m][Frame.i]))
  /\ UNCHANGED <<loading, counts, result>>

EndRelease ==
  /\ At("releasing")
  /\ Frame.i > Len(prerequisites[Frame.m])
  /\ prerequisites' = [prerequisites EXCEPT ![Frame.m] = << >>]
  /\ stack' = Under
  /\ Unlock(library(Frame.m))
  /\ UNCHANGED <<use_count, require_count, initialized, failed, result>>

EndRequire ==
  /\ At("lttv_module_require")
  /\ result # Nothing
  /\ require_count' = IF result = NULL THEN require_count
                                       ELSE [require_count EXCEPT ![result] = @ + 1]
  /\ stack' = Under
  /\ result' = Nothing
  /\ UNCHANGED <<loading, use_count, prerequisites, initialized, failed>>

Step ==
  \/ FindModule \/ FindNothing \/ FindLibrary \/ FindInLibrary \/ NotInLibrary
  \/ RequirePrerequisite \/ GetPrerequisite \/ Initialize
  \/ MissPrerequisite \/ UndoPrerequisite \/ Fail
  \/ ModuleRelease \/ ReleasePrerequisite \/ EndRelease
  \/ EndRequire

-----------------------------------------------------------------------------
(* The calls of clients.                                                   *)

lttv_module_require(n) ==
  /\ stack = << >>
  /\ Cardinality({m \in AllModules : require_count[m] > 0}) < MaxRequired
  /\ \A m \in AllModules : use_count[m] < MaxCount
  /\ \A l \in Libraries : references[l] < MaxCount
  /\ stack' = <<requiring, require(n)>>
  /\ UNCHANGED <<loading, counts, result>>

\* A client releases what it has required.
lttv_module_release(m) ==
  /\ stack = << >>
  /\ require_count[m] > 0
  /\ require_count' = [require_count EXCEPT ![m] = @ - 1]
  /\ stack' = <<release(m)>>
  /\ UNCHANGED <<loading, use_count, prerequisites, initialized, failed, result>>

\* The name is that of the file.
lttv_library_load(n) ==
  /\ stack = << >>
  /\ LET l == Opened(n) IN
     IF l = NoLibrary THEN UNCHANGED loading
     ELSE /\ Len(libraries) < MaxLibraries
          /\ load_count[l] < MaxLoads /\ references[l] < MaxCount
          /\ LibraryLoad(l, TRUE)
          /\ load_count' = [load_count EXCEPT ![l] = @ + 1]
          /\ UNCHANGED locked_loaded
  /\ UNCHANGED <<counts, stack, result>>

lttv_library_unload(l) ==
  /\ stack = << >>
  /\ l \in Range(libraries)
  /\ IF load_count[l] # 0
     THEN /\ load_count' = [load_count EXCEPT ![l] = @ - 1]
          /\ UNCHANGED registered
     ELSE LibraryUnload(l, locked_loaded[l]) /\ UNCHANGED load_count
  /\ UNCHANGED <<locked_loaded, counts, stack, result>>

PathsChange(paths) ==
  /\ stack = << >>
  /\ library_paths' = paths
  /\ UNCHANGED <<libraries, file_named, modules, modules_by_name, references,
                 load_count, locked_loaded, counts, stack, result>>

lttv_library_path_add(path) == PathsChange(Append(library_paths, path))

\* The oldest of equal ones goes.
lttv_library_path_remove(path) == PathsChange(RemoveFirst(library_paths, path))

-----------------------------------------------------------------------------
\* main has required what it needs, and added the directory of the plugins.
Init ==
  /\ library_paths = <<plugins_path>>
  /\ libraries = <<builtin>>
  /\ file_named = {}
  /\ modules = [l \in Libraries |-> IF l = builtin THEN {m \in AllModules : library(m) = l}
                                                   ELSE {}]
  /\ modules_by_name = [n \in Names |-> IF <<builtin, n>> \in AllModules
                                        THEN <<<<builtin, n>>>> ELSE << >>]
  /\ load_count = [l \in Libraries |-> 0]
  /\ locked_loaded = [l \in Libraries |-> 0]
  /\ references = [l \in Libraries |-> 0]
  /\ use_count = [m \in AllModules |-> IF m = main_module THEN 1 ELSE 0]
  /\ require_count = use_count
  /\ prerequisites = [m \in AllModules |-> << >>]
  /\ initialized = {main_module}
  /\ failed = {}
  /\ stack = << >>
  /\ result = Nothing

-----------------------------------------------------------------------------
(* Properties.                                                             *)

\* No module needs itself, by way of others: names have ranks that go down from a
\* module to what it needs.
IsOrder(rank) ==
  /\ rank \in [Names -> Nat]
  /\ \A m \in AllModules : \A i \in DOMAIN prerequisites_names[m] :
       rank[prerequisites_names[m][i]] < rank[m[2]]

Places(m, list) == {i \in DOMAIN list : list[i] = m}

\* How often a module serves as a prerequisite.
Prerequired(m) ==
  Cardinality(UNION {{u} \X Places(m, prerequisites[u]) : u \in AllModules})

\* Uses that nobody has, so that nobody will end them: a module that could not
\* get a prerequisite keeps the use it was counted for when it was found, one
\* however often it is asked for afterwards.
Leaked(m) == IF m \in failed THEN 1 ELSE 0

\* Between calls, whatever calls failed half way before: the use count of a
\* module whose prerequisites could be had is the number of times it is required
\* and prerequired, so that it is initialized just as long as someone uses it;
\* one whose prerequisites could not be had counts one use more than it has,
\* the leaked one, and is not initialized though it may be required again and
\* be found.  What an initialized module got as prerequisites is initialized, or
\* is such a module.  Every call returns the locks it took, whichever way it ends.
UsesCounted ==
  /\ \A m \in initialized : Range(prerequisites[m]) \subseteq initialized \cup failed
  /\ stack = << >> =>
       /\ \A m \in AllModules :
            use_count[m] = require_count[m] + Prerequired(m) + Leaked(m)
       /\ initialized = {m \in AllModules \ failed : require_count[m] + Prerequired(m) > 0}
       /\ \A l \in Libraries : locked_loaded[l] = 0

\* Of the prerequisites of u, those that are not given back yet.
Kept(u) ==
  {prerequisites[u][i] : i \in {j \in DOMAIN prerequisites[u] : \A k \in DOMAIN stack :
     stack[k].at \in {"undoing", "releasing"} /\ stack[k].m = u => j >= stack[k].i}}

\* Modules that can be looked up, that are held, or that a call under way goes
\* back to, are in libraries that are loaded: nothing is read after
\* library_remove frees it, though calls deeper in the recursion unload
\* libraries.
NothingDangles ==
  \A m \in AllModules :
    \/ require_count[m] > 0
    \/ \E u \in AllModules : m \in Kept(u)
    \/ \E n \in Names : m \in Range(modules_by_name[n])
    \/ \E i \in DOMAIN stack : "m" \in DOMAIN stack[i] /\ stack[i].m = m
    => m \in modules[library(m)] /\ library(m) \in Range(libraries)

\* Requiring and releasing end.
EveryCallReturns == []<>(stack = << >>)
=============================================================================
