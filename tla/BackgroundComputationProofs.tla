-------------------- MODULE BackgroundComputationProofs --------------------
(***************************************************************************)
(* Proofs about the background scheduler, for any traces, tabs and viewers *)
(* and any number of changes of the tracesets.                             *)
(***************************************************************************)
EXTENDS BackgroundComputation, GSListProofs

ListsType ==
  /\ traces \in Seq(Traces)
  /\ traceset \in [Tabs -> Seq(Traces)]
  /\ to_reopen \in Seq(Traces)
  /\ idle_sources \subseteq Traces
  /\ requests_queue \in [Traces -> Seq(Modules)]
  /\ requests_current \in [Traces -> Seq(Modules)]

\* A tab shows traces that are open, and these are opened again.
TracesOpen ==
  /\ \A b \in Tabs : Range(traceset[b]) \subseteq Range(traces)
  /\ Range(to_reopen) \subseteq Range(traces)

\* IdleHasRequests is kept when a trace is closed because the loop of
\* lttvwindowtraces_remove_trace finds it, and so removes its idle source.
IdleInv == ListsType /\ TracesOpen /\ IdleHasRequests

-----------------------------------------------------------------------------
(* Lists of traces.                                                        *)

LEMMA RemoveFastLemma ==
  ASSUME NEW T, NEW list \in Seq(T), NEW i \in DOMAIN list
  PROVE  /\ RemoveFast(list, i) \in Seq(T)
         /\ Range(list) \ {list[i]} \subseteq Range(RemoveFast(list, i))
<1> DEFINE n == Len(list)
           r == RemoveFast(list, i)
<1>1. n \in Nat /\ DOMAIN list = 1..n /\ i \in 1..n
  OBVIOUS
<1>2. r = [k \in 1..(n - 1) |-> IF k = i THEN list[n] ELSE list[k]]
  BY DEF RemoveFast
<1>3. r \in Seq(T)
  BY <1>1, <1>2
<1> HIDE DEF n, r
<1>4. ASSUME NEW x \in Range(list), x # list[i]
      PROVE  x \in Range(r)
  <2>1. PICK j \in 1..n : list[j] = x
    BY <1>1 DEF Range
  <2>2. CASE j = n
    <3>1. i # n
      BY <1>4, <2>1, <2>2
    <3>2. i \in 1..(n - 1)
      BY <1>1, <3>1
    <3> QED
      BY <1>2, <2>1, <2>2, <3>2 DEF Range
  <2>3. CASE j # n
    <3>1. j # i
      BY <1>4, <2>1
    <3>2. j \in 1..(n - 1)
      BY <1>1, <2>1, <2>3
    <3> QED
      BY <1>2, <2>1, <3>1, <3>2 DEF Range
  <2> QED
    BY <2>2, <2>3
<1> QED
  BY <1>3, <1>4 DEF r

\* The place of an open trace in the global attribute.
LEMMA PlaceLemma ==
  ASSUME NEW t \in Range(traces)
  PROVE  LET i == CHOOSE k \in DOMAIN traces : traces[k] = t
         IN i \in DOMAIN traces /\ traces[i] = t
BY DEF Range

LEMMA AppendRange ==
  ASSUME NEW T, NEW list \in Seq(T), NEW x \in T
  PROVE  /\ Append(list, x) \in Seq(T)
         /\ Range(Append(list, x)) = Range(list) \cup {x}
         /\ Append(list, x) # << >>
<1> DEFINE n == Len(list)
           c == Append(list, x)
<1>1. /\ n \in Nat /\ DOMAIN list = 1..n
      /\ c \in Seq(T) /\ DOMAIN c = 1..(n + 1)
      /\ \A i \in 1..(n + 1) : c[i] = IF i <= n THEN list[i] ELSE x
  OBVIOUS
<1> HIDE DEF c, n
<1>2. ASSUME NEW y \in Range(list) \cup {x} PROVE y \in Range(c)
  <2>1. CASE y = x
    BY <1>1, <2>1 DEF Range
  <2>2. CASE y \in Range(list)
    <3>1. PICK i \in 1..n : list[i] = y
      BY <1>1, <2>2 DEF Range
    <3>2. i \in 1..(n + 1) /\ c[i] = y
      BY <1>1, <3>1
    <3> QED
      BY <1>1, <3>2 DEF Range
  <2> QED
    BY <1>2, <2>1, <2>2
<1>3. ASSUME NEW y \in Range(c) PROVE y \in Range(list) \cup {x}
  <2>1. PICK i \in 1..(n + 1) : c[i] = y
    BY <1>1, <1>3 DEF Range
  <2>2. CASE i <= n
    <3>1. i \in 1..n /\ list[i] = y
      BY <1>1, <2>1, <2>2
    <3> QED
      BY <1>1, <3>1 DEF Range
  <2>3. CASE ~(i <= n)
    BY <1>1, <2>1, <2>3
  <2> QED
    BY <2>2, <2>3
<1>4. c # << >>
  BY <1>1
<1> QED
  BY <1>1, <1>2, <1>3, <1>4 DEF c

LEMMA EmptyList ==
  ASSUME NEW T
  PROVE  << >> \in Seq(T) /\ Range(<< >>) = {}
<1>1. DOMAIN << >> = {}
  OBVIOUS
<1> QED
  BY <1>1 DEF Range

LEMMA TailLemma ==
  ASSUME NEW T, NEW list \in Seq(T), list # << >>
  PROVE  /\ Head(list) \in T /\ Head(list) \in Range(list)
         /\ Tail(list) \in Seq(T)
         /\ Range(Tail(list)) \subseteq Range(list)
<1> DEFINE n == Len(list)
           rest == Tail(list)
<1>1. /\ n \in Nat \ {0} /\ DOMAIN list = 1..n
      /\ rest \in Seq(T) /\ DOMAIN rest = 1..(n - 1)
      /\ \A k \in 1..(n - 1) : rest[k] = list[k + 1]
      /\ Head(list) = list[1] /\ list[1] \in T
  OBVIOUS
<1> HIDE DEF n, rest
<1>2. 1 \in 1..n
  BY <1>1
<1>3. ASSUME NEW x \in Range(rest) PROVE x \in Range(list)
  <2>1. PICK k \in 1..(n - 1) : rest[k] = x
    BY <1>1, <1>3 DEF Range
  <2>2. k + 1 \in 1..n /\ list[k + 1] = x
    BY <1>1, <2>1
  <2> QED
    BY <1>1, <2>2 DEF Range
<1> QED
  BY <1>1, <1>2, <1>3 DEF Range, rest

-----------------------------------------------------------------------------
(* The steps.                                                              *)

LEMMA InitIdleInv == Init => IdleInv
<1> SUFFICES ASSUME Init PROVE IdleInv
  OBVIOUS
<1>1. ListsType
  BY BackgroundAssumption DEF Init, ListsType
<1>2. TracesOpen
  BY DEF Init, TracesOpen, Range
<1>3. IdleHasRequests
  BY DEF Init, IdleHasRequests
<1> QED
  BY <1>1, <1>2, <1>3 DEF IdleInv

\* A request is appended and its idle source registered.
LEMMA RequestStep ==
  ASSUME IdleInv, NEW v \in Viewers, RequestBackgroundData(v)
  PROVE  /\ idle_sources' \subseteq Traces
         /\ requests_queue' \in [Traces -> Seq(Modules)]
         /\ requests_current' \in [Traces -> Seq(Modules)]
         /\ IdleHasRequests'
<1> USE DEF IdleInv, ListsType
<1>1. module[v] \in Modules
  BY BackgroundAssumption
<1>2. Unrequested(v) \subseteq Traces
  <2>1. LookedAt(v) \subseteq Traces
    <3>1. Range(traces) \subseteq Traces
      BY DEF Range
    <3>2. tab[v] \in Tabs
      BY BackgroundAssumption
    <3>3. Range(traceset[tab[v]]) \subseteq Range(traces)
      BY <3>2 DEF TracesOpen
    <3> QED
      BY <3>1, <3>3 DEF LookedAt
  <2> QED
    BY <2>1 DEF Unrequested, Missing
<1>3. idle_sources' = idle_sources \cup Unrequested(v) /\ requests_current' = requests_current
  BY DEF RequestBackgroundData
<1>4. /\ requests_queue' = [t \in Traces |->
           IF t \in Unrequested(v) THEN Append(requests_queue[t], module[v])
                                   ELSE requests_queue[t]]
  BY DEF RequestBackgroundData
<1>5. \A t \in Traces : /\ requests_queue[t] \in Seq(Modules)
                        /\ Append(requests_queue[t], module[v]) \in Seq(Modules)
                        /\ Append(requests_queue[t], module[v]) # << >>
  BY <1>1, AppendRange
<1>6. requests_queue' \in [Traces -> Seq(Modules)]
  BY <1>4, <1>5
<1>7. IdleHasRequests'
  <2> SUFFICES ASSUME NEW t \in idle_sources'
               PROVE  requests_queue'[t] # << >> \/ requests_current'[t] # << >>
    BY DEF IdleHasRequests
  <2>1. t \in Traces
    BY <1>2, <1>3
  <2>2. CASE t \in Unrequested(v)
    BY <1>4, <1>5, <2>1, <2>2
  <2>3. CASE t \notin Unrequested(v)
    BY <1>3, <1>4, <2>1, <2>3 DEF IdleHasRequests
  <2> QED
    BY <2>2, <2>3
<1> QED
  BY <1>2, <1>3, <1>6, <1>7

\* The idle function returns FALSE only with nothing left to compute.
LEMMA ProcessStep ==
  ASSUME IdleInv, NEW t \in Traces, ProcessPendingRequests(t)
  PROVE  IdleInv'
<1> USE DEF IdleInv, ListsType
<1>1. Round(t) \in Seq(Modules) /\ Requested(t) \in Seq(Modules) /\ Round(t) # << >>
  BY DEF Round, Requested, ProcessPendingRequests
<1>2. /\ requests_queue' = [requests_queue EXCEPT ![t] = Requested(t)]
      /\ requests_current' =
           [requests_current EXCEPT ![t] = IF EndOfTrace(t) THEN << >> ELSE Round(t)]
      /\ idle_sources' = IF Stops(t) THEN idle_sources \ {t} ELSE idle_sources
      /\ UNCHANGED tracesets
  BY DEF ProcessPendingRequests
<1>3. ListsType'
  <2>1. (IF EndOfTrace(t) THEN << >> ELSE Round(t)) \in Seq(Modules)
    BY <1>1
  <2> QED
    BY <1>1, <1>2, <2>1 DEF tracesets
<1>4. TracesOpen'
  BY <1>2 DEF TracesOpen, tracesets
<1>5. IdleHasRequests'
  <2> SUFFICES ASSUME NEW u \in idle_sources'
               PROVE  requests_queue'[u] # << >> \/ requests_current'[u] # << >>
    BY DEF IdleHasRequests
  <2>1. u \in Traces /\ u \in idle_sources
    BY <1>2
  <2>2. CASE u # t
    BY <1>2, <2>1, <2>2 DEF IdleHasRequests
  <2>3. CASE u = t
    <3>1. requests_queue'[t] = Requested(t)
      BY <1>2
    <3>2. requests_current'[t] = IF EndOfTrace(t) THEN << >> ELSE Round(t)
      BY <1>2
    <3>3. ~Stops(t)
      BY <1>2, <2>3
    <3> QED
      BY <1>1, <2>3, <3>1, <3>2, <3>3 DEF Stops
  <2> QED
    BY <2>2, <2>3
<1> QED
  BY <1>3, <1>4, <1>5

\* A trace that is shown already, or that cannot be opened, is not added.
LEMMA AddTraceStep ==
  ASSUME IdleInv, NEW b \in Tabs,
         (\E t \in Traces : AddTrace(b, t)) \/ FailToAdd(b)
  PROVE  IdleInv'
<1> USE DEF IdleInv, ListsType
<1>1. /\ traces' \in Seq(Traces) /\ traceset' \in [Tabs -> Seq(Traces)]
      /\ \A c \in Tabs : Range(traceset'[c]) \subseteq Range(traces')
  <2>1. CASE FailToAdd(b)
    BY <2>1 DEF FailToAdd, TracesOpen
  <2>2. ASSUME NEW t \in Traces, AddTrace(b, t)
        PROVE  /\ traces' \in Seq(Traces) /\ traceset' \in [Tabs -> Seq(Traces)]
               /\ \A c \in Tabs : Range(traceset'[c]) \subseteq Range(traces')
    <3>1. /\ traces' \in Seq(Traces)
          /\ Range(traces') = Range(traces) \cup {t}
      BY <2>2, AppendRange DEF AddTrace
    <3>2. CASE t \in Range(traceset[b])
      BY <2>2, <3>1, <3>2 DEF AddTrace, TracesOpen
    <3>3. CASE t \notin Range(traceset[b])
      <4>1. /\ traceset' = [traceset EXCEPT ![b] = Append(@, t)]
            /\ Append(traceset[b], t) \in Seq(Traces)
            /\ Range(Append(traceset[b], t)) = Range(traceset[b]) \cup {t}
        BY <2>2, <3>3, AppendRange DEF AddTrace
      <4> QED
        BY <3>1, <4>1 DEF TracesOpen
    <3> QED
      BY <3>2, <3>3
  <2> QED
    BY <2>1, <2>2
<1>2. to_reopen' = traceset'[b] \/ to_reopen' = << >>
  BY DEF AddTrace, FailToAdd, SetTraceset
<1>3. to_reopen' \in Seq(Traces) /\ Range(to_reopen') \subseteq Range(traces')
  <2>1. CASE to_reopen' = traceset'[b]
    BY <1>1, <2>1
  <2>2. CASE to_reopen' = << >>
    BY <2>2, EmptyList
  <2> QED
    BY <1>2, <2>1, <2>2
<1>4. UNCHANGED <<idle_sources, requests_queue, requests_current>>
  BY DEF AddTrace, FailToAdd, scheduling
<1>5. IdleHasRequests'
  BY <1>4 DEF IdleHasRequests
<1> QED
  BY <1>1, <1>3, <1>4, <1>5 DEF TracesOpen

\* The requests of a trace are gone, and its idle source with them.
LEMMA ForgetStep ==
  ASSUME IdleInv, NEW t \in Range(traces), ForgetRequests(t)
  PROVE  /\ idle_sources' \subseteq Traces
         /\ requests_queue' \in [Traces -> Seq(Modules)]
         /\ requests_current' \in [Traces -> Seq(Modules)]
         /\ IdleHasRequests'
<1> USE DEF IdleInv, ListsType
<1>1. PICK i \in DOMAIN traces : traces[i] = t
  BY DEF Range
<1>2. i \in 1..i
  BY <1>1
<1>3. t \in SourcesRemoved(i)
  BY <1>1, <1>2 DEF SourcesRemoved
<1>4. t \notin idle_sources' /\ idle_sources' \subseteq idle_sources
  BY <1>1, <1>3 DEF ForgetRequests
<1>5. /\ requests_queue' = [requests_queue EXCEPT ![t] = << >>]
      /\ requests_current' = [requests_current EXCEPT ![t] = << >>]
  BY DEF ForgetRequests
<1>6. IdleHasRequests'
  BY <1>4, <1>5 DEF IdleHasRequests
<1>7. requests_queue' \in [Traces -> Seq(Modules)] /\ requests_current' \in [Traces -> Seq(Modules)]
  BY <1>5, EmptyList
<1> QED
  BY <1>4, <1>6, <1>7

LEMMA RemoveTraceStep ==
  ASSUME IdleInv, NEW b \in Tabs, NEW t \in Traces, RemoveTrace(b, t)
  PROVE  IdleInv'
<1> USE DEF IdleInv, ListsType
<1> DEFINE kept == Keep(traceset[b], Range(traceset[b]) \ {t})
           shared == \E other \in Tabs \ {b} : t \in Range(traceset[other])
<1>1. t \in Range(traceset[b]) /\ t \in Range(traces)
  BY DEF RemoveTrace, TracesOpen
<1>2. kept \in Seq(Traces) /\ Range(kept) = Range(traceset[b]) \ {t}
  BY KeepLemma, <1>1
<1>3. traceset' = [traceset EXCEPT ![b] = kept]
  BY DEF RemoveTrace
<1>4. traceset' \in [Tabs -> Seq(Traces)]
  BY <1>2, <1>3
<1>5. to_reopen' = kept \/ to_reopen' = << >>
  BY <1>3 DEF RemoveTrace, SetTraceset
<1>6. to_reopen' \in Seq(Traces) /\ Range(to_reopen') \subseteq Range(kept)
  <2>1. CASE to_reopen' = kept
    BY <1>2, <2>1
  <2>2. CASE to_reopen' = << >>
    BY <2>2, EmptyList
  <2> QED
    BY <1>5, <2>1, <2>2
<1>7. CASE shared
  <2>1. UNCHANGED <<traces, idle_sources, requests_queue, requests_current>>
    BY <1>7 DEF RemoveTrace, scheduling
  <2>2. TracesOpen'
    BY <1>2, <1>3, <1>6, <2>1 DEF TracesOpen
  <2>3. IdleHasRequests'
    BY <2>1 DEF IdleHasRequests
  <2> QED
    BY <1>4, <1>6, <2>1, <2>2, <2>3
<1>8. CASE ~shared
  <2> DEFINE i == CHOOSE k \in DOMAIN traces : traces[k] = t
  <2>1. traces' = RemoveFast(traces, i) /\ ForgetRequests(t)
    BY <1>8 DEF RemoveTrace
  <2>2. i \in DOMAIN traces /\ traces[i] = t
    BY <1>1, PlaceLemma
  <2> HIDE DEF i
  <2>3. traces' \in Seq(Traces) /\ Range(traces) \ {t} \subseteq Range(traces')
    BY <2>1, <2>2, RemoveFastLemma
  <2>4. \A c \in Tabs : Range(traceset'[c]) \subseteq Range(traces) \ {t}
    <3> SUFFICES ASSUME NEW c \in Tabs
                 PROVE  Range(traceset'[c]) \subseteq Range(traces) \ {t}
      OBVIOUS
    <3>1. CASE c = b
      BY <1>2, <1>3, <3>1 DEF TracesOpen
    <3>2. CASE c # b
      BY <1>3, <1>8, <3>2 DEF TracesOpen
    <3> QED
      BY <3>1, <3>2
  <2>5. TracesOpen'
    <3>1. Range(kept) = Range(traceset'[b])
      BY <1>3
    <3> QED
      BY <1>6, <2>3, <2>4, <3>1 DEF TracesOpen
  <2>6. /\ idle_sources' \subseteq Traces
        /\ requests_queue' \in [Traces -> Seq(Modules)]
        /\ requests_current' \in [Traces -> Seq(Modules)]
        /\ IdleHasRequests'
    BY <1>1, <2>1, ForgetStep
  <2> QED
    BY <1>4, <1>6, <2>3, <2>5, <2>6
<1> QED
  BY <1>7, <1>8

LEMMA ReopenStep ==
  ASSUME IdleInv, ReopenTrace
  PROVE  IdleInv'
<1> USE DEF IdleInv, ListsType
<1> DEFINE t == Head(to_reopen)
           i == CHOOSE k \in DOMAIN traces : traces[k] = t
<1>1. to_reopen # << >> /\ to_reopen' = Tail(to_reopen)
  BY DEF ReopenTrace
<1>2. /\ t \in Traces /\ t \in Range(to_reopen)
      /\ to_reopen' \in Seq(Traces)
      /\ Range(to_reopen') \subseteq Range(to_reopen)
  BY <1>1, TailLemma
<1>3. t \in Range(traces)
  BY <1>2 DEF TracesOpen
<1>4. traces' = Append(RemoveFast(traces, i), t) /\ ForgetRequests(t)
  BY DEF ReopenTrace
<1>5. traceset' = traceset
  BY DEF ReopenTrace
<1>6. i \in DOMAIN traces /\ traces[i] = t
  BY <1>3, PlaceLemma
<1> HIDE DEF i, t
<1>7. /\ RemoveFast(traces, i) \in Seq(Traces)
      /\ Range(traces) \ {t} \subseteq Range(RemoveFast(traces, i))
  BY <1>6, RemoveFastLemma
<1>8. /\ traces' \in Seq(Traces)
      /\ Range(traces') = Range(RemoveFast(traces, i)) \cup {t}
  BY <1>2, <1>4, <1>7, AppendRange
<1>9. Range(traces) \subseteq Range(traces')
  BY <1>7, <1>8
<1>10. TracesOpen'
  BY <1>2, <1>5, <1>9 DEF TracesOpen
<1>11. /\ idle_sources' \subseteq Traces
       /\ requests_queue' \in [Traces -> Seq(Modules)]
       /\ requests_current' \in [Traces -> Seq(Modules)]
       /\ IdleHasRequests'
  BY <1>3, <1>4, ForgetStep
<1> QED
  BY <1>2, <1>5, <1>8, <1>10, <1>11

LEMMA CloseTabStep ==
  ASSUME IdleInv, NEW b \in Tabs, CloseTab(b)
  PROVE  IdleInv'
<1> USE DEF IdleInv, ListsType
<1>1. UNCHANGED <<traces, to_reopen, idle_sources, requests_queue, requests_current>>
  BY DEF CloseTab, Destroy, scheduling, Change, MainLoop
<1>2. traceset' = [traceset EXCEPT ![b] = << >>] /\ Range(<< >>) = {}
  BY DEF CloseTab, Range
<1>3. TracesOpen'
  BY <1>1, <1>2 DEF TracesOpen
<1>4. IdleHasRequests'
  BY <1>1 DEF IdleHasRequests
<1> QED
  BY <1>1, <1>2, <1>3, <1>4

LEMMA NextIdleInv == IdleInv /\ [Next]_vars => IdleInv'
<1> SUFFICES ASSUME IdleInv, [Next]_vars PROVE IdleInv'
  OBVIOUS
<1> USE DEF IdleInv, ListsType
<1>1. ASSUME NEW v \in Viewers, RequestBackgroundData(v), UNCHANGED <<traces, traceset, to_reopen>>
      PROVE  IdleInv'
  <2>1. TracesOpen'
    BY <1>1 DEF TracesOpen
  <2> QED
    BY <1>1, <2>1, RequestStep
<1>2. ASSUME UNCHANGED scheduling, UNCHANGED tracesets
      PROVE  IdleInv'
  BY <1>2 DEF scheduling, tracesets, TracesOpen, IdleHasRequests
<1>3. CASE \E t \in Traces : ProcessPendingRequests(t)
  BY <1>3, ProcessStep
<1>4. ASSUME NEW v \in Viewers, CreateViewer(v) PROVE IdleInv'
  BY <1>1, <1>4 DEF CreateViewer, tracesets
<1>5. ASSUME NEW v \in Viewers, DestroyViewer(v) PROVE IdleInv'
  BY <1>2, <1>5 DEF DestroyViewer, Destroy
<1>6. ASSUME NEW v \in Viewers, NotifyViewer(v) PROVE IdleInv'
  BY <1>1, <1>6 DEF NotifyViewer
<1>7. ASSUME NEW b \in Tabs, (\E t \in Traces : AddTrace(b, t)) \/ FailToAdd(b) PROVE IdleInv'
  BY <1>7, AddTraceStep
<1>8. ASSUME NEW b \in Tabs, NEW t \in RemovableTraces, RemoveTrace(b, t) PROVE IdleInv'
  BY <1>8, RemoveTraceStep, BackgroundAssumption
<1>9. ASSUME NEW b \in Tabs, CloseTab(b) PROVE IdleInv'
  BY <1>9, CloseTabStep
<1>10. CASE ReopenTrace
  BY <1>10, ReopenStep
<1>11. CASE UNCHANGED vars
  BY <1>2, <1>11 DEF vars
<1> QED
  BY <1>3, <1>4, <1>5, <1>6, <1>7, <1>8, <1>9, <1>10, <1>11 DEF Next

\* lttvwindowtraces_process_pending_requests is never called for a trace that
\* has no request (the assertion at lttvwindowtraces.c:1083).
THEOREM NeverCalledForNothing == Spec => []IdleHasRequests
<1>1. Init => IdleInv
  BY InitIdleInv
<1>2. IdleInv /\ [Next]_vars => IdleInv'
  BY NextIdleInv
<1>3. IdleInv => IdleHasRequests
  BY DEF IdleInv
<1> QED
  BY <1>1, <1>2, <1>3, PTL DEF Spec

-----------------------------------------------------------------------------
(* Flags, requests and notifications agree, unless traces are opened again *)
(* while they are computed.                                                *)

\* When traces are synchronized, the tracesets stay those of the command line.
OpenedOnce == MaxChanges[TRUE] = 0

WaitsType ==
  /\ notify_queue \in [Traces -> [Viewers -> Nat]]
  /\ notify_current \in [Traces -> [Viewers -> Nat]]
  /\ in_progress \in [Traces -> SUBSET Modules]
  /\ ready \in [Traces -> SUBSET Modules]

\* The modules flagged in progress are those being computed, and a module
\* waits or is computed once, and not when it is ready.
FlagsInv ==
  \A t \in Traces :
    /\ in_progress[t] = Range(requests_current[t])
    /\ NoDuplicates(requests_current[t])
    /\ NoDuplicates(requests_queue[t])
    /\ Range(requests_current[t]) \cap Range(requests_queue[t]) = {}
    /\ ready[t] \cap Range(requests_current[t]) = {}
    /\ ready[t] \cap Range(requests_queue[t]) = {}

\* Traces that are opened again have no request to lose.
NothingIsLost ==
  to_reopen # << >> =>
    \A t \in Traces : requests_queue[t] = << >> /\ requests_current[t] = << >>

ServedInv ==
  /\ IdleInv
  /\ WaitsType
  /\ changes \in Nat /\ optionSync \in BOOLEAN
  /\ NothingIsLost
  /\ FlagsInv
  /\ NotificationsHaveRequests

LEMMA NoDuplicatesAppend ==
  ASSUME NEW T, NEW list \in Seq(T), NEW x \in T, x \notin Range(list), NoDuplicates(list)
  PROVE  NoDuplicates(Append(list, x))
<1> DEFINE n == Len(list)
           c == Append(list, x)
<1>1. /\ n \in Nat /\ DOMAIN list = 1..n /\ DOMAIN c = 1..(n + 1)
      /\ \A i \in 1..(n + 1) : c[i] = IF i <= n THEN list[i] ELSE x
  OBVIOUS
<1> HIDE DEF n, c
<1>2. \A i \in 1..n : list[i] # x
  BY <1>1 DEF Range
<1>3. \A i, j \in 1..n : list[i] = list[j] => i = j
  BY <1>1 DEF NoDuplicates
<1>4. ASSUME NEW i \in 1..(n + 1), NEW j \in 1..(n + 1), c[i] = c[j]
      PROVE  i = j
  <2>1. CASE i \in 1..n /\ j \in 1..n
    <3>1. list[i] = list[j]
      BY <1>1, <1>4, <2>1
    <3> QED
      BY <1>3, <2>1, <3>1
  <2>2. CASE i \in 1..n /\ j = n + 1
    <3>1. c[i] = list[i] /\ c[j] = x
      BY <1>1, <2>2
    <3> QED
      BY <1>2, <1>4, <2>2, <3>1
  <2>3. CASE i = n + 1 /\ j \in 1..n
    <3>1. c[i] = x /\ c[j] = list[j]
      BY <1>1, <2>3
    <3> QED
      BY <1>2, <1>4, <2>3, <3>1
  <2>4. CASE i = n + 1 /\ j = n + 1
    BY <2>4
  <2> QED
    BY <1>1, <2>1, <2>2, <2>3, <2>4
<1> QED
  BY <1>1, <1>4 DEF NoDuplicates, c

\* The two lists of a trace hold no module twice.
LEMMA FlagsGiveNoDuplicates ==
  ASSUME ServedInv PROVE NoDuplicateComputation
<1> SUFFICES ASSUME NEW t \in Traces
             PROVE  /\ NoDuplicates(requests_current[t] \o requests_queue[t])
                    /\ ready[t] \cap Range(requests_current[t] \o requests_queue[t]) = {}
                    /\ in_progress[t] \cap Range(requests_queue[t]) = {}
  BY DEF NoDuplicateComputation
<1>1. requests_current[t] \in Seq(Modules) /\ requests_queue[t] \in Seq(Modules)
  BY DEF ServedInv, IdleInv, ListsType
<1>2. /\ in_progress[t] = Range(requests_current[t])
      /\ NoDuplicates(requests_current[t]) /\ NoDuplicates(requests_queue[t])
      /\ Range(requests_current[t]) \cap Range(requests_queue[t]) = {}
      /\ ready[t] \cap Range(requests_current[t]) = {}
      /\ ready[t] \cap Range(requests_queue[t]) = {}
  BY DEF ServedInv, FlagsInv
<1>3. /\ Range(requests_current[t] \o requests_queue[t])
           = Range(requests_current[t]) \cup Range(requests_queue[t])
      /\ NoDuplicates(requests_current[t] \o requests_queue[t])
  BY <1>1, <1>2, AppendLemma
<1> QED
  BY <1>2, <1>3

LEMMA InitServedInv == Init => ServedInv
<1> SUFFICES ASSUME Init PROVE ServedInv
  OBVIOUS
<1>1. IdleInv
  BY InitIdleInv
<1>2. WaitsType
  BY DEF Init, WaitsType, None
<1>3. FlagsInv
  <2>1. Range(<< >>) = {} /\ NoDuplicates(<< >>)
    BY DEF Range, NoDuplicates
  <2> QED
    BY <2>1 DEF Init, FlagsInv
<1>4. NotificationsHaveRequests
  BY DEF Init, NotificationsHaveRequests, None
<1>5. changes \in Nat /\ optionSync \in BOOLEAN /\ NothingIsLost
  BY DEF Init, NothingIsLost
<1> QED
  BY <1>1, <1>2, <1>3, <1>4, <1>5 DEF ServedInv

LEMMA PlusLemma ==
  ASSUME NEW notify \in [Traces -> [Viewers -> Nat]], NEW v \in Viewers, NEW T
  PROVE  /\ Plus(notify, v, T) \in [Traces -> [Viewers -> Nat]]
         /\ \A t \in Traces, w \in Viewers :
              w # v \/ t \notin T => Plus(notify, v, T)[t][w] = notify[t][w]
<1>1. Plus(notify, v, T) \in [Traces -> [Viewers -> Nat]]
  <2> SUFFICES ASSUME NEW t \in Traces
               PROVE  (IF t \in T THEN [notify[t] EXCEPT ![v] = @ + 1] ELSE notify[t]) \in [Viewers -> Nat]
    BY DEF Plus
  <2>1. notify[t] \in [Viewers -> Nat] /\ notify[t][v] + 1 \in Nat
    OBVIOUS
  <2> QED
    BY <2>1
<1>2. ASSUME NEW t \in Traces, NEW w \in Viewers, w # v \/ t \notin T
      PROVE  Plus(notify, v, T)[t][w] = notify[t][w]
  <2>1. notify[t] \in [Viewers -> Nat]
    OBVIOUS
  <2> QED
    BY <1>2, <2>1 DEF Plus
<1> QED
  BY <1>1, <1>2

\* A viewer joins the computation that is being made, the one that is asked
\* for, or asks for one.
LEMMA RequestServed ==
  ASSUME ServedInv, NEW v \in Viewers, RequestBackgroundData(v)
  PROVE  WaitsType' /\ FlagsInv' /\ NotificationsHaveRequests'
<1> DEFINE m == module[v]
           later == Missing(v) \ AskedInProgress(v)
<1> HIDE DEF later
<1>1. /\ notify_queue \in [Traces -> [Viewers -> Nat]]
      /\ notify_current \in [Traces -> [Viewers -> Nat]]
      /\ notify_queue' = Plus(notify_queue, v, later)
      /\ notify_current' = Plus(notify_current, v, AskedInProgress(v))
  BY DEF ServedInv, WaitsType, RequestBackgroundData, later
<1>2. /\ notify_queue' \in [Traces -> [Viewers -> Nat]]
      /\ \A t \in Traces, w \in Viewers :
           w # v \/ t \notin later => notify_queue'[t][w] = notify_queue[t][w]
  BY <1>1, PlusLemma
<1>3. /\ notify_current' \in [Traces -> [Viewers -> Nat]]
       /\ \A t \in Traces, w \in Viewers :
            w # v \/ t \notin AskedInProgress(v) => notify_current'[t][w] = notify_current[t][w]
  BY <1>1, PlusLemma
<1> USE DEF later
<1> USE DEF ServedInv, IdleInv, ListsType, WaitsType
<1>4. m \in Modules
  BY BackgroundAssumption
<1>5. /\ requests_queue' = [t \in Traces |->
           IF t \in Unrequested(v) THEN Append(requests_queue[t], m) ELSE requests_queue[t]]
      /\ notify_queue' = Plus(notify_queue, v, later)
      /\ notify_current' = Plus(notify_current, v, AskedInProgress(v))
      /\ UNCHANGED <<requests_current, in_progress, ready>>
  BY DEF RequestBackgroundData
<1>6. WaitsType'
  BY <1>5, <1>2, <1>3
<1>7. \A t \in Traces : /\ requests_queue[t] \in Seq(Modules)
                        /\ Range(Append(requests_queue[t], m)) = Range(requests_queue[t]) \cup {m}
  BY <1>4, AppendRange
<1>8. \A t \in Unrequested(v) : /\ m \notin ready[t] /\ m \notin in_progress[t]
                                /\ m \notin Range(requests_queue[t])
  BY DEF Unrequested, AskedInProgress, Missing, Available
<1>9. FlagsInv'
  <2> SUFFICES ASSUME NEW t \in Traces
               PROVE  /\ in_progress[t] = Range(requests_current[t])
                      /\ NoDuplicates(requests_current[t])
                      /\ NoDuplicates(requests_queue'[t])
                      /\ Range(requests_current[t]) \cap Range(requests_queue'[t]) = {}
                      /\ ready[t] \cap Range(requests_current[t]) = {}
                      /\ ready[t] \cap Range(requests_queue'[t]) = {}
    BY <1>5 DEF FlagsInv
  <2>1. CASE t \in Unrequested(v)
    <3>1. requests_queue'[t] = Append(requests_queue[t], m)
      BY <1>5, <2>1
    <3>2. Range(requests_queue'[t]) = Range(requests_queue[t]) \cup {m}
      BY <1>7, <3>1
    <3>3. NoDuplicates(requests_queue'[t])
      BY <1>4, <1>7, <1>8, <2>1, <3>1, NoDuplicatesAppend DEF FlagsInv
    <3> QED
      BY <1>8, <2>1, <3>2, <3>3 DEF FlagsInv
  <2>2. CASE t \notin Unrequested(v)
    BY <1>5, <2>2 DEF FlagsInv
  <2> QED
    BY <2>1, <2>2
<1>10. ASSUME NEW t \in Traces
      PROVE  Range(requests_queue[t]) \subseteq Range(requests_queue'[t])
  BY <1>5, <1>7
<1>11. ASSUME NEW t \in later, t \in Traces PROVE m \in Range(requests_queue'[t])
  <2>1. CASE t \in Unrequested(v)
    BY <1>5, <1>7, <1>11, <2>1
  <2>2. CASE t \notin Unrequested(v)
    BY <1>10, <1>11, <2>2 DEF Unrequested
  <2> QED
    BY <2>1, <2>2
<1>12. NotificationsHaveRequests'
  <2> SUFFICES ASSUME NEW t \in Traces, NEW w \in Viewers
               PROVE  /\ notify_queue'[t][w] > 0 => module[w] \in Range(requests_queue'[t])
                      /\ notify_current'[t][w] > 0 => module[w] \in Range(requests_current[t])
    BY <1>5 DEF NotificationsHaveRequests
  <2>1. ASSUME notify_queue'[t][w] > 0 PROVE module[w] \in Range(requests_queue'[t])
    <3>1. CASE w = v /\ t \in later
      BY <1>11, <3>1
    <3>2. CASE ~(w = v /\ t \in later)
      <4>1. notify_queue'[t][w] = notify_queue[t][w]
        BY <1>2, <3>2
      <4> QED
        BY <1>10, <2>1, <4>1 DEF NotificationsHaveRequests
    <3> QED
      BY <3>1, <3>2
  <2>2. ASSUME notify_current'[t][w] > 0 PROVE module[w] \in Range(requests_current[t])
    <3>1. CASE w = v /\ t \in AskedInProgress(v)
      BY <3>1 DEF AskedInProgress, FlagsInv
    <3>2. CASE ~(w = v /\ t \in AskedInProgress(v))
      <4>1. notify_current'[t][w] = notify_current[t][w]
        BY <1>3, <3>2
      <4> QED
        BY <2>2, <4>1 DEF NotificationsHaveRequests
    <3> QED
      BY <3>1, <3>2
  <2> QED
    BY <2>1, <2>2
<1> QED
  BY <1>6, <1>9, <1>12

\* A chunk of the computation of a trace: the requests that start move with
\* their notifications, those that end leave with theirs.
LEMMA ProcessServed ==
  ASSUME ServedInv, NEW t \in Traces, ProcessPendingRequests(t)
  PROVE  WaitsType' /\ FlagsInv' /\ NotificationsHaveRequests'
<1> USE DEF ServedInv, IdleInv, ListsType, WaitsType
<1> DEFINE R == Round(t)
           Q == Requested(t)
<1>1. R \in Seq(Modules) /\ Q \in Seq(Modules)
  BY EmptyList DEF Round, Requested
<1>2. /\ NoDuplicates(R) /\ NoDuplicates(Q)
      /\ Range(R) \cap Range(Q) = {}
      /\ ready[t] \cap Range(R) = {}
      /\ ready[t] \cap Range(Q) = {}
      /\ in_progress[t] \subseteq Range(R)
  <2>1. NoDuplicates(<< >>) /\ Range(<< >>) = {}
    BY EmptyList DEF NoDuplicates
  <2>2. CASE Starting(t)
    BY <2>1, <2>2 DEF FlagsInv, Round, Requested, Starting
  <2>3. CASE ~Starting(t)
    BY <2>1, <2>3 DEF FlagsInv, Round, Requested
  <2> QED
    BY <2>2, <2>3
<1>3. /\ requests_queue' = [requests_queue EXCEPT ![t] = Q]
      /\ requests_current' = [requests_current EXCEPT ![t] = IF EndOfTrace(t) THEN << >> ELSE R]
      /\ in_progress' = [in_progress EXCEPT ![t] =
           IF EndOfTrace(t) THEN in_progress[t] \ Range(R) ELSE in_progress[t] \cup Range(R)]
      /\ ready' = [ready EXCEPT ![t] = IF EndOfTrace(t) THEN @ \cup Range(R) ELSE @]
      /\ notify_queue' = [notify_queue EXCEPT ![t] = IF Starting(t) THEN None(t) ELSE @]
      /\ notify_current' = [notify_current EXCEPT ![t] = IF EndOfTrace(t) THEN None(t)
                                                                         ELSE Notified(t)]
  BY DEF ProcessPendingRequests, InProgressAfter
<1>4. None(t) \in [Viewers -> Nat] /\ \A w \in Viewers : None(t)[w] = 0
  BY DEF None
<1>5. /\ Notified(t) \in [Viewers -> Nat]
      /\ \A w \in Viewers : Notified(t)[w] > 0 => module[w] \in Range(R)
  <2>1. \A w \in Viewers : notify_queue[t][w] \in Nat /\ notify_current[t][w] \in Nat
    OBVIOUS
  <2>2. CASE Starting(t)
    <3>1. \A w \in Viewers : notify_current[t][w] = 0
      <4>1. Range(requests_current[t]) = {}
        BY <2>2, EmptyList DEF Starting
      <4>2. \A w \in Viewers : ~(notify_current[t][w] > 0)
        BY <4>1 DEF NotificationsHaveRequests
      <4>3. ASSUME NEW w \in Viewers, ~(notify_current[t][w] > 0), notify_current[t][w] \in Nat
            PROVE  notify_current[t][w] = 0
        BY <4>3
      <4> QED
        BY <2>1, <4>2, <4>3
    <3>2. Notified(t) = [w \in Viewers |-> notify_current[t][w] + notify_queue[t][w]]
      BY <2>2 DEF Notified
    <3>3. \A w \in Viewers : Notified(t)[w] = notify_queue[t][w]
      BY <2>1, <3>1, <3>2
    <3>4. R = requests_queue[t]
      BY <2>2 DEF Round
    <3>5. \A w \in Viewers : notify_queue[t][w] > 0 => module[w] \in Range(requests_queue[t])
      BY DEF NotificationsHaveRequests
    <3>6. Notified(t) \in [Viewers -> Nat]
      BY <2>1, <3>2, <3>3
    <3> HIDE DEF R
    <3> QED
      BY <3>3, <3>4, <3>5, <3>6
  <2>3. CASE ~Starting(t)
    <3>1. Notified(t) = [w \in Viewers |-> notify_current[t][w] + 0]
      BY <2>3 DEF Notified
    <3>2. \A w \in Viewers : Notified(t)[w] = notify_current[t][w]
      BY <2>1, <3>1
    <3>3. R = requests_current[t]
      BY <2>3 DEF Round
    <3>4. \A w \in Viewers : notify_current[t][w] > 0 => module[w] \in Range(requests_current[t])
      BY DEF NotificationsHaveRequests
    <3>5. Notified(t) \in [Viewers -> Nat]
      BY <2>1, <3>1, <3>2
    <3> HIDE DEF R
    <3> QED
      BY <3>2, <3>3, <3>4, <3>5
  <2> QED
    BY <2>2, <2>3
<1>6. Range(R) \subseteq Modules
  BY <1>1 DEF Range
<1> HIDE DEF R, Q
<1>7. WaitsType'
  <2>1. notify_queue' \in [Traces -> [Viewers -> Nat]] /\ notify_current' \in [Traces -> [Viewers -> Nat]]
    BY <1>3, <1>4, <1>5
  <2>2. in_progress' \in [Traces -> SUBSET Modules] /\ ready' \in [Traces -> SUBSET Modules]
    BY <1>3, <1>6
  <2> QED
    BY <2>1, <2>2
<1>8. FlagsInv'
  <2> SUFFICES ASSUME NEW u \in Traces
               PROVE  /\ in_progress'[u] = Range(requests_current'[u])
                      /\ NoDuplicates(requests_current'[u])
                      /\ NoDuplicates(requests_queue'[u])
                      /\ Range(requests_current'[u]) \cap Range(requests_queue'[u]) = {}
                      /\ ready'[u] \cap Range(requests_current'[u]) = {}
                      /\ ready'[u] \cap Range(requests_queue'[u]) = {}
    BY DEF FlagsInv
  <2>1. CASE u = t /\ EndOfTrace(t)
    <3>1. Range(requests_current'[u]) = {} /\ NoDuplicates(requests_current'[u])
      <4>1. requests_current'[u] = << >>
        BY <1>3, <2>1
      <4> QED
        BY <4>1, EmptyList DEF NoDuplicates
    <3>2. /\ requests_queue'[u] = Q
          /\ ready'[u] = ready[t] \cup Range(R)
          /\ in_progress'[u] = in_progress[t] \ Range(R)
      BY <1>3, <2>1
    <3> QED
      BY <1>2, <3>1, <3>2
  <2>2. CASE u = t /\ ~EndOfTrace(t)
    <3>1. /\ requests_queue'[u] = Q
          /\ requests_current'[u] = R
          /\ ready'[u] = ready[t]
          /\ in_progress'[u] = in_progress[t] \cup Range(R)
      BY <1>3, <2>2
    <3> QED
      BY <1>2, <3>1
  <2>3. CASE u # t
    BY <1>3, <2>3 DEF FlagsInv
  <2> QED
    BY <2>1, <2>2, <2>3
<1>9. NotificationsHaveRequests'
  <2> SUFFICES ASSUME NEW u \in Traces, NEW w \in Viewers
               PROVE  /\ notify_queue'[u][w] > 0 => module[w] \in Range(requests_queue'[u])
                      /\ notify_current'[u][w] > 0 => module[w] \in Range(requests_current'[u])
    BY DEF NotificationsHaveRequests
  <2>1. CASE u = t
    <3>1. ASSUME notify_queue'[u][w] > 0 PROVE module[w] \in Range(requests_queue'[u])
      <4>1. ~Starting(t)
        BY <1>3, <1>4, <2>1, <3>1
      <4>2. requests_queue'[u] = requests_queue[t] /\ notify_queue'[u] = notify_queue[t]
        BY <1>3, <2>1, <4>1 DEF Q, Requested
      <4> QED
        BY <3>1, <4>2 DEF NotificationsHaveRequests
    <3>2. ASSUME notify_current'[u][w] > 0 PROVE module[w] \in Range(requests_current'[u])
      <4>1. ~EndOfTrace(t)
        BY <1>3, <1>4, <2>1, <3>2
      <4>2. requests_current'[u] = R /\ notify_current'[u] = Notified(t)
        BY <1>3, <2>1, <4>1
      <4> QED
        BY <1>5, <3>2, <4>2
    <3> QED
      BY <3>1, <3>2
  <2>2. CASE u # t
    BY <1>3, <2>2 DEF NotificationsHaveRequests
  <2> QED
    BY <2>1, <2>2
<1> QED
  BY <1>7, <1>8, <1>9

\* A viewer that is destroyed waits for nothing any more.
LEMMA DestroyServed ==
  ASSUME ServedInv, NEW gone, Destroy(gone)
  PROVE  WaitsType' /\ FlagsInv' /\ NotificationsHaveRequests'
<1> USE DEF ServedInv, WaitsType
<1>1. UNCHANGED <<requests_queue, requests_current, in_progress, ready>>
  BY DEF Destroy, scheduling
<1>2. \A t \in Traces, w \in Viewers :
        /\ notify_queue'[t][w] \in {0, notify_queue[t][w]}
        /\ notify_current'[t][w] \in {0, notify_current[t][w]}
  BY DEF Destroy, NotificationsWithout
<1>3. /\ notify_queue' \in [Traces -> [Viewers -> Nat]]
      /\ notify_current' \in [Traces -> [Viewers -> Nat]]
  BY DEF Destroy, NotificationsWithout
<1>4. WaitsType' /\ FlagsInv'
  BY <1>1, <1>3 DEF FlagsInv
<1>5. NotificationsHaveRequests'
  <2> SUFFICES ASSUME NEW t \in Traces, NEW w \in Viewers
               PROVE  /\ notify_queue'[t][w] > 0 => module[w] \in Range(requests_queue[t])
                      /\ notify_current'[t][w] > 0 => module[w] \in Range(requests_current[t])
    BY <1>1 DEF NotificationsHaveRequests
  <2>1. /\ notify_queue[t][w] > 0 => module[w] \in Range(requests_queue[t])
        /\ notify_current[t][w] > 0 => module[w] \in Range(requests_current[t])
    BY DEF NotificationsHaveRequests
  <2>2. ~(0 > 0)
    OBVIOUS
  <2> QED
    BY <1>2, <2>1, <2>2
<1> QED
  BY <1>4, <1>5

\* A trace that is closed leaves no request, no notification and no flag.
LEMMA CloseServed ==
  ASSUME ServedInv, NEW t \in Traces, ForgetRequests(t),
         in_progress' = [in_progress EXCEPT ![t] = {}],
         ready' = [ready EXCEPT ![t] = {}]
  PROVE  WaitsType' /\ FlagsInv' /\ NotificationsHaveRequests'
<1> USE DEF ServedInv, IdleInv, ListsType, WaitsType
<1>1. /\ requests_queue' = [requests_queue EXCEPT ![t] = << >>]
      /\ requests_current' = [requests_current EXCEPT ![t] = << >>]
      /\ notify_queue' = [notify_queue EXCEPT ![t] = None(t)]
      /\ notify_current' = [notify_current EXCEPT ![t] = None(t)]
  BY DEF ForgetRequests
<1>2. None(t) \in [Viewers -> Nat] /\ \A w \in Viewers : None(t)[w] = 0
  BY DEF None
<1>3. Range(<< >>) = {} /\ NoDuplicates(<< >>)
  BY EmptyList DEF NoDuplicates
<1>4. WaitsType'
  BY <1>1, <1>2
<1>5. FlagsInv'
  <2> SUFFICES ASSUME NEW u \in Traces
               PROVE  /\ in_progress'[u] = Range(requests_current'[u])
                      /\ NoDuplicates(requests_current'[u])
                      /\ NoDuplicates(requests_queue'[u])
                      /\ Range(requests_current'[u]) \cap Range(requests_queue'[u]) = {}
                      /\ ready'[u] \cap Range(requests_current'[u]) = {}
                      /\ ready'[u] \cap Range(requests_queue'[u]) = {}
    BY DEF FlagsInv
  <2>1. CASE u = t
    <3>1. /\ requests_queue'[u] = << >> /\ requests_current'[u] = << >>
          /\ in_progress'[u] = {} /\ ready'[u] = {}
      BY <1>1, <2>1
    <3> QED
      BY <1>3, <3>1
  <2>2. CASE u # t
    BY <1>1, <2>2 DEF FlagsInv
  <2> QED
    BY <2>1, <2>2
<1>6. NotificationsHaveRequests'
  <2> SUFFICES ASSUME NEW u \in Traces, NEW w \in Viewers
               PROVE  /\ notify_queue'[u][w] > 0 => module[w] \in Range(requests_queue'[u])
                      /\ notify_current'[u][w] > 0 => module[w] \in Range(requests_current'[u])
    BY DEF NotificationsHaveRequests
  <2>1. CASE u = t
    BY <1>1, <1>2, <2>1
  <2>2. CASE u # t
    BY <1>1, <2>2 DEF NotificationsHaveRequests
  <2> QED
    BY <2>1, <2>2
<1> QED
  BY <1>4, <1>5, <1>6

\* Opening a trace again changes nothing when no request is lost.
LEMMA ReopenServed ==
  ASSUME ServedInv, ReopenTrace
  PROVE  WaitsType' /\ FlagsInv' /\ NotificationsHaveRequests' /\ NothingIsLost'
<1> USE DEF ServedInv, IdleInv, ListsType, WaitsType
<1> DEFINE t == Head(to_reopen)
<1>1. /\ to_reopen # << >>
      /\ ForgetRequests(t)
      /\ UNCHANGED <<in_progress, ready>>
  BY DEF ReopenTrace
<1>2. \A u \in Traces : requests_queue[u] = << >> /\ requests_current[u] = << >>
  BY <1>1 DEF NothingIsLost
<1> HIDE DEF t
<1>3. /\ requests_queue' = [requests_queue EXCEPT ![t] = << >>]
      /\ requests_current' = [requests_current EXCEPT ![t] = << >>]
      /\ notify_queue' = [notify_queue EXCEPT ![t] = None(t)]
      /\ notify_current' = [notify_current EXCEPT ![t] = None(t)]
  BY <1>1 DEF ForgetRequests
<1>4. None(t) \in [Viewers -> Nat] /\ \A w \in Viewers : None(t)[w] = 0
  BY DEF None
<1>5. \A u \in Traces : /\ requests_queue'[u] = requests_queue[u]
                        /\ requests_current'[u] = requests_current[u]
  BY <1>2, <1>3
<1>6. WaitsType' /\ NothingIsLost'
  BY <1>1, <1>2, <1>3, <1>4, <1>5 DEF NothingIsLost
<1>7. FlagsInv'
  BY <1>1, <1>5 DEF FlagsInv
<1>8. NotificationsHaveRequests'
  <2>1. \A u \in Traces, w \in Viewers :
          /\ notify_queue'[u][w] \in {0, notify_queue[u][w]}
          /\ notify_current'[u][w] \in {0, notify_current[u][w]}
    BY <1>3, <1>4
  <2>2. ~(0 > 0)
    OBVIOUS
  <2> QED
    BY <1>5, <2>1, <2>2 DEF NotificationsHaveRequests
<1> QED
  BY <1>6, <1>7, <1>8

\* The option is set before the main loop runs.
LEMMA SyncStays == [Next]_vars => optionSync' = optionSync
BY DEF Next, vars, tracesets, ProcessPendingRequests, CreateViewer, DestroyViewer, NotifyViewer,
       AddTrace, FailToAdd, RemoveTrace, CloseTab, ReopenTrace, Change

LEMMA NextServedInv ==
  ASSUME OpenedOnce, ServedInv, [Next]_vars
  PROVE  ServedInv'
<1> USE DEF ServedInv
<1>1. IdleInv'
  BY NextIdleInv
<1>2. ASSUME UNCHANGED scheduling, UNCHANGED viewing
      PROVE  WaitsType' /\ FlagsInv' /\ NotificationsHaveRequests'
  BY <1>2 DEF scheduling, viewing, WaitsType, FlagsInv, NotificationsHaveRequests
<1> optionSync' \in BOOLEAN
  BY SyncStays
<1>3. ASSUME Change PROVE ~optionSync /\ changes' \in Nat
  <2>1. changes < MaxChanges[optionSync] /\ changes' = changes + 1 /\ changes \in Nat
    BY <1>3 DEF Change
  <2>2. ~(changes < 0) /\ changes + 1 \in Nat
    BY ONLY <2>1
  <2>3. ASSUME optionSync PROVE FALSE
    <3>1. optionSync = TRUE
      BY <2>3, Zenon
    <3>2. changes < 0
      BY <2>1, <3>1, Zenon DEF OpenedOnce
    <3> QED
      BY ONLY <2>2, <3>2
  <2> QED
    BY <2>1, <2>2, <2>3, Zenon
<1>4. CASE \E t \in Traces : ProcessPendingRequests(t)
  <2>1. PICK t \in Traces : ProcessPendingRequests(t)
    BY <1>4
  <2>2. changes' = changes /\ to_reopen' = << >>
    BY <2>1 DEF ProcessPendingRequests, MainLoop, tracesets
  <2> QED
    BY <1>1, <2>1, <2>2, ProcessServed DEF NothingIsLost
<1>5. CASE \E v \in Viewers : CreateViewer(v) \/ NotifyViewer(v)
  <2>1. PICK v \in Viewers : RequestBackgroundData(v)
    BY <1>5 DEF CreateViewer, NotifyViewer
  <2>2. changes' = changes /\ to_reopen' = << >>
    BY <1>5 DEF CreateViewer, NotifyViewer, MainLoop, tracesets
  <2> QED
    BY <1>1, <2>1, <2>2, RequestServed DEF NothingIsLost
<1>6. CASE \E v \in Viewers : DestroyViewer(v)
  <2>1. PICK v \in Viewers : Destroy({v})
    BY <1>6 DEF DestroyViewer
  <2>2. changes' = changes /\ to_reopen' = << >>
    BY <1>6 DEF DestroyViewer, MainLoop, tracesets
  <2> QED
    BY <1>1, <2>1, <2>2, DestroyServed DEF NothingIsLost
<1>7. CASE \E b \in Tabs : (\E t \in Traces : AddTrace(b, t)) \/ FailToAdd(b)
  <2>1. PICK b \in Tabs : (\E t \in Traces : AddTrace(b, t)) \/ FailToAdd(b)
    BY <1>7
  <2>2. changes' \in Nat /\ to_reopen' = << >>
    BY <1>3, <2>1 DEF AddTrace, FailToAdd, SetTraceset
  <2> QED
    BY <1>1, <1>2, <2>1, <2>2 DEF AddTrace, FailToAdd, NothingIsLost
<1>8. CASE \E b \in Tabs, t \in Traces : RemoveTrace(b, t)
  <2>1. PICK b \in Tabs, t \in Traces : RemoveTrace(b, t)
    BY <1>8
  <2>2. changes' \in Nat /\ to_reopen' = << >>
    BY <1>3, <2>1 DEF RemoveTrace, SetTraceset
  <2>3. CASE \E other \in Tabs \ {b} : t \in Range(traceset[other])
    BY <1>1, <1>2, <2>1, <2>2, <2>3 DEF RemoveTrace, NothingIsLost
  <2>4. CASE ~\E other \in Tabs \ {b} : t \in Range(traceset[other])
    <3>1. /\ ForgetRequests(t)
          /\ in_progress' = [in_progress EXCEPT ![t] = {}]
          /\ ready' = [ready EXCEPT ![t] = {}]
      BY <2>1, <2>4 DEF RemoveTrace
    <3> QED
      BY <1>1, <2>2, <3>1, CloseServed DEF NothingIsLost
  <2> QED
    BY <2>3, <2>4
<1>9. CASE \E b \in Tabs : CloseTab(b)
  <2>1. PICK b \in Tabs : CloseTab(b)
    BY <1>9
  <2>2. changes' \in Nat /\ to_reopen' = << >>
    BY <1>3, <2>1 DEF CloseTab, Change, MainLoop
  <2> QED
    BY <1>1, <2>1, <2>2, DestroyServed DEF CloseTab, NothingIsLost
<1>10. CASE ReopenTrace
  BY <1>1, <1>10, ReopenServed DEF ReopenTrace
<1>11. CASE UNCHANGED vars
  BY <1>1, <1>2, <1>11 DEF vars, tracesets, scheduling, NothingIsLost
<1> QED
  BY <1>4, <1>5, <1>6, <1>7, <1>8, <1>9, <1>10, <1>11, BackgroundAssumption DEF Next

\* Unless traces are opened again, whoever waits for a notification waits with
\* a request that causes it (background_notify_queue and the notifications
\* lttvwindowtraces_process_pending_requests moves with their requests).
THEOREM WaitersHaveRequests == OpenedOnce /\ Spec => []NotificationsHaveRequests
<1>1. Init => ServedInv
  BY InitServedInv
<1>2. ASSUME OpenedOnce PROVE ServedInv /\ [Next]_vars => ServedInv'
  BY <1>2, NextServedInv
<1>3. ServedInv => NotificationsHaveRequests
  BY DEF ServedInv
<1>4. ASSUME OpenedOnce PROVE Spec => []NotificationsHaveRequests
  BY <1>1, <1>2, <1>3, <1>4, PTL DEF Spec
<1> QED
  BY <1>4

\* Unless traces are opened again, no module is computed twice for a trace: it
\* waits once, is not requested again while it is computed, nor once it is
\* ready (the flags lttvwindowtraces_process_pending_requests sets).
THEOREM NeverComputedTwice == OpenedOnce /\ Spec => []NoDuplicateComputation
<1>1. Init => ServedInv
  BY InitServedInv
<1>2. ASSUME OpenedOnce PROVE ServedInv /\ [Next]_vars => ServedInv'
  BY <1>2, NextServedInv
<1>3. ServedInv => NoDuplicateComputation
  BY FlagsGiveNoDuplicates
<1>4. ASSUME OpenedOnce PROVE Spec => []NoDuplicateComputation
  BY <1>1, <1>2, <1>3, <1>4, PTL DEF Spec
<1> QED
  BY <1>4

\* Unless traces are opened again, a module flagged in progress for a trace is
\* being computed (the same flags).
THEOREM FlagsTellTheTruth == OpenedOnce /\ Spec => []InProgressIsServed
<1>1. Init => ServedInv
  BY InitServedInv
<1>2. ASSUME OpenedOnce PROVE ServedInv /\ [Next]_vars => ServedInv'
  BY <1>2, NextServedInv
<1>3. ServedInv => InProgressIsServed
  BY DEF ServedInv, FlagsInv, InProgressIsServed
<1>4. ASSUME OpenedOnce PROVE Spec => []InProgressIsServed
  BY <1>1, <1>2, <1>3, <1>4, PTL DEF Spec
<1> QED
  BY <1>4

-----------------------------------------------------------------------------
(* The scheduler implements Precomputation: whatever the viewers ask for   *)
(* and whichever traces are closed meanwhile, each module reads each trace *)
(* once, from its beginning to its end.                                    *)

ProgressType ==
  /\ position \in [Traces -> Nat]
  /\ computed \in [Traces -> [Modules -> Nat]]

\* The modules being computed have seen the events before the position of the
\* trace, which is not at its end, and those that wait have seen none.
ProgressInv ==
  \A t \in Traces :
    /\ requests_current[t] # << >> => position[t] < Events[t]
    /\ \A m \in Modules :
         /\ m \in Range(requests_current[t]) => computed[t][m] = position[t]
         /\ m \notin ready[t] \cup Range(requests_current[t]) => computed[t][m] = 0

ComputedInv == ServedInv /\ ProgressType /\ ProgressInv

LEMMA InitComputedInv == Init => ComputedInv
<1> SUFFICES ASSUME Init PROVE ComputedInv
  OBVIOUS
<1>1. ServedInv
  BY InitServedInv
<1>2. ProgressType
  BY DEF Init, ProgressType, NoComputation
<1>3. ProgressInv
  <2>1. Range(<< >>) = {}
    BY EmptyList
  <2>2. \A t \in Traces : /\ requests_current[t] = << >>
                          /\ \A m \in Modules : computed[t][m] = 0
    BY DEF Init, NoComputation
  <2> QED
    BY <2>1, <2>2 DEF ProgressInv
<1> QED
  BY <1>1, <1>2, <1>3 DEF ComputedInv

\* What a chunk reads: it moves on, and no further than the end of the trace.
LEMMA ChunkLemma ==
  ASSUME ComputedInv, NEW t \in Traces
  PROVE  /\ From(t) \in Nat /\ To(t) \in Nat
         /\ From(t) <= To(t) /\ To(t) <= Events[t]
         /\ \A m \in Range(Round(t)) :
              (IF Starting(t) THEN 0 ELSE computed[t][m]) = From(t)
<1> USE DEF ComputedInv, ProgressType
<1>1. Events[t] \in Nat /\ CHUNK_NUM_EVENTS \in Nat
  BY BackgroundAssumption
<1>2. From(t) \in Nat /\ From(t) <= Events[t]
  <2>1. CASE Starting(t)
    BY <1>1, <2>1 DEF From
  <2>2. CASE ~Starting(t)
    <3>1. From(t) = position[t] /\ position[t] \in Nat /\ position[t] < Events[t]
      BY <2>2 DEF From, Starting, ProgressInv
    <3> QED
      BY <1>1, <3>1
  <2> QED
    BY <2>1, <2>2
<1>3. To(t) \in Nat /\ From(t) <= To(t) /\ To(t) <= Events[t]
  BY <1>1, <1>2 DEF To
<1>4. \A m \in Range(Round(t)) : (IF Starting(t) THEN 0 ELSE computed[t][m]) = From(t)
  <2>1. CASE Starting(t)
    BY <2>1 DEF From
  <2>2. CASE ~Starting(t)
    <3>1. requests_current[t] \in Seq(Modules)
      BY DEF ServedInv, IdleInv, ListsType
    <3>2. Round(t) = requests_current[t] /\ Range(requests_current[t]) \subseteq Modules
      BY <2>2, <3>1 DEF Round, Range
    <3> QED
      BY <2>2, <3>2 DEF From, ProgressInv
  <2> QED
    BY <2>1, <2>2
<1> QED
  BY <1>2, <1>3, <1>4

-----------------------------------------------------------------------------
(* What the steps do to the progress of the computations.                  *)

\* The phase of module m for trace t, as the abstract specification sees it.
LEMMA PhaseLemma ==
  ASSUME NEW t \in Traces, NEW m \in Modules
  PROVE  phase[t][m] = IF m \in ready[t] THEN "ready"
                       ELSE IF m \in in_progress[t] THEN "in_progress"
                       ELSE IF m \in Range(requests_queue[t]) THEN "requested" ELSE "none"
BY DEF phase

LEMMA PhasePrimeLemma ==
  ASSUME NEW t \in Traces, NEW m \in Modules
  PROVE  phase'[t][m] = IF m \in ready'[t] THEN "ready"
                        ELSE IF m \in in_progress'[t] THEN "in_progress"
                        ELSE IF m \in Range(requests_queue'[t]) THEN "requested" ELSE "none"
BY DEF phase

\* Steps of other traces leave the phases of this one.
LEMMA RestLemma ==
  ASSUME NEW t \in Traces, NEW m \in Modules,
         requests_queue'[t] = requests_queue[t], in_progress'[t] = in_progress[t],
         ready'[t] = ready[t]
  PROVE  phase'[t][m] = phase[t][m]
BY DEF phase

LEMMA StutterLemma ==
  ASSUME UNCHANGED <<requests_queue, in_progress, ready, computed>>
  PROVE  UNCHANGED <<phase, computed>>
BY DEF phase

\* A viewer asks: the module of the viewer is requested, or nothing happens.
LEMMA RequestComputed ==
  ASSUME ComputedInv, NEW v \in Viewers, RequestBackgroundData(v)
  PROVE  /\ ProgressType' /\ ProgressInv'
         /\ Precomputing!Next
<1> USE DEF ComputedInv, ServedInv, IdleInv, ListsType
<1>1. /\ requests_queue' = [t \in Traces |->
           IF t \in Unrequested(v) THEN Append(requests_queue[t], module[v])
                                   ELSE requests_queue[t]]
      /\ UNCHANGED <<requests_current, in_progress, ready, position, computed>>
  BY DEF RequestBackgroundData
<1>2. ProgressType' /\ ProgressInv'
  BY <1>1 DEF ProgressType, ProgressInv
<1>3. module[v] \in Modules
  BY BackgroundAssumption
<1>4. \A t \in Traces :
        Range(Append(requests_queue[t], module[v])) = Range(requests_queue[t]) \cup {module[v]}
  BY <1>3, AppendRange
<1>5. \A t \in Unrequested(v) : /\ module[v] \notin ready[t] \cup in_progress[t]
                                /\ module[v] \notin Range(requests_queue[t])
  BY DEF Unrequested, AskedInProgress, Missing, Available
<1>6. ASSUME NEW t \in Traces, NEW m \in Modules
      PROVE  Precomputing!Request(t, m) \/ Precomputing!Rest(t, m)
  <2>1. CASE t \in Unrequested(v) /\ m = module[v]
    <3>1. m \in Range(requests_queue'[t])
      BY <1>1, <1>4, <2>1
    <3>2. phase[t][m] = "none"
      BY <1>5, <2>1, PhaseLemma
    <3>3. phase'[t][m] = "requested"
      BY <1>1, <1>5, <2>1, <3>1, PhasePrimeLemma
    <3> QED
      BY <1>1, <3>2, <3>3 DEF Precomputing!Request
  <2>2. CASE ~(t \in Unrequested(v) /\ m = module[v])
    <3>1. m \in Range(requests_queue'[t]) <=> m \in Range(requests_queue[t])
      BY <1>1, <1>4, <2>2
    <3>2. phase'[t][m] = phase[t][m]
      BY <1>1, <3>1, PhaseLemma, PhasePrimeLemma
    <3> QED
      BY <1>1, <3>2 DEF Precomputing!Rest
  <2> QED
    BY <2>1, <2>2
<1> QED
  BY <1>2, <1>6 DEF Precomputing!Next

\* A chunk: the modules of this round compute, the others rest.
LEMMA ProcessComputed ==
  ASSUME ComputedInv, NEW t \in Traces, ProcessPendingRequests(t)
  PROVE  /\ ProgressType' /\ ProgressInv'
         /\ Precomputing!Next
<1> USE DEF ComputedInv, ServedInv, IdleInv, ListsType, WaitsType
<1> DEFINE R == Round(t)
           Q == Requested(t)
<1>1. R \in Seq(Modules) /\ Q \in Seq(Modules) /\ Range(R) \subseteq Modules
  <2>1. R \in Seq(Modules) /\ Q \in Seq(Modules)
    BY EmptyList DEF Round, Requested
  <2> QED
    BY <2>1 DEF Range
<1>2. /\ ready[t] \cap Range(R) = {}
      /\ Range(requests_current[t]) \subseteq Range(R)
      /\ \A m \in Modules \ Range(R) : m \in Range(Q) <=> m \in Range(requests_queue[t])
  <2>1. Range(<< >>) = {}
    BY EmptyList
  <2>2. CASE Starting(t)
    BY <2>1, <2>2 DEF FlagsInv, Round, Requested, Starting
  <2>3. CASE ~Starting(t)
    BY <2>3 DEF FlagsInv, Round, Requested
  <2> QED
    BY <2>2, <2>3
<1>3. in_progress[t] = Range(requests_current[t])
  BY DEF FlagsInv
<1>4. /\ requests_queue' = [requests_queue EXCEPT ![t] = Q]
      /\ requests_current' = [requests_current EXCEPT ![t] = IF EndOfTrace(t) THEN << >> ELSE R]
      /\ in_progress' = [in_progress EXCEPT ![t] =
           IF EndOfTrace(t) THEN in_progress[t] \ Range(R) ELSE in_progress[t] \cup Range(R)]
      /\ ready' = [ready EXCEPT ![t] = IF EndOfTrace(t) THEN @ \cup Range(R) ELSE @]
      /\ position' = [position EXCEPT ![t] = IF EndOfTrace(t) THEN 0 ELSE To(t)]
  BY DEF ProcessPendingRequests, InProgressAfter
<1>5. computed' = [computed EXCEPT ![t] =
        [m \in Modules |-> IF m \notin Range(R) THEN @[m]
                           ELSE (IF Starting(t) THEN 0 ELSE @[m]) + (To(t) - From(t))]]
  BY DEF ProcessPendingRequests
<1>6. /\ From(t) \in Nat /\ To(t) \in Nat /\ From(t) <= To(t) /\ To(t) <= Events[t]
      /\ \A m \in Range(R) : (IF Starting(t) THEN 0 ELSE computed[t][m]) = From(t)
  BY ChunkLemma
<1>7. Events[t] \in Nat
  BY BackgroundAssumption
<1>8. \A m \in Range(R) : computed[t][m] <= To(t)
  <2>1. CASE Starting(t)
    <3>1. Range(requests_current[t]) = {}
      BY <2>1, EmptyList DEF Starting
    <3>2. \A m \in Range(R) : computed[t][m] = 0
      BY <1>1, <1>2, <3>1 DEF ProgressInv
    <3> QED
      BY <1>6, <3>2
  <2>2. CASE ~Starting(t)
    BY <1>6, <2>2
  <2> QED
    BY <2>1, <2>2
<1>9. EndOfTrace(t) <=> To(t) = Events[t]
  BY DEF EndOfTrace
<1> HIDE DEF R, Q
<1>10. /\ computed' \in [Traces -> [Modules -> Nat]]
       /\ \A m \in Modules : computed'[t][m] = IF m \in Range(R) THEN To(t) ELSE computed[t][m]
       /\ \A u \in Traces \ {t} : computed'[u] = computed[u]
  <2> DEFINE c == [m \in Modules |-> IF m \notin Range(R) THEN computed[t][m]
                     ELSE (IF Starting(t) THEN 0 ELSE computed[t][m]) + (To(t) - From(t))]
  <2>1. computed \in [Traces -> [Modules -> Nat]]
    BY DEF ProgressType
  <2>2. ASSUME NEW m \in Modules
        PROVE  c[m] = (IF m \in Range(R) THEN To(t) ELSE computed[t][m]) /\ c[m] \in Nat
    <3>1. CASE m \in Range(R)
      <4>1. c[m] = From(t) + (To(t) - From(t))
        BY <1>6, <3>1
      <4> QED
        BY <1>6, <3>1, <4>1
    <3>2. CASE m \notin Range(R)
      BY <2>1, <3>2
    <3> QED
      BY <3>1, <3>2
  <2>3. c \in [Modules -> Nat]
    BY <2>2
  <2>4. computed' = [computed EXCEPT ![t] = c]
    BY <1>5
  <2> HIDE DEF c
  <2> QED
    BY <2>1, <2>2, <2>3, <2>4
<1>11. ProgressType'
  BY <1>4, <1>6, <1>10 DEF ProgressType
<1>12. ProgressInv'
  <2> SUFFICES ASSUME NEW u \in Traces, NEW m \in Modules
               PROVE  /\ requests_current'[u] # << >> => position'[u] < Events[u]
                      /\ m \in Range(requests_current'[u]) => computed'[u][m] = position'[u]
                      /\ m \notin ready'[u] \cup Range(requests_current'[u]) => computed'[u][m] = 0
    BY DEF ProgressInv, Modules
  <2>1. CASE u # t
    <3>1. /\ requests_current'[u] = requests_current[u] /\ ready'[u] = ready[u]
          /\ position'[u] = position[u] /\ computed'[u] = computed[u]
      BY <1>4, <1>10, <2>1 DEF ProgressType
    <3> QED
      BY <3>1 DEF ProgressInv
  <2>2. CASE u = t /\ EndOfTrace(t)
    <3>1. requests_current'[t] = << >> /\ ready'[t] = ready[t] \cup Range(R)
      BY <1>4, <2>2
    <3>2. ASSUME m \notin ready'[t] PROVE computed'[t][m] = 0
      BY <1>2, <1>10, <3>1, <3>2 DEF ProgressInv
    <3> QED
      BY <2>2, <3>1, <3>2, EmptyList
  <2>3. CASE u = t /\ ~EndOfTrace(t)
    <3>1. requests_current'[t] = R /\ ready'[t] = ready[t] /\ position'[t] = To(t)
      BY <1>4, <2>3 DEF ProgressType
    <3>2. To(t) < Events[t]
      BY <1>6, <1>7, <1>9, <2>3
    <3>3. m \notin ready[t] \cup Range(R) => computed'[t][m] = 0
      BY <1>2, <1>10 DEF ProgressInv
    <3> QED
      BY <1>10, <2>3, <3>1, <3>2, <3>3
  <2> QED
    BY <2>1, <2>2, <2>3
<1>13. ASSUME NEW u \in Traces, NEW m \in Modules
       PROVE  Precomputing!Compute(u, m) \/ Precomputing!Rest(u, m)
  <2>1. CASE u = t /\ m \in Range(R)
    <3>1. m \notin ready[t] /\ (m \in in_progress[t] \/ m \in Range(requests_queue[t]))
      <4>1. m \in Range(requests_queue[t]) \/ m \in Range(requests_current[t])
        BY <2>1 DEF R, Round
      <4> QED
        BY <1>2, <1>3, <2>1, <4>1
    <3>2. phase[t][m] \in {"requested", "in_progress"}
      BY <3>1, PhaseLemma
    <3>3. computed'[t][m] = To(t)
      BY <1>10, <2>1
    <3>4. CASE EndOfTrace(t)
      <4>1. m \in ready'[t]
        BY <1>4, <2>1, <3>4
      <4>2. phase'[t][m] = "ready"
        BY <4>1, PhasePrimeLemma
      <4> QED
        BY <1>6, <1>8, <1>9, <2>1, <3>2, <3>3, <3>4, <4>2 DEF Precomputing!Compute
    <3>5. CASE ~EndOfTrace(t)
      <4>1. m \notin ready'[t] /\ m \in in_progress'[t]
        BY <1>4, <2>1, <3>1, <3>5
      <4>2. phase'[t][m] = "in_progress"
        BY <4>1, PhasePrimeLemma
      <4> QED
        BY <1>6, <1>8, <1>9, <2>1, <3>2, <3>3, <3>5, <4>2 DEF Precomputing!Compute
    <3> QED
      BY <3>4, <3>5
  <2>2. CASE u = t /\ m \notin Range(R)
    <3>1. /\ m \in ready'[t] <=> m \in ready[t]
          /\ m \in in_progress'[t] <=> m \in in_progress[t]
          /\ m \in Range(requests_queue'[t]) <=> m \in Range(requests_queue[t])
      BY <1>2, <1>4, <2>2
    <3>2. phase'[t][m] = phase[t][m]
      BY <3>1, PhaseLemma, PhasePrimeLemma
    <3> QED
      BY <1>10, <2>2, <3>2 DEF Precomputing!Rest
  <2>3. CASE u # t
    <3>1. phase'[u][m] = phase[u][m]
      BY <1>4, <2>3, PhaseLemma, PhasePrimeLemma
    <3> QED
      BY <1>10, <2>3, <3>1 DEF Precomputing!Rest
  <2> QED
    BY <2>1, <2>2, <2>3
<1> QED
  BY <1>11, <1>12, <1>13 DEF Precomputing!Next

\* A trace is closed and forgotten.
LEMMA CloseComputed ==
  ASSUME ComputedInv, NEW t \in Traces, ForgetRequests(t),
         in_progress' = [in_progress EXCEPT ![t] = {}],
         ready' = [ready EXCEPT ![t] = {}],
         computed' = [computed EXCEPT ![t] = NoComputation]
  PROVE  /\ ProgressType' /\ ProgressInv'
         /\ Precomputing!Next
<1> USE DEF ComputedInv, ServedInv, IdleInv, ListsType, WaitsType
<1>1. /\ requests_queue' = [requests_queue EXCEPT ![t] = << >>]
      /\ requests_current' = [requests_current EXCEPT ![t] = << >>]
      /\ position' = [position EXCEPT ![t] = 0]
  BY DEF ForgetRequests
<1>2. Range(<< >>) = {}
  BY EmptyList
<1>3. NoComputation \in [Modules -> Nat] /\ \A m \in Modules : NoComputation[m] = 0
  BY DEF NoComputation
<1>4. ProgressType'
  BY <1>1, <1>3 DEF ProgressType
<1>5. /\ requests_queue'[t] = << >> /\ requests_current'[t] = << >>
      /\ in_progress'[t] = {} /\ ready'[t] = {}
      /\ \A m \in Modules : computed'[t][m] = 0
  BY <1>1, <1>3 DEF ProgressType
<1>6. \A u \in Traces \ {t} :
        /\ requests_queue'[u] = requests_queue[u] /\ requests_current'[u] = requests_current[u]
        /\ in_progress'[u] = in_progress[u] /\ ready'[u] = ready[u]
        /\ computed'[u] = computed[u] /\ position'[u] = position[u]
  BY <1>1
<1>7. ProgressInv'
  <2> SUFFICES ASSUME NEW u \in Traces
               PROVE  /\ requests_current'[u] # << >> => position'[u] < Events[u]
                      /\ \A m \in Modules :
                           /\ m \in Range(requests_current'[u]) => computed'[u][m] = position'[u]
                           /\ m \notin ready'[u] \cup Range(requests_current'[u])
                                => computed'[u][m] = 0
    BY DEF ProgressInv
  <2>1. CASE u = t
    BY <1>2, <1>5, <2>1
  <2>2. CASE u # t
    BY <1>6, <2>2 DEF ProgressInv
  <2> QED
    BY <2>1, <2>2
<1>8. Precomputing!Close(t)
  BY <1>2, <1>5, PhasePrimeLemma DEF Precomputing!Close
<1>9. ASSUME NEW u \in Traces \ {t}, NEW m \in Modules
      PROVE  Precomputing!Rest(u, m)
  <2>1. u \in Traces
    OBVIOUS
  <2>2. /\ requests_queue'[u] = requests_queue[u] /\ in_progress'[u] = in_progress[u]
        /\ ready'[u] = ready[u]
    BY <1>6
  <2>3. phase'[u][m] = phase[u][m]
    BY <2>1, <2>2, RestLemma
  <2> QED
    BY <1>6, <2>3 DEF Precomputing!Rest
<1> QED
  BY <1>4, <1>7, <1>8, <1>9 DEF Precomputing!Next

\* Opening a trace again changes nothing the abstract specification sees.
LEMMA ReopenComputed ==
  ASSUME ComputedInv, ReopenTrace
  PROVE  /\ ProgressType' /\ ProgressInv'
         /\ UNCHANGED <<phase, computed>>
<1> USE DEF ComputedInv, ServedInv, IdleInv, ListsType
<1> DEFINE t == Head(to_reopen)
<1>1. /\ to_reopen # << >>
      /\ ForgetRequests(t)
      /\ UNCHANGED <<in_progress, ready, computed>>
  BY DEF ReopenTrace
<1>2. \A u \in Traces : requests_queue[u] = << >> /\ requests_current[u] = << >>
  BY <1>1 DEF NothingIsLost
<1> HIDE DEF t
<1>3. /\ requests_queue' = [requests_queue EXCEPT ![t] = << >>]
      /\ requests_current' = [requests_current EXCEPT ![t] = << >>]
      /\ position' = [position EXCEPT ![t] = 0]
  BY <1>1 DEF ForgetRequests
<1>4. requests_queue' = requests_queue /\ requests_current' = requests_current
  BY <1>2, <1>3
<1>5. ProgressType'
  BY <1>1, <1>3 DEF ProgressType
<1>6. ProgressInv'
  BY <1>1, <1>2, <1>4, EmptyList DEF ProgressInv
<1> QED
  BY <1>1, <1>4, <1>5, <1>6, StutterLemma

LEMMA NextComputedInv ==
  ASSUME OpenedOnce, ComputedInv, [Next]_vars
  PROVE  /\ ComputedInv'
         /\ [Precomputing!Next]_<<phase, computed>>
<1>1. ServedInv'
  BY NextServedInv DEF ComputedInv
<1> SUFFICES /\ ProgressType' /\ ProgressInv'
             /\ [Precomputing!Next]_<<phase, computed>>
  BY <1>1 DEF ComputedInv
<1>2. ASSUME UNCHANGED scheduling
      PROVE  /\ ProgressType' /\ ProgressInv'
             /\ UNCHANGED <<phase, computed>>
  BY <1>2, StutterLemma DEF ComputedInv, scheduling, ProgressType, ProgressInv
<1>3. CASE \E t \in Traces : ProcessPendingRequests(t)
  BY <1>3, ProcessComputed
<1>4. CASE \E v \in Viewers : CreateViewer(v) \/ NotifyViewer(v)
  BY <1>4, RequestComputed DEF CreateViewer, NotifyViewer
<1>5. CASE \E v \in Viewers : DestroyViewer(v)
  BY <1>2, <1>5 DEF DestroyViewer, Destroy
<1>6. CASE \E b \in Tabs : (\E t \in Traces : AddTrace(b, t)) \/ FailToAdd(b)
  BY <1>2, <1>6 DEF AddTrace, FailToAdd
<1>7. CASE \E b \in Tabs, t \in Traces : RemoveTrace(b, t)
  <2>1. PICK b \in Tabs, t \in Traces : RemoveTrace(b, t)
    BY <1>7
  <2>2. CASE \E other \in Tabs \ {b} : t \in Range(traceset[other])
    BY <1>2, <2>1, <2>2 DEF RemoveTrace
  <2>3. CASE ~\E other \in Tabs \ {b} : t \in Range(traceset[other])
    <3>1. /\ ForgetRequests(t)
          /\ in_progress' = [in_progress EXCEPT ![t] = {}]
          /\ ready' = [ready EXCEPT ![t] = {}]
          /\ computed' = [computed EXCEPT ![t] = NoComputation]
      BY <2>1, <2>3 DEF RemoveTrace
    <3> QED
      BY <3>1, CloseComputed
  <2> QED
    BY <2>2, <2>3
<1>8. CASE \E b \in Tabs : CloseTab(b)
  BY <1>2, <1>8 DEF CloseTab, Destroy
<1>9. CASE ReopenTrace
  BY <1>9, ReopenComputed
<1>10. CASE UNCHANGED vars
  BY <1>2, <1>10 DEF vars
<1> QED
  BY <1>3, <1>4, <1>5, <1>6, <1>7, <1>8, <1>9, <1>10, BackgroundAssumption DEF Next

\* Unless traces are opened again, the scheduler of background computations
\* (lttvwindowtraces_process_pending_requests and what the viewers and the
\* tracesets do to its requests) implements what its document promises: every
\* module sees every event of a trace once, in chunks that never pass its end,
\* and is flagged ready when, and only when, it has seen them all.
THEOREM PrecomputationIsImplemented == OpenedOnce /\ Spec => ImplementsPrecomputation
<1>1. Init => ComputedInv /\ Precomputing!Init
  <2> SUFFICES ASSUME Init PROVE ComputedInv /\ Precomputing!Init
    OBVIOUS
  <2>1. \A t \in Traces : ready[t] = {} /\ in_progress[t] = {} /\ Range(requests_queue[t]) = {}
    BY EmptyList DEF Init
  <2>2. \A t \in Traces, m \in Modules : phase[t][m] = "none"
    BY <2>1, PhaseLemma
  <2>3. phase = [t \in Traces |-> [m \in Modules |-> "none"]]
    BY <2>1 DEF phase
  <2> QED
    BY <2>3, InitComputedInv DEF Init, Precomputing!Init, NoComputation
<1>2. ASSUME OpenedOnce
      PROVE  ComputedInv /\ [Next]_vars => ComputedInv' /\ [Precomputing!Next]_<<phase, computed>>
  BY <1>2, NextComputedInv
<1>3. ASSUME OpenedOnce PROVE Spec => Precomputing!Spec
  BY <1>1, <1>2, <1>3, PTL DEF Spec, Precomputing!Spec, Precomputing!vars
<1> QED
  BY <1>3 DEF ImplementsPrecomputation

-----------------------------------------------------------------------------
(* Viewers are redrawn once what they asked for is there, for any traces,  *)
(* modules, viewers and tabs, and whatever changes of the tracesets make   *)
(* them ask again.                                                         *)

ViewersType ==
  /\ opened \subseteq Viewers
  /\ background_info_waiting \in [Viewers -> Int]
  /\ asked \in [Viewers -> SUBSET Traces]
  /\ drawn \in [Viewers -> BOOLEAN]

\* A viewer waits once for each trace, and counts those it waits for, which
\* are the ones it asked for whose data is not there.
Counts(v) ==
  /\ \A t \in Traces : notify_queue[t][v] \in {0, 1} /\ notify_current[t][v] \in {0, 1}
  /\ Pending(v) = {t \in asked[v] : ~Available(module[v], t)}
  /\ background_info_waiting[v] = Cardinality(Pending(v))
  /\ Pending(v) = {} => drawn[v]

CountInv == \A v \in opened \ miscounted : Counts(v)

DrawnInv == ServedInv /\ ViewersType /\ CountInv

LEMMA PendingFinite ==
  ASSUME NEW v
  PROVE  IsFiniteSet(Pending(v)) /\ Cardinality(Pending(v)) \in Nat
<1>1. IsFiniteSet(Traces) /\ Pending(v) \subseteq Traces
  BY BackgroundAssumption DEF Pending
<1> QED
  BY <1>1, FS_Subset, FS_CardinalityType

LEMMA InitDrawnInv == Init => DrawnInv
<1> SUFFICES ASSUME Init PROVE DrawnInv
  OBVIOUS
<1>1. ServedInv
  BY InitServedInv
<1>2. ViewersType
  BY DEF Init, ViewersType
<1>3. CountInv
  BY DEF CountInv, Init
<1> QED
  BY <1>1, <1>2, <1>3 DEF DrawnInv

\* Nothing changes for a viewer when its notifications and answers do not.
LEMMA SameViewer ==
  ASSUME NEW v \in Viewers, Counts(v),
         \A t \in Traces : /\ notify_queue'[t][v] = notify_queue[t][v]
                           /\ notify_current'[t][v] = notify_current[t][v],
         asked'[v] = asked[v], drawn'[v] = drawn[v],
         background_info_waiting'[v] = background_info_waiting[v],
         \A t \in asked[v] : Available(module[v], t)' <=> Available(module[v], t)
  PROVE  Counts(v)'
<1>1. Pending(v)' = Pending(v)
  BY DEF Pending
<1>2. {t \in asked'[v] : ~Available(module[v], t)'} = {t \in asked[v] : ~Available(module[v], t)}
  OBVIOUS
<1> QED
  BY <1>1, <1>2 DEF Counts

-----------------------------------------------------------------------------
(* The steps.                                                              *)

\* The notifications of a viewer that waited for none.
LEMMA PlusFromNone ==
  ASSUME NEW notify \in [Traces -> [Viewers -> Nat]], NEW v \in Viewers, NEW T,
         NEW t \in Traces, notify[t][v] = 0
  PROVE  Plus(notify, v, T)[t][v] = IF t \in T THEN 1 ELSE 0
<1>1. notify[t] \in [Viewers -> Nat]
  OBVIOUS
<1>2. Plus(notify, v, T)[t] = IF t \in T THEN [notify[t] EXCEPT ![v] = @ + 1] ELSE notify[t]
  BY DEF Plus
<1>3. [notify[t] EXCEPT ![v] = @ + 1][v] = 1
  BY <1>1
<1> QED
  BY <1>2, <1>3

\* A viewer that asks while nothing of it waits, be it new or told of a change,
\* waits for what is missing of what it looks at; another one is miscounted.
LEMMA AskStep ==
  ASSUME DrawnInv, NEW v \in Viewers, RequestBackgroundData(v), opened' \subseteq opened \cup {v}
  PROVE  ViewersType' /\ CountInv'
<1> USE DEF DrawnInv, ViewersType
<1> DEFINE M == Missing(v)
           A == AskedInProgress(v)
<1>1. /\ background_info_waiting' = [background_info_waiting EXCEPT ![v] = Cardinality(M)]
      /\ asked' = [asked EXCEPT ![v] = LookedAt(v)]
      /\ drawn' = [drawn EXCEPT ![v] = (M = {})]
      /\ miscounted' = IF Pending(v) = {} THEN miscounted \ {v} ELSE miscounted \cup {v}
      /\ UNCHANGED ready
  BY DEF RequestBackgroundData
<1>2. /\ notify_queue' = Plus(notify_queue, v, M \ A)
      /\ notify_current' = Plus(notify_current, v, A)
  BY DEF RequestBackgroundData
<1>3. LookedAt(v) \subseteq Traces
  <2>1. tab[v] \in Tabs /\ traces \in Seq(Traces) /\ TracesOpen
    BY BackgroundAssumption DEF ServedInv, IdleInv, ListsType
  <2>2. Range(traceset[tab[v]]) \subseteq Range(traces)
    BY <2>1 DEF TracesOpen
  <2>3. Range(traces) \subseteq Traces
    BY <2>1 DEF Range
  <2> QED
    BY <2>2, <2>3 DEF LookedAt
<1>4. /\ M = {t \in LookedAt(v) : ~Available(module[v], t)}
      /\ A \subseteq M /\ M \subseteq LookedAt(v)
  BY DEF Missing, AskedInProgress
<1>5. Cardinality(M) \in Int
  <2>1. IsFiniteSet(Traces) /\ M \subseteq Traces
    BY <1>3, <1>4, BackgroundAssumption
  <2>2. Cardinality(M) \in Nat
    BY <2>1, FS_Subset, FS_CardinalityType
  <2> QED
    BY <2>2
<1> HIDE DEF M, A
<1>6. ViewersType'
  <2>1. opened' \subseteq Viewers
    OBVIOUS
  <2> QED
    BY <1>1, <1>3, <1>5, <2>1
<1>7. /\ notify_queue \in [Traces -> [Viewers -> Nat]]
      /\ notify_current \in [Traces -> [Viewers -> Nat]]
  BY DEF ServedInv, WaitsType
<1>8. \A w \in Viewers : \A t : Available(module[w], t)' <=> Available(module[w], t)
  BY <1>1 DEF Available
<1>9. ASSUME v \notin miscounted'
      PROVE  Counts(v)'
  <2>1. \A t \in Traces : notify_queue[t][v] = 0 /\ notify_current[t][v] = 0
    <3>1. Pending(v) = {}
      BY <1>1, <1>9
    <3>2. ASSUME NEW t \in Traces
          PROVE  ~(notify_queue[t][v] > 0) /\ ~(notify_current[t][v] > 0)
      BY <3>1 DEF Pending
    <3>3. ASSUME NEW t \in Traces
          PROVE  notify_queue[t][v] \in Nat /\ notify_current[t][v] \in Nat
      BY <1>7
    <3> QED
      BY <3>2, <3>3
  <2>2. \A t \in Traces : /\ notify_queue'[t][v] = IF t \in M \ A THEN 1 ELSE 0
                          /\ notify_current'[t][v] = IF t \in A THEN 1 ELSE 0
    BY <1>2, <1>7, <2>1, PlusFromNone
  <2>3. Pending(v)' = M
    <3>1. M \subseteq Traces
      BY <1>3, <1>4
    <3>2. \A t \in Traces : t \in M <=> notify_queue'[t][v] > 0 \/ notify_current'[t][v] > 0
      BY <1>4, <2>2
    <3> QED
      BY <3>1, <3>2 DEF Pending
  <2>4. asked'[v] = LookedAt(v) /\ background_info_waiting'[v] = Cardinality(M)
    BY <1>1
  <2>5. drawn'[v] = (M = {})
    BY <1>1
  <2>6. M = {t \in asked'[v] : ~Available(module[v], t)'}
    BY <1>4, <1>8, <2>4
  <2>7. \A t \in Traces : notify_queue'[t][v] \in {0, 1} /\ notify_current'[t][v] \in {0, 1}
    BY <2>2
  <2> QED
    BY <2>3, <2>4, <2>5, <2>6, <2>7 DEF Counts
<1>10. ASSUME NEW w \in opened' \ miscounted', w # v
       PROVE  Counts(w)'
  <2>1. w \in opened \ miscounted /\ w \in Viewers
    BY <1>1, <1>10
  <2>2. \A t \in Traces : /\ notify_queue'[t][w] = notify_queue[t][w]
                          /\ notify_current'[t][w] = notify_current[t][w]
    BY <1>2, <1>7, <1>10, <2>1, PlusLemma
  <2>3. /\ asked'[w] = asked[w] /\ drawn'[w] = drawn[w]
        /\ background_info_waiting'[w] = background_info_waiting[w]
    BY <1>1, <1>10, <2>1
  <2> QED
    BY <1>8, <2>1, <2>2, <2>3, SameViewer DEF CountInv
<1> QED
  BY <1>6, <1>9, <1>10 DEF CountInv

\* The viewers that are left wait for what they waited for.
LEMMA DestroyStep ==
  ASSUME DrawnInv, NEW gone, Destroy(gone)
  PROVE  ViewersType' /\ CountInv'
<1> USE DEF DrawnInv, ViewersType
<1>1. /\ opened' = opened \ gone /\ miscounted' = miscounted \ gone
      /\ UNCHANGED ready
  BY DEF Destroy, scheduling
<1>2. /\ notify_queue' = NotificationsWithout(notify_queue, gone)
      /\ notify_current' = NotificationsWithout(notify_current, gone)
      /\ background_info_waiting' =
           [w \in Viewers |-> IF w \in gone THEN 0 ELSE background_info_waiting[w]]
      /\ asked' = [w \in Viewers |-> IF w \in gone THEN {} ELSE asked[w]]
      /\ drawn' = [w \in Viewers |-> IF w \in gone THEN FALSE ELSE drawn[w]]
  BY DEF Destroy
<1>3. ViewersType'
  <2>1. background_info_waiting' \in [Viewers -> Int]
    BY <1>2
  <2>2. asked' \in [Viewers -> SUBSET Traces]
    BY <1>2
  <2>3. drawn' \in [Viewers -> BOOLEAN]
    BY <1>2
  <2> QED
    BY <1>1, <2>1, <2>2, <2>3
<1>4. \A w \in Viewers : \A t : Available(module[w], t)' <=> Available(module[w], t)
  BY <1>1 DEF Available
<1>5. ASSUME NEW w \in opened' \ miscounted'
      PROVE  Counts(w)'
  <2>1. w \in opened \ miscounted /\ w \in Viewers /\ w \notin gone
    BY <1>1, <1>5
  <2>2. \A t \in Traces : /\ notify_queue'[t][w] = notify_queue[t][w]
                          /\ notify_current'[t][w] = notify_current[t][w]
    BY <1>2, <2>1 DEF NotificationsWithout
  <2>3. /\ asked'[w] = asked[w] /\ drawn'[w] = drawn[w]
        /\ background_info_waiting'[w] = background_info_waiting[w]
    BY <1>2, <2>1
  <2> QED
    BY <1>4, <2>1, <2>2, <2>3, SameViewer DEF CountInv
<1> QED
  BY <1>3, <1>5 DEF CountInv

\* A trace is closed, or closed and opened again: those whose notification is
\* lost with it are miscounted, and the others did not wait for it.
LEMMA ForgetDrawn ==
  ASSUME DrawnInv, NEW t \in Traces, ForgetRequests(t),
         \/ UNCHANGED <<ready, asked>>
         \/ /\ ready' = [ready EXCEPT ![t] = {}]
            /\ asked' = [v \in Viewers |-> asked[v] \ {t}],
         UNCHANGED <<opened, background_info_waiting, drawn>>
  PROVE  ViewersType' /\ CountInv'
<1> USE DEF DrawnInv, ViewersType
<1>1. ViewersType'
  OBVIOUS
<1>2. /\ notify_queue' = [notify_queue EXCEPT ![t] = None(t)]
      /\ notify_current' = [notify_current EXCEPT ![t] = None(t)]
      /\ miscounted' = miscounted \cup {v \in Viewers : t \in Pending(v)}
  BY DEF ForgetRequests
<1>3. /\ notify_queue \in [Traces -> [Viewers -> Nat]]
      /\ notify_current \in [Traces -> [Viewers -> Nat]]
      /\ ready \in [Traces -> SUBSET Modules]
  BY DEF ServedInv, WaitsType
<1>4. ASSUME NEW v \in opened' \ miscounted'
      PROVE  Counts(v)'
  <2>1. v \in Viewers /\ Counts(v) /\ t \notin Pending(v)
    BY <1>2, <1>4 DEF CountInv
  <2>2. \A u \in Traces : /\ notify_queue'[u][v] = notify_queue[u][v]
                          /\ notify_current'[u][v] = notify_current[u][v]
    <3>1. ~(notify_queue[t][v] > 0) /\ ~(notify_current[t][v] > 0)
      BY <2>1 DEF Pending
    <3>2. notify_queue[t][v] = 0 /\ notify_current[t][v] = 0
      BY <1>3, <2>1, <3>1
    <3>3. None(t)[v] = 0
      BY <2>1 DEF None
    <3> QED
      BY <1>2, <1>3, <3>2, <3>3
  <2>3. CASE UNCHANGED <<ready, asked>>
    BY <2>1, <2>2, <2>3, SameViewer DEF Available
  <2>4. CASE /\ ready' = [ready EXCEPT ![t] = {}]
             /\ asked' = [w \in Viewers |-> asked[w] \ {t}]
    <3>1. Pending(v)' = Pending(v)
      BY <2>2 DEF Pending
    <3>2. asked'[v] = asked[v] \ {t} /\ asked[v] \subseteq Traces
      BY <2>1, <2>4
    <3>3. \A u \in Traces \ {t} : Available(module[v], u)' <=> Available(module[v], u)
      BY <1>3, <2>4 DEF Available
    <3>4. Pending(v) = {u \in asked[v] : ~Available(module[v], u)}
      BY <2>1 DEF Counts
    <3>5. Pending(v)' = {u \in asked'[v] : ~Available(module[v], u)'}
      <4>1. {u \in asked'[v] : ~Available(module[v], u)'}
              = {u \in asked[v] : ~Available(module[v], u)} \ {t}
        BY <3>2, <3>3
      <4> QED
        BY <2>1, <3>1, <3>4, <4>1
    <3> QED
      BY <2>1, <2>2, <3>1, <3>5 DEF Counts
  <2> QED
    BY <2>3, <2>4
<1> QED
  BY <1>1, <1>4 DEF CountInv

\* A chunk that is not the last of its round moves notifications from one list
\* to the other; the last one notifies those who wait in either.
LEMMA ProcessNotifies ==
  ASSUME DrawnInv, NEW t \in Traces, ProcessPendingRequests(t),
         NEW w \in opened \ miscounted
  PROVE  /\ Notified(t)[w] \in {0, 1}
         /\ notify_queue'[t][w] \in {0, 1} /\ notify_current'[t][w] \in {0, 1}
         /\ ~EndOfTrace(t) => (t \in Pending(w)' <=> t \in Pending(w))
         /\ EndOfTrace(t) =>
              (t \in Pending(w)' <=> t \in Pending(w) /\ module[w] \notin Range(Round(t)))
         /\ EndOfTrace(t) =>
              (Notified(t)[w] = 1 <=> t \in Pending(w) /\ module[w] \in Range(Round(t)))
<1> USE DEF DrawnInv, ServedInv, IdleInv, ListsType, WaitsType
<1> w \in Viewers
  BY DEF ViewersType
<1> DEFINE q == notify_queue[t][w]
           c == notify_current[t][w]
<1>1. q \in {0, 1} /\ c \in {0, 1}
  BY DEF CountInv, Counts
<1>2. /\ q = 1 => module[w] \in Range(requests_queue[t])
      /\ c = 1 => module[w] \in Range(requests_current[t])
  BY <1>1 DEF NotificationsHaveRequests
<1>3. Range(requests_current[t]) \cap Range(requests_queue[t]) = {}
  BY DEF FlagsInv
<1>4. Starting(t) => c = 0
  BY <1>1, <1>2, EmptyList DEF Starting
<1>5. Notified(t)[w] = c + (IF Starting(t) THEN q ELSE 0)
  BY DEF Notified
<1>6. /\ notify_queue'[t] = (IF Starting(t) THEN None(t) ELSE notify_queue[t])
      /\ notify_current'[t] = (IF EndOfTrace(t) THEN None(t) ELSE Notified(t))
  BY DEF ProcessPendingRequests
<1>7. None(t)[w] = 0
  BY DEF None
<1>8. notify_queue'[t][w] = IF Starting(t) THEN 0 ELSE q
  BY <1>6, <1>7
<1>9. notify_current'[t][w] = IF EndOfTrace(t) THEN 0 ELSE Notified(t)[w]
  BY <1>6, <1>7
<1>10. t \in Pending(w) <=> q = 1 \/ c = 1
  BY <1>1 DEF Pending
<1>11. t \in Pending(w)' <=> notify_queue'[t][w] > 0 \/ notify_current'[t][w] > 0
  BY DEF Pending
<1>12. Range(Round(t)) = IF Starting(t) THEN Range(requests_queue[t]) ELSE Range(requests_current[t])
  BY DEF Round
<1> HIDE DEF q, c
<1>13. CASE Starting(t)
  <2>1. Notified(t)[w] = q
    BY <1>1, <1>4, <1>5, <1>13
  <2> QED
    BY <1>1, <1>2, <1>4, <1>8, <1>9, <1>10, <1>11, <1>12, <1>13, <2>1
<1>14. CASE ~Starting(t)
  <2>1. Notified(t)[w] = c
    BY <1>1, <1>5, <1>14
  <2>2. ~(q = 1 /\ module[w] \in Range(Round(t))) /\ (c = 1 => module[w] \in Range(Round(t)))
    BY <1>2, <1>3, <1>12, <1>14
  <2> QED
    BY <1>1, <1>8, <1>9, <1>10, <1>11, <1>14, <2>1, <2>2
<1> QED
  BY <1>13, <1>14

\* A chunk: those whose trace is ready are notified, and redrawn when it is
\* the last they wait for.
LEMMA ProcessDrawn ==
  ASSUME DrawnInv, NEW t \in Traces, ProcessPendingRequests(t)
  PROVE  ViewersType' /\ CountInv'
<1> USE DEF DrawnInv, ViewersType
<1> DEFINE R == Range(Round(t))
           n(w) == Notified(t)[w]
<1>1. UNCHANGED <<opened, miscounted, asked>>
  BY DEF ProcessPendingRequests
<1>2. ready' = [ready EXCEPT ![t] = IF EndOfTrace(t) THEN @ \cup R ELSE @]
  BY DEF ProcessPendingRequests
<1>3. IF EndOfTrace(t)
      THEN /\ background_info_waiting' = [w \in Viewers |-> background_info_waiting[w] - n(w)]
           /\ drawn' = [w \in Viewers |->
                IF Redraws(w, n(w))
                THEN \A u \in asked[w] : module[w] \in ready'[u] \/ Available(module[w], u)
                ELSE drawn[w]]
      ELSE UNCHANGED <<background_info_waiting, drawn>>
  BY DEF ProcessPendingRequests
<1>4. \A u \in Traces \ {t} : /\ notify_queue'[u] = notify_queue[u]
                              /\ notify_current'[u] = notify_current[u]
  BY DEF ProcessPendingRequests, ServedInv, WaitsType
<1>5. \A w \in opened \ miscounted :
        /\ n(w) \in {0, 1}
        /\ notify_queue'[t][w] \in {0, 1} /\ notify_current'[t][w] \in {0, 1}
        /\ ~EndOfTrace(t) => (t \in Pending(w)' <=> t \in Pending(w))
        /\ EndOfTrace(t) => (t \in Pending(w)' <=> t \in Pending(w) /\ module[w] \notin R)
        /\ EndOfTrace(t) => (n(w) = 1 <=> t \in Pending(w) /\ module[w] \in R)
  BY ProcessNotifies
<1>6. \A w \in Viewers, u \in Traces \ {t} : u \in Pending(w)' <=> u \in Pending(w)
  BY <1>4 DEF Pending
<1>7. ready \in [Traces -> SUBSET Modules]
  BY DEF ServedInv, WaitsType
<1>8. \A w \in Viewers : asked[w] \subseteq Traces
  OBVIOUS
<1>9. \A w \in Viewers : n(w) \in Nat
  <2>1. \A w \in Viewers : notify_queue[t][w] \in Nat /\ notify_current[t][w] \in Nat
    BY DEF ServedInv, WaitsType
  <2> QED
    BY <2>1 DEF Notified
<1> HIDE DEF R, n
<1>10. ViewersType'
  <2>1. background_info_waiting' \in [Viewers -> Int]
    <3>1. \A w \in Viewers : background_info_waiting[w] - n(w) \in Int
      BY <1>9
    <3>2. CASE EndOfTrace(t)
      BY <1>3, <3>1, <3>2
    <3>3. CASE ~EndOfTrace(t)
      BY <1>3, <3>3
    <3> QED
      BY <3>2, <3>3
  <2>2. drawn' \in [Viewers -> BOOLEAN]
    BY <1>3
  <2> QED
    BY <1>1, <2>1, <2>2
<1>11. \A w \in Viewers, u \in Traces :
         Available(module[w], u)' <=> \/ Available(module[w], u)
                                      \/ u = t /\ EndOfTrace(t) /\ module[w] \in R
  BY <1>2, <1>7 DEF Available
<1>12. ASSUME NEW w \in opened \ miscounted
       PROVE  /\ Pending(w)' = {u \in asked'[w] : ~Available(module[w], u)'}
              /\ background_info_waiting'[w] = Cardinality(Pending(w)')
              /\ Pending(w)' = {} => drawn'[w]
  <2>1. /\ w \in Viewers
        /\ Pending(w) = {u \in asked[w] : ~Available(module[w], u)}
        /\ background_info_waiting[w] = Cardinality(Pending(w))
        /\ Pending(w) = {} => drawn[w]
    BY DEF CountInv, Counts
  <2>2. Pending(w) \subseteq Traces /\ Pending(w)' \subseteq Traces
    BY DEF Pending
  <2>3. IsFiniteSet(Pending(w)) /\ Cardinality(Pending(w)) \in Nat
    BY PendingFinite
  <2>4. CASE EndOfTrace(t) /\ n(w) = 1
    <3>1. t \in Pending(w) /\ module[w] \in R /\ Pending(w)' = Pending(w) \ {t}
      BY <1>5, <1>6, <2>1, <2>2, <2>4
    <3>2. Pending(w)' = {u \in asked'[w] : ~Available(module[w], u)'}
      BY <1>1, <1>8, <1>11, <2>1, <2>4, <3>1
    <3>3. background_info_waiting'[w] = background_info_waiting[w] - 1
      BY <1>3, <2>1, <2>4
    <3>4. Cardinality(Pending(w)') = Cardinality(Pending(w)) - 1
      BY <2>3, <3>1, FS_RemoveElement
    <3>5. ASSUME Pending(w)' = {} PROVE drawn'[w]
      <4>1. Cardinality(Pending(w)) = 1
        BY <2>3, <3>4, <3>5, FS_EmptySet
      <4>2. Redraws(w, n(w))
        BY <2>1, <2>4, <4>1 DEF Redraws
      <4>3. \A u \in asked[w] : Available(module[w], u)'
        BY <1>1, <3>2, <3>5
      <4>4. \A u \in asked[w] : module[w] \in ready'[u] \/ Available(module[w], u)
        BY <4>3 DEF Available
      <4>5. drawn'[w] = (\A u \in asked[w] : module[w] \in ready'[u] \/ Available(module[w], u))
        BY <1>3, <2>1, <2>4, <4>2
      <4> QED
        BY <4>4, <4>5
    <3> QED
      BY <2>1, <3>1, <3>2, <3>3, <3>4, <3>5
  <2>5. CASE ~(EndOfTrace(t) /\ n(w) = 1)
    <3>1. Pending(w)' = Pending(w)
      <4>1. t \in Pending(w)' <=> t \in Pending(w)
        BY <1>5, <2>5
      <4>2. \A u \in Traces : u \in Pending(w)' <=> u \in Pending(w)
        BY <1>6, <2>1, <4>1
      <4> QED
        BY <2>2, <4>2
    <3>2. background_info_waiting'[w] = background_info_waiting[w] /\ drawn'[w] = drawn[w]
      <4>1. CASE EndOfTrace(t)
        <5>1. n(w) = 0
          BY <1>5, <2>5, <4>1
        <5>2. ~Redraws(w, n(w))
          BY <5>1 DEF Redraws
        <5>3. background_info_waiting'[w] = background_info_waiting[w] - 0
          BY <1>3, <2>1, <4>1, <5>1
        <5>4. background_info_waiting[w] \in Int
          BY <2>1
        <5>5. drawn'[w] = drawn[w]
          BY <1>3, <2>1, <4>1, <5>2
        <5> QED
          BY <5>3, <5>4, <5>5
      <4>2. CASE ~EndOfTrace(t)
        BY <1>3, <4>2
      <4> QED
        BY <4>1, <4>2
    <3>3. Pending(w)' = {u \in asked'[w] : ~Available(module[w], u)'}
      <4>1. ASSUME t \in asked[w], EndOfTrace(t), module[w] \in R PROVE Available(module[w], t)
        BY <1>5, <2>1, <2>5, <4>1
      <4>2. \A u \in asked[w] : Available(module[w], u)' <=> Available(module[w], u)
        BY <1>8, <1>11, <2>1, <4>1
      <4> QED
        BY <1>1, <2>1, <3>1, <4>2
    <3> QED
      BY <2>1, <3>1, <3>2, <3>3
  <2> QED
    BY <2>4, <2>5
<1>13. \A w \in opened \ miscounted, u \in Traces : /\ notify_queue'[u][w] \in {0, 1}
                                                    /\ notify_current'[u][w] \in {0, 1}
  BY <1>4, <1>5 DEF CountInv, Counts
<1>14. ASSUME NEW w \in opened' \ miscounted' PROVE Counts(w)'
  <2>1. w \in opened \ miscounted
    BY <1>1
  <2> QED
    BY <1>12, <1>13, <2>1 DEF Counts
<1> QED
  BY <1>10, <1>14 DEF CountInv

LEMMA NextDrawnInv ==
  ASSUME OpenedOnce, DrawnInv, [Next]_vars
  PROVE  DrawnInv'
<1> USE DEF DrawnInv
<1>1. ServedInv'
  BY NextServedInv
<1> SUFFICES ViewersType' /\ CountInv'
  BY <1>1
<1>2. ASSUME UNCHANGED ready, UNCHANGED viewing, opened' = opened
      PROVE  ViewersType' /\ CountInv'
  <2>1. ViewersType'
    BY <1>2 DEF viewing, ViewersType
  <2>2. ASSUME NEW v \in opened' \ miscounted' PROVE Counts(v)'
    BY <1>2, <2>2, SameViewer DEF viewing, CountInv, ViewersType, Available
  <2> QED
    BY <2>1, <2>2 DEF CountInv
<1>3. CASE \E t \in Traces : ProcessPendingRequests(t)
  BY <1>3, ProcessDrawn
<1>4. CASE \E v \in Viewers : CreateViewer(v) \/ NotifyViewer(v)
  <2>1. PICK v \in Viewers : RequestBackgroundData(v) /\ opened' \subseteq opened \cup {v}
    BY <1>4 DEF CreateViewer, NotifyViewer
  <2> QED
    BY <2>1, AskStep
<1>5. CASE \/ \E v \in Viewers : DestroyViewer(v)
           \/ \E b \in Tabs : CloseTab(b)
  <2>1. PICK gone : Destroy(gone)
    BY <1>5 DEF DestroyViewer, CloseTab
  <2> QED
    BY <2>1, DestroyStep
<1>6. CASE \E b \in Tabs : (\E t \in Traces : AddTrace(b, t)) \/ FailToAdd(b)
  BY <1>2, <1>6 DEF AddTrace, FailToAdd, scheduling
<1>7. CASE \E b \in Tabs, t \in Traces : RemoveTrace(b, t)
  <2>1. PICK b \in Tabs, t \in Traces : RemoveTrace(b, t)
    BY <1>7
  <2>2. CASE \E other \in Tabs \ {b} : t \in Range(traceset[other])
    BY <1>2, <2>1, <2>2 DEF RemoveTrace, scheduling
  <2>3. CASE ~\E other \in Tabs \ {b} : t \in Range(traceset[other])
    <3>1. /\ ForgetRequests(t)
          /\ ready' = [ready EXCEPT ![t] = {}]
          /\ asked' = [v \in Viewers |-> asked[v] \ {t}]
          /\ UNCHANGED <<opened, background_info_waiting, drawn>>
      BY <2>1, <2>3 DEF RemoveTrace
    <3> QED
      BY <3>1, ForgetDrawn
  <2> QED
    BY <2>2, <2>3
<1>8. CASE ReopenTrace
  <2> DEFINE t == Head(to_reopen)
  <2>1. /\ to_reopen # << >> /\ ForgetRequests(t)
        /\ UNCHANGED <<ready, asked, opened, background_info_waiting, drawn>>
    BY <1>8 DEF ReopenTrace
  <2>2. t \in Traces
    BY <2>1, TailLemma DEF ServedInv, IdleInv, ListsType
  <2> HIDE DEF t
  <2> QED
    BY <2>1, <2>2, ForgetDrawn
<1>9. CASE UNCHANGED vars
  BY <1>2, <1>9 DEF vars, scheduling
<1> QED
  BY <1>3, <1>4, <1>5, <1>6, <1>7, <1>8, <1>9, BackgroundAssumption DEF Next

\* Unless traces are opened again: however tracesets change and viewers come, go
\* and ask again, a viewer whose notifications are counted right, because
\* none of it waited when it asked last and none was dropped with its trace since
\* (see miscounted), is redrawn once all it asked for is there: the count that
\* background_ready decrements reaches zero with the last notification of
\* lttvwindowtraces_process_pending_requests, and not before.
THEOREM ViewersAreRedrawn == OpenedOnce /\ Spec => []RedrawnOncePrecomputed
<1>1. Init => DrawnInv
  BY InitDrawnInv
<1>2. ASSUME OpenedOnce PROVE DrawnInv /\ [Next]_vars => DrawnInv'
  BY <1>2, NextDrawnInv
<1>3. DrawnInv => RedrawnOncePrecomputed
  BY DEF DrawnInv, CountInv, Counts, RedrawnOncePrecomputed
<1>4. ASSUME OpenedOnce PROVE Spec => []RedrawnOncePrecomputed
  BY <1>1, <1>2, <1>3, <1>4, PTL DEF Spec
<1> QED
  BY <1>4
=============================================================================
