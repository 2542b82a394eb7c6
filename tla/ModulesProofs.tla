---------------------------- MODULE ModulesProofs ----------------------------
(***************************************************************************)
(* Modules are counted rightly and nothing that is used is freed, whatever *)
(* libraries there are, whatever modules they have, and whatever the       *)
(* windows and the command line require, release, load and unload.         *)
(***************************************************************************)
EXTENDS WindowMenus, GSListProofs, WellFoundedInduction

-----------------------------------------------------------------------------
(* Stacks of calls.                                                        *)

Frames ==
  {require(n) : n \in Names} \cup {release(m) : m \in AllModules}
  \cup {acquiring(p[1], p[2]) : p \in AllModules \X (Libraries \cup {NoLibrary})}
  \cup {undoing(p[1], p[2], p[3]) : p \in AllModules \X (Libraries \cup {NoLibrary}) \X (Nat \ {0})}
  \cup {releasing(p[1], p[2]) : p \in AllModules \X (Nat \ {0})}
  \cup {loaded(p[1], p[2]) : p \in Names \X Libraries}
  \cup {requiring}

\* Calls that hold a use of m, that work on the prerequisites of m, and that
\* give them back.
Holding(m) ==
  {f \in Frames : f.at \in {"module_release", "acquiring", "undoing"} /\ f.m = m}
Working(m) ==
  {f \in Frames : f.at \in {"acquiring", "undoing", "releasing"} /\ f.m = m}

\* Calls that lock library l.
Locking(l) ==
  {f \in Frames : \/ f.at \in {"loaded", "acquiring", "undoing"} /\ f.l = l
                  \/ f.at = "releasing" /\ library(f.m) = l}

Count(list, S) == Cardinality(Links(list, S))
One(b) == IF b THEN 1 ELSE 0

LEMMA FrameFacts ==
  /\ \A n \in Names : /\ require(n) \in Frames
                      /\ \A m : require(n) \notin Holding(m) \cup Working(m)
                      /\ \A l : require(n) \notin Locking(l)
  /\ \A n \in Names, k \in Libraries :
       /\ loaded(n, k) \in Frames
       /\ \A m : loaded(n, k) \notin Holding(m) \cup Working(m)
       /\ \A l : loaded(n, k) \in Locking(l) <=> l = k
  /\ \A m \in AllModules :
       /\ release(m) \in Frames
       /\ \A p : release(m) \notin Working(p) /\ (release(m) \in Holding(p) <=> p = m)
       /\ \A l : release(m) \notin Locking(l)
  /\ \A m \in AllModules, k \in Libraries \cup {NoLibrary} :
       /\ acquiring(m, k) \in Frames
       /\ \A p : /\ acquiring(m, k) \in Working(p) <=> p = m
                 /\ acquiring(m, k) \in Holding(p) <=> p = m
       /\ \A l : acquiring(m, k) \in Locking(l) <=> l = k
  /\ \A m \in AllModules, k \in Libraries \cup {NoLibrary}, i \in Nat \ {0} :
       /\ undoing(m, k, i) \in Frames
       /\ \A p : /\ undoing(m, k, i) \in Working(p) <=> p = m
                 /\ undoing(m, k, i) \in Holding(p) <=> p = m
       /\ \A l : undoing(m, k, i) \in Locking(l) <=> l = k
  /\ \A m \in AllModules, i \in Nat \ {0} :
       /\ releasing(m, i) \in Frames
       /\ \A p : /\ releasing(m, i) \in Working(p) <=> p = m
                 /\ releasing(m, i) \notin Holding(p)
       /\ \A l : releasing(m, i) \in Locking(l) <=> l = library(m)
  /\ /\ requiring \in Frames
     /\ \A m : requiring \notin Holding(m) \cup Working(m)
     /\ \A l : requiring \notin Locking(l)
<1>1. /\ \A n \in Names : require(n) \in Frames
      /\ \A n \in Names, k \in Libraries : loaded(n, k) \in Frames
      /\ \A m \in AllModules : release(m) \in Frames
      /\ \A m \in AllModules, k \in Libraries \cup {NoLibrary} : acquiring(m, k) \in Frames
      /\ \A m \in AllModules, k \in Libraries \cup {NoLibrary}, i \in Nat \ {0} :
           undoing(m, k, i) \in Frames
      /\ \A m \in AllModules, i \in Nat \ {0} : releasing(m, i) \in Frames
      /\ requiring \in Frames
  <2>1. \A n \in Names, k \in Libraries : loaded(n, k) \in Frames
    <3> TAKE n \in Names, k \in Libraries
    <3>1. <<n, k>> \in Names \X Libraries /\ <<n, k>>[1] = n /\ <<n, k>>[2] = k
      OBVIOUS
    <3> QED BY <3>1, Zenon DEF Frames
  <2>2. \A m \in AllModules, k \in Libraries \cup {NoLibrary} : acquiring(m, k) \in Frames
    <3> TAKE m \in AllModules, k \in Libraries \cup {NoLibrary}
    <3>1. <<m, k>> \in AllModules \X (Libraries \cup {NoLibrary}) /\ <<m, k>>[1] = m /\ <<m, k>>[2] = k
      OBVIOUS
    <3> QED BY <3>1, Zenon DEF Frames
  <2>3. \A m \in AllModules, k \in Libraries \cup {NoLibrary}, i \in Nat \ {0} :
          undoing(m, k, i) \in Frames
    <3> TAKE m \in AllModules, k \in Libraries \cup {NoLibrary}, i \in Nat \ {0}
    <3>1. /\ <<m, k, i>> \in AllModules \X (Libraries \cup {NoLibrary}) \X (Nat \ {0})
          /\ <<m, k, i>>[1] = m /\ <<m, k, i>>[2] = k /\ <<m, k, i>>[3] = i
      OBVIOUS
    <3> QED BY <3>1, Zenon DEF Frames
  <2>4. \A m \in AllModules, i \in Nat \ {0} : releasing(m, i) \in Frames
    <3> TAKE m \in AllModules, i \in Nat \ {0}
    <3>1. <<m, i>> \in AllModules \X (Nat \ {0}) /\ <<m, i>>[1] = m /\ <<m, i>>[2] = i
      OBVIOUS
    <3> QED BY <3>1, Zenon DEF Frames
  <2> QED
    BY <2>1, <2>2, <2>3, <2>4, Zenon DEF Frames
<1>2. \A n, k, m, i : /\ require(n).at = "module_require"
                      /\ loaded(n, k).at = "loaded" /\ loaded(n, k).l = k
                      /\ release(m).at = "module_release" /\ release(m).m = m
                      /\ acquiring(m, k).at = "acquiring" /\ acquiring(m, k).m = m
                      /\ acquiring(m, k).l = k
                      /\ undoing(m, k, i).at = "undoing" /\ undoing(m, k, i).m = m
                      /\ undoing(m, k, i).l = k
                      /\ releasing(m, i).at = "releasing" /\ releasing(m, i).m = m
                      /\ requiring.at = "lttv_module_require"
  BY DEF require, loaded, release, acquiring, undoing, releasing, requiring
<1> QED
  BY <1>1, <1>2 DEF Holding, Working, Locking

LEMMA FrameCases ==
  ASSUME NEW f \in Frames
  PROVE  \/ \E n \in Names : f = require(n)
         \/ \E m \in AllModules : f = release(m)
         \/ \E m \in AllModules, k \in Libraries \cup {NoLibrary} : f = acquiring(m, k)
         \/ \E m \in AllModules, k \in Libraries \cup {NoLibrary}, i \in Nat \ {0} :
              f = undoing(m, k, i)
         \/ \E m \in AllModules, i \in Nat \ {0} : f = releasing(m, i)
         \/ \E n \in Names, k \in Libraries : f = loaded(n, k)
         \/ f = requiring
<1>1. \A p \in AllModules \X (Libraries \cup {NoLibrary}) :
        p[1] \in AllModules /\ p[2] \in Libraries \cup {NoLibrary}
  OBVIOUS
<1>2. \A p \in AllModules \X (Libraries \cup {NoLibrary}) \X (Nat \ {0}) :
        p[1] \in AllModules /\ p[2] \in Libraries \cup {NoLibrary} /\ p[3] \in Nat \ {0}
  OBVIOUS
<1>3. \A p \in AllModules \X (Nat \ {0}) : p[1] \in AllModules /\ p[2] \in Nat \ {0}
  OBVIOUS
<1>4. \A p \in Names \X Libraries : p[1] \in Names /\ p[2] \in Libraries
  OBVIOUS
<1> QED
  BY <1>1, <1>2, <1>3, <1>4, Zenon DEF Frames

\* What a call under way is for, by its place.
LEMMA FrameAt ==
  ASSUME NEW f \in Frames
  PROVE  /\ f.at = "module_require" => f.name \in Names /\ f = require(f.name)
         /\ f.at = "module_release" => f.m \in AllModules /\ f = release(f.m)
         /\ f.at = "acquiring" => /\ f.m \in AllModules /\ f.l \in Libraries \cup {NoLibrary}
                                  /\ f = acquiring(f.m, f.l)
         /\ f.at = "undoing" => /\ f.m \in AllModules /\ f.l \in Libraries \cup {NoLibrary}
                                /\ f.i \in Nat \ {0} /\ f = undoing(f.m, f.l, f.i)
         /\ f.at = "releasing" => f.m \in AllModules /\ f.i \in Nat \ {0} /\ f = releasing(f.m, f.i)
         /\ f.at = "loaded" => f.name \in Names /\ f.l \in Libraries /\ f = loaded(f.name, f.l)
         /\ f.at = "lttv_module_require" => f = requiring
         /\ "m" \in DOMAIN f => f.at \in {"module_release", "acquiring", "undoing", "releasing"}
<1> USE DEF require, loaded, release, acquiring, undoing, releasing, requiring
<1>1. CASE \E n \in Names : f = require(n)
  BY <1>1
<1>2. CASE \E m \in AllModules : f = release(m)
  BY <1>2
<1>3. CASE \E m \in AllModules, k \in Libraries \cup {NoLibrary} : f = acquiring(m, k)
  BY <1>3
<1>4. CASE \E m \in AllModules, k \in Libraries \cup {NoLibrary}, i \in Nat \ {0} :
             f = undoing(m, k, i)
  BY <1>4
<1>5. CASE \E m \in AllModules, i \in Nat \ {0} : f = releasing(m, i)
  BY <1>5
<1>6. CASE \E n \in Names, k \in Libraries : f = loaded(n, k)
  BY <1>6
<1>7. CASE f = requiring
  BY <1>7
<1> QED
  BY <1>1, <1>2, <1>3, <1>4, <1>5, <1>6, <1>7, FrameCases

LEMMA TopLemma ==
  ASSUME NEW T, NEW s \in Seq(T), s # << >>
  PROVE  LET u == SubSeq(s, 1, Len(s) - 1) IN
         /\ u \in Seq(T) /\ s[Len(s)] \in T /\ s = Append(u, s[Len(s)])
OBVIOUS

LEMMA PushFacts ==
  ASSUME NEW T, NEW u \in Seq(T), NEW f \in T
  PROVE  /\ Append(u, f) \in Seq(T) /\ Append(u, f) # << >>
         /\ Len(Append(u, f)) = Len(u) + 1 /\ Append(u, f)[Len(Append(u, f))] = f
         /\ Range(Append(u, f)) = Range(u) \cup {f}
<1> DEFINE s == Append(u, f)
<1>1. /\ s \in Seq(T) /\ s # << >> /\ Len(s) = Len(u) + 1 /\ s[Len(s)] = f
      /\ \A i \in 1 .. Len(u) : s[i] = u[i]
      /\ DOMAIN s = 1 .. (Len(u) + 1) /\ DOMAIN u = 1 .. Len(u) /\ Len(u) \in Nat
  OBVIOUS
<1> HIDE DEF s
<1>2. Range(s) \subseteq Range(u) \cup {f}
  BY <1>1 DEF Range
<1>3. Range(u) \cup {f} \subseteq Range(s)
  BY <1>1 DEF Range
<1> QED
  BY <1>1, <1>2, <1>3 DEF s

LEMMA PushCount ==
  ASSUME NEW T, NEW u \in Seq(T), NEW f \in T, NEW S
  PROVE  Count(Append(u, f), S) = Count(u, S) + One(f \in S)
<1> DEFINE s == Append(u, f)
           n == Len(u) + 1
<1>1. /\ IsFiniteSet(Links(u, S)) /\ Cardinality(Links(u, S)) \in Nat
      /\ Links(u, S) \subseteq 1 .. Len(u)
  BY LinksFinite
<1>2. /\ n \notin 1 .. Len(u) /\ s[n] = f /\ DOMAIN s = 1 .. n /\ DOMAIN u = 1 .. Len(u)
      /\ \A i \in 1 .. Len(u) : s[i] = u[i]
      /\ 1 .. n = 1 .. Len(u) \cup {n}
  OBVIOUS
<1> HIDE DEF s, n
<1>3. Links(s, S) = IF f \in S THEN Links(u, S) \cup {n} ELSE Links(u, S)
  BY <1>2 DEF Links
<1>4. Cardinality(Links(u, S) \cup {n}) = Cardinality(Links(u, S)) + 1
  BY <1>1, <1>2, FS_AddElement
<1> QED
  BY <1>1, <1>3, <1>4 DEF Count, One, s

LEMMA CountNat ==
  ASSUME NEW T, NEW s \in Seq(T), NEW S
  PROVE  Count(s, S) \in Nat /\ (Count(s, S) = 0 <=> Range(s) \cap S = {})
<1>1. IsFiniteSet(Links(s, S)) /\ Cardinality(Links(s, S)) \in Nat
  BY LinksFinite
<1>2. Cardinality(Links(s, S)) = 0 <=> Links(s, S) = {}
  BY <1>1, FS_EmptySet
<1>3. Links(s, S) = {} <=> Range(s) \cap S = {}
  BY DEF Links, Range
<1> QED
  BY <1>1, <1>2, <1>3 DEF Count

LEMMA EmptyStack ==
  /\ << >> \in Seq(Frames) /\ Range(<< >>) = {}
  /\ \A S : Count(<< >>, S) = 0
<1>1. << >> \in Seq(Frames) /\ Range(<< >>) = {}
  BY DEF Range
<1> QED
  BY <1>1, CountNat

-----------------------------------------------------------------------------
(* The order of the calls under way.                                       *)

\* g may be called, by itself or by others, from f.
MayCall(f, g) ==
  /\ f.at \in {"lttv_module_require", "acquiring", "undoing", "releasing"}
  /\ f.at \in {"undoing", "releasing"} => g.at \in {"module_release", "releasing"}
IsNested(st) ==
  /\ \A j, k \in DOMAIN st : j < k => MayCall(st[j], st[k])
  /\ st # << >> => st[1].at \in {"lttv_module_require", "module_release", "releasing"}

\* A call that returned something returned it to one that waits for it.
IsAwaited(st, res) ==
  res # Nothing => st # << >> /\ st[Len(st)].at \in {"acquiring", "lttv_module_require"}

LEMMA PushNested ==
  ASSUME NEW u \in Seq(Frames), NEW f \in Frames
  PROVE  IsNested(Append(u, f)) <=>
           /\ IsNested(u)
           /\ \A g \in Range(u) : MayCall(g, f)
           /\ u = << >> => f.at \in {"lttv_module_require", "module_release", "releasing"}
<1> DEFINE s == Append(u, f)
           n == Len(u) + 1
<1>1. /\ s[n] = f /\ DOMAIN s = 1 .. n /\ DOMAIN u = 1 .. Len(u) /\ Len(u) \in Nat
      /\ \A i \in 1 .. Len(u) : s[i] = u[i]
      /\ s # << >>
      /\ u # << >> => Len(u) > 0
      /\ u = << >> => n = 1
  OBVIOUS
<1> HIDE DEF s, n
<1>2. n = Len(u) + 1
  BY DEF n
<1>3. \A g \in Range(u) : \E i \in 1 .. Len(u) : u[i] = g
  BY <1>1 DEF Range
<1>4. \A i \in 1 .. Len(u) : u[i] \in Range(u)
  BY <1>1 DEF Range
<1>5. (\A j, k \in 1 .. n : j < k => MayCall(s[j], s[k])) <=>
        /\ \A j, k \in 1 .. Len(u) : j < k => MayCall(u[j], u[k])
        /\ \A g \in Range(u) : MayCall(g, f)
  BY <1>1, <1>2, <1>3, <1>4
<1>6. s[1] = IF u = << >> THEN f ELSE u[1]
  BY <1>1
<1> QED
  BY <1>1, <1>5, <1>6 DEF IsNested, s

\* Where a call may be made from, and what it returns to.
LEMMA NestedTop ==
  ASSUME NEW u \in Seq(Frames), NEW f \in Frames, IsNested(Append(u, f))
  PROVE  /\ IsNested(u) /\ \A g \in Range(u) : MayCall(g, f)
         /\ \A g \in Frames : g.at = f.at => IsNested(Append(u, g))
         /\ f.at \in {"module_require", "loaded", "acquiring", "undoing"} =>
              /\ u # << >> /\ u[Len(u)] \in Range(u)
              /\ u[Len(u)].at \in {"acquiring", "lttv_module_require"}
              /\ \A g \in Range(u) : g.at \in {"acquiring", "lttv_module_require"}
              /\ \A g \in Frames : g.at \in {"module_require", "loaded", "acquiring", "undoing"}
                   => IsNested(Append(u, g))
         /\ f.at = "lttv_module_require" => \A g \in Range(u) : g.at \in {"acquiring", "lttv_module_require"}
<1>1. /\ IsNested(u)
      /\ \A g \in Range(u) : MayCall(g, f)
      /\ u = << >> => f.at \in {"lttv_module_require", "module_release", "releasing"}
  BY PushNested
<1>2. \A g \in Frames : g.at = f.at => IsNested(Append(u, g))
  BY <1>1, PushNested DEF MayCall
<1>3. u # << >> => u[Len(u)] \in Range(u)
  BY DEF Range
<1>4. f.at \in {"module_require", "loaded", "acquiring", "undoing", "lttv_module_require"} =>
        \A g \in Range(u) : g.at \in {"acquiring", "lttv_module_require"}
  BY <1>1 DEF MayCall
<1>5. f.at \in {"module_require", "loaded", "acquiring", "undoing"} => u # << >>
  BY <1>1
<1>6. ASSUME f.at \in {"module_require", "loaded", "acquiring", "undoing"}
      PROVE  \A g \in Frames : g.at \in {"module_require", "loaded", "acquiring", "undoing"}
                   => IsNested(Append(u, g))
  BY <1>1, <1>4, <1>5, <1>6, PushNested DEF MayCall
<1> QED
  BY <1>1, <1>2, <1>3, <1>4, <1>5, <1>6

-----------------------------------------------------------------------------
(* The prerequisites that are not given back.                              *)

Gives(f, x) == f.at \in {"undoing", "releasing"} /\ f.m = x
IsKept(st, x, i) == \A f \in Range(st) : Gives(f, x) => i >= f.i
KeptPlaces(st, pr, m) ==
  {p \in AllModules \X Nat : /\ p[2] \in DOMAIN pr[p[1]] /\ pr[p[1]][p[2]] = m
                             /\ IsKept(st, p[1], p[2])}

Lists == [AllModules -> Seq(AllModules)]

\* A call that gives nothing back, or nothing yet.
LEMMA KeptPush ==
  ASSUME NEW u \in Seq(Frames), NEW f \in Frames, NEW pr \in Lists, NEW m,
         \A x : Gives(f, x) => f.i = 1
  PROVE  KeptPlaces(Append(u, f), pr, m) = KeptPlaces(u, pr, m)
<1>1. Range(Append(u, f)) = Range(u) \cup {f}
  BY PushFacts
<1>2. \A p \in AllModules \X Nat : p[2] \in DOMAIN pr[p[1]] => p[2] >= 1
  BY DEF Lists
<1>3. \A p \in AllModules \X Nat : p[2] \in DOMAIN pr[p[1]] =>
        (IsKept(Append(u, f), p[1], p[2]) <=> IsKept(u, p[1], p[2]))
  BY <1>1, <1>2 DEF IsKept
<1> QED
  BY <1>3 DEF KeptPlaces

\* The next one is given back.
LEMMA KeptStep ==
  ASSUME NEW u \in Seq(Frames), NEW f \in Frames, NEW g \in Frames, NEW pr \in Lists,
         NEW x \in AllModules, Gives(f, x), Gives(g, x), f.i \in Nat, g.i = f.i + 1,
         Count(Append(u, f), Working(x)) <= 1, f.i \in DOMAIN pr[x]
  PROVE  \A m : LET before == KeptPlaces(Append(u, f), pr, m)
                    after == KeptPlaces(Append(u, g), pr, m)
                IN  IF m = pr[x][f.i] THEN <<x, f.i>> \in before /\ after = before \ {<<x, f.i>>}
                                      ELSE after = before
<1>1. /\ Range(Append(u, f)) = Range(u) \cup {f} /\ Range(Append(u, g)) = Range(u) \cup {g}
  BY PushFacts
<1>2. \A h \in Range(u) : ~Gives(h, x)
  <2>1. f \in Working(x)
    BY DEF Working, Gives
  <2>2. Count(Append(u, f), Working(x)) = Count(u, Working(x)) + 1
    BY <2>1, PushCount DEF One
  <2>3. Count(u, Working(x)) \in Nat /\ (Count(u, Working(x)) = 0 <=> Range(u) \cap Working(x) = {})
    BY CountNat
  <2>4. Range(u) \cap Working(x) = {}
    BY <2>2, <2>3
  <2>5. Range(u) \subseteq Frames
    BY DEF Range
  <2> QED
    BY <2>4, <2>5 DEF Working, Gives
<1>3. \A i \in Nat : /\ IsKept(Append(u, f), x, i) <=> i >= f.i
                     /\ IsKept(Append(u, g), x, i) <=> i >= f.i + 1
  BY <1>1, <1>2 DEF IsKept
<1>4. \A y : y # x => ~Gives(f, y) /\ ~Gives(g, y)
  BY DEF Gives
<1>5. \A y, i : y # x => (IsKept(Append(u, f), y, i) <=> IsKept(Append(u, g), y, i))
  BY <1>1, <1>4 DEF IsKept
<1>6. <<x, f.i>> \in AllModules \X Nat /\ <<x, f.i>>[1] = x /\ <<x, f.i>>[2] = f.i
  OBVIOUS
<1>7. \A p \in AllModules \X Nat : p[1] = x /\ p[2] = f.i <=> p = <<x, f.i>>
  OBVIOUS
<1>8. \A p \in AllModules \X Nat : p # <<x, f.i>> =>
        (IsKept(Append(u, f), p[1], p[2]) <=> IsKept(Append(u, g), p[1], p[2]))
  <2> TAKE p \in AllModules \X Nat
  <2> HAVE p # <<x, f.i>>
  <2>1. CASE p[1] # x
    BY <2>1, <1>5
  <2>2. CASE p[1] = x
    <3>1. p[2] \in Nat /\ p[2] # f.i
      BY <1>7, <2>2
    <3> QED
      BY <3>1, <2>2, <1>3
  <2> QED
    BY <2>1, <2>2
<1>9. IsKept(Append(u, f), x, f.i) /\ ~IsKept(Append(u, g), x, f.i)
  BY <1>3
<1> TAKE m
<1> DEFINE before == KeptPlaces(Append(u, f), pr, m)
           after == KeptPlaces(Append(u, g), pr, m)
           Place(p) == p[2] \in DOMAIN pr[p[1]] /\ pr[p[1]][p[2]] = m
<1>10. /\ before = {p \in AllModules \X Nat : Place(p) /\ IsKept(Append(u, f), p[1], p[2])}
       /\ after = {p \in AllModules \X Nat : Place(p) /\ IsKept(Append(u, g), p[1], p[2])}
  BY DEF KeptPlaces
<1>11. Place(<<x, f.i>>) <=> m = pr[x][f.i]
  BY <1>6
<1> HIDE DEF before, after, Place
<1>12. CASE m = pr[x][f.i]
  BY <1>6, <1>8, <1>9, <1>10, <1>11, <1>12 DEF before, after
<1>13. CASE m # pr[x][f.i]
  BY <1>6, <1>8, <1>9, <1>10, <1>11, <1>13 DEF before, after
<1> QED
  BY <1>12, <1>13

\* All were given back, and are forgotten.
LEMMA KeptEnd ==
  ASSUME NEW u \in Seq(Frames), NEW f \in Frames, NEW pr \in Lists,
         NEW x \in AllModules, Gives(f, x), f.i \in Nat, f.i > Len(pr[x]), NEW m
  PROVE  KeptPlaces(u, [pr EXCEPT ![x] = << >>], m) = KeptPlaces(Append(u, f), pr, m)
<1> DEFINE qr == [pr EXCEPT ![x] = << >>]
<1>1. Range(Append(u, f)) = Range(u) \cup {f}
  BY PushFacts
<1>2. \A i \in DOMAIN pr[x] : ~(i >= f.i)
  BY DEF Lists
<1>3. \A i \in DOMAIN pr[x] : ~IsKept(Append(u, f), x, i)
  BY <1>1, <1>2 DEF IsKept
<1>4. \A y, i : y # x => (IsKept(Append(u, f), y, i) <=> IsKept(u, y, i))
  BY <1>1 DEF IsKept, Gives
<1>5. qr[x] = << >> /\ DOMAIN qr[x] = {} /\ \A y \in AllModules : y # x => qr[y] = pr[y]
  BY DEF Lists
<1> HIDE DEF qr
<1>6. \A p \in AllModules \X Nat : p[1] \in AllModules
  OBVIOUS
<1>7. \A p \in AllModules \X Nat :
        (p[2] \in DOMAIN qr[p[1]] /\ qr[p[1]][p[2]] = m /\ IsKept(u, p[1], p[2])) <=>
        (p[2] \in DOMAIN pr[p[1]] /\ pr[p[1]][p[2]] = m /\ IsKept(Append(u, f), p[1], p[2]))
  <2> TAKE p \in AllModules \X Nat
  <2>1. CASE p[1] # x
    BY <2>1, <1>4, <1>5, <1>6
  <2>2. CASE p[1] = x
    BY <2>2, <1>3, <1>5
  <2> QED
    BY <2>1, <2>2
<1> QED
  BY <1>7 DEF KeptPlaces, qr

\* One more is acquired.
Gets(pr, qr, x, q, n) == qr = [pr EXCEPT ![x] = Append(@, q)] /\ n = Len(pr[x]) + 1

LEMMA KeptGet ==
  ASSUME NEW st \in Seq(Frames), NEW pr \in Lists, NEW x \in AllModules, NEW q \in AllModules,
         \A f \in Range(st) : ~Gives(f, x),
         NEW qr, NEW n, Gets(pr, qr, x, q, n)
  PROVE  /\ qr \in Lists
         /\ \A m : IF m = q
              THEN /\ KeptPlaces(st, qr, m) = KeptPlaces(st, pr, m) \cup {<<x, n>>}
                   /\ <<x, n>> \notin KeptPlaces(st, pr, m)
              ELSE KeptPlaces(st, qr, m) = KeptPlaces(st, pr, m)
<1>1. /\ n \in Nat /\ n \notin DOMAIN pr[x] /\ qr[x][n] = q
      /\ DOMAIN qr[x] = DOMAIN pr[x] \cup {n}
      /\ \A i \in DOMAIN pr[x] : qr[x][i] = pr[x][i]
      /\ \A y \in AllModules : y # x => qr[y] = pr[y]
      /\ qr \in Lists
  <2>1. pr[x] \in Seq(AllModules) /\ DOMAIN pr = AllModules
    BY DEF Lists
  <2>2. /\ Append(pr[x], q) \in Seq(AllModules)
        /\ n \in Nat /\ n \notin DOMAIN pr[x] /\ Append(pr[x], q)[n] = q
        /\ DOMAIN Append(pr[x], q) = DOMAIN pr[x] \cup {n}
        /\ \A i \in DOMAIN pr[x] : Append(pr[x], q)[i] = pr[x][i]
    BY <2>1 DEF Gets
  <2>3. qr[x] = Append(pr[x], q) /\ \A y \in AllModules : y # x => qr[y] = pr[y]
    BY <2>1 DEF Gets
  <2>4. qr \in Lists
    BY <2>1, <2>2 DEF Lists, Gets
  <2> QED
    BY <2>2, <2>3, <2>4 DEF Gets
<1>2. \A i : IsKept(st, x, i)
  BY DEF IsKept
<1>3. /\ <<x, n>> \in AllModules \X Nat /\ <<x, n>>[1] = x /\ <<x, n>>[2] = n
      /\ \A p \in AllModules \X Nat : /\ p[1] \in AllModules
                                      /\ p[1] = x /\ p[2] = n <=> p = <<x, n>>
  BY <1>1
<1> DEFINE Old(p, m) == p[2] \in DOMAIN pr[p[1]] /\ pr[p[1]][p[2]] = m
           New(p, m) == p[2] \in DOMAIN qr[p[1]] /\ qr[p[1]][p[2]] = m
<1>4. \A m : \A p \in AllModules \X Nat : p # <<x, n>> => (Old(p, m) <=> New(p, m))
  <2> TAKE m
  <2> TAKE p \in AllModules \X Nat
  <2> HAVE p # <<x, n>>
  <2>1. CASE p[1] # x
    BY <2>1, <1>1, <1>3
  <2>2. CASE p[1] = x
    <3>1. p[2] # n
      BY <2>2, <1>3
    <3> QED
      BY <3>1, <2>2, <1>1
  <2> QED
    BY <2>1, <2>2
<1>5. \A m : ~Old(<<x, n>>, m) /\ (New(<<x, n>>, m) <=> m = q)
  BY <1>1, <1>3
<1>6. \A m : /\ KeptPlaces(st, pr, m) = {p \in AllModules \X Nat : Old(p, m) /\ IsKept(st, p[1], p[2])}
             /\ KeptPlaces(st, qr, m) = {p \in AllModules \X Nat : New(p, m) /\ IsKept(st, p[1], p[2])}
  BY DEF KeptPlaces
<1> HIDE DEF Old, New
<1>7. \A m : IF m = q
               THEN /\ KeptPlaces(st, qr, m) = KeptPlaces(st, pr, m) \cup {<<x, n>>}
                    /\ <<x, n>> \notin KeptPlaces(st, pr, m)
               ELSE KeptPlaces(st, qr, m) = KeptPlaces(st, pr, m)
  <2> TAKE m
  <2>1. IsKept(st, <<x, n>>[1], <<x, n>>[2])
    BY <1>2, <1>3
  <2>2. CASE m = q
    BY <2>1, <2>2, <1>3, <1>4, <1>5, <1>6
  <2>3. CASE m # q
    <3>1. \A p \in AllModules \X Nat : Old(p, m) <=> New(p, m)
      BY <2>3, <1>4, <1>5
    <3> QED
      BY <2>3, <3>1, <1>6
  <2> QED
    BY <2>2, <2>3
<1> QED
  BY <1>1, <1>7

-----------------------------------------------------------------------------
(* What is used is counted.                                                *)

CallsType ==
  /\ stack \in Seq(Frames)
  /\ result \in AllModules \cup {NULL, Nothing}

CountsType ==
  /\ use_count \in [AllModules -> Nat] /\ require_count \in [AllModules -> Nat]
  /\ prerequisites \in Lists
  /\ initialized \subseteq AllModules /\ failed \subseteq AllModules

\* Calls are nested, and only one works on the prerequisites of a module.
CallsInv ==
  /\ IsNested(stack)
  /\ IsAwaited(stack, result)
  /\ \A m \in AllModules : Count(stack, Working(m)) <= 1

\* A module in use is initialized, failed or about to be initialized, and one
\* whose prerequisites are released is not in use any more.
IsBusy(f, m) == f.at \in {"acquiring", "undoing"} /\ f.m = m
BusyInv ==
  /\ \A f \in Range(stack) : f.at = "releasing" => use_count[f.m] = 0
  /\ \A f \in Range(stack) : \A m : IsBusy(f, m) => m \notin initialized \cup failed
  /\ \A m \in initialized : use_count[m] > 0
  /\ \A m \in AllModules : use_count[m] > 0 /\ m \notin initialized \cup failed =>
       \E f \in Range(stack) : IsBusy(f, m)

\* A module is used by clients, as a prerequisite, by the calls that get it
\* and release it, by who waits for it, and for ever if it failed.
Uses(m) ==
  require_count[m] + Cardinality(KeptPlaces(stack, prerequisites, m)) + Count(stack, Holding(m))
  + One(m \in failed) + One(result = m)
CountInv ==
  \A m \in AllModules : /\ IsFiniteSet(KeptPlaces(stack, prerequisites, m))
                        /\ use_count[m] = Uses(m)

HeldInv == CallsType /\ CountsType /\ CallsInv /\ BusyInv /\ CountInv

\* None of these is a module.
LEMMA NotModules ==
  /\ \A m \in AllModules : m # NULL /\ m # Nothing /\ m \in Libraries \X Names
                           /\ m[1] \in Libraries /\ m[2] \in Names
  /\ NULL # Nothing
<1>1. \A m \in AllModules : m \in Libraries \X Names
  BY DEF AllModules
<1>2. \A m \in Libraries \X Names : Len(m) = 2 /\ m[1] \in Libraries /\ m[2] \in Names
  OBVIOUS
<1>3. Len(<<"NULL">>) = 1 /\ Len(<< >>) = 0
  OBVIOUS
<1> QED
  BY <1>1, <1>2, <1>3 DEF NULL, Nothing

LEMMA UsesFacts ==
  ASSUME HeldInv, NEW m \in AllModules
  PROVE  /\ use_count[m] \in Nat /\ require_count[m] \in Nat
         /\ Cardinality(KeptPlaces(stack, prerequisites, m)) \in Nat
         /\ Count(stack, Holding(m)) \in Nat
         /\ use_count[m] = require_count[m] + Cardinality(KeptPlaces(stack, prerequisites, m))
              + Count(stack, Holding(m)) + One(m \in failed) + One(result = m)
         /\ One(m \in failed) \in {0, 1} /\ One(result = m) \in {0, 1}
         /\ \A p \in KeptPlaces(stack, prerequisites, m) :
              Cardinality(KeptPlaces(stack, prerequisites, m)) > 0
         /\ \A f \in Range(stack) : f \in Holding(m) => Count(stack, Holding(m)) > 0
<1> USE DEF HeldInv
<1>1. /\ IsFiniteSet(KeptPlaces(stack, prerequisites, m))
      /\ Cardinality(KeptPlaces(stack, prerequisites, m)) \in Nat
      /\ Cardinality(KeptPlaces(stack, prerequisites, m)) = 0 <=>
           KeptPlaces(stack, prerequisites, m) = {}
  BY FS_CardinalityType, FS_EmptySet DEF CountInv
<1>2. /\ Count(stack, Holding(m)) \in Nat
      /\ (Count(stack, Holding(m)) = 0 <=> Range(stack) \cap Holding(m) = {})
  BY CountNat DEF CallsType
<1>3. \A f \in Range(stack) : f \in Holding(m) => Count(stack, Holding(m)) > 0
  BY <1>2
<1>4. \A p \in KeptPlaces(stack, prerequisites, m) : Cardinality(KeptPlaces(stack, prerequisites, m)) > 0
  BY <1>1
<1> QED
  BY <1>1, <1>2, <1>3, <1>4 DEF CountInv, Uses, One, CountsType

LEMMA TopFacts ==
  ASSUME HeldInv, stack # << >>
  PROVE  /\ Under \in Seq(Frames) /\ Frame \in Frames /\ stack = Append(Under, Frame)
         /\ Range(stack) = Range(Under) \cup {Frame} /\ Range(Under) \subseteq Frames
         /\ IsNested(Append(Under, Frame))
         /\ Frame.at \notin {"acquiring", "lttv_module_require"} => result = Nothing
         /\ \A S : /\ Count(stack, S) = Count(Under, S) + One(Frame \in S)
                   /\ Count(Under, S) \in Nat
                   /\ Count(Under, S) = 0 <=> Range(Under) \cap S = {}
<1> USE DEF HeldInv, CallsType
<1>1. Under \in Seq(Frames) /\ Frame \in Frames /\ stack = Append(Under, Frame)
  BY TopLemma DEF Under, Frame
<1>2. Range(stack) = Range(Under) \cup {Frame}
  BY <1>1, PushFacts
<1>3. Range(Under) \subseteq Frames
  BY <1>1 DEF Range
<1>4. IsNested(Append(Under, Frame))
  BY <1>1 DEF CallsInv
<1>5. Frame.at \notin {"acquiring", "lttv_module_require"} => result = Nothing
  BY DEF CallsInv, IsAwaited, Frame
<1>6. \A S : Count(Append(Under, Frame), S) = Count(Under, S) + One(Frame \in S)
  BY <1>1, PushCount
<1>7. \A S : Count(Under, S) \in Nat /\ (Count(Under, S) = 0 <=> Range(Under) \cap S = {})
  BY <1>1, CountNat
<1> QED
  BY <1>1, <1>2, <1>3, <1>4, <1>5, <1>6, <1>7

\* A module is found: it is used, and if this is its first use it becomes busy.
LEMMA UseHeld ==
  ASSUME HeldInv, stack # << >>, Frame.at \in {"module_require", "loaded"},
         NEW m \in AllModules, NEW l \in Libraries \cup {NoLibrary},
         use_count' = [use_count EXCEPT ![m] = @ + 1],
         IF use_count[m] = 0 THEN stack' = Append(Under, acquiring(m, l)) /\ result' = result
                             ELSE stack' = Under /\ result' = m,
         UNCHANGED <<require_count, prerequisites, initialized, failed>>
  PROVE  HeldInv'
<1> DEFINE u == Under
           f == Frame
           g == acquiring(m, l)
<1>1. /\ u \in Seq(Frames) /\ f \in Frames /\ stack = Append(u, f)
      /\ Range(stack) = Range(u) \cup {f} /\ Range(u) \subseteq Frames
      /\ IsNested(Append(u, f)) /\ result = Nothing
      /\ \A S : /\ Count(stack, S) = Count(u, S) + One(f \in S)
                /\ Count(u, S) \in Nat
                /\ Count(u, S) = 0 <=> Range(u) \cap S = {}
  BY TopFacts
<1>2. f.at \in {"module_require", "loaded"}
  OBVIOUS
<1>3. /\ IsNested(u) /\ u # << >> /\ u[Len(u)].at \in {"acquiring", "lttv_module_require"}
      /\ \A h \in Range(u) : h.at \in {"acquiring", "lttv_module_require"}
      /\ \A h \in Frames : h.at = "acquiring" => IsNested(Append(u, h))
  BY <1>1, <1>2, NestedTop
<1>4. g \in Frames /\ g.at = "acquiring" /\ g.m = m
      /\ \A p : (g \in Working(p) <=> p = m) /\ (g \in Holding(p) <=> p = m)
  BY FrameFacts DEF acquiring
<1>5. \A p : f \notin Holding(p) /\ f \notin Working(p)
  BY <1>2 DEF Holding, Working
<1>6. \A S : f \notin S => Count(stack, S) = Count(u, S)
  BY <1>1 DEF One
<1>7. \A p : ~IsBusy(f, p) /\ ~Gives(f, p) /\ ~Gives(g, p)
  BY <1>2, <1>4 DEF IsBusy, Gives
<1>8. /\ use_count \in [AllModules -> Nat] /\ prerequisites \in Lists
      /\ use_count'[m] = use_count[m] + 1 /\ use_count' \in [AllModules -> Nat]
      /\ \A p \in AllModules : p # m => use_count'[p] = use_count[p]
      /\ CountsType'
  BY DEF HeldInv, CountsType
<1>9. \A p : KeptPlaces(stack, prerequisites, p) = KeptPlaces(u, prerequisites, p)
  BY <1>1, <1>7, <1>8, KeptPush
<1>10. m # Nothing /\ \A p \in AllModules : p # Nothing
  BY NotModules
<1> HIDE DEF u, f, g
<1>11. CASE use_count[m] = 0
  <2>1. stack' = Append(u, g) /\ result' = Nothing
    BY <1>11, <1>1 DEF u, g
  <2>2. /\ stack' \in Seq(Frames) /\ Range(stack') = Range(u) \cup {g}
        /\ \A S : Count(stack', S) = Count(u, S) + One(g \in S)
    BY <2>1, <1>1, <1>4, PushFacts, PushCount
  <2>3. Count(stack, Holding(m)) = 0 /\ m \notin failed
    BY <1>11, UsesFacts DEF One
  <2>4. Count(u, Working(m)) = 0
    <3>1. Range(u) \cap Holding(m) = {}
      BY <1>1, <1>5, <1>6, <2>3
    <3>2. Range(u) \cap Working(m) \subseteq Holding(m)
      BY <1>3 DEF Working, Holding
    <3> QED
      BY <1>1, <3>1, <3>2
  <2>5. CallsType'
    BY <2>1, <2>2 DEF CallsType
  <2>6. CallsInv'
    <3>1. IsNested(stack')
      BY <2>1, <1>3, <1>4
    <3>2. \A p \in AllModules : Count(stack', Working(p)) <= 1
      <4> TAKE p \in AllModules
      <4>1. Count(u, Working(p)) <= 1 /\ Count(u, Working(p)) \in Nat
        BY <1>1, <1>5, <1>6 DEF HeldInv, CallsInv
      <4>2. Count(stack', Working(p)) = Count(u, Working(p)) + One(g \in Working(p))
        BY <2>2
      <4> QED
        BY <4>1, <4>2, <1>4, <2>4 DEF One
    <3> QED
      BY <3>1, <3>2, <2>1 DEF CallsInv, IsAwaited
  <2>7. BusyInv'
    <3>1. \A h \in Range(stack') : h.at = "releasing" => use_count'[h.m] = 0
      BY <2>2, <1>3, <1>4
    <3>2. m \notin initialized
      BY <1>11 DEF HeldInv, BusyInv
    <3>3. \A h \in Range(stack') : \A p : IsBusy(h, p) => p \notin initialized' \cup failed'
      BY <2>2, <2>3, <3>2, <1>1, <1>4 DEF HeldInv, BusyInv, IsBusy
    <3>4. \A p \in initialized' : use_count'[p] > 0
      BY <3>2, <1>8 DEF HeldInv, BusyInv, CountsType
    <3>5. IsBusy(g, m)
      BY <1>4 DEF IsBusy
    <3>6. ASSUME NEW p \in AllModules, use_count'[p] > 0, p \notin initialized' \cup failed'
          PROVE  \E h \in Range(stack') : IsBusy(h, p)
      <4>1. CASE p = m
        BY <4>1, <3>5, <2>2
      <4>2. CASE p # m
        <5>1. \E h \in Range(stack) : IsBusy(h, p)
          BY <4>2, <3>6, <1>8 DEF HeldInv, BusyInv
        <5> QED
          BY <5>1, <1>1, <1>7, <2>2
      <4> QED
        BY <4>1, <4>2
    <3> QED
      BY <3>1, <3>3, <3>4, <3>6 DEF BusyInv
  <2>8. CountInv'
    <3> SUFFICES ASSUME NEW p \in AllModules
                 PROVE  /\ IsFiniteSet(KeptPlaces(stack', prerequisites', p))
                        /\ use_count'[p] = require_count'[p] + Cardinality(KeptPlaces(stack', prerequisites', p))
                             + Count(stack', Holding(p)) + One(p \in failed') + One(result' = p)
      BY DEF CountInv, Uses
    <3>1. KeptPlaces(stack', prerequisites', p) = KeptPlaces(stack, prerequisites, p)
      BY <2>1, <1>1, <1>4, <1>7, <1>8, <1>9, KeptPush
    <3>2. Count(stack', Holding(p)) = Count(stack, Holding(p)) + One(p = m)
      BY <2>2, <1>4, <1>5, <1>6
    <3>3. IsFiniteSet(KeptPlaces(stack, prerequisites, p))
      BY DEF HeldInv, CountInv
    <3>4. result' = result
      BY <2>1, <1>1
    <3> QED
      BY <3>1, <3>2, <3>3, <3>4, <1>8, UsesFacts DEF One
  <2> QED
    BY <2>5, <2>6, <2>7, <2>8, <1>8 DEF HeldInv
<1>12. CASE use_count[m] # 0
  <2>1. stack' = u /\ result' = m
    BY <1>12 DEF u
  <2>2. CallsType'
    BY <2>1, <1>1 DEF CallsType
  <2>3. CallsInv'
    <3>1. \A p \in AllModules : Count(stack', Working(p)) <= 1
      BY <2>1, <1>5, <1>6 DEF HeldInv, CallsInv
    <3> QED
      BY <3>1, <2>1, <1>3 DEF CallsInv, IsAwaited
  <2>4. BusyInv'
    <3>1. \A h \in Range(stack') : h.at = "releasing" => use_count'[h.m] = 0
      BY <2>1, <1>3
    <3>2. \A h \in Range(stack') : \A p : IsBusy(h, p) => p \notin initialized' \cup failed'
      BY <2>1, <1>1 DEF HeldInv, BusyInv
    <3>3. \A p \in initialized' : use_count'[p] > 0
      BY <1>8 DEF HeldInv, BusyInv, CountsType
    <3>4. ASSUME NEW p \in AllModules, use_count'[p] > 0, p \notin initialized' \cup failed'
          PROVE  \E h \in Range(stack') : IsBusy(h, p)
      <4>1. use_count[p] > 0
        BY <3>4, <1>8, <1>12
      <4>2. \E h \in Range(stack) : IsBusy(h, p)
        BY <4>1, <3>4 DEF HeldInv, BusyInv
      <4> QED
        BY <4>2, <1>1, <1>7, <2>1
    <3> QED
      BY <3>1, <3>2, <3>3, <3>4 DEF BusyInv
  <2>5. CountInv'
    <3> SUFFICES ASSUME NEW p \in AllModules
                 PROVE  /\ IsFiniteSet(KeptPlaces(stack', prerequisites', p))
                        /\ use_count'[p] = require_count'[p] + Cardinality(KeptPlaces(stack', prerequisites', p))
                             + Count(stack', Holding(p)) + One(p \in failed') + One(result' = p)
      BY DEF CountInv, Uses
    <3>1. KeptPlaces(stack', prerequisites', p) = KeptPlaces(stack, prerequisites, p)
      BY <2>1, <1>9
    <3>2. Count(stack', Holding(p)) = Count(stack, Holding(p))
      BY <2>1, <1>5, <1>6
    <3>3. IsFiniteSet(KeptPlaces(stack, prerequisites, p))
      BY DEF HeldInv, CountInv
    <3>4. One(result = p) = 0 /\ One(result' = p) = One(p = m)
      BY <2>1, <1>1, <1>10 DEF One
    <3> QED
      BY <3>1, <3>2, <3>3, <3>4, <1>8, UsesFacts DEF One
  <2> QED
    BY <2>2, <2>3, <2>4, <2>5, <1>8 DEF HeldInv
<1> QED
  BY <1>11, <1>12

\* A step after which a module has as many uses, and is as busy, as before.
LEMMA QuietHeld ==
  ASSUME HeldInv, UNCHANGED <<use_count, initialized, failed>>,
         CallsType', require_count' \in [AllModules -> Nat], prerequisites' \in Lists,
         IsNested(stack'), IsAwaited(stack', result'),
         \A m \in AllModules : Count(stack', Working(m)) <= 1,
         \A m : (\E f \in Range(stack') : IsBusy(f, m)) <=> (\E f \in Range(stack) : IsBusy(f, m)),
         \A f \in Range(stack') : f.at = "releasing" => use_count[f.m] = 0,
         \A m \in AllModules :
           /\ IsFiniteSet(KeptPlaces(stack', prerequisites', m))
           /\ require_count'[m] + Cardinality(KeptPlaces(stack', prerequisites', m))
                + Count(stack', Holding(m)) + One(result' = m)
              = require_count[m] + Cardinality(KeptPlaces(stack, prerequisites, m))
                + Count(stack, Holding(m)) + One(result = m)
  PROVE  HeldInv'
<1>1. CountsType'
  BY DEF HeldInv, CountsType
<1>2. CallsInv'
  BY DEF CallsInv
<1>3. BusyInv'
  <2>1. \A m : (\E f \in Range(stack) : IsBusy(f, m)) => m \notin initialized \cup failed
    BY DEF HeldInv, BusyInv
  <2>2. \A f \in Range(stack') : \A m : IsBusy(f, m) => m \notin initialized' \cup failed'
    BY <2>1
  <2>3. \A m \in initialized' : use_count'[m] > 0
    BY DEF HeldInv, BusyInv
  <2>4. \A m \in AllModules : use_count'[m] > 0 /\ m \notin initialized' \cup failed' =>
          \E f \in Range(stack') : IsBusy(f, m)
    BY DEF HeldInv, BusyInv
  <2> QED
    BY <2>2, <2>3, <2>4 DEF BusyInv
<1>4. CountInv'
  <2> SUFFICES ASSUME NEW p \in AllModules
               PROVE  /\ IsFiniteSet(KeptPlaces(stack', prerequisites', p))
                      /\ use_count'[p] = require_count'[p] + Cardinality(KeptPlaces(stack', prerequisites', p))
                           + Count(stack', Holding(p)) + One(p \in failed') + One(result' = p)
    BY DEF CountInv, Uses
  <2>1. IsFiniteSet(KeptPlaces(stack', prerequisites', p))
    OBVIOUS
  <2>2. /\ Cardinality(KeptPlaces(stack', prerequisites', p)) \in Nat
        /\ Count(stack', Holding(p)) \in Nat /\ require_count'[p] \in Nat
        /\ One(result' = p) \in Nat /\ One(result = p) \in Nat /\ One(p \in failed) \in Nat
    BY <2>1, FS_CardinalityType, CountNat DEF CallsType, One
  <2> DEFINE kept == Cardinality(KeptPlaces(stack, prerequisites, p))
             held == Count(stack, Holding(p))
             keptAfter == Cardinality(KeptPlaces(stack', prerequisites', p))
             heldAfter == Count(stack', Holding(p))
             res == One(result = p)
             resAfter == One(result' = p)
             fl == One(p \in failed)
  <2>3. /\ kept \in Nat /\ held \in Nat /\ keptAfter \in Nat /\ heldAfter \in Nat /\ res \in Nat
        /\ resAfter \in Nat /\ fl \in Nat /\ require_count[p] \in Nat /\ require_count'[p] \in Nat
        /\ use_count[p] = require_count[p] + kept + held + fl + res
        /\ require_count'[p] + keptAfter + heldAfter + resAfter = require_count[p] + kept + held + res
    BY <2>2, UsesFacts
  <2>4. use_count'[p] = use_count[p] /\ fl = One(p \in failed')
    OBVIOUS
  <2> HIDE DEF kept, held, keptAfter, heldAfter, res, resAfter, fl
  <2>5. use_count'[p] = require_count'[p] + keptAfter + heldAfter + fl + resAfter
    BY <2>3, <2>4
  <2> QED
    BY <2>1, <2>4, <2>5 DEF keptAfter, heldAfter, resAfter
<1> QED
  BY <1>1, <1>2, <1>3, <1>4 DEF HeldInv

\* What the top of the stack says of the sets the invariant is about.
LEMMA PlainFacts ==
  ASSUME NEW u \in Seq(Frames), NEW f \in Frames,
         f.at \in {"module_require", "loaded", "lttv_module_require"}, NEW pr \in Lists
  PROVE  /\ \A p : Count(Append(u, f), Working(p)) = Count(u, Working(p))
         /\ \A p : Count(Append(u, f), Holding(p)) = Count(u, Holding(p))
         /\ \A p : KeptPlaces(Append(u, f), pr, p) = KeptPlaces(u, pr, p)
         /\ \A p : (\E h \in Range(Append(u, f)) : IsBusy(h, p)) <=> (\E h \in Range(u) : IsBusy(h, p))
         /\ \A h \in Range(Append(u, f)) : h.at = "releasing" => h \in Range(u)
<1>1. Range(Append(u, f)) = Range(u) \cup {f}
  BY PushFacts
<1>2. \A p : f \notin Working(p) /\ f \notin Holding(p) /\ ~IsBusy(f, p) /\ ~Gives(f, p)
  BY DEF Working, Holding, IsBusy, Gives
<1>3. \A p : KeptPlaces(Append(u, f), pr, p) = KeptPlaces(u, pr, p)
  BY <1>2, KeptPush
<1>4. \A S : Count(u, S) \in Nat /\ Count(Append(u, f), S) = Count(u, S) + One(f \in S)
  BY PushCount, CountNat
<1>5. \A S : f \notin S => Count(Append(u, f), S) = Count(u, S)
  BY <1>4 DEF One
<1> QED
  BY <1>1, <1>2, <1>3, <1>5

\* A step that changes nothing but calls that hold nothing.
LEMMA PlainHeld ==
  ASSUME HeldInv, UNCHANGED <<use_count, require_count, prerequisites, initialized, failed>>,
         NEW u \in Seq(Frames), NEW before \in Seq(Frames), stack = before, CallsType',
         \A p : Count(before, Working(p)) = Count(u, Working(p)),
         \A p : Count(before, Holding(p)) = Count(u, Holding(p)),
         \A p : KeptPlaces(before, prerequisites, p) = KeptPlaces(u, prerequisites, p),
         \A p : (\E h \in Range(before) : IsBusy(h, p)) <=> (\E h \in Range(u) : IsBusy(h, p)),
         \A h \in Range(u) : h.at = "releasing" => h \in Range(before),
         stack' = u, IsNested(u), IsAwaited(u, result'),
         \A p \in AllModules : One(result' = p) = One(result = p)
  PROVE  HeldInv'
<1>1. \A f \in Range(stack') : f.at = "releasing" => use_count[f.m] = 0
  BY DEF HeldInv, BusyInv
<1>2. \A m \in AllModules : Count(stack', Working(m)) <= 1
  BY DEF HeldInv, CallsInv
<1>3. \A m \in AllModules : /\ KeptPlaces(stack', prerequisites', m) = KeptPlaces(stack, prerequisites, m)
                            /\ Count(stack', Holding(m)) = Count(stack, Holding(m))
                            /\ IsFiniteSet(KeptPlaces(stack, prerequisites, m))
                            /\ require_count'[m] = require_count[m]
                            /\ One(result' = m) = One(result = m)
  BY DEF HeldInv, CountInv
<1>4. require_count' \in [AllModules -> Nat] /\ prerequisites' \in Lists
  BY DEF HeldInv, CountsType
<1>5. \A m : (\E f \in Range(stack') : IsBusy(f, m)) <=> (\E f \in Range(stack) : IsBusy(f, m))
  OBVIOUS
<1>6. \A m \in AllModules :
        /\ IsFiniteSet(KeptPlaces(stack', prerequisites', m))
        /\ require_count'[m] + Cardinality(KeptPlaces(stack', prerequisites', m))
             + Count(stack', Holding(m)) + One(result' = m)
           = require_count[m] + Cardinality(KeptPlaces(stack, prerequisites, m))
             + Count(stack, Holding(m)) + One(result = m)
  BY <1>3
<1> QED
  BY <1>1, <1>2, <1>4, <1>5, <1>6, QuietHeld

\* Nothing is found.
LEMMA MissHeld ==
  ASSUME HeldInv, stack # << >>, Frame.at \in {"module_require", "loaded"}, Return(NULL),
         UNCHANGED counts
  PROVE  HeldInv'
<1> DEFINE u == Under
           f == Frame
<1>1. /\ u \in Seq(Frames) /\ f \in Frames /\ stack = Append(u, f) /\ IsNested(Append(u, f))
      /\ result = Nothing
  BY TopFacts
<1>2. f.at \in {"module_require", "loaded"} /\ stack' = u /\ result' = NULL
  BY DEF Return
<1>3. /\ IsNested(u) /\ u # << >> /\ u[Len(u)].at \in {"acquiring", "lttv_module_require"}
  BY <1>1, <1>2, NestedTop
<1>4. prerequisites \in Lists
  BY DEF HeldInv, CountsType
<1>5. CallsType'
  BY <1>1, <1>2 DEF CallsType
<1>6. UNCHANGED <<use_count, require_count, prerequisites, initialized, failed>>
  BY DEF counts
<1>7. \A p \in AllModules : One(result' = p) = One(result = p)
  BY <1>1, <1>2, NotModules DEF One
<1>8. Append(u, f) \in Seq(Frames)
  BY <1>1
<1>9. IsAwaited(u, result')
  BY <1>3 DEF IsAwaited
<1> HIDE DEF u, f
<1>10. /\ \A p : Count(Append(u, f), Working(p)) = Count(u, Working(p))
       /\ \A p : Count(Append(u, f), Holding(p)) = Count(u, Holding(p))
       /\ \A p : KeptPlaces(Append(u, f), prerequisites, p) = KeptPlaces(u, prerequisites, p)
       /\ \A p : (\E h \in Range(Append(u, f)) : IsBusy(h, p)) <=> (\E h \in Range(u) : IsBusy(h, p))
       /\ \A h \in Range(Append(u, f)) : h.at = "releasing" => h \in Range(u)
  BY <1>1, <1>2, <1>4, PlainFacts
<1>11. Range(u) \subseteq Range(Append(u, f))
  BY <1>1, PushFacts
<1> QED
  BY <1>1, <1>2, <1>3, <1>5, <1>6, <1>7, <1>8, <1>9, <1>10, <1>11, PlainHeld

\* A library is found, and is looked through.
LEMMA FindLibraryHeld ==
  ASSUME HeldInv, FindLibrary, Opened(Frame.name) \in Libraries
  PROVE  HeldInv'
<1> DEFINE u == Under
           f == Frame
           g == loaded(Frame.name, Opened(Frame.name))
<1>1. /\ u \in Seq(Frames) /\ f \in Frames /\ stack = Append(u, f) /\ IsNested(Append(u, f))
      /\ result = Nothing
  BY TopFacts DEF FindLibrary, At
<1>2. f.at = "module_require" /\ stack' = Append(u, g) /\ result' = result
  BY DEF FindLibrary, At, Goto
<1>3. f.name \in Names
  BY <1>1, <1>2, FrameAt
<1>4. g \in Frames /\ g.at = "loaded"
  BY <1>3, FrameFacts DEF loaded
<1>5. IsNested(Append(u, g))
  BY <1>1, <1>2, <1>4, NestedTop
<1>6. prerequisites \in Lists /\ result \in AllModules \cup {NULL, Nothing}
  BY DEF HeldInv, CountsType, CallsType
<1>7. UNCHANGED <<use_count, require_count, prerequisites, initialized, failed>>
  BY DEF FindLibrary, counts
<1>8. Append(u, f) \in Seq(Frames) /\ Append(u, g) \in Seq(Frames)
  BY <1>1, <1>4
<1>9. CallsType'
  BY <1>2, <1>6, <1>8 DEF CallsType
<1>10. IsAwaited(Append(u, g), result')
  BY <1>1, <1>2 DEF IsAwaited
<1> HIDE DEF u, f, g
<1>11. \A h \in {f, g} :
       /\ \A p : Count(Append(u, h), Working(p)) = Count(u, Working(p))
       /\ \A p : Count(Append(u, h), Holding(p)) = Count(u, Holding(p))
       /\ \A p : KeptPlaces(Append(u, h), prerequisites, p) = KeptPlaces(u, prerequisites, p)
       /\ \A p : (\E x \in Range(Append(u, h)) : IsBusy(x, p)) <=> (\E x \in Range(u) : IsBusy(x, p))
       /\ \A x \in Range(Append(u, h)) : x.at = "releasing" => x \in Range(u)
  <2> TAKE h \in {f, g}
  <2>1. h \in Frames /\ h.at \in {"module_require", "loaded"}
    BY <1>1, <1>2, <1>4
  <2> QED
    BY <2>1, <1>1, <1>6, PlainFacts
<1>12. Range(u) \subseteq Range(Append(u, f))
  BY <1>1, PushFacts
<1>13. /\ \A p : Count(Append(u, f), Working(p)) = Count(Append(u, g), Working(p))
       /\ \A p : Count(Append(u, f), Holding(p)) = Count(Append(u, g), Holding(p))
       /\ \A p : KeptPlaces(Append(u, f), prerequisites, p) = KeptPlaces(Append(u, g), prerequisites, p)
       /\ \A p : (\E x \in Range(Append(u, f)) : IsBusy(x, p)) <=> (\E x \in Range(Append(u, g)) : IsBusy(x, p))
       /\ \A x \in Range(Append(u, g)) : x.at = "releasing" => x \in Range(Append(u, f))
  BY <1>11, <1>12
<1> QED
  BY <1>1, <1>2, <1>5, <1>7, <1>8, <1>9, <1>10, <1>13, PlainHeld

\* A call is made to find a module.
LEMMA AskHeld ==
  ASSUME HeldInv, UNCHANGED <<counts, result>>, result = Nothing,
         NEW v \in Seq(Frames), NEW n \in Names, stack' = Append(v, require(n)),
         \/ v = stack /\ stack # << >> /\ Frame.at = "acquiring"
         \/ stack = << >> /\ v = <<requiring>>
  PROVE  HeldInv'
<1> DEFINE g == require(n)
<1>1. g \in Frames /\ g.at = "module_require"
  BY FrameFacts DEF require
<1>2. /\ stack \in Seq(Frames) /\ IsNested(stack) /\ prerequisites \in Lists
      /\ result \in AllModules \cup {NULL, Nothing}
  BY DEF HeldInv, CallsType, CallsInv, CountsType
<1>3. requiring \in Frames /\ requiring.at = "lttv_module_require" /\ << >> \in Seq(Frames)
      /\ Range(<< >>) = {} /\ <<requiring>> = Append(<< >>, requiring)
  BY FrameFacts, EmptyStack DEF requiring
<1>4. /\ \A p : Count(v, Working(p)) = Count(stack, Working(p))
      /\ \A p : Count(v, Holding(p)) = Count(stack, Holding(p))
      /\ \A p : KeptPlaces(v, prerequisites, p) = KeptPlaces(stack, prerequisites, p)
      /\ \A p : (\E h \in Range(v) : IsBusy(h, p)) <=> (\E h \in Range(stack) : IsBusy(h, p))
      /\ \A h \in Range(v) : h.at = "releasing" => h \in Range(stack)
  <2>1. CASE v = stack
    BY <2>1
  <2>2. CASE stack = << >> /\ v = <<requiring>>
    <3>1. v = Append(stack, requiring)
      BY <2>2, <1>3
    <3> QED
      BY <3>1, <1>2, <1>3, PlainFacts
  <2> QED
    BY <2>1, <2>2
<1>5. IsNested(Append(v, g))
  <2>1. CASE v = stack /\ stack # << >> /\ Frame.at = "acquiring"
    <3>1. /\ Under \in Seq(Frames) /\ Frame \in Frames /\ stack = Append(Under, Frame)
          /\ Range(stack) = Range(Under) \cup {Frame} /\ IsNested(Append(Under, Frame))
      BY <2>1, TopFacts
    <3>2. \A h \in Range(Under) : h.at \in {"acquiring", "lttv_module_require"}
      BY <2>1, <3>1, NestedTop
    <3>3. \A h \in Range(stack) : MayCall(h, g)
      BY <2>1, <3>1, <3>2 DEF MayCall
    <3> QED
      BY <2>1, <3>3, <1>1, <1>2, PushNested
  <2>2. CASE stack = << >> /\ v = <<requiring>>
    <3>1. IsNested(v)
      <4>1. IsNested(Append(<< >>, requiring)) <=>
              /\ IsNested(<< >>)
              /\ \A h \in Range(<< >>) : MayCall(h, requiring)
              /\ << >> = << >> => requiring.at \in {"lttv_module_require", "module_release", "releasing"}
        BY <1>3, PushNested
      <4> QED
        BY <4>1, <2>2, <1>2, <1>3
    <3>2. Range(v) = {requiring}
      <4>0. requiring \in Frames /\ << >> \in Seq(Frames)
        BY <1>3
      <4>2. \A e \in Seq(Frames) : Range(Append(e, requiring)) = Range(e) \cup {requiring}
        BY <4>0, PushFacts
      <4>1. Range(Append(<< >>, requiring)) = Range(<< >>) \cup {requiring}
        BY <4>0, <4>2, Zenon
      <4> QED
        BY <4>1, <2>2, <1>3
    <3>3. \A h \in Range(v) : MayCall(h, g)
      BY <3>2, <1>1, <1>3 DEF MayCall
    <3>4. v # << >>
      BY <2>2
    <3> QED
      BY <3>1, <3>3, <3>4, <1>1, PushNested
  <2> QED
    BY <2>1, <2>2
<1>6. Append(v, g) \in Seq(Frames) /\ stack' = Append(v, g) /\ result' = result
  BY <1>1
<1>7. CallsType'
  BY <1>2, <1>6 DEF CallsType
<1>8. IsAwaited(Append(v, g), result')
  BY DEF IsAwaited
<1>9. UNCHANGED <<use_count, require_count, prerequisites, initialized, failed>>
  BY DEF counts
<1> HIDE DEF g
<1>10. /\ \A p : Count(Append(v, g), Working(p)) = Count(v, Working(p))
       /\ \A p : Count(Append(v, g), Holding(p)) = Count(v, Holding(p))
       /\ \A p : KeptPlaces(Append(v, g), prerequisites, p) = KeptPlaces(v, prerequisites, p)
       /\ \A p : (\E h \in Range(Append(v, g)) : IsBusy(h, p)) <=> (\E h \in Range(v) : IsBusy(h, p))
       /\ \A h \in Range(Append(v, g)) : h.at = "releasing" => h \in Range(v)
  BY <1>1, <1>2, PlainFacts
<1>11. /\ \A p : Count(stack, Working(p)) = Count(Append(v, g), Working(p))
       /\ \A p : Count(stack, Holding(p)) = Count(Append(v, g), Holding(p))
       /\ \A p : KeptPlaces(stack, prerequisites, p) = KeptPlaces(Append(v, g), prerequisites, p)
       /\ \A p : (\E h \in Range(stack) : IsBusy(h, p)) <=> (\E h \in Range(Append(v, g)) : IsBusy(h, p))
       /\ \A h \in Range(Append(v, g)) : h.at = "releasing" => h \in Range(stack)
  BY <1>4, <1>10
<1> QED
  BY <1>2, <1>5, <1>6, <1>7, <1>8, <1>9, <1>11, PlainHeld

\* The prerequisite that is waited for is got.
LEMMA GetHeld ==
  ASSUME HeldInv, GetPrerequisite
  PROVE  HeldInv'
<1> DEFINE u == Under
           f == Frame
           x == Frame.m
           q == result
           n == Len(prerequisites[x]) + 1
<1>1. /\ u \in Seq(Frames) /\ f \in Frames /\ stack = Append(u, f) /\ IsNested(Append(u, f))
      /\ Range(stack) = Range(u) \cup {f}
  BY TopFacts DEF GetPrerequisite, At
<1>2. /\ f.at = "acquiring" /\ q \in AllModules /\ result' = Nothing /\ stack' = stack
      /\ prerequisites' = [prerequisites EXCEPT ![x] = Append(@, q)]
      /\ UNCHANGED <<use_count, require_count, initialized, failed>>
  BY DEF GetPrerequisite, At
<1>3. x \in AllModules
  BY <1>1, <1>2, FrameAt
<1>4. \A h \in Range(stack) : ~Gives(h, x)
  BY <1>1, <1>2, NestedTop DEF Gives
<1>5. prerequisites \in Lists /\ stack \in Seq(Frames)
      /\ require_count \in [AllModules -> Nat]
  BY DEF HeldInv, CountsType, CallsType
<1> HIDE DEF u, f, q, x
<1>6. /\ prerequisites' \in Lists
      /\ \A m : IF m = q
           THEN /\ KeptPlaces(stack, prerequisites', m) = KeptPlaces(stack, prerequisites, m) \cup {<<x, n>>}
                /\ <<x, n>> \notin KeptPlaces(stack, prerequisites, m)
           ELSE KeptPlaces(stack, prerequisites', m) = KeptPlaces(stack, prerequisites, m)
  <2>1. q \in AllModules /\ Gets(prerequisites, prerequisites', x, q, n)
    BY <1>2 DEF Gets
  <2> HIDE DEF n
  <2>3. x \in AllModules /\ \A h \in Range(stack) : ~Gives(h, x)
    BY <1>3, <1>4
  <2>4. prerequisites \in Lists /\ stack \in Seq(Frames)
    BY <1>5
  <2> QED
    BY <2>1, <2>3, <2>4, KeptGet
<1>7. q = result /\ \A m \in AllModules : m # Nothing
  BY NotModules DEF q
<1> HIDE DEF n
<1>8. \A m \in AllModules :
        /\ IsFiniteSet(KeptPlaces(stack', prerequisites', m))
        /\ require_count'[m] + Cardinality(KeptPlaces(stack', prerequisites', m))
             + Count(stack', Holding(m)) + One(result' = m)
           = require_count[m] + Cardinality(KeptPlaces(stack, prerequisites, m))
             + Count(stack, Holding(m)) + One(result = m)
  <2> TAKE m \in AllModules
  <2>1. /\ IsFiniteSet(KeptPlaces(stack, prerequisites, m))
        /\ Cardinality(KeptPlaces(stack, prerequisites, m)) \in Nat
        /\ Count(stack, Holding(m)) \in Nat /\ require_count[m] \in Nat
    BY UsesFacts DEF HeldInv, CountInv
  <2>2. /\ Count(stack', Holding(m)) = Count(stack, Holding(m)) /\ require_count'[m] = require_count[m]
        /\ One(result' = m) = 0
        /\ One(result = m) = IF m = q THEN 1 ELSE 0
    BY <1>2, <1>7 DEF One
  <2>3. CASE m = q
    <3>1. /\ KeptPlaces(stack', prerequisites', m) = KeptPlaces(stack, prerequisites, m) \cup {<<x, n>>}
          /\ <<x, n>> \notin KeptPlaces(stack, prerequisites, m)
      BY <1>2, <1>6, <2>3
    <3>2. /\ IsFiniteSet(KeptPlaces(stack', prerequisites', m))
          /\ Cardinality(KeptPlaces(stack', prerequisites', m))
             = Cardinality(KeptPlaces(stack, prerequisites, m)) + 1
      BY <2>1, <3>1, FS_AddElement
    <3> QED
      BY <2>1, <2>2, <2>3, <3>2
  <2>4. CASE m # q
    <3>1. KeptPlaces(stack', prerequisites', m) = KeptPlaces(stack, prerequisites, m)
      BY <1>2, <1>6, <2>4
    <3> QED
      BY <2>1, <2>2, <2>4, <3>1
  <2> QED
    BY <2>3, <2>4
<1>9. CallsType'
  BY <1>2, <1>5 DEF CallsType
<1>10. IsNested(stack') /\ IsAwaited(stack', result')
       /\ \A m \in AllModules : Count(stack', Working(m)) <= 1
  BY <1>2 DEF HeldInv, CallsInv, IsAwaited
<1>11. \A h \in Range(stack') : h.at = "releasing" => use_count[h.m] = 0
  BY <1>2 DEF HeldInv, BusyInv
<1>12. \A m : (\E h \in Range(stack') : IsBusy(h, m)) <=> (\E h \in Range(stack) : IsBusy(h, m))
  BY <1>2
<1>13. require_count' \in [AllModules -> Nat]
  BY <1>2, <1>5
<1>14. UNCHANGED <<use_count, initialized, failed>>
  BY <1>2
<1> QED
  BY <1>6, <1>8, <1>9, <1>10, <1>11, <1>12, <1>13, <1>14, QuietHeld

\* The prerequisite that is waited for cannot be had.
LEMMA MissPrerequisiteHeld ==
  ASSUME HeldInv, MissPrerequisite
  PROVE  HeldInv'
<1> DEFINE u == Under
           f == Frame
           x == Frame.m
           g == undoing(Frame.m, Frame.l, 1)
<1>1. /\ u \in Seq(Frames) /\ f \in Frames /\ stack = Append(u, f) /\ IsNested(Append(u, f))
      /\ Range(stack) = Range(u) \cup {f}
  BY TopFacts DEF MissPrerequisite, At
<1>2. /\ f.at = "acquiring" /\ result = NULL /\ result' = Nothing /\ stack' = Append(u, g)
      /\ UNCHANGED <<use_count, require_count, prerequisites, initialized, failed>>
  BY DEF MissPrerequisite, At, GiveUp, Goto, counts
<1>3. /\ x \in AllModules /\ f.l \in Libraries \cup {NoLibrary} /\ f = acquiring(x, f.l)
  BY <1>1, <1>2, FrameAt
<1>4. 1 \in Nat \ {0}
  OBVIOUS
<1>5. g \in Frames /\ g.at = "undoing" /\ g.m = x /\ g.i = 1
      /\ \A p : (g \in Working(p) <=> p = x) /\ (g \in Holding(p) <=> p = x)
  BY <1>3, <1>4, FrameFacts DEF undoing
<1>6. /\ f.m = x
      /\ \A p : (f \in Working(p) <=> p = x) /\ (f \in Holding(p) <=> p = x)
  BY <1>3, FrameFacts
<1>7. /\ prerequisites \in Lists /\ stack \in Seq(Frames) /\ require_count \in [AllModules -> Nat]
  BY DEF HeldInv, CountsType, CallsType
<1> HIDE DEF u, f, g, x
<1>8. IsNested(Append(u, g))
  BY <1>1, <1>2, <1>5, NestedTop
<1>9. \A S : /\ Count(stack, S) = Count(u, S) + One(f \in S)
             /\ Count(stack', S) = Count(u, S) + One(g \in S)
             /\ Count(u, S) \in Nat
  BY <1>1, <1>2, <1>5, PushCount, CountNat
<1>10. \A p : /\ Count(stack', Working(p)) = Count(stack, Working(p))
              /\ Count(stack', Holding(p)) = Count(stack, Holding(p))
  BY <1>5, <1>6, <1>9 DEF One
<1>11. \A p : KeptPlaces(stack', prerequisites', p) = KeptPlaces(stack, prerequisites, p)
  <2>1. (\A y : Gives(f, y) => f.i = 1) /\ (\A y : Gives(g, y) => g.i = 1)
    BY <1>2, <1>5 DEF Gives
  <2> QED
    BY <2>1, <1>1, <1>2, <1>5, <1>7, KeptPush
<1>12. Range(stack') = Range(u) \cup {g} /\ stack' \in Seq(Frames)
  BY <1>1, <1>2, <1>5, PushFacts
<1>13. CallsType' /\ IsAwaited(stack', result')
  BY <1>2, <1>12 DEF CallsType, IsAwaited
<1>14. \A m : (\E h \in Range(stack') : IsBusy(h, m)) <=> (\E h \in Range(stack) : IsBusy(h, m))
  <2>1. \A m : IsBusy(f, m) <=> IsBusy(g, m)
    BY <1>2, <1>5, <1>6 DEF IsBusy
  <2> QED
    BY <2>1, <1>1, <1>12
<1>15. \A h \in Range(stack') : h.at = "releasing" => use_count[h.m] = 0
  BY <1>1, <1>5, <1>12 DEF HeldInv, BusyInv
<1>16. \A m \in AllModules : Count(stack', Working(m)) <= 1
  BY <1>10 DEF HeldInv, CallsInv
<1>17. \A m \in AllModules : One(result' = m) = One(result = m)
  BY <1>2, NotModules DEF One
<1>18. \A m \in AllModules :
        /\ IsFiniteSet(KeptPlaces(stack', prerequisites', m))
        /\ require_count'[m] + Cardinality(KeptPlaces(stack', prerequisites', m))
             + Count(stack', Holding(m)) + One(result' = m)
           = require_count[m] + Cardinality(KeptPlaces(stack, prerequisites, m))
             + Count(stack, Holding(m)) + One(result = m)
  BY <1>2, <1>10, <1>11, <1>17 DEF HeldInv, CountInv
<1>19. UNCHANGED <<use_count, initialized, failed>> /\ require_count' \in [AllModules -> Nat]
       /\ prerequisites' \in Lists /\ IsNested(stack')
  BY <1>2, <1>7, <1>8
<1> QED
  BY <1>13, <1>14, <1>15, <1>16, <1>18, <1>19, QuietHeld

\* A prerequisite q is given back by call f, which goes on as g: a call r is
\* made to release it, from the stack v.
LEMMA GiveStack ==
  ASSUME NEW u \in Seq(Frames), NEW f \in Frames, NEW g \in Frames, NEW pr \in Lists,
         IsNested(Append(u, f)), NEW x \in AllModules, Count(Append(u, f), Working(x)) <= 1,
         Gives(f, x), Gives(g, x), g.at = f.at, f.i \in Nat, g.i = f.i + 1, f.i \in DOMAIN pr[x]
  PROVE  /\ Append(u, g) \in Seq(Frames) /\ Append(u, g) # << >>
         /\ Range(Append(u, g)) = Range(u) \cup {g}
         /\ IsNested(Append(u, g))
         /\ \A h \in Range(Append(u, g)) : h.at = f.at \/ MayCall(h, f)
         /\ \A S : Count(Append(u, g), S) = Count(u, S) + One(g \in S)
         /\ \A m : IF m = pr[x][f.i]
              THEN /\ <<x, f.i>> \in KeptPlaces(Append(u, f), pr, m)
                   /\ KeptPlaces(Append(u, g), pr, m)
                      = KeptPlaces(Append(u, f), pr, m) \ {<<x, f.i>>}
              ELSE KeptPlaces(Append(u, g), pr, m) = KeptPlaces(Append(u, f), pr, m)
<1>1. /\ Append(u, g) \in Seq(Frames) /\ Append(u, g) # << >>
      /\ Range(Append(u, g)) = Range(u) \cup {g}
  BY PushFacts
<1>2. IsNested(Append(u, g)) /\ \A h \in Range(u) : MayCall(h, f)
  BY NestedTop
<1>3. \A S : Count(Append(u, g), S) = Count(u, S) + One(g \in S)
  BY PushCount
<1>4. \A m : IF m = pr[x][f.i]
              THEN /\ <<x, f.i>> \in KeptPlaces(Append(u, f), pr, m)
                   /\ KeptPlaces(Append(u, g), pr, m)
                      = KeptPlaces(Append(u, f), pr, m) \ {<<x, f.i>>}
              ELSE KeptPlaces(Append(u, g), pr, m) = KeptPlaces(Append(u, f), pr, m)
  BY KeptStep
<1> QED
  BY <1>1, <1>2, <1>3, <1>4

Stacked(st, u, f) ==
  /\ Range(st) = Range(u) \cup {f}
  /\ \A S : Count(st, S) = Count(u, S) + One(f \in S)
GivenBack(st, v, pr, x, i, q) ==
  \A m : IF m = q
    THEN /\ <<x, i>> \in KeptPlaces(st, pr, m)
         /\ KeptPlaces(v, pr, m) = KeptPlaces(st, pr, m) \ {<<x, i>>}
    ELSE KeptPlaces(v, pr, m) = KeptPlaces(st, pr, m)

LEMMA GiveHeld ==
  ASSUME HeldInv, UNCHANGED <<counts, result>>, result = Nothing,
         NEW u \in Seq(Frames), NEW f \in Frames, NEW g \in Frames, NEW v \in Seq(Frames),
         NEW r \in Frames, NEW x \in AllModules, NEW q \in AllModules, NEW i,
         Gives(f, x), Gives(g, x), g.at = f.at, r.at = "module_release",
         \A p : r \notin Working(p) /\ (r \in Holding(p) <=> p = q),
         Stacked(stack, u, f), Stacked(v, u, g), v # << >>, IsNested(v),
         \A h \in Range(v) : h.at = f.at \/ MayCall(h, f),
         GivenBack(stack, v, prerequisites, x, i, q), stack' = Append(v, r)
  PROVE  HeldInv'
<1> USE DEF Stacked, GivenBack
<1>1. /\ prerequisites \in Lists /\ stack \in Seq(Frames) /\ require_count \in [AllModules -> Nat]
      /\ UNCHANGED <<use_count, require_count, prerequisites, initialized, failed, result>>
  BY DEF HeldInv, CountsType, CallsType, counts
<1>2. stack' \in Seq(Frames) /\ Range(stack') = Range(u) \cup {g, r}
  BY PushFacts
<1>3. IsNested(stack')
  <2>1. \A h \in Range(v) : MayCall(h, r)
    BY DEF MayCall, Gives
  <2> QED
    BY <2>1, PushNested
<1>4. \A S : /\ Count(stack', S) = Count(u, S) + One(g \in S) + One(r \in S)
             /\ Count(u, S) \in Nat
  <2>1. \A S : Count(stack', S) = Count(v, S) + One(r \in S)
    BY PushCount
  <2>2. \A S : Count(u, S) \in Nat
    BY CountNat
  <2> QED
    BY <2>1, <2>2
<1>5. /\ \A p : f \in Working(p) <=> g \in Working(p)
      /\ \A p : f \in Holding(p) <=> g \in Holding(p)
      /\ \A p : IsBusy(f, p) <=> IsBusy(g, p)
      /\ \A p : ~IsBusy(r, p)
  BY DEF Working, Holding, IsBusy, Gives
<1>6. \A p : /\ Count(stack', Working(p)) = Count(stack, Working(p))
             /\ Count(stack', Holding(p)) = Count(stack, Holding(p)) + One(p = q)
             /\ Count(stack, Holding(p)) \in Nat
  <2> TAKE p
  <2>1. Count(stack', Working(p)) = Count(u, Working(p)) + One(g \in Working(p)) + One(r \in Working(p))
    BY <1>4
  <2>2. Count(stack', Holding(p)) = Count(u, Holding(p)) + One(g \in Holding(p)) + One(r \in Holding(p))
    BY <1>4
  <2>3. Count(stack, Working(p)) = Count(u, Working(p)) + One(f \in Working(p))
        /\ Count(stack, Holding(p)) = Count(u, Holding(p)) + One(f \in Holding(p))
    OBVIOUS
  <2>4. Count(u, Working(p)) \in Nat /\ Count(u, Holding(p)) \in Nat
    BY <1>4
  <2>5. /\ One(r \in Working(p)) = 0 /\ One(r \in Holding(p)) = One(p = q)
        /\ One(g \in Working(p)) = One(f \in Working(p))
        /\ One(g \in Holding(p)) = One(f \in Holding(p))
        /\ One(p = q) \in Nat /\ One(f \in Working(p)) \in Nat /\ One(f \in Holding(p)) \in Nat
    BY <1>5 DEF One
  <2> QED
    BY <2>1, <2>2, <2>3, <2>4, <2>5
<1>7. \A m \in AllModules : Count(stack', Working(m)) <= 1
  BY <1>6 DEF HeldInv, CallsInv
<1>8. \A m : KeptPlaces(stack', prerequisites', m) = KeptPlaces(v, prerequisites, m)
  <2>1. \A y : ~Gives(r, y)
    BY DEF Gives
  <2> QED
    BY <2>1, <1>1, KeptPush
<1>9. \A m \in AllModules :
        /\ IsFiniteSet(KeptPlaces(stack', prerequisites', m))
        /\ require_count'[m] + Cardinality(KeptPlaces(stack', prerequisites', m))
             + Count(stack', Holding(m)) + One(result' = m)
           = require_count[m] + Cardinality(KeptPlaces(stack, prerequisites, m))
             + Count(stack, Holding(m)) + One(result = m)
  <2> TAKE m \in AllModules
  <2>1. /\ IsFiniteSet(KeptPlaces(stack, prerequisites, m))
        /\ Cardinality(KeptPlaces(stack, prerequisites, m)) \in Nat
        /\ require_count[m] \in Nat
    BY UsesFacts DEF HeldInv, CountInv
  <2>2. require_count'[m] = require_count[m] /\ One(result' = m) = One(result = m)
        /\ One(result = m) \in Nat
    BY <1>1 DEF One
  <2>3. CASE m = q
    <3>1. /\ IsFiniteSet(KeptPlaces(v, prerequisites, m))
          /\ Cardinality(KeptPlaces(v, prerequisites, m))
             = Cardinality(KeptPlaces(stack, prerequisites, m)) - 1
      <4> DEFINE K == KeptPlaces(stack, prerequisites, m)
      <4>1. <<x, i>> \in K /\ KeptPlaces(v, prerequisites, m) = K \ {<<x, i>>} /\ IsFiniteSet(K)
        BY <2>1, <2>3
      <4> HIDE DEF K
      <4>2. IsFiniteSet(K \ {<<x, i>>}) /\ Cardinality(K \ {<<x, i>>}) = Cardinality(K) - 1
        BY <4>1, FS_RemoveElement
      <4> QED
        BY <4>1, <4>2 DEF K
    <3>2. Count(stack', Holding(m)) = Count(stack, Holding(m)) + 1 /\ Count(stack, Holding(m)) \in Nat
      BY <1>6, <2>3 DEF One
    <3> QED
      BY <2>1, <2>2, <3>1, <3>2, <1>8
  <2>4. CASE m # q
    <3>1. KeptPlaces(stack', prerequisites', m) = KeptPlaces(stack, prerequisites, m)
      BY <1>8, <2>4
    <3>2. Count(stack', Holding(m)) = Count(stack, Holding(m))
      BY <1>6, <2>4 DEF One
    <3> QED
      BY <2>1, <2>2, <3>1, <3>2
  <2> QED
    BY <2>3, <2>4
<1>10. CallsType' /\ IsAwaited(stack', result')
  BY <1>1, <1>2 DEF CallsType, IsAwaited, HeldInv
<1>11. \A m : (\E h \in Range(stack') : IsBusy(h, m)) <=> (\E h \in Range(stack) : IsBusy(h, m))
  BY <1>2, <1>5
<1>12. \A h \in Range(stack') : h.at = "releasing" => use_count[h.m] = 0
  <2>1. \A h \in Range(stack) : h.at = "releasing" => use_count[h.m] = 0
    BY DEF HeldInv, BusyInv
  <2>2. g.m = f.m /\ r.at # "releasing"
    BY DEF Gives
  <2> QED
    BY <2>1, <2>2, <1>2
<1>13. UNCHANGED <<use_count, initialized, failed>> /\ require_count' \in [AllModules -> Nat]
       /\ prerequisites' \in Lists
  BY <1>1
<1> QED
  BY <1>3, <1>7, <1>9, <1>10, <1>11, <1>12, <1>13, QuietHeld

Pushed(v, u, g) == v = Append(u, g)

LEMMA GiveNext ==
  ASSUME HeldInv, UNCHANGED <<counts, result>>, stack # << >>,
         NEW x \in AllModules, NEW i \in Nat, NEW g \in Frames,
         Gives(Frame, x), Frame.i = i, i \in DOMAIN prerequisites[x],
         g.at = Frame.at, g.m = x, g.i = i + 1,
         NEW v, Pushed(v, Under, g), stack' = Append(v, release(prerequisites[x][i]))
  PROVE  HeldInv'
<1> DEFINE u == Under
           f == Frame
           q == prerequisites[x][i]
           r == release(q)
<1>1. /\ u \in Seq(Frames) /\ f \in Frames /\ result = Nothing
      /\ Range(stack) = Range(u) \cup {f}
      /\ \A S : Count(stack, S) = Count(u, S) + One(f \in S)
  BY TopFacts DEF Gives
<1>0. stack = Append(u, f) /\ IsNested(Append(u, f))
  BY TopFacts
<1>2. prerequisites \in Lists /\ Count(stack, Working(x)) <= 1
  BY DEF HeldInv, CountsType, CallsInv
<1>3. q \in AllModules
  BY <1>2 DEF Lists
<1>4. r \in Frames /\ r.at = "module_release" /\ \A p : r \notin Working(p) /\ (r \in Holding(p) <=> p = q)
  BY <1>3, FrameFacts DEF release
<1>5. Gives(f, x) /\ Gives(g, x) /\ g.at = f.at /\ f.i = i /\ Pushed(v, u, g)
      /\ g.i = f.i + 1 /\ f.i \in Nat /\ f.i \in DOMAIN prerequisites[x]
  BY DEF Gives
<1>6. /\ v \in Seq(Frames) /\ v # << >> /\ Range(v) = Range(u) \cup {g} /\ IsNested(v)
      /\ \A h \in Range(v) : h.at = f.at \/ MayCall(h, f)
      /\ \A S : Count(v, S) = Count(u, S) + One(g \in S)
      /\ \A m : IF m = q
           THEN /\ <<x, i>> \in KeptPlaces(stack, prerequisites, m)
                /\ KeptPlaces(v, prerequisites, m) = KeptPlaces(stack, prerequisites, m) \ {<<x, i>>}
           ELSE KeptPlaces(v, prerequisites, m) = KeptPlaces(stack, prerequisites, m)
  <2> DEFINE w == Append(u, f)
  <2>1. w = stack
    BY <1>0
  <2>2. Count(Append(u, f), Working(x)) <= 1 /\ IsNested(Append(u, f))
    BY <1>0, <1>2
  <2> HIDE DEF u, f
  <2>3. /\ Append(u, g) \in Seq(Frames) /\ Append(u, g) # << >>
        /\ Range(Append(u, g)) = Range(u) \cup {g}
        /\ IsNested(Append(u, g))
        /\ \A h \in Range(Append(u, g)) : h.at = f.at \/ MayCall(h, f)
        /\ \A S : Count(Append(u, g), S) = Count(u, S) + One(g \in S)
        /\ \A m : IF m = prerequisites[x][f.i]
              THEN /\ <<x, f.i>> \in KeptPlaces(Append(u, f), prerequisites, m)
                   /\ KeptPlaces(Append(u, g), prerequisites, m)
                      = KeptPlaces(Append(u, f), prerequisites, m) \ {<<x, f.i>>}
              ELSE KeptPlaces(Append(u, g), prerequisites, m) = KeptPlaces(Append(u, f), prerequisites, m)
    BY <1>1, <1>2, <1>5, <2>2, GiveStack
  <2> QED
    BY <2>1, <2>3, <1>5, Zenon DEF Pushed
<1>7. stack' = Append(v, r)
  OBVIOUS
<1> HIDE DEF u, f, q, r
<1>8. /\ Gives(f, x) /\ Gives(g, x) /\ g.at = f.at
      /\ Stacked(stack, u, f) /\ Stacked(v, u, g) /\ GivenBack(stack, v, prerequisites, x, i, q)
  BY <1>1, <1>5, <1>6, Zenon DEF Stacked, GivenBack
<1>9. /\ u \in Seq(Frames) /\ f \in Frames /\ v \in Seq(Frames) /\ v # << >> /\ IsNested(v)
      /\ result = Nothing
      /\ \A h \in Range(v) : h.at = f.at \/ MayCall(h, f)
  BY <1>1, <1>6
<1> QED
  BY <1>3, <1>4, <1>7, <1>8, <1>9, GiveHeld

LEMMA UndoHeld ==
  ASSUME HeldInv, UndoPrerequisite
  PROVE  HeldInv'
<1>1. Frame \in Frames /\ stack # << >>
  BY TopFacts DEF UndoPrerequisite, At
<1> DEFINE f == Frame
           g == [f EXCEPT !.i = f.i + 1]
<1>2. /\ f.at = "undoing" /\ f.i <= Len(prerequisites[f.m])
      /\ stack' = Append(Append(Under, g), release(prerequisites[f.m][f.i]))
      /\ UNCHANGED <<counts, result>>
  BY DEF UndoPrerequisite, At, Call, ToUndo
<1> HIDE DEF f
<1>3. /\ f.m \in AllModules /\ f.l \in Libraries \cup {NoLibrary} /\ f.i \in Nat \ {0}
      /\ f = undoing(f.m, f.l, f.i)
  BY <1>1, <1>2, FrameAt DEF f
<1>4. \A h, m, l, i : h = undoing(m, l, i) => [h EXCEPT !.i = h.i + 1] = undoing(m, l, h.i + 1)
  BY DEF undoing
<1>5. g = undoing(f.m, f.l, f.i + 1)
  BY <1>3, <1>4, Zenon
<1>6. \A m \in AllModules, k \in Libraries \cup {NoLibrary}, i \in Nat \ {0} :
        LET h == undoing(m, k, i + 1) IN
        h \in Frames /\ h.at = "undoing" /\ h.m = m /\ h.i = i + 1
  <2> TAKE m \in AllModules, k \in Libraries \cup {NoLibrary}, i \in Nat \ {0}
  <2> DEFINE j == i + 1
  <2>1. j \in Nat \ {0}
    OBVIOUS
  <2> HIDE DEF j
  <2>2. undoing(m, k, j) \in Frames
    BY <2>1, FrameFacts
  <2>3. undoing(m, k, j).at = "undoing" /\ undoing(m, k, j).m = m /\ undoing(m, k, j).i = j
    BY DEF undoing
  <2> QED
    BY <2>2, <2>3 DEF j
<1> HIDE DEF g
<1>7. g \in Frames /\ g.at = "undoing" /\ g.m = f.m /\ g.i = f.i + 1
  BY <1>3, <1>5, <1>6, Zenon
<1>8. f.i \in DOMAIN prerequisites[f.m]
  <2>1. prerequisites[f.m] \in Seq(AllModules)
    BY <1>3 DEF HeldInv, CountsType, Lists
  <2> QED
    BY <2>1, <1>2, <1>3
<1>9. Gives(f, f.m) /\ f.i \in Nat
  BY <1>2, <1>3 DEF Gives
<1> QED
  BY <1>1, <1>2, <1>3, <1>7, <1>8, <1>9, GiveNext DEF f, Pushed

LEMMA ReleaseNextHeld ==
  ASSUME HeldInv, ReleasePrerequisite
  PROVE  HeldInv'
<1>1. Frame \in Frames /\ stack # << >>
  BY TopFacts DEF ReleasePrerequisite, At
<1> DEFINE f == Frame
           g == [f EXCEPT !.i = f.i + 1]
<1>2. /\ f.at = "releasing" /\ f.i <= Len(prerequisites[f.m])
      /\ stack' = Append(Append(Under, g), release(prerequisites[f.m][f.i]))
      /\ UNCHANGED <<counts, result>>
  BY DEF ReleasePrerequisite, At, Call, NextOne
<1> HIDE DEF f
<1>3. f.m \in AllModules /\ f.i \in Nat \ {0} /\ f = releasing(f.m, f.i)
  BY <1>1, <1>2, FrameAt DEF f
<1>4. \A h, m, i : h = releasing(m, i) => [h EXCEPT !.i = h.i + 1] = releasing(m, h.i + 1)
  BY DEF releasing
<1>5. g = releasing(f.m, f.i + 1)
  BY <1>3, <1>4, Zenon
<1>6. \A m \in AllModules, i \in Nat \ {0} :
        LET h == releasing(m, i + 1) IN
        h \in Frames /\ h.at = "releasing" /\ h.m = m /\ h.i = i + 1
  <2> TAKE m \in AllModules, i \in Nat \ {0}
  <2> DEFINE j == i + 1
  <2>1. j \in Nat \ {0}
    OBVIOUS
  <2> HIDE DEF j
  <2>2. releasing(m, j) \in Frames
    BY <2>1, FrameFacts
  <2>3. releasing(m, j).at = "releasing" /\ releasing(m, j).m = m /\ releasing(m, j).i = j
    BY DEF releasing
  <2> QED
    BY <2>2, <2>3 DEF j
<1> HIDE DEF g
<1>7. g \in Frames /\ g.at = "releasing" /\ g.m = f.m /\ g.i = f.i + 1
  BY <1>3, <1>5, <1>6, Zenon
<1>8. f.i \in DOMAIN prerequisites[f.m]
  <2>1. prerequisites[f.m] \in Seq(AllModules)
    BY <1>3 DEF HeldInv, CountsType, Lists
  <2> QED
    BY <2>1, <1>2, <1>3
<1>9. Gives(f, f.m) /\ f.i \in Nat
  BY <1>2, <1>3 DEF Gives
<1> QED
  BY <1>1, <1>2, <1>3, <1>7, <1>8, <1>9, GiveNext DEF f, Pushed

\* All prerequisites of a module are released.
LEMMA EndReleaseHeld ==
  ASSUME HeldInv, EndRelease
  PROVE  HeldInv'
<1> DEFINE u == Under
           f == Frame
           x == Frame.m
<1>1. /\ u \in Seq(Frames) /\ f \in Frames /\ stack = Append(u, f) /\ IsNested(Append(u, f))
      /\ Range(stack) = Range(u) \cup {f} /\ result = Nothing
      /\ \A S : /\ Count(stack, S) = Count(u, S) + One(f \in S)
                /\ Count(u, S) \in Nat
  BY TopFacts DEF EndRelease, At
<1>2. /\ f.at = "releasing" /\ f.i > Len(prerequisites[x]) /\ stack' = u
      /\ prerequisites' = [prerequisites EXCEPT ![x] = << >>]
      /\ UNCHANGED <<use_count, require_count, initialized, failed, result>>
  BY DEF EndRelease, At
<1>3. x \in AllModules /\ f.m = x /\ f.i \in Nat
  BY <1>1, <1>2, FrameAt
<1>4. /\ prerequisites \in Lists /\ require_count \in [AllModules -> Nat]
      /\ prerequisites' \in Lists
  BY <1>2, <1>3 DEF HeldInv, CountsType, Lists
<1>5. Gives(f, x) /\ \A p : f \notin Holding(p) /\ ~IsBusy(f, p)
  BY <1>2, <1>3 DEF Gives, Holding, IsBusy
<1> HIDE DEF u, f, x
<1>6. \A m : KeptPlaces(stack', prerequisites', m) = KeptPlaces(stack, prerequisites, m)
  <2>1. \A m : KeptPlaces(u, [prerequisites EXCEPT ![x] = << >>], m)
               = KeptPlaces(Append(u, f), prerequisites, m)
    <3>1. /\ u \in Seq(Frames) /\ f \in Frames /\ prerequisites \in Lists /\ x \in AllModules
          /\ Gives(f, x) /\ f.i \in Nat /\ f.i > Len(prerequisites[x])
      BY <1>1, <1>2, <1>3, <1>4, <1>5
    <3> QED
      BY ONLY <3>1, KeptEnd
  <2> QED
    BY <2>1, <1>1, <1>2, Zenon
<1>7. \A p : /\ Count(stack', Holding(p)) = Count(stack, Holding(p))
             /\ Count(stack', Working(p)) <= Count(stack, Working(p))
             /\ Count(stack', Working(p)) \in Nat /\ Count(stack, Working(p)) \in Nat
  BY <1>1, <1>2, <1>5 DEF One
<1>8. CallsType' /\ IsAwaited(stack', result')
  BY <1>1, <1>2 DEF CallsType, IsAwaited, HeldInv
<1>9. IsNested(stack')
  BY <1>1, <1>2, NestedTop
<1>10. \A m \in AllModules : Count(stack', Working(m)) <= 1
  BY <1>7 DEF HeldInv, CallsInv
<1>11. \A m : (\E h \in Range(stack') : IsBusy(h, m)) <=> (\E h \in Range(stack) : IsBusy(h, m))
  BY <1>1, <1>2, <1>5
<1>12. \A h \in Range(stack') : h.at = "releasing" => use_count[h.m] = 0
  BY <1>1, <1>2 DEF HeldInv, BusyInv
<1>13. \A m \in AllModules :
        /\ IsFiniteSet(KeptPlaces(stack', prerequisites', m))
        /\ require_count'[m] + Cardinality(KeptPlaces(stack', prerequisites', m))
             + Count(stack', Holding(m)) + One(result' = m)
           = require_count[m] + Cardinality(KeptPlaces(stack, prerequisites, m))
             + Count(stack, Holding(m)) + One(result = m)
  BY <1>2, <1>6, <1>7 DEF HeldInv, CountInv
<1>14. UNCHANGED <<use_count, initialized, failed>> /\ require_count' \in [AllModules -> Nat]
       /\ prerequisites' \in Lists
  BY <1>2, <1>4
<1> QED
  BY <1>8, <1>9, <1>10, <1>11, <1>12, <1>13, <1>14, QuietHeld

\* A client has what it required, or learns that it cannot have it.
LEMMA EndRequireHeld ==
  ASSUME HeldInv, EndRequire
  PROVE  HeldInv'
<1> DEFINE u == Under
           f == Frame
<1>1. /\ u \in Seq(Frames) /\ f \in Frames /\ stack = Append(u, f) /\ IsNested(Append(u, f))
      /\ stack # << >>
  BY TopFacts DEF EndRequire, At
<1>2. /\ f.at = "lttv_module_require" /\ result # Nothing /\ stack' = u /\ result' = Nothing
      /\ UNCHANGED <<use_count, prerequisites, initialized, failed>>
      /\ require_count' = IF result = NULL THEN require_count
                                           ELSE [require_count EXCEPT ![result] = @ + 1]
  BY DEF EndRequire, At
<1>3. /\ prerequisites \in Lists /\ require_count \in [AllModules -> Nat]
      /\ result \in AllModules \cup {NULL, Nothing}
  BY DEF HeldInv, CountsType, CallsType
<1> HIDE DEF u, f
<1>4. /\ \A p : Count(stack, Working(p)) = Count(u, Working(p))
      /\ \A p : Count(stack, Holding(p)) = Count(u, Holding(p))
      /\ \A p : KeptPlaces(stack, prerequisites, p) = KeptPlaces(u, prerequisites, p)
      /\ \A p : (\E h \in Range(stack) : IsBusy(h, p)) <=> (\E h \in Range(u) : IsBusy(h, p))
  BY <1>1, <1>2, <1>3, PlainFacts
<1>5. require_count' \in [AllModules -> Nat]
      /\ \A m \in AllModules : require_count'[m] = require_count[m] + One(result = m)
  BY <1>2, <1>3, NotModules DEF One
<1>6. \A m \in AllModules : One(result' = m) = 0
  BY <1>2, NotModules DEF One
<1>7. \A m \in AllModules :
        /\ IsFiniteSet(KeptPlaces(stack', prerequisites', m))
        /\ require_count'[m] + Cardinality(KeptPlaces(stack', prerequisites', m))
             + Count(stack', Holding(m)) + One(result' = m)
           = require_count[m] + Cardinality(KeptPlaces(stack, prerequisites, m))
             + Count(stack, Holding(m)) + One(result = m)
  <2> TAKE m \in AllModules
  <2>1. /\ KeptPlaces(stack', prerequisites', m) = KeptPlaces(stack, prerequisites, m)
        /\ Count(stack', Holding(m)) = Count(stack, Holding(m))
    BY <1>2, <1>4
  <2>2. IsFiniteSet(KeptPlaces(stack, prerequisites, m))
    BY DEF HeldInv, CountInv
  <2>3. /\ Cardinality(KeptPlaces(stack, prerequisites, m)) \in Nat
        /\ Count(stack, Holding(m)) \in Nat /\ require_count[m] \in Nat
        /\ One(result = m) \in {0, 1}
    BY UsesFacts
  <2> QED
    BY <2>1, <2>2, <2>3, <1>5, <1>6
<1>8. CallsType' /\ IsAwaited(stack', result')
  BY <1>1, <1>2 DEF CallsType, IsAwaited
<1>9. IsNested(stack')
  BY <1>1, <1>2, NestedTop
<1>10. \A m \in AllModules : Count(stack', Working(m)) <= 1
  BY <1>2, <1>4 DEF HeldInv, CallsInv
<1>11. \A m : (\E h \in Range(stack') : IsBusy(h, m)) <=> (\E h \in Range(stack) : IsBusy(h, m))
  BY <1>2, <1>4
<1>12. \A h \in Range(stack') : h.at = "releasing" => use_count[h.m] = 0
  <2>1. Range(u) \subseteq Range(stack)
    BY <1>1, PushFacts
  <2> QED
    BY <2>1, <1>2 DEF HeldInv, BusyInv
<1>13. UNCHANGED <<use_count, initialized, failed>> /\ prerequisites' \in Lists
  BY <1>2, <1>3
<1> QED
  BY <1>5, <1>7, <1>8, <1>9, <1>10, <1>11, <1>12, <1>13, QuietHeld

\* A client gives back what it required.
LEMMA ClientReleaseHeld ==
  ASSUME HeldInv, NEW m \in AllModules, lttv_module_release(m)
  PROVE  HeldInv'
<1> DEFINE r == release(m)
           e == << >>
<1>1. /\ stack = e /\ stack' = <<r>> /\ <<r>> = Append(e, r)
      /\ require_count[m] > 0 /\ require_count' = [require_count EXCEPT ![m] = @ - 1]
      /\ UNCHANGED <<use_count, prerequisites, initialized, failed, result>>
  BY DEF lttv_module_release
<1>2. /\ prerequisites \in Lists /\ require_count \in [AllModules -> Nat]
      /\ result = Nothing
  BY <1>1 DEF HeldInv, CountsType, CallsInv, IsAwaited
<1>3. r \in Frames /\ r.at = "module_release"
      /\ \A p : r \notin Working(p) /\ (r \in Holding(p) <=> p = m)
  BY FrameFacts DEF release
<1>4. e \in Seq(Frames) /\ Range(e) = {} /\ \A S : Count(e, S) = 0
  BY EmptyStack
<1> HIDE DEF r, e
<1>5. /\ stack' \in Seq(Frames) /\ Range(stack') = {r}
      /\ \A S : Count(stack', S) = One(r \in S)
  <2>1. /\ Append(e, r) \in Seq(Frames) /\ Range(Append(e, r)) = Range(e) \cup {r}
        /\ \A S : Count(Append(e, r), S) = Count(e, S) + One(r \in S)
    BY <1>3, <1>4, PushFacts, PushCount
  <2>2. /\ stack' = Append(e, r) /\ Range(e) \cup {r} = {r}
        /\ \A S : Count(e, S) + One(r \in S) = One(r \in S)
    BY <1>1, <1>4 DEF One
  <2> QED
    BY <2>1, <2>2, Zenon
<1>6. require_count' \in [AllModules -> Nat]
      /\ \A p \in AllModules : require_count'[p] + One(p = m) = require_count[p]
  BY <1>1, <1>2 DEF One
<1>7. \A p : KeptPlaces(stack', prerequisites', p) = KeptPlaces(stack, prerequisites, p)
  <2>1. \A y : ~Gives(r, y)
    BY <1>3 DEF Gives
  <2>2. \A p : KeptPlaces(Append(e, r), prerequisites, p) = KeptPlaces(e, prerequisites, p)
    BY <2>1, <1>2, <1>3, <1>4, KeptPush
  <2> QED
    BY <2>2, <1>1, Zenon
<1>8. \A p : /\ Count(stack', Working(p)) = 0 /\ Count(stack, Holding(p)) = 0
             /\ Count(stack', Holding(p)) = One(p = m)
  BY <1>1, <1>3, <1>4, <1>5 DEF One
<1>9. \A p \in AllModules :
        /\ IsFiniteSet(KeptPlaces(stack', prerequisites', p))
        /\ require_count'[p] + Cardinality(KeptPlaces(stack', prerequisites', p))
             + Count(stack', Holding(p)) + One(result' = p)
           = require_count[p] + Cardinality(KeptPlaces(stack, prerequisites, p))
             + Count(stack, Holding(p)) + One(result = p)
  <2> TAKE p \in AllModules
  <2>1. /\ IsFiniteSet(KeptPlaces(stack, prerequisites, p))
        /\ Cardinality(KeptPlaces(stack, prerequisites, p)) \in Nat
        /\ require_count[p] \in Nat /\ require_count'[p] \in Nat /\ One(p = m) \in {0, 1}
        /\ One(result' = p) = One(result = p) /\ One(result = p) \in {0, 1}
    BY <1>1, <1>6, UsesFacts DEF HeldInv, CountInv, One
  <2> QED
    BY <2>1, <1>6, <1>7, <1>8
<1>10. CallsType' /\ IsAwaited(stack', result')
  BY <1>1, <1>2, <1>5 DEF CallsType, IsAwaited
<1>11. IsNested(stack')
  <2>1. \A f, g \in {} : MayCall(f, g)
    OBVIOUS
  <2>2. IsNested(e)
    BY <1>1 DEF HeldInv, CallsInv
  <2> QED
    BY <2>2, <1>1, <1>3, <1>4, PushNested
<1>12. \A p \in AllModules : Count(stack', Working(p)) <= 1
  BY <1>8
<1>13. \A p : (\E h \in Range(stack') : IsBusy(h, p)) <=> (\E h \in Range(stack) : IsBusy(h, p))
  BY <1>1, <1>3, <1>4, <1>5 DEF IsBusy
<1>14. \A h \in Range(stack') : h.at = "releasing" => use_count[h.m] = 0
  BY <1>3, <1>5
<1>15. UNCHANGED <<use_count, initialized, failed>> /\ prerequisites' \in Lists
  BY <1>1, <1>2
<1> QED
  BY <1>6, <1>9, <1>10, <1>11, <1>12, <1>13, <1>14, <1>15, QuietHeld

\* The call that is busy with x ends: x becomes initialized, or it failed.
LEMMA BusyEnd ==
  ASSUME HeldInv, stack # << >>, Frame.at \in {"acquiring", "undoing"},
         NEW x, x = Frame.m, stack' = Under, use_count' = use_count,
         initialized' \cup failed' = initialized \cup failed \cup {x},
         initialized' \subseteq initialized \cup {x},
         result' \in AllModules \cup {NULL, Nothing}
  PROVE  /\ x \in AllModules /\ x \notin initialized \cup failed
         /\ CallsType' /\ CallsInv' /\ BusyInv'
         /\ \A p : Count(stack, Holding(p)) = Count(stack', Holding(p)) + One(p = x)
         /\ \A p : Count(stack', Holding(p)) \in Nat
<1> DEFINE u == Under
           f == Frame
<1>1. /\ u \in Seq(Frames) /\ f \in Frames /\ IsNested(Append(u, f))
      /\ Range(stack) = Range(u) \cup {f} /\ Range(u) \subseteq Frames
      /\ \A S : /\ Count(stack, S) = Count(u, S) + One(f \in S)
                /\ Count(u, S) \in Nat
                /\ Count(u, S) = 0 <=> Range(u) \cap S = {}
  BY TopFacts
<1>2. f.at \in {"acquiring", "undoing"} /\ f.m = x /\ stack' = u
  OBVIOUS
<1>3. x \in AllModules /\ IsBusy(f, x) /\ \A p : IsBusy(f, p) => p = x
  BY <1>1, <1>2, FrameAt DEF IsBusy
<1>4. \A p : (f \in Holding(p) <=> p = x) /\ (f \in Working(p) <=> p = x)
  BY <1>1, <1>2 DEF Holding, Working
<1> HIDE DEF u, f
<1>5. x \notin initialized \cup failed
  BY <1>1, <1>3 DEF HeldInv, BusyInv
<1>6. /\ IsNested(u) /\ u # << >> /\ u[Len(u)].at \in {"acquiring", "lttv_module_require"}
  BY <1>1, <1>2, NestedTop
<1>7. \A p : Count(stack, Holding(p)) = Count(u, Holding(p)) + One(p = x)
  BY <1>1, <1>4 DEF One
<1>8. Range(u) \cap Working(x) = {}
  <2>1. Count(stack, Working(x)) = Count(u, Working(x)) + 1
    BY <1>1, <1>4 DEF One
  <2>2. Count(stack, Working(x)) <= 1 /\ Count(u, Working(x)) \in Nat
    BY <1>1, <1>3 DEF HeldInv, CallsInv
  <2> QED
    BY <2>1, <2>2, <1>1
<1>9. \A m \in AllModules : Count(stack', Working(m)) <= 1
  <2> TAKE m \in AllModules
  <2>1. Count(stack, Working(m)) <= 1 /\ Count(u, Working(m)) \in Nat
        /\ Count(stack, Working(m)) = Count(u, Working(m)) + One(f \in Working(m))
    BY <1>1 DEF HeldInv, CallsInv
  <2> QED
    BY <2>1, <1>2 DEF One
<1>10. CallsInv' /\ CallsType'
  BY <1>1, <1>2, <1>6, <1>9 DEF CallsInv, CallsType, IsAwaited
<1>11. BusyInv'
  <2>1. \A h \in Range(stack') : h.at = "releasing" => use_count'[h.m] = 0
    BY <1>1, <1>2 DEF HeldInv, BusyInv
  <2>2. ASSUME NEW h \in Range(stack'), NEW p, IsBusy(h, p)
        PROVE  p \notin initialized' \cup failed'
    <3>1. h \in Range(u) /\ h \in Range(stack) /\ h \in Frames
      BY <1>1, <1>2
    <3>2. p # x
      BY <2>2, <3>1, <1>8 DEF IsBusy, Working
    <3>3. p \notin initialized \cup failed
      BY <2>2, <3>1 DEF HeldInv, BusyInv
    <3> QED
      BY <3>2, <3>3
  <2>3. \A p \in initialized' : use_count'[p] > 0
    <3>1. use_count[x] > 0
      <4>1. f \in Range(stack) /\ f \in Holding(x)
        BY <1>1, <1>4
      <4> QED
        BY <4>1, <1>3, UsesFacts
    <3> QED
      BY <3>1 DEF HeldInv, BusyInv
  <2>4. ASSUME NEW p \in AllModules, use_count'[p] > 0, p \notin initialized' \cup failed'
        PROVE  \E h \in Range(stack') : IsBusy(h, p)
    <3>1. p # x /\ p \notin initialized \cup failed /\ use_count[p] > 0
      BY <2>4
    <3>2. PICK h \in Range(stack) : IsBusy(h, p)
      BY <3>1 DEF HeldInv, BusyInv
    <3>3. h # f
      BY <3>1, <3>2, <1>3
    <3> QED
      BY <3>2, <3>3, <1>1, <1>2
  <2> QED
    BY <2>1, <2>2, <2>3, <2>4 DEF BusyInv
<1> QED
  BY <1>1, <1>2, <1>3, <1>5, <1>7, <1>10, <1>11

\* All prerequisites are there, and the module is initialized.
LEMMA InitializeHeld ==
  ASSUME HeldInv, Initialize
  PROVE  HeldInv'
<1> DEFINE u == Under
           f == Frame
           x == Frame.m
<1>1. /\ stack # << >> /\ f.at = "acquiring" /\ result = Nothing /\ stack' = u /\ result' = x
      /\ initialized' = initialized \cup {x}
      /\ UNCHANGED <<use_count, require_count, prerequisites, failed>>
  BY DEF Initialize, At, Return
<1>2. /\ u \in Seq(Frames) /\ f \in Frames /\ stack = Append(u, f)
  BY <1>1, TopFacts
<1>3. x \in AllModules
  BY <1>1, <1>2, FrameAt
<1>4. /\ x \notin initialized \cup failed
      /\ CallsType' /\ CallsInv' /\ BusyInv'
      /\ \A p : Count(stack, Holding(p)) = Count(stack', Holding(p)) + One(p = x)
      /\ \A p : Count(stack', Holding(p)) \in Nat
  <2>1. /\ initialized' \cup failed' = initialized \cup failed \cup {x}
        /\ initialized' \subseteq initialized \cup {x}
        /\ result' \in AllModules \cup {NULL, Nothing}
    BY <1>1, <1>3
  <2> QED
    BY <2>1, <1>1, BusyEnd
<1>5. /\ prerequisites \in Lists /\ CountsType'
  BY <1>1, <1>3 DEF HeldInv, CountsType
<1> HIDE DEF u, f, x
<1>6. \A m : KeptPlaces(stack', prerequisites', m) = KeptPlaces(stack, prerequisites, m)
  <2>1. \A y : ~Gives(f, y)
    BY <1>1 DEF Gives
  <2>2. \A m : KeptPlaces(Append(u, f), prerequisites, m) = KeptPlaces(u, prerequisites, m)
    BY <2>1, <1>2, <1>5, KeptPush
  <2> QED
    BY <2>2, <1>1, <1>2, Zenon
<1>7. CountInv'
  <2> SUFFICES ASSUME NEW p \in AllModules
               PROVE  /\ IsFiniteSet(KeptPlaces(stack', prerequisites', p))
                      /\ use_count'[p] = require_count'[p] + Cardinality(KeptPlaces(stack', prerequisites', p))
                           + Count(stack', Holding(p)) + One(p \in failed') + One(result' = p)
    BY DEF CountInv, Uses
  <2>1. IsFiniteSet(KeptPlaces(stack, prerequisites, p))
    BY DEF HeldInv, CountInv
  <2>2. One(result = p) = 0 /\ One(result' = p) = One(p = x) /\ One(p = x) \in {0, 1}
    BY <1>1, <1>3, NotModules DEF One
  <2>3. Count(stack, Holding(p)) = Count(stack', Holding(p)) + One(p = x)
        /\ Count(stack', Holding(p)) \in Nat
    BY <1>4
  <2>4. /\ KeptPlaces(stack', prerequisites', p) = KeptPlaces(stack, prerequisites, p)
        /\ One(p \in failed') = One(p \in failed)
        /\ use_count'[p] = use_count[p] /\ require_count'[p] = require_count[p]
    BY <1>1, <1>6
  <2> QED
    BY <2>1, <2>2, <2>3, <2>4, UsesFacts
<1> QED
  BY <1>4, <1>5, <1>7 DEF HeldInv

\* A prerequisite could not be had, and the others are given back.
LEMMA FailHeld ==
  ASSUME HeldInv, Fail
  PROVE  HeldInv'
<1> DEFINE u == Under
           f == Frame
           x == Frame.m
<1>1. /\ stack # << >> /\ f.at = "undoing" /\ f.i > Len(prerequisites[x])
      /\ stack' = u /\ result' = NULL /\ failed' = failed \cup {x}
      /\ prerequisites' = [prerequisites EXCEPT ![x] = << >>]
      /\ UNCHANGED <<use_count, require_count, initialized>>
  BY DEF Fail, At, Return, ToUndo
<1>2. /\ u \in Seq(Frames) /\ f \in Frames /\ stack = Append(u, f) /\ result = Nothing
  BY <1>1, TopFacts
<1>3. x \in AllModules /\ f.i \in Nat
  BY <1>1, <1>2, FrameAt
<1>4. /\ x \notin initialized \cup failed
      /\ CallsType' /\ CallsInv' /\ BusyInv'
      /\ \A p : Count(stack, Holding(p)) = Count(stack', Holding(p)) + One(p = x)
      /\ \A p : Count(stack', Holding(p)) \in Nat
  <2>1. /\ initialized' \cup failed' = initialized \cup failed \cup {x}
        /\ initialized' \subseteq initialized \cup {x}
        /\ result' \in AllModules \cup {NULL, Nothing}
    BY <1>1, <1>3
  <2> QED
    BY <2>1, <1>1, BusyEnd
<1>5. /\ prerequisites \in Lists /\ CountsType'
  BY <1>1, <1>3 DEF HeldInv, CountsType, Lists
<1>6. Gives(f, x)
  BY <1>1 DEF Gives
<1> HIDE DEF u, f, x
<1>7. \A m : KeptPlaces(stack', prerequisites', m) = KeptPlaces(stack, prerequisites, m)
  <2>1. \A m : KeptPlaces(u, [prerequisites EXCEPT ![x] = << >>], m)
               = KeptPlaces(Append(u, f), prerequisites, m)
    <3>1. /\ u \in Seq(Frames) /\ f \in Frames /\ prerequisites \in Lists /\ x \in AllModules
          /\ Gives(f, x) /\ f.i \in Nat /\ f.i > Len(prerequisites[x])
      BY <1>1, <1>2, <1>3, <1>5, <1>6
    <3> QED
      BY ONLY <3>1, KeptEnd
  <2> QED
    BY <2>1, <1>1, <1>2, Zenon
<1>8. CountInv'
  <2> SUFFICES ASSUME NEW p \in AllModules
               PROVE  /\ IsFiniteSet(KeptPlaces(stack', prerequisites', p))
                      /\ use_count'[p] = require_count'[p] + Cardinality(KeptPlaces(stack', prerequisites', p))
                           + Count(stack', Holding(p)) + One(p \in failed') + One(result' = p)
    BY DEF CountInv, Uses
  <2>1. IsFiniteSet(KeptPlaces(stack, prerequisites, p))
    BY DEF HeldInv, CountInv
  <2>2. One(result = p) = 0 /\ One(result' = p) = 0 /\ One(p = x) \in {0, 1}
    BY <1>1, <1>2, NotModules DEF One
  <2>3. Count(stack, Holding(p)) = Count(stack', Holding(p)) + One(p = x)
        /\ Count(stack', Holding(p)) \in Nat
    BY <1>4
  <2>4. /\ KeptPlaces(stack', prerequisites', p) = KeptPlaces(stack, prerequisites, p)
        /\ use_count'[p] = use_count[p] /\ require_count'[p] = require_count[p]
    BY <1>1, <1>7
  <2>5. One(p \in failed') = One(p \in failed) + One(p = x)
    <3>1. (p \in failed' <=> p \in failed \/ p = x) /\ ~(p \in failed /\ p = x)
      BY <1>1, <1>4
    <3> QED
      BY <3>1 DEF One
  <2> QED
    BY <2>1, <2>2, <2>3, <2>4, <2>5, UsesFacts
<1> QED
  BY <1>4, <1>5, <1>8 DEF HeldInv

\* What a module is released by: it holds a use, the only one if it is the last.
LEMMA ReleaseFacts ==
  ASSUME HeldInv, stack # << >>, Frame.at = "module_release", NEW x, x = Frame.m
  PROVE  /\ x \in AllModules /\ result = Nothing
         /\ \A p : /\ ~IsBusy(Frame, p) /\ ~Gives(Frame, p) /\ Frame \notin Working(p)
                   /\ Count(stack, Holding(p)) = Count(Under, Holding(p)) + One(p = x)
                   /\ Count(stack, Working(p)) = Count(Under, Working(p))
         /\ use_count[x] > 0
         /\ \A h \in Range(Under) : h.at = "releasing" => h.m # x
         /\ use_count[x] = 1 => x \notin failed /\ Count(Under, Working(x)) = 0
<1> DEFINE u == Under
           f == Frame
<1>1. /\ u \in Seq(Frames) /\ f \in Frames
      /\ Range(stack) = Range(u) \cup {f} /\ Range(u) \subseteq Frames /\ result = Nothing
      /\ \A S : /\ Count(stack, S) = Count(u, S) + One(f \in S)
                /\ Count(u, S) \in Nat
                /\ Count(u, S) = 0 <=> Range(u) \cap S = {}
  BY TopFacts
<1>2. f.at = "module_release" /\ f.m = x
  OBVIOUS
<1>3. x \in AllModules
  BY <1>1, <1>2, FrameAt
<1>4. \A p : /\ ~IsBusy(f, p) /\ ~Gives(f, p) /\ f \notin Working(p)
             /\ f \in Holding(p) <=> p = x
  BY <1>1, <1>2 DEF IsBusy, Gives, Working, Holding
<1> HIDE DEF u, f
<1>5. \A p : /\ Count(stack, Holding(p)) = Count(u, Holding(p)) + One(p = x)
             /\ Count(stack, Working(p)) = Count(u, Working(p))
  BY <1>1, <1>4 DEF One
<1>6. use_count[x] > 0
  <2>1. f \in Range(stack) /\ f \in Holding(x)
    BY <1>1, <1>4
  <2> QED
    BY <2>1, <1>3, UsesFacts
<1>7. \A h \in Range(u) : h.at = "releasing" => h.m # x
  BY <1>1, <1>6 DEF HeldInv, BusyInv
<1>8. ASSUME use_count[x] = 1
      PROVE  x \notin failed /\ Count(u, Working(x)) = 0
  <2>1. Count(stack, Holding(x)) = Count(u, Holding(x)) + 1 /\ Count(u, Holding(x)) \in Nat
    BY <1>1, <1>5 DEF One
  <2>2. Count(u, Holding(x)) = 0 /\ One(x \in failed) = 0
    BY <2>1, <1>3, <1>8, UsesFacts
  <2>3. Range(u) \cap Holding(x) = {} /\ x \notin failed
    BY <2>2, <1>1 DEF One
  <2>4. Range(u) \cap Working(x) = {}
    BY <2>3, <1>1, <1>7 DEF Working, Holding
  <2> QED
    BY <2>3, <2>4, <1>1
<1> QED
  BY <1>1, <1>3, <1>4, <1>5, <1>6, <1>7, <1>8 DEF u, f

\* A use ends, and the module lives on.
LEMMA OneUseHeld ==
  ASSUME HeldInv, ModuleRelease, ~LastUse(Frame.m)
  PROVE  HeldInv'
<1> DEFINE u == Under
           f == Frame
           x == Frame.m
<1>1. /\ stack # << >> /\ f.at = "module_release" /\ use_count[x] # 1
      /\ use_count' = [use_count EXCEPT ![x] = @ - 1] /\ stack' = u
      /\ UNCHANGED <<require_count, prerequisites, initialized, failed, result>>
  BY DEF ModuleRelease, At, LastUse
<1>2. /\ x \in AllModules /\ result = Nothing
      /\ \A p : /\ ~IsBusy(f, p) /\ ~Gives(f, p) /\ f \notin Working(p)
                /\ Count(stack, Holding(p)) = Count(u, Holding(p)) + One(p = x)
                /\ Count(stack, Working(p)) = Count(u, Working(p))
      /\ use_count[x] > 0
      /\ \A h \in Range(u) : h.at = "releasing" => h.m # x
  BY <1>1, ReleaseFacts
<1>3. /\ u \in Seq(Frames) /\ f \in Frames /\ stack = Append(u, f) /\ IsNested(Append(u, f))
      /\ Range(stack) = Range(u) \cup {f}
  BY <1>1, TopFacts
<1>4. /\ prerequisites \in Lists /\ use_count \in [AllModules -> Nat]
  BY DEF HeldInv, CountsType
<1> HIDE DEF u, f, x
<1>5. /\ use_count' \in [AllModules -> Nat]
      /\ use_count'[x] = use_count[x] - 1 /\ use_count'[x] > 0
      /\ \A p \in AllModules : p # x => use_count'[p] = use_count[p]
  BY <1>1, <1>2, <1>4
<1>6. CountsType'
  BY <1>1, <1>5 DEF HeldInv, CountsType
<1>7. CallsType' /\ CallsInv'
  <2>1. IsNested(u)
    BY <1>3, NestedTop
  <2> QED
    BY <2>1, <1>1, <1>2, <1>3 DEF HeldInv, CallsType, CallsInv, IsAwaited
<1>8. \A m : KeptPlaces(stack', prerequisites', m) = KeptPlaces(stack, prerequisites, m)
  <2>1. \A m : KeptPlaces(Append(u, f), prerequisites, m) = KeptPlaces(u, prerequisites, m)
    BY <1>2, <1>3, <1>4, KeptPush
  <2> QED
    BY <2>1, <1>1, <1>3, Zenon
<1>9. BusyInv'
  <2>1. \A h \in Range(stack') : h.at = "releasing" => use_count'[h.m] = 0
    <3> TAKE h \in Range(stack')
    <3> HAVE h.at = "releasing"
    <3>1. h \in Range(u) /\ h \in Range(stack) /\ h \in Frames
      BY <1>1, <1>3 DEF Range
    <3>2. h.m # x /\ h.m \in AllModules
      BY <3>1, <1>2, FrameAt
    <3>3. use_count[h.m] = 0
      BY <3>1 DEF HeldInv, BusyInv
    <3> QED
      BY <3>2, <3>3, <1>5
  <2>2. \A h \in Range(stack') : \A p : IsBusy(h, p) => p \notin initialized' \cup failed'
    BY <1>1, <1>3 DEF HeldInv, BusyInv
  <2>3. \A p \in initialized' : use_count'[p] > 0
    BY <1>1, <1>5 DEF HeldInv, BusyInv, CountsType
  <2>4. ASSUME NEW p \in AllModules, use_count'[p] > 0, p \notin initialized' \cup failed'
        PROVE  \E h \in Range(stack') : IsBusy(h, p)
    <3>1. use_count[p] > 0 /\ p \notin initialized \cup failed
      BY <2>4, <1>1, <1>2, <1>5
    <3>2. \E h \in Range(stack) : IsBusy(h, p)
      BY <3>1 DEF HeldInv, BusyInv
    <3> QED
      BY <3>2, <1>1, <1>2, <1>3
  <2> QED
    BY <2>1, <2>2, <2>3, <2>4 DEF BusyInv
<1>10. CountInv'
  <2> SUFFICES ASSUME NEW p \in AllModules
               PROVE  /\ IsFiniteSet(KeptPlaces(stack', prerequisites', p))
                      /\ use_count'[p] = require_count'[p] + Cardinality(KeptPlaces(stack', prerequisites', p))
                           + Count(stack', Holding(p)) + One(p \in failed') + One(result' = p)
    BY DEF CountInv, Uses
  <2>1. IsFiniteSet(KeptPlaces(stack, prerequisites, p))
    BY DEF HeldInv, CountInv
  <2>2. /\ KeptPlaces(stack', prerequisites', p) = KeptPlaces(stack, prerequisites, p)
        /\ require_count'[p] = require_count[p] /\ One(p \in failed') = One(p \in failed)
        /\ One(result' = p) = One(result = p)
    BY <1>1, <1>8
  <2>3. /\ Count(stack, Holding(p)) = Count(stack', Holding(p)) + One(p = x)
        /\ Count(stack', Holding(p)) \in Nat
    <3>1. Count(u, Holding(p)) \in Nat
      BY <1>3, CountNat
    <3> QED
      BY <3>1, <1>1, <1>2
  <2>4. use_count[p] = use_count'[p] + One(p = x) /\ One(p = x) \in {0, 1}
    BY <1>5, <1>4 DEF One
  <2>5. use_count'[p] \in Nat
    BY <1>5
  <2> QED
    BY <2>1, <2>2, <2>3, <2>4, <2>5, UsesFacts
<1> QED
  BY <1>6, <1>7, <1>9, <1>10 DEF HeldInv

\* The last use ends: the module is destroyed and its prerequisites are released.
LEMMA LastUseHeld ==
  ASSUME HeldInv, ModuleRelease, LastUse(Frame.m)
  PROVE  HeldInv'
<1> DEFINE u == Under
           f == Frame
           x == Frame.m
           g == releasing(Frame.m, 1)
<1>1. /\ stack # << >> /\ f.at = "module_release" /\ use_count[x] = 1
      /\ use_count' = [use_count EXCEPT ![x] = @ - 1] /\ stack' = Append(u, g)
      /\ initialized' = initialized \ {x} /\ failed' = failed \ {x}
      /\ UNCHANGED <<require_count, prerequisites, result>>
  BY DEF ModuleRelease, At, LastUse, Goto
<1>2. /\ x \in AllModules /\ result = Nothing
      /\ \A p : /\ ~IsBusy(f, p) /\ ~Gives(f, p) /\ f \notin Working(p)
                /\ Count(stack, Holding(p)) = Count(u, Holding(p)) + One(p = x)
                /\ Count(stack, Working(p)) = Count(u, Working(p))
      /\ \A h \in Range(u) : h.at = "releasing" => h.m # x
      /\ x \notin failed /\ Count(u, Working(x)) = 0
  BY <1>1, ReleaseFacts
<1>3. /\ u \in Seq(Frames) /\ f \in Frames /\ stack = Append(u, f) /\ IsNested(Append(u, f))
      /\ Range(stack) = Range(u) \cup {f}
  BY <1>1, TopFacts
<1>4. /\ prerequisites \in Lists /\ use_count \in [AllModules -> Nat]
  BY DEF HeldInv, CountsType
<1>5. 1 \in Nat \ {0}
  OBVIOUS
<1>6. /\ g \in Frames /\ g.at = "releasing" /\ g.m = x /\ g.i = 1
      /\ \A p : (g \in Working(p) <=> p = x) /\ g \notin Holding(p) /\ ~IsBusy(g, p)
  BY <1>2, <1>5, FrameFacts DEF releasing, IsBusy
<1> HIDE DEF u, f, x, g
<1>7. /\ use_count' \in [AllModules -> Nat] /\ use_count'[x] = 0
      /\ \A p \in AllModules : p # x => use_count'[p] = use_count[p]
  BY <1>1, <1>2, <1>4
<1>8. CountsType'
  BY <1>1, <1>7 DEF HeldInv, CountsType
<1>9. /\ stack' \in Seq(Frames) /\ Range(stack') = Range(u) \cup {g}
      /\ \A S : Count(stack', S) = Count(u, S) + One(g \in S) /\ Count(u, S) \in Nat
  BY <1>1, <1>3, <1>6, PushFacts, PushCount, CountNat
<1>10. /\ \A p : /\ Count(stack', Holding(p)) = Count(u, Holding(p))
                 /\ Count(stack', Working(p)) = Count(u, Working(p)) + One(p = x)
  BY <1>6, <1>9 DEF One
<1>11. IsNested(stack')
  <2>1. /\ IsNested(u) /\ \A h \in Range(u) : MayCall(h, f)
    BY <1>3, NestedTop
  <2>2. \A h \in Range(u) : MayCall(h, g)
    BY <2>1, <1>6 DEF MayCall
  <2>3. IsNested(Append(u, g))
    BY <2>1, <2>2, <1>3, <1>6, PushNested
  <2> QED
    BY <2>3, <1>1, Zenon
<1>12. \A m \in AllModules : Count(stack', Working(m)) <= 1
  <2> TAKE m \in AllModules
  <2>1. Count(u, Working(m)) <= 1 /\ Count(u, Working(m)) \in Nat
    BY <1>2, <1>9 DEF HeldInv, CallsInv
  <2> QED
    BY <2>1, <1>2, <1>10 DEF One
<1>13. CallsType' /\ CallsInv'
  BY <1>1, <1>2, <1>9, <1>11, <1>12 DEF HeldInv, CallsType, CallsInv, IsAwaited
<1>14. \A m : KeptPlaces(stack', prerequisites', m) = KeptPlaces(stack, prerequisites, m)
  <2>1. \A m : KeptPlaces(Append(u, f), prerequisites, m) = KeptPlaces(u, prerequisites, m)
    BY <1>2, <1>3, <1>4, KeptPush
  <2>2. \A m : KeptPlaces(Append(u, g), prerequisites, m) = KeptPlaces(u, prerequisites, m)
    BY <1>3, <1>4, <1>6, KeptPush
  <2> QED
    BY <2>1, <2>2, <1>1, <1>3, Zenon
<1>15. BusyInv'
  <2>1. \A h \in Range(stack') : h.at = "releasing" => use_count'[h.m] = 0
    <3> TAKE h \in Range(stack')
    <3> HAVE h.at = "releasing"
    <3>1. CASE h = g
      BY <3>1, <1>6, <1>7
    <3>2. CASE h # g
      <4>1. h \in Range(u) /\ h \in Range(stack) /\ h \in Frames
        <5>1. h \in Range(u)
          BY <3>2, <1>9
        <5>2. Range(u) \subseteq Frames
          BY <1>3 DEF Range
        <5> QED
          BY <5>1, <5>2, <1>3
      <4>2. h.m # x /\ h.m \in AllModules
        BY <4>1, <1>2, FrameAt
      <4>3. use_count[h.m] = 0
        BY <4>1 DEF HeldInv, BusyInv
      <4> QED
        BY <4>2, <4>3, <1>7
    <3> QED
      BY <3>1, <3>2
  <2>2. \A h \in Range(stack') : \A p : IsBusy(h, p) => p \notin initialized' \cup failed'
    BY <1>1, <1>3, <1>6, <1>9 DEF HeldInv, BusyInv
  <2>3. \A p \in initialized' : use_count'[p] > 0
    BY <1>1, <1>7 DEF HeldInv, BusyInv, CountsType
  <2>4. ASSUME NEW p \in AllModules, use_count'[p] > 0, p \notin initialized' \cup failed'
        PROVE  \E h \in Range(stack') : IsBusy(h, p)
    <3>1. use_count[p] > 0 /\ p \notin initialized \cup failed
      BY <2>4, <1>1, <1>7
    <3>2. \E h \in Range(stack) : IsBusy(h, p)
      BY <3>1 DEF HeldInv, BusyInv
    <3> QED
      BY <3>2, <1>2, <1>3, <1>9
  <2> QED
    BY <2>1, <2>2, <2>3, <2>4 DEF BusyInv
<1>16. CountInv'
  <2> SUFFICES ASSUME NEW p \in AllModules
               PROVE  /\ IsFiniteSet(KeptPlaces(stack', prerequisites', p))
                      /\ use_count'[p] = require_count'[p] + Cardinality(KeptPlaces(stack', prerequisites', p))
                           + Count(stack', Holding(p)) + One(p \in failed') + One(result' = p)
    BY DEF CountInv, Uses
  <2>1. IsFiniteSet(KeptPlaces(stack, prerequisites, p))
    BY DEF HeldInv, CountInv
  <2>2. /\ KeptPlaces(stack', prerequisites', p) = KeptPlaces(stack, prerequisites, p)
        /\ require_count'[p] = require_count[p]
        /\ One(result' = p) = One(result = p)
    BY <1>1, <1>14
  <2>3. One(p \in failed') = One(p \in failed)
    <3>1. p \in failed' <=> p \in failed
      BY <1>1, <1>2
    <3> QED
      BY <3>1 DEF One
  <2>4. /\ Count(stack, Holding(p)) = Count(stack', Holding(p)) + One(p = x)
        /\ Count(stack', Holding(p)) \in Nat
    BY <1>2, <1>9, <1>10
  <2>5. use_count[p] = use_count'[p] + One(p = x) /\ One(p = x) \in {0, 1}
    BY <1>1, <1>7, <1>4 DEF One
  <2>6. use_count'[p] \in Nat
    BY <1>7
  <2> QED
    BY <2>1, <2>2, <2>3, <2>4, <2>5, <2>6, UsesFacts
<1> QED
  BY <1>8, <1>13, <1>15, <1>16 DEF HeldInv

LEMMA InitHeld == Init => HeldInv
<1> SUFFICES ASSUME Init PROVE HeldInv
  OBVIOUS
<1>1. /\ use_count = [m \in AllModules |-> IF m = main_module THEN 1 ELSE 0]
      /\ require_count = use_count /\ prerequisites = [m \in AllModules |-> << >>]
      /\ initialized = {main_module} /\ failed = {} /\ stack = << >> /\ result = Nothing
  BY DEF Init
<1>2. main_module \in AllModules
  BY ModulesAssumption
<1>3. << >> \in Seq(Frames) /\ Range(<< >>) = {} /\ (\A S : Count(<< >>, S) = 0)
      /\ << >> \in Seq(AllModules)
  BY EmptyStack
<1>4. CountsType
  BY <1>1, <1>2, <1>3 DEF CountsType, Lists
<1>5. CallsType
  BY <1>1, <1>3 DEF CallsType
<1>6. IsNested(stack)
  BY <1>1 DEF IsNested
<1>7. CallsInv
  BY <1>1, <1>3, <1>6 DEF CallsInv, IsAwaited
<1>8. BusyInv
  BY <1>1, <1>2, <1>3 DEF BusyInv
<1>9. CountInv
  <2> SUFFICES ASSUME NEW m \in AllModules
               PROVE  /\ IsFiniteSet(KeptPlaces(stack, prerequisites, m))
                      /\ use_count[m] = Uses(m)
    BY DEF CountInv
  <2>1. \A u \in AllModules : DOMAIN prerequisites[u] = {}
    BY <1>1
  <2>2. KeptPlaces(stack, prerequisites, m) = {}
    <3>1. \A p \in AllModules \X Nat : p[1] \in AllModules
      OBVIOUS
    <3> QED
      BY <2>1, <3>1 DEF KeptPlaces
  <2>3. IsFiniteSet({}) /\ Cardinality({}) = 0
    BY FS_EmptySet
  <2>4. require_count[m] \in Nat /\ Count(stack, Holding(m)) = 0
        /\ One(m \in failed) = 0 /\ One(result = m) = 0
    BY <1>1, <1>3, <1>4, NotModules DEF One, CountsType
  <2> QED
    BY <2>2, <2>3, <2>4, <1>1 DEF Uses
<1> QED
  BY <1>4, <1>5, <1>7, <1>8, <1>9 DEF HeldInv

-----------------------------------------------------------------------------
(* What is loaded.                                                         *)

CatalogInv ==
  /\ library_paths \in Seq(Paths) /\ libraries \in Seq(Libraries)
  /\ modules \in [Libraries -> SUBSET AllModules]
  /\ modules_by_name \in [Names -> Seq(AllModules)]
  /\ \A l \in Libraries : \A m \in modules[l] : library(m) = l /\ l \in Range(libraries)
  /\ \A n \in Names : \A m \in Range(modules_by_name[n]) : m[2] = n /\ m \in modules[library(m)]

\* Calls lock libraries, and unlock each when they are done.
LockInv ==
  /\ locked_loaded \in [Libraries -> Nat]
  /\ \A l \in Libraries : locked_loaded[l] = Count(stack, Locking(l))

\* Modules in use, and those that release their prerequisites, are there.
IsThere(m) == m \in modules[library(m)]
ThereInv ==
  /\ \A m \in AllModules : use_count[m] > 0 => IsThere(m)
  /\ \A f \in Range(stack) : f.at = "releasing" => IsThere(f.m)

LoadedInv == CatalogInv /\ LockInv /\ ThereInv

\* A set of numbers has a lowest one.
LEMMA MinFacts ==
  ASSUME NEW I \in SUBSET Nat, I # {}
  PROVE  Min(I) \in I
<1> DEFINE R == OpToRel(<, Nat)
<1>1. IsWellFoundedOn(R, Nat)
  BY NatLessThanWellFounded
<1>2. \A x, y \in Nat : <<y, x>> \in R <=> y < x
  BY DEF OpToRel
<1> HIDE DEF R
<1>3. PICK i \in I : \A j \in I : <<j, i>> \notin R
  BY <1>1, WFMin
<1>4. \A j \in I : ~(j < i)
  BY <1>2, <1>3
<1>5. \A j \in I : i <= j
  BY <1>4
<1> QED
  BY <1>5 DEF Min

\* What a name opens is a library.
LEMMA OpenedFacts ==
  ASSUME CatalogInv, NEW n \in Names
  PROVE  Opened(n) \in Libraries \cup {NoLibrary}
<1> DEFINE paths == Searched
           I == {i \in 1 .. Len(paths) : <<paths[i], n>> \in Libraries \ {builtin}}
<1>1. paths \in Seq(Paths \cup {SystemPath}) /\ Len(paths) \in Nat
  <2>1. Reverse(library_paths) \in Seq(Paths)
    BY DEF CatalogInv, Reverse
  <2> QED
    BY <2>1 DEF Searched
<1>2. I \subseteq Nat
  BY <1>1
<1>3. SelectInSeq(paths, LAMBDA p : <<p, n>> \in Libraries \ {builtin})
      = IF I # {} THEN Min(I) ELSE 0
  BY Zenon DEF SelectInSeq
<1>4. \A i \in I : <<paths[i], n>> \in Libraries
  OBVIOUS
<1>5. I # {} => Min(I) \in I
  <2> HIDE DEF I
  <2> QED
    BY <1>2, MinFacts
<1> HIDE DEF I
<1>6. Opened(n) = LET first == IF I # {} THEN Min(I) ELSE 0
                  IN IF first = 0 THEN NoLibrary ELSE <<paths[first], n>>
  BY <1>3, Zenon DEF Opened
<1> QED
  BY <1>2, <1>4, <1>5, <1>6

LEMMA LoadKeeps ==
  ASSUME CatalogInv, NEW l \in Libraries, NEW as_file, LibraryLoad(l, as_file)
  PROVE  /\ CatalogInv'
         /\ \A m \in AllModules : IsThere(m) => IsThere(m)'
<1>1. library_paths' = library_paths
  BY DEF LibraryLoad
<1>2. CASE l \in Range(libraries)
  <2>1. UNCHANGED <<libraries, modules, modules_by_name>>
    BY <1>2 DEF LibraryLoad
  <2> QED
    BY <1>1, <2>1 DEF CatalogInv, IsThere
<1>3. CASE l \notin Range(libraries)
  <2> DEFINE R == Registered(l)
  <2>1. /\ libraries' = Append(libraries, l)
        /\ modules' = [modules EXCEPT ![l] = R]
        /\ modules_by_name' = [n \in Names |->
             IF <<l, n>> \in R THEN Append(modules_by_name[n], <<l, n>>) ELSE modules_by_name[n]]
    BY <1>3 DEF LibraryLoad, LibraryAdd
  <2>2. R \subseteq AllModules /\ \A m \in R : library(m) = l
    BY DEF Registered
  <2> HIDE DEF R
  <2>3. /\ libraries \in Seq(Libraries) /\ modules \in [Libraries -> SUBSET AllModules]
        /\ modules_by_name \in [Names -> Seq(AllModules)]
        /\ modules[l] = {}
    BY <1>3 DEF CatalogInv
  <2>4. libraries' \in Seq(Libraries) /\ Range(libraries') = Range(libraries) \cup {l}
    BY <2>1, <2>3, PushFacts
  <2>5. /\ modules' \in [Libraries -> SUBSET AllModules] /\ modules'[l] = R
        /\ \A k \in Libraries : k # l => modules'[k] = modules[k]
    BY <2>1, <2>2, <2>3
  <2>6. \A m \in AllModules : library(m) \in Libraries
    BY NotModules DEF library
  <2>7. \A m \in AllModules : IsThere(m) => IsThere(m)'
    BY <2>3, <2>5, <2>6 DEF IsThere
  <2>8. \A n \in Names : /\ modules_by_name'[n] \in Seq(AllModules)
                         /\ \A m \in Range(modules_by_name'[n]) :
                              m \in Range(modules_by_name[n]) \/ (m = <<l, n>> /\ m \in R)
    <3> TAKE n \in Names
    <3>1. CASE <<l, n>> \in R
      <4>1. /\ Append(modules_by_name[n], <<l, n>>) \in Seq(AllModules)
            /\ Range(Append(modules_by_name[n], <<l, n>>)) = Range(modules_by_name[n]) \cup {<<l, n>>}
        <5> DEFINE s == modules_by_name[n]
                   m == <<l, n>>
        <5>1. s \in Seq(AllModules) /\ m \in AllModules
          BY <3>1, <2>2, <2>3
        <5> HIDE DEF s, m
        <5>2. Append(s, m) \in Seq(AllModules) /\ Range(Append(s, m)) = Range(s) \cup {m}
          BY <5>1, PushFacts
        <5> QED
          BY <5>2 DEF s, m
      <4>2. modules_by_name'[n] = Append(modules_by_name[n], <<l, n>>)
        BY <3>1, <2>1
      <4> QED
        BY <4>1, <4>2, <3>1, Zenon
    <3>2. CASE <<l, n>> \notin R
      <4>1. modules_by_name'[n] = modules_by_name[n] /\ modules_by_name[n] \in Seq(AllModules)
        BY <3>2, <2>1, <2>3
      <4> QED
        BY <4>1, Zenon
    <3> QED
      BY <3>1, <3>2
  <2>9. modules_by_name' \in [Names -> Seq(AllModules)]
    <3>1. DOMAIN modules_by_name' = Names /\ modules_by_name' = [n \in Names |-> modules_by_name'[n]]
      BY <2>1
    <3> QED
      BY <3>1, <2>8
  <2>10. \A k \in Libraries : \A m \in modules'[k] : library(m) = k /\ k \in Range(libraries')
    <3> TAKE k \in Libraries
    <3>1. CASE k = l
      BY <3>1, <2>2, <2>4, <2>5
    <3>2. CASE k # l
      BY <3>2, <2>4, <2>5 DEF CatalogInv
    <3> QED
      BY <3>1, <3>2
  <2>11. \A n \in Names : \A m \in Range(modules_by_name'[n]) : m[2] = n /\ m \in modules'[library(m)]
    <3> TAKE n \in Names
    <3> TAKE m \in Range(modules_by_name'[n])
    <3>1. CASE m \in Range(modules_by_name[n])
      <4>1. m[2] = n /\ IsThere(m)
        BY <3>1 DEF CatalogInv, IsThere
      <4>2. m \in AllModules
        BY <3>1, <2>3 DEF Range
      <4> QED
        BY <4>1, <4>2, <2>7 DEF IsThere
    <3>2. CASE m = <<l, n>> /\ m \in R
      <4>1. m[2] = n /\ library(m) = l
        BY <3>2, <2>2
      <4> QED
        BY <4>1, <3>2, <2>5
    <3> QED
      BY <3>1, <3>2, <2>8
  <2> QED
    BY <1>1, <2>4, <2>5, <2>7, <2>9, <2>10, <2>11 DEF CatalogInv
<1> QED
  BY <1>2, <1>3

LEMMA RemoveKeeps ==
  ASSUME CatalogInv, NEW l \in Libraries, LibraryRemove(l)
  PROVE  /\ CatalogInv'
         /\ \A m \in AllModules : IsThere(m) /\ library(m) # l => IsThere(m)'
<1>1. /\ libraries' = Without(libraries, {l}) /\ modules' = [modules EXCEPT ![l] = {}]
      /\ modules_by_name' = [n \in Names |->
           Keep(modules_by_name[n], Range(modules_by_name[n]) \ modules[l])]
      /\ library_paths' = library_paths
  BY DEF LibraryRemove
<1>2. /\ libraries \in Seq(Libraries) /\ modules \in [Libraries -> SUBSET AllModules]
      /\ modules_by_name \in [Names -> Seq(AllModules)] /\ library_paths \in Seq(Paths)
  BY DEF CatalogInv
<1>3. libraries' \in Seq(Libraries) /\ Range(libraries') = Range(libraries) \ {l}
  <2>1. /\ Keep(libraries, Range(libraries) \ {l}) \in Seq(Libraries)
        /\ Range(Keep(libraries, Range(libraries) \ {l})) = Range(libraries) \cap (Range(libraries) \ {l})
    BY <1>2, KeepLemma
  <2> QED
    BY <2>1, <1>1 DEF Without
<1>4. /\ modules' \in [Libraries -> SUBSET AllModules] /\ modules'[l] = {}
      /\ \A k \in Libraries : k # l => modules'[k] = modules[k]
  BY <1>1, <1>2
<1>5. \A m \in AllModules : library(m) \in Libraries
  BY NotModules DEF library
<1>6. \A m \in AllModules : IsThere(m) /\ library(m) # l => IsThere(m)'
  BY <1>4, <1>5 DEF IsThere
<1>7. \A n \in Names : /\ modules_by_name'[n] \in Seq(AllModules)
                       /\ Range(modules_by_name'[n]) = Range(modules_by_name[n]) \ modules[l]
  <2> TAKE n \in Names
  <2> DEFINE s == modules_by_name[n]
             S == Range(s) \ modules[l]
  <2>1. s \in Seq(AllModules)
    BY <1>2
  <2>2. modules_by_name'[n] = Keep(s, S)
    BY <1>1
  <2> HIDE DEF s
  <2>3. Keep(s, S) \in Seq(AllModules) /\ Range(Keep(s, S)) = Range(s) \cap S
    BY <2>1, KeepLemma
  <2> QED
    BY <2>2, <2>3 DEF s
<1>8. modules_by_name' \in [Names -> Seq(AllModules)]
  <2>1. modules_by_name' = [n \in Names |-> modules_by_name'[n]]
    BY <1>1
  <2> QED
    BY <2>1, <1>7
<1>9. \A k \in Libraries : \A m \in modules'[k] : library(m) = k /\ k \in Range(libraries')
  BY <1>3, <1>4 DEF CatalogInv
<1>10. \A n \in Names : \A m \in Range(modules_by_name'[n]) : m[2] = n /\ m \in modules'[library(m)]
  <2> TAKE n \in Names
  <2> TAKE m \in Range(modules_by_name'[n])
  <2>1. m \in Range(modules_by_name[n]) /\ m \notin modules[l]
    BY <1>7
  <2>2. m[2] = n /\ IsThere(m) /\ m \in AllModules
    BY <2>1, <1>2 DEF CatalogInv, IsThere, Range
  <2>3. library(m) # l
    BY <2>1, <2>2 DEF IsThere
  <2> QED
    BY <2>2, <2>3, <1>6 DEF IsThere
<1> QED
  BY <1>1, <1>2, <1>3, <1>4, <1>6, <1>8, <1>9, <1>10 DEF CatalogInv

\* Of a library that is locked, and of one that is used, nothing goes.
LEMMA UnloadKeeps ==
  ASSUME CatalogInv, NEW l \in Libraries, NEW locks, LibraryUnload(l, locks)
  PROVE  /\ CatalogInv'
         /\ \A m \in AllModules :
              IsThere(m) /\ (library(m) = l => locks # 0 \/ use_count[m] # 0) => IsThere(m)'
<1>1. CASE Unloadable(l, locks)
  <2>1. LibraryRemove(l)
    BY <1>1 DEF LibraryUnload
  <2>2. \A m \in AllModules :
          IsThere(m) /\ (library(m) = l => locks # 0 \/ use_count[m] # 0) => library(m) # l
    BY <1>1 DEF Unloadable, IsThere
  <2> QED
    BY <2>1, <2>2, RemoveKeeps
<1>2. CASE ~Unloadable(l, locks)
  <2>1. UNCHANGED <<library_paths, libraries, modules, modules_by_name>>
    BY <1>2 DEF LibraryUnload, registered
  <2> QED
    BY <2>1 DEF CatalogInv, IsThere
<1> QED
  BY <1>1, <1>2

\* Which libraries a call locks.
LEMMA LockFacts ==
  ASSUME NEW f \in Frames
  PROVE  /\ f.at \in {"module_require", "module_release", "lttv_module_require"} =>
              \A l : f \notin Locking(l)
         /\ f.at \in {"loaded", "acquiring", "undoing"} => \A l : f \in Locking(l) <=> l = f.l
         /\ f.at = "releasing" => \A l : f \in Locking(l) <=> l = library(f.m)
BY DEF Locking

\* A step that loads and unlocks nothing.
LEMMA QuietLoaded ==
  ASSUME LoadedInv, UNCHANGED loading,
         \A l \in Libraries : Count(stack', Locking(l)) = Count(stack, Locking(l)),
         \A m \in AllModules : use_count'[m] > 0 => use_count[m] > 0 \/ IsThere(m),
         \A f \in Range(stack') : f.at = "releasing" =>
           \E h \in Range(stack) : h.at = "releasing" /\ h.m = f.m
  PROVE  LoadedInv'
<1>1. UNCHANGED <<library_paths, libraries, modules, modules_by_name, locked_loaded>>
      /\ \A m : IsThere(m)' <=> IsThere(m)
  BY DEF loading, registered, IsThere
<1>2. CatalogInv'
  BY <1>1 DEF LoadedInv, CatalogInv
<1>3. LockInv'
  BY <1>1 DEF LoadedInv, LockInv
<1>4. \A m \in AllModules : use_count'[m] > 0 => IsThere(m)'
  BY <1>1 DEF LoadedInv, ThereInv
<1>5. \A f \in Range(stack') : f.at = "releasing" => IsThere(f.m)'
  BY <1>1 DEF LoadedInv, ThereInv
<1> QED
  BY <1>2, <1>3, <1>4, <1>5 DEF LoadedInv, ThereInv

\* A step that ends with a library being unlocked.
LEMMA UnlockLoaded ==
  ASSUME HeldInv, LoadedInv, NEW l \in Libraries \cup {NoLibrary}, UnlockIfLoaded(l),
         NEW st \in Seq(Frames), stack' = st, Range(st) \subseteq Range(stack),
         \A k \in Libraries : Count(stack, Locking(k)) = Count(st, Locking(k)) + One(k = l),
         \A m \in AllModules : use_count'[m] > 0 => use_count[m] > 0
  PROVE  LoadedInv'
<1>1. /\ \A k : Count(st, Locking(k)) \in Nat
      /\ \A k : Count(st, Locking(k)) = 0 <=> Range(st) \cap Locking(k) = {}
  BY CountNat
<1>2. use_count \in [AllModules -> Nat]
  BY DEF HeldInv, CountsType
<1>3. /\ \A m \in AllModules : use_count[m] > 0 => IsThere(m)
      /\ \A f \in Range(st) : f.at = "releasing" => IsThere(f.m)
  BY DEF LoadedInv, ThereInv
<1>4. CASE l = NoLibrary
  <2>1. \A k \in Libraries : Count(stack', Locking(k)) = Count(stack, Locking(k))
    <3> TAKE k \in Libraries
    <3>1. k # l
      BY <1>4, ModulesAssumption
    <3> QED
      BY <3>1, <1>1 DEF One
  <2>2. UNCHANGED loading
    BY <1>4 DEF UnlockIfLoaded
  <2>3. \A f \in Range(stack') : f.at = "releasing" =>
          \E h \in Range(stack) : h.at = "releasing" /\ h.m = f.m
    OBVIOUS
  <2> QED
    BY <2>1, <2>2, <2>3, QuietLoaded
<1>5. CASE l # NoLibrary
  <2>1. /\ l \in Libraries
        /\ locked_loaded' = [locked_loaded EXCEPT ![l] = @ - 1]
        /\ LibraryUnload(l, locked_loaded[l] - 1)
    BY <1>5 DEF UnlockIfLoaded, Unlock
  <2>2. /\ locked_loaded \in [Libraries -> Nat]
        /\ \A k \in Libraries : locked_loaded[k] = Count(st, Locking(k)) + One(k = l)
    BY DEF LoadedInv, LockInv
  <2>3. locked_loaded[l] - 1 = Count(st, Locking(l))
    BY <1>1, <2>1, <2>2 DEF One
  <2>4. LockInv'
    <3>1. \A k \in Libraries : locked_loaded'[k] = Count(st, Locking(k))
      BY <1>1, <2>1, <2>2 DEF One
    <3>2. locked_loaded' \in [Libraries -> Nat]
      <4>1. locked_loaded' = [k \in Libraries |-> locked_loaded'[k]]
        BY <2>1, <2>2
      <4> QED
        BY <4>1, <3>1, <1>1
    <3> QED
      BY <3>1, <3>2 DEF LockInv
  <2>5. /\ CatalogInv'
        /\ \A m \in AllModules :
             IsThere(m) /\ (library(m) = l => locked_loaded[l] - 1 # 0 \/ use_count[m] # 0) => IsThere(m)'
    BY <2>1, UnloadKeeps DEF LoadedInv
  <2>6. \A m \in AllModules : use_count'[m] > 0 => IsThere(m)'
    BY <2>5, <1>2, <1>3
  <2>7. ASSUME NEW f \in Range(st), f.at = "releasing"
        PROVE  IsThere(f.m)'
    <3>1. f \in Frames
      BY DEF Range
    <3>2. f.m \in AllModules /\ \A k : f \in Locking(k) <=> k = library(f.m)
      BY <3>1, <2>7, FrameAt, LockFacts
    <3>3. library(f.m) = l => Count(st, Locking(l)) # 0
      BY <3>2, <1>1
    <3> QED
      BY <3>2, <3>3, <2>3, <2>5, <2>7, <1>3
  <2> QED
    BY <2>4, <2>5, <2>6, <2>7 DEF LoadedInv, ThereInv
<1> QED
  BY <1>4, <1>5

\* The module that is found under a name.
LEMMA NamedFacts ==
  ASSUME CatalogInv, NEW n \in Names, modules_by_name[n] # << >>
  PROVE  Named(n) \in AllModules /\ IsThere(Named(n)) /\ Named(n)[2] = n
<1>1. modules_by_name[n] \in Seq(AllModules)
  BY DEF CatalogInv
<1>2. Named(n) \in Range(modules_by_name[n]) /\ Named(n) \in AllModules
  BY <1>1 DEF Named, Range
<1> QED
  BY <1>2 DEF CatalogInv, IsThere

\* What Use does, in either case.
LEMMA UseInv ==
  ASSUME HeldInv, LoadedInv, stack # << >>, Frame.at \in {"module_require", "loaded"},
         NEW m \in AllModules, IsThere(m), NEW l \in Libraries \cup {NoLibrary}, Use(m, l),
         \A k \in Libraries : Frame \in Locking(k) <=> k = l
  PROVE  HeldInv' /\ LoadedInv'
<1>1. /\ use_count' = [use_count EXCEPT ![m] = @ + 1]
      /\ IF use_count[m] = 0
         THEN stack' = Append(Under, acquiring(m, l)) /\ result' = result /\ UNCHANGED loading
         ELSE stack' = Under /\ result' = m /\ UnlockIfLoaded(l)
      /\ UNCHANGED <<require_count, prerequisites, initialized, failed>>
  BY DEF Use, Goto, Return
<1>2. HeldInv'
  BY <1>1, UseHeld
<1> DEFINE u == Under
           f == Frame
           g == acquiring(m, l)
<1>3. /\ u \in Seq(Frames) /\ Range(stack) = Range(u) \cup {f}
      /\ \A S : Count(stack, S) = Count(u, S) + One(f \in S) /\ Count(u, S) \in Nat
  BY TopFacts
<1>4. /\ g \in Frames /\ g.at = "acquiring" /\ \A k : g \in Locking(k) <=> k = l
  BY FrameFacts DEF acquiring
<1>5. /\ use_count \in [AllModules -> Nat]
      /\ \A p \in AllModules : use_count'[p] > 0 => use_count[p] > 0 \/ p = m
  BY <1>1 DEF HeldInv, CountsType
<1> HIDE DEF u, f, g
<1>6. CASE use_count[m] = 0
  <2>1. /\ stack' = Append(u, g) /\ UNCHANGED loading
    BY <1>1, <1>6 DEF u, g
  <2>2. /\ Range(stack') = Range(u) \cup {g}
        /\ \A S : Count(stack', S) = Count(u, S) + One(g \in S)
    BY <2>1, <1>3, <1>4, PushFacts, PushCount
  <2>3. \A k \in Libraries : Count(stack', Locking(k)) = Count(stack, Locking(k))
    <3> TAKE k \in Libraries
    <3>1. f \in Locking(k) <=> g \in Locking(k)
      BY <1>4 DEF f
    <3> QED
      BY <3>1, <2>2, <1>3 DEF One
  <2>4. \A p \in AllModules : use_count'[p] > 0 => use_count[p] > 0 \/ IsThere(p)
    BY <1>5
  <2>5. \A h \in Range(stack') : h.at = "releasing" =>
          \E e \in Range(stack) : e.at = "releasing" /\ e.m = h.m
    BY <2>2, <1>3, <1>4
  <2> QED
    BY <2>1, <2>3, <2>4, <2>5, <1>2, QuietLoaded
<1>7. CASE use_count[m] # 0
  <2>1. stack' = u /\ UnlockIfLoaded(l)
    BY <1>1, <1>7 DEF u
  <2>2. \A k \in Libraries : Count(stack, Locking(k)) = Count(u, Locking(k)) + One(k = l)
    <3> TAKE k \in Libraries
    <3>1. f \in Locking(k) <=> k = l
      BY DEF f
    <3> QED
      BY <3>1, <1>3 DEF One
  <2>3. \A p \in AllModules : use_count'[p] > 0 => use_count[p] > 0
    BY <1>5, <1>7
  <2>4. Range(u) \subseteq Range(stack)
    BY <1>3
  <2> QED
    BY <2>1, <2>2, <2>3, <2>4, <1>2, <1>3, UnlockLoaded
<1> QED
  BY <1>6, <1>7

LEMMA FindModuleInv ==
  ASSUME HeldInv, LoadedInv, FindModule
  PROVE  HeldInv' /\ LoadedInv'
<1>1. /\ stack # << >> /\ Frame.at = "module_require" /\ modules_by_name[Frame.name] # << >>
      /\ Use(Named(Frame.name), NoLibrary)
  BY DEF FindModule, At
<1>2. Frame \in Frames
  BY <1>1, TopFacts
<1>3. Frame.name \in Names /\ \A l : Frame \notin Locking(l)
  BY <1>1, <1>2, FrameAt, LockFacts
<1>4. Named(Frame.name) \in AllModules /\ IsThere(Named(Frame.name))
  BY <1>1, <1>3, NamedFacts DEF LoadedInv
<1>5. \A k \in Libraries : Frame \in Locking(k) <=> k = NoLibrary
  BY <1>3, ModulesAssumption
<1> QED
  BY <1>1, <1>4, <1>5, UseInv

LEMMA FindInLibraryInv ==
  ASSUME HeldInv, LoadedInv, FindInLibrary
  PROVE  HeldInv' /\ LoadedInv'
<1>1. /\ stack # << >> /\ Frame.at = "loaded" /\ modules_by_name[Frame.name] # << >>
      /\ Use(Named(Frame.name), Frame.l)
  BY DEF FindInLibrary, At
<1>2. Frame \in Frames
  BY <1>1, TopFacts
<1>3. Frame.name \in Names /\ Frame.l \in Libraries /\ \A l : Frame \in Locking(l) <=> l = Frame.l
  BY <1>1, <1>2, FrameAt, LockFacts
<1>4. Named(Frame.name) \in AllModules /\ IsThere(Named(Frame.name))
  BY <1>1, <1>3, NamedFacts DEF LoadedInv
<1> QED
  BY <1>1, <1>3, <1>4, UseInv

\* A call returns, and unlocks what it has locked.
LEMMA PopLoaded ==
  ASSUME HeldInv, LoadedInv, stack # << >>, stack' = Under,
         NEW l \in Libraries \cup {NoLibrary}, UnlockIfLoaded(l),
         \A k \in Libraries : Frame \in Locking(k) <=> k = l,
         \A m \in AllModules : use_count'[m] > 0 => use_count[m] > 0
  PROVE  LoadedInv'
<1>1. /\ Under \in Seq(Frames) /\ Range(Under) \subseteq Range(stack)
      /\ \A S : Count(stack, S) = Count(Under, S) + One(Frame \in S) /\ Count(Under, S) \in Nat
  BY TopFacts
<1>2. \A k \in Libraries : Count(stack, Locking(k)) = Count(Under, Locking(k)) + One(k = l)
  BY <1>1 DEF One
<1> QED
  BY <1>1, <1>2, UnlockLoaded

\* A call goes on as g, which may call r.
LEMMA CallLoaded ==
  ASSUME HeldInv, LoadedInv, stack # << >>, UNCHANGED <<loading, use_count>>,
         NEW g \in Frames, \A k : g \in Locking(k) <=> Frame \in Locking(k),
         g.at = "releasing" => Frame.at = "releasing" /\ Frame.m = g.m,
         NEW r \in Frames, r.at \in {"module_require", "module_release"},
         NEW v, Pushed(v, Under, g), stack' = v \/ Pushed(stack', v, r)
  PROVE  LoadedInv'
<1> DEFINE u == Under
           f == Frame
<1>1. /\ u \in Seq(Frames) /\ Range(stack) = Range(u) \cup {f}
      /\ \A S : Count(stack, S) = Count(u, S) + One(f \in S) /\ Count(u, S) \in Nat
  BY TopFacts
<1>2. /\ \A k : g \in Locking(k) <=> f \in Locking(k)
      /\ g.at = "releasing" => f.at = "releasing" /\ f.m = g.m
      /\ Pushed(v, u, g)
  OBVIOUS
<1> HIDE DEF u, f
<1>3. /\ v \in Seq(Frames) /\ Range(v) = Range(u) \cup {g}
      /\ \A S : Count(v, S) = Count(u, S) + One(g \in S)
  <2>1. /\ Append(u, g) \in Seq(Frames) /\ Range(Append(u, g)) = Range(u) \cup {g}
        /\ \A S : Count(Append(u, g), S) = Count(u, S) + One(g \in S)
    BY <1>1, PushFacts, PushCount
  <2> QED
    BY <2>1, <1>2, Zenon DEF Pushed
<1>4. \A k : r \notin Locking(k)
  BY LockFacts
<1>5. /\ Range(stack') \subseteq Range(u) \cup {g, r}
      /\ \A k : Count(stack', Locking(k)) = Count(v, Locking(k))
  <2>1. CASE stack' = v
    BY <2>1, <1>3, Zenon
  <2>2. CASE Pushed(stack', v, r)
    <3>1. /\ Range(Append(v, r)) = Range(v) \cup {r}
          /\ \A S : Count(Append(v, r), S) = Count(v, S) + One(r \in S)
      BY <1>3, PushFacts, PushCount
    <3>2. \A k : Count(Append(v, r), Locking(k)) = Count(v, Locking(k))
      <4> TAKE k
      <4>1. One(r \in Locking(k)) = 0 /\ Count(v, Locking(k)) \in Nat
        BY <1>3, <1>4, CountNat DEF One
      <4>2. Count(Append(v, r), Locking(k)) = Count(v, Locking(k)) + One(r \in Locking(k))
        BY <3>1
      <4> QED
        BY <4>1, <4>2
    <3>3. stack' = Append(v, r)
      BY <2>2 DEF Pushed
    <3>4. Range(stack') = Range(v) \cup {r} /\ \A k : Count(stack', Locking(k)) = Count(v, Locking(k))
      BY <3>1, <3>2, <3>3, Zenon
    <3> QED
      BY <3>4, <1>3
  <2> QED
    BY <2>1, <2>2
<1>6. \A l \in Libraries : Count(stack', Locking(l)) = Count(stack, Locking(l))
  BY <1>1, <1>2, <1>3, <1>5 DEF One
<1>7. \A h \in Range(stack') : h.at = "releasing" =>
        \E e \in Range(stack) : e.at = "releasing" /\ e.m = h.m
  BY <1>1, <1>2, <1>5
<1> QED
  BY <1>6, <1>7, QuietLoaded

LEMMA FindNothingInv ==
  ASSUME HeldInv, LoadedInv, FindNothing
  PROVE  HeldInv' /\ LoadedInv'
<1>1. /\ stack # << >> /\ Frame.at = "module_require" /\ Return(NULL) /\ UNCHANGED <<loading, counts>>
  BY DEF FindNothing, At
<1>2. Frame \in Frames /\ stack' = Under /\ UNCHANGED use_count
  BY <1>1, TopFacts DEF Return, counts
<1>3. HeldInv'
  BY <1>1, MissHeld
<1>4. \A k \in Libraries : Frame \in Locking(k) <=> k = NoLibrary
  BY <1>1, <1>2, LockFacts, ModulesAssumption
<1>5. UnlockIfLoaded(NoLibrary)
  BY <1>1 DEF UnlockIfLoaded
<1> QED
  BY <1>1, <1>2, <1>3, <1>4, <1>5, PopLoaded

LEMMA NotInLibraryInv ==
  ASSUME HeldInv, LoadedInv, NotInLibrary
  PROVE  HeldInv' /\ LoadedInv'
<1>1. /\ stack # << >> /\ Frame.at = "loaded" /\ Return(NULL) /\ UNCHANGED counts
      /\ Unlock(Frame.l)
  BY DEF NotInLibrary, At, GiveUpLibrary
<1>2. Frame \in Frames /\ stack' = Under /\ UNCHANGED use_count
  BY <1>1, TopFacts DEF Return, counts
<1>3. HeldInv'
  BY <1>1, MissHeld
<1>4. Frame.l \in Libraries /\ \A k \in Libraries : Frame \in Locking(k) <=> k = Frame.l
  BY <1>1, <1>2, FrameAt, LockFacts
<1>5. UnlockIfLoaded(Frame.l)
  BY <1>1, <1>4, ModulesAssumption DEF UnlockIfLoaded
<1> QED
  BY <1>1, <1>2, <1>3, <1>4, <1>5, PopLoaded

LEMMA EndRequireInv ==
  ASSUME HeldInv, LoadedInv, EndRequire
  PROVE  HeldInv' /\ LoadedInv'
<1>1. /\ stack # << >> /\ Frame.at = "lttv_module_require" /\ stack' = Under
      /\ UNCHANGED <<loading, use_count>>
  BY DEF EndRequire, At
<1>2. Frame \in Frames
  BY <1>1, TopFacts
<1>3. \A k \in Libraries : Frame \in Locking(k) <=> k = NoLibrary
  BY <1>1, <1>2, LockFacts, ModulesAssumption
<1>4. UnlockIfLoaded(NoLibrary)
  BY <1>1 DEF UnlockIfLoaded
<1> QED
  BY <1>1, <1>3, <1>4, PopLoaded, EndRequireHeld

LEMMA InitializeInv ==
  ASSUME HeldInv, LoadedInv, Initialize
  PROVE  HeldInv' /\ LoadedInv'
<1>1. /\ stack # << >> /\ Frame.at = "acquiring" /\ stack' = Under
      /\ UnlockIfLoaded(Frame.l) /\ UNCHANGED use_count
  BY DEF Initialize, At, Return
<1>2. Frame \in Frames
  BY <1>1, TopFacts
<1>3. /\ Frame.l \in Libraries \cup {NoLibrary}
      /\ \A k \in Libraries : Frame \in Locking(k) <=> k = Frame.l
  BY <1>1, <1>2, FrameAt, LockFacts
<1> QED
  BY <1>1, <1>3, PopLoaded, InitializeHeld

LEMMA FailInv ==
  ASSUME HeldInv, LoadedInv, Fail
  PROVE  HeldInv' /\ LoadedInv'
<1>1. /\ stack # << >> /\ Frame.at = "undoing" /\ stack' = Under
      /\ UnlockIfLoaded(Frame.l) /\ UNCHANGED use_count
  BY DEF Fail, At, Return
<1>2. Frame \in Frames
  BY <1>1, TopFacts
<1>3. /\ Frame.l \in Libraries \cup {NoLibrary}
      /\ \A k \in Libraries : Frame \in Locking(k) <=> k = Frame.l
  BY <1>1, <1>2, FrameAt, LockFacts
<1> QED
  BY <1>1, <1>3, PopLoaded, FailHeld

LEMMA EndReleaseInv ==
  ASSUME HeldInv, LoadedInv, EndRelease
  PROVE  HeldInv' /\ LoadedInv'
<1>1. /\ stack # << >> /\ Frame.at = "releasing" /\ stack' = Under
      /\ Unlock(library(Frame.m)) /\ UNCHANGED use_count
  BY DEF EndRelease, At
<1>2. Frame \in Frames
  BY <1>1, TopFacts
<1>3. /\ Frame.m \in AllModules
      /\ \A k \in Libraries : Frame \in Locking(k) <=> k = library(Frame.m)
  BY <1>1, <1>2, FrameAt, LockFacts
<1>4. library(Frame.m) \in Libraries
  BY <1>3, NotModules DEF library
<1>5. UnlockIfLoaded(library(Frame.m))
  BY <1>1, <1>4, ModulesAssumption DEF UnlockIfLoaded
<1> QED
  BY <1>1, <1>3, <1>4, <1>5, PopLoaded, EndReleaseHeld

LEMMA GetPrerequisiteInv ==
  ASSUME HeldInv, LoadedInv, GetPrerequisite
  PROVE  HeldInv' /\ LoadedInv'
<1>1. UNCHANGED <<loading, use_count, stack>>
  BY DEF GetPrerequisite
<1>2. \A l \in Libraries : Count(stack', Locking(l)) = Count(stack, Locking(l))
  BY <1>1
<1> QED
  BY <1>1, <1>2, QuietLoaded, GetHeld

LEMMA RequirePrerequisiteInv ==
  ASSUME HeldInv, LoadedInv, RequirePrerequisite
  PROVE  HeldInv' /\ LoadedInv'
<1> DEFINE f == Frame
           n == prerequisites_names[f.m][Len(prerequisites[f.m]) + 1]
           r == require(n)
<1>1. /\ stack # << >> /\ f.at = "acquiring" /\ result = Nothing
      /\ Len(prerequisites[f.m]) < Len(prerequisites_names[f.m])
      /\ stack' = Append(Append(Under, f), r) /\ UNCHANGED <<loading, counts, result>>
  BY DEF RequirePrerequisite, At, Call
<1>2. f \in Frames /\ stack = Append(Under, f) /\ stack \in Seq(Frames)
  BY <1>1, TopFacts DEF HeldInv, CallsType
<1>3. f.m \in AllModules
  BY <1>1, <1>2, FrameAt
<1>4. n \in Names
  <2>1. prerequisites_names[f.m] \in Seq(Names) /\ prerequisites[f.m] \in Seq(AllModules)
    BY <1>3, ModulesAssumption DEF HeldInv, CountsType, Lists
  <2> QED
    BY <2>1, <1>1
<1>5. r \in Frames /\ r.at = "module_require"
  BY <1>4, FrameFacts DEF require
<1> HIDE DEF f, n
<1>6. stack' = Append(stack, r)
  BY <1>1, <1>2, Zenon
<1>7. HeldInv'
  BY <1>1, <1>2, <1>4, <1>6, AskHeld DEF f
<1>8. UNCHANGED <<loading, use_count>> /\ Pushed(stack, Under, f) /\ Pushed(stack', stack, r)
  BY <1>1, <1>2, <1>6 DEF counts, Pushed
<1> HIDE DEF r
<1>9. LoadedInv'
  BY <1>1, <1>2, <1>5, <1>8, CallLoaded DEF f
<1> QED
  BY <1>7, <1>9

LEMMA MissPrerequisiteInv ==
  ASSUME HeldInv, LoadedInv, MissPrerequisite
  PROVE  HeldInv' /\ LoadedInv'
<1> DEFINE f == Frame
           g == undoing(f.m, f.l, 1)
           r == release(f.m)
<1>1. /\ stack # << >> /\ f.at = "acquiring" /\ stack' = Append(Under, g)
      /\ UNCHANGED <<loading, counts>>
  BY DEF MissPrerequisite, At, Goto, GiveUp
<1>2. f \in Frames
  BY <1>1, TopFacts
<1>3. f.m \in AllModules /\ f.l \in Libraries \cup {NoLibrary} /\ 1 \in Nat \ {0}
  BY <1>1, <1>2, FrameAt
<1>4. g \in Frames /\ g.at = "undoing" /\ \A k : g \in Locking(k) <=> k = f.l
  BY <1>3, FrameFacts DEF undoing
<1>5. r \in Frames /\ r.at = "module_release"
  BY <1>3, FrameFacts DEF release
<1>6. \A k : f \in Locking(k) <=> k = f.l
  BY <1>1, <1>2, LockFacts
<1>7. UNCHANGED <<loading, use_count>> /\ Pushed(stack', Under, g)
  BY <1>1 DEF counts, Pushed
<1> HIDE DEF g, r
<1>8. LoadedInv'
  BY <1>1, <1>4, <1>5, <1>6, <1>7, CallLoaded
<1> QED
  BY <1>8, MissPrerequisiteHeld

\* A call that gives back goes on to the next prerequisite.
LEMMA NextFrame ==
  ASSUME NEW f \in Frames, f.at \in {"undoing", "releasing"}, NEW g, g = [f EXCEPT !.i = f.i + 1]
  PROVE  /\ g \in Frames /\ g.at = f.at /\ g.m = f.m
         /\ \A k : g \in Locking(k) <=> f \in Locking(k)
<1>1. ASSUME f.at = "undoing" PROVE g \in Frames /\ g.at = f.at /\ g.m = f.m /\ g.l = f.l
  <2> DEFINE m == f.m
             l == f.l
             j == f.i + 1
  <2>1. m \in AllModules /\ l \in Libraries \cup {NoLibrary} /\ j \in Nat \ {0}
        /\ f = undoing(m, l, f.i)
    BY <1>1, FrameAt
  <2>2. g = undoing(m, l, j)
    BY <2>1 DEF undoing
  <2> HIDE DEF m, l, j
  <2>3. undoing(m, l, j) \in Frames
    BY <2>1, FrameFacts
  <2>4. /\ undoing(m, l, j).at = "undoing" /\ undoing(m, l, j).m = m /\ undoing(m, l, j).l = l
    BY DEF undoing
  <2> QED
    BY <2>2, <2>3, <2>4, <1>1 DEF m, l
<1>2. ASSUME f.at = "releasing" PROVE g \in Frames /\ g.at = f.at /\ g.m = f.m
  <2> DEFINE m == f.m
             j == f.i + 1
  <2>1. m \in AllModules /\ j \in Nat \ {0} /\ f = releasing(m, f.i)
    BY <1>2, FrameAt
  <2>2. g = releasing(m, j)
    BY <2>1 DEF releasing
  <2> HIDE DEF m, j
  <2>3. releasing(m, j) \in Frames
    BY <2>1, FrameFacts
  <2>4. releasing(m, j).at = "releasing" /\ releasing(m, j).m = m
    BY DEF releasing
  <2> QED
    BY <2>2, <2>3, <2>4, <1>2 DEF m
<1>3. \A k : f \in Locking(k) <=>
        IF f.at = "undoing" THEN k = f.l ELSE k = library(f.m)
  BY LockFacts
<1>4. ASSUME g \in Frames, g.at = f.at
      PROVE  \A k : g \in Locking(k) <=> IF g.at = "undoing" THEN k = g.l ELSE k = library(g.m)
  BY <1>4, LockFacts
<1> QED
  BY <1>1, <1>2, <1>3, <1>4

\* A call gives a prerequisite back, which is released.
LEMMA GiveLoaded ==
  ASSUME HeldInv, LoadedInv, stack # << >>, UNCHANGED <<loading, counts>>,
         Frame.at \in {"undoing", "releasing"}, NEW g, g = [Frame EXCEPT !.i = Frame.i + 1],
         Frame.i <= Len(prerequisites[Frame.m]),
         Pushed(stack', Append(Under, g), release(prerequisites[Frame.m][Frame.i]))
  PROVE  LoadedInv'
<1> DEFINE f == Frame
           q == prerequisites[f.m][f.i]
           r == release(q)
           v == Append(Under, g)
<1>1. f \in Frames /\ f.at \in {"undoing", "releasing"} /\ f.i <= Len(prerequisites[f.m])
  BY TopFacts
<1>2. f.m \in AllModules /\ f.i \in Nat \ {0}
  BY <1>1, FrameAt
<1>3. q \in AllModules
  <2>1. prerequisites[f.m] \in Seq(AllModules)
    BY <1>2 DEF HeldInv, CountsType, Lists
  <2> QED
    BY <2>1, <1>1, <1>2
<1>4. r \in Frames /\ r.at = "module_release"
  BY <1>3, FrameFacts DEF release
<1>5. Pushed(v, Under, g) /\ Pushed(stack', v, r) /\ UNCHANGED <<loading, use_count>>
      /\ g = [f EXCEPT !.i = f.i + 1]
  BY DEF Pushed, counts
<1> HIDE DEF f, q, r, v
<1>6. /\ g \in Frames /\ g.at = f.at /\ g.m = f.m /\ \A k : g \in Locking(k) <=> f \in Locking(k)
  BY <1>1, <1>5, NextFrame
<1>7. \A k : g \in Locking(k) <=> Frame \in Locking(k)
  BY <1>6 DEF f
<1>8. g.at = "releasing" => Frame.at = "releasing" /\ Frame.m = g.m
  BY <1>6 DEF f
<1> QED
  BY <1>4, <1>5, <1>6, <1>7, <1>8, CallLoaded

LEMMA UndoInv ==
  ASSUME HeldInv, LoadedInv, UndoPrerequisite
  PROVE  HeldInv' /\ LoadedInv'
<1> DEFINE g == [Frame EXCEPT !.i = Frame.i + 1]
<1>1. /\ stack # << >> /\ Frame.at = "undoing" /\ Frame.i <= Len(prerequisites[Frame.m])
      /\ stack' = Append(Append(Under, g), release(prerequisites[Frame.m][Frame.i]))
      /\ UNCHANGED <<loading, counts>>
  BY DEF UndoPrerequisite, At, Call, ToUndo
<1>2. Pushed(stack', Append(Under, g), release(prerequisites[Frame.m][Frame.i]))
  BY <1>1 DEF Pushed
<1>3. LoadedInv'
  BY <1>1, <1>2, GiveLoaded
<1> QED
  BY <1>3, UndoHeld

LEMMA ReleaseNextInv ==
  ASSUME HeldInv, LoadedInv, ReleasePrerequisite
  PROVE  HeldInv' /\ LoadedInv'
<1> DEFINE g == [Frame EXCEPT !.i = Frame.i + 1]
<1>1. /\ stack # << >> /\ Frame.at = "releasing" /\ Frame.i <= Len(prerequisites[Frame.m])
      /\ stack' = Append(Append(Under, g), release(prerequisites[Frame.m][Frame.i]))
      /\ UNCHANGED <<loading, counts>>
  BY DEF ReleasePrerequisite, At, Call, NextOne
<1>2. Pushed(stack', Append(Under, g), release(prerequisites[Frame.m][Frame.i]))
  BY <1>1 DEF Pushed
<1>3. LoadedInv'
  BY <1>1, <1>2, GiveLoaded
<1> QED
  BY <1>3, ReleaseNextHeld

LEMMA ModuleReleaseInv ==
  ASSUME HeldInv, LoadedInv, ModuleRelease
  PROVE  HeldInv' /\ LoadedInv'
<1> DEFINE u == Under
           f == Frame
           x == Frame.m
           g == releasing(Frame.m, 1)
<1>1. /\ stack # << >> /\ f.at = "module_release"
      /\ use_count' = [use_count EXCEPT ![x] = @ - 1]
      /\ UNCHANGED <<registered, load_count>>
  BY DEF ModuleRelease, At
<1>2. /\ f \in Frames /\ x \in AllModules /\ use_count[x] > 0
      /\ u \in Seq(Frames) /\ Range(stack) = Range(u) \cup {f}
      /\ \A S : Count(stack, S) = Count(u, S) + One(f \in S) /\ Count(u, S) \in Nat
  BY <1>1, TopFacts, ReleaseFacts
<1>3. \A l : f \notin Locking(l)
  BY <1>1, <1>2, LockFacts
<1>4. /\ use_count \in [AllModules -> Nat]
      /\ \A m \in AllModules : use_count'[m] > 0 => use_count[m] > 0
  BY <1>1, <1>2 DEF HeldInv, CountsType
<1>5. CASE ~LastUse(x)
  <2>1. stack' = u /\ UNCHANGED loading
    BY <1>1, <1>5 DEF ModuleRelease, loading
  <2>2. \A k \in Libraries : f \in Locking(k) <=> k = NoLibrary
    BY <1>3, ModulesAssumption
  <2>3. UnlockIfLoaded(NoLibrary)
    BY <2>1 DEF UnlockIfLoaded
  <2> QED
    BY <1>1, <1>4, <1>5, <2>1, <2>2, <2>3, PopLoaded, OneUseHeld
<1>6. CASE LastUse(x)
  <2>1. /\ stack' = Append(u, g)
        /\ locked_loaded' = [locked_loaded EXCEPT ![library(x)] = @ + 1]
    BY <1>6 DEF ModuleRelease, Goto
  <2>2. 1 \in Nat \ {0}
    OBVIOUS
  <2>3. /\ g \in Frames /\ g.at = "releasing" /\ g.m = x
        /\ \A l : g \in Locking(l) <=> l = library(x)
    BY <1>2, <2>2, FrameFacts DEF releasing
  <2>4. library(x) \in Libraries
    BY <1>2, NotModules DEF library
  <2> HIDE DEF u, f, g, x
  <2>5. /\ Range(stack') = Range(u) \cup {g}
        /\ \A S : Count(stack', S) = Count(u, S) + One(g \in S)
    <3>1. /\ Range(Append(u, g)) = Range(u) \cup {g}
          /\ \A S : Count(Append(u, g), S) = Count(u, S) + One(g \in S)
      BY <1>2, <2>3, PushFacts, PushCount
    <3> QED
      BY <3>1, <2>1, Zenon
  <2>6. UNCHANGED <<library_paths, libraries, modules, modules_by_name>>
        /\ \A m : IsThere(m)' <=> IsThere(m)
    BY <1>1 DEF registered, IsThere
  <2>7. CatalogInv'
    BY <2>6 DEF LoadedInv, CatalogInv
  <2>8. LockInv'
    <3>1. \A l \in Libraries : locked_loaded'[l] = Count(stack', Locking(l))
      <4> TAKE l \in Libraries
      <4>1. locked_loaded \in [Libraries -> Nat] /\ locked_loaded[l] = Count(stack, Locking(l))
        BY DEF LoadedInv, LockInv
      <4>2. Count(stack, Locking(l)) = Count(u, Locking(l)) /\ Count(u, Locking(l)) \in Nat
        BY <1>2, <1>3 DEF One
      <4>3. Count(stack', Locking(l)) = Count(u, Locking(l)) + One(l = library(x))
        BY <2>3, <2>5 DEF One
      <4>4. locked_loaded'[l] = locked_loaded[l] + One(l = library(x))
        BY <4>1, <2>1 DEF One
      <4> QED
        BY <4>1, <4>2, <4>3, <4>4
    <3>2. locked_loaded' \in [Libraries -> Nat]
      BY <2>1, <2>4 DEF LoadedInv, LockInv
    <3> QED
      BY <3>1, <3>2 DEF LockInv
  <2>9. ThereInv'
    <3>1. \A m \in AllModules : use_count'[m] > 0 => IsThere(m)'
      BY <1>4, <2>6 DEF LoadedInv, ThereInv
    <3>2. IsThere(x)
      BY <1>2 DEF LoadedInv, ThereInv
    <3>3. \A h \in Range(stack') : h.at = "releasing" => IsThere(h.m)'
      BY <1>2, <2>3, <2>5, <2>6, <3>2 DEF LoadedInv, ThereInv
    <3> QED
      BY <3>1, <3>3 DEF ThereInv
  <2> QED
    BY <1>6, <2>7, <2>8, <2>9, LastUseHeld DEF LoadedInv, x
<1> QED
  BY <1>5, <1>6

LEMMA FindLibraryInv ==
  ASSUME HeldInv, LoadedInv, FindLibrary
  PROVE  HeldInv' /\ LoadedInv'
<1> DEFINE u == Under
           f == Frame
           l == Opened(Frame.name)
           g == loaded(Frame.name, l)
<1>1. /\ stack # << >> /\ f.at = "module_require" /\ l # NoLibrary /\ LibraryLoad(l, FALSE)
      /\ locked_loaded' = [locked_loaded EXCEPT ![l] = @ + 1]
      /\ stack' = Append(u, g) /\ UNCHANGED use_count
  BY DEF FindLibrary, At, Goto, counts
<1>2. /\ f \in Frames /\ u \in Seq(Frames) /\ Range(stack) = Range(u) \cup {f}
      /\ \A S : Count(stack, S) = Count(u, S) + One(f \in S) /\ Count(u, S) \in Nat
  BY <1>1, TopFacts
<1>3. f.name \in Names /\ \A k : f \notin Locking(k)
  BY <1>1, <1>2, FrameAt, LockFacts
<1>4. l \in Libraries
  BY <1>1, <1>3, OpenedFacts DEF LoadedInv
<1>5. HeldInv'
  BY <1>4, FindLibraryHeld
<1>6. g \in Frames /\ g.at = "loaded" /\ \A k : g \in Locking(k) <=> k = l
  BY <1>3, <1>4, FrameFacts DEF loaded
<1>7. CatalogInv' /\ \A m \in AllModules : IsThere(m) => IsThere(m)'
  BY <1>1, <1>4, LoadKeeps DEF LoadedInv
<1> HIDE DEF u, f, l, g
<1>8. /\ Range(stack') = Range(u) \cup {g}
      /\ \A S : Count(stack', S) = Count(u, S) + One(g \in S)
  <2>1. /\ Range(Append(u, g)) = Range(u) \cup {g}
        /\ \A S : Count(Append(u, g), S) = Count(u, S) + One(g \in S)
    BY <1>2, <1>6, PushFacts, PushCount
  <2> QED
    BY <2>1, <1>1, Zenon
<1>9. LockInv'
  <2>1. \A k \in Libraries : locked_loaded'[k] = Count(stack', Locking(k))
    <3> TAKE k \in Libraries
    <3>1. locked_loaded \in [Libraries -> Nat] /\ locked_loaded[k] = Count(stack, Locking(k))
      BY DEF LoadedInv, LockInv
    <3>2. Count(stack, Locking(k)) = Count(u, Locking(k)) /\ Count(u, Locking(k)) \in Nat
      BY <1>2, <1>3 DEF One
    <3>3. Count(stack', Locking(k)) = Count(u, Locking(k)) + One(k = l)
      BY <1>6, <1>8 DEF One
    <3>4. locked_loaded'[k] = locked_loaded[k] + One(k = l)
      BY <3>1, <1>1 DEF One
    <3> QED
      BY <3>1, <3>2, <3>3, <3>4
  <2>2. locked_loaded' \in [Libraries -> Nat]
    BY <1>1, <1>4 DEF LoadedInv, LockInv
  <2> QED
    BY <2>1, <2>2 DEF LockInv
<1>10. ThereInv'
  <2>1. \A m \in AllModules : use_count'[m] > 0 => IsThere(m)'
    BY <1>1, <1>7 DEF LoadedInv, ThereInv
  <2>2. ASSUME NEW h \in Range(stack'), h.at = "releasing"
        PROVE  IsThere(h.m)'
    <3>1. h \in Range(u)
      BY <2>2, <1>6, <1>8
    <3>2. h \in Frames
      BY <3>1, <1>2 DEF Range
    <3>3. h.m \in AllModules
      BY <2>2, <3>2, FrameAt
    <3>4. IsThere(h.m)
      BY <2>2, <3>1, <1>2 DEF LoadedInv, ThereInv
    <3> QED
      BY <3>3, <3>4, <1>7
  <2> QED
    BY <2>1, <2>2 DEF ThereInv
<1> QED
  BY <1>5, <1>7, <1>9, <1>10 DEF LoadedInv

\* The calls of clients.
LEMMA ClientRequireInv ==
  ASSUME HeldInv, LoadedInv, NEW n \in Names, lttv_module_require(n)
  PROVE  HeldInv' /\ LoadedInv'
<1> DEFINE r == require(n)
           v == <<requiring>>
<1>1. /\ stack = << >> /\ stack' = Append(v, r) /\ UNCHANGED <<loading, counts, result>>
  BY DEF lttv_module_require
<1>2. result = Nothing
  BY <1>1 DEF HeldInv, CallsInv, IsAwaited
<1>3. /\ r \in Frames /\ r.at = "module_require" /\ requiring \in Frames
      /\ requiring.at = "lttv_module_require"
  BY FrameFacts DEF require, requiring
<1>4. /\ << >> \in Seq(Frames) /\ Range(<< >>) = {} /\ (\A S : Count(<< >>, S) = 0)
      /\ v = Append(<< >>, requiring)
  BY EmptyStack
<1>5. /\ v \in Seq(Frames) /\ Range(v) = {requiring}
      /\ \A S : Count(v, S) = One(requiring \in S)
  <2> DEFINE e == << >>
  <2>1. e \in Seq(Frames) /\ Range(e) = {} /\ (\A S : Count(e, S) = 0) /\ v = Append(e, requiring)
    BY <1>4
  <2> HIDE DEF e, v
  <2>2. /\ Append(e, requiring) \in Seq(Frames)
        /\ Range(Append(e, requiring)) = Range(e) \cup {requiring}
        /\ \A S : Count(Append(e, requiring), S) = Count(e, S) + One(requiring \in S)
    BY <2>1, <1>3, PushFacts, PushCount
  <2>3. Range(e) \cup {requiring} = {requiring}
        /\ \A S : Count(e, S) + One(requiring \in S) = One(requiring \in S)
    BY <2>1 DEF One
  <2> QED
    BY <2>1, <2>2, <2>3, Zenon
<1>6. HeldInv'
  BY <1>1, <1>2, <1>5, AskHeld
<1> HIDE DEF r, v
<1>7. Range(stack') = {requiring, r} /\ \A S : Count(stack', S) = One(requiring \in S) + One(r \in S)
  <2>1. /\ Range(Append(v, r)) = Range(v) \cup {r}
        /\ \A S : Count(Append(v, r), S) = Count(v, S) + One(r \in S)
    BY <1>3, <1>5, PushFacts, PushCount
  <2>2. Range(v) \cup {r} = {requiring, r}
    BY <1>5
  <2> QED
    BY <2>1, <2>2, <1>1, <1>5, Zenon
<1>8. \A l \in Libraries : Count(stack', Locking(l)) = Count(stack, Locking(l))
  <2> TAKE l \in Libraries
  <2>1. requiring \notin Locking(l) /\ r \notin Locking(l)
    BY <1>3, LockFacts
  <2>2. Count(stack', Locking(l)) = 0
    BY <2>1, <1>7 DEF One
  <2> QED
    BY <2>2, <1>1, <1>4
<1>9. \A m \in AllModules : use_count'[m] > 0 => use_count[m] > 0 \/ IsThere(m)
  BY <1>1 DEF counts
<1>10. \A f \in Range(stack') : f.at # "releasing"
  BY <1>3, <1>7
<1> QED
  BY <1>1, <1>6, <1>8, <1>9, <1>10, QuietLoaded

LEMMA ClientReleaseInv ==
  ASSUME HeldInv, LoadedInv, NEW m \in AllModules, lttv_module_release(m)
  PROVE  HeldInv' /\ LoadedInv'
<1> DEFINE r == release(m)
           e == << >>
<1>1. /\ stack = e /\ stack' = Append(e, r) /\ UNCHANGED <<loading, use_count>>
  BY DEF lttv_module_release
<1>2. r \in Frames /\ r.at = "module_release"
  BY FrameFacts DEF release
<1>3. e \in Seq(Frames) /\ Range(e) = {} /\ \A S : Count(e, S) = 0
  BY EmptyStack
<1> HIDE DEF e, r
<1>4. Range(stack') = Range(e) \cup {r} /\ \A S : Count(stack', S) = Count(e, S) + One(r \in S)
  <2>1. /\ Range(Append(e, r)) = Range(e) \cup {r}
        /\ \A S : Count(Append(e, r), S) = Count(e, S) + One(r \in S)
    BY <1>2, <1>3, PushFacts, PushCount
  <2> QED
    BY <2>1, <1>1, Zenon
<1>5. \A l \in Libraries : Count(stack', Locking(l)) = Count(stack, Locking(l))
  <2> TAKE l \in Libraries
  <2>1. r \notin Locking(l)
    BY <1>2, LockFacts
  <2> QED
    BY <2>1, <1>1, <1>3, <1>4 DEF One
<1>6. \A f \in Range(stack') : f.at # "releasing"
  BY <1>2, <1>3, <1>4
<1> QED
  BY <1>1, <1>5, <1>6, QuietLoaded, ClientReleaseHeld

\* Nothing is held, as calls change nothing.
LEMMA SameHeld ==
  ASSUME HeldInv, UNCHANGED <<counts, stack, result>>
  PROVE  HeldInv'
<1>1. CallsType' /\ CountsType' /\ CallsInv'
  BY DEF HeldInv, CallsType, CountsType, CallsInv, counts
<1>2. BusyInv'
  BY DEF HeldInv, BusyInv, counts
<1>3. CountInv'
  <2>1. \A m \in AllModules : Uses(m)' = Uses(m)
    BY DEF Uses, counts
  <2> QED
    BY <2>1 DEF HeldInv, CountInv, counts
<1> QED
  BY <1>1, <1>2, <1>3 DEF HeldInv

LEMMA LoadInv ==
  ASSUME HeldInv, LoadedInv, NEW n \in Names, lttv_library_load(n)
  PROVE  HeldInv' /\ LoadedInv'
<1> DEFINE l == Opened(n)
<1>1. UNCHANGED <<counts, stack, result, locked_loaded>>
  BY DEF lttv_library_load, loading
<1>2. HeldInv'
  BY <1>1, SameHeld
<1>3. l \in Libraries \cup {NoLibrary}
  BY OpenedFacts DEF LoadedInv
<1>4. CatalogInv' /\ \A m \in AllModules : IsThere(m) => IsThere(m)'
  <2>1. CASE l = NoLibrary
    <3>1. UNCHANGED loading
      BY <2>1 DEF lttv_library_load
    <3> QED
      BY <3>1 DEF loading, registered, LoadedInv, CatalogInv, IsThere
  <2>2. CASE l # NoLibrary
    <3>1. l \in Libraries /\ LibraryLoad(l, TRUE)
      BY <2>2, <1>3 DEF lttv_library_load
    <3> QED
      BY <3>1, LoadKeeps DEF LoadedInv
  <2> QED
    BY <2>1, <2>2
<1>5. LockInv'
  BY <1>1 DEF LoadedInv, LockInv
<1>6. ThereInv'
  <2>1. stack = << >> /\ Range(<< >>) = {}
    BY EmptyStack DEF lttv_library_load
  <2> QED
    BY <2>1, <1>1, <1>4 DEF LoadedInv, ThereInv, counts
<1> QED
  BY <1>2, <1>4, <1>5, <1>6 DEF LoadedInv

LEMMA UnloadInv ==
  ASSUME HeldInv, LoadedInv, NEW l \in Libraries, lttv_library_unload(l)
  PROVE  HeldInv' /\ LoadedInv'
<1>1. UNCHANGED <<counts, stack, result, locked_loaded>> /\ stack = << >>
  BY DEF lttv_library_unload
<1>2. HeldInv'
  BY <1>1, SameHeld
<1>3. CatalogInv' /\ \A m \in AllModules : IsThere(m) /\ use_count[m] # 0 => IsThere(m)'
  <2>1. CASE load_count[l] # 0
    <3>1. UNCHANGED registered
      BY <2>1 DEF lttv_library_unload
    <3> QED
      BY <3>1 DEF registered, LoadedInv, CatalogInv, IsThere
  <2>2. CASE load_count[l] = 0
    <3>1. LibraryUnload(l, locked_loaded[l])
      BY <2>2 DEF lttv_library_unload
    <3> QED
      BY <3>1, UnloadKeeps DEF LoadedInv
  <2> QED
    BY <2>1, <2>2
<1>4. LockInv'
  BY <1>1 DEF LoadedInv, LockInv
<1>5. ThereInv'
  <2>1. Range(<< >>) = {} /\ use_count \in [AllModules -> Nat]
    BY EmptyStack DEF HeldInv, CountsType
  <2> QED
    BY <2>1, <1>1, <1>3 DEF LoadedInv, ThereInv, counts
<1> QED
  BY <1>2, <1>3, <1>4, <1>5 DEF LoadedInv

LEMMA PathsInv ==
  ASSUME HeldInv, LoadedInv, NEW paths \in Seq(Paths), PathsChange(paths)
  PROVE  HeldInv' /\ LoadedInv'
<1>1. /\ library_paths' = paths
      /\ UNCHANGED <<libraries, modules, modules_by_name, locked_loaded, counts, stack, result>>
  BY DEF PathsChange
<1>2. HeldInv'
  BY <1>1, SameHeld
<1>3. \A m : IsThere(m)' <=> IsThere(m)
  BY <1>1 DEF IsThere
<1>4. CatalogInv' /\ LockInv'
  BY <1>1 DEF LoadedInv, CatalogInv, LockInv
<1>5. ThereInv'
  BY <1>1, <1>3 DEF LoadedInv, ThereInv, counts
<1> QED
  BY <1>2, <1>4, <1>5 DEF LoadedInv

LEMMA RemoveFirstSeq ==
  ASSUME NEW T, NEW s \in Seq(T), NEW e
  PROVE  RemoveFirst(s, e) \in Seq(T)
<1> DEFINE I == {i \in 1 .. Len(s) : s[i] = e}
<1>1. RemoveFirst(s, e) = IF \E i \in 1 .. Len(s) : s[i] = e THEN RemoveAt(s, IF I # {} THEN Min(I) ELSE 0) ELSE s
  BY Zenon DEF RemoveFirst, SelectInSeq
<1>2. I \subseteq Nat /\ I \subseteq 1 .. Len(s) /\ ((\E i \in 1 .. Len(s) : s[i] = e) <=> I # {})
  OBVIOUS
<1> HIDE DEF I
<1>3. I # {} => Min(I) \in I
  BY <1>2, MinFacts
<1>4. \A i \in 1 .. Len(s) : RemoveAt(s, i) \in Seq(T)
  BY DEF RemoveAt
<1> QED
  BY <1>1, <1>2, <1>3, <1>4

\* What is loaded when main has required what it needs.
LEMMA InitLoaded == Init => LoadedInv
<1> SUFFICES ASSUME Init PROVE LoadedInv
  OBVIOUS
<1>1. /\ library_paths = <<plugins_path>> /\ libraries = <<builtin>>
      /\ modules = [l \in Libraries |-> IF l = builtin THEN {m \in AllModules : library(m) = l}
                                                       ELSE {}]
      /\ modules_by_name = [n \in Names |-> IF <<builtin, n>> \in AllModules
                                            THEN <<<<builtin, n>>>> ELSE << >>]
      /\ locked_loaded = [l \in Libraries |-> 0]
      /\ use_count = [m \in AllModules |-> IF m = main_module THEN 1 ELSE 0]
      /\ stack = << >>
  BY DEF Init
<1>2. plugins_path \in Paths /\ builtin \in Libraries /\ main_module \in AllModules
      /\ library(main_module) = builtin
  BY ModulesAssumption
<1>3. /\ modules \in [Libraries -> SUBSET AllModules]
      /\ \A l \in Libraries : \A m \in modules[l] : library(m) = l /\ l = builtin
      /\ \A m \in AllModules : library(m) = builtin => m \in modules[library(m)]
  BY <1>1, <1>2
<1>4. \A n \in Names : /\ modules_by_name[n] \in Seq(AllModules)
                       /\ \A m \in Range(modules_by_name[n]) : m = <<builtin, n>> /\ m \in AllModules
  <2> TAKE n \in Names
  <2> DEFINE m == <<builtin, n>>
  <2>1. CASE m \in AllModules
    <3>1. modules_by_name[n] = <<m>>
      BY <1>1, <2>1
    <3> HIDE DEF m
    <3>2. <<m>> \in Seq(AllModules) /\ Range(<<m>>) = {m}
      BY <2>1 DEF Range
    <3> QED
      BY <3>1, <3>2, <2>1 DEF m
  <2>2. CASE m \notin AllModules
    <3>1. modules_by_name[n] = << >>
      BY <1>1, <2>2
    <3>2. << >> \in Seq(AllModules) /\ Range(<< >>) = {}
      BY EmptyStack
    <3> QED
      BY <3>1, <3>2
  <2> QED
    BY <2>1, <2>2
<1>5. modules_by_name \in [Names -> Seq(AllModules)]
  <2>1. modules_by_name = [n \in Names |-> modules_by_name[n]]
    BY <1>1
  <2> QED
    BY <2>1, <1>4
<1>6. library_paths \in Seq(Paths) /\ libraries \in Seq(Libraries) /\ builtin \in Range(libraries)
  BY <1>1, <1>2 DEF Range
<1>7. \A n \in Names : \A m \in Range(modules_by_name[n]) : m[2] = n /\ m \in modules[library(m)]
  <2> TAKE n \in Names
  <2> TAKE m \in Range(modules_by_name[n])
  <2>1. m = <<builtin, n>> /\ m \in AllModules
    BY <1>4
  <2>2. m[2] = n /\ library(m) = builtin
    BY <2>1 DEF library
  <2> QED
    BY <2>1, <2>2, <1>3
<1>8. CatalogInv
  BY <1>3, <1>5, <1>6, <1>7 DEF CatalogInv
<1>9. (\A S : Count(<< >>, S) = 0) /\ Range(<< >>) = {}
  BY EmptyStack
<1>10. LockInv
  BY <1>1, <1>9 DEF LockInv
<1>11. ThereInv
  BY <1>1, <1>2, <1>3, <1>9 DEF ThereInv, IsThere
<1> QED
  BY <1>8, <1>10, <1>11 DEF LoadedInv

-----------------------------------------------------------------------------
(* Every step.                                                             *)

\* What windows and the command line do to modules and libraries.
ModulesNext ==
  \/ Step
  \/ \E n \in Names : lttv_module_require(n) \/ lttv_library_load(n)
  \/ \E l \in Libraries : lttv_library_unload(l)
  \/ \E m \in AllModules : lttv_module_release(m)
  \/ \E path \in Paths : lttv_library_path_add(path) \/ lttv_library_path_remove(path)

LEMMA WindowsStep ==
  ASSUME [WindowsNext]_all_vars
  PROVE  [ModulesNext]_vars
<1>1. CASE CallStep
  BY <1>1 DEF CallStep, ModulesNext
<1>2. CASE \E n \in Names : lttv_module_option(n) \/ on_load_library_activate(n)
  BY <1>2 DEF lttv_module_option, on_load_library_activate, ModulesNext
<1>3. CASE \E l \in Libraries : on_unload_library_activate(l)
  BY <1>3 DEF on_unload_library_activate, ModulesNext
<1>4. CASE \E m \in AllModules : on_load_module_activate(m) \/ on_unload_module_activate(m)
  <2> PICK m \in AllModules : on_load_module_activate(m) \/ on_unload_module_activate(m)
    BY <1>4
  <2>1. CASE on_load_module_activate(m)
    <3>1. m[2] \in Names /\ lttv_module_require(m[2])
      BY <2>1, NotModules DEF on_load_module_activate
    <3> QED
      BY <3>1 DEF ModulesNext
  <2>2. CASE on_unload_module_activate(m)
    BY <2>2 DEF on_unload_module_activate, ModulesNext
  <2> QED
    BY <2>1, <2>2
<1>5. CASE \E path \in Paths : \/ lttv_module_path_option(path)
                               \/ on_add_library_search_path_activate(path)
                               \/ on_remove_library_search_path_activate(path)
  BY <1>5 DEF lttv_module_path_option, on_add_library_search_path_activate,
              on_remove_library_search_path_activate, ModulesNext
<1>6. CASE window_creation_hook \/ create_new_window \/ on_quit_activate
  BY <1>6 DEF window_creation_hook, create_new_window, on_quit_activate, CloseAll
<1>7. CASE \E i \in DOMAIN main_windows :
             \/ on_MWindow_destroy(i)
             \/ \E m \in ViewerModules : insert_viewer(i, m) \/ delete_viewer(i, m)
  BY <1>7 DEF on_MWindow_destroy, CloseAll, insert_viewer, delete_viewer, ChangeViewers
<1>8. CASE UNCHANGED all_vars
  BY <1>8 DEF all_vars
<1> QED
  BY <1>1, <1>2, <1>3, <1>4, <1>5, <1>6, <1>7, <1>8 DEF WindowsNext

ModulesInv == HeldInv /\ LoadedInv

LEMMA StepInv ==
  ASSUME ModulesInv, Step
  PROVE  ModulesInv'
<1> USE DEF ModulesInv
<1>1. CASE FindModule
  BY <1>1, FindModuleInv
<1>2. CASE FindNothing
  BY <1>2, FindNothingInv
<1>3. CASE FindLibrary
  BY <1>3, FindLibraryInv
<1>4. CASE FindInLibrary
  BY <1>4, FindInLibraryInv
<1>5. CASE NotInLibrary
  BY <1>5, NotInLibraryInv
<1>6. CASE RequirePrerequisite
  BY <1>6, RequirePrerequisiteInv
<1>7. CASE GetPrerequisite
  BY <1>7, GetPrerequisiteInv
<1>8. CASE Initialize
  BY <1>8, InitializeInv
<1>9. CASE MissPrerequisite
  BY <1>9, MissPrerequisiteInv
<1>10. CASE UndoPrerequisite
  BY <1>10, UndoInv
<1>11. CASE Fail
  BY <1>11, FailInv
<1>12. CASE ModuleRelease
  BY <1>12, ModuleReleaseInv
<1>13. CASE ReleasePrerequisite
  BY <1>13, ReleaseNextInv
<1>14. CASE EndRelease
  BY <1>14, EndReleaseInv
<1>15. CASE EndRequire
  BY <1>15, EndRequireInv
<1> QED
  BY <1>1, <1>2, <1>3, <1>4, <1>5, <1>6, <1>7, <1>8, <1>9, <1>10, <1>11, <1>12, <1>13,
     <1>14, <1>15 DEF Step

LEMMA NextInv ==
  ASSUME ModulesInv, [ModulesNext]_vars
  PROVE  ModulesInv'
<1> USE DEF ModulesInv
<1>1. CASE Step
  BY <1>1, StepInv
<1>2. ASSUME NEW n \in Names, lttv_module_require(n) PROVE ModulesInv'
  BY <1>2, ClientRequireInv
<1>3. ASSUME NEW n \in Names, lttv_library_load(n) PROVE ModulesInv'
  BY <1>3, LoadInv
<1>4. ASSUME NEW l \in Libraries, lttv_library_unload(l) PROVE ModulesInv'
  BY <1>4, UnloadInv
<1>5. ASSUME NEW m \in AllModules, lttv_module_release(m) PROVE ModulesInv'
  BY <1>5, ClientReleaseInv
<1>6. ASSUME NEW path \in Paths, lttv_library_path_add(path) PROVE ModulesInv'
  <2>1. Append(library_paths, path) \in Seq(Paths)
    BY DEF LoadedInv, CatalogInv
  <2> QED
    BY <2>1, <1>6, PathsInv DEF lttv_library_path_add
<1>7. ASSUME NEW path \in Paths, lttv_library_path_remove(path) PROVE ModulesInv'
  <2>1. RemoveFirst(library_paths, path) \in Seq(Paths)
    BY RemoveFirstSeq DEF LoadedInv, CatalogInv
  <2> QED
    BY <2>1, <1>7, PathsInv DEF lttv_library_path_remove
<1>8. CASE UNCHANGED vars
  <2>1. HeldInv'
    BY <1>8, SameHeld DEF vars
  <2>2. LoadedInv'
    BY <1>8 DEF vars, loading, registered, counts, LoadedInv, CatalogInv, LockInv, ThereInv, IsThere
  <2> QED
    BY <2>1, <2>2
<1> QED
  BY <1>1, <1>2, <1>3, <1>4, <1>5, <1>6, <1>7, <1>8 DEF ModulesNext

LEMMA AlwaysInv == WindowsSpec => []ModulesInv
<1>1. WindowsInit => ModulesInv
  BY InitHeld, InitLoaded DEF WindowsInit, ModulesInv
<1>2. ModulesInv /\ [WindowsNext]_all_vars => ModulesInv'
  BY WindowsStep, NextInv
<1> QED
  BY <1>1, <1>2, PTL DEF WindowsSpec

\* Who holds a prerequisite uses it.
LEMMA KeptIsUsed ==
  ASSUME HeldInv, NEW u \in AllModules, NEW m \in Kept(u)
  PROVE  m \in AllModules /\ use_count[m] > 0
<1>1. PICK i \in DOMAIN prerequisites[u] :
        /\ \A k \in DOMAIN stack :
             stack[k].at \in {"undoing", "releasing"} /\ stack[k].m = u => i >= stack[k].i
        /\ m = prerequisites[u][i]
  BY DEF Kept
<1>2. prerequisites[u] \in Seq(AllModules)
  BY DEF HeldInv, CountsType, Lists
<1>3. m \in AllModules /\ i \in Nat
  BY <1>1, <1>2
<1>4. IsKept(stack, u, i)
  BY <1>1 DEF IsKept, Gives, Range
<1>5. <<u, i>> \in AllModules \X Nat /\ <<u, i>>[1] = u /\ <<u, i>>[2] = i
  BY <1>3
<1>6. <<u, i>> \in KeptPlaces(stack, prerequisites, m)
  BY <1>1, <1>4, <1>5 DEF KeptPlaces
<1> QED
  BY <1>3, <1>6, UsesFacts DEF One

\* So does the call that gets one, and who waits for it.
LEMMA InvDangles == ModulesInv => NothingDangles
<1> SUFFICES ASSUME ModulesInv, NEW m \in AllModules,
                    \/ require_count[m] > 0
                    \/ \E u \in AllModules : m \in Kept(u)
                    \/ \E n \in Names : m \in Range(modules_by_name[n])
                    \/ \E i \in DOMAIN stack : "m" \in DOMAIN stack[i] /\ stack[i].m = m
             PROVE  m \in modules[library(m)] /\ library(m) \in Range(libraries)
  BY DEF NothingDangles
<1> USE DEF ModulesInv
<1>1. library(m) \in Libraries
  BY NotModules DEF library
<1>2. use_count[m] > 0 => IsThere(m)
  BY DEF LoadedInv, ThereInv
<1>3. IsThere(m)
  <2>1. CASE require_count[m] > 0
    BY <2>1, <1>2, UsesFacts
  <2>2. CASE \E u \in AllModules : m \in Kept(u)
    BY <2>2, <1>2, KeptIsUsed
  <2>3. CASE \E n \in Names : m \in Range(modules_by_name[n])
    BY <2>3 DEF LoadedInv, CatalogInv, IsThere
  <2>4. CASE \E i \in DOMAIN stack : "m" \in DOMAIN stack[i] /\ stack[i].m = m
    <3>1. PICK i \in DOMAIN stack : "m" \in DOMAIN stack[i] /\ stack[i].m = m
      BY <2>4
    <3> DEFINE f == stack[i]
    <3>2. f \in Range(stack) /\ f \in Frames /\ f.m = m
      BY <3>1 DEF Range, HeldInv, CallsType
    <3>3. f.at \in {"module_release", "acquiring", "undoing", "releasing"}
      BY <3>1, <3>2, FrameAt
    <3> HIDE DEF f
    <3>4. CASE f.at = "releasing"
      BY <3>2, <3>4 DEF LoadedInv, ThereInv
    <3>5. CASE f.at # "releasing"
      <4>1. f \in Holding(m)
        BY <3>2, <3>3, <3>5 DEF Holding
      <4> QED
        BY <4>1, <3>2, <1>2, UsesFacts
    <3> QED
      BY <3>4, <3>5
  <2> QED
    BY <2>1, <2>2, <2>3, <2>4
<1> QED
  BY <1>1, <1>3 DEF LoadedInv, CatalogInv, IsThere

\* Whatever the libraries, the modules in them and what these need, and
\* whatever the windows and the command line do in whatever order, also while
\* calls fail half way: a module that is held, that can be found, or that a call
\* under way goes back to is in a library that is loaded, so that library_unload
\* frees nothing that is read again.
THEOREM NothingIsFreedInUse == WindowsSpec => []NothingDangles
  BY AlwaysInv, InvDangles, PTL

-----------------------------------------------------------------------------
(* Modules that are initialized find their prerequisites ready.  A module  *)
(* that needed itself, by way of others, would get itself before it is.    *)

NameOf(f) == IF f.at = "acquiring" THEN f.m[2] ELSE f.name
Lower(f, g, rank) ==
  f.at = "acquiring" /\ g.at \in {"module_require", "loaded", "acquiring"} =>
    rank[NameOf(g)] < rank[f.m[2]]
IsRanked(st, rank) == \A j, k \in DOMAIN st : j < k => Lower(st[j], st[k], rank)

IsReady(m) == Range(prerequisites[m]) \subseteq initialized \cup failed
IsAcquiring(st, m) == \E f \in Range(st) : f.at = "acquiring" /\ f.m = m
IsReleasing(st, m) == \E f \in Range(st) : f.at = "releasing" /\ f.m = m

\* What is asked for is further down in the order of modules, and what has been
\* got is ready.
ReadyInv(rank) ==
  /\ IsRanked(stack, rank)
  /\ result \in AllModules => result \in initialized \cup failed
  /\ \A m \in AllModules : m \in initialized \/ IsAcquiring(stack, m) => IsReady(m)
  /\ \A m \in AllModules : prerequisites[m] # << >> => use_count[m] > 0 \/ IsReleasing(stack, m)

LEMMA PushRanked ==
  ASSUME NEW u \in Seq(Frames), NEW f \in Frames, NEW rank
  PROVE  IsRanked(Append(u, f), rank) <=>
           IsRanked(u, rank) /\ \A g \in Range(u) : Lower(g, f, rank)
<1> DEFINE s == Append(u, f)
           n == Len(u) + 1
<1>1. /\ s[n] = f /\ DOMAIN s = 1 .. n /\ DOMAIN u = 1 .. Len(u) /\ Len(u) \in Nat
      /\ \A i \in 1 .. Len(u) : s[i] = u[i]
  OBVIOUS
<1> HIDE DEF s, n
<1>2. n = Len(u) + 1
  BY DEF n
<1>3. \A g \in Range(u) : \E i \in 1 .. Len(u) : u[i] = g
  BY <1>1 DEF Range
<1>4. \A i \in 1 .. Len(u) : u[i] \in Range(u)
  BY <1>1 DEF Range
<1>5. (\A j, k \in 1 .. n : j < k => Lower(s[j], s[k], rank)) <=>
        /\ \A j, k \in 1 .. Len(u) : j < k => Lower(u[j], u[k], rank)
        /\ \A g \in Range(u) : Lower(g, f, rank)
  BY <1>1, <1>2, <1>3, <1>4
<1> QED
  BY <1>1, <1>5 DEF IsRanked, s

\* Of one kind of calls there is at most one.
LEMMA CountOne ==
  ASSUME NEW T, NEW s \in Seq(T), NEW S, Count(s, S) <= 1,
         NEW f \in Range(s), f \in S, NEW g \in Range(s), g \in S
  PROVE  f = g
<1> SUFFICES ASSUME f # g PROVE FALSE
  OBVIOUS
<1>1. PICK i \in DOMAIN s, j \in DOMAIN s : s[i] = f /\ s[j] = g
  BY DEF Range
<1>2. i \in Links(s, S) /\ j \in Links(s, S) /\ i # j
  BY <1>1 DEF Links
<1>3. IsFiniteSet(Links(s, S)) /\ Cardinality(Links(s, S)) \in Nat
  BY LinksFinite
<1>4. /\ IsFiniteSet(Links(s, S) \ {i})
      /\ Cardinality(Links(s, S) \ {i}) = Cardinality(Links(s, S)) - 1
  BY <1>2, <1>3, FS_RemoveElement
<1>5. j \in Links(s, S) \ {i}
  BY <1>2
<1>6. Cardinality(Links(s, S) \ {i}) # 0
  BY <1>4, <1>5, FS_EmptySet
<1>7. Cardinality(Links(s, S) \ {i}) \in Nat
  BY <1>4, FS_CardinalityType
<1> QED
  BY <1>3, <1>4, <1>6, <1>7 DEF Count

LEMMA TopRanked ==
  ASSUME HeldInv, stack # << >>, NEW rank, ReadyInv(rank)
  PROVE  /\ IsRanked(Under, rank)
         /\ \A h \in Range(Under) : Lower(h, Frame, rank)
         /\ \A g \in Frames : g.at \notin {"module_require", "loaded", "acquiring"} =>
              IsRanked(Append(Under, g), rank)
<1>1. Under \in Seq(Frames) /\ Frame \in Frames /\ stack = Append(Under, Frame)
  BY TopFacts
<1>2. IsRanked(Append(Under, Frame), rank)
  BY <1>1 DEF ReadyInv
<1>3. IsRanked(Under, rank) /\ \A h \in Range(Under) : Lower(h, Frame, rank)
  BY <1>1, <1>2, PushRanked
<1>4. \A g \in Frames : g.at \notin {"module_require", "loaded", "acquiring"} =>
        IsRanked(Append(Under, g), rank)
  <2> TAKE g \in Frames
  <2> HAVE g.at \notin {"module_require", "loaded", "acquiring"}
  <2>1. \A h \in Range(Under) : Lower(h, g, rank)
    BY DEF Lower
  <2> QED
    BY <2>1, <1>1, <1>3, PushRanked
<1> QED
  BY <1>3, <1>4

\* A step that neither gets nor forgets a prerequisite.
LEMMA QuietReady ==
  ASSUME NEW rank, ReadyInv(rank), UNCHANGED <<prerequisites, initialized, failed>>,
         IsRanked(stack', rank),
         result' \in AllModules => result' \in initialized \cup failed,
         \A m \in AllModules : IsAcquiring(stack', m) => IsAcquiring(stack, m) \/ prerequisites[m] = << >>,
         \A m \in AllModules : use_count[m] > 0 => use_count'[m] > 0 \/ IsReleasing(stack', m),
         \A m \in AllModules : IsReleasing(stack, m) => IsReleasing(stack', m)
  PROVE  ReadyInv(rank)'
<1>1. \A m \in AllModules : IsReady(m)' <=> IsReady(m)
  BY DEF IsReady
<1>2. \A m \in AllModules : prerequisites[m] = << >> => IsReady(m)
  BY EmptyStack DEF IsReady
<1>3. \A m \in AllModules : m \in initialized' \/ IsAcquiring(stack', m) => IsReady(m)'
  BY <1>1, <1>2 DEF ReadyInv
<1>4. \A m \in AllModules : prerequisites'[m] # << >> => use_count'[m] > 0 \/ IsReleasing(stack', m)
  BY DEF ReadyInv
<1> QED
  BY <1>3, <1>4 DEF ReadyInv

\* A module is found that has the name that was asked for.
LEMMA UseReady ==
  ASSUME HeldInv, NEW rank \in [Names -> Nat], ReadyInv(rank),
         stack # << >>, Frame.at \in {"module_require", "loaded"},
         NEW m \in AllModules, m[2] = Frame.name, NEW l \in Libraries \cup {NoLibrary}, Use(m, l)
  PROVE  ReadyInv(rank)'
<1> DEFINE u == Under
           f == Frame
           g == acquiring(m, l)
<1>1. /\ use_count' = [use_count EXCEPT ![m] = @ + 1]
      /\ IF use_count[m] = 0 THEN stack' = Append(u, g) /\ result' = result
                             ELSE stack' = u /\ result' = m
      /\ UNCHANGED <<prerequisites, initialized, failed>>
  BY DEF Use, Goto, Return
<1>2. /\ u \in Seq(Frames) /\ f \in Frames /\ stack = Append(u, f) /\ IsNested(Append(u, f))
      /\ Range(stack) = Range(u) \cup {f} /\ Range(u) \subseteq Frames /\ result = Nothing
  BY TopFacts
<1>3. \A h \in Range(u) : h.at \in {"acquiring", "lttv_module_require"}
  BY <1>2, NestedTop
<1>4. IsRanked(u, rank) /\ \A h \in Range(u) : Lower(h, f, rank)
  BY TopRanked
<1>5. \A p : ~IsReleasing(stack, p)
  BY <1>2, <1>3 DEF IsReleasing
<1>6. /\ use_count \in [AllModules -> Nat]
      /\ \A p \in AllModules : use_count[p] > 0 => use_count'[p] > 0
  BY <1>1 DEF HeldInv, CountsType
<1>7. g \in Frames /\ g.at = "acquiring" /\ g.m = m
  BY FrameFacts DEF acquiring
<1>8. f.at \in {"module_require", "loaded"} /\ m[2] = f.name
  OBVIOUS
<1> HIDE DEF u, f, g
<1>9. CASE use_count[m] = 0
  <2>1. stack' = Append(u, g) /\ result' = Nothing
    BY <1>1, <1>2, <1>9
  <2>2. \A h \in Range(u) : Lower(h, g, rank)
    BY <1>4, <1>7, <1>8 DEF Lower, NameOf
  <2>3. IsRanked(Append(u, g), rank) /\ Range(Append(u, g)) = Range(u) \cup {g}
    BY <2>2, <1>2, <1>4, <1>7, PushRanked, PushFacts
  <2>4. IsRanked(stack', rank) /\ Range(stack') = Range(u) \cup {g}
    BY <2>1, <2>3, Zenon
  <2>5. prerequisites[m] = << >>
    BY <1>5, <1>9 DEF ReadyInv
  <2>6. \A p \in AllModules : IsAcquiring(stack', p) => IsAcquiring(stack, p) \/ prerequisites[p] = << >>
    BY <2>4, <2>5, <1>2, <1>7 DEF IsAcquiring
  <2>7. result' \notin AllModules
    BY <2>1, NotModules
  <2> QED
    BY <2>4, <2>6, <2>7, <1>1, <1>5, <1>6, QuietReady
<1>10. CASE use_count[m] # 0
  <2>1. stack' = u /\ result' = m
    BY <1>1, <1>10
  <2>2. m \in initialized \cup failed
    <3> SUFFICES ASSUME m \notin initialized \cup failed PROVE FALSE
      OBVIOUS
    <3>1. PICK h \in Range(stack) : IsBusy(h, m)
      BY <1>6, <1>10 DEF HeldInv, BusyInv
    <3>2. h \in Range(u) /\ h.at = "acquiring" /\ h.m = m
      BY <3>1, <1>2, <1>3, <1>8 DEF IsBusy
    <3>3. rank[m[2]] < rank[m[2]]
      BY <3>2, <1>4, <1>8 DEF Lower, NameOf
    <3>4. rank[m[2]] \in Nat
      BY NotModules
    <3> QED
      BY <3>3, <3>4
  <2>3. \A p \in AllModules : IsAcquiring(stack', p) => IsAcquiring(stack, p)
    BY <2>1, <1>2 DEF IsAcquiring
  <2> QED
    BY <2>1, <2>2, <2>3, <1>1, <1>4, <1>5, <1>6, QuietReady
<1> QED
  BY <1>9, <1>10

\* A step of the stack that keeps what is being acquired and released.
LEMMA PopReady ==
  ASSUME HeldInv, NEW rank, ReadyInv(rank), stack # << >>, stack' = Under,
         Frame.at \notin {"acquiring", "releasing"},
         UNCHANGED <<prerequisites, initialized, failed>>, result' \notin AllModules,
         \A m \in AllModules : use_count[m] > 0 => use_count'[m] > 0
  PROVE  ReadyInv(rank)'
<1>1. Range(stack) = Range(Under) \cup {Frame}
  BY TopFacts
<1>2. IsRanked(stack', rank)
  BY TopRanked
<1>3. \A m : /\ IsAcquiring(stack', m) => IsAcquiring(stack, m)
             /\ IsReleasing(stack, m) => IsReleasing(stack', m)
  BY <1>1 DEF IsAcquiring, IsReleasing
<1> QED
  BY <1>2, <1>3, QuietReady

\* A call goes on as g, which acquires nothing, and may call r, a release.
LEMMA CallReady ==
  ASSUME HeldInv, NEW rank, ReadyInv(rank), stack # << >>,
         UNCHANGED <<prerequisites, initialized, failed, use_count>>, result' \notin AllModules,
         NEW g \in Frames, g.at \in {"undoing", "releasing"},
         Frame.at = "releasing" => g.at = "releasing" /\ g.m = Frame.m,
         NEW r \in Frames, r.at = "module_release",
         NEW v, Pushed(v, Under, g), stack' = v \/ Pushed(stack', v, r)
  PROVE  ReadyInv(rank)'
<1> DEFINE u == Under
           f == Frame
<1>1. /\ u \in Seq(Frames) /\ Range(stack) = Range(u) \cup {f}
      /\ f.at = "releasing" => g.at = "releasing" /\ g.m = f.m
      /\ Pushed(v, u, g)
  BY TopFacts
<1>2. IsRanked(Append(u, g), rank)
  BY TopRanked
<1> HIDE DEF u, f
<1>3. /\ v \in Seq(Frames) /\ Range(v) = Range(u) \cup {g} /\ IsRanked(v, rank)
  <2>1. Append(u, g) \in Seq(Frames) /\ Range(Append(u, g)) = Range(u) \cup {g}
    BY <1>1, PushFacts
  <2> QED
    BY <2>1, <1>1, <1>2, Zenon DEF Pushed
<1>4. /\ Range(v) \subseteq Range(stack') /\ Range(stack') \subseteq Range(v) \cup {r}
      /\ IsRanked(stack', rank)
  <2>1. CASE stack' = v
    BY <2>1, <1>3, Zenon
  <2>2. CASE Pushed(stack', v, r)
    <3>1. \A h \in Range(v) : Lower(h, r, rank)
      BY DEF Lower
    <3>2. Range(Append(v, r)) = Range(v) \cup {r} /\ IsRanked(Append(v, r), rank)
      BY <3>1, <1>3, PushFacts, PushRanked
    <3>3. Range(stack') = Range(v) \cup {r} /\ IsRanked(stack', rank)
      BY <2>2, <3>2, Zenon DEF Pushed
    <3> QED
      BY <3>3
  <2> QED
    BY <2>1, <2>2
<1>5. \A m : /\ IsAcquiring(stack', m) => IsAcquiring(stack, m)
             /\ IsReleasing(stack, m) => IsReleasing(stack', m)
  BY <1>1, <1>3, <1>4 DEF IsAcquiring, IsReleasing
<1> QED
  BY <1>4, <1>5, QuietReady

\* The call that is made has rank: nothing is acquired by it yet.
LEMMA AskReady ==
  ASSUME HeldInv, NEW rank, ReadyInv(rank),
         UNCHANGED <<prerequisites, initialized, failed, use_count>>, result' \notin AllModules,
         NEW v \in Seq(Frames), NEW r \in Frames, r.at \notin {"acquiring", "releasing"},
         Pushed(stack', v, r), IsRanked(v, rank), \A h \in Range(v) : Lower(h, r, rank),
         \A m : IsAcquiring(v, m) => IsAcquiring(stack, m),
         \A m : IsReleasing(stack, m) => IsReleasing(v, m)
  PROVE  ReadyInv(rank)'
<1>1. Range(Append(v, r)) = Range(v) \cup {r} /\ IsRanked(Append(v, r), rank)
  BY PushFacts, PushRanked
<1>2. Range(stack') = Range(v) \cup {r} /\ IsRanked(stack', rank)
  BY <1>1, Zenon DEF Pushed
<1>3. \A m : /\ IsAcquiring(stack', m) => IsAcquiring(stack, m)
             /\ IsReleasing(stack, m) => IsReleasing(stack', m)
  BY <1>2 DEF IsAcquiring, IsReleasing
<1> QED
  BY <1>2, <1>3, QuietReady

LEMMA FindLibraryReady ==
  ASSUME HeldInv, NEW rank, ReadyInv(rank), FindLibrary, Opened(Frame.name) \in Libraries
  PROVE  ReadyInv(rank)'
<1> DEFINE u == Under
           f == Frame
           g == loaded(Frame.name, Opened(Frame.name))
<1>1. /\ stack # << >> /\ f.at = "module_require" /\ stack' = Append(u, g)
      /\ UNCHANGED <<prerequisites, initialized, failed, use_count, result>>
  BY DEF FindLibrary, At, Goto, counts
<1>2. /\ u \in Seq(Frames) /\ f \in Frames /\ Range(stack) = Range(u) \cup {f} /\ result = Nothing
  BY <1>1, TopFacts
<1>3. IsRanked(u, rank) /\ \A h \in Range(u) : Lower(h, f, rank)
  BY <1>1, TopRanked
<1>4. f.name \in Names
  BY <1>1, <1>2, FrameAt
<1>5. g \in Frames /\ g.at = "loaded" /\ g.name = f.name
  BY <1>4, FrameFacts DEF loaded
<1> HIDE DEF u, f, g
<1>6. \A h \in Range(u) : Lower(h, g, rank)
  BY <1>1, <1>3, <1>5 DEF Lower, NameOf
<1>7. /\ \A m : IsAcquiring(u, m) => IsAcquiring(stack, m)
      /\ \A m : IsReleasing(stack, m) => IsReleasing(u, m)
  BY <1>1, <1>2 DEF IsAcquiring, IsReleasing
<1>8. result' \notin AllModules /\ Pushed(stack', u, g)
  BY <1>1, <1>2, NotModules DEF Pushed
<1> QED
  BY <1>1, <1>2, <1>3, <1>5, <1>6, <1>7, <1>8, AskReady

LEMMA RequirePrerequisiteReady ==
  ASSUME HeldInv, NEW rank, IsOrder(rank), ReadyInv(rank), RequirePrerequisite
  PROVE  ReadyInv(rank)'
<1> DEFINE u == Under
           f == Frame
           x == Frame.m
           i == Len(prerequisites[x]) + 1
           n == prerequisites_names[x][i]
           r == require(n)
<1>1. /\ stack # << >> /\ f.at = "acquiring" /\ result = Nothing
      /\ Len(prerequisites[x]) < Len(prerequisites_names[x])
      /\ stack' = Append(Append(u, f), r)
      /\ UNCHANGED <<prerequisites, initialized, failed, use_count, result>>
  BY DEF RequirePrerequisite, At, Call, counts
<1>2. /\ u \in Seq(Frames) /\ f \in Frames /\ stack = Append(u, f) /\ stack \in Seq(Frames)
      /\ Range(stack) = Range(u) \cup {f} /\ Range(u) \subseteq Frames
  BY <1>1, TopFacts DEF HeldInv, CallsType
<1>3. x \in AllModules
  BY <1>1, <1>2, FrameAt
<1>4. i \in DOMAIN prerequisites_names[x] /\ n \in Names
  <2>1. prerequisites_names[x] \in Seq(Names) /\ prerequisites[x] \in Seq(AllModules)
    BY <1>3, ModulesAssumption DEF HeldInv, CountsType, Lists
  <2> QED
    BY <2>1, <1>1
<1>5. rank[n] < rank[x[2]] /\ rank \in [Names -> Nat] /\ x[2] \in Names
  BY <1>3, <1>4, NotModules DEF IsOrder
<1>6. r \in Frames /\ r.at = "module_require" /\ r.name = n
  BY <1>4, FrameFacts DEF require
<1>7. stack' = Append(stack, r)
  BY <1>1, <1>2, Zenon
<1>8. IsRanked(stack, rank) /\ \A h \in Range(u) : Lower(h, f, rank)
  BY <1>1, TopRanked DEF ReadyInv
<1> HIDE DEF u, f, n, i, r
<1>9. \A h \in Range(stack) : Lower(h, r, rank)
  <2> TAKE h \in Range(stack)
  <2>1. CASE h = f
    BY <2>1, <1>5, <1>6 DEF Lower, NameOf, f
  <2>2. CASE h \in Range(u)
    <3> SUFFICES ASSUME h.at = "acquiring" PROVE rank[n] < rank[h.m[2]]
      BY <1>6 DEF Lower, NameOf
    <3>1. h.m \in AllModules
      BY <2>2, <1>2, FrameAt
    <3>2. h.m[2] \in Names
      BY <3>1, NotModules
    <3>3. rank[x[2]] < rank[h.m[2]]
      BY <2>2, <1>1, <1>8 DEF Lower, NameOf, f
    <3>4. rank[n] \in Nat /\ rank[x[2]] \in Nat /\ rank[h.m[2]] \in Nat
      BY <3>2, <1>4, <1>5
    <3> QED
      BY <3>3, <3>4, <1>5
  <2> QED
    BY <2>1, <2>2, <1>2
<1>10. result' \notin AllModules /\ Pushed(stack', stack, r)
  BY <1>1, <1>7, NotModules DEF Pushed
<1>11. UNCHANGED <<prerequisites, initialized, failed, use_count>>
  BY <1>1
<1> QED
  BY <1>2, <1>6, <1>8, <1>9, <1>10, <1>11, AskReady

LEMMA MissPrerequisiteReady ==
  ASSUME HeldInv, NEW rank, ReadyInv(rank), MissPrerequisite
  PROVE  ReadyInv(rank)'
<1> DEFINE f == Frame
           g == undoing(f.m, f.l, 1)
           r == release(f.m)
<1>1. /\ stack # << >> /\ f.at = "acquiring" /\ stack' = Append(Under, g) /\ result' = Nothing
      /\ UNCHANGED <<prerequisites, initialized, failed, use_count>>
  BY DEF MissPrerequisite, At, Goto, GiveUp, counts
<1>2. f \in Frames
  BY <1>1, TopFacts
<1>3. f.m \in AllModules /\ f.l \in Libraries \cup {NoLibrary} /\ 1 \in Nat \ {0}
  BY <1>1, <1>2, FrameAt
<1>4. g \in Frames /\ g.at = "undoing"
  BY <1>3, FrameFacts DEF undoing
<1>5. r \in Frames /\ r.at = "module_release"
  BY <1>3, FrameFacts DEF release
<1>6. Pushed(stack', Under, g) /\ result' \notin AllModules
  BY <1>1, NotModules DEF Pushed
<1> HIDE DEF g, r
<1> QED
  BY <1>1, <1>4, <1>5, <1>6, CallReady

\* A call gives a prerequisite back.
LEMMA GiveReady ==
  ASSUME HeldInv, NEW rank, ReadyInv(rank), stack # << >>, UNCHANGED <<counts, result>>,
         Frame.at \in {"undoing", "releasing"}, NEW g, g = [Frame EXCEPT !.i = Frame.i + 1],
         Frame.i <= Len(prerequisites[Frame.m]),
         Pushed(stack', Append(Under, g), release(prerequisites[Frame.m][Frame.i]))
  PROVE  ReadyInv(rank)'
<1> DEFINE f == Frame
           q == prerequisites[f.m][f.i]
           r == release(q)
           v == Append(Under, g)
<1>1. f \in Frames /\ f.at \in {"undoing", "releasing"} /\ f.i <= Len(prerequisites[f.m])
      /\ result = Nothing
  BY TopFacts
<1>2. f.m \in AllModules /\ f.i \in Nat \ {0}
  BY <1>1, FrameAt
<1>3. q \in AllModules
  <2>1. prerequisites[f.m] \in Seq(AllModules)
    BY <1>2 DEF HeldInv, CountsType, Lists
  <2> QED
    BY <2>1, <1>1, <1>2
<1>4. r \in Frames /\ r.at = "module_release"
  BY <1>3, FrameFacts DEF release
<1>5. /\ Pushed(v, Under, g) /\ Pushed(stack', v, r)
      /\ UNCHANGED <<prerequisites, initialized, failed, use_count>>
      /\ g = [f EXCEPT !.i = f.i + 1] /\ result' \notin AllModules
  BY <1>1, NotModules DEF Pushed, counts
<1> HIDE DEF f, q, r, v
<1>6. g \in Frames /\ g.at = f.at /\ g.m = f.m
  BY <1>1, <1>5, NextFrame
<1>7. g.at \in {"undoing", "releasing"} /\ (Frame.at = "releasing" => g.at = "releasing" /\ g.m = Frame.m)
  BY <1>1, <1>6 DEF f
<1> QED
  BY <1>4, <1>5, <1>6, <1>7, CallReady

LEMMA FindReady ==
  ASSUME HeldInv, LoadedInv, NEW rank, IsOrder(rank), ReadyInv(rank),
         FindModule \/ FindInLibrary \/ FindLibrary
  PROVE  ReadyInv(rank)'
<1>1. rank \in [Names -> Nat]
  BY DEF IsOrder
<1>2. stack # << >> /\ Frame.at \in {"module_require", "loaded"}
  BY DEF FindModule, FindInLibrary, FindLibrary, At
<1>3. Frame \in Frames
  BY <1>2, TopFacts
<1>4. Frame.name \in Names /\ (Frame.at = "loaded" => Frame.l \in Libraries)
  BY <1>2, <1>3, FrameAt
<1>5. modules_by_name[Frame.name] # << >> =>
        Named(Frame.name) \in AllModules /\ Named(Frame.name)[2] = Frame.name
  BY <1>4, NamedFacts DEF LoadedInv
<1>6. CASE FindModule
  <2>1. modules_by_name[Frame.name] # << >> /\ Use(Named(Frame.name), NoLibrary)
    BY <1>6 DEF FindModule
  <2> QED
    BY <2>1, <1>1, <1>2, <1>5, UseReady
<1>7. CASE FindInLibrary
  <2>1. modules_by_name[Frame.name] # << >> /\ Use(Named(Frame.name), Frame.l) /\ Frame.at = "loaded"
    BY <1>7 DEF FindInLibrary, At
  <2> QED
    BY <2>1, <1>1, <1>2, <1>4, <1>5, UseReady
<1>8. CASE FindLibrary
  <2>1. Opened(Frame.name) \in Libraries
    BY <1>4, <1>8, OpenedFacts DEF FindLibrary, LoadedInv
  <2> QED
    BY <2>1, <1>8, FindLibraryReady
<1> QED
  BY <1>6, <1>7, <1>8

LEMMA ReturnReady ==
  ASSUME HeldInv, NEW rank, ReadyInv(rank),
         FindNothing \/ NotInLibrary \/ EndRequire \/ (ModuleRelease /\ ~LastUse(Frame.m))
  PROVE  ReadyInv(rank)'
<1>1. /\ NULL \notin AllModules /\ Nothing \notin AllModules
  BY NotModules
<1>2. CASE FindNothing \/ NotInLibrary
  <2>1. /\ stack # << >> /\ stack' = Under /\ result' \notin AllModules
        /\ Frame.at \notin {"acquiring", "releasing"}
        /\ UNCHANGED <<prerequisites, initialized, failed, use_count>>
    BY <1>1, <1>2 DEF FindNothing, NotInLibrary, At, Return, counts
  <2> QED
    BY <2>1, PopReady
<1>3. CASE EndRequire
  <2>1. /\ stack # << >> /\ stack' = Under /\ result' \notin AllModules
        /\ Frame.at \notin {"acquiring", "releasing"}
        /\ UNCHANGED <<prerequisites, initialized, failed, use_count>>
    BY <1>1, <1>3 DEF EndRequire, At
  <2> QED
    BY <2>1, PopReady
<1>4. CASE ModuleRelease /\ ~LastUse(Frame.m)
  <2> DEFINE x == Frame.m
  <2>1. /\ stack # << >> /\ stack' = Under /\ result' = result
        /\ Frame.at = "module_release" /\ use_count[x] # 1
        /\ use_count' = [use_count EXCEPT ![x] = @ - 1]
        /\ UNCHANGED <<prerequisites, initialized, failed>>
    BY <1>4 DEF ModuleRelease, At, LastUse
  <2>2. x \in AllModules /\ result = Nothing /\ use_count[x] > 0
    BY <2>1, ReleaseFacts
  <2> HIDE DEF x
  <2>3. \A m \in AllModules : use_count[m] > 0 => use_count'[m] > 0
    BY <2>1, <2>2 DEF HeldInv, CountsType
  <2>4. result' \notin AllModules /\ Frame.at \notin {"acquiring", "releasing"}
    BY <1>1, <2>1, <2>2
  <2> QED
    BY <2>1, <2>3, <2>4, PopReady
<1> QED
  BY <1>2, <1>3, <1>4

LEMMA GiveBackReady ==
  ASSUME HeldInv, NEW rank, ReadyInv(rank), UndoPrerequisite \/ ReleasePrerequisite
  PROVE  ReadyInv(rank)'
<1> DEFINE g == [Frame EXCEPT !.i = Frame.i + 1]
<1>1. /\ stack # << >> /\ Frame.at \in {"undoing", "releasing"}
      /\ Frame.i <= Len(prerequisites[Frame.m])
      /\ stack' = Append(Append(Under, g), release(prerequisites[Frame.m][Frame.i]))
      /\ UNCHANGED <<counts, result>>
  <2>1. CASE UndoPrerequisite
    BY <2>1 DEF UndoPrerequisite, At, Call, ToUndo
  <2>2. CASE ReleasePrerequisite
    BY <2>2 DEF ReleasePrerequisite, At, Call, NextOne
  <2> QED
    BY <2>1, <2>2
<1>2. Pushed(stack', Append(Under, g), release(prerequisites[Frame.m][Frame.i]))
  BY <1>1 DEF Pushed
<1> QED
  BY <1>1, <1>2, GiveReady

\* The prerequisite that was got is ready.
LEMMA GetReady ==
  ASSUME HeldInv, NEW rank, ReadyInv(rank), GetPrerequisite
  PROVE  ReadyInv(rank)'
<1> DEFINE f == Frame
           x == Frame.m
           q == result
           p == prerequisites[x]
<1>1. /\ stack # << >> /\ f.at = "acquiring" /\ q \in AllModules /\ result' = Nothing
      /\ prerequisites' = [prerequisites EXCEPT ![x] = Append(@, q)]
      /\ UNCHANGED <<use_count, initialized, failed, stack>>
  BY DEF GetPrerequisite, At
<1>2. f \in Frames /\ f \in Range(stack) /\ f.m = x
  BY <1>1, TopFacts
<1>3. x \in AllModules
  BY <1>1, <1>2, FrameAt
<1>4. p \in Seq(AllModules) /\ prerequisites \in Lists
  BY <1>3 DEF HeldInv, CountsType, Lists
<1> HIDE DEF f, x, q, p
<1>5. Range(Append(p, q)) = Range(p) \cup {q}
  BY <1>1, <1>4, PushFacts
<1>6. prerequisites'[x] = Append(p, q) /\ \A m \in AllModules : m # x => prerequisites'[m] = prerequisites[m]
  BY <1>1, <1>3, <1>4 DEF Lists, p
<1>7. use_count[x] > 0
  <2>1. f \in Holding(x)
    BY <1>1, <1>2 DEF Holding
  <2> QED
    BY <2>1, <1>2, <1>3, UsesFacts
<1>8. q \in initialized \cup failed
  BY <1>1 DEF ReadyInv, q
<1>9. IsReady(x)
  BY <1>1, <1>2, <1>3 DEF ReadyInv, IsAcquiring
<1>10. ASSUME NEW m \in AllModules, m = x PROVE IsReady(m)'
  <2>1. Range(p) \subseteq initialized \cup failed
    BY <1>9 DEF IsReady, p
  <2>2. Range(p) \cup {q} \subseteq initialized' \cup failed'
    BY <2>1, <1>1, <1>8
  <2>3. prerequisites'[m] = Append(p, q)
    BY <1>6, <1>10
  <2> QED
    BY <2>2, <2>3, <1>5, Zenon DEF IsReady
<1>11. \A m \in AllModules : m # x => (IsReady(m)' <=> IsReady(m))
  BY <1>1, <1>6 DEF IsReady
<1>12. \A m \in AllModules : m \in initialized' \/ IsAcquiring(stack', m) => IsReady(m)'
  BY <1>1, <1>10, <1>11 DEF ReadyInv
<1>13. \A m \in AllModules : prerequisites'[m] # << >> => use_count'[m] > 0 \/ IsReleasing(stack', m)
  BY <1>1, <1>6, <1>7 DEF ReadyInv
<1>14. result' \notin AllModules
  BY <1>1, NotModules
<1> QED
  BY <1>1, <1>12, <1>13, <1>14 DEF ReadyInv

\* What has been acquired is initialized, or has failed and needs nothing.
LEMMA EndAcquiringReady ==
  ASSUME HeldInv, NEW rank, ReadyInv(rank), Initialize \/ Fail
  PROVE  ReadyInv(rank)'
<1> DEFINE f == Frame
           x == Frame.m
<1>1. /\ stack # << >> /\ stack' = Under /\ f.at \in {"acquiring", "undoing"}
      /\ UNCHANGED use_count
  BY DEF Initialize, Fail, At, Return
<1>2. f \in Frames /\ Range(stack) = Range(Under) \cup {f} /\ f.m = x
  BY <1>1, TopFacts
<1>3. x \in AllModules
  BY <1>1, <1>2, FrameAt
<1>4. IsRanked(stack', rank)
  BY <1>1, TopRanked
<1>5. \A m : /\ IsAcquiring(stack', m) => IsAcquiring(stack, m)
             /\ IsReleasing(stack, m) => IsReleasing(stack', m)
  BY <1>1, <1>2 DEF IsAcquiring, IsReleasing
<1>6. CASE Initialize
  <2>1. /\ f.at = "acquiring" /\ initialized' = initialized \cup {x} /\ result' = x
        /\ UNCHANGED <<prerequisites, failed>>
    BY <1>6 DEF Initialize, At, Return
  <2>2. IsAcquiring(stack, x)
    BY <1>2, <2>1 DEF IsAcquiring
  <2> HIDE DEF f, x
  <2>3. \A m : IsReady(m) => IsReady(m)'
    BY <2>1 DEF IsReady
  <2>4. \A m \in AllModules : m \in initialized' \/ IsAcquiring(stack', m) => IsReady(m)'
    BY <2>1, <2>2, <2>3, <1>5 DEF ReadyInv
  <2>5. \A m \in AllModules : prerequisites'[m] # << >> => use_count'[m] > 0 \/ IsReleasing(stack', m)
    BY <2>1, <1>1, <1>5 DEF ReadyInv
  <2>6. result' \in initialized' \cup failed'
    BY <2>1
  <2> QED
    BY <2>4, <2>5, <2>6, <1>4 DEF ReadyInv
<1>7. CASE Fail
  <2>1. /\ prerequisites' = [prerequisites EXCEPT ![x] = << >>] /\ failed' = failed \cup {x}
        /\ result' = NULL /\ UNCHANGED initialized
    BY <1>7 DEF Fail, Return
  <2>2. prerequisites \in Lists
    BY DEF HeldInv, CountsType
  <2> HIDE DEF f, x
  <2>3. prerequisites'[x] = << >> /\ \A m \in AllModules : m # x => prerequisites'[m] = prerequisites[m]
    BY <2>1, <2>2, <1>3 DEF Lists
  <2>4. \A m \in AllModules : IsReady(m) => IsReady(m)'
    BY <2>1, <2>3, EmptyStack DEF IsReady
  <2>5. \A m \in AllModules : m \in initialized' \/ IsAcquiring(stack', m) => IsReady(m)'
    BY <2>1, <2>4, <1>5 DEF ReadyInv
  <2>6. \A m \in AllModules : prerequisites'[m] # << >> => use_count'[m] > 0 \/ IsReleasing(stack', m)
    BY <2>3, <1>1, <1>5 DEF ReadyInv
  <2>7. result' \notin AllModules
    BY <2>1, NotModules
  <2> QED
    BY <2>5, <2>6, <2>7, <1>4 DEF ReadyInv
<1> QED
  BY <1>6, <1>7

\* No module that is ready needs one whose last use ends.
LEMMA LastIsUnkept ==
  ASSUME HeldInv, stack # << >>, Frame.at = "module_release", NEW x, x = Frame.m,
         use_count[x] = 1, NEW p \in AllModules, p \in initialized \/ IsAcquiring(stack, p)
  PROVE  x \notin Range(prerequisites[p])
<1> SUFFICES ASSUME x \in Range(prerequisites[p]) PROVE FALSE
  OBVIOUS
<1>1. prerequisites[p] \in Seq(AllModules) /\ stack \in Seq(Frames)
  BY DEF HeldInv, CountsType, CallsType, Lists
<1>2. PICK i \in DOMAIN prerequisites[p] : prerequisites[p][i] = x
  BY DEF Range
<1>3. i \in Nat
  BY <1>1
<1>4. x \in AllModules /\ Frame \in Frames /\ Frame \in Range(stack) /\ Range(stack) \subseteq Frames
  BY <1>1, TopFacts, ReleaseFacts DEF Range
<1>5. ASSUME NEW h \in Range(stack), Gives(h, p) PROVE FALSE
  <2>1. h.at \in {"undoing", "releasing"} /\ h.m = p /\ h \in Frames
    BY <1>4, <1>5 DEF Gives
  <2>2. CASE p \in initialized
    <3>1. h.at = "undoing" => IsBusy(h, p)
      BY <2>1 DEF IsBusy
    <3>2. h.at = "releasing" => use_count[p] = 0
      BY <2>1 DEF HeldInv, BusyInv
    <3>3. use_count[p] > 0
      BY <2>2 DEF HeldInv, BusyInv
    <3>4. IsBusy(h, p) => p \notin initialized \cup failed
      BY DEF HeldInv, BusyInv
    <3> QED
      BY <2>1, <2>2, <3>1, <3>2, <3>3, <3>4
  <2>3. CASE IsAcquiring(stack, p)
    <3>1. PICK e \in Range(stack) : e.at = "acquiring" /\ e.m = p
      BY <2>3 DEF IsAcquiring
    <3>2. e \in Working(p) /\ h \in Working(p)
      BY <1>4, <2>1, <3>1 DEF Working
    <3>3. Count(stack, Working(p)) <= 1
      BY DEF HeldInv, CallsInv
    <3>4. e = h
      BY <1>1, <3>2, <3>3, CountOne
    <3> QED
      BY <2>1, <3>1, <3>4
  <2> QED
    BY <2>2, <2>3
<1>6. <<p, i>> \in AllModules \X Nat /\ <<p, i>>[1] = p /\ <<p, i>>[2] = i
  BY <1>3
<1>7. <<p, i>> \in KeptPlaces(stack, prerequisites, x)
  BY <1>2, <1>5, <1>6 DEF KeptPlaces, IsKept
<1>8. Frame \in Holding(x)
  BY <1>4 DEF Holding
<1>9. /\ Cardinality(KeptPlaces(stack, prerequisites, x)) > 0
      /\ Count(stack, Holding(x)) > 0
  BY <1>4, <1>7, <1>8, UsesFacts
<1> QED
  BY <1>4, <1>9, UsesFacts

LEMMA LastUseReady ==
  ASSUME HeldInv, NEW rank, ReadyInv(rank), ModuleRelease, LastUse(Frame.m)
  PROVE  ReadyInv(rank)'
<1> DEFINE u == Under
           f == Frame
           x == Frame.m
           g == releasing(Frame.m, 1)
<1>1. /\ stack # << >> /\ f.at = "module_release" /\ use_count[x] = 1
      /\ use_count' = [use_count EXCEPT ![x] = @ - 1] /\ stack' = Append(u, g)
      /\ initialized' = initialized \ {x} /\ failed' = failed \ {x}
      /\ UNCHANGED <<prerequisites, result>>
  BY DEF ModuleRelease, At, LastUse, Goto
<1>2. /\ u \in Seq(Frames) /\ f \in Frames /\ stack = Append(u, f)
      /\ Range(stack) = Range(u) \cup {f}
      /\ x \in AllModules /\ result = Nothing
  BY <1>1, TopFacts, ReleaseFacts
<1>3. g \in Frames /\ g.at = "releasing" /\ g.m = x
  <2>1. 1 \in Nat \ {0}
    OBVIOUS
  <2> QED
    BY <1>2, <2>1, FrameFacts DEF releasing
<1>4. IsRanked(Append(u, g), rank)
  BY <1>1, <1>3, TopRanked
<1>5. \A p \in AllModules : p \in initialized \/ IsAcquiring(stack, p) =>
        x \notin Range(prerequisites[p])
  BY <1>1, LastIsUnkept
<1> HIDE DEF u, f, x, g
<1>6. Range(stack') = Range(u) \cup {g} /\ IsRanked(stack', rank)
  <2>1. Range(Append(u, g)) = Range(u) \cup {g}
    BY <1>2, <1>3, PushFacts
  <2> QED
    BY <2>1, <1>1, <1>4, Zenon
<1>7. \A m : /\ IsAcquiring(stack', m) => IsAcquiring(stack, m)
             /\ IsReleasing(stack, m) => IsReleasing(stack', m)
  BY <1>1, <1>2, <1>3, <1>6 DEF IsAcquiring, IsReleasing
<1>8. IsReleasing(stack', x)
  BY <1>3, <1>6 DEF IsReleasing
<1>9. use_count \in [AllModules -> Nat]
  BY DEF HeldInv, CountsType
<1>10. ASSUME NEW m \in AllModules, m \in initialized' \/ IsAcquiring(stack', m)
       PROVE  IsReady(m)'
  <2>1. m \in initialized \/ IsAcquiring(stack, m)
    BY <1>1, <1>7, <1>10
  <2>2. IsReady(m) /\ x \notin Range(prerequisites[m])
    BY <2>1, <1>5 DEF ReadyInv
  <2> QED
    BY <2>2, <1>1 DEF IsReady
<1>11. ASSUME NEW m \in AllModules, prerequisites'[m] # << >>
       PROVE  use_count'[m] > 0 \/ IsReleasing(stack', m)
  <2>1. use_count[m] > 0 \/ IsReleasing(stack, m)
    BY <1>1, <1>11 DEF ReadyInv
  <2>2. m # x => use_count'[m] = use_count[m]
    BY <1>1, <1>9
  <2> QED
    BY <2>1, <2>2, <1>7, <1>8
<1>12. result' \notin AllModules
  BY <1>1, <1>2, NotModules
<1> QED
  BY <1>6, <1>10, <1>11, <1>12 DEF ReadyInv

LEMMA EndReleaseReady ==
  ASSUME HeldInv, NEW rank, ReadyInv(rank), EndRelease
  PROVE  ReadyInv(rank)'
<1> DEFINE f == Frame
           x == Frame.m
<1>1. /\ stack # << >> /\ stack' = Under /\ f.at = "releasing"
      /\ prerequisites' = [prerequisites EXCEPT ![x] = << >>]
      /\ UNCHANGED <<use_count, initialized, failed, result>>
  BY DEF EndRelease, At
<1>2. /\ f \in Frames /\ Range(stack) = Range(Under) \cup {f} /\ f.m = x
      /\ result = Nothing
  BY <1>1, TopFacts
<1>3. x \in AllModules /\ prerequisites \in Lists
  BY <1>1, <1>2, FrameAt DEF HeldInv, CountsType
<1>4. IsRanked(stack', rank)
  BY <1>1, TopRanked
<1> HIDE DEF f, x
<1>5. \A m : /\ IsAcquiring(stack', m) => IsAcquiring(stack, m)
             /\ m # x /\ IsReleasing(stack, m) => IsReleasing(stack', m)
  BY <1>1, <1>2 DEF IsAcquiring, IsReleasing
<1>6. prerequisites'[x] = << >> /\ \A m \in AllModules : m # x => prerequisites'[m] = prerequisites[m]
  BY <1>1, <1>3 DEF Lists
<1>7. \A m \in AllModules : IsReady(m) => IsReady(m)'
  BY <1>1, <1>6, EmptyStack DEF IsReady
<1>8. \A m \in AllModules : m \in initialized' \/ IsAcquiring(stack', m) => IsReady(m)'
  BY <1>1, <1>5, <1>7 DEF ReadyInv
<1>9. \A m \in AllModules : prerequisites'[m] # << >> => use_count'[m] > 0 \/ IsReleasing(stack', m)
  BY <1>1, <1>5, <1>6 DEF ReadyInv
<1>10. result' \notin AllModules
  BY <1>1, <1>2, NotModules
<1> QED
  BY <1>4, <1>8, <1>9, <1>10 DEF ReadyInv

\* The calls of clients.
LEMMA ClientReady ==
  ASSUME HeldInv, NEW rank, ReadyInv(rank), stack = << >>,
         UNCHANGED <<prerequisites, initialized, failed, use_count, result>>,
         \/ stack' = stack
         \/ \E m \in AllModules : stack' = <<release(m)>>
         \/ \E n \in Names : stack' = <<requiring, require(n)>>
  PROVE  ReadyInv(rank)'
<1> DEFINE e == << >>
<1>1. e \in Seq(Frames) /\ Range(e) = {} /\ stack = e
  BY EmptyStack
<1>2. result' \notin AllModules
  <2>1. result = Nothing
    BY DEF HeldInv, CallsInv, IsAwaited
  <2> QED
    BY <2>1, NotModules
<1>3. IsRanked(e, rank)
  BY <1>1 DEF ReadyInv
<1>4. CASE stack' = stack
  BY <1>2, <1>4, QuietReady DEF ReadyInv
<1>5. ASSUME NEW m \in AllModules, stack' = <<release(m)>> PROVE ReadyInv(rank)'
  <2> DEFINE r == release(m)
  <2>1. r \in Frames /\ r.at = "module_release" /\ stack' = Append(e, r)
    BY <1>5, FrameFacts DEF release
  <2> HIDE DEF e, r
  <2>2. Pushed(stack', e, r) /\ \A h \in Range(e) : Lower(h, r, rank)
    BY <2>1, <1>1 DEF Pushed
  <2> QED
    BY <2>1, <2>2, <1>1, <1>2, <1>3, AskReady
<1>6. ASSUME NEW n \in Names, stack' = <<requiring, require(n)>> PROVE ReadyInv(rank)'
  <2> DEFINE r == require(n)
             v == <<requiring>>
  <2>1. /\ r \in Frames /\ r.at = "module_require" /\ requiring \in Frames
        /\ requiring.at = "lttv_module_require"
    BY FrameFacts DEF require, requiring
  <2>2. v = Append(e, requiring) /\ stack' = Append(v, r)
    BY <1>6
  <2> HIDE DEF e, r, v
  <2>3. /\ Append(e, requiring) \in Seq(Frames)
        /\ Range(Append(e, requiring)) = Range(e) \cup {requiring}
        /\ IsRanked(Append(e, requiring), rank)
    BY <2>1, <1>1, <1>3, PushFacts, PushRanked
  <2>4. v \in Seq(Frames) /\ Range(v) = Range(e) \cup {requiring} /\ IsRanked(v, rank)
    BY <2>2, <2>3, Zenon
  <2>5. Pushed(stack', v, r) /\ \A h \in Range(v) : Lower(h, r, rank)
    BY <2>1, <2>2, <2>4, <1>1 DEF Pushed, Lower
  <2>6. /\ \A m : IsAcquiring(v, m) => IsAcquiring(stack, m)
        /\ \A m : IsReleasing(stack, m) => IsReleasing(v, m)
    BY <2>1, <2>4, <1>1 DEF IsAcquiring, IsReleasing
  <2> QED
    BY <2>1, <2>4, <2>5, <2>6, <1>2, AskReady
<1> QED
  BY <1>4, <1>5, <1>6

LEMMA NextReady ==
  ASSUME ModulesInv, NEW rank, IsOrder(rank), ReadyInv(rank), [ModulesNext]_vars
  PROVE  ReadyInv(rank)'
<1> USE DEF ModulesInv
<1>1. CASE FindModule \/ FindInLibrary \/ FindLibrary
  BY <1>1, FindReady
<1>2. CASE FindNothing \/ NotInLibrary \/ EndRequire
  BY <1>2, ReturnReady
<1>3. CASE RequirePrerequisite
  BY <1>3, RequirePrerequisiteReady
<1>4. CASE GetPrerequisite
  BY <1>4, GetReady
<1>5. CASE Initialize \/ Fail
  BY <1>5, EndAcquiringReady
<1>6. CASE MissPrerequisite
  BY <1>6, MissPrerequisiteReady
<1>7. CASE UndoPrerequisite \/ ReleasePrerequisite
  BY <1>7, GiveBackReady
<1>8. CASE ModuleRelease
  BY <1>8, LastUseReady, ReturnReady
<1>9. CASE EndRelease
  BY <1>9, EndReleaseReady
<1>10. ASSUME NEW n \in Names, lttv_module_require(n) PROVE ReadyInv(rank)'
  <2>1. /\ stack = << >> /\ stack' = <<requiring, require(n)>>
        /\ UNCHANGED <<prerequisites, initialized, failed, use_count, result>>
    BY <1>10 DEF lttv_module_require, counts
  <2> QED
    BY <2>1, ClientReady
<1>11. ASSUME NEW m \in AllModules, lttv_module_release(m) PROVE ReadyInv(rank)'
  <2>1. /\ stack = << >> /\ stack' = <<release(m)>>
        /\ UNCHANGED <<prerequisites, initialized, failed, use_count, result>>
    BY <1>11 DEF lttv_module_release
  <2> QED
    BY <2>1, ClientReady
<1>12. CASE \/ \E n \in Names : lttv_library_load(n)
            \/ \E l \in Libraries : lttv_library_unload(l)
            \/ \E path \in Paths : lttv_library_path_add(path) \/ lttv_library_path_remove(path)
  <2>1. /\ stack = << >> /\ stack' = stack
        /\ UNCHANGED <<prerequisites, initialized, failed, use_count, result>>
    BY <1>12 DEF lttv_library_load, lttv_library_unload, lttv_library_path_add,
                 lttv_library_path_remove, PathsChange, counts
  <2> QED
    BY <2>1, ClientReady
<1>13. CASE UNCHANGED vars
  <2>1. UNCHANGED <<prerequisites, initialized, failed, use_count, result, stack>>
    BY <1>13 DEF vars, counts
  <2> QED
    BY <2>1 DEF ReadyInv, IsReady
<1> QED
  BY <1>1, <1>2, <1>3, <1>4, <1>5, <1>6, <1>7, <1>8, <1>9, <1>10, <1>11, <1>12, <1>13
     DEF ModulesNext, Step

LEMMA InitReady ==
  ASSUME Init, NEW rank
  PROVE  ReadyInv(rank)
<1> DEFINE e == << >>
<1>1. /\ stack = e /\ e \in Seq(Frames) /\ Range(e) = {} /\ DOMAIN e = {}
      /\ prerequisites = [m \in AllModules |-> e] /\ result = Nothing
  BY EmptyStack DEF Init
<1> HIDE DEF e
<1>2. IsRanked(stack, rank)
  BY <1>1 DEF IsRanked
<1>3. \A m \in AllModules : IsReady(m)
  BY <1>1 DEF IsReady
<1>4. result \notin AllModules
  BY <1>1, NotModules
<1>5. \A m \in AllModules : prerequisites[m] = << >>
  BY <1>1 DEF e
<1> QED
  BY <1>2, <1>3, <1>4, <1>5 DEF ReadyInv

\* Between calls nothing is being given back.
LEMMA RestPlaces ==
  ASSUME HeldInv, stack = << >>, NEW m \in AllModules
  PROVE  KeptPlaces(stack, prerequisites, m)
           = UNION {{u} \X Places(m, prerequisites[u]) : u \in AllModules}
<1> DEFINE K == KeptPlaces(stack, prerequisites, m)
           U == UNION {{u} \X Places(m, prerequisites[u]) : u \in AllModules}
<1>1. Range(stack) = {}
  BY EmptyStack
<1>2. \A u \in AllModules : DOMAIN prerequisites[u] \subseteq Nat
  BY DEF HeldInv, CountsType, Lists
<1>3. ASSUME NEW p \in K PROVE p \in U
  <2>1. /\ p \in AllModules \X Nat /\ p[2] \in DOMAIN prerequisites[p[1]]
        /\ prerequisites[p[1]][p[2]] = m
    BY <1>3 DEF KeptPlaces
  <2>2. p[1] \in AllModules /\ p = <<p[1], p[2]>>
    BY <2>1
  <2>3. p[2] \in Places(m, prerequisites[p[1]])
    BY <2>1 DEF Places
  <2>4. p \in {p[1]} \X Places(m, prerequisites[p[1]])
    BY <2>2, <2>3
  <2> QED
    BY <2>2, <2>4
<1>4. ASSUME NEW p \in U PROVE p \in K
  <2>1. PICK u \in AllModules : p \in {u} \X Places(m, prerequisites[u])
    BY <1>4
  <2>2. p[1] = u /\ p[2] \in Places(m, prerequisites[u]) /\ p = <<p[1], p[2]>>
    BY <2>1
  <2>3. p[2] \in DOMAIN prerequisites[u] /\ prerequisites[u][p[2]] = m
    BY <2>2 DEF Places
  <2>4. p \in AllModules \X Nat
    BY <2>2, <2>3, <1>2
  <2> QED
    BY <2>2, <2>3, <2>4, <1>1 DEF KeptPlaces, IsKept
<1> HIDE DEF K, U
<1>5. K = U
  BY <1>3, <1>4
<1> QED
  BY <1>5 DEF K, U

\* Between calls, also after some that failed half way, the use counts are just
\* the uses there are and no library is locked, whatever modules need.
LEMMA CountedAtRest ==
  ASSUME ModulesInv, stack = << >>
  PROVE  /\ \A m \in AllModules :
              /\ use_count[m] = require_count[m] + Prerequired(m) + (IF m \in failed THEN 1 ELSE 0)
              /\ require_count[m] > 0 => m \in initialized \cup failed
         /\ \A l \in Libraries : locked_loaded[l] = 0
<1> USE DEF ModulesInv
<1>1. (\A S : Count(stack, S) = 0) /\ Range(stack) = {}
  BY EmptyStack
<1>2. \A l \in Libraries : locked_loaded[l] = 0
  BY <1>1 DEF LoadedInv, LockInv
<1>3. ASSUME NEW m \in AllModules
      PROVE  /\ use_count[m] = require_count[m] + Prerequired(m) + (IF m \in failed THEN 1 ELSE 0)
             /\ require_count[m] > 0 => m \in initialized \cup failed
  <2>1. Cardinality(KeptPlaces(stack, prerequisites, m)) = Prerequired(m)
    BY RestPlaces DEF Prerequired
  <2>2. result # m
    BY NotModules DEF HeldInv, CallsInv, IsAwaited
  <2>3. /\ use_count[m] = require_count[m] + Prerequired(m) + Count(stack, Holding(m))
             + One(m \in failed) + One(result = m)
        /\ use_count[m] \in Nat /\ require_count[m] \in Nat /\ Prerequired(m) \in Nat
    BY <2>1, UsesFacts
  <2>4. One(result = m) = 0 /\ Count(stack, Holding(m)) = 0
    BY <2>2, <1>1 DEF One
  <2>5. use_count[m] = require_count[m] + Prerequired(m) + One(m \in failed)
        /\ One(m \in failed) \in {0, 1}
    BY <2>3, <2>4 DEF One
  <2>6. require_count[m] > 0 => m \in initialized \cup failed
    BY <2>3, <2>5, <1>1 DEF HeldInv, BusyInv
  <2> QED
    BY <2>5, <2>6 DEF One
<1> QED
  BY <1>2, <1>3

\* No module is both initialized and one that lacks a prerequisite.
Apart == initialized \cap failed = {}

LEMMA NextApart ==
  ASSUME ModulesInv, Apart, [ModulesNext]_vars
  PROVE  Apart'
<1> USE DEF Apart
<1>1. CASE Initialize \/ Fail
  <2>1. stack # << >> /\ Frame.at \in {"acquiring", "undoing"}
    BY <1>1 DEF Initialize, Fail, At
  <2>2. Frame \in Range(stack)
    <3>1. stack \in Seq(Frames)
      BY DEF ModulesInv, HeldInv, CallsType
    <3>2. Len(stack) \in DOMAIN stack
      BY <3>1, <2>1
    <3> QED
      BY <3>2 DEF Frame, Range
  <2>3. IsBusy(Frame, Frame.m)
    BY <2>1 DEF IsBusy
  <2>4. Frame.m \notin initialized \cup failed
    BY <2>2, <2>3 DEF ModulesInv, HeldInv, BusyInv
  <2> QED
    BY <1>1, <2>4 DEF Initialize, Fail
<1>2. CASE ModuleRelease
  BY <1>2 DEF ModuleRelease
<1>3. CASE \/ FindModule \/ FindNothing \/ FindLibrary \/ FindInLibrary \/ NotInLibrary
           \/ RequirePrerequisite \/ GetPrerequisite \/ MissPrerequisite \/ UndoPrerequisite
           \/ ReleasePrerequisite \/ EndRelease \/ EndRequire
  BY <1>3 DEF FindModule, FindNothing, FindLibrary, FindInLibrary, NotInLibrary, Use,
              RequirePrerequisite, GetPrerequisite, MissPrerequisite, UndoPrerequisite,
              ReleasePrerequisite, EndRelease, EndRequire, counts
<1>4. CASE \/ \E n \in Names : lttv_module_require(n) \/ lttv_library_load(n)
           \/ \E m \in AllModules : lttv_module_release(m)
           \/ \E l \in Libraries : lttv_library_unload(l)
           \/ \E path \in Paths : lttv_library_path_add(path) \/ lttv_library_path_remove(path)
  BY <1>4 DEF lttv_module_require, lttv_library_load, lttv_module_release, lttv_library_unload,
              lttv_library_path_add, lttv_library_path_remove, PathsChange, counts
<1>5. CASE UNCHANGED vars
  BY <1>5 DEF vars, counts
<1> QED
  BY <1>1, <1>2, <1>3, <1>4, <1>5 DEF ModulesNext, Step

LEMMA InvCounted ==
  ASSUME ModulesInv, Apart, NEW rank, ReadyInv(rank)
  PROVE  UsesCounted
<1>1. \A m \in initialized : Range(prerequisites[m]) \subseteq initialized \cup failed
  BY DEF ReadyInv, IsReady, ModulesInv, HeldInv, CountsType
<1>2. ASSUME stack = << >>
      PROVE  /\ \A m \in AllModules :
                  use_count[m] = require_count[m] + Prerequired(m) + Leaked(m)
             /\ initialized = {m \in AllModules \ failed : require_count[m] + Prerequired(m) > 0}
             /\ \A l \in Libraries : locked_loaded[l] = 0
  <2>1. \A m \in AllModules : use_count[m] = require_count[m] + Prerequired(m) + Leaked(m)
    BY <1>2, CountedAtRest DEF Leaked
  <2>2. \A l \in Libraries : locked_loaded[l] = 0
    BY <1>2, CountedAtRest
  <2>3. ASSUME NEW m \in AllModules \ failed
        PROVE  m \in initialized <=> require_count[m] + Prerequired(m) > 0
    <3>1. Leaked(m) = 0
      BY <2>3 DEF Leaked
    <3>2. /\ use_count[m] \in Nat /\ require_count[m] \in Nat
          /\ Cardinality(KeptPlaces(stack, prerequisites, m)) \in Nat
      BY UsesFacts DEF ModulesInv
    <3>3. Prerequired(m) \in Nat
      BY <1>2, <3>2, RestPlaces DEF Prerequired, ModulesInv
    <3>4. use_count[m] = require_count[m] + Prerequired(m)
      BY <2>1, <3>1, <3>2, <3>3
    <3>5. Range(stack) = {}
      BY <1>2, EmptyStack
    <3>6. m \in initialized <=> use_count[m] > 0
      BY <2>3, <3>2, <3>5 DEF ModulesInv, HeldInv, BusyInv
    <3> QED
      BY <3>4, <3>6
  <2>4. initialized \subseteq AllModules \ failed
    BY DEF Apart, ModulesInv, HeldInv, CountsType
  <2> QED
    BY <2>1, <2>2, <2>3, <2>4
<1> QED
  BY <1>1, <1>2 DEF UsesCounted

\* Where no module needs itself by way of others, as IsOrder says: whatever the
\* libraries, and whatever windows and the command line do, between calls the use
\* count of a module that did not fail is the number of times it is required and
\* prerequired, and it is initialized just while that is not 0; a module that could
\* not get a prerequisite counts one use more than it has, and only one, which
\* module_require leaked (module.c:353), so that module.h:77 does not hold of it;
\* every lock on a library is returned; and a module that is initialized has
\* prerequisites that are, or that failed.  Without the order a module may get
\* itself before it is initialized: module_require returns one in use already.
THEOREM UsesAreCounted ==
  ASSUME NEW rank, IsOrder(rank)
  PROVE  WindowsSpec => []UsesCounted
<1>1. WindowsInit => ReadyInv(rank) /\ Apart
  BY InitReady DEF WindowsInit, Init, Apart
<1>2. ModulesInv /\ ReadyInv(rank) /\ Apart /\ [WindowsNext]_all_vars => ReadyInv(rank)' /\ Apart'
  BY WindowsStep, NextReady, NextApart
<1>3. ModulesInv /\ ReadyInv(rank) /\ Apart => UsesCounted
  BY InvCounted
<1> QED
  BY <1>1, <1>2, <1>3, AlwaysInv, PTL DEF WindowsSpec

-----------------------------------------------------------------------------
(* What calls ask for is what they get: the prerequisites of a module have *)
(* the names it needs, in their order, and all of them once it is          *)
(* initialized.                                                            *)

\* The name a call is made with, or that of the module it found.
Asked(f) == IF f.at \in {"acquiring", "undoing"} THEN f.m[2] ELSE f.name

\* The next prerequisite of m is called n.
IsNext(pr, m, n) ==
  Len(pr[m]) < Len(prerequisites_names[m]) /\ n = prerequisites_names[m][Len(pr[m]) + 1]

Asks(f, g, pr) ==
  f.at = "acquiring" /\ g.at \in {"module_require", "loaded", "acquiring", "undoing"} =>
    IsNext(pr, f.m, Asked(g))
IsAsked(st, pr) == \A j \in DOMAIN st : j + 1 \in DOMAIN st => Asks(st[j], st[j + 1], pr)

\* What a call returns to f has the name f asked for.
Answers(f, res, pr) == f.at = "acquiring" /\ res \in AllModules => IsNext(pr, f.m, res[2])

IsNamed(pr, m) ==
  /\ Len(pr[m]) <= Len(prerequisites_names[m])
  /\ \A i \in 1 .. Len(pr[m]) : pr[m][i][2] = prerequisites_names[m][i]

AskInv ==
  /\ IsAsked(stack, prerequisites)
  /\ stack # << >> => Answers(Frame, result, prerequisites)
  /\ \A m \in AllModules : IsNamed(prerequisites, m)
  /\ \A m \in initialized : Len(prerequisites[m]) = Len(prerequisites_names[m])

LEMMA PushAsked ==
  ASSUME NEW u \in Seq(Frames), NEW f \in Frames, NEW pr
  PROVE  IsAsked(Append(u, f), pr) <=>
           IsAsked(u, pr) /\ (u # << >> => Asks(u[Len(u)], f, pr))
<1> DEFINE s == Append(u, f)
           n == Len(u) + 1
<1>1. /\ s[n] = f /\ DOMAIN s = 1 .. n /\ DOMAIN u = 1 .. Len(u) /\ Len(u) \in Nat
      /\ \A i \in 1 .. Len(u) : s[i] = u[i]
      /\ u # << >> <=> Len(u) > 0
  OBVIOUS
<1> HIDE DEF s, n
<1>2. n = Len(u) + 1
  BY DEF n
<1>3. IsAsked(s, pr) <=> \A j \in 1 .. n : j + 1 \in 1 .. n => Asks(s[j], s[j + 1], pr)
  BY <1>1 DEF IsAsked
<1>4. IsAsked(u, pr) <=> \A j \in 1 .. Len(u) : j + 1 \in 1 .. Len(u) => Asks(u[j], u[j + 1], pr)
  BY <1>1 DEF IsAsked
<1>5. ASSUME IsAsked(s, pr)
      PROVE  IsAsked(u, pr) /\ (u # << >> => Asks(u[Len(u)], f, pr))
  <2>1. \A j \in 1 .. Len(u) : j + 1 \in 1 .. Len(u) => Asks(u[j], u[j + 1], pr)
    BY <1>1, <1>2, <1>3, <1>5
  <2>2. u # << >> => Asks(s[Len(u)], s[Len(u) + 1], pr)
    BY <1>1, <1>2, <1>3, <1>5
  <2>3. u # << >> => s[Len(u)] = u[Len(u)] /\ s[Len(u) + 1] = f
    BY <1>1, <1>2
  <2> QED
    BY <2>1, <2>2, <2>3, <1>4
<1>6. ASSUME IsAsked(u, pr), u # << >> => Asks(u[Len(u)], f, pr)
      PROVE  IsAsked(s, pr)
  <2> SUFFICES ASSUME NEW j \in 1 .. n, j + 1 \in 1 .. n
               PROVE  Asks(s[j], s[j + 1], pr)
    BY <1>3
  <2>1. CASE j + 1 \in 1 .. Len(u)
    <3>1. j \in 1 .. Len(u) /\ s[j] = u[j] /\ s[j + 1] = u[j + 1]
      BY <2>1, <1>1
    <3> QED
      BY <3>1, <2>1, <1>4, <1>6
  <2>2. CASE j + 1 = n
    <3>0. j \in 1 .. Len(u) + 1 /\ j + 1 = Len(u) + 1 /\ Len(u) \in Nat
      BY <2>2, <1>1, <1>2
    <3>1. j = Len(u) /\ j >= 1
      BY ONLY <3>0
    <3>2. s[j] = u[j] /\ s[j + 1] = f /\ u # << >>
      BY <3>1, <2>2, <1>1
    <3> QED
      BY <3>1, <3>2, <1>6
  <2> QED
    BY <2>1, <2>2, <1>1, <1>2
<1> QED
  BY <1>5, <1>6 DEF s

\* The calls that are asked for something by name.
ByName == {"module_require", "loaded", "acquiring", "undoing"}

\* A call waits for the one over it, which takes the name on to what it calls.
LEMMA AskedTop ==
  ASSUME ModulesInv, AskInv, stack # << >>
  PROVE  /\ IsAsked(Under, prerequisites)
         /\ Under # << >> => Asks(Under[Len(Under)], Frame, prerequisites)
         /\ Answers(Frame, result, prerequisites)
         /\ \A g \in Frames : \/ g.at \notin ByName
                              \/ Frame.at \in ByName /\ Asked(g) = Asked(Frame)
                              => IsAsked(Append(Under, g), prerequisites)
<1>1. Under \in Seq(Frames) /\ Frame \in Frames /\ stack = Append(Under, Frame)
  BY TopFacts DEF ModulesInv
<1>2. IsAsked(Append(Under, Frame), prerequisites)
  BY <1>1 DEF AskInv
<1>3. IsAsked(Under, prerequisites) /\ (Under # << >> => Asks(Under[Len(Under)], Frame, prerequisites))
  BY <1>1, <1>2, PushAsked
<1>4. ASSUME NEW g \in Frames, g.at \notin ByName \/ (Frame.at \in ByName /\ Asked(g) = Asked(Frame))
      PROVE  IsAsked(Append(Under, g), prerequisites)
  <2>1. Under # << >> => Asks(Under[Len(Under)], g, prerequisites)
    BY <1>3, <1>4 DEF Asks, ByName
  <2> QED
    BY <2>1, <1>1, <1>3, PushAsked
<1> QED
  BY <1>3, <1>4 DEF AskInv

\* A step that neither gets, forgets nor needs a prerequisite.
LEMMA QuietAsked ==
  ASSUME AskInv, UNCHANGED <<prerequisites, initialized>>,
         IsAsked(stack', prerequisites),
         stack' # << >> => Answers(stack'[Len(stack')], result', prerequisites)
  PROVE  AskInv'
BY DEF AskInv, Frame

\* A call ends, and returns a module of the name it was asked for or none.
LEMMA PopAsked ==
  ASSUME ModulesInv, AskInv, stack # << >>, stack' = Under,
         UNCHANGED <<prerequisites, initialized>>,
         result' \in AllModules => Frame.at \in ByName /\ result'[2] = Asked(Frame)
  PROVE  AskInv'
<1>1. IsAsked(Under, prerequisites) /\ (Under # << >> => Asks(Under[Len(Under)], Frame, prerequisites))
  BY AskedTop
<1>2. Under # << >> => Answers(Under[Len(Under)], result', prerequisites)
  BY <1>1 DEF Asks, Answers, ByName
<1> QED
  BY <1>1, <1>2, QuietAsked

\* A call goes on, and returned nothing yet.
LEMMA GotoAsked ==
  ASSUME ModulesInv, AskInv, stack # << >>, NEW g \in Frames, stack' = Append(Under, g),
         UNCHANGED <<prerequisites, initialized>>, result' \notin AllModules,
         g.at \notin ByName \/ (Frame.at \in ByName /\ Asked(g) = Asked(Frame))
  PROVE  AskInv'
<1>1. IsAsked(stack', prerequisites)
  BY AskedTop
<1>2. stack' # << >> => Answers(stack'[Len(stack')], result', prerequisites)
  BY DEF Answers
<1> QED
  BY <1>1, <1>2, QuietAsked

\* A call makes another.
LEMMA CallAsked ==
  ASSUME ModulesInv, AskInv, stack # << >>, NEW v, NEW g \in Frames, NEW r \in Frames,
         v = Append(Under, g), stack' = Append(v, r),
         UNCHANGED <<prerequisites, initialized>>, result' \notin AllModules,
         g.at \notin ByName \/ (Frame.at \in ByName /\ Asked(g) = Asked(Frame)),
         Asks(g, r, prerequisites)
  PROVE  AskInv'
<1>1. Under \in Seq(Frames)
  BY TopFacts DEF ModulesInv
<1>2. v \in Seq(Frames) /\ v[Len(v)] = g
  BY <1>1
<1>3. IsAsked(v, prerequisites)
  BY AskedTop
<1>4. IsAsked(stack', prerequisites)
  BY <1>2, <1>3, PushAsked
<1>5. stack' # << >> => Answers(stack'[Len(stack')], result', prerequisites)
  BY DEF Answers
<1> QED
  BY <1>4, <1>5, QuietAsked

LEMMA UseAsked ==
  ASSUME ModulesInv, AskInv, stack # << >>, Frame.at \in {"module_require", "loaded"},
         NEW m \in AllModules, m[2] = Frame.name, NEW l \in Libraries \cup {NoLibrary}, Use(m, l)
  PROVE  AskInv'
<1>1. Asked(Frame) = m[2] /\ Frame.at \in ByName
  BY DEF Asked, ByName
<1>2. UNCHANGED <<prerequisites, initialized>>
  BY DEF Use
<1>3. CASE use_count[m] = 0
  <2> DEFINE g == acquiring(m, l)
  <2>1. stack' = Append(Under, g) /\ result' = result
    BY <1>3 DEF Use, Goto
  <2>2. g \in Frames /\ Asked(g) = m[2]
    BY FrameFacts DEF Asked, acquiring
  <2>3. result = Nothing
    BY TopFacts DEF ModulesInv
  <2>4. result' \notin AllModules
    BY <2>1, <2>3, NotModules
  <2> HIDE DEF g
  <2> QED
    BY <1>1, <1>2, <2>1, <2>2, <2>4, GotoAsked
<1>4. CASE use_count[m] # 0
  <2>1. stack' = Under /\ result' = m
    BY <1>4 DEF Use, Return
  <2> QED
    BY <1>1, <1>2, <2>1, PopAsked
<1> QED
  BY <1>3, <1>4

LEMMA FindAsked ==
  ASSUME ModulesInv, AskInv, FindModule \/ FindInLibrary \/ FindLibrary
  PROVE  AskInv'
<1>1. stack # << >> /\ Frame.at \in {"module_require", "loaded"}
  BY DEF FindModule, FindInLibrary, FindLibrary, At
<1>2. Frame \in Frames /\ result = Nothing
  BY <1>1, TopFacts DEF ModulesInv
<1>3. Frame.name \in Names /\ (Frame.at = "loaded" => Frame.l \in Libraries)
  BY <1>1, <1>2, FrameAt
<1>4. modules_by_name[Frame.name] # << >> =>
        Named(Frame.name) \in AllModules /\ Named(Frame.name)[2] = Frame.name
  BY <1>3, NamedFacts DEF ModulesInv, LoadedInv
<1>5. CASE FindModule
  <2>1. modules_by_name[Frame.name] # << >> /\ Use(Named(Frame.name), NoLibrary)
    BY <1>5 DEF FindModule
  <2> QED
    BY <2>1, <1>1, <1>4, UseAsked
<1>6. CASE FindInLibrary
  <2>1. modules_by_name[Frame.name] # << >> /\ Use(Named(Frame.name), Frame.l) /\ Frame.at = "loaded"
    BY <1>6 DEF FindInLibrary, At
  <2> QED
    BY <2>1, <1>1, <1>3, <1>4, UseAsked
<1>7. CASE FindLibrary
  <2> DEFINE n == Frame.name
             g == loaded(n, Opened(n))
  <2>1. Opened(n) \in Libraries
    BY <1>3, <1>7, OpenedFacts DEF FindLibrary, ModulesInv, LoadedInv
  <2>2. stack' = Append(Under, g) /\ UNCHANGED <<prerequisites, initialized, result>>
    BY <1>7 DEF FindLibrary, Goto, counts
  <2>3. g \in Frames /\ Asked(g) = n
    BY <2>1, <1>3, FrameFacts DEF Asked, loaded
  <2>4. Frame.at \in ByName /\ Asked(Frame) = n
    BY <1>1 DEF ByName, Asked
  <2>5. result' \notin AllModules
    BY <2>2, <1>2, NotModules
  <2> HIDE DEF g, n
  <2> QED
    BY <1>1, <2>2, <2>3, <2>4, <2>5, GotoAsked
<1> QED
  BY <1>5, <1>6, <1>7

LEMMA ReturnAsked ==
  ASSUME ModulesInv, AskInv,
         FindNothing \/ NotInLibrary \/ EndRequire \/ (ModuleRelease /\ ~LastUse(Frame.m))
  PROVE  AskInv'
<1>1. CASE FindNothing \/ NotInLibrary \/ EndRequire
  <2>1. /\ stack # << >> /\ stack' = Under /\ UNCHANGED <<prerequisites, initialized>>
        /\ result' \in {NULL, Nothing}
    BY <1>1 DEF FindNothing, NotInLibrary, EndRequire, At, Return, counts
  <2> QED
    BY <2>1, NotModules, PopAsked
<1>2. CASE ModuleRelease /\ ~LastUse(Frame.m)
  <2>1. /\ stack # << >> /\ stack' = Under /\ UNCHANGED <<prerequisites, initialized>>
        /\ result' = result /\ Frame.at = "module_release"
    BY <1>2 DEF ModuleRelease, At
  <2>2. result = Nothing
    BY <2>1, TopFacts DEF ModulesInv
  <2> QED
    BY <2>1, <2>2, NotModules, PopAsked
<1> QED
  BY <1>1, <1>2

LEMMA RequireAsked ==
  ASSUME ModulesInv, AskInv, RequirePrerequisite
  PROVE  AskInv'
<1> DEFINE f == Frame
           x == Frame.m
           n == prerequisites_names[x][Len(prerequisites[x]) + 1]
           r == require(n)
           v == Append(Under, f)
<1>1. /\ stack # << >> /\ f.at = "acquiring" /\ result = Nothing
      /\ Len(prerequisites[x]) < Len(prerequisites_names[x])
      /\ stack' = Append(v, r) /\ UNCHANGED <<prerequisites, initialized, result>>
  BY DEF RequirePrerequisite, At, Call, counts
<1>2. f \in Frames
  BY <1>1, TopFacts DEF ModulesInv
<1>3. x \in AllModules
  BY <1>1, <1>2, FrameAt
<1>4. prerequisites_names[x] \in Seq(Names) /\ prerequisites[x] \in Seq(AllModules)
  BY <1>3, ModulesAssumption DEF ModulesInv, HeldInv, CountsType, Lists
<1>5. n \in Names
  BY <1>1, <1>4
<1>6. r \in Frames /\ Asked(r) = n
  BY <1>5, FrameFacts DEF Asked, require
<1>7. Asks(f, r, prerequisites)
  BY <1>1, <1>6 DEF Asks, IsNext
<1>8. result' \notin AllModules
  BY <1>1, NotModules
<1>9. f.at \in ByName /\ Frame = f
  BY <1>1 DEF ByName
<1> HIDE DEF r, n, x, f
<1> QED
  BY <1>1, <1>2, <1>6, <1>7, <1>8, <1>9, CallAsked

LEMMA MissAsked ==
  ASSUME ModulesInv, AskInv, MissPrerequisite
  PROVE  AskInv'
<1> DEFINE g == undoing(Frame.m, Frame.l, 1)
<1>1. /\ stack # << >> /\ Frame.at = "acquiring" /\ stack' = Append(Under, g)
      /\ result' = Nothing /\ UNCHANGED <<prerequisites, initialized>>
  BY DEF MissPrerequisite, At, Goto, GiveUp, counts
<1>2. Frame \in Frames
  BY <1>1, TopFacts DEF ModulesInv
<1>3. Frame.m \in AllModules /\ Frame.l \in Libraries \cup {NoLibrary}
  BY <1>1, <1>2, FrameAt
<1>4. g \in Frames
  BY <1>3, FrameFacts
<1>5. Asked(g) = Asked(Frame) /\ Frame.at \in ByName
  BY <1>1 DEF Asked, undoing, ByName
<1>6. result' \notin AllModules
  BY <1>1, NotModules
<1> HIDE DEF g
<1> QED
  BY <1>1, <1>4, <1>5, <1>6, GotoAsked

LEMMA GiveBackAsked ==
  ASSUME ModulesInv, AskInv, UndoPrerequisite \/ ReleasePrerequisite
  PROVE  AskInv'
<1> DEFINE g == [Frame EXCEPT !.i = Frame.i + 1]
           r == release(prerequisites[Frame.m][Frame.i])
           v == Append(Under, g)
<1>1. /\ stack # << >> /\ Frame.at \in {"undoing", "releasing"}
      /\ Frame.i <= Len(prerequisites[Frame.m])
      /\ stack' = Append(v, r)
      /\ UNCHANGED <<prerequisites, initialized, result>>
  <2>1. CASE UndoPrerequisite
    BY <2>1 DEF UndoPrerequisite, At, Call, ToUndo, counts
  <2>2. CASE ReleasePrerequisite
    BY <2>2 DEF ReleasePrerequisite, At, Call, NextOne, counts
  <2> QED
    BY <2>1, <2>2
<1>2. Frame \in Frames /\ result = Nothing
  BY <1>1, TopFacts DEF ModulesInv
<1>3. /\ Frame.m \in AllModules /\ Frame.i \in Nat \ {0}
      /\ Frame.at = "undoing" => Frame.l \in Libraries \cup {NoLibrary} /\ Frame = undoing(Frame.m, Frame.l, Frame.i)
      /\ Frame.at = "releasing" => Frame = releasing(Frame.m, Frame.i)
  BY <1>1, <1>2, FrameAt
<1>4. /\ g \in Frames /\ g.at = Frame.at
      /\ g.at = "undoing" => Asked(g) = Asked(Frame)
  <2>1. CASE Frame.at = "undoing"
    <3>1. g = undoing(Frame.m, Frame.l, Frame.i + 1)
      BY <2>1, <1>3 DEF undoing
    <3>2. undoing(Frame.m, Frame.l, Frame.i + 1) \in Frames
      BY <2>1, <1>3, FrameFacts
    <3> QED
      BY <2>1, <3>1, <3>2 DEF undoing, Asked
  <2>2. CASE Frame.at = "releasing"
    <3>1. g = releasing(Frame.m, Frame.i + 1)
      BY <2>2, <1>3 DEF releasing
    <3>2. releasing(Frame.m, Frame.i + 1) \in Frames
      BY <2>2, <1>3, FrameFacts
    <3> QED
      BY <2>2, <3>1, <3>2 DEF releasing
  <2> QED
    BY <1>1, <2>1, <2>2
<1>5. r \in Frames
  <2>1. prerequisites[Frame.m] \in Seq(AllModules)
    BY <1>3 DEF ModulesInv, HeldInv, CountsType, Lists
  <2>2. prerequisites[Frame.m][Frame.i] \in AllModules
    BY <2>1, <1>1, <1>3
  <2> QED
    BY <2>2, FrameFacts
<1>6. Asks(g, r, prerequisites)
  BY <1>1, <1>4 DEF Asks
<1>7. g.at \notin ByName \/ (Frame.at \in ByName /\ Asked(g) = Asked(Frame))
  BY <1>1, <1>4 DEF ByName
<1>8. result' \notin AllModules
  BY <1>1, <1>2, NotModules
<1> HIDE DEF g, r
<1> QED
  BY <1>1, <1>4, <1>5, <1>6, <1>7, <1>8, CallAsked

\* Calls that wait for prerequisites of other modules see nothing of this.
LEMMA OthersAsked ==
  ASSUME ModulesInv, AskInv, stack # << >>, NEW x \in AllModules, Frame.m = x,
         Frame.at \in {"acquiring", "undoing", "releasing"},
         NEW qr, \A m \in AllModules : m # x => qr[m] = prerequisites[m]
  PROVE  IsAsked(Under, qr) /\ (Under # << >> => Asks(Under[Len(Under)], Frame, qr))
<1> DEFINE u == Under
           f == Frame
<1>1. /\ u \in Seq(Frames) /\ f \in Frames /\ Range(u) \subseteq Frames
      /\ \A S : /\ Count(stack, S) = Count(u, S) + One(f \in S)
                /\ Count(u, S) \in Nat
                /\ Count(u, S) = 0 <=> Range(u) \cap S = {}
  BY TopFacts DEF ModulesInv
<1>2. f \in Working(x)
  BY <1>1 DEF Working
<1>3. Count(stack, Working(x)) <= 1
  BY DEF ModulesInv, HeldInv, CallsInv
<1>4. Range(u) \cap Working(x) = {}
  BY <1>1, <1>2, <1>3 DEF One
<1>5. \A g \in Range(u) : g.at = "acquiring" => g.m \in AllModules /\ g.m # x
  <2> TAKE g \in Range(u)
  <2> HAVE g.at = "acquiring"
  <2>1. g \in Frames
    BY <1>1
  <2>2. g.m \in AllModules
    BY <2>1, FrameAt
  <2>3. g \in Working(g.m)
    BY <2>1 DEF Working
  <2> QED
    BY <2>2, <2>3, <1>4
<1>6. \A g \in Range(u) : \A h : Asks(g, h, prerequisites) => Asks(g, h, qr)
  BY <1>5 DEF Asks, IsNext
<1>7. \A j \in DOMAIN u : u[j] \in Range(u)
  BY DEF Range
<1>8. IsAsked(u, prerequisites) /\ (u # << >> => Asks(u[Len(u)], f, prerequisites))
  BY AskedTop
<1>9. u # << >> => Len(u) \in DOMAIN u
  BY <1>1
<1> QED
  BY <1>6, <1>7, <1>8, <1>9 DEF IsAsked

LEMMA GetAsked ==
  ASSUME ModulesInv, AskInv, GetPrerequisite
  PROVE  AskInv'
<1> DEFINE x == Frame.m
           n == Len(prerequisites[x]) + 1
<1>1. /\ stack # << >> /\ Frame.at = "acquiring" /\ result \in AllModules
      /\ prerequisites' = [prerequisites EXCEPT ![x] = Append(@, result)]
      /\ result' = Nothing /\ UNCHANGED <<stack, initialized>>
  BY DEF GetPrerequisite, At
<1>2. Under \in Seq(Frames) /\ Frame \in Frames /\ stack = Append(Under, Frame)
  BY <1>1, TopFacts DEF ModulesInv
<1>3. x \in AllModules
  BY <1>1, <1>2, FrameAt
<1>4. prerequisites \in Lists /\ prerequisites[x] \in Seq(AllModules)
  BY <1>3 DEF ModulesInv, HeldInv, CountsType, Lists
<1>5. IsNext(prerequisites, x, result[2])
  BY <1>1 DEF AskInv, Answers
<1>6. x \notin initialized
  <2>1. Frame \in Range(stack)
    BY <1>1, TopFacts DEF ModulesInv
  <2>2. IsBusy(Frame, x)
    BY <1>1 DEF IsBusy
  <2> QED
    BY <2>1, <2>2 DEF ModulesInv, HeldInv, BusyInv
<1>7. /\ prerequisites'[x] = Append(prerequisites[x], result)
      /\ \A m \in AllModules : m # x => prerequisites'[m] = prerequisites[m]
  BY <1>1, <1>3, <1>4 DEF Lists
<1>8. IsAsked(stack', prerequisites')
  <2>1. IsAsked(Under, prerequisites') /\ (Under # << >> => Asks(Under[Len(Under)], Frame, prerequisites'))
    BY <1>1, <1>3, <1>7, OthersAsked
  <2> QED
    BY <2>1, <1>1, <1>2, PushAsked
<1>9. IsNamed(prerequisites', x)
  <2> DEFINE s == prerequisites[x]
             t == Append(s, result)
  <2>1. s \in Seq(AllModules) /\ IsNamed(prerequisites, x)
    BY <1>3, <1>4 DEF AskInv
  <2>2. /\ Len(t) = Len(s) + 1 /\ Len(s) \in Nat /\ t[Len(s) + 1] = result
        /\ \A i \in 1 .. Len(s) : t[i] = s[i]
    BY <1>1, <2>1
  <2> HIDE DEF t
  <2>3. Len(s) < Len(prerequisites_names[x]) /\ result[2] = prerequisites_names[x][Len(s) + 1]
    BY <1>5 DEF IsNext
  <2>4. Len(prerequisites_names[x]) \in Nat
    BY <1>3, ModulesAssumption
  <2>5. Len(t) <= Len(prerequisites_names[x])
    BY <2>2, <2>3, <2>4
  <2>6. \A i \in 1 .. Len(s) : s[i][2] = prerequisites_names[x][i]
    BY <2>1 DEF IsNamed
  <2>7. \A i \in 1 .. Len(t) : t[i][2] = prerequisites_names[x][i]
    <3> TAKE i \in 1 .. Len(t)
    <3>1. CASE i \in 1 .. Len(s)
      BY <3>1, <2>2, <2>6
    <3>2. CASE i = Len(s) + 1
      BY <3>2, <2>2, <2>3
    <3> QED
      BY <3>1, <3>2, <2>2
  <2>8. prerequisites'[x] = t
    BY <1>7 DEF t
  <2> QED
    BY <2>5, <2>7, <2>8 DEF IsNamed
<1>10. \A m \in AllModules : IsNamed(prerequisites', m)
  <2> TAKE m \in AllModules
  <2>1. m # x => IsNamed(prerequisites', m)
    BY <1>7 DEF AskInv, IsNamed
  <2> QED
    BY <2>1, <1>9
<1>11. \A m \in initialized : Len(prerequisites'[m]) = Len(prerequisites_names[m])
  BY <1>6, <1>7 DEF AskInv, ModulesInv, HeldInv, CountsType
<1>12. Answers(Frame', result', prerequisites')
  BY <1>1, NotModules DEF Answers
<1> QED
  BY <1>1, <1>8, <1>10, <1>11, <1>12 DEF AskInv

LEMMA InitializeAsked ==
  ASSUME ModulesInv, AskInv, Initialize
  PROVE  AskInv'
<1> DEFINE x == Frame.m
<1>1. /\ stack # << >> /\ Frame.at = "acquiring" /\ stack' = Under /\ result' = x
      /\ Len(prerequisites[x]) = Len(prerequisites_names[x])
      /\ initialized' = initialized \cup {x} /\ UNCHANGED prerequisites
  BY DEF Initialize, At, Return
<1>2. IsAsked(Under, prerequisites) /\ (Under # << >> => Asks(Under[Len(Under)], Frame, prerequisites))
  BY <1>1, AskedTop
<1>3. Asked(Frame) = x[2] /\ Frame.at \in ByName
  BY <1>1 DEF Asked, ByName
<1>4. Under # << >> => Answers(Under[Len(Under)], result', prerequisites)
  BY <1>1, <1>2, <1>3 DEF Asks, Answers, ByName
<1>5. stack' # << >> => Answers(Frame', result', prerequisites')
  BY <1>1, <1>4 DEF Frame
<1>6. \A m \in initialized' : Len(prerequisites[m]) = Len(prerequisites_names[m])
  BY <1>1 DEF AskInv
<1> QED
  BY <1>1, <1>2, <1>5, <1>6 DEF AskInv

\* A module forgets its prerequisites: it failed, or they were given back.
LEMMA ForgetAsked ==
  ASSUME ModulesInv, AskInv, Fail \/ EndRelease
  PROVE  AskInv'
<1> DEFINE x == Frame.m
<1>1. /\ stack # << >> /\ Frame.at \in {"undoing", "releasing"} /\ stack' = Under
      /\ prerequisites' = [prerequisites EXCEPT ![x] = << >>]
      /\ UNCHANGED initialized
      /\ result' \in {NULL, result}
  BY DEF Fail, EndRelease, At, Return
<1>2. Frame \in Frames /\ Frame \in Range(stack) /\ result = Nothing
  BY <1>1, TopFacts DEF ModulesInv
<1>3. x \in AllModules
  BY <1>1, <1>2, FrameAt
<1>4. prerequisites \in Lists
  BY DEF ModulesInv, HeldInv, CountsType
<1>5. /\ prerequisites'[x] = << >>
      /\ \A m \in AllModules : m # x => prerequisites'[m] = prerequisites[m]
  BY <1>1, <1>3, <1>4 DEF Lists
<1>6. x \notin initialized
  <2>1. CASE Frame.at = "undoing"
    <3>1. IsBusy(Frame, x)
      BY <2>1 DEF IsBusy
    <3> QED
      BY <3>1, <1>2 DEF ModulesInv, HeldInv, BusyInv
  <2>2. CASE Frame.at = "releasing"
    BY <2>2, <1>2 DEF ModulesInv, HeldInv, BusyInv
  <2> QED
    BY <1>1, <2>1, <2>2
<1>7. IsAsked(stack', prerequisites')
  BY <1>1, <1>3, <1>5, OthersAsked
<1>8. \A m \in AllModules : IsNamed(prerequisites', m)
  <2> TAKE m \in AllModules
  <2>1. CASE m = x
    <3>1. Len(prerequisites_names[x]) \in Nat
      BY <1>3, ModulesAssumption
    <3> QED
      BY <2>1, <3>1, <1>5 DEF IsNamed
  <2>2. CASE m # x
    BY <2>2, <1>5 DEF AskInv, IsNamed
  <2> QED
    BY <2>1, <2>2
<1>9. \A m \in initialized' : Len(prerequisites'[m]) = Len(prerequisites_names[m])
  BY <1>1, <1>5, <1>6 DEF AskInv, ModulesInv, HeldInv, CountsType
<1>10. Answers(Frame', result', prerequisites')
  BY <1>1, <1>2, NotModules DEF Answers
<1> QED
  BY <1>7, <1>8, <1>9, <1>10 DEF AskInv

LEMMA LastUseAsked ==
  ASSUME ModulesInv, AskInv, ModuleRelease, LastUse(Frame.m)
  PROVE  AskInv'
<1> DEFINE g == releasing(Frame.m, 1)
<1>1. /\ stack # << >> /\ Frame.at = "module_release" /\ stack' = Append(Under, g)
      /\ initialized' \subseteq initialized /\ UNCHANGED <<prerequisites, result>>
  BY DEF ModuleRelease, At, Goto
<1>2. Frame \in Frames /\ result = Nothing
  BY <1>1, TopFacts DEF ModulesInv
<1>3. g \in Frames /\ g.at \notin ByName
  BY <1>1, <1>2, FrameAt, FrameFacts DEF releasing, ByName
<1> HIDE DEF g
<1>4. IsAsked(stack', prerequisites')
  BY <1>1, <1>3, AskedTop
<1>5. Answers(Frame', result', prerequisites')
  BY <1>1, <1>2, NotModules DEF Answers
<1>6. \A m \in AllModules : IsNamed(prerequisites', m)
  BY <1>1 DEF AskInv
<1> QED
  BY <1>1, <1>4, <1>5, <1>6 DEF AskInv

LEMMA ClientAsked ==
  ASSUME ModulesInv, AskInv, stack = << >>, UNCHANGED <<prerequisites, initialized, result>>,
         \/ stack' = stack
         \/ \E m \in AllModules : stack' = <<release(m)>>
         \/ \E n \in Names : stack' = <<requiring, require(n)>>
  PROVE  AskInv'
<1>1. result' \notin AllModules
  BY NotModules DEF ModulesInv, HeldInv, CallsInv, IsAwaited
<1>2. Answers(Frame', result', prerequisites')
  BY <1>1 DEF Answers
<1>3. IsAsked(stack', prerequisites)
  <2>1. CASE stack' = stack
    BY <2>1 DEF AskInv
  <2>2. ASSUME NEW m \in AllModules, stack' = <<release(m)>> PROVE IsAsked(stack', prerequisites)
    BY <2>2 DEF IsAsked
  <2>3. ASSUME NEW n \in Names, stack' = <<requiring, require(n)>> PROVE IsAsked(stack', prerequisites)
    <3>1. Asks(requiring, require(n), prerequisites)
      BY DEF Asks, requiring
    <3> DEFINE s == <<requiring, require(n)>>
    <3>2. DOMAIN s = 1 .. 2 /\ s[1] = requiring /\ s[2] = require(n)
      OBVIOUS
    <3> HIDE DEF s
    <3>3. \A j \in 1 .. 2 : j + 1 \in 1 .. 2 => j = 1
      OBVIOUS
    <3>4. IsAsked(s, prerequisites)
      BY <3>1, <3>2, <3>3 DEF IsAsked
    <3> QED
      BY <2>3, <3>4 DEF s
  <2> QED
    BY <2>1, <2>2, <2>3
<1>4. \A m \in AllModules : IsNamed(prerequisites', m)
  BY DEF AskInv
<1> QED
  BY <1>2, <1>3, <1>4 DEF AskInv

LEMMA NextAsked ==
  ASSUME ModulesInv, AskInv, [ModulesNext]_vars
  PROVE  AskInv'
<1>1. CASE FindModule \/ FindInLibrary \/ FindLibrary
  BY <1>1, FindAsked
<1>2. CASE FindNothing \/ NotInLibrary \/ EndRequire
  BY <1>2, ReturnAsked
<1>3. CASE RequirePrerequisite
  BY <1>3, RequireAsked
<1>4. CASE GetPrerequisite
  BY <1>4, GetAsked
<1>5. CASE Initialize
  BY <1>5, InitializeAsked
<1>6. CASE MissPrerequisite
  BY <1>6, MissAsked
<1>7. CASE UndoPrerequisite \/ ReleasePrerequisite
  BY <1>7, GiveBackAsked
<1>8. CASE ModuleRelease
  BY <1>8, LastUseAsked, ReturnAsked
<1>9. CASE Fail \/ EndRelease
  BY <1>9, ForgetAsked
<1>10. ASSUME NEW n \in Names, lttv_module_require(n) PROVE AskInv'
  <2>1. /\ stack = << >> /\ stack' = <<requiring, require(n)>>
        /\ UNCHANGED <<prerequisites, initialized, result>>
    BY <1>10 DEF lttv_module_require, counts
  <2> QED
    BY <2>1, ClientAsked
<1>11. ASSUME NEW m \in AllModules, lttv_module_release(m) PROVE AskInv'
  <2>1. /\ stack = << >> /\ stack' = <<release(m)>>
        /\ UNCHANGED <<prerequisites, initialized, result>>
    BY <1>11 DEF lttv_module_release
  <2> QED
    BY <2>1, ClientAsked
<1>12. CASE \/ \E n \in Names : lttv_library_load(n)
            \/ \E l \in Libraries : lttv_library_unload(l)
            \/ \E path \in Paths : lttv_library_path_add(path) \/ lttv_library_path_remove(path)
  <2>1. stack = << >> /\ stack' = stack /\ UNCHANGED <<prerequisites, initialized, result>>
    BY <1>12 DEF lttv_library_load, lttv_library_unload, lttv_library_path_add,
                 lttv_library_path_remove, PathsChange, counts
  <2> QED
    BY <2>1, ClientAsked
<1>13. CASE UNCHANGED vars
  <2>1. UNCHANGED <<prerequisites, initialized, result, stack>>
    BY <1>13 DEF vars, counts
  <2> QED
    BY <2>1 DEF AskInv, Frame
<1> QED
  BY <1>1, <1>2, <1>3, <1>4, <1>5, <1>6, <1>7, <1>8, <1>9, <1>10, <1>11, <1>12, <1>13
     DEF ModulesNext, Step

LEMMA InitAsked == Init => AskInv
<1> SUFFICES ASSUME Init PROVE AskInv
  OBVIOUS
<1>1. /\ stack = << >> /\ prerequisites = [m \in AllModules |-> << >>]
      /\ initialized = {main_module}
  BY DEF Init
<1>2. IsAsked(stack, prerequisites)
  BY <1>1 DEF IsAsked
<1>3. \A m \in AllModules : IsNamed(prerequisites, m)
  <2> TAKE m \in AllModules
  <2>1. Len(prerequisites_names[m]) \in Nat /\ prerequisites[m] = << >>
    BY <1>1, ModulesAssumption
  <2> QED
    BY <2>1 DEF IsNamed
<1>4. \A m \in initialized : Len(prerequisites[m]) = Len(prerequisites_names[m])
  BY <1>1, ModulesAssumption
<1> QED
  BY <1>1, <1>2, <1>3, <1>4 DEF AskInv

-----------------------------------------------------------------------------
(* The modules of the windows do not fail: what they need is in the        *)
(* library that is linked with the program, which stays as main holds a    *)
(* module of it.                                                           *)

IsGood(m, B) == m[2] \in B \cup {window_name}

IsLinked(B) == \A n \in B : <<builtin, n>> \in Range(modules_by_name[n])

SupplyInv(B) ==
  /\ require_count[main_module] > 0
  /\ IsLinked(B)
  /\ \A m \in failed : ~IsGood(m, B)
  /\ \A f \in Range(stack) : f.at = "undoing" => ~IsGood(f.m, B)
  /\ stack # << >> /\ Frame.at = "acquiring" /\ result = NULL => ~IsGood(Frame.m, B)

LEMMA SupplyFacts ==
  ASSUME ModulesInv, NEW B, IsSupplied(B), SupplyInv(B)
  PROVE  /\ use_count[main_module] > 0 /\ main_module \in modules[builtin]
         /\ \A n \in B : n \in Names /\ modules_by_name[n] # << >>
<1>1. main_module \in AllModules /\ library(main_module) = builtin /\ builtin \in Libraries
  BY ModulesAssumption
<1>2. use_count[main_module] > 0
  <2> DEFINE k == Cardinality(KeptPlaces(stack, prerequisites, main_module))
             h == Count(stack, Holding(main_module))
             i == One(main_module \in failed)
             j == One(result = main_module)
  <2>1. /\ use_count[main_module] = require_count[main_module] + k + h + i + j
        /\ require_count[main_module] \in Nat /\ k \in Nat /\ h \in Nat /\ i \in {0, 1} /\ j \in {0, 1}
    BY <1>1, UsesFacts DEF ModulesInv
  <2>2. require_count[main_module] > 0
    BY DEF SupplyInv
  <2> HIDE DEF k, h, i, j
  <2> QED
    BY <2>1, <2>2
<1>3. main_module \in modules[builtin]
  BY <1>1, <1>2 DEF ModulesInv, LoadedInv, ThereInv, IsThere
<1>4. \A n \in B : n \in Names
  BY <1>1, ModulesAssumption DEF IsSupplied, Range
<1>5. \A n \in B : modules_by_name[n] # << >>
  BY EmptyStack DEF SupplyInv, IsLinked
<1> QED
  BY <1>2, <1>3, <1>4, <1>5

LEMMA LoadLinked ==
  ASSUME ModulesInv, NEW B, IsSupplied(B), SupplyInv(B),
         NEW l \in Libraries, NEW as_file, LibraryLoad(l, as_file)
  PROVE  IsLinked(B)'
<1>1. CASE l \in Range(libraries)
  BY <1>1 DEF LibraryLoad, SupplyInv, IsLinked
<1>2. CASE l \notin Range(libraries)
  <2>1. modules_by_name' = [n \in Names |->
          IF <<l, n>> \in Registered(l) THEN Append(modules_by_name[n], <<l, n>>)
                                        ELSE modules_by_name[n]]
    BY <1>2 DEF LibraryLoad, LibraryAdd
  <2>2. \A n \in Names : Range(modules_by_name[n]) \subseteq Range(modules_by_name'[n])
    <3> TAKE n \in Names
    <3> DEFINE s == modules_by_name[n]
               m == <<l, n>>
    <3>1. s \in Seq(AllModules)
      BY DEF ModulesInv, LoadedInv, CatalogInv
    <3>2. m \in Registered(l) => m \in AllModules
      BY DEF Registered
    <3>3. modules_by_name'[n] = IF m \in Registered(l) THEN Append(s, m) ELSE s
      BY <2>1
    <3> HIDE DEF s, m
    <3>4. m \in AllModules => Range(Append(s, m)) = Range(s) \cup {m}
      BY <3>1, PushFacts
    <3> QED
      BY <3>2, <3>3, <3>4 DEF s
  <2> QED
    BY <2>2, SupplyFacts DEF SupplyInv, IsLinked
<1> QED
  BY <1>1, <1>2

\* The library that is linked with the program stays, for main's module does.
LEMMA UnloadLinked ==
  ASSUME ModulesInv, NEW B, IsSupplied(B), SupplyInv(B),
         NEW l \in Libraries, NEW locks, LibraryUnload(l, locks)
  PROVE  IsLinked(B)'
<1>1. CASE ~Unloadable(l, locks)
  BY <1>1 DEF LibraryUnload, registered, SupplyInv, IsLinked
<1>2. CASE Unloadable(l, locks)
  <2>1. l # builtin
    <3>1. \A m \in modules[l] : use_count[m] = 0
      BY <1>2 DEF Unloadable
    <3> QED
      BY <3>1, SupplyFacts
  <2>2. modules_by_name' = [n \in Names |->
          Keep(modules_by_name[n], Range(modules_by_name[n]) \ modules[l])]
    BY <1>2 DEF LibraryUnload, LibraryRemove
  <2>3. ASSUME NEW n \in B PROVE <<builtin, n>> \in Range(modules_by_name'[n])
    <3> DEFINE s == modules_by_name[n]
               S == Range(s) \ modules[l]
    <3>1. n \in Names /\ <<builtin, n>> \in Range(s)
      BY <2>3, SupplyFacts DEF SupplyInv, IsLinked
    <3>2. s \in Seq(AllModules) /\ modules_by_name'[n] = Keep(s, S)
      BY <2>2, <3>1 DEF ModulesInv, LoadedInv, CatalogInv
    <3>3. <<builtin, n>> \notin modules[l]
      <4>1. \A m \in modules[l] : library(m) = l
        BY DEF ModulesInv, LoadedInv, CatalogInv
      <4>2. library(<<builtin, n>>) = builtin
        BY DEF library
      <4> QED
        BY <2>1, <4>1, <4>2
    <3>4. <<builtin, n>> \in S
      BY <3>1, <3>3
    <3> HIDE DEF s
    <3>5. Range(Keep(s, S)) = Range(s) \cap S
      BY <3>2, KeepLemma
    <3> QED
      BY <3>1, <3>2, <3>4, <3>5
  <2> QED
    BY <2>3 DEF IsLinked
<1> QED
  BY <1>1, <1>2

LEMMA UnlockLinked ==
  ASSUME ModulesInv, NEW B, IsSupplied(B), SupplyInv(B),
         NEW l \in Libraries \cup {NoLibrary}, UnlockIfLoaded(l)
  PROVE  IsLinked(B)'
<1>1. CASE l = NoLibrary
  BY <1>1 DEF UnlockIfLoaded, loading, registered, SupplyInv, IsLinked
<1>2. CASE l # NoLibrary
  <2>1. LibraryUnload(l, locked_loaded[l] - 1)
    BY <1>2 DEF UnlockIfLoaded, Unlock
  <2> QED
    BY <1>2, <2>1, UnloadLinked
<1> QED
  BY <1>1, <1>2

LEMMA UseLinked ==
  ASSUME ModulesInv, NEW B, IsSupplied(B), SupplyInv(B),
         NEW m, NEW l \in Libraries \cup {NoLibrary}, Use(m, l)
  PROVE  IsLinked(B)'
<1>1. UNCHANGED loading \/ UnlockIfLoaded(l)
  BY DEF Use
<1> QED
  BY <1>1, UnlockLinked DEF loading, registered, SupplyInv, IsLinked

LEMMA NextLinked ==
  ASSUME ModulesInv, NEW B, IsSupplied(B), SupplyInv(B), [ModulesNext]_vars
  PROVE  IsLinked(B)'
<1>1. CASE FindModule
  BY <1>1, UseLinked DEF FindModule
<1>2. CASE FindInLibrary \/ NotInLibrary \/ Initialize \/ Fail \/ EndRelease \/ FindLibrary
  <2>1. stack # << >> /\ Frame.at \in {"loaded", "acquiring", "undoing", "releasing", "module_require"}
    BY <1>2 DEF FindInLibrary, NotInLibrary, Initialize, Fail, EndRelease, FindLibrary, At
  <2>2. Frame \in Frames
    BY <2>1, TopFacts DEF ModulesInv
  <2>3. CASE FindInLibrary
    <3>1. Frame.l \in Libraries
      BY <2>2, <2>3, FrameAt DEF FindInLibrary, At
    <3> QED
      BY <3>1, <2>3, UseLinked DEF FindInLibrary
  <2>4. CASE NotInLibrary
    <3>1. Frame.l \in Libraries /\ UnlockIfLoaded(Frame.l)
      BY <2>2, <2>4, FrameAt, ModulesAssumption DEF NotInLibrary, At, GiveUpLibrary, UnlockIfLoaded
    <3> QED
      BY <3>1, UnlockLinked
  <2>5. CASE Initialize \/ Fail
    <3>1. Frame.l \in Libraries \cup {NoLibrary} /\ UnlockIfLoaded(Frame.l)
      BY <2>2, <2>5, FrameAt DEF Initialize, Fail, At
    <3> QED
      BY <3>1, UnlockLinked
  <2>6. CASE EndRelease
    <3>1. Frame.m \in AllModules
      BY <2>2, <2>6, FrameAt DEF EndRelease, At
    <3>2. library(Frame.m) \in Libraries /\ library(Frame.m) # NoLibrary
      BY <3>1, NotModules, ModulesAssumption DEF library
    <3>3. UnlockIfLoaded(library(Frame.m))
      BY <3>2, <2>6 DEF EndRelease, UnlockIfLoaded
    <3> QED
      BY <3>2, <3>3, UnlockLinked
  <2>7. CASE FindLibrary
    <3>1. Frame.name \in Names
      BY <2>2, <2>7, FrameAt DEF FindLibrary, At
    <3>2. Opened(Frame.name) \in Libraries /\ LibraryLoad(Opened(Frame.name), FALSE)
      BY <3>1, <2>7, OpenedFacts DEF FindLibrary, ModulesInv, LoadedInv
    <3> QED
      BY <3>2, LoadLinked
  <2> QED
    BY <1>2, <2>3, <2>4, <2>5, <2>6, <2>7
<1>3. CASE \/ FindNothing \/ RequirePrerequisite \/ GetPrerequisite \/ MissPrerequisite
           \/ UndoPrerequisite \/ ModuleRelease \/ ReleasePrerequisite \/ EndRequire
  <2>1. UNCHANGED modules_by_name
    BY <1>3 DEF FindNothing, RequirePrerequisite, GetPrerequisite, MissPrerequisite,
                UndoPrerequisite, ModuleRelease, ReleasePrerequisite, EndRequire, loading, registered
  <2> QED
    BY <2>1 DEF SupplyInv, IsLinked
<1>4. ASSUME NEW n \in Names, lttv_library_load(n) PROVE IsLinked(B)'
  <2>1. CASE Opened(n) = NoLibrary
    BY <1>4, <2>1 DEF lttv_library_load, loading, registered, SupplyInv, IsLinked
  <2>2. CASE Opened(n) # NoLibrary
    <3>1. Opened(n) \in Libraries /\ LibraryLoad(Opened(n), TRUE)
      BY <1>4, <2>2, OpenedFacts DEF lttv_library_load, ModulesInv, LoadedInv
    <3> QED
      BY <3>1, LoadLinked
  <2> QED
    BY <2>1, <2>2
<1>5. ASSUME NEW l \in Libraries, lttv_library_unload(l) PROVE IsLinked(B)'
  <2>1. CASE load_count[l] # 0
    BY <1>5, <2>1 DEF lttv_library_unload, registered, SupplyInv, IsLinked
  <2>2. CASE load_count[l] = 0
    <3>1. LibraryUnload(l, locked_loaded[l])
      BY <1>5, <2>2 DEF lttv_library_unload
    <3> QED
      BY <3>1, UnloadLinked
  <2> QED
    BY <2>1, <2>2
<1>6. CASE \/ UNCHANGED vars
           \/ \E n \in Names : lttv_module_require(n)
           \/ \E m \in AllModules : lttv_module_release(m)
           \/ \E path \in Paths : lttv_library_path_add(path) \/ lttv_library_path_remove(path)
  <2>1. UNCHANGED modules_by_name
    BY <1>6 DEF vars, lttv_module_require, lttv_module_release, lttv_library_path_add,
                lttv_library_path_remove, PathsChange, loading, registered
  <2> QED
    BY <2>1 DEF SupplyInv, IsLinked
<1> QED
  BY <1>1, <1>2, <1>3, <1>4, <1>5, <1>6 DEF ModulesNext, Step

\* What the modules of the windows, and what they need, ask for is linked.
LEMMA GoodAsks ==
  ASSUME ModulesInv, AskInv, NEW B, IsSupplied(B), stack # << >>, Frame.at \in ByName,
         Under # << >>, Under[Len(Under)].at = "acquiring", IsGood(Under[Len(Under)].m, B)
  PROVE  Asked(Frame) \in B
<1> DEFINE f == Under[Len(Under)]
           x == f.m
<1>1. IsNext(prerequisites, x, Asked(Frame))
  BY AskedTop DEF Asks, ByName
<1>2. Under \in Seq(Frames) /\ f \in Frames
  BY TopFacts DEF ModulesInv
<1>3. x \in AllModules
  BY <1>2, FrameAt
<1>4. prerequisites[x] \in Seq(AllModules) /\ prerequisites_names[x] \in Seq(Names)
  BY <1>3, ModulesAssumption DEF ModulesInv, HeldInv, CountsType, Lists
<1>5. Asked(Frame) \in Range(prerequisites_names[x])
  BY <1>1, <1>4 DEF IsNext, Range
<1>6. Range(prerequisites_names[x]) \subseteq B
  BY <1>3 DEF IsSupplied, IsGood
<1> QED
  BY <1>5, <1>6

\* A step after which no other module has failed.
LEMMA QuietSupply ==
  ASSUME ModulesInv, NEW B, IsSupplied(B), SupplyInv(B), [ModulesNext]_vars,
         require_count'[main_module] > 0, result' # NULL, failed' \subseteq failed,
         \A f \in Range(stack') : f.at = "undoing" =>
           \E h \in Range(stack) : h.at = "undoing" /\ h.m = f.m
  PROVE  SupplyInv(B)'
<1>1. IsLinked(B)'
  BY NextLinked
<1>2. \A f \in Range(stack') : f.at = "undoing" => ~IsGood(f.m, B)
  BY DEF SupplyInv
<1> QED
  BY <1>1, <1>2 DEF SupplyInv

\* A call ends without a module.
LEMMA NoneSupply ==
  ASSUME ModulesInv, AskInv, NEW B, IsSupplied(B), SupplyInv(B), [ModulesNext]_vars,
         require_count'[main_module] > 0, stack # << >>, stack' = Under,
         Frame.at \in ByName, NEW x, failed' \subseteq failed \cup {x},
         ~IsGood(x, B), Asked(Frame) \notin B
  PROVE  SupplyInv(B)'
<1>1. IsLinked(B)'
  BY NextLinked
<1>2. Range(Under) \subseteq Range(stack)
  BY TopFacts DEF ModulesInv
<1>3. \A f \in Range(stack') : f.at = "undoing" => ~IsGood(f.m, B)
  BY <1>2 DEF SupplyInv
<1>4. stack' # << >> /\ stack'[Len(stack')].at = "acquiring" => ~IsGood(stack'[Len(stack')].m, B)
  BY GoodAsks
<1>5. Frame' = stack'[Len(stack')]
  BY DEF Frame
<1>6. \A m \in failed' : ~IsGood(m, B)
  BY DEF SupplyInv
<1> QED
  BY <1>1, <1>3, <1>4, <1>5, <1>6 DEF SupplyInv

LEMMA FailSupply ==
  ASSUME ModulesInv, AskInv, NEW B, IsSupplied(B), SupplyInv(B),
         require_count'[main_module] > 0, FindNothing \/ NotInLibrary \/ Fail \/ MissPrerequisite
  PROVE  SupplyInv(B)'
<1>1. [ModulesNext]_vars
  BY DEF ModulesNext, Step
<1>2. CASE FindNothing \/ NotInLibrary
  <2>1. /\ stack # << >> /\ stack' = Under /\ Frame.at \in {"module_require", "loaded"}
        /\ modules_by_name[Frame.name] = << >> /\ failed' = failed
    BY <1>2 DEF FindNothing, NotInLibrary, At, Return, counts
  <2>2. Asked(Frame) = Frame.name /\ Frame.at \in ByName
    BY <2>1 DEF Asked, ByName
  <2>3. Asked(Frame) \notin B
    BY <2>1, <2>2, SupplyFacts
  <2>4. CASE failed = {}
    <3>1. IsLinked(B)'
      BY <1>1, NextLinked
    <3>2. Range(Under) \subseteq Range(stack)
      BY <2>1, TopFacts DEF ModulesInv
    <3>3. stack' # << >> /\ Frame'.at = "acquiring" => ~IsGood(Frame'.m, B)
      BY <2>1, <2>2, <2>3, GoodAsks DEF Frame
    <3> QED
      BY <2>1, <2>4, <3>1, <3>2, <3>3 DEF SupplyInv
  <2>5. ASSUME NEW x \in failed PROVE SupplyInv(B)'
    <3>1. ~IsGood(x, B)
      BY <2>5 DEF SupplyInv
    <3>2. failed' \subseteq failed \cup {x}
      BY <2>1
    <3> QED
      BY <1>1, <2>1, <2>2, <2>3, <3>1, <3>2, NoneSupply
  <2> QED
    BY <2>4, <2>5
<1>3. CASE Fail
  <2>1. /\ stack # << >> /\ stack' = Under /\ Frame.at = "undoing"
        /\ failed' = failed \cup {Frame.m}
    BY <1>3 DEF Fail, At, Return
  <2>2. Frame \in Range(stack)
    BY <2>1, TopFacts DEF ModulesInv
  <2>3. ~IsGood(Frame.m, B)
    BY <2>1, <2>2 DEF SupplyInv
  <2>4. Frame.at \in ByName /\ Asked(Frame) \notin B
    BY <2>1, <2>3 DEF Asked, ByName, IsGood
  <2>5. failed' \subseteq failed \cup {Frame.m}
    BY <2>1
  <2> QED
    BY <1>1, <2>1, <2>3, <2>4, <2>5, NoneSupply
<1>4. CASE MissPrerequisite
  <2> DEFINE g == undoing(Frame.m, Frame.l, 1)
  <2>1. /\ stack # << >> /\ stack' = Append(Under, g) /\ Frame.at = "acquiring" /\ result = NULL
        /\ failed' = failed /\ result' = Nothing
    BY <1>4 DEF MissPrerequisite, At, Goto, GiveUp, counts
  <2>2. /\ Under \in Seq(Frames) /\ Frame \in Frames /\ Range(stack) = Range(Under) \cup {Frame}
    BY <2>1, TopFacts DEF ModulesInv
  <2>3. ~IsGood(Frame.m, B) /\ g.m = Frame.m
    BY <2>1 DEF SupplyInv, undoing
  <2>4. g \in Frames
    BY <2>1, <2>2, FrameAt, FrameFacts
  <2>5. g.at = "undoing"
    BY DEF undoing
  <2> HIDE DEF g
  <2>6. Range(stack') = Range(Under) \cup {g}
    BY <2>1, <2>2, <2>4, PushFacts
  <2>7. \A f \in Range(stack') : f.at = "undoing" => ~IsGood(f.m, B)
    BY <2>2, <2>3, <2>6 DEF SupplyInv
  <2>8. IsLinked(B)' /\ result' # NULL
    BY <1>1, <2>1, NextLinked, NotModules
  <2> QED
    BY <2>1, <2>7, <2>8 DEF SupplyInv
<1> QED
  BY <1>2, <1>3, <1>4

\* Steps that end well or go on: what they put on the stack in place of the
\* top undoes nothing that was not being undone.
LEMMA PushSupply ==
  ASSUME ModulesInv, stack # << >>, NEW g \in Frames,
         stack' = Append(Under, g) \/ \E r \in Frames : r.at # "undoing" /\ stack' = Append(Append(Under, g), r),
         g.at = "undoing" => Frame.at = "undoing" /\ g.m = Frame.m
  PROVE  \A f \in Range(stack') : f.at = "undoing" =>
           \E h \in Range(stack) : h.at = "undoing" /\ h.m = f.m
<1> DEFINE v == Append(Under, g)
<1>1. Under \in Seq(Frames) /\ Range(stack) = Range(Under) \cup {Frame}
  BY TopFacts DEF ModulesInv
<1>2. v \in Seq(Frames) /\ Range(v) = Range(Under) \cup {g}
  BY <1>1, PushFacts
<1>3. stack' = v \/ \E r \in Frames : r.at # "undoing" /\ stack' = Append(v, r)
  OBVIOUS
<1> HIDE DEF v
<1>4. \A r \in Frames : Range(Append(v, r)) = Range(v) \cup {r}
  BY <1>2, PushFacts
<1>5. Range(stack') \subseteq Range(v) \/ \E r \in Frames : r.at # "undoing" /\ Range(stack') = Range(v) \cup {r}
  BY <1>3, <1>4
<1> QED
  BY <1>1, <1>2, <1>5

LEMMA StepSupply ==
  ASSUME ModulesInv, AskInv, NEW B, IsSupplied(B), SupplyInv(B), Step,
         require_count'[main_module] > 0
  PROVE  SupplyInv(B)'
<1> DEFINE Undoes == \A f \in Range(stack') : f.at = "undoing" =>
                       \E h \in Range(stack) : h.at = "undoing" /\ h.m = f.m
<1>1. [ModulesNext]_vars
  BY DEF ModulesNext
<1>2. ASSUME result' # NULL, failed' \subseteq failed, Undoes
      PROVE  SupplyInv(B)'
  BY <1>1, <1>2, QuietSupply
<1>3. stack # << >> /\ stack' = Under => Undoes
  <2>1. stack # << >> => Range(Under) \subseteq Range(stack)
    BY TopFacts DEF ModulesInv
  <2> QED
    BY <2>1
<1>4. stack # << >> => Frame \in Frames /\ (Frame.at \notin {"acquiring", "lttv_module_require"} => result = Nothing)
  BY TopFacts DEF ModulesInv
<1>5. ASSUME NEW m \in AllModules, NEW l \in Libraries \cup {NoLibrary}, Use(m, l),
             stack # << >>, Frame.at \in {"module_require", "loaded"}
      PROVE  SupplyInv(B)'
  <2>1. failed' = failed /\ result' \in {m, result} /\ result = Nothing
    BY <1>4, <1>5 DEF Use, Return
  <2>2. stack' = Under \/ stack' = Append(Under, acquiring(m, l))
    BY <1>5 DEF Use, Return, Goto
  <2>3. acquiring(m, l) \in Frames /\ acquiring(m, l).at # "undoing"
    BY FrameFacts DEF acquiring
  <2>4. Undoes
    BY <1>3, <1>5, <2>2, <2>3, PushSupply
  <2>5. result' # NULL
    BY <2>1, NotModules
  <2> QED
    BY <1>2, <2>1, <2>4, <2>5
<1>6. CASE FindModule \/ FindInLibrary
  <2>1. stack # << >> /\ Frame.at \in {"module_require", "loaded"} /\ modules_by_name[Frame.name] # << >>
    BY <1>6 DEF FindModule, FindInLibrary, At
  <2>2. Frame.name \in Names /\ (Frame.at = "loaded" => Frame.l \in Libraries)
    BY <2>1, <1>4, FrameAt
  <2>3. Named(Frame.name) \in AllModules
    BY <2>1, <2>2, NamedFacts DEF ModulesInv, LoadedInv
  <2> QED
    BY <1>5, <1>6, <2>1, <2>2, <2>3 DEF FindModule, FindInLibrary, At
<1>7. CASE FindLibrary
  <2> DEFINE g == loaded(Frame.name, Opened(Frame.name))
  <2>1. /\ stack # << >> /\ Frame.at = "module_require" /\ stack' = Append(Under, g)
        /\ result' = result /\ failed' = failed /\ Opened(Frame.name) # NoLibrary
    BY <1>7 DEF FindLibrary, At, Goto, counts
  <2>2. Frame.name \in Names /\ Opened(Frame.name) \in Libraries
    BY <2>1, <1>4, FrameAt, OpenedFacts DEF ModulesInv, LoadedInv
  <2>3. g \in Frames /\ g.at # "undoing"
    BY <2>2, FrameFacts DEF loaded
  <2> HIDE DEF g
  <2>4. Undoes
    BY <2>1, <2>3, PushSupply
  <2>5. result' # NULL
    BY <2>1, <1>4, NotModules
  <2> QED
    BY <1>2, <2>1, <2>4, <2>5
<1>8. CASE Initialize \/ EndRequire \/ EndRelease
  <2>1. /\ stack # << >> /\ stack' = Under /\ failed' = failed
        /\ Frame.at \in {"acquiring", "lttv_module_require", "releasing"}
        /\ \/ Frame.at = "acquiring" /\ result' = Frame.m
           \/ result' = Nothing
           \/ Frame.at = "releasing" /\ result' = result
    BY <1>8 DEF Initialize, EndRequire, EndRelease, At, Return
  <2>2. Frame.at = "acquiring" => Frame.m \in AllModules
    BY <2>1, <1>4, FrameAt
  <2>3. result' # NULL
    BY <2>1, <2>2, <1>4, NotModules
  <2> QED
    BY <1>2, <1>3, <2>1, <2>3
<1>9. CASE RequirePrerequisite \/ UndoPrerequisite \/ ReleasePrerequisite
  <2>1. /\ stack # << >> /\ result' = result /\ failed' = failed /\ result = Nothing
    BY <1>9, <1>4 DEF RequirePrerequisite, UndoPrerequisite, ReleasePrerequisite, At, Call, counts
  <2>2. Undoes
    <3>1. CASE RequirePrerequisite
      <4> DEFINE r == require(prerequisites_names[Frame.m][Len(prerequisites[Frame.m]) + 1])
      <4>1. Frame.at = "acquiring" /\ stack' = Append(Append(Under, Frame), r)
            /\ Len(prerequisites[Frame.m]) < Len(prerequisites_names[Frame.m])
        BY <3>1 DEF RequirePrerequisite, At, Call
      <4>2. Frame.m \in AllModules
        BY <4>1, <2>1, <1>4, FrameAt
      <4>3. prerequisites_names[Frame.m] \in Seq(Names) /\ prerequisites[Frame.m] \in Seq(AllModules)
        BY <4>2, ModulesAssumption DEF ModulesInv, HeldInv, CountsType, Lists
      <4>4. r \in Frames /\ r.at # "undoing"
        BY <4>1, <4>3, FrameFacts DEF require
      <4> HIDE DEF r
      <4> QED
        BY <4>1, <4>4, <2>1, <1>4, PushSupply
    <3>2. CASE UndoPrerequisite \/ ReleasePrerequisite
      <4> DEFINE g == [Frame EXCEPT !.i = Frame.i + 1]
                 r == release(prerequisites[Frame.m][Frame.i])
      <4>1. /\ Frame.at \in {"undoing", "releasing"} /\ stack' = Append(Append(Under, g), r)
            /\ Frame.i <= Len(prerequisites[Frame.m])
        BY <3>2 DEF UndoPrerequisite, ReleasePrerequisite, At, Call, NextOne, ToUndo
      <4>2. /\ Frame.m \in AllModules /\ Frame.i \in Nat \ {0}
            /\ Frame.at = "undoing" => Frame.l \in Libraries \cup {NoLibrary} /\ Frame = undoing(Frame.m, Frame.l, Frame.i)
            /\ Frame.at = "releasing" => Frame = releasing(Frame.m, Frame.i)
        BY <4>1, <2>1, <1>4, FrameAt
      <4>3. g \in Frames /\ g.at = Frame.at /\ g.m = Frame.m
        <5>1. CASE Frame.at = "undoing"
          <6>1. g = undoing(Frame.m, Frame.l, Frame.i + 1)
            BY <5>1, <4>2 DEF undoing
          <6>2. undoing(Frame.m, Frame.l, Frame.i + 1) \in Frames
            BY <5>1, <4>2, FrameFacts
          <6> QED
            BY <5>1, <6>1, <6>2 DEF undoing
        <5>2. CASE Frame.at = "releasing"
          <6>1. g = releasing(Frame.m, Frame.i + 1)
            BY <5>2, <4>2 DEF releasing
          <6>2. releasing(Frame.m, Frame.i + 1) \in Frames
            BY <5>2, <4>2, FrameFacts
          <6> QED
            BY <5>2, <6>1, <6>2 DEF releasing
        <5> QED
          BY <4>1, <5>1, <5>2
      <4>4. r \in Frames /\ r.at # "undoing"
        <5>1. prerequisites[Frame.m] \in Seq(AllModules)
          BY <4>2 DEF ModulesInv, HeldInv, CountsType, Lists
        <5>2. prerequisites[Frame.m][Frame.i] \in AllModules
          BY <5>1, <4>1, <4>2
        <5> QED
          BY <5>2, FrameFacts DEF release
      <4> HIDE DEF g, r
      <4> QED
        BY <4>1, <4>3, <4>4, <2>1, PushSupply
    <3> QED
      BY <1>9, <3>1, <3>2
  <2>3. result' # NULL
    BY <2>1, NotModules
  <2> QED
    BY <1>2, <2>1, <2>2, <2>3
<1>10. CASE GetPrerequisite
  <2>1. stack' = stack /\ failed' = failed /\ result' = Nothing
    BY <1>10 DEF GetPrerequisite
  <2> QED
    BY <1>2, <2>1, NotModules
<1>11. CASE ModuleRelease
  <2> DEFINE g == releasing(Frame.m, 1)
  <2>1. /\ stack # << >> /\ Frame.at = "module_release" /\ failed' \subseteq failed
        /\ stack' \in {Under, Append(Under, g)} /\ result' = result
    BY <1>11 DEF ModuleRelease, At, Goto
  <2>2. g \in Frames /\ g.at # "undoing"
    BY <2>1, <1>4, FrameAt, FrameFacts DEF releasing
  <2> HIDE DEF g
  <2>3. Undoes
    BY <1>3, <2>1, <2>2, PushSupply
  <2>4. result' # NULL
    BY <2>1, <1>4, NotModules
  <2> QED
    BY <1>2, <2>1, <2>3, <2>4
<1> QED
  BY <1>6, <1>7, <1>8, <1>9, <1>10, <1>11, FailSupply DEF Step

-----------------------------------------------------------------------------
(* The menus of the windows.                                               *)

Windows == [menu : Seq(ViewerModules), viewers : SUBSET ViewerModules]

MenuInv ==
  /\ menu \in Seq(ViewerModules) /\ NoDuplicates(menu)
  /\ Range(menu) = initialized \cap ViewerModules
  /\ viewer_constructors \in [Names -> Range(menu) \cup {NULL}]
  /\ main_windows \in Seq(Windows)
  /\ \A i \in DOMAIN main_windows :
       main_windows[i].menu = menu /\ main_windows[i].viewers \subseteq Range(menu)

\* After any step the modules that are initialized are the same, one more or one less.
LEMMA StepInits ==
  ASSUME ModulesInv, Step
  PROVE  \/ initialized' = initialized
         \/ \E x \in AllModules : x \notin initialized /\ initialized' = initialized \cup {x}
         \/ \E x \in initialized : initialized' = initialized \ {x}
<1>1. CASE Initialize
  <2>1. stack # << >> /\ Frame.at = "acquiring" /\ initialized' = initialized \cup {Frame.m}
    BY <1>1 DEF Initialize, At
  <2>2. Frame \in Frames
    BY <2>1, TopFacts DEF ModulesInv
  <2>3. Frame.m \in AllModules
    BY <2>1, <2>2, FrameAt
  <2>4. Frame.m \in initialized => initialized' = initialized
    BY <2>1
  <2> QED
    BY <2>1, <2>3, <2>4
<1>2. CASE ModuleRelease
  <2>1. initialized' = initialized \/ initialized' = initialized \ {Frame.m}
    BY <1>2 DEF ModuleRelease
  <2>2. Frame.m \notin initialized => initialized' = initialized
    BY <2>1
  <2> QED
    BY <2>1, <2>2
<1>3. CASE ~Initialize /\ ~ModuleRelease
  BY <1>3 DEF Step, FindModule, FindInLibrary, Use, FindNothing, FindLibrary, NotInLibrary,
              RequirePrerequisite, GetPrerequisite, MissPrerequisite, UndoPrerequisite, Fail,
              ReleasePrerequisite, EndRelease, EndRequire, counts
<1> QED
  BY <1>1, <1>2, <1>3

LEMMA RemoveAtFacts ==
  ASSUME NEW T, NEW s \in Seq(T), NEW i \in DOMAIN s
  PROVE  LET r == RemoveAt(s, i) IN
         /\ r \in Seq(T) /\ DOMAIN r = 1 .. Len(s) - 1 /\ DOMAIN s = 1 .. Len(s) /\ Len(s) \in Nat
         /\ \A j \in DOMAIN r : r[j] = s[IF j < i THEN j ELSE j + 1]
<1> DEFINE u == SubSeq(s, 1, i - 1)
           v == SubSeq(s, i + 1, Len(s))
           r == u \o v
<1>1. i \in 1 .. Len(s) /\ Len(s) \in Nat /\ DOMAIN s = 1 .. Len(s)
  OBVIOUS
<1>2. u \in Seq(T) /\ Len(u) = i - 1 /\ \A j \in 1 .. i - 1 : u[j] = s[j]
  BY <1>1
<1>3. v \in Seq(T) /\ Len(v) = Len(s) - i /\ \A j \in 1 .. Len(s) - i : v[j] = s[i + j]
  BY <1>1
<1> HIDE DEF u, v
<1>4. /\ r \in Seq(T) /\ Len(r) = Len(u) + Len(v) /\ DOMAIN r = 1 .. Len(r)
      /\ \A j \in 1 .. Len(u) : r[j] = u[j]
      /\ \A j \in Len(u) + 1 .. Len(u) + Len(v) : r[j] = v[j - Len(u)]
  <2>1. u \in Seq(T) /\ v \in Seq(T)
    BY <1>2, <1>3
  <2> QED
    BY ONLY <2>1
<1> HIDE DEF r
<1>5. DOMAIN r = 1 .. Len(s) - 1
  BY <1>1, <1>2, <1>3, <1>4
<1>6. ASSUME NEW j \in 1 .. Len(s) - 1
      PROVE  r[j] = s[IF j < i THEN j ELSE j + 1]
  <2>1. CASE j < i
    <3>1. j \in 1 .. i - 1
      BY <1>1, <2>1
    <3> QED
      BY <2>1, <3>1, <1>2, <1>4
  <2>2. CASE ~(j < i)
    <3> DEFINE k == j - (i - 1)
    <3>1. k \in 1 .. Len(s) - i /\ j \in i .. (i - 1) + (Len(s) - i) /\ i + k = j + 1
      BY <1>1, <2>2
    <3>2. r[j] = v[k]
      <4>1. Len(u) = i - 1 /\ Len(v) = Len(s) - i
        BY <1>2, <1>3
      <4>2. j \in Len(u) + 1 .. Len(u) + Len(v) /\ k = j - Len(u)
        BY <4>1, <3>1, <1>1
      <4> HIDE DEF k
      <4> QED
        BY <4>2, <1>4
    <3>3. v[k] = s[i + k]
      BY <3>1, <1>3
    <3> HIDE DEF k
    <3> QED
      BY <2>2, <3>1, <3>2, <3>3
  <2> QED
    BY <2>1, <2>2
<1>7. RemoveAt(s, i) = r
  BY DEF RemoveAt, r, u, v
<1> QED
  BY <1>1, <1>4, <1>5, <1>6, <1>7

\* What is linked once is gone when it is removed.
LEMMA RemoveFirstFacts ==
  ASSUME NEW T, NEW s \in Seq(T), NoDuplicates(s), NEW e
  PROVE  LET r == RemoveFirst(s, e) IN
         r \in Seq(T) /\ NoDuplicates(r) /\ Range(r) = Range(s) \ {e}
<1> DEFINE I == {i \in 1 .. Len(s) : s[i] = e}
           r == RemoveFirst(s, e)
<1>1. r = IF \E i \in 1 .. Len(s) : s[i] = e THEN RemoveAt(s, IF I # {} THEN Min(I) ELSE 0) ELSE s
  BY Zenon DEF RemoveFirst, SelectInSeq
<1>2. I \subseteq Nat /\ I \subseteq 1 .. Len(s) /\ ((\E i \in 1 .. Len(s) : s[i] = e) <=> I # {})
  OBVIOUS
<1>3. DOMAIN s = 1 .. Len(s) /\ Len(s) \in Nat
  OBVIOUS
<1>4. CASE I = {}
  <2>1. e \notin Range(s)
    BY <1>3, <1>4 DEF Range
  <2>2. r = s
    BY <1>1, <1>2, <1>4
  <2> QED
    BY <2>1, <2>2
<1>5. CASE I # {}
  <2> DEFINE i == Min(I)
             w == RemoveAt(s, i)
             At2(j) == IF j < i THEN j ELSE j + 1
  <2>1. i \in I
    <3> HIDE DEF I
    <3> QED
      BY <1>2, <1>5, MinFacts
  <2>2. i \in 1 .. Len(s) /\ s[i] = e
    BY <2>1
  <2>3. r = w
    BY <1>1, <1>2, <1>5
  <2> HIDE DEF I, i
  <2>4. /\ w \in Seq(T) /\ DOMAIN w = 1 .. Len(s) - 1
        /\ \A j \in DOMAIN w : w[j] = s[At2(j)]
    BY <1>3, <2>2, RemoveAtFacts
  <2> HIDE DEF w, r
  <2>5. \A j \in 1 .. Len(s) - 1 : At2(j) \in 1 .. Len(s) /\ At2(j) # i
    BY <1>3, <2>2
  <2>6. \A j, k \in 1 .. Len(s) - 1 : At2(j) = At2(k) => j = k
    BY <1>3, <2>2
  <2>7. \A k \in 1 .. Len(s) : k # i => \E j \in 1 .. Len(s) - 1 : At2(j) = k
    <3> TAKE k \in 1 .. Len(s)
    <3> HAVE k # i
    <3>1. CASE k < i
      <4>1. k \in 1 .. Len(s) - 1 /\ At2(k) = k
        BY <3>1, <1>3, <2>2
      <4> QED
        BY <4>1
    <3>2. CASE k > i
      <4>1. k - 1 \in 1 .. Len(s) - 1 /\ At2(k - 1) = k
        BY <3>2, <1>3, <2>2
      <4> QED
        BY <4>1
    <3> QED
      BY <3>1, <3>2, <1>3, <2>2
  <2> HIDE DEF At2
  <2>8. NoDuplicates(w)
    BY <2>4, <2>5, <2>6, <1>3 DEF NoDuplicates
  <2>9. Range(w) \subseteq Range(s) \ {e}
    BY <2>2, <2>4, <2>5, <1>3 DEF NoDuplicates, Range
  <2>10. Range(s) \ {e} \subseteq Range(w)
    <3> SUFFICES ASSUME NEW x \in Range(s) \ {e} PROVE x \in Range(w)
      OBVIOUS
    <3>1. PICK k \in 1 .. Len(s) : s[k] = x
      BY <1>3 DEF Range
    <3>2. k # i
      BY <2>2, <3>1
    <3>3. PICK j \in 1 .. Len(s) - 1 : At2(j) = k
      BY <2>7, <3>2
    <3> QED
      BY <2>4, <3>1, <3>3 DEF Range
  <2> QED
    BY <2>3, <2>4, <2>8, <2>9, <2>10 DEF r
<1> QED
  BY <1>4, <1>5

\* The menus, the names and the windows follow a module that is initialized,
LEMMA RegisterMenus ==
  ASSUME MenuInv, NEW m \in ViewerModules, m \notin initialized,
         initialized' = initialized \cup {m}, lttvwindow_register_constructor(m)
  PROVE  MenuInv'
<1>1. /\ menu' = Append(menu, m)
      /\ main_windows' = [i \in DOMAIN main_windows |-> add_constructor(m, main_windows[i])]
      /\ viewer_constructors' = [viewer_constructors EXCEPT ![m[2]] = m]
  BY DEF lttvwindow_register_constructor
<1>2. menu \in Seq(ViewerModules) /\ m \notin Range(menu)
  BY DEF MenuInv
<1>3. menu' \in Seq(ViewerModules) /\ Range(menu') = Range(menu) \cup {m}
  BY <1>1, <1>2, PushFacts
<1>4. NoDuplicates(menu')
  <2>1. /\ DOMAIN menu' = 1 .. Len(menu) + 1 /\ DOMAIN menu = 1 .. Len(menu) /\ Len(menu) \in Nat
        /\ menu'[Len(menu) + 1] = m /\ \A j \in 1 .. Len(menu) : menu'[j] = menu[j]
    BY <1>1, <1>2
  <2>2. \A j \in 1 .. Len(menu) : menu[j] # m
    BY <1>2, <2>1 DEF Range
  <2> QED
    BY <2>1, <2>2 DEF MenuInv, NoDuplicates
<1>5. viewer_constructors' \in [Names -> Range(menu') \cup {NULL}]
  BY <1>1, <1>3 DEF MenuInv
<1>6. \A i \in DOMAIN main_windows :
        /\ main_windows[i] \in Windows /\ main_windows[i].menu = menu
        /\ main_windows[i].viewers \subseteq Range(menu)
  BY DEF MenuInv
<1>7. \A i \in DOMAIN main_windows' :
        /\ main_windows'[i] \in Windows /\ main_windows'[i].menu = menu'
        /\ main_windows'[i].viewers \subseteq Range(menu')
  <2> TAKE i \in DOMAIN main_windows'
  <2>1. i \in DOMAIN main_windows /\ main_windows'[i] = [main_windows[i] EXCEPT !.menu = Append(@, m)]
    BY <1>1 DEF add_constructor
  <2> DEFINE V == main_windows[i].viewers
  <2>2. main_windows'[i] = [menu |-> menu', viewers |-> V] /\ V \in SUBSET ViewerModules
    BY <2>1, <1>1, <1>6 DEF Windows
  <2>3. V \subseteq Range(menu')
    BY <2>1, <1>3, <1>6
  <2> HIDE DEF V
  <2>4. main_windows'[i].menu = menu' /\ main_windows'[i].viewers = V
    BY <2>2
  <2>5. main_windows'[i] \in Windows
    BY <2>2, <1>3 DEF Windows
  <2> QED
    BY <2>3, <2>4, <2>5
<1>8. main_windows' \in Seq(Windows)
  <2>1. DOMAIN main_windows = 1 .. Len(main_windows) /\ Len(main_windows) \in Nat
    BY DEF MenuInv
  <2>2. DOMAIN main_windows' = 1 .. Len(main_windows) /\ main_windows' = [i \in 1 .. Len(main_windows) |-> main_windows'[i]]
    BY <1>1, <2>1
  <2> QED
    BY <1>7, <2>1, <2>2
<1>9. Range(menu') = initialized' \cap ViewerModules
  BY <1>3 DEF MenuInv
<1> QED
  BY <1>3, <1>4, <1>5, <1>7, <1>8, <1>9 DEF MenuInv

\* and one that is destroyed.
LEMMA UnregisterMenus ==
  ASSUME MenuInv, NEW m \in ViewerModules,
         initialized' = initialized \ {m}, lttvwindow_unregister_constructor(m)
  PROVE  MenuInv'
<1>1. /\ menu' = RemoveFirst(menu, m)
      /\ main_windows' = [i \in DOMAIN main_windows |-> remove_constructor(m, main_windows[i])]
      /\ viewer_constructors' = Unnamed(m)
  BY DEF lttvwindow_unregister_constructor
<1>2. menu' \in Seq(ViewerModules) /\ NoDuplicates(menu') /\ Range(menu') = Range(menu) \ {m}
  <2>1. menu \in Seq(ViewerModules) /\ NoDuplicates(menu)
    BY DEF MenuInv
  <2> QED
    BY <1>1, <2>1, RemoveFirstFacts
<1>3. viewer_constructors' \in [Names -> Range(menu') \cup {NULL}]
  BY <1>1, <1>2 DEF MenuInv, Unnamed
<1>4. \A i \in DOMAIN main_windows :
        /\ main_windows[i] \in Windows /\ main_windows[i].menu = menu
        /\ main_windows[i].viewers \subseteq Range(menu)
  BY DEF MenuInv
<1>5. \A i \in DOMAIN main_windows' :
        /\ main_windows'[i] \in Windows /\ main_windows'[i].menu = menu'
        /\ main_windows'[i].viewers \subseteq Range(menu')
  <2> TAKE i \in DOMAIN main_windows'
  <2>1. /\ i \in DOMAIN main_windows
        /\ main_windows'[i] = [menu |-> menu', viewers |-> main_windows[i].viewers \ {m}]
    BY <1>1, <1>4 DEF remove_constructor
  <2>2. main_windows[i].viewers \in SUBSET ViewerModules
    BY <2>1, <1>4 DEF Windows
  <2> QED
    BY <2>1, <2>2, <1>2, <1>4 DEF Windows
<1>6. main_windows' \in Seq(Windows)
  <2>1. DOMAIN main_windows = 1 .. Len(main_windows) /\ Len(main_windows) \in Nat
    BY DEF MenuInv
  <2>2. DOMAIN main_windows' = 1 .. Len(main_windows) /\ main_windows' = [i \in 1 .. Len(main_windows) |-> main_windows'[i]]
    BY <1>1, <2>1
  <2> QED
    BY <1>5, <2>1, <2>2
<1>7. Range(menu') = initialized' \cap ViewerModules
  BY <1>2 DEF MenuInv
<1> QED
  BY <1>2, <1>3, <1>5, <1>6, <1>7 DEF MenuInv

LEMMA CallMenus ==
  ASSUME ModulesInv, MenuInv, CallStep
  PROVE  MenuInv'
<1>1. \/ \E m \in Inits : lttvwindow_register_constructor(m)
      \/ \E m \in Destroys : lttvwindow_unregister_constructor(m)
      \/ /\ Inits \cup Destroys = {}
         /\ UNCHANGED <<menu, viewer_constructors, main_windows>>
  BY DEF CallStep
<1>2. \/ initialized' = initialized
      \/ \E x \in AllModules : x \notin initialized /\ initialized' = initialized \cup {x}
      \/ \E x \in initialized : initialized' = initialized \ {x}
  BY StepInits DEF CallStep
<1>3. ASSUME NEW m \in Inits, lttvwindow_register_constructor(m) PROVE MenuInv'
  <2>1. m \in ViewerModules /\ m \notin initialized /\ initialized' = initialized \cup {m}
    BY <1>2, <1>3 DEF Inits
  <2> QED
    BY <2>1, <1>3, RegisterMenus
<1>4. ASSUME NEW m \in Destroys, lttvwindow_unregister_constructor(m) PROVE MenuInv'
  <2>1. m \in ViewerModules /\ initialized' = initialized \ {m}
    BY <1>2, <1>4 DEF Destroys
  <2> QED
    BY <2>1, <1>4, UnregisterMenus
<1>5. ASSUME Inits \cup Destroys = {}, UNCHANGED <<menu, viewer_constructors, main_windows>>
      PROVE  MenuInv'
  <2>1. initialized' \cap ViewerModules = initialized \cap ViewerModules
    BY <1>5 DEF Inits, Destroys
  <2> QED
    BY <2>1, <1>5 DEF MenuInv
<1> QED
  BY <1>1, <1>3, <1>4, <1>5

\* A window is created with all of the menu.
LEMMA NewWindow ==
  ASSUME MenuInv
  PROVE  LET w == construct_main_window IN
         w \in Windows /\ w.menu = menu /\ w.viewers \subseteq Range(menu)
<1> DEFINE V == {viewer_constructors[n] : n \in default_viewers} \ {NULL}
<1>1. default_viewers \subseteq Names
  BY WindowsAssumption
<1>2. V \subseteq Range(menu)
  BY <1>1 DEF MenuInv
<1>3. menu \in Seq(ViewerModules) /\ Range(menu) \subseteq ViewerModules
  BY DEF MenuInv
<1>4. construct_main_window = [menu |-> menu, viewers |-> V]
  BY DEF construct_main_window, add_all_menu_toolbar_constructors
<1> HIDE DEF V
<1> QED
  BY <1>2, <1>3, <1>4 DEF Windows

LEMMA SameMenus ==
  ASSUME MenuInv, UNCHANGED <<menu, viewer_constructors, initialized>>,
         main_windows' \in Seq(Windows),
         \A i \in DOMAIN main_windows' :
           main_windows'[i].menu = menu /\ main_windows'[i].viewers \subseteq Range(menu)
  PROVE  MenuInv'
BY DEF MenuInv

LEMMA NextMenus ==
  ASSUME ModulesInv, MenuInv, [WindowsNext]_all_vars
  PROVE  MenuInv'
<1> DEFINE w == construct_main_window
<1>1. CASE CallStep
  BY <1>1, CallMenus
<1>2. CASE \/ \E n \in Names : lttv_module_option(n) \/ on_load_library_activate(n)
           \/ \E l \in Libraries : on_unload_library_activate(l)
           \/ \E m \in AllModules : on_load_module_activate(m) \/ on_unload_module_activate(m)
           \/ \E path \in Paths : \/ lttv_module_path_option(path)
                                  \/ on_add_library_search_path_activate(path)
                                  \/ on_remove_library_search_path_activate(path)
           \/ UNCHANGED all_vars
  <2>1. UNCHANGED <<menu, viewer_constructors, main_windows, initialized>>
    BY <1>2 DEF lttv_module_option, on_load_library_activate, on_unload_library_activate,
         on_load_module_activate, on_unload_module_activate, lttv_module_path_option,
         on_add_library_search_path_activate, on_remove_library_search_path_activate, all_vars,
         window_vars, vars, counts, lttv_module_require, lttv_library_load, lttv_library_unload,
         lttv_module_release, lttv_library_path_add, lttv_library_path_remove, PathsChange
  <2> QED
    BY <2>1 DEF MenuInv
<1>3. CASE window_creation_hook
  <2>1. main_windows' = <<w>> /\ UNCHANGED <<menu, viewer_constructors, initialized>>
    BY <1>3 DEF window_creation_hook, vars, counts
  <2>2. w \in Windows /\ w.menu = menu /\ w.viewers \subseteq Range(menu)
    BY NewWindow
  <2> HIDE DEF w
  <2> QED
    BY <2>1, <2>2, SameMenus
<1>4. CASE create_new_window
  <2>1. main_windows' = Append(main_windows, w) /\ UNCHANGED <<menu, viewer_constructors, initialized>>
    BY <1>4 DEF create_new_window, vars, counts
  <2>2. w \in Windows /\ w.menu = menu /\ w.viewers \subseteq Range(menu)
    BY NewWindow
  <2> HIDE DEF w
  <2>3. main_windows \in Seq(Windows)
    BY DEF MenuInv
  <2>4. main_windows' \in Seq(Windows)
    BY <2>1, <2>2, <2>3
  <2>5. \A i \in DOMAIN main_windows' :
          main_windows'[i] = w \/ (i \in DOMAIN main_windows /\ main_windows'[i] = main_windows[i])
    BY <2>1, <2>3
  <2>6. \A i \in DOMAIN main_windows' :
          main_windows'[i].menu = menu /\ main_windows'[i].viewers \subseteq Range(menu)
    BY <2>2, <2>5 DEF MenuInv
  <2> QED
    BY <2>1, <2>4, <2>6, SameMenus
<1>5. CASE on_quit_activate
  <2>1. main_windows' = << >> /\ UNCHANGED <<menu, viewer_constructors, initialized>>
    BY <1>5 DEF on_quit_activate, CloseAll, vars, counts
  <2> QED
    BY <2>1, SameMenus
<1>6. ASSUME NEW i \in DOMAIN main_windows, on_MWindow_destroy(i)
      PROVE  MenuInv'
  <2>1. main_windows' = RemoveAt(main_windows, i) /\ UNCHANGED <<menu, viewer_constructors, initialized>>
    BY <1>6 DEF on_MWindow_destroy, CloseAll, vars, counts
  <2> DEFINE u == RemoveAt(main_windows, i)
  <2>2. main_windows \in Seq(Windows)
    BY DEF MenuInv
  <2>3. /\ u \in Seq(Windows) /\ DOMAIN u = 1 .. Len(main_windows) - 1
        /\ DOMAIN main_windows = 1 .. Len(main_windows) /\ Len(main_windows) \in Nat
        /\ \A j \in DOMAIN u : u[j] = main_windows[IF j < i THEN j ELSE j + 1]
    BY <2>2, RemoveAtFacts
  <2> HIDE DEF u
  <2>4. \A j \in 1 .. Len(main_windows) - 1 : (IF j < i THEN j ELSE j + 1) \in 1 .. Len(main_windows)
    BY <2>3
  <2>5. \A j \in DOMAIN u : \E k \in DOMAIN main_windows : u[j] = main_windows[k]
    BY <2>3, <2>4
  <2>6. \A j \in DOMAIN u : u[j].menu = menu /\ u[j].viewers \subseteq Range(menu)
    BY <2>5 DEF MenuInv
  <2>7. main_windows' = u
    BY <2>1 DEF u
  <2> QED
    BY <2>1, <2>3, <2>6, <2>7, SameMenus
<1>7. ASSUME NEW i \in DOMAIN main_windows, NEW m \in ViewerModules,
             insert_viewer(i, m) \/ delete_viewer(i, m)
      PROVE  MenuInv'
  <2> DEFINE old == main_windows[i].viewers
  <2>1. PICK V : /\ main_windows' = [main_windows EXCEPT ![i].viewers = V]
                 /\ (V = old \cup {m} /\ m \in Range(main_windows[i].menu)) \/ V = old \ {m}
    BY <1>7 DEF insert_viewer, delete_viewer, ChangeViewers
  <2>2. UNCHANGED <<menu, viewer_constructors, initialized>>
    BY <1>7 DEF insert_viewer, delete_viewer, ChangeViewers, vars, counts
  <2>3. /\ main_windows \in Seq(Windows) /\ main_windows[i] \in Windows
        /\ main_windows[i].menu = menu /\ old \subseteq Range(menu)
        /\ Range(menu) \subseteq ViewerModules
    BY DEF MenuInv
  <2>4. V \subseteq Range(menu)
    BY <2>1, <2>3
  <2> DEFINE x == [main_windows[i] EXCEPT !.viewers = V]
  <2>5. x \in Windows /\ x.menu = menu /\ x.viewers = V
    BY <2>3, <2>4 DEF Windows
  <2>6. main_windows' = [main_windows EXCEPT ![i] = x]
    BY <2>1
  <2> HIDE DEF x, old
  <2>7. main_windows' \in Seq(Windows)
    BY <2>3, <2>5, <2>6
  <2>8. \A j \in DOMAIN main_windows' :
          main_windows'[j].menu = menu /\ main_windows'[j].viewers \subseteq Range(menu)
    BY <2>3, <2>4, <2>5, <2>6 DEF MenuInv
  <2> QED
    BY <2>2, <2>7, <2>8, SameMenus
<1> QED
  BY <1>1, <1>2, <1>3, <1>4, <1>5, <1>6, <1>7 DEF WindowsNext

-----------------------------------------------------------------------------
(* Nothing that clients do takes main's module away.                       *)

LEMMA MainHeld ==
  ASSUME ModulesInv, require_count[main_module] > 0, [WindowsNext]_all_vars
  PROVE  require_count'[main_module] > 0
<1>1. main_module \in AllModules /\ require_count \in [AllModules -> Nat]
  BY ModulesAssumption DEF ModulesInv, HeldInv, CountsType
<1>2. ASSUME NEW m \in AllModules, on_unload_module_activate(m)
      PROVE  require_count'[main_module] > 0
  <2>1. /\ require_count' = [require_count EXCEPT ![m] = @ - 1]
        /\ m = main_module => require_count[m] > 1
    BY <1>2 DEF on_unload_module_activate, lttv_module_release, IsLeft
  <2> QED
    BY <2>1, <1>1
<1>3. CASE EndRequire
  <2>1. require_count' = IF result = NULL THEN require_count
                                         ELSE [require_count EXCEPT ![result] = @ + 1]
    BY <1>3 DEF EndRequire
  <2> QED
    BY <2>1, <1>1
<1>4. CASE Step /\ ~EndRequire
  <2>1. require_count' = require_count
    BY <1>4 DEF Step, FindModule, FindNothing, FindLibrary, FindInLibrary, NotInLibrary,
         RequirePrerequisite, GetPrerequisite, Initialize, MissPrerequisite, UndoPrerequisite,
         Fail, ModuleRelease, ReleasePrerequisite, EndRelease, Use, counts
  <2> QED
    BY <2>1
<1>5. CASE \/ \E n \in Names : lttv_module_option(n) \/ on_load_library_activate(n)
           \/ \E l \in Libraries : on_unload_library_activate(l)
           \/ \E m \in AllModules : on_load_module_activate(m)
           \/ \E path \in Paths : \/ lttv_module_path_option(path)
                                  \/ on_add_library_search_path_activate(path)
                                  \/ on_remove_library_search_path_activate(path)
  <2>1. require_count' = require_count
    BY <1>5 DEF lttv_module_option, on_load_library_activate, on_unload_library_activate,
         on_load_module_activate, lttv_module_path_option, on_add_library_search_path_activate,
         on_remove_library_search_path_activate, counts, lttv_module_require, lttv_library_load,
         lttv_library_unload, lttv_library_path_add, lttv_library_path_remove, PathsChange
  <2> QED
    BY <2>1
<1>6. CASE \/ window_creation_hook \/ create_new_window \/ on_quit_activate
           \/ \E i \in DOMAIN main_windows :
                \/ on_MWindow_destroy(i)
                \/ \E m \in ViewerModules : insert_viewer(i, m) \/ delete_viewer(i, m)
           \/ UNCHANGED all_vars
  <2>1. require_count' = require_count
    BY <1>6 DEF window_creation_hook, create_new_window, on_quit_activate, on_MWindow_destroy,
         CloseAll, insert_viewer, delete_viewer, ChangeViewers, all_vars, vars, counts
  <2> QED
    BY <2>1
<1> QED
  BY <1>2, <1>3, <1>4, <1>5, <1>6 DEF WindowsNext, CallStep

LEMMA NextSupply ==
  ASSUME ModulesInv, AskInv, NEW B, IsSupplied(B), SupplyInv(B), [WindowsNext]_all_vars
  PROVE  SupplyInv(B)'
<1> USE WindowsStep
<1>1. require_count'[main_module] > 0
  BY MainHeld DEF SupplyInv
<1>2. CASE Step
  BY <1>1, <1>2, StepSupply
<1>3. ASSUME stack = << >>, UNCHANGED <<failed, result>>,
             \/ stack' = stack
             \/ \E m \in AllModules : stack' = <<release(m)>>
             \/ \E n \in Names : stack' = <<requiring, require(n)>>
      PROVE  SupplyInv(B)'
  <2>1. result' # NULL
    BY <1>3, NotModules DEF ModulesInv, HeldInv, CallsInv, IsAwaited
  <2>2. \A f \in Range(stack') : f.at # "undoing"
    <3>1. CASE stack' = stack
      BY <1>3, <3>1 DEF Range
    <3>2. ASSUME NEW m \in AllModules, stack' = <<release(m)>>
          PROVE  \A f \in Range(stack') : f.at # "undoing"
      BY <3>2 DEF Range, release
    <3>3. ASSUME NEW n \in Names, stack' = <<requiring, require(n)>>
          PROVE  \A f \in Range(stack') : f.at # "undoing"
      BY <3>3 DEF Range, require, requiring
    <3> QED
      BY <1>3, <3>1, <3>2, <3>3
  <2> QED
    BY <1>1, <1>3, <2>1, <2>2, QuietSupply
<1>4. CASE \/ \E n \in Names : lttv_module_require(n) \/ lttv_library_load(n)
           \/ \E l \in Libraries : lttv_library_unload(l)
           \/ \E m \in AllModules : lttv_module_release(m)
           \/ \E path \in Paths : lttv_library_path_add(path) \/ lttv_library_path_remove(path)
  <2>1. /\ stack = << >> /\ UNCHANGED <<failed, result>>
        /\ \/ stack' = stack
           \/ \E m \in AllModules : stack' = <<release(m)>>
           \/ \E n \in Names : stack' = <<requiring, require(n)>>
    BY <1>4 DEF lttv_module_require, lttv_library_load, lttv_library_unload, lttv_module_release,
         lttv_library_path_add, lttv_library_path_remove, PathsChange, counts
  <2> QED
    BY <2>1, <1>3
<1>5. CASE UNCHANGED vars
  BY <1>5 DEF SupplyInv, IsLinked, Frame, vars, loading, registered, counts
<1> QED
  BY <1>2, <1>4, <1>5 DEF ModulesNext

LEMMA InitSupply ==
  ASSUME Init, NEW B, IsSupplied(B)
  PROVE  SupplyInv(B)
<1>1. /\ require_count[main_module] > 0 /\ failed = {} /\ stack = << >>
      /\ modules_by_name = [n \in Names |-> IF <<builtin, n>> \in AllModules
                                            THEN <<<<builtin, n>>>> ELSE << >>]
  BY ModulesAssumption DEF Init
<1>2. Range(stack) = {}
  BY <1>1, EmptyStack
<1>3. ASSUME NEW n \in B PROVE <<builtin, n>> \in Range(modules_by_name[n])
  <2> DEFINE b == <<builtin, n>>
  <2>1. modules_in[builtin] \in Seq(Names) /\ n \in Range(modules_in[builtin]) /\ builtin \in Libraries
    BY ModulesAssumption DEF IsSupplied
  <2>2. n \in Names
    BY <2>1 DEF Range
  <2>3. b \in AllModules
    BY <2>1, <2>2 DEF AllModules
  <2>4. modules_by_name[n] = <<b>>
    BY <1>1, <2>2, <2>3
  <2> HIDE DEF b
  <2>5. b \in Range(<<b>>)
    BY DEF Range
  <2> QED
    BY <2>4, <2>5 DEF b
<1> QED
  BY <1>1, <1>2, <1>3 DEF SupplyInv, IsLinked

\* main's module, which needs nothing, is no viewers' module.
LEMMA InitMenus ==
  ASSUME WindowsInit
  PROVE  MenuInv
<1> DEFINE e == << >>
<1>1. /\ menu = e /\ main_windows = e /\ initialized = {main_module}
      /\ viewer_constructors = [n \in Names |-> NULL]
  BY DEF WindowsInit, Init
<1>2. Range(e) = {} /\ DOMAIN e = {} /\ e \in Seq(ViewerModules) /\ e \in Seq(Windows)
  BY EmptyStack
<1>3. main_module \notin ViewerModules
  <2>1. Range(prerequisites_names[main_module]) = {}
    BY ModulesAssumption, EmptyStack
  <2> QED
    BY <2>1, WindowsAssumption
<1> HIDE DEF e
<1>4. NoDuplicates(e)
  BY <1>2 DEF NoDuplicates
<1> QED
  BY <1>1, <1>2, <1>3, <1>4 DEF MenuInv

\* A viewers' module that is initialized holds one of the windows, which has the
\* name it asked for, and is initialized as it did not fail.
LEMMA WindowsHeld ==
  ASSUME ModulesInv, NEW rank, ReadyInv(rank), AskInv, NEW B, SupplyInv(B),
         NEW m \in initialized \cap ViewerModules
  PROVE  \E w \in initialized : w[2] = window_name
<1>1. m \in AllModules /\ prerequisites[m] \in Seq(AllModules) /\ IsReady(m)
  BY WindowsAssumption DEF ModulesInv, HeldInv, CountsType, Lists, ReadyInv
<1>2. PICK i \in DOMAIN prerequisites_names[m] : prerequisites_names[m][i] = window_name
  BY WindowsAssumption DEF Range
<1>3. /\ Len(prerequisites[m]) = Len(prerequisites_names[m])
      /\ \A j \in 1 .. Len(prerequisites[m]) : prerequisites[m][j][2] = prerequisites_names[m][j]
  BY <1>1 DEF AskInv, IsNamed
<1>4. DOMAIN prerequisites_names[m] = 1 .. Len(prerequisites_names[m])
  BY <1>1, ModulesAssumption
<1> DEFINE w == prerequisites[m][i]
<1>5. w[2] = window_name /\ i \in DOMAIN prerequisites[m]
  BY <1>1, <1>2, <1>3, <1>4
<1>6. w \in initialized \cup failed
  BY <1>1, <1>5 DEF IsReady, Range
<1>7. w \notin failed
  BY <1>5 DEF SupplyInv, IsGood
<1> QED
  BY <1>5, <1>6, <1>7

LEMMA InvMenus ==
  ASSUME ModulesInv, NEW rank, ReadyInv(rank), AskInv, NEW B, SupplyInv(B), MenuInv
  PROVE  MenusFollowModules
<1>1. ASSUME menu # << >> PROVE \E w \in initialized : w[2] = window_name
  <2>1. menu \in Seq(ViewerModules) /\ Range(menu) = initialized \cap ViewerModules
    BY DEF MenuInv
  <2>2. menu[1] \in Range(menu)
    BY <2>1, <1>1 DEF Range
  <2> QED
    BY <2>1, <2>2, WindowsHeld
<1>2. \A n \in Names : viewer_constructors[n] \in Range(menu) \cup {NULL}
  BY DEF MenuInv
<1> QED
  BY <1>1, <1>2 DEF MenuInv, MenusFollowModules

\* Where no module needs itself by way of others, and what the module of the
\* windows needs, with all that this needs, is linked with the program: whatever
\* modules there are, and whatever windows and the command line do, the menu of
\* every window has just the constructors of the viewers' modules that are
\* initialized, once each, in the order of the global menu, no name and no viewer
\* leads to another, and a module of the windows is initialized whenever one of
\* theirs is.  A viewers' module may well fail; it gets into no menu.
THEOREM MenusAreTrue ==
  ASSUME NEW rank, IsOrder(rank), NEW B, IsSupplied(B)
  PROVE  WindowsSpec => []MenusFollowModules
<1> DEFINE Inv == AskInv /\ ReadyInv(rank) /\ SupplyInv(B) /\ MenuInv
<1>1. WindowsInit => Inv
  BY InitAsked, InitReady, InitSupply, InitMenus DEF WindowsInit
<1>2. ModulesInv /\ Inv /\ [WindowsNext]_all_vars => Inv'
  BY WindowsStep, NextAsked, NextReady, NextSupply, NextMenus
<1>3. ModulesInv /\ Inv => MenusFollowModules
  BY InvMenus
<1> QED
  BY <1>1, <1>2, <1>3, AlwaysInv, PTL DEF WindowsSpec
=============================================================================
