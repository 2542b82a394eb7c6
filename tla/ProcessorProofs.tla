---------------------------- MODULE ProcessorProofs ----------------------------
(***************************************************************************)
(* The modes of processors and interrupts of any traced system, which the  *)
(* state rebuilds at every switch and every interrupt.                     *)
(***************************************************************************)
EXTENDS StateTraceProofs, FiniteSetTheorems

-----------------------------------------------------------------------------
(* Stacks: of modes, and of the interrupts in service.                     *)

LEMMA PushedStack ==
  ASSUME NEW S, NEW s \in Seq(S), NEW x \in S
  PROVE  LET u == Append(s, x) IN
         /\ u \in Seq(S) /\ Len(u) = Len(s) + 1 /\ Len(s) \in Nat
         /\ DOMAIN s = 1 .. Len(s) /\ DOMAIN u = 1 .. Len(s) + 1
         /\ u[Len(s) + 1] = x /\ \A i \in 1 .. Len(s) : u[i] = s[i]
OBVIOUS

LEMMA PoppedStack ==
  ASSUME NEW S, NEW s \in Seq(S), s # <<>>
  PROVE  /\ Front1(s) \in Seq(S) /\ Len(Front1(s)) = Len(s) - 1 /\ Len(s) \in Nat \ {0}
         /\ DOMAIN s = 1 .. Len(s) /\ DOMAIN Front1(s) = 1 .. Len(s) - 1
         /\ Last1(s) \in S /\ Last1(s) = s[Len(s)]
         /\ \A i \in 1 .. Len(s) - 1 : Front1(s)[i] = s[i]
<1>1. Len(s) \in Nat \ {0} /\ DOMAIN s = 1 .. Len(s)
  OBVIOUS
<1> DEFINE n == Len(s) - 1
           u == SubSeq(s, 1, n)
<1>2. n \in Nat /\ n <= Len(s)
  BY <1>1
<1>3. u \in Seq(S) /\ Len(u) = n /\ \A i \in 1 .. n : u[i] = s[i]
  BY <1>1, <1>2
<1>4. DOMAIN u = 1 .. n
  BY <1>3
<1>5. Front1(s) = u
  BY DEF Front1
<1>6. s[Len(s)] \in S
  BY <1>1
<1> HIDE DEF u
<1> QED
  BY <1>1, <1>3, <1>4, <1>5, <1>6 DEF Last1

LEMMA NestedFacts ==
  ASSUME NEW S, NEW s \in Seq(S), NEW id
  PROVE  /\ IsFiniteSet({i \in DOMAIN s : s[i] = id})
         /\ Nested(s, id) \in Nat /\ Nested(s, id) <= Len(s)
         /\ (\A i \in 1 .. Len(s) : s[i] # id) => Nested(s, id) = 0
<1> DEFINE T == {i \in DOMAIN s : s[i] = id}
<1>1. Len(s) \in Nat /\ DOMAIN s = 1 .. Len(s)
  OBVIOUS
<1>2. IsFiniteSet(1 .. Len(s)) /\ Cardinality(1 .. Len(s)) = Len(s)
  BY <1>1, FS_Interval
<1>3. T \in SUBSET (1 .. Len(s))
  BY <1>1
<1>4. IsFiniteSet(T) /\ Cardinality(T) <= Len(s)
  BY <1>2, <1>3, FS_Subset
<1>5. Cardinality(T) \in Nat
  BY <1>4, FS_CardinalityType
<1>6. (\A i \in 1 .. Len(s) : s[i] # id) => T = {}
  BY <1>1
<1>7. (\A i \in 1 .. Len(s) : s[i] # id) => Cardinality(T) = 0
  BY <1>6, FS_EmptySet
<1> QED
  BY <1>4, <1>5, <1>7 DEF Nested

LEMMA NestedPush ==
  ASSUME NEW S, NEW s \in Seq(S), NEW x \in S, NEW id
  PROVE  Nested(Append(s, x), id) = IF x = id THEN Nested(s, id) + 1 ELSE Nested(s, id)
<1> DEFINE u == Append(s, x)
           T == {i \in DOMAIN s : s[i] = id}
           U == {i \in DOMAIN u : u[i] = id}
           n == Len(s) + 1
<1>1. /\ DOMAIN s = 1 .. Len(s) /\ DOMAIN u = 1 .. n /\ Len(s) \in Nat
      /\ u[n] = x /\ \A i \in 1 .. Len(s) : u[i] = s[i]
  BY PushedStack
<1> HIDE DEF u
<1>2. U = IF x = id THEN T \cup {n} ELSE T
  BY <1>1
<1>3. n \notin T
  BY <1>1
<1>4. IsFiniteSet(T)
  BY NestedFacts
<1> HIDE DEF n, T, U
<1>5. Cardinality(T \cup {n}) = Cardinality(T) + 1
  BY <1>3, <1>4, FS_AddElement
<1> QED
  BY <1>2, <1>5 DEF Nested, T, U, u

LEMMA NestedPop ==
  ASSUME NEW S, NEW s \in Seq(S), s # <<>>, NEW id
  PROVE  Nested(Front1(s), id) = IF Last1(s) = id THEN Nested(s, id) - 1 ELSE Nested(s, id)
<1> DEFINE u == Front1(s)
           x == Last1(s)
           t == Append(u, x)
<1>1. /\ u \in Seq(S) /\ Len(u) = Len(s) - 1 /\ Len(s) \in Nat \ {0} /\ x \in S /\ x = s[Len(s)]
      /\ \A i \in 1 .. Len(s) - 1 : u[i] = s[i]
  BY PoppedStack
<1> HIDE DEF u, x
<1>2. /\ t \in Seq(S) /\ Len(t) = Len(s) /\ t[Len(s)] = x
      /\ \A i \in 1 .. Len(s) - 1 : t[i] = u[i]
  BY <1>1, PushedStack
<1> HIDE DEF t
<1>3. \A i \in 1 .. Len(s) : t[i] = s[i]
  <2>1. ASSUME NEW i \in 1 .. Len(s)
        PROVE  t[i] = s[i]
    <3>1. i = Len(s) \/ i \in 1 .. Len(s) - 1
      BY <1>1
    <3> QED
      BY <1>1, <1>2, <3>1
  <2> QED
    BY <2>1
<1>4. t = s
  BY <1>2, <1>3, SameSequence
<1>5. Nested(t, id) = IF x = id THEN Nested(u, id) + 1 ELSE Nested(u, id)
  BY <1>1, NestedPush DEF t
<1>6. Nested(u, id) \in Nat
  BY <1>1, NestedFacts
<1> QED
  BY <1>4, <1>5, <1>6 DEF u, x

AreStacks(f) == \A c \in Cpus : DOMAIN f[c] = 1 .. Len(f[c])

IsPlace(f, id, x) == \E c \in Cpus : \E i \in 1 .. Len(f[c]) : x = <<c, i>> /\ f[c][i] = id

LEMMA PlacesAre ==
  ASSUME NEW f, AreStacks(f), NEW id, NEW x
  PROVE  x \in Places(f, id) <=> IsPlace(f, id, x)
<1>1. ASSUME x \in Places(f, id)
      PROVE  IsPlace(f, id, x)
  <2>1. PICK c \in Cpus : x \in {c} \X DOMAIN f[c]
    BY <1>1 DEF Places
  <2>2. f[x[1]][x[2]] = id
    BY <1>1 DEF Places
  <2>3. PICK i \in DOMAIN f[c] : x = <<c, i>>
    BY <2>1
  <2>4. f[c][i] = id /\ i \in 1 .. Len(f[c])
    BY <2>2, <2>3 DEF AreStacks
  <2> QED
    BY <2>3, <2>4 DEF IsPlace
<1>2. ASSUME NEW c \in Cpus, NEW i \in 1 .. Len(f[c]), x = <<c, i>>, f[c][i] = id
      PROVE  x \in Places(f, id)
  <2>1. x \in {c} \X DOMAIN f[c]
    BY <1>2 DEF AreStacks
  <2>2. x[1] = c /\ x[2] = i
    BY <1>2
  <2> QED
    BY <1>2, <2>1, <2>2 DEF Places
<1> QED
  BY <1>1, <1>2 DEF IsPlace

\* One processor more serves an interrupt, or serves it once more.
ServedAlso(f, g, c, id) ==
  /\ \A d \in Cpus : f[d] \in Seq(Nat)
  /\ g[c] = Append(f[c], id) /\ \A d \in Cpus : d # c => g[d] = f[d]

LEMMA PlacesPush ==
  ASSUME NEW f, NEW g, NEW c \in Cpus, NEW id \in Nat, ServedAlso(f, g, c, id), NEW j
  PROVE  /\ j # id => Places(g, j) = Places(f, j)
         /\ j = id => /\ Places(g, j) = Places(f, j) \cup {<<c, Len(f[c]) + 1>>}
                      /\ <<c, Len(f[c]) + 1>> \notin Places(f, j)
<1> DEFINE n == Len(f[c]) + 1
           at == <<c, n>>
<1>0. /\ \A d \in Cpus : f[d] \in Seq(Nat)
      /\ g[c] = Append(f[c], id) /\ \A d \in Cpus : d # c => g[d] = f[d]
  BY DEF ServedAlso
<1>1. /\ g[c] \in Seq(Nat) /\ Len(g[c]) = n /\ g[c][n] = id /\ n - 1 = Len(f[c]) /\ n \in Nat \ {0}
      /\ \A i \in 1 .. Len(f[c]) : g[c][i] = f[c][i]
  BY <1>0, PushedStack
<1>2. /\ \A d \in Cpus : DOMAIN f[d] = 1 .. Len(f[d]) /\ Len(f[d]) \in Nat
      /\ \A d \in Cpus : DOMAIN g[d] = 1 .. Len(g[d])
  BY <1>0, <1>1
<1> HIDE DEF n
<1>3. ASSUME NEW x
      PROVE  x \in Places(g, j) <=> x \in Places(f, j) \/ (x = at /\ j = id)
  <2> DEFINE In(h) == IsPlace(h, j, x)
  <2>1. x \in Places(g, j) <=> In(g)
    BY <1>2, PlacesAre DEF AreStacks
  <2>2. x \in Places(f, j) <=> In(f)
    BY <1>2, PlacesAre DEF AreStacks
  <2>3. ASSUME In(g)
        PROVE  In(f) \/ (x = at /\ j = id)
    <3>1. PICK d \in Cpus : \E i \in 1 .. Len(g[d]) : x = <<d, i>> /\ g[d][i] = j
      BY <2>3 DEF IsPlace
    <3>2. PICK i \in 1 .. Len(g[d]) : x = <<d, i>> /\ g[d][i] = j
      BY <3>1
    <3>3. CASE d = c /\ i = n
      BY <3>2, <3>3, <1>1
    <3>4. CASE ~(d = c /\ i = n)
      <4>1. i \in 1 .. Len(f[d]) /\ f[d][i] = j
        <5>1. CASE d # c
          BY <1>0, <3>2, <5>1
        <5>2. CASE d = c
          <6>1. i \in 1 .. Len(f[c]) /\ Len(g[c]) = n
            BY <3>2, <3>4, <5>2, <1>1
          <6> QED
            BY <3>2, <5>2, <6>1, <1>1
        <5> QED
          BY <5>1, <5>2
      <4> QED
        BY <3>2, <4>1 DEF IsPlace
    <3> QED
      BY <3>3, <3>4
  <2>4. ASSUME In(f)
        PROVE  In(g)
    <3>1. PICK d \in Cpus : \E i \in 1 .. Len(f[d]) : x = <<d, i>> /\ f[d][i] = j
      BY <2>4 DEF IsPlace
    <3>2. PICK i \in 1 .. Len(f[d]) : x = <<d, i>> /\ f[d][i] = j
      BY <3>1
    <3>3. i \in 1 .. Len(g[d]) /\ g[d][i] = j
      <4>1. CASE d # c
        BY <1>0, <3>2, <4>1
      <4>2. CASE d = c
        BY <1>1, <1>2, <3>2, <4>2
      <4> QED
        BY <4>1, <4>2
    <3> QED
      BY <3>2, <3>3 DEF IsPlace
  <2>5. ASSUME x = at, j = id
        PROVE  In(g)
    <3>1. n \in 1 .. Len(g[c]) /\ g[c][n] = j
      BY <1>1, <2>5
    <3> QED
      BY <2>5, <3>1 DEF IsPlace
  <2> HIDE DEF In
  <2> QED
    BY <2>1, <2>2, <2>3, <2>4, <2>5
<1>4. at \notin Places(f, j)
  <2>1. ASSUME NEW d \in Cpus, NEW i \in 1 .. Len(f[d]), at = <<d, i>>
        PROVE  FALSE
    BY <2>1, <1>1, <1>2
  <2> QED
    BY <1>2, <2>1, PlacesAre DEF IsPlace, AreStacks
<1>5. j # id => Places(g, j) = Places(f, j)
  BY <1>3
<1>6. j = id => Places(g, j) = Places(f, j) \cup {at}
  BY <1>3
<1> QED
  BY <1>4, <1>5, <1>6 DEF n

\* One processor has served its last interrupt.
ServedLast(f, g, c) ==
  /\ \A d \in Cpus : f[d] \in Seq(Nat)
  /\ f[c] # <<>> /\ g[c] = Front1(f[c]) /\ \A d \in Cpus : d # c => g[d] = f[d]

LEMMA PlacesPop ==
  ASSUME NEW f, NEW g, NEW c \in Cpus, ServedLast(f, g, c), NEW j
  PROVE  /\ j # Last1(f[c]) => Places(g, j) = Places(f, j)
         /\ j = Last1(f[c]) => /\ Places(f, j) = Places(g, j) \cup {<<c, Len(f[c])>>}
                               /\ <<c, Len(f[c])>> \notin Places(g, j)
<1> DEFINE id == Last1(f[c])
           t == Append(g[c], id)
<1>0. /\ \A d \in Cpus : f[d] \in Seq(Nat)
      /\ f[c] # <<>> /\ g[c] = Front1(f[c]) /\ \A d \in Cpus : d # c => g[d] = f[d]
  BY DEF ServedLast
<1>1. /\ g[c] \in Seq(Nat) /\ Len(g[c]) = Len(f[c]) - 1 /\ Len(f[c]) \in Nat \ {0} /\ id \in Nat
      /\ id = f[c][Len(f[c])] /\ \A i \in 1 .. Len(f[c]) - 1 : g[c][i] = f[c][i]
  BY <1>0, PoppedStack
<1> HIDE DEF id
<1>2. /\ t \in Seq(Nat) /\ Len(t) = Len(f[c]) /\ t[Len(f[c])] = id
      /\ \A i \in 1 .. Len(f[c]) - 1 : t[i] = g[c][i]
  BY <1>1, PushedStack
<1> HIDE DEF t
<1>3. ASSUME NEW i \in 1 .. Len(f[c])
      PROVE  t[i] = f[c][i]
  <2>1. i = Len(f[c]) \/ i \in 1 .. Len(f[c]) - 1
    BY <1>1
  <2> QED
    BY <1>1, <1>2, <2>1
<1>4. f[c] = Append(g[c], id)
  BY <1>0, <1>2, <1>3, SameSequence DEF t
<1>5. \A d \in Cpus : g[d] \in Seq(Nat)
  BY <1>0, <1>1
<1>6. Len(g[c]) + 1 = Len(f[c])
  BY <1>1
<1>7. /\ j # id => Places(f, j) = Places(g, j)
      /\ j = id => /\ Places(f, j) = Places(g, j) \cup {<<c, Len(g[c]) + 1>>}
                   /\ <<c, Len(g[c]) + 1>> \notin Places(g, j)
  <2>1. ServedAlso(g, f, c, id)
    BY <1>0, <1>4, <1>5 DEF ServedAlso
  <2>2. id \in Nat
    BY <1>1
  <2> QED
    BY <2>1, <2>2, PlacesPush
<1> QED
  BY <1>6, <1>7 DEF id

LEMMA PlacesSame ==
  ASSUME NEW f, NEW g, \A d \in Cpus : g[d] = f[d], NEW j
  PROVE  Places(g, j) = Places(f, j)
<1>1. UNION {{c} \X DOMAIN g[c] : c \in Cpus} = UNION {{c} \X DOMAIN f[c] : c \in Cpus}
  OBVIOUS
<1>2. \A x \in UNION {{c} \X DOMAIN f[c] : c \in Cpus} : x[1] \in Cpus
  OBVIOUS
<1> QED
  BY <1>1, <1>2 DEF Places

-----------------------------------------------------------------------------
(* The tables of interrupts: busy for every place an interrupt is served.  *)

IsCpu(x) ==
  /\ DOMAIN x = {"modes", "irqs", "softIrqs", "traps"}
  /\ x.modes \in Seq(CpuModes) /\ x.irqs \in Seq(Nat) /\ x.softIrqs \in Seq(Nat)

IrqModes == {"IRQ_BUSY", "IRQ_UNKNOWN"}

\* Over nothing or over an unknown mode.
BusyFor(s, n) ==
  /\ s \in Seq(IrqModes)
  /\ Len(s) \in {n, n + 1}
  /\ \A i \in 1 .. Len(s) : s[i] = IF i = 1 /\ Len(s) = n + 1 THEN "IRQ_UNKNOWN" ELSE "IRQ_BUSY"

LEMMA BusyFacts ==
  ASSUME NEW s, NEW n \in Nat, BusyFor(s, n)
  PROVE  /\ BusyFor(Append(s, "IRQ_BUSY"), n + 1)
         /\ n > 0 => BusyFor(PopMode(s, "IRQ_UNKNOWN"), n - 1)
         /\ s # <<>> /\ Last1(s) = "IRQ_BUSY" <=> n > 0
<1>1. s \in Seq(IrqModes) /\ "IRQ_BUSY" \in IrqModes /\ "IRQ_UNKNOWN" \in IrqModes
  BY DEF BusyFor, IrqModes
<1>2. BusyFor(Append(s, "IRQ_BUSY"), n + 1)
  <2> DEFINE u == Append(s, "IRQ_BUSY")
  <2>1. /\ u \in Seq(IrqModes) /\ Len(u) = Len(s) + 1 /\ Len(s) \in Nat
        /\ u[Len(s) + 1] = "IRQ_BUSY" /\ \A i \in 1 .. Len(s) : u[i] = s[i]
    BY <1>1, PushedStack
  <2> HIDE DEF u
  <2>2. ASSUME NEW i \in 1 .. Len(u)
        PROVE  u[i] = IF i = 1 /\ Len(u) = n + 2 THEN "IRQ_UNKNOWN" ELSE "IRQ_BUSY"
    <3>1. CASE i = Len(s) + 1
      BY <2>1, <3>1 DEF BusyFor
    <3>2. CASE i \in 1 .. Len(s)
      BY <2>1, <3>2 DEF BusyFor
    <3> QED
      BY <2>1, <3>1, <3>2
  <2>3. Len(u) \in {n + 1, n + 2}
    BY <2>1 DEF BusyFor
  <2> QED
    BY <2>1, <2>2, <2>3 DEF BusyFor, u
<1>3. ASSUME n > 0
      PROVE  BusyFor(PopMode(s, "IRQ_UNKNOWN"), n - 1)
  <2>1. Len(s) \in Nat
    BY <1>1
  <2>2. CASE Len(s) <= 1
    <3>1. n = 1
      BY <1>3, <2>1, <2>2 DEF BusyFor
    <3> DEFINE u == <<"IRQ_UNKNOWN">>
    <3>2. PopMode(s, "IRQ_UNKNOWN") = u
      BY <2>2 DEF PopMode, SetBaseMode
    <3>3. u \in Seq(IrqModes) /\ Len(u) = 1 /\ u[1] = "IRQ_UNKNOWN"
      BY <1>1
    <3> HIDE DEF u
    <3>4. BusyFor(u, 0)
      BY <3>3 DEF BusyFor
    <3> QED
      BY <3>1, <3>2, <3>4
  <2>3. CASE Len(s) > 1
    <3> DEFINE u == Front1(s)
    <3>1. PopMode(s, "IRQ_UNKNOWN") = u
      BY <2>1, <2>3 DEF PopMode
    <3>2. u \in Seq(IrqModes) /\ Len(u) = Len(s) - 1 /\ \A i \in 1 .. Len(s) - 1 : u[i] = s[i]
      BY <1>1, <2>3, PoppedStack
    <3> HIDE DEF u
    <3>3. Len(u) \in {n - 1, n}
      BY <3>2 DEF BusyFor
    <3>4. \A i \in 1 .. Len(u) : u[i] = IF i = 1 /\ Len(u) = n THEN "IRQ_UNKNOWN" ELSE "IRQ_BUSY"
      BY <2>1, <3>2 DEF BusyFor
    <3>5. BusyFor(u, n - 1)
      BY <3>2, <3>3, <3>4 DEF BusyFor
    <3> QED
      BY <3>1, <3>5
  <2> QED
    BY <2>1, <2>2, <2>3
<1>4. s # <<>> /\ Last1(s) = "IRQ_BUSY" <=> n > 0
  <2>1. Len(s) \in Nat /\ (s # <<>> <=> Len(s) > 0)
    BY <1>1
  <2>2. ASSUME Len(s) > 0
        PROVE  Last1(s) = IF Len(s) = 1 /\ Len(s) = n + 1 THEN "IRQ_UNKNOWN" ELSE "IRQ_BUSY"
    <3>1. Len(s) \in 1 .. Len(s)
      BY <2>1, <2>2
    <3>2. s[Len(s)] = IF Len(s) = 1 /\ Len(s) = n + 1 THEN "IRQ_UNKNOWN" ELSE "IRQ_BUSY"
      BY <3>1 DEF BusyFor
    <3> QED
      BY <3>2 DEF Last1
  <2>3. Len(s) \in {n, n + 1}
    BY DEF BusyFor
  <2>4. CASE Len(s) = 0
    BY <2>1, <2>3, <2>4
  <2>5. CASE Len(s) > 0
    <3>1. (Len(s) = 1 /\ Len(s) = n + 1) <=> (n = 0)
      <4>1. CASE n = 0
        BY <2>1, <2>3, <2>5, <4>1
      <4>2. CASE n # 0
        BY <4>2
      <4> QED
        BY <4>1, <4>2
    <3>2. Last1(s) = IF n = 0 THEN "IRQ_UNKNOWN" ELSE "IRQ_BUSY"
      BY <2>2, <2>5, <3>1
    <3> QED
      BY <2>1, <2>5, <3>2
  <2> QED
    BY <2>1, <2>4, <2>5
<1> QED
  BY <1>2, <1>3, <1>4

LEMMA PlacesCount ==
  ASSUME NEW f, NEW id, IsFiniteSet(Places(f, id))
  PROVE  Cardinality(Places(f, id)) \in Nat
BY FS_CardinalityType

LEMMA PushCount ==
  ASSUME NEW f, NEW g, NEW c \in Cpus, NEW id \in Nat, ServedAlso(f, g, c, id), NEW j,
         IsFiniteSet(Places(f, j))
  PROVE  /\ IsFiniteSet(Places(g, j))
         /\ Cardinality(Places(g, j)) =
              IF j = id THEN Cardinality(Places(f, j)) + 1 ELSE Cardinality(Places(f, j))
<1> DEFINE at == <<c, Len(f[c]) + 1>>
           P == Places(f, j)
           Q == Places(g, j)
<1>1. /\ j # id => Q = P
      /\ j = id => Q = P \cup {at} /\ at \notin P
  BY PlacesPush
<1>2. IsFiniteSet(P)
  OBVIOUS
<1> HIDE DEF at, P, Q
<1>3. at \notin P => IsFiniteSet(P \cup {at}) /\ Cardinality(P \cup {at}) = Cardinality(P) + 1
  BY <1>2, FS_AddElement
<1>4. IsFiniteSet(Q) /\ Cardinality(Q) = IF j = id THEN Cardinality(P) + 1 ELSE Cardinality(P)
  BY <1>1, <1>2, <1>3
<1> QED
  BY <1>4 DEF P, Q

LEMMA PopCount ==
  ASSUME NEW f, NEW g, NEW c \in Cpus, ServedLast(f, g, c), NEW j, IsFiniteSet(Places(f, j))
  PROVE  /\ IsFiniteSet(Places(g, j))
         /\ j # Last1(f[c]) => Cardinality(Places(g, j)) = Cardinality(Places(f, j))
         /\ j = Last1(f[c]) => /\ Cardinality(Places(f, j)) > 0
                               /\ Cardinality(Places(g, j)) = Cardinality(Places(f, j)) - 1
<1> DEFINE at == <<c, Len(f[c])>>
           P == Places(f, j)
           Q == Places(g, j)
           last == Last1(f[c])
<1>1. /\ j # last => Q = P
      /\ j = last => P = Q \cup {at} /\ at \notin Q
  BY PlacesPop
<1>2. IsFiniteSet(P) /\ Cardinality(P) \in Nat
  BY PlacesCount
<1> HIDE DEF at, P, Q, last
<1>3. j = last => Q = P \ {at} /\ at \in P
  BY <1>1
<1>4. at \in P => IsFiniteSet(P \ {at}) /\ Cardinality(P \ {at}) = Cardinality(P) - 1
  BY <1>2, FS_RemoveElement
<1>5. at \in P => Cardinality(P \ {at}) \in Nat
  BY <1>4, FS_CardinalityType
<1>6. /\ IsFiniteSet(Q)
      /\ j # last => Cardinality(Q) = Cardinality(P)
      /\ j = last => Cardinality(P) > 0 /\ Cardinality(Q) = Cardinality(P) - 1
  BY <1>1, <1>2, <1>3, <1>4, <1>5
<1> QED
  BY <1>6 DEF P, Q, last

\* What an entry of the table tells of an interrupt that is in n places: a stack
\* of modes for an interrupt, a count for a soft interrupt.
Told(soft, x, n) ==
  IF soft THEN DOMAIN x = {"pending", "running"} /\ x.running = n ELSE BusyFor(x, n)

\* The table has an entry for all that the stacks hold, and each is told.
Served(soft, f, table) ==
  /\ \A c \in Cpus : f[c] \in Seq(Nat)
  /\ \A c \in Cpus : \A i \in 1 .. Len(f[c]) : f[c][i] \in DOMAIN table
  /\ \A id \in DOMAIN table :
       IsFiniteSet(Places(f, id)) /\ Told(soft, table[id], Cardinality(Places(f, id)))

\* An id beyond the table is nowhere.
LEMMA NoPlaces ==
  ASSUME NEW soft, NEW f, NEW table, Served(soft, f, table), NEW id, id \notin DOMAIN table
  PROVE  IsFiniteSet(Places(f, id)) /\ Cardinality(Places(f, id)) = 0
<1>1. /\ \A c \in Cpus : f[c] \in Seq(Nat)
      /\ \A c \in Cpus : \A i \in 1 .. Len(f[c]) : f[c][i] \in DOMAIN table
  BY DEF Served
<1>2. \A c \in Cpus : DOMAIN f[c] = 1 .. Len(f[c])
  BY <1>1
<1>3. ASSUME NEW x \in Places(f, id)
      PROVE  FALSE
  <2>1. AreStacks(f)
    BY <1>2 DEF AreStacks
  <2>2. IsPlace(f, id, x)
    BY <1>3, <2>1, PlacesAre
  <2> QED
    BY <1>1, <2>2 DEF IsPlace
<1>4. Places(f, id) = {}
  BY <1>3
<1> QED
  BY <1>4, FS_EmptySet

LEMMA ServedWider ==
  ASSUME NEW soft, NEW f, NEW t, Served(soft, f, t), NEW u, DOMAIN t \subseteq DOMAIN u,
         \A id \in DOMAIN t : u[id] = t[id],
         \A id \in DOMAIN u \ DOMAIN t : Told(soft, u[id], 0)
  PROVE  Served(soft, f, u)
<1>1. ASSUME NEW id \in DOMAIN u
      PROVE  IsFiniteSet(Places(f, id)) /\ Told(soft, u[id], Cardinality(Places(f, id)))
  <2>1. CASE id \in DOMAIN t
    BY <2>1 DEF Served
  <2>2. CASE id \notin DOMAIN t
    BY <2>2, NoPlaces
  <2> QED
    BY <2>1, <2>2
<1> QED
  BY <1>1 DEF Served

LEMMA ServedPush ==
  ASSUME NEW soft, NEW f, NEW t, Served(soft, f, t), NEW g, NEW c \in Cpus, NEW id \in Nat,
         ServedAlso(f, g, c, id), id \in DOMAIN t, NEW u, DOMAIN u = DOMAIN t,
         \A j \in DOMAIN t : j # id => u[j] = t[j],
         \A n \in Nat : Told(soft, t[id], n) => Told(soft, u[id], n + 1)
  PROVE  Served(soft, g, u)
<1>1. \A d \in Cpus : g[d] \in Seq(Nat) /\ \A i \in 1 .. Len(g[d]) : g[d][i] \in DOMAIN u
  <2>1. ASSUME NEW d \in Cpus, d # c
        PROVE  g[d] \in Seq(Nat) /\ \A i \in 1 .. Len(g[d]) : g[d][i] \in DOMAIN u
    BY <2>1 DEF ServedAlso, Served
  <2>2. g[c] \in Seq(Nat) /\ \A i \in 1 .. Len(g[c]) : g[c][i] \in DOMAIN u
    <3>1. f[c] \in Seq(Nat) /\ g[c] = Append(f[c], id)
      BY DEF ServedAlso
    <3>2. /\ g[c] \in Seq(Nat) /\ Len(g[c]) = Len(f[c]) + 1 /\ Len(f[c]) \in Nat
          /\ g[c][Len(f[c]) + 1] = id /\ \A i \in 1 .. Len(f[c]) : g[c][i] = f[c][i]
      BY <3>1, PushedStack
    <3>3. \A i \in 1 .. Len(f[c]) : f[c][i] \in DOMAIN u
      BY DEF Served
    <3>4. \A i \in 1 .. Len(g[c]) : i \in 1 .. Len(f[c]) \/ i = Len(f[c]) + 1
      BY <3>2
    <3> QED
      BY <3>2, <3>3, <3>4
  <2> QED
    BY <2>1, <2>2
<1>2. ASSUME NEW j \in DOMAIN u
      PROVE  IsFiniteSet(Places(g, j)) /\ Told(soft, u[j], Cardinality(Places(g, j)))
  <2>1. IsFiniteSet(Places(f, j)) /\ Told(soft, t[j], Cardinality(Places(f, j)))
    BY DEF Served
  <2>2. Cardinality(Places(f, j)) \in Nat
    BY <2>1, PlacesCount
  <2>3. /\ IsFiniteSet(Places(g, j))
        /\ Cardinality(Places(g, j)) =
             IF j = id THEN Cardinality(Places(f, j)) + 1 ELSE Cardinality(Places(f, j))
    BY <2>1, PushCount
  <2> QED
    BY <2>1, <2>2, <2>3
<1> QED
  BY <1>1, <1>2 DEF Served

LEMMA ServedPop ==
  ASSUME NEW soft, NEW f, NEW t, Served(soft, f, t), NEW g, NEW c \in Cpus,
         ServedLast(f, g, c), NEW u, DOMAIN u = DOMAIN t,
         \A j \in DOMAIN t : j # Last1(f[c]) => u[j] = t[j],
         \A n \in Nat : n > 0 /\ Told(soft, t[Last1(f[c])], n) => Told(soft, u[Last1(f[c])], n - 1)
  PROVE  Served(soft, g, u)
<1>1. \A d \in Cpus : g[d] \in Seq(Nat) /\ \A i \in 1 .. Len(g[d]) : g[d][i] \in DOMAIN u
  <2>1. ASSUME NEW d \in Cpus, d # c
        PROVE  g[d] \in Seq(Nat) /\ \A i \in 1 .. Len(g[d]) : g[d][i] \in DOMAIN u
    BY <2>1 DEF ServedLast, Served
  <2>2. g[c] \in Seq(Nat) /\ \A i \in 1 .. Len(g[c]) : g[c][i] \in DOMAIN u
    <3>1. f[c] \in Seq(Nat) /\ f[c] # <<>> /\ g[c] = Front1(f[c])
      BY DEF ServedLast
    <3>2. /\ g[c] \in Seq(Nat) /\ Len(g[c]) = Len(f[c]) - 1 /\ Len(f[c]) \in Nat \ {0}
          /\ \A i \in 1 .. Len(f[c]) - 1 : g[c][i] = f[c][i]
      BY <3>1, PoppedStack
    <3>3. \A i \in 1 .. Len(f[c]) : f[c][i] \in DOMAIN u
      BY DEF Served
    <3>4. \A i \in 1 .. Len(g[c]) : i \in 1 .. Len(f[c]) /\ i \in 1 .. Len(f[c]) - 1
      BY <3>2
    <3> QED
      BY <3>2, <3>3, <3>4
  <2> QED
    BY <2>1, <2>2
<1>2. ASSUME NEW j \in DOMAIN u
      PROVE  IsFiniteSet(Places(g, j)) /\ Told(soft, u[j], Cardinality(Places(g, j)))
  <2>1. IsFiniteSet(Places(f, j)) /\ Told(soft, t[j], Cardinality(Places(f, j)))
    BY DEF Served
  <2>2. Cardinality(Places(f, j)) \in Nat
    BY <2>1, PlacesCount
  <2>3. /\ IsFiniteSet(Places(g, j))
        /\ j # Last1(f[c]) => Cardinality(Places(g, j)) = Cardinality(Places(f, j))
        /\ j = Last1(f[c]) => /\ Cardinality(Places(f, j)) > 0
                              /\ Cardinality(Places(g, j)) = Cardinality(Places(f, j)) - 1
    BY <2>1, PopCount
  <2>4. CASE j # Last1(f[c])
    BY <2>1, <2>3, <2>4
  <2>5. CASE j = Last1(f[c])
    BY <2>1, <2>2, <2>3, <2>5
  <2> QED
    BY <2>4, <2>5
<1> QED
  BY <1>1, <1>2 DEF Served

LEMMA ServedSame ==
  ASSUME NEW soft, NEW f, NEW t, Served(soft, f, t), NEW g, \A c \in Cpus : g[c] = f[c], NEW u,
         DOMAIN u = DOMAIN t,
         \A id \in DOMAIN t : \A n \in Nat : Told(soft, t[id], n) => Told(soft, u[id], n)
  PROVE  Served(soft, g, u)
<1>1. \A id : Places(g, id) = Places(f, id)
  BY PlacesSame
<1>2. ASSUME NEW id \in DOMAIN u
      PROVE  IsFiniteSet(Places(g, id)) /\ Told(soft, u[id], Cardinality(Places(g, id)))
  <2>1. IsFiniteSet(Places(f, id)) /\ Told(soft, t[id], Cardinality(Places(f, id)))
    BY DEF Served
  <2>2. Cardinality(Places(f, id)) \in Nat
    BY <2>1, PlacesCount
  <2> QED
    BY <1>1, <2>1, <2>2
<1> QED
  BY <1>2 DEF Served

-----------------------------------------------------------------------------
(* What the hooks write of processors and interrupts.                      *)

IrqStacks(ts) == [c \in Cpus |-> ts.cpus[c].irqs]
SoftIrqStacks(ts) == [c \in Cpus |-> ts.cpus[c].softIrqs]

HasTables(ts) ==
  /\ DOMAIN ts.cpus = Cpus /\ \A c \in Cpus : IsCpu(ts.cpus[c])
  /\ DOMAIN ts.nb = {"irq", "softIrq", "trap"} /\ ts.nb.irq \in Nat /\ ts.nb.softIrq \in Nat
  /\ DOMAIN ts.irqs = 0 .. ts.nb.irq - 1 /\ DOMAIN ts.softIrqs = 0 .. ts.nb.softIrq - 1

\* What a trace keeps of its interrupts is what its processors serve.
Settled(ts) ==
  /\ HasTables(ts)
  /\ Served(FALSE, IrqStacks(ts), ts.irqs) /\ Served(TRUE, SoftIrqStacks(ts), ts.softIrqs)

CpuModeOf == [TRAP |-> "CPU_TRAP", IRQ |-> "CPU_IRQ", SOFT_IRQ |-> "CPU_SOFT_IRQ"]

\* A processor before and after its process enters or leaves a mode.
Enters(x, y, t, id) ==
  /\ IsCpu(y) /\ y.modes = Append(x.modes, CpuModeOf[t])
  /\ y.irqs = IF t = "IRQ" THEN Append(x.irqs, id) ELSE x.irqs
  /\ y.softIrqs = IF t = "SOFT_IRQ" THEN Append(x.softIrqs, id) ELSE x.softIrqs

Leaves(x, y, t) ==
  /\ IsCpu(y) /\ y.modes = PopMode(x.modes, "CPU_UNKNOWN")
  /\ y.irqs = IF t = "IRQ" /\ x.irqs # <<>> THEN Front1(x.irqs) ELSE x.irqs
  /\ y.softIrqs = IF t = "SOFT_IRQ" /\ x.softIrqs # <<>> THEN Front1(x.softIrqs) ELSE x.softIrqs

OtherCpus(ts, us, c) == \A d \in Cpus : d # c => us.cpus[d] = ts.cpus[d]

\* All but the modes of one processor and the processes is as it was.
OnlyModes(ts, b, c, modes) ==
  /\ DOMAIN b = DOMAIN ts
  /\ b.cpus = [ts.cpus EXCEPT ![c].modes = modes]
  /\ b.irqs = ts.irqs /\ b.softIrqs = ts.softIrqs /\ b.nb = ts.nb

LEMMA PushParts ==
  ASSUME NEW ts, IsState(ts), NEW c, NEW t, NEW id, NEW time, NEW m
  PROVE  OnlyModes(ts, cpu_push_mode(push_state(ts, c, t, id, time), c, m), c,
                   Append(ts.cpus[c].modes, m))
<1> DEFINE p == push_state(ts, c, t, id, time)
<1>1. /\ DOMAIN p = DOMAIN ts /\ p.cpus = ts.cpus /\ p.irqs = ts.irqs /\ p.softIrqs = ts.softIrqs
      /\ p.nb = ts.nb /\ p.traps = ts.traps
  BY DEF push_state, SetRunning, SetProcess, IsState
<1> HIDE DEF p
<1>2. cpu_push_mode(p, c, m) = [p EXCEPT !.cpus[c].modes = Append(@, m)]
  BY DEF cpu_push_mode
<1> QED
  BY <1>1, <1>2 DEF IsState, OnlyModes, p

LEMMA PopParts ==
  ASSUME NEW ts, IsState(ts), NEW c, NEW t, NEW time
  PROVE  OnlyModes(ts, cpu_pop_mode(pop_state(ts, c, t, time), c), c,
                   PopMode(ts.cpus[c].modes, "CPU_UNKNOWN"))
<1> DEFINE p == pop_state(ts, c, t, time)
<1>1. /\ DOMAIN p = DOMAIN ts /\ p.cpus = ts.cpus /\ p.irqs = ts.irqs /\ p.softIrqs = ts.softIrqs
      /\ p.nb = ts.nb /\ p.traps = ts.traps
  BY DEF pop_state, SetRunning, SetProcess, IsState
<1> HIDE DEF p
<1>2. cpu_pop_mode(p, c) = [p EXCEPT !.cpus[c].modes = PopMode(@, "CPU_UNKNOWN")]
  BY DEF cpu_pop_mode
<1> QED
  BY <1>1, <1>2 DEF IsState, OnlyModes, p

\* The tables of a trace do not shrink.
IsExpanded(table, u, n, id, new) ==
  /\ n \in Nat /\ id \in DOMAIN u /\ DOMAIN u = 0 .. n - 1
  /\ DOMAIN table \subseteq DOMAIN u
  /\ \A i \in DOMAIN table : u[i] = table[i]
  /\ \A i \in DOMAIN u \ DOMAIN table : u[i] = new

LEMMA Expanded ==
  ASSUME NEW nb \in Nat, NEW id \in Nat, NEW table, DOMAIN table = 0 .. nb - 1, NEW new
  PROVE  IsExpanded(table, Expand(table, nb, id, new), check_expand(nb, id), id, new)
<1> DEFINE n == check_expand(nb, id)
           u == Expand(table, nb, id, new)
<1>1. n \in Nat /\ nb <= n /\ id < n
  BY DEF check_expand
<1>2. u = [i \in 0 .. n - 1 |-> IF i \in DOMAIN table /\ i < nb THEN table[i] ELSE new]
  BY DEF Expand
<1> HIDE DEF n, u
<1>3. DOMAIN u = 0 .. n - 1 /\ id \in DOMAIN u /\ DOMAIN table \subseteq DOMAIN u
  BY <1>1, <1>2
<1>4. \A i \in DOMAIN table : u[i] = table[i]
  BY <1>1, <1>2
<1>5. \A i \in DOMAIN u \ DOMAIN table : u[i] = new
  BY <1>2, <1>3
<1>6. IsExpanded(table, u, n, id, new)
  BY <1>1, <1>3, <1>4, <1>5 DEF IsExpanded
<1> QED
  BY <1>6 DEF n, u

LEMMA IrqTable ==
  ASSUME NEW ts, IsState(ts), Settled(ts), NEW id \in Nat, NEW us, us = expand_irq_table(ts, id)
  PROVE  /\ DOMAIN us = DOMAIN ts /\ us.cpus = ts.cpus /\ us.processes = ts.processes
         /\ us.running = ts.running /\ Settled(us) /\ id \in DOMAIN us.irqs
<1> DEFINE u == Expand(ts.irqs, ts.nb.irq, id, <<>>)
           n == check_expand(ts.nb.irq, id)
<1>1. us = [ts EXCEPT !.irqs = u, !.nb.irq = n]
  BY DEF expand_irq_table
<1>2. /\ ts.nb.irq \in Nat /\ DOMAIN ts.irqs = 0 .. ts.nb.irq - 1
      /\ DOMAIN ts.nb = {"irq", "softIrq", "trap"}
  BY DEF Settled, HasTables
<1>3. /\ n \in Nat /\ id \in DOMAIN u /\ DOMAIN u = 0 .. n - 1
      /\ DOMAIN ts.irqs \subseteq DOMAIN u
      /\ \A i \in DOMAIN ts.irqs : u[i] = ts.irqs[i]
      /\ \A i \in DOMAIN u \ DOMAIN ts.irqs : u[i] = <<>>
  <2>1. IsExpanded(ts.irqs, u, n, id, <<>>)
    BY <1>2, Expanded
  <2> QED
    BY <2>1 DEF IsExpanded
<1> HIDE DEF u, n
<1>4. /\ DOMAIN us = DOMAIN ts /\ us.cpus = ts.cpus /\ us.processes = ts.processes
      /\ us.running = ts.running /\ us.irqs = u /\ us.softIrqs = ts.softIrqs
      /\ us.nb = [ts.nb EXCEPT !.irq = n]
  BY <1>1 DEF IsState
<1>5. /\ DOMAIN us.nb = {"irq", "softIrq", "trap"} /\ us.nb.irq = n
      /\ us.nb.softIrq = ts.nb.softIrq
  BY <1>2, <1>4
<1>6. HasTables(us)
  BY <1>3, <1>4, <1>5 DEF Settled, HasTables
<1>7. Told(FALSE, <<>>, 0)
  <2>1. <<>> \in Seq(IrqModes) /\ Len(<<>>) = 0
    OBVIOUS
  <2> QED
    BY <2>1 DEF Told, BusyFor
<1>8. Served(FALSE, IrqStacks(us), us.irqs)
  <2>1. IrqStacks(us) = IrqStacks(ts)
    BY <1>4 DEF IrqStacks
  <2>2. Served(FALSE, IrqStacks(ts), u)
    BY <1>3, <1>7, ServedWider DEF Settled
  <2> QED
    BY <1>4, <2>1, <2>2
<1>9. Served(TRUE, SoftIrqStacks(us), us.softIrqs)
  BY <1>4 DEF SoftIrqStacks, Settled
<1> QED
  BY <1>3, <1>4, <1>6, <1>8, <1>9 DEF Settled

LEMMA SoftIrqTable ==
  ASSUME NEW ts, IsState(ts), Settled(ts), NEW id \in Nat, NEW us, us = expand_soft_irq_table(ts, id)
  PROVE  /\ DOMAIN us = DOMAIN ts /\ us.cpus = ts.cpus /\ us.processes = ts.processes
         /\ us.running = ts.running /\ Settled(us) /\ id \in DOMAIN us.softIrqs
<1> DEFINE new == [pending |-> Garbage, running |-> 0]
           u == Expand(ts.softIrqs, ts.nb.softIrq, id, new)
           n == check_expand(ts.nb.softIrq, id)
<1>1. us = [ts EXCEPT !.softIrqs = u, !.nb.softIrq = n]
  BY DEF expand_soft_irq_table
<1>2. /\ ts.nb.softIrq \in Nat /\ DOMAIN ts.softIrqs = 0 .. ts.nb.softIrq - 1
      /\ DOMAIN ts.nb = {"irq", "softIrq", "trap"}
  BY DEF Settled, HasTables
<1>3. Told(TRUE, new, 0)
  BY DEF Told
<1> HIDE DEF new
<1>4. /\ n \in Nat /\ id \in DOMAIN u /\ DOMAIN u = 0 .. n - 1
      /\ DOMAIN ts.softIrqs \subseteq DOMAIN u
      /\ \A i \in DOMAIN ts.softIrqs : u[i] = ts.softIrqs[i]
      /\ \A i \in DOMAIN u \ DOMAIN ts.softIrqs : u[i] = new
  <2>1. IsExpanded(ts.softIrqs, u, n, id, new)
    BY <1>2, Expanded
  <2> QED
    BY <2>1 DEF IsExpanded
<1> HIDE DEF u, n
<1>5. /\ DOMAIN us = DOMAIN ts /\ us.cpus = ts.cpus /\ us.processes = ts.processes
      /\ us.running = ts.running /\ us.softIrqs = u /\ us.irqs = ts.irqs
      /\ us.nb = [ts.nb EXCEPT !.softIrq = n]
  BY <1>1 DEF IsState
<1>6. /\ DOMAIN us.nb = {"irq", "softIrq", "trap"} /\ us.nb.softIrq = n
      /\ us.nb.irq = ts.nb.irq
  BY <1>2, <1>5
<1>7. HasTables(us)
  BY <1>4, <1>5, <1>6 DEF Settled, HasTables
<1>8. Served(TRUE, SoftIrqStacks(us), us.softIrqs)
  <2>1. SoftIrqStacks(us) = SoftIrqStacks(ts)
    BY <1>5 DEF SoftIrqStacks
  <2>2. Served(TRUE, SoftIrqStacks(ts), u)
    BY <1>3, <1>4, ServedWider DEF Settled
  <2> QED
    BY <1>5, <2>1, <2>2
<1>9. Served(FALSE, IrqStacks(us), us.irqs)
  BY <1>5 DEF IrqStacks, Settled
<1> QED
  BY <1>4, <1>5, <1>7, <1>8, <1>9 DEF Settled


-----------------------------------------------------------------------------
(* The hooks of interrupts and traps.                                      *)

\* From one state to the next by an event that takes a processor into a mode.
EntersMode(ts, us, c, t, id) ==
  Settled(us) /\ Enters(ts.cpus[c], us.cpus[c], t, id) /\ OtherCpus(ts, us, c)

LeavesMode(ts, us, c, t) ==
  Settled(us) /\ Leaves(ts.cpus[c], us.cpus[c], t) /\ OtherCpus(ts, us, c)

LEMMA IrqEntered ==
  ASSUME NEW ts, IsState(ts), Settled(ts), NEW e, e.cpu \in Cpus, e.id \in Nat
  PROVE  EntersMode(ts, irq_entry(ts, e), e.cpu, "IRQ", e.id)
<1> DEFINE c == e.cpu
           id == e.id
           x == ts.cpus[c]
           wide == expand_irq_table(ts, id)
           busy == cpu_push_mode(push_state(wide, c, "IRQ", id, e.time), c, "CPU_IRQ")
           us == irq_entry(ts, e)
<1>1. /\ wide.cpus = ts.cpus /\ Settled(wide) /\ id \in DOMAIN wide.irqs /\ IsState(wide)
  <2>1. Keeps(ts, wide)
    BY TablesOfTrace
  <2> HIDE DEF wide
  <2>2. IsState(wide)
    BY <2>1 DEF Keeps
  <2>3. wide.cpus = ts.cpus /\ Settled(wide) /\ id \in DOMAIN wide.irqs
    BY IrqTable DEF wide
  <2> QED
    BY <2>2, <2>3
<1>2. us = [busy EXCEPT !.cpus[c].irqs = Append(@, id), !.irqs[id] = Append(@, "IRQ_BUSY")]
  BY DEF irq_entry
<1>3. c \in Cpus /\ id \in Nat
  OBVIOUS
<1> HIDE DEF wide, us
<1>4. OnlyModes(wide, busy, c, Append(x.modes, "CPU_IRQ"))
  <2>1. OnlyModes(wide, busy, c, Append(wide.cpus[c].modes, "CPU_IRQ"))
    BY <1>1, PushParts
  <2> QED
    BY <1>1, <2>1
<1> HIDE DEF busy, c, id
<1>5. /\ DOMAIN us = DOMAIN wide /\ us.cpus = [busy.cpus EXCEPT ![c].irqs = Append(@, id)]
      /\ us.irqs = [wide.irqs EXCEPT ![id] = Append(@, "IRQ_BUSY")]
      /\ us.softIrqs = wide.softIrqs /\ us.nb = wide.nb
  BY <1>1, <1>2, <1>4 DEF IsState, OnlyModes
<1>6. DOMAIN wide.cpus = Cpus /\ \A d \in Cpus : IsCpu(wide.cpus[d])
  BY <1>1 DEF Settled, HasTables
<1>7. /\ DOMAIN us.cpus = Cpus /\ \A d \in Cpus : d # c => us.cpus[d] = wide.cpus[d]
      /\ DOMAIN us.cpus[c] = DOMAIN x /\ us.cpus[c].modes = Append(x.modes, "CPU_IRQ")
      /\ us.cpus[c].irqs = Append(x.irqs, id) /\ us.cpus[c].softIrqs = x.softIrqs
  <2>1. /\ DOMAIN busy.cpus = Cpus /\ \A d \in Cpus : d # c => busy.cpus[d] = wide.cpus[d]
        /\ busy.cpus[c] = [x EXCEPT !.modes = Append(@, "CPU_IRQ")]
    BY <1>1, <1>3, <1>4, <1>6 DEF OnlyModes
  <2>2. /\ DOMAIN us.cpus = Cpus /\ \A d \in Cpus : d # c => us.cpus[d] = wide.cpus[d]
        /\ us.cpus[c] = [busy.cpus[c] EXCEPT !.irqs = Append(@, id)]
    BY <1>3, <1>5, <2>1
  <2>3. IsCpu(x)
    BY <1>1, <1>3, <1>6
  <2> QED
    BY <2>1, <2>2, <2>3 DEF IsCpu
<1>8. IsCpu(us.cpus[c])
  <2>1. IsCpu(x)
    BY <1>1, <1>3, <1>6
  <2>2. Append(x.modes, "CPU_IRQ") \in Seq(CpuModes) /\ Append(x.irqs, id) \in Seq(Nat)
    BY <1>3, <2>1 DEF IsCpu, CpuModes
  <2> HIDE DEF x
  <2> QED
    BY <1>7, <2>1, <2>2 DEF IsCpu
<1>9. HasTables(us)
  BY <1>1, <1>5, <1>6, <1>7, <1>8 DEF Settled, HasTables
<1>10. Served(FALSE, IrqStacks(us), us.irqs)
  <2> DEFINE f == IrqStacks(wide)
             g == IrqStacks(us)
             t == wide.irqs
             u == us.irqs
  <2>1. Served(FALSE, f, t)
    BY <1>1 DEF Settled
  <2>2. ServedAlso(f, g, c, id)
    <3>1. \A d \in Cpus : f[d] = wide.cpus[d].irqs /\ g[d] = us.cpus[d].irqs
      BY DEF IrqStacks
    <3>2. \A d \in Cpus : f[d] \in Seq(Nat)
      BY <1>6, <3>1 DEF IsCpu
    <3>3. g[c] = Append(f[c], id)
      BY <1>1, <1>3, <1>7, <3>1
    <3>4. \A d \in Cpus : d # c => g[d] = f[d]
      BY <1>7, <3>1
    <3> HIDE DEF f, g
    <3> QED
      BY <3>2, <3>3, <3>4 DEF ServedAlso
  <2>3. DOMAIN u = DOMAIN t /\ (\A j \in DOMAIN t : j # id => u[j] = t[j])
        /\ u[id] = Append(t[id], "IRQ_BUSY")
    BY <1>1, <1>5
  <2> HIDE DEF f, g, t, u
  <2>4. \A n \in Nat : Told(FALSE, t[id], n) => Told(FALSE, u[id], n + 1)
    <3>1. ASSUME NEW n \in Nat, BusyFor(t[id], n)
          PROVE  BusyFor(u[id], n + 1)
      BY <2>3, <3>1, BusyFacts
    <3> QED
      BY <3>1 DEF Told
  <2>5. id \in DOMAIN t
    BY <1>1 DEF t
  <2>6. Served(FALSE, g, u)
    BY <1>3, <2>1, <2>2, <2>3, <2>4, <2>5, ServedPush
  <2> QED
    BY <2>6 DEF g, u
<1>11. Served(TRUE, SoftIrqStacks(us), us.softIrqs)
  <2>1. SoftIrqStacks(us) = SoftIrqStacks(wide)
    <3>1. \A d \in Cpus : us.cpus[d].softIrqs = wide.cpus[d].softIrqs
      BY <1>1, <1>7
    <3> QED
      BY <3>1 DEF SoftIrqStacks
  <2> QED
    BY <1>1, <1>5, <2>1 DEF Settled
<1>12. Settled(us) /\ Enters(x, us.cpus[c], "IRQ", id) /\ OtherCpus(ts, us, c)
  BY <1>1, <1>7, <1>8, <1>9, <1>10, <1>11 DEF Settled, Enters, OtherCpus, CpuModeOf
<1> QED
  BY <1>12 DEF EntersMode, x, us, c, id
LEMMA SoftIrqEntered ==
  ASSUME NEW ts, IsState(ts), Settled(ts), NEW e, e.cpu \in Cpus, e.id \in Nat
  PROVE  EntersMode(ts, soft_irq_entry(ts, e), e.cpu, "SOFT_IRQ", e.id)
<1> DEFINE c == e.cpu
           id == e.id
           x == ts.cpus[c]
           wide == expand_soft_irq_table(ts, id)
           busy == cpu_push_mode(push_state(wide, c, "SOFT_IRQ", id, e.time), c, "CPU_SOFT_IRQ")
           us == soft_irq_entry(ts, e)
<1>1. /\ wide.cpus = ts.cpus /\ Settled(wide) /\ id \in DOMAIN wide.softIrqs /\ IsState(wide)
  <2>1. Keeps(ts, wide)
    BY TablesOfTrace
  <2> HIDE DEF wide
  <2>2. IsState(wide)
    BY <2>1 DEF Keeps
  <2>3. wide.cpus = ts.cpus /\ Settled(wide) /\ id \in DOMAIN wide.softIrqs
    BY SoftIrqTable DEF wide
  <2> QED
    BY <2>2, <2>3
<1>2. us = [busy EXCEPT !.cpus[c].softIrqs = Append(@, id),
                      !.softIrqs[id] = [pending |-> IF @.pending = 1 THEN 0 ELSE @.pending,
                                        running |-> @.running + 1]]
  BY DEF soft_irq_entry
<1>3. c \in Cpus /\ id \in Nat
  OBVIOUS
<1> HIDE DEF wide, us
<1>4. OnlyModes(wide, busy, c, Append(x.modes, "CPU_SOFT_IRQ"))
  <2>1. OnlyModes(wide, busy, c, Append(wide.cpus[c].modes, "CPU_SOFT_IRQ"))
    BY <1>1, PushParts
  <2> QED
    BY <1>1, <2>1
<1> HIDE DEF busy, c, id
<1>5. /\ DOMAIN us = DOMAIN wide /\ us.cpus = [busy.cpus EXCEPT ![c].softIrqs = Append(@, id)]
      /\ us.softIrqs = [wide.softIrqs EXCEPT ![id] =
                           [pending |-> IF @.pending = 1 THEN 0 ELSE @.pending,
                            running |-> @.running + 1]]
      /\ us.irqs = wide.irqs /\ us.nb = wide.nb
  BY <1>1, <1>2, <1>4 DEF IsState, OnlyModes
<1>6. DOMAIN wide.cpus = Cpus /\ \A d \in Cpus : IsCpu(wide.cpus[d])
  BY <1>1 DEF Settled, HasTables
<1>7. /\ DOMAIN us.cpus = Cpus /\ \A d \in Cpus : d # c => us.cpus[d] = wide.cpus[d]
      /\ DOMAIN us.cpus[c] = DOMAIN x /\ us.cpus[c].modes = Append(x.modes, "CPU_SOFT_IRQ")
      /\ us.cpus[c].softIrqs = Append(x.softIrqs, id) /\ us.cpus[c].irqs = x.irqs
  <2>1. /\ DOMAIN busy.cpus = Cpus /\ \A d \in Cpus : d # c => busy.cpus[d] = wide.cpus[d]
        /\ busy.cpus[c] = [x EXCEPT !.modes = Append(@, "CPU_SOFT_IRQ")]
    BY <1>1, <1>3, <1>4, <1>6 DEF OnlyModes
  <2>2. /\ DOMAIN us.cpus = Cpus /\ \A d \in Cpus : d # c => us.cpus[d] = wide.cpus[d]
        /\ us.cpus[c] = [busy.cpus[c] EXCEPT !.softIrqs = Append(@, id)]
    BY <1>3, <1>5, <2>1
  <2>3. IsCpu(x)
    BY <1>1, <1>3, <1>6
  <2> QED
    BY <2>1, <2>2, <2>3 DEF IsCpu
<1>8. IsCpu(us.cpus[c])
  <2>1. IsCpu(x)
    BY <1>1, <1>3, <1>6
  <2>2. Append(x.modes, "CPU_SOFT_IRQ") \in Seq(CpuModes) /\ Append(x.softIrqs, id) \in Seq(Nat)
    BY <1>3, <2>1 DEF IsCpu, CpuModes
  <2> HIDE DEF x
  <2> QED
    BY <1>7, <2>1, <2>2 DEF IsCpu
<1>9. HasTables(us)
  BY <1>1, <1>5, <1>6, <1>7, <1>8 DEF Settled, HasTables
<1>10. Served(TRUE, SoftIrqStacks(us), us.softIrqs)
  <2> DEFINE f == SoftIrqStacks(wide)
             g == SoftIrqStacks(us)
             t == wide.softIrqs
             u == us.softIrqs
  <2>1. Served(TRUE, f, t)
    BY <1>1 DEF Settled
  <2>2. ServedAlso(f, g, c, id)
    <3>1. \A d \in Cpus : f[d] = wide.cpus[d].softIrqs /\ g[d] = us.cpus[d].softIrqs
      BY DEF SoftIrqStacks
    <3>2. \A d \in Cpus : f[d] \in Seq(Nat)
      BY <1>6, <3>1 DEF IsCpu
    <3>3. g[c] = Append(f[c], id)
      BY <1>1, <1>3, <1>7, <3>1
    <3>4. \A d \in Cpus : d # c => g[d] = f[d]
      BY <1>7, <3>1
    <3> HIDE DEF f, g
    <3> QED
      BY <3>2, <3>3, <3>4 DEF ServedAlso
  <2>3. DOMAIN u = DOMAIN t /\ (\A j \in DOMAIN t : j # id => u[j] = t[j])
        /\ DOMAIN u[id] = {"pending", "running"} /\ u[id].running = t[id].running + 1
    BY <1>1, <1>5
  <2> HIDE DEF f, g, t, u
  <2>4. \A n \in Nat : Told(TRUE, t[id], n) => Told(TRUE, u[id], n + 1)
    BY <2>3 DEF Told
  <2>5. id \in DOMAIN t
    BY <1>1 DEF t
  <2>6. Served(TRUE, g, u)
    BY <1>3, <2>1, <2>2, <2>3, <2>4, <2>5, ServedPush
  <2> QED
    BY <2>6 DEF g, u
<1>11. Served(FALSE, IrqStacks(us), us.irqs)
  <2>1. IrqStacks(us) = IrqStacks(wide)
    <3>1. \A d \in Cpus : us.cpus[d].irqs = wide.cpus[d].irqs
      BY <1>1, <1>7
    <3> QED
      BY <3>1 DEF IrqStacks
  <2> QED
    BY <1>1, <1>5, <2>1 DEF Settled
<1>12. Settled(us) /\ Enters(x, us.cpus[c], "SOFT_IRQ", id) /\ OtherCpus(ts, us, c)
  BY <1>1, <1>7, <1>8, <1>9, <1>10, <1>11 DEF Settled, Enters, OtherCpus, CpuModeOf
<1> QED
  BY <1>12 DEF EntersMode, x, us, c, id

LEMMA TrapTable ==
  ASSUME NEW ts, IsState(ts), Settled(ts), NEW id, NEW us, us = expand_trap_table(ts, id)
  PROVE  us.cpus = ts.cpus /\ us.irqs = ts.irqs /\ us.softIrqs = ts.softIrqs /\ Settled(us)
<1>1. /\ us.cpus = ts.cpus /\ us.irqs = ts.irqs /\ us.softIrqs = ts.softIrqs
      /\ us.nb = [ts.nb EXCEPT !.trap = check_expand(@, id)]
  BY DEF expand_trap_table, IsState
<1>2. /\ DOMAIN us.nb = DOMAIN ts.nb /\ us.nb.irq = ts.nb.irq /\ us.nb.softIrq = ts.nb.softIrq
  BY <1>1 DEF Settled, HasTables
<1>3. HasTables(us)
  BY <1>1, <1>2 DEF Settled, HasTables
<1> QED
  BY <1>1, <1>3 DEF Settled, IrqStacks, SoftIrqStacks

\* A state whose processors serve what they served, by tables that are the same.
LEMMA SettledStill ==
  ASSUME NEW ts, Settled(ts), NEW us, us.irqs = ts.irqs, us.softIrqs = ts.softIrqs, us.nb = ts.nb,
         DOMAIN us.cpus = Cpus, \A d \in Cpus : IsCpu(us.cpus[d]),
         \A d \in Cpus : us.cpus[d].irqs = ts.cpus[d].irqs /\ us.cpus[d].softIrqs = ts.cpus[d].softIrqs
  PROVE  Settled(us)
<1>1. IrqStacks(us) = IrqStacks(ts) /\ SoftIrqStacks(us) = SoftIrqStacks(ts)
  BY DEF IrqStacks, SoftIrqStacks
<1>2. HasTables(us)
  BY DEF Settled, HasTables
<1> QED
  BY <1>1, <1>2 DEF Settled

LEMMA TrapEntered ==
  ASSUME NEW ts, IsState(ts), Settled(ts), NEW e, e.cpu \in Cpus, e.id \in Nat
  PROVE  EntersMode(ts, trap_entry(ts, e), e.cpu, "TRAP", e.id)
<1> DEFINE c == e.cpu
           id == e.id
           x == ts.cpus[c]
           wide == expand_trap_table(ts, id)
           busy == cpu_push_mode(push_state(wide, c, "TRAP", id, e.time), c, "CPU_TRAP")
           us == trap_entry(ts, e)
<1>1. /\ wide.cpus = ts.cpus /\ Settled(wide) /\ IsState(wide)
  <2>1. Keeps(ts, wide)
    BY TablesOfTrace
  <2> HIDE DEF wide
  <2>2. IsState(wide)
    BY <2>1 DEF Keeps
  <2>3. wide.cpus = ts.cpus /\ Settled(wide)
    BY TrapTable DEF wide
  <2> QED
    BY <2>2, <2>3
<1>2. us = [busy EXCEPT !.cpus[c].traps = Append(@, id), !.traps[id] = @ + 1]
  BY DEF trap_entry
<1>3. c \in Cpus /\ id \in Nat
  OBVIOUS
<1> HIDE DEF wide, us
<1>4. OnlyModes(wide, busy, c, Append(x.modes, "CPU_TRAP"))
  <2>1. OnlyModes(wide, busy, c, Append(wide.cpus[c].modes, "CPU_TRAP"))
    BY <1>1, PushParts
  <2> QED
    BY <1>1, <2>1
<1> HIDE DEF busy, c, id
<1>5. /\ DOMAIN us = DOMAIN wide /\ us.cpus = [busy.cpus EXCEPT ![c].traps = Append(@, id)]
      /\ us.irqs = wide.irqs
      /\ us.softIrqs = wide.softIrqs /\ us.nb = wide.nb
  BY <1>1, <1>2, <1>4 DEF IsState, OnlyModes
<1>6. DOMAIN wide.cpus = Cpus /\ \A d \in Cpus : IsCpu(wide.cpus[d])
  BY <1>1 DEF Settled, HasTables
<1>7. /\ DOMAIN us.cpus = Cpus /\ \A d \in Cpus : d # c => us.cpus[d] = wide.cpus[d]
      /\ DOMAIN us.cpus[c] = DOMAIN x /\ us.cpus[c].modes = Append(x.modes, "CPU_TRAP")
      /\ us.cpus[c].irqs = x.irqs /\ us.cpus[c].softIrqs = x.softIrqs
  <2>1. /\ DOMAIN busy.cpus = Cpus /\ \A d \in Cpus : d # c => busy.cpus[d] = wide.cpus[d]
        /\ busy.cpus[c] = [x EXCEPT !.modes = Append(@, "CPU_TRAP")]
    BY <1>1, <1>3, <1>4, <1>6 DEF OnlyModes
  <2>2. /\ DOMAIN us.cpus = Cpus /\ \A d \in Cpus : d # c => us.cpus[d] = wide.cpus[d]
        /\ us.cpus[c] = [busy.cpus[c] EXCEPT !.traps = Append(@, id)]
    BY <1>3, <1>5, <2>1
  <2>3. IsCpu(x)
    BY <1>1, <1>3, <1>6
  <2> QED
    BY <2>1, <2>2, <2>3 DEF IsCpu
<1>8. IsCpu(us.cpus[c])
  <2>1. IsCpu(x)
    BY <1>1, <1>3, <1>6
  <2>2. Append(x.modes, "CPU_TRAP") \in Seq(CpuModes)
    BY <2>1 DEF IsCpu, CpuModes
  <2> HIDE DEF x
  <2> QED
    BY <1>7, <2>1, <2>2 DEF IsCpu
<1>9. Settled(us)
  <2>1. \A d \in Cpus : IsCpu(us.cpus[d])
    BY <1>6, <1>7, <1>8
  <2>2. \A d \in Cpus : us.cpus[d].irqs = wide.cpus[d].irqs /\ us.cpus[d].softIrqs = wide.cpus[d].softIrqs
    BY <1>1, <1>7
  <2> QED
    BY <1>1, <1>5, <1>7, <2>1, <2>2, SettledStill
<1>10. Settled(us) /\ Enters(x, us.cpus[c], "TRAP", id) /\ OtherCpus(ts, us, c)
  BY <1>1, <1>7, <1>8, <1>9 DEF Enters, OtherCpus, CpuModeOf
<1> QED
  BY <1>10 DEF EntersMode, x, us, c, id

LEMMA PopModeIs ==
  ASSUME NEW S, NEW s \in Seq(S), NEW u \in S
  PROVE  PopMode(s, u) \in Seq(S)
<1>1. CASE Len(s) <= 1
  BY <1>1 DEF PopMode, SetBaseMode
<1>2. CASE Len(s) > 1
  BY <1>2, PoppedStack DEF PopMode
<1> QED
  BY <1>1, <1>2

\* Only the modes of one processor change.
LEMMA SettledModes ==
  ASSUME NEW ts, Settled(ts), NEW us, NEW c \in Cpus, NEW modes \in Seq(CpuModes),
         OnlyModes(ts, us, c, modes)
  PROVE  /\ Settled(us) /\ OtherCpus(ts, us, c) /\ IsCpu(us.cpus[c])
         /\ us.cpus[c].modes = modes /\ us.cpus[c].irqs = ts.cpus[c].irqs
         /\ us.cpus[c].softIrqs = ts.cpus[c].softIrqs
<1> DEFINE x == ts.cpus[c]
<1>1. DOMAIN ts.cpus = Cpus /\ \A d \in Cpus : IsCpu(ts.cpus[d])
  BY DEF Settled, HasTables
<1>2. /\ us.cpus = [ts.cpus EXCEPT ![c].modes = modes]
      /\ us.irqs = ts.irqs /\ us.softIrqs = ts.softIrqs /\ us.nb = ts.nb
  BY DEF OnlyModes
<1>3. /\ DOMAIN us.cpus = Cpus /\ \A d \in Cpus : d # c => us.cpus[d] = ts.cpus[d]
      /\ us.cpus[c] = [x EXCEPT !.modes = modes]
  BY <1>1, <1>2
<1>4. IsCpu(x)
  BY <1>1
<1> HIDE DEF x
<1>5. IsCpu(us.cpus[c]) /\ us.cpus[c].modes = modes /\ us.cpus[c].irqs = x.irqs
      /\ us.cpus[c].softIrqs = x.softIrqs
  BY <1>3, <1>4 DEF IsCpu
<1>6. Settled(us)
  <2>1. \A d \in Cpus : IsCpu(us.cpus[d])
    BY <1>1, <1>3, <1>5
  <2>2. \A d \in Cpus : us.cpus[d].irqs = ts.cpus[d].irqs /\ us.cpus[d].softIrqs = ts.cpus[d].softIrqs
    BY <1>3, <1>5 DEF x
  <2> QED
    BY <1>2, <1>3, <2>1, <2>2, SettledStill
<1> QED
  BY <1>3, <1>5, <1>6 DEF OtherCpus, x

LEMMA IrqLeft ==
  ASSUME NEW ts, IsState(ts), Settled(ts), NEW e, e.cpu \in Cpus
  PROVE  LeavesMode(ts, irq_exit(ts, e), e.cpu, "IRQ")
<1> DEFINE c == e.cpu
           x == ts.cpus[c]
           nested == x.irqs
           id == Last1(nested)
           out == cpu_pop_mode(pop_state(ts, c, "IRQ", e.time), c)
           us == irq_exit(ts, e)
           modes == PopMode(x.modes, "CPU_UNKNOWN")
<1>1. OnlyModes(ts, out, c, modes)
  BY PopParts
<1>2. us = IF nested = <<>> THEN out
           ELSE [out EXCEPT !.cpus[c].irqs = Front1(nested),
                            !.irqs[id] = PopMode(@, "IRQ_UNKNOWN")]
  BY DEF irq_exit
<1>3. c \in Cpus /\ IsCpu(x)
  BY DEF Settled, HasTables
<1> HIDE DEF out, us, c, x
<1>4. modes \in Seq(CpuModes)
  BY <1>3, PopModeIs DEF IsCpu, CpuModes
<1> HIDE DEF modes
<1>5. /\ Settled(out) /\ OtherCpus(ts, out, c) /\ IsCpu(out.cpus[c]) /\ DOMAIN out = DOMAIN ts
      /\ out.cpus[c].modes = modes /\ out.cpus[c].irqs = nested
      /\ out.cpus[c].softIrqs = x.softIrqs
  <2>1. /\ Settled(out) /\ OtherCpus(ts, out, c) /\ IsCpu(out.cpus[c])
        /\ out.cpus[c].modes = modes /\ out.cpus[c].irqs = ts.cpus[c].irqs
        /\ out.cpus[c].softIrqs = ts.cpus[c].softIrqs
    BY <1>1, <1>3, <1>4, SettledModes
  <2>2. DOMAIN out = DOMAIN ts
    BY <1>1 DEF OnlyModes
  <2> QED
    BY <2>1, <2>2 DEF x
<1>6. CASE nested = <<>>
  BY <1>2, <1>5, <1>6 DEF LeavesMode, Leaves, us, c, x, modes
<1>7. CASE nested # <<>>
  <2>1. /\ DOMAIN us = DOMAIN out /\ us.cpus = [out.cpus EXCEPT ![c].irqs = Front1(nested)]
        /\ us.irqs = [out.irqs EXCEPT ![id] = PopMode(@, "IRQ_UNKNOWN")]
        /\ us.softIrqs = out.softIrqs /\ us.nb = out.nb
    BY <1>2, <1>5, <1>7 DEF IsState
  <2>2. DOMAIN out.cpus = Cpus /\ \A d \in Cpus : IsCpu(out.cpus[d])
    BY <1>5 DEF Settled, HasTables
  <2>3. /\ DOMAIN us.cpus = Cpus /\ \A d \in Cpus : d # c => us.cpus[d] = out.cpus[d]
        /\ us.cpus[c] = [out.cpus[c] EXCEPT !.irqs = Front1(nested)]
    BY <1>3, <2>1, <2>2
  <2>4. nested \in Seq(Nat) /\ Front1(nested) \in Seq(Nat)
    BY <1>3, <1>7, PoppedStack DEF IsCpu
  <2>5. /\ IsCpu(us.cpus[c]) /\ us.cpus[c].modes = modes /\ us.cpus[c].irqs = Front1(nested)
        /\ us.cpus[c].softIrqs = x.softIrqs
    <3> HIDE DEF nested
    <3> QED
      BY <1>5, <2>3, <2>4 DEF IsCpu
  <2>6. HasTables(us)
    <3>1. \A d \in Cpus : IsCpu(us.cpus[d])
      BY <2>2, <2>3, <2>5
    <3> QED
      BY <1>5, <2>1, <2>3, <3>1 DEF Settled, HasTables
  <2>7. Served(FALSE, IrqStacks(us), us.irqs)
    <3> DEFINE f == IrqStacks(out)
               g == IrqStacks(us)
               t == out.irqs
               u == us.irqs
    <3>1. Served(FALSE, f, t)
      BY <1>5 DEF Settled
    <3>2. f[c] = nested /\ g[c] = Front1(nested) /\ \A d \in Cpus : d # c => g[d] = f[d]
      BY <1>3, <1>5, <2>3, <2>5 DEF IrqStacks
    <3>3. DOMAIN u = DOMAIN t /\ \A j \in DOMAIN t : j # id => u[j] = t[j]
      BY <2>1
    <3>4. id \in DOMAIN t => u[id] = PopMode(t[id], "IRQ_UNKNOWN")
      BY <2>1
    <3> HIDE DEF f, g, t, u, nested
    <3>5. ServedLast(f, g, c)
      BY <1>7, <3>1, <3>2 DEF ServedLast, Served
    <3>6. id \in DOMAIN t
      <4>1. Len(nested) \in 1 .. Len(nested)
        BY <1>7, <2>4
      <4>2. nested[Len(nested)] \in DOMAIN t
        BY <1>3, <3>1, <3>2, <4>1 DEF Served
      <4> QED
        BY <4>2 DEF Last1
    <3>7. \A n \in Nat : n > 0 /\ Told(FALSE, t[id], n) => Told(FALSE, u[id], n - 1)
      <4>1. ASSUME NEW n \in Nat, n > 0, BusyFor(t[id], n)
            PROVE  BusyFor(u[id], n - 1)
        BY <3>4, <3>6, <4>1, BusyFacts
      <4> QED
        BY <4>1 DEF Told
    <3>8. Last1(f[c]) = id
      BY <3>2
    <3> HIDE DEF id
    <3>9. Served(FALSE, g, u)
      BY <1>3, <3>1, <3>3, <3>5, <3>7, <3>8, ServedPop
    <3> QED
      BY <3>9 DEF g, u
  <2>8. Served(TRUE, SoftIrqStacks(us), us.softIrqs)
    <3>1. SoftIrqStacks(us) = SoftIrqStacks(out)
      <4>1. \A d \in Cpus : us.cpus[d].softIrqs = out.cpus[d].softIrqs
        BY <1>5, <2>3, <2>5
      <4> QED
        BY <4>1 DEF SoftIrqStacks
    <3> QED
      BY <1>5, <2>1, <3>1 DEF Settled
  <2>9. Settled(us) /\ OtherCpus(ts, us, c)
    BY <1>5, <2>3, <2>6, <2>7, <2>8 DEF Settled, OtherCpus
  <2>10. Leaves(x, us.cpus[c], "IRQ")
    BY <1>7, <2>5 DEF Leaves, modes
  <2> QED
    BY <2>9, <2>10 DEF LeavesMode, us, c, x
<1> QED
  BY <1>6, <1>7

LEMMA SoftIrqLeft ==
  ASSUME NEW ts, IsState(ts), Settled(ts), NEW e, e.cpu \in Cpus
  PROVE  LeavesMode(ts, soft_irq_exit(ts, e), e.cpu, "SOFT_IRQ")
<1> DEFINE c == e.cpu
           x == ts.cpus[c]
           nested == x.softIrqs
           id == Last1(nested)
           out == cpu_pop_mode(pop_state(ts, c, "SOFT_IRQ", e.time), c)
           us == soft_irq_exit(ts, e)
           modes == PopMode(x.modes, "CPU_UNKNOWN")
<1>1. OnlyModes(ts, out, c, modes)
  BY PopParts
<1>2. us = IF nested = <<>> THEN out
           ELSE [out EXCEPT !.softIrqs[id].running = IF @ > 0 THEN @ - 1 ELSE @,
                            !.cpus[c].softIrqs = Front1(nested)]
  BY DEF soft_irq_exit
<1>3. c \in Cpus /\ IsCpu(x)
  BY DEF Settled, HasTables
<1> HIDE DEF out, us, c, x
<1>4. modes \in Seq(CpuModes)
  BY <1>3, PopModeIs DEF IsCpu, CpuModes
<1> HIDE DEF modes
<1>5. /\ Settled(out) /\ OtherCpus(ts, out, c) /\ IsCpu(out.cpus[c]) /\ DOMAIN out = DOMAIN ts
      /\ out.cpus[c].modes = modes /\ out.cpus[c].softIrqs = nested
      /\ out.cpus[c].irqs = x.irqs
  <2>1. /\ Settled(out) /\ OtherCpus(ts, out, c) /\ IsCpu(out.cpus[c])
        /\ out.cpus[c].modes = modes /\ out.cpus[c].irqs = ts.cpus[c].irqs
        /\ out.cpus[c].softIrqs = ts.cpus[c].softIrqs
    BY <1>1, <1>3, <1>4, SettledModes
  <2>2. DOMAIN out = DOMAIN ts
    BY <1>1 DEF OnlyModes
  <2> QED
    BY <2>1, <2>2 DEF x
<1>6. CASE nested = <<>>
  BY <1>2, <1>5, <1>6 DEF LeavesMode, Leaves, us, c, x, modes
<1>7. CASE nested # <<>>
  <2>1. /\ DOMAIN us = DOMAIN out /\ us.cpus = [out.cpus EXCEPT ![c].softIrqs = Front1(nested)]
        /\ us.softIrqs = [out.softIrqs EXCEPT ![id].running = IF @ > 0 THEN @ - 1 ELSE @]
        /\ us.irqs = out.irqs /\ us.nb = out.nb
    BY <1>2, <1>5, <1>7 DEF IsState
  <2>2. DOMAIN out.cpus = Cpus /\ \A d \in Cpus : IsCpu(out.cpus[d])
    BY <1>5 DEF Settled, HasTables
  <2>3. /\ DOMAIN us.cpus = Cpus /\ \A d \in Cpus : d # c => us.cpus[d] = out.cpus[d]
        /\ us.cpus[c] = [out.cpus[c] EXCEPT !.softIrqs = Front1(nested)]
    BY <1>3, <2>1, <2>2
  <2>4. nested \in Seq(Nat) /\ Front1(nested) \in Seq(Nat)
    BY <1>3, <1>7, PoppedStack DEF IsCpu
  <2>5. /\ IsCpu(us.cpus[c]) /\ us.cpus[c].modes = modes /\ us.cpus[c].softIrqs = Front1(nested)
        /\ us.cpus[c].irqs = x.irqs
    <3> HIDE DEF nested
    <3> QED
      BY <1>5, <2>3, <2>4 DEF IsCpu
  <2>6. HasTables(us)
    <3>1. \A d \in Cpus : IsCpu(us.cpus[d])
      BY <2>2, <2>3, <2>5
    <3> QED
      BY <1>5, <2>1, <2>3, <3>1 DEF Settled, HasTables
  <2>7. Served(TRUE, SoftIrqStacks(us), us.softIrqs)
    <3> DEFINE f == SoftIrqStacks(out)
               g == SoftIrqStacks(us)
               t == out.softIrqs
               u == us.softIrqs
    <3>1. Served(TRUE, f, t)
      BY <1>5 DEF Settled
    <3>2. f[c] = nested /\ g[c] = Front1(nested) /\ \A d \in Cpus : d # c => g[d] = f[d]
      BY <1>3, <1>5, <2>3, <2>5 DEF SoftIrqStacks
    <3>3. DOMAIN u = DOMAIN t /\ \A j \in DOMAIN t : j # id => u[j] = t[j]
      BY <2>1
    <3>4. id \in DOMAIN t =>
            u[id] = [t[id] EXCEPT !.running = IF @ > 0 THEN @ - 1 ELSE @]
      BY <2>1
    <3> HIDE DEF f, g, t, u, nested
    <3>5. ServedLast(f, g, c)
      BY <1>7, <3>1, <3>2 DEF ServedLast, Served
    <3>6. id \in DOMAIN t
      <4>1. Len(nested) \in 1 .. Len(nested)
        BY <1>7, <2>4
      <4>2. nested[Len(nested)] \in DOMAIN t
        BY <1>3, <3>1, <3>2, <4>1 DEF Served
      <4> QED
        BY <4>2 DEF Last1
    <3>7. \A n \in Nat : n > 0 /\ Told(TRUE, t[id], n) => Told(TRUE, u[id], n - 1)
      BY <3>4, <3>6 DEF Told
    <3>8. Last1(f[c]) = id
      BY <3>2
    <3> HIDE DEF id
    <3>9. Served(TRUE, g, u)
      BY <1>3, <3>1, <3>3, <3>5, <3>7, <3>8, ServedPop
    <3> QED
      BY <3>9 DEF g, u
  <2>8. Served(FALSE, IrqStacks(us), us.irqs)
    <3>1. IrqStacks(us) = IrqStacks(out)
      <4>1. \A d \in Cpus : us.cpus[d].irqs = out.cpus[d].irqs
        BY <1>5, <2>3, <2>5
      <4> QED
        BY <4>1 DEF IrqStacks
    <3> QED
      BY <1>5, <2>1, <3>1 DEF Settled
  <2>9. Settled(us) /\ OtherCpus(ts, us, c)
    BY <1>5, <2>3, <2>6, <2>7, <2>8 DEF Settled, OtherCpus
  <2>10. Leaves(x, us.cpus[c], "SOFT_IRQ")
    BY <1>7, <2>5 DEF Leaves, modes
  <2> QED
    BY <2>9, <2>10 DEF LeavesMode, us, c, x
<1> QED
  BY <1>6, <1>7

LEMMA TrapLeft ==
  ASSUME NEW ts, IsState(ts), Settled(ts), NEW e, e.cpu \in Cpus
  PROVE  LeavesMode(ts, trap_exit(ts, e), e.cpu, "TRAP")
<1> DEFINE c == e.cpu
           x == ts.cpus[c]
           nested == x.traps
           out == cpu_pop_mode(pop_state(ts, c, "TRAP", e.time), c)
           us == trap_exit(ts, e)
           modes == PopMode(x.modes, "CPU_UNKNOWN")
<1>1. OnlyModes(ts, out, c, modes)
  BY PopParts
<1>2. us = IF nested = <<>> THEN out
           ELSE [out EXCEPT !.traps[Last1(nested)] = IF @ > 0 THEN @ - 1 ELSE @,
                            !.cpus[c].traps = Front1(nested)]
  BY DEF trap_exit
<1>3. c \in Cpus /\ IsCpu(x)
  BY DEF Settled, HasTables
<1> HIDE DEF out, us, c, x
<1>4. modes \in Seq(CpuModes)
  BY <1>3, PopModeIs DEF IsCpu, CpuModes
<1> HIDE DEF modes
<1>5. /\ Settled(out) /\ OtherCpus(ts, out, c) /\ IsCpu(out.cpus[c]) /\ DOMAIN out = DOMAIN ts
      /\ out.cpus[c].modes = modes /\ out.cpus[c].irqs = x.irqs
      /\ out.cpus[c].softIrqs = x.softIrqs
  <2>1. /\ Settled(out) /\ OtherCpus(ts, out, c) /\ IsCpu(out.cpus[c])
        /\ out.cpus[c].modes = modes /\ out.cpus[c].irqs = ts.cpus[c].irqs
        /\ out.cpus[c].softIrqs = ts.cpus[c].softIrqs
    BY <1>1, <1>3, <1>4, SettledModes
  <2>2. DOMAIN out = DOMAIN ts
    BY <1>1 DEF OnlyModes
  <2> QED
    BY <2>1, <2>2 DEF x
<1>6. CASE nested = <<>>
  BY <1>2, <1>5, <1>6 DEF LeavesMode, Leaves, us, c, x, modes
<1>7. CASE nested # <<>>
  <2>1. /\ us.cpus = [out.cpus EXCEPT ![c].traps = Front1(nested)]
        /\ us.irqs = out.irqs /\ us.softIrqs = out.softIrqs /\ us.nb = out.nb
    BY <1>2, <1>5, <1>7 DEF IsState
  <2>2. DOMAIN out.cpus = Cpus /\ \A d \in Cpus : IsCpu(out.cpus[d])
    BY <1>5 DEF Settled, HasTables
  <2>3. /\ DOMAIN us.cpus = Cpus /\ \A d \in Cpus : d # c => us.cpus[d] = out.cpus[d]
        /\ us.cpus[c] = [out.cpus[c] EXCEPT !.traps = Front1(nested)]
    BY <1>3, <2>1, <2>2
  <2>4. /\ IsCpu(us.cpus[c]) /\ us.cpus[c].modes = modes /\ us.cpus[c].irqs = x.irqs
        /\ us.cpus[c].softIrqs = x.softIrqs
    <3> HIDE DEF nested
    <3> QED
      BY <1>5, <2>3 DEF IsCpu
  <2>5. Settled(us)
    <3>1. \A d \in Cpus : IsCpu(us.cpus[d])
      BY <2>2, <2>3, <2>4
    <3>2. \A d \in Cpus : /\ us.cpus[d].irqs = out.cpus[d].irqs
                          /\ us.cpus[d].softIrqs = out.cpus[d].softIrqs
      BY <1>5, <2>3, <2>4
    <3> QED
      BY <1>5, <2>1, <2>3, <3>1, <3>2, SettledStill
  <2>6. OtherCpus(ts, us, c)
    BY <1>5, <2>3 DEF OtherCpus
  <2>7. Leaves(x, us.cpus[c], "TRAP")
    BY <2>4 DEF Leaves, modes
  <2> QED
    BY <2>5, <2>6, <2>7 DEF LeavesMode, us, c, x
<1> QED
  BY <1>6, <1>7

-----------------------------------------------------------------------------
(* The hooks of all other events.                                          *)

HasParts(ts) ==
  DOMAIN ts = {"processes", "running", "cpus", "irqs", "softIrqs", "traps", "bdevs", "nb"}

\* Nothing but processes and devices changes.
SameTables(ts, us) ==
  /\ DOMAIN us = DOMAIN ts /\ us.cpus = ts.cpus
  /\ us.irqs = ts.irqs /\ us.softIrqs = ts.softIrqs /\ us.nb = ts.nb

LEMMA SameTablesTwice ==
  ASSUME NEW ts, NEW us, NEW ws, SameTables(ts, us), SameTables(us, ws)
  PROVE  SameTables(ts, ws)
BY DEF SameTables

LEMMA SameTablesWrite ==
  ASSUME NEW ts, HasParts(ts), NEW k, NEW p, NEW c, NEW d, NEW time, NEW pid
  PROVE  /\ SameTables(ts, ts)
         /\ SameTables(ts, SetProcess(ts, k, p))
         /\ SameTables(ts, SetRunning(ts, c, p))
         /\ SameTables(ts, find_process_or_create(ts, d, pid, time))
         /\ SameTables(ts, exit_process(ts, k))
<1>1. \A j, q : SameTables(ts, SetProcess(ts, j, q))
  BY DEF SameTables, HasParts, SetProcess
<1>2. SameTables(ts, ts)
  BY DEF SameTables
<1>3. SameTables(ts, SetRunning(ts, c, p))
  BY <1>1 DEF SetRunning
<1>4. SameTables(ts, find_process_or_create(ts, d, pid, time))
  BY <1>1, <1>2 DEF find_process_or_create
<1>5. SameTables(ts, exit_process(ts, k))
  BY DEF SameTables, HasParts, exit_process
<1> QED
  BY <1>1, <1>2, <1>3, <1>4, <1>5

LEMMA OutTables ==
  ASSUME NEW ts, HasParts(ts), NEW e
  PROVE  SameTables(ts, ScheduledOut(ts, e))
<1> DEFINE k == ts.running[e.cpu]
           p == ts.processes[k]
           s == IF Top(p).s = "EXIT" THEN "ZOMBIE" ELSE IF e.stateOut = 0 THEN "WAIT_CPU" ELSE "WAIT"
           out == SetProcess(ts, k, SetStatus(p, s, e.time))
           left == exit_process(out, k)
<1>1. \/ ScheduledOut(ts, e) \in {ts, out, left}
      \/ \E q : ScheduledOut(ts, e) = SetProcess(ts, k, q)
      \/ \E q : ScheduledOut(ts, e) = SetProcess(left, k, q)
  BY DEF ScheduledOut, Running
<1>2. SameTables(ts, ts) /\ \A q : SameTables(ts, SetProcess(ts, k, q))
  BY SameTablesWrite
<1>3. SameTables(ts, out)
  BY <1>2
<1> HIDE DEF out
<1>4. HasParts(out)
  BY <1>3 DEF SameTables, HasParts
<1>5. SameTables(out, left)
  BY <1>4, SameTablesWrite
<1> HIDE DEF left
<1>6. SameTables(ts, left)
  BY <1>3, <1>5, SameTablesTwice
<1>7. HasParts(left)
  BY <1>6 DEF SameTables, HasParts
<1>8. \A q : SameTables(left, SetProcess(left, k, q))
  BY <1>7, SameTablesWrite
<1>9. \A q : SameTables(ts, SetProcess(left, k, q))
  BY <1>6, <1>8, SameTablesTwice
<1> HIDE DEF k
<1> QED
  BY <1>1, <1>2, <1>3, <1>6, <1>9

\* The stack of the processor that switches is made anew.
LEMMA SwitchTables ==
  ASSUME NEW ts, IsState(ts), NEW e, IsState(schedchange(ts, e)), NEW k, k = InKey(e)
  PROVE  OnlyModes(ts, schedchange(ts, e), e.cpu,
                   SwitchedModes(e.pidIn, schedchange(ts, e).processes[k]))
<1> DEFINE out == ScheduledOut(ts, e)
           found == find_process_or_create(out, e.cpu, e.pidIn, e.time)
           p == SetStatus(found.processes[k], "RUN", e.time)
           q == [p EXCEPT !.cpu = e.cpu]
           us == SetProcess(found, k, q)
           done == schedchange(ts, e)
           modes == SwitchedModes(e.pidIn, p)
<1>1. done = [us EXCEPT !.running[e.cpu] = k, !.cpus[e.cpu].modes = modes]
  BY Zenon DEF schedchange, us, q, p, found, out
<1>2. HasParts(ts)
  BY DEF IsState, HasParts
<1>3. SameTables(ts, out)
  BY <1>2, OutTables
<1> HIDE DEF out
<1>4. SameTables(ts, found)
  <2>1. HasParts(out)
    BY <1>2, <1>3 DEF SameTables, HasParts
  <2>2. SameTables(out, found)
    BY <2>1, SameTablesWrite
  <2> HIDE DEF found
  <2> QED
    BY <1>3, <2>2, SameTablesTwice
<1> HIDE DEF found
<1>5. SameTables(found, us) /\ HasParts(found)
  <2>1. HasParts(found)
    BY <1>2, <1>4 DEF SameTables, HasParts
  <2> HIDE DEF q
  <2> QED
    BY <2>1, SameTablesWrite
<1>6. SameTables(ts, us) /\ HasParts(us)
  <2>1. SameTables(ts, us)
    <3> HIDE DEF us
    <3> QED
      BY <1>4, <1>5, SameTablesTwice
  <2> HIDE DEF us
  <2> QED
    BY <1>2, <2>1 DEF SameTables, HasParts
<1>7. done.processes[k] = q
  <2>1. us.processes = Put(found.processes, k, q)
    BY <1>5 DEF SetProcess, HasParts
  <2> HIDE DEF us, q
  <2>2. done.processes = us.processes
    BY <1>1, <1>6 DEF HasParts
  <2> HIDE DEF done
  <2> QED
    BY <2>1, <2>2 DEF Put
<1>8. Top(q) = Top(p)
  <2>1. k \in DOMAIN done.processes
    <3>1. done.processes = us.processes
      BY <1>1, <1>6 DEF HasParts
    <3>2. us.processes = Put(found.processes, k, q)
      BY <1>5 DEF SetProcess, HasParts
    <3> HIDE DEF us, q, done
    <3> QED
      BY <3>1, <3>2 DEF Put
  <2>2. IsProcess(q)
    BY <1>7, <2>1 DEF IsState
  <2> HIDE DEF p
  <2>3. q.stack = p.stack
    BY <2>2 DEF IsProcess
  <2> HIDE DEF q
  <2> QED
    BY <2>3 DEF Top
<1>9. SwitchedModes(e.pidIn, q) = modes
  <2> HIDE DEF p, q
  <2> QED
    BY <1>8 DEF SwitchedModes
<1>10. OnlyModes(ts, done, e.cpu, modes)
  <2> HIDE DEF us, modes
  <2> QED
    BY <1>1, <1>6 DEF SameTables, HasParts, OnlyModes
<1> QED
  BY <1>7, <1>9, <1>10

OtherKinds ==
  {"syscall_entry", "syscall_exit", "soft_irq_raise", "sched_try_wakeup", "process_fork",
   "process_kernel_thread", "process_exit", "process_free", "process_exec", "thread_brand",
   "fs_open", "enum_process_state", "statedump_end", "enum_interrupt", "dump_softirq",
   "bdev_request_issue", "bdev_request_complete", "function_entry", "function_exit"}

LEMMA OtherTables ==
  ASSUME NEW ts, IsState(ts), NEW e,
         e.kind \in OtherKinds \ {"soft_irq_raise", "enum_interrupt", "dump_softirq"}
  PROVE  SameTables(ts, Hook(ts, e))
<1>1. HasParts(ts)
  BY DEF IsState, HasParts
<1>2. /\ SameTables(ts, ts) /\ \A k, p : SameTables(ts, SetProcess(ts, k, p))
      /\ \A c, p : SameTables(ts, SetRunning(ts, c, p))
      /\ \A k : SameTables(ts, exit_process(ts, k))
  BY <1>1, SameTablesWrite
<1>3. ASSUME NEW d, NEW pid, NEW time
      PROVE  \A k, p : SameTables(ts, SetProcess(find_process_or_create(ts, d, pid, time), k, p))
  <2> DEFINE found == find_process_or_create(ts, d, pid, time)
  <2>1. SameTables(ts, found)
    BY <1>1, SameTablesWrite
  <2> HIDE DEF found
  <2>2. HasParts(found)
    BY <1>1, <2>1 DEF SameTables, HasParts
  <2>3. \A k, p : SameTables(found, SetProcess(found, k, p))
    BY <2>2, SameTablesWrite
  <2>4. \A k, p : SameTables(ts, SetProcess(found, k, p))
    BY <2>1, <2>3, SameTablesTwice
  <2> QED
    BY <2>4 DEF found
<1>4. \A f : SameTables(ts, [ts EXCEPT !.processes = f]) /\ SameTables(ts, [ts EXCEPT !.bdevs = f])
  BY <1>1 DEF SameTables, HasParts
<1>5. CASE e.kind = "syscall_entry"
  BY <1>2, <1>5 DEF Hook, syscall_entry, push_state
<1>6. CASE e.kind = "syscall_exit"
  BY <1>2, <1>6 DEF Hook, syscall_exit, pop_state
<1>7. CASE e.kind = "sched_try_wakeup"
  BY <1>3, <1>7 DEF Hook, sched_try_wakeup
<1>8. CASE e.kind = "process_fork"
  BY <1>2, <1>8 DEF Hook, process_fork
<1>9. CASE e.kind = "process_kernel_thread"
  BY <1>3, <1>9 DEF Hook, process_kernel_thread
<1>10. CASE e.kind \in {"process_exit", "process_free"}
  BY <1>2, <1>10 DEF Hook, process_exit, process_free
<1>11. CASE e.kind \in {"process_exec", "thread_brand", "fs_open"}
  BY <1>2, <1>11 DEF Hook, process_exec, thread_brand, fs_open
<1>12. CASE e.kind = "enum_process_state"
  <2>1. Hook(ts, e) = enum_process_state(ts, e)
    BY <1>12 DEF Hook
  <2>2. \/ \E f : enum_process_state(ts, e) = [ts EXCEPT !.processes = f]
        \/ \E k, p : enum_process_state(ts, e) = SetProcess(ts, k, p)
    BY DEF enum_process_state
  <2> DEFINE us == enum_process_state(ts, e)
  <2> HIDE DEF us
  <2>3. ASSUME NEW f, us = [ts EXCEPT !.processes = f]
        PROVE  SameTables(ts, us)
    BY <1>4, <2>3
  <2>4. ASSUME NEW k, NEW p, us = SetProcess(ts, k, p)
        PROVE  SameTables(ts, us)
    BY <1>2, <2>4
  <2>5. SameTables(ts, us)
    BY <2>2, <2>3, <2>4 DEF us
  <2> QED
    BY <2>1, <2>5 DEF us
<1>13. CASE e.kind = "statedump_end"
  BY <1>4, <1>13 DEF Hook, statedump_end
<1>14. CASE e.kind \in {"bdev_request_issue", "bdev_request_complete"}
  BY <1>4, <1>14 DEF Hook, bdev_request_issue, bdev_request_complete
<1>15. CASE e.kind \in {"function_entry", "function_exit"}
  BY <1>2, <1>15 DEF Hook, function_entry, function_exit
<1> QED
  BY <1>5, <1>6, <1>7, <1>8, <1>9, <1>10, <1>11, <1>12, <1>13, <1>14, <1>15 DEF OtherKinds

LEMMA SettledTables ==
  ASSUME NEW ts, Settled(ts), NEW us, SameTables(ts, us)
  PROVE  Settled(us)
BY DEF SameTables, Settled, HasTables, IrqStacks, SoftIrqStacks

LEMMA RaisedTable ==
  ASSUME NEW ts, IsState(ts), Settled(ts), NEW e
  PROVE  Settled(soft_irq_raise(ts, e)) /\ soft_irq_raise(ts, e).cpus = ts.cpus
<1> DEFINE us == soft_irq_raise(ts, e)
           u == [ts.softIrqs EXCEPT ![e.id].pending = 1]
<1>1. CASE e.id \notin DOMAIN ts.softIrqs
  BY <1>1 DEF soft_irq_raise
<1>2. CASE e.id \in DOMAIN ts.softIrqs
  <2>1. /\ us.cpus = ts.cpus /\ us.irqs = ts.irqs /\ us.softIrqs = u /\ us.nb = ts.nb
    BY <1>2 DEF soft_irq_raise, IsState
  <2> HIDE DEF us
  <2>2. DOMAIN u = DOMAIN ts.softIrqs
    OBVIOUS
  <2>3. ASSUME NEW id \in DOMAIN ts.softIrqs, NEW n \in Nat, Told(TRUE, ts.softIrqs[id], n)
        PROVE  Told(TRUE, u[id], n)
    BY <2>3 DEF Told
  <2> HIDE DEF u
  <2>4. IrqStacks(us) = IrqStacks(ts) /\ SoftIrqStacks(us) = SoftIrqStacks(ts)
    BY <2>1 DEF IrqStacks, SoftIrqStacks
  <2>5. Served(TRUE, SoftIrqStacks(ts), u)
    BY <2>2, <2>3, ServedSame DEF Settled
  <2>6. HasTables(us)
    BY <2>1, <2>2 DEF Settled, HasTables
  <2>7. Settled(us)
    BY <2>1, <2>4, <2>5, <2>6 DEF Settled
  <2> QED
    BY <2>1, <2>7 DEF us
<1> QED
  BY <1>1, <1>2

LEMMA OtherHook ==
  ASSUME NEW ts, IsState(ts), Settled(ts), NEW e, e.kind \in OtherKinds,
         e.kind \in {"enum_interrupt", "dump_softirq"} => e.id \in Nat
  PROVE  Settled(Hook(ts, e)) /\ Hook(ts, e).cpus = ts.cpus
<1>1. CASE e.kind = "soft_irq_raise"
  <2>1. Hook(ts, e) = soft_irq_raise(ts, e)
    BY <1>1 DEF Hook
  <2> QED
    BY <2>1, RaisedTable
<1>2. CASE e.kind = "enum_interrupt"
  <2>1. Hook(ts, e) = expand_irq_table(ts, e.id) /\ e.id \in Nat
    BY <1>2 DEF Hook, enum_interrupt
  <2> QED
    BY <2>1, IrqTable
<1>3. CASE e.kind = "dump_softirq"
  <2>1. Hook(ts, e) = expand_soft_irq_table(ts, e.id) /\ e.id \in Nat
    BY <1>3 DEF Hook, dump_softirq
  <2> QED
    BY <2>1, SoftIrqTable
<1>4. CASE e.kind \notin {"soft_irq_raise", "enum_interrupt", "dump_softirq"}
  <2>1. SameTables(ts, Hook(ts, e))
    BY <1>4, OtherTables
  <2>2. Settled(Hook(ts, e))
    BY <2>1, SettledTables
  <2> QED
    BY <2>1, <2>2 DEF SameTables
<1> QED
  BY <1>1, <1>2, <1>3, <1>4

-----------------------------------------------------------------------------
(* From one state to the next, with the times added up around the hooks.   *)

LEMMA SettledRecounted ==
  ASSUME NEW ts, IsState(ts), NEW us, Recounts(ts, us)
  PROVE  us.cpus = ts.cpus /\ (Settled(ts) => Settled(us))
<1>1. SameTables(ts, us)
  BY DEF Recounts, SameTables, IsState
<1> QED
  BY <1>1, SettledTables DEF SameTables

\* The modes that the events are about.
Into(kind, t) ==
  \/ kind \in {"trap_entry", "page_fault_entry"} /\ t = "TRAP"
  \/ kind = "irq_entry" /\ t = "IRQ"
  \/ kind = "soft_irq_entry" /\ t = "SOFT_IRQ"

OutOf(kind, t) ==
  \/ kind \in {"trap_exit", "page_fault_exit"} /\ t = "TRAP"
  \/ kind = "irq_exit" /\ t = "IRQ"
  \/ kind = "soft_irq_exit" /\ t = "SOFT_IRQ"

LEMMA EntryHook ==
  ASSUME NEW ts, IsState(ts), Settled(ts), NEW e, e.cpu \in Cpus, e.id \in Nat, NEW t,
         Into(e.kind, t)
  PROVE  EntersMode(ts, Hook(ts, e), e.cpu, t, e.id)
<1>1. CASE t = "TRAP"
  <2>1. Hook(ts, e) = trap_entry(ts, e)
    BY <1>1 DEF Hook, Into
  <2> QED
    BY <1>1, <2>1, TrapEntered
<1>2. CASE t = "IRQ"
  <2>1. Hook(ts, e) = irq_entry(ts, e)
    BY <1>2 DEF Hook, Into
  <2> QED
    BY <1>2, <2>1, IrqEntered
<1>3. CASE t = "SOFT_IRQ"
  <2>1. Hook(ts, e) = soft_irq_entry(ts, e)
    BY <1>3 DEF Hook, Into
  <2> QED
    BY <1>3, <2>1, SoftIrqEntered
<1> QED
  BY <1>1, <1>2, <1>3 DEF Into

LEMMA ExitHook ==
  ASSUME NEW ts, IsState(ts), Settled(ts), NEW e, e.cpu \in Cpus, NEW t, OutOf(e.kind, t)
  PROVE  LeavesMode(ts, Hook(ts, e), e.cpu, t)
<1>1. CASE t = "TRAP"
  <2>1. Hook(ts, e) = trap_exit(ts, e)
    BY <1>1 DEF Hook, OutOf
  <2> QED
    BY <1>1, <2>1, TrapLeft
<1>2. CASE t = "IRQ"
  <2>1. Hook(ts, e) = irq_exit(ts, e)
    BY <1>2 DEF Hook, OutOf
  <2> QED
    BY <1>2, <2>1, IrqLeft
<1>3. CASE t = "SOFT_IRQ"
  <2>1. Hook(ts, e) = soft_irq_exit(ts, e)
    BY <1>3 DEF Hook, OutOf
  <2> QED
    BY <1>3, <2>1, SoftIrqLeft
<1> QED
  BY <1>1, <1>2, <1>3 DEF OutOf

LEMMA EnteredState ==
  ASSUME NEW w, IsState(w.ts), Settled(w.ts), NEW e, NEW x, Hooked(w, e, x), e.cpu \in Cpus,
         e.id \in Nat, NEW t, Into(e.kind, t)
  PROVE  EntersMode(w.ts, x.ts, e.cpu, t, e.id)
<1>1. PICK ts : Recounts(w.ts, ts) /\ IsState(Hook(ts, e)) /\ Recounts(Hook(ts, e), x.ts)
  BY DEF Hooked
<1>2. IsState(ts) /\ Settled(ts) /\ ts.cpus = w.ts.cpus
  BY <1>1, SettledRecounted DEF Recounts
<1>3. EntersMode(ts, Hook(ts, e), e.cpu, t, e.id)
  BY <1>2, EntryHook
<1>4. x.ts.cpus = Hook(ts, e).cpus /\ (Settled(Hook(ts, e)) => Settled(x.ts))
  BY <1>1, SettledRecounted
<1> QED
  BY <1>2, <1>3, <1>4 DEF EntersMode, OtherCpus

LEMMA LeftState ==
  ASSUME NEW w, IsState(w.ts), Settled(w.ts), NEW e, NEW x, Hooked(w, e, x), e.cpu \in Cpus,
         NEW t, OutOf(e.kind, t)
  PROVE  LeavesMode(w.ts, x.ts, e.cpu, t)
<1>1. PICK ts : Recounts(w.ts, ts) /\ IsState(Hook(ts, e)) /\ Recounts(Hook(ts, e), x.ts)
  BY DEF Hooked
<1>2. IsState(ts) /\ Settled(ts) /\ ts.cpus = w.ts.cpus
  BY <1>1, SettledRecounted DEF Recounts
<1>3. LeavesMode(ts, Hook(ts, e), e.cpu, t)
  BY <1>2, ExitHook
<1>4. x.ts.cpus = Hook(ts, e).cpus /\ (Settled(Hook(ts, e)) => Settled(x.ts))
  BY <1>1, SettledRecounted
<1> QED
  BY <1>2, <1>3, <1>4 DEF LeavesMode, OtherCpus

LEMMA OtherState ==
  ASSUME NEW w, IsState(w.ts), Settled(w.ts), NEW e, NEW x, Hooked(w, e, x), e.kind \in OtherKinds,
         e.kind \in {"enum_interrupt", "dump_softirq"} => e.id \in Nat
  PROVE  Settled(x.ts) /\ x.ts.cpus = w.ts.cpus
<1>1. PICK ts : Recounts(w.ts, ts) /\ IsState(Hook(ts, e)) /\ Recounts(Hook(ts, e), x.ts)
  BY DEF Hooked
<1>2. IsState(ts) /\ Settled(ts) /\ ts.cpus = w.ts.cpus
  BY <1>1, SettledRecounted DEF Recounts
<1>3. Settled(Hook(ts, e)) /\ Hook(ts, e).cpus = ts.cpus
  BY <1>2, OtherHook
<1>4. x.ts.cpus = Hook(ts, e).cpus /\ (Settled(Hook(ts, e)) => Settled(x.ts))
  BY <1>1, SettledRecounted
<1> QED
  BY <1>2, <1>3, <1>4

\* A switch makes the modes of the processor those of the process it brings.
Switches(ts, us, c, modes) ==
  /\ Settled(us) /\ OtherCpus(ts, us, c) /\ us.cpus[c].modes = modes
  /\ us.cpus[c].irqs = ts.cpus[c].irqs /\ us.cpus[c].softIrqs = ts.cpus[c].softIrqs

LEMMA SwitchedState ==
  ASSUME NEW w, IsState(w.ts), Settled(w.ts), NEW e, NEW x, Hooked(w, e, x), e.cpu \in Cpus,
         e.kind = "schedchange", NEW k, k = InKey(e), k \in DOMAIN x.ts.processes
  PROVE  Switches(w.ts, x.ts, e.cpu, SwitchedModes(e.pidIn, x.ts.processes[k]))
<1>1. PICK ts : Recounts(w.ts, ts) /\ IsState(Hook(ts, e)) /\ Recounts(Hook(ts, e), x.ts)
  BY DEF Hooked
<1>2. IsState(ts) /\ Settled(ts) /\ ts.cpus = w.ts.cpus
  BY <1>1, SettledRecounted DEF Recounts
<1> DEFINE us == schedchange(ts, e)
           p == us.processes[k]
           q == x.ts.processes[k]
           modes == SwitchedModes(e.pidIn, p)
<1>3. Hook(ts, e) = us
  BY DEF Hook
<1>4. IsState(us) /\ Recounts(us, x.ts)
  BY <1>1, <1>3
<1>5. OnlyModes(ts, us, e.cpu, modes)
  BY <1>2, <1>4, SwitchTables
<1> HIDE DEF us
<1>6. modes \in Seq(CpuModes)
  <2>1. \A a, b \in CpuModes : <<a>> \in Seq(CpuModes) /\ Append(<<a>>, b) \in Seq(CpuModes)
    OBVIOUS
  <2>2. {"CPU_IDLE", "CPU_BUSY", "CPU_TRAP"} \subseteq CpuModes
    BY DEF CpuModes
  <2> HIDE DEF p
  <2> QED
    BY <2>1, <2>2 DEF SwitchedModes, SetBaseMode
<1>7. Top(q).t = Top(p).t
  <2>1. k \in DOMAIN us.processes
    BY <1>4 DEF Recounts
  <2>2. Recounted(p, q) /\ IsProcess(p)
    BY <1>4, <2>1 DEF Recounts, IsState
  <2> HIDE DEF p, q
  <2>3. Len(p.stack) \in Nat \ {0}
    BY <2>2, FrameLemma
  <2>4. Len(p.stack) \in 1 .. Len(p.stack) /\ Len(q.stack) = Len(p.stack)
    BY <2>2, <2>3 DEF Recounted
  <2> QED
    BY <2>2, <2>4 DEF Recounted, Top, Last1
<1>8. SwitchedModes(e.pidIn, q) = modes
  <2> HIDE DEF p, q
  <2> QED
    BY <1>7 DEF SwitchedModes
<1> HIDE DEF modes
<1>9. /\ Settled(us) /\ OtherCpus(ts, us, e.cpu)
      /\ us.cpus[e.cpu].modes = modes /\ us.cpus[e.cpu].irqs = ts.cpus[e.cpu].irqs
      /\ us.cpus[e.cpu].softIrqs = ts.cpus[e.cpu].softIrqs
  BY <1>2, <1>5, <1>6, SettledModes
<1>10. x.ts.cpus = us.cpus /\ Settled(x.ts)
  BY <1>4, <1>9, SettledRecounted
<1> QED
  BY <1>2, <1>8, <1>9, <1>10 DEF Switches, OtherCpus

-----------------------------------------------------------------------------
(* How the modes of the kernel nest, and those of its processors over them. *)

KernelModes == {"USER_MODE", "SYSCALL", "TRAP", "IRQ", "SOFT_IRQ"}
Interrupts == {"IRQ", "SOFT_IRQ"}

\* Over user mode a system call, over either a trap, over all of them a soft
\* interrupt, and interrupts over that.
Fits(m, i) ==
  /\ m[i] # "USER_MODE"
  /\ m[i] = "SYSCALL" => i = 2 /\ m[1] = "USER_MODE"
  /\ m[i] = "TRAP" => m[i - 1] \in {"USER_MODE", "SYSCALL"}
  /\ \A j \in 1 .. i - 1 : m[j] \in Interrupts => m[i] = "IRQ"

Nests(m) ==
  /\ m \in Seq(KernelModes) /\ m # <<>>
  /\ m[1] \in {"USER_MODE", "SYSCALL"}
  /\ \A i \in 2 .. Len(m) : Fits(m, i)

\* What a mode is entered over.
Over(m, t) ==
  \/ t = "SYSCALL" /\ Last1(m) = "USER_MODE"
  \/ t = "TRAP" /\ Last1(m) \in {"USER_MODE", "SYSCALL"}
  \/ t = "IRQ"
  \/ t = "SOFT_IRQ" /\ Last1(m) \notin Interrupts

\* A process that no processor runs is in no interrupt.
Rests(m) == Nests(m) /\ Last1(m) \notin Interrupts

\* The idle process makes no system call and no fault.
Idles(m) == Nests(m) /\ m[1] = "SYSCALL" /\ \A i \in 1 .. Len(m) : m[i] # "TRAP"

LEMMA NestsParts ==
  ASSUME NEW m, Nests(m)
  PROVE  /\ m \in Seq(KernelModes) /\ m # <<>> /\ Len(m) \in Nat \ {0} /\ DOMAIN m = 1 .. Len(m)
         /\ \A i \in 1 .. Len(m) : m[i] \in KernelModes
         /\ Last1(m) = m[Len(m)] /\ Len(m) \in 1 .. Len(m) /\ 1 \in 1 .. Len(m)
         /\ Last1(m) \in KernelModes /\ m[1] \in {"USER_MODE", "SYSCALL"}
<1>1. m \in Seq(KernelModes) /\ m # <<>> /\ m[1] \in {"USER_MODE", "SYSCALL"}
  BY DEF Nests
<1>2. Len(m) \in Nat \ {0} /\ DOMAIN m = 1 .. Len(m) /\ \A i \in 1 .. Len(m) : m[i] \in KernelModes
  BY <1>1
<1> QED
  BY <1>1, <1>2 DEF Last1

\* User mode and system call are at the bottom.
LEMMA NestsBottom ==
  ASSUME NEW m, Nests(m)
  PROVE  /\ Last1(m) = "USER_MODE" => Len(m) = 1 /\ m[1] = "USER_MODE"
         /\ Last1(m) = "SYSCALL" /\ Len(m) > 1 => Len(m) = 2 /\ m[2] = "SYSCALL"
         /\ Last1(m) \in {"TRAP", "IRQ", "SOFT_IRQ"} => Len(m) > 1
<1>1. /\ Len(m) \in Nat \ {0} /\ Last1(m) = m[Len(m)] /\ m[1] \in {"USER_MODE", "SYSCALL"}
  BY NestsParts
<1>2. Len(m) > 1 => Len(m) \in 2 .. Len(m)
  BY <1>1
<1>3. Len(m) > 1 => Fits(m, Len(m))
  BY <1>2 DEF Nests
<1>4. CASE Len(m) = 1
  <2>1. Last1(m) = m[1]
    BY <1>1, <1>4
  <2> QED
    BY <1>1, <1>4, <2>1
<1>5. CASE Len(m) > 1
  <2>1. Fits(m, Len(m))
    BY <1>3, <1>5
  <2>2. Last1(m) # "USER_MODE" /\ (Last1(m) = "SYSCALL" => Len(m) = 2)
    BY <1>1, <2>1 DEF Fits
  <2>3. Last1(m) = "SYSCALL" => m[2] = "SYSCALL"
    BY <1>1, <2>2
  <2> QED
    BY <1>5, <2>2, <2>3
<1> QED
  BY <1>1, <1>4, <1>5

LEMMA RestsFacts ==
  ASSUME NEW m, Rests(m)
  PROVE  \A i \in 1 .. Len(m) : m[i] \notin Interrupts
<1>1. Nests(m) /\ Last1(m) \notin Interrupts
  BY DEF Rests
<1>2. Len(m) \in Nat \ {0} /\ Last1(m) = m[Len(m)]
  BY <1>1, NestsParts
<1>3. ASSUME NEW i \in 1 .. Len(m), m[i] \in Interrupts
      PROVE  FALSE
  <2>1. i # Len(m)
    BY <1>1, <1>2, <1>3
  <2>2. Len(m) \in 2 .. Len(m) /\ i \in 1 .. Len(m) - 1
    BY <1>2, <2>1
  <2>3. Fits(m, Len(m))
    BY <1>1, <2>2 DEF Nests
  <2>4. m[Len(m)] = "IRQ"
    BY <1>3, <2>2, <2>3 DEF Fits
  <2> QED
    BY <1>1, <1>2, <2>4 DEF Interrupts
<1> QED
  BY <1>3

LEMMA NestsPush ==
  ASSUME NEW m, Nests(m), NEW t, Over(m, t)
  PROVE  /\ Nests(Append(m, t))
         /\ Idles(m) /\ t \in Interrupts => Idles(Append(m, t))
<1> DEFINE u == Append(m, t)
           n == Len(m)
<1>1. /\ m \in Seq(KernelModes) /\ m # <<>> /\ n \in Nat \ {0} /\ Last1(m) = m[n]
      /\ m[1] \in {"USER_MODE", "SYSCALL"}
  BY NestsParts
<1>2. t \in KernelModes
  BY DEF Over, KernelModes
<1>3. /\ u \in Seq(KernelModes) /\ Len(u) = n + 1 /\ u[n + 1] = t /\ \A i \in 1 .. n : u[i] = m[i]
  BY <1>1, <1>2, PushedStack
<1> HIDE DEF u, n
<1>4. u # <<>> /\ u[1] = m[1] /\ u[n] = m[n]
  <2>1. 1 \in 1 .. n /\ n \in 1 .. n /\ n + 1 # 0
    BY <1>1
  <2>2. u[1] = m[1] /\ u[n] = m[n]
    BY <1>3, <2>1
  <2>3. Len(u) # 0
    BY <1>1, <1>3
  <2> QED
    BY <2>2, <2>3
<1>5. ASSUME NEW i \in 2 .. n
      PROVE  Fits(u, i)
  <2>1. Fits(m, i)
    BY <1>5 DEF Nests, n
  <2>2. i \in 1 .. n /\ i - 1 \in 1 .. n /\ \A j \in 1 .. i - 1 : j \in 1 .. n
    BY <1>1, <1>5
  <2>3. u[i] = m[i] /\ u[i - 1] = m[i - 1] /\ \A j \in 1 .. i - 1 : u[j] = m[j]
    BY <1>3, <2>2
  <2> QED
    BY <1>4, <2>1, <2>3 DEF Fits
<1>6. Fits(u, n + 1)
  <2>1. t # "USER_MODE"
    BY DEF Over
  <2>2. t = "SYSCALL" => n = 1 /\ m[1] = "USER_MODE"
    BY NestsBottom DEF Over, n
  <2>3. t = "TRAP" => u[n] \in {"USER_MODE", "SYSCALL"}
    BY <1>1, <1>4 DEF Over
  <2>4. t # "IRQ" => \A j \in 1 .. n : m[j] \notin Interrupts
    <3>1. t # "IRQ" => Last1(m) \notin Interrupts
      BY DEF Over, Interrupts
    <3>2. t # "IRQ" => Rests(m)
      BY <3>1 DEF Rests
    <3> QED
      BY <3>2, RestsFacts DEF n
  <2>5. (n + 1) - 1 = n
    BY <1>1
  <2> QED
    BY <1>3, <1>4, <2>1, <2>2, <2>3, <2>4, <2>5 DEF Fits
<1>7. \A i \in 2 .. Len(u) : i \in 2 .. n \/ i = n + 1
  BY <1>1, <1>3
<1>8. Nests(u)
  BY <1>1, <1>3, <1>4, <1>5, <1>6, <1>7 DEF Nests
<1>9. ASSUME Idles(m), t \in Interrupts
      PROVE  Idles(u)
  <2>1. \A i \in 1 .. n : m[i] # "TRAP"
    BY <1>9 DEF Idles, n
  <2>2. \A i \in 1 .. Len(u) : i \in 1 .. n \/ i = n + 1
    BY <1>1, <1>3
  <2>3. t # "TRAP"
    BY <1>9 DEF Interrupts
  <2>4. \A i \in 1 .. Len(u) : u[i] # "TRAP"
    BY <1>3, <2>1, <2>2, <2>3
  <2> QED
    BY <1>4, <1>8, <1>9, <2>4 DEF Idles
<1> QED
  BY <1>8, <1>9 DEF u

LEMMA NestsPop ==
  ASSUME NEW m, Nests(m), Len(m) > 1
  PROVE  Nests(Front1(m)) /\ (Idles(m) => Idles(Front1(m)))
<1> DEFINE u == Front1(m)
           n == Len(m) - 1
<1>1. m \in Seq(KernelModes) /\ m # <<>> /\ n \in Nat \ {0} /\ m[1] \in {"USER_MODE", "SYSCALL"}
  BY NestsParts
<1>2. /\ u \in Seq(KernelModes) /\ Len(u) = n /\ \A i \in 1 .. n : u[i] = m[i]
  BY <1>1, PoppedStack
<1>3. \A i \in 2 .. n : Fits(m, i)
  BY <1>1 DEF Nests
<1>4. \A i \in 1 .. n : i \in 1 .. Len(m)
  BY <1>1
<1> HIDE DEF u, n
<1>5. u # <<>> /\ u[1] = m[1]
  <2>1. 1 \in 1 .. n
    BY <1>1
  <2>2. Len(u) # 0
    BY <1>1, <1>2
  <2> QED
    BY <1>2, <2>1, <2>2
<1>6. ASSUME NEW i \in 2 .. n
      PROVE  Fits(u, i)
  <2>1. Fits(m, i)
    BY <1>3
  <2>2. i \in 1 .. n /\ i - 1 \in 1 .. n /\ \A j \in 1 .. i - 1 : j \in 1 .. n
    BY <1>1, <1>6
  <2>3. u[i] = m[i] /\ u[i - 1] = m[i - 1] /\ \A j \in 1 .. i - 1 : u[j] = m[j]
    BY <1>2, <2>2
  <2> QED
    BY <1>5, <2>1, <2>3 DEF Fits
<1>7. Nests(u)
  BY <1>1, <1>2, <1>5, <1>6 DEF Nests
<1>8. Idles(m) => Idles(u)
  BY <1>2, <1>4, <1>5, <1>7 DEF Idles
<1> QED
  BY <1>7, <1>8 DEF u

LEMMA StartNests ==
  /\ Rests(<<"USER_MODE">>) /\ Rests(<<"USER_MODE", "SYSCALL">>)
  /\ Rests(<<"SYSCALL">>) /\ Idles(<<"SYSCALL">>)
<1>1. ASSUME NEW m, NEW x \in {"USER_MODE", "SYSCALL"}, m = <<x>>
      PROVE  Rests(m) /\ (x = "SYSCALL" => Idles(m))
  <2>1. m \in Seq(KernelModes) /\ Len(m) = 1 /\ m[1] = x /\ m # <<>>
    BY <1>1 DEF KernelModes
  <2>2. Nests(m)
    BY <2>1 DEF Nests
  <2> QED
    BY <2>1, <2>2 DEF Rests, Idles, Last1, Interrupts
<1>2. Rests(<<"USER_MODE", "SYSCALL">>)
  <2> DEFINE m == <<"USER_MODE", "SYSCALL">>
  <2>1. m \in Seq(KernelModes) /\ Len(m) = 2 /\ m[1] = "USER_MODE" /\ m[2] = "SYSCALL" /\ m # <<>>
    BY DEF KernelModes
  <2> HIDE DEF m
  <2>2. Fits(m, 2)
    BY <2>1 DEF Fits, Interrupts
  <2>3. Nests(m)
    BY <2>1, <2>2 DEF Nests
  <2>4. Rests(m)
    BY <2>1, <2>3 DEF Rests, Last1, Interrupts
  <2> QED
    BY <2>4 DEF m
<1> QED
  BY <1>1, <1>2

\* The modes of a processor are its own, and one for each of those that its
\* process is in over user mode and system call.
Under(m) == IF Len(m) > 1 /\ m[2] = "SYSCALL" THEN 2 ELSE 1

Mirrors(s, m, base) ==
  /\ s \in Seq(CpuModes) /\ Len(s) = 1 + Len(m) - Under(m) /\ s[1] = base
  /\ \A i \in Under(m) + 1 .. Len(m) :
        m[i] \in DOMAIN CpuModeOf /\ s[1 + i - Under(m)] = CpuModeOf[m[i]]

LEMMA UnderFacts ==
  ASSUME NEW m, Nests(m)
  PROVE  Under(m) \in {1, 2} /\ Under(m) <= Len(m)
BY NestsParts DEF Under

LEMMA MirrorsPush ==
  ASSUME NEW m, Nests(m), NEW t \in DOMAIN CpuModeOf, NEW s, NEW base, Mirrors(s, m, base)
  PROVE  Mirrors(Append(s, CpuModeOf[t]), Append(m, t), base)
<1> DEFINE u == Append(m, t)
           x == CpuModeOf[t]
           r == Append(s, x)
           n == Len(m)
           k == Under(m)
<1>1. /\ m \in Seq(KernelModes) /\ n \in Nat \ {0} /\ k \in {1, 2} /\ k <= n
  BY NestsParts, UnderFacts
<1>2. t \in {"TRAP", "IRQ", "SOFT_IRQ"} /\ t \in KernelModes /\ x \in CpuModes
  BY DEF CpuModeOf, KernelModes, CpuModes
<1>3. /\ u \in Seq(KernelModes) /\ Len(u) = n + 1 /\ u[n + 1] = t /\ \A i \in 1 .. n : u[i] = m[i]
  BY <1>1, <1>2, PushedStack
<1>4. /\ s \in Seq(CpuModes) /\ Len(s) = 1 + n - k /\ s[1] = base
      /\ \A i \in k + 1 .. n : m[i] \in DOMAIN CpuModeOf /\ s[1 + i - k] = CpuModeOf[m[i]]
  BY DEF Mirrors
<1>5. /\ r \in Seq(CpuModes) /\ Len(r) = 2 + n - k /\ r[2 + n - k] = x
      /\ \A i \in 1 .. 1 + n - k : r[i] = s[i]
  <2>1. /\ r \in Seq(CpuModes) /\ Len(r) = Len(s) + 1 /\ r[Len(s) + 1] = x
        /\ \A i \in 1 .. Len(s) : r[i] = s[i]
    BY <1>2, <1>4, PushedStack
  <2>2. Len(s) + 1 = 2 + n - k
    BY <1>1, <1>4
  <2> HIDE DEF r, n, k
  <2> QED
    BY <1>4, <2>1, <2>2
<1>6. Under(u) = k
  <2>1. CASE n = 1
    <3>1. Len(u) = 2 /\ u[2] = t /\ k = 1
      BY <1>3, <2>1 DEF Under
    <3> HIDE DEF u, k
    <3> QED
      BY <1>2, <3>1 DEF Under
  <2>2. CASE n > 1
    <3>1. Len(u) > 1 /\ u[2] = m[2] /\ n > 1
      BY <1>1, <1>3, <2>2
    <3> HIDE DEF u
    <3> QED
      BY <3>1 DEF Under
  <2> HIDE DEF u, n, k
  <2>3. n = 1 \/ n > 1
    BY <1>1
  <2> QED
    BY <2>1, <2>2, <2>3
<1> HIDE DEF u, r, n, k
<1>7. ASSUME NEW i \in k + 1 .. Len(u)
      PROVE  u[i] \in DOMAIN CpuModeOf /\ r[1 + i - k] = CpuModeOf[u[i]]
  <2>1. CASE i = n + 1
    <3>1. 1 + i - k = 2 + n - k
      BY <1>1, <2>1
    <3> QED
      BY <1>3, <1>5, <2>1, <3>1
  <2>2. CASE i # n + 1
    <3>1. i \in k + 1 .. n /\ i \in 1 .. n /\ 1 + i - k \in 1 .. 1 + n - k
      BY <1>1, <1>3, <1>7, <2>2
    <3> QED
      BY <1>3, <1>4, <1>5, <3>1
  <2> QED
    BY <2>1, <2>2
<1>8. 1 \in 1 .. 1 + n - k /\ 2 + n - k = 1 + (n + 1) - k
  BY <1>1
<1>9. Mirrors(r, u, base)
  BY <1>3, <1>4, <1>5, <1>6, <1>7, <1>8 DEF Mirrors
<1> QED
  BY <1>9 DEF r, u

LEMMA MirrorsPop ==
  ASSUME NEW m, Nests(m), Last1(m) \in DOMAIN CpuModeOf, NEW s, NEW base, Mirrors(s, m, base)
  PROVE  Mirrors(PopMode(s, "CPU_UNKNOWN"), Front1(m), base)
<1> DEFINE u == Front1(m)
           r == Front1(s)
           n == Len(m)
           k == Under(m)
<1>1. /\ m \in Seq(KernelModes) /\ m # <<>> /\ n \in Nat \ {0} /\ k \in {1, 2} /\ k <= n
      /\ Last1(m) = m[n] /\ m[1] \in {"USER_MODE", "SYSCALL"}
  BY NestsParts, UnderFacts
<1>2. Last1(m) \in {"TRAP", "IRQ", "SOFT_IRQ"}
  BY DEF CpuModeOf
<1>3. k < n
  BY <1>1, <1>2 DEF Under
<1>4. /\ u \in Seq(KernelModes) /\ Len(u) = n - 1 /\ \A i \in 1 .. n - 1 : u[i] = m[i]
  BY <1>1, PoppedStack
<1>5. /\ s \in Seq(CpuModes) /\ Len(s) = 1 + n - k /\ s[1] = base
      /\ \A i \in k + 1 .. n : m[i] \in DOMAIN CpuModeOf /\ s[1 + i - k] = CpuModeOf[m[i]]
  BY DEF Mirrors
<1> HIDE DEF n
<1>6. Len(s) > 1 /\ s # <<>>
  <2>1. Len(s) > 1
    BY <1>1, <1>3, <1>5
  <2> QED
    BY <1>5, <2>1
<1>7. PopMode(s, "CPU_UNKNOWN") = r
  <2>1. ~(Len(s) <= 1)
    BY <1>5, <1>6
  <2> QED
    BY <2>1 DEF PopMode
<1>8. r \in Seq(CpuModes) /\ Len(r) = n - k /\ \A i \in 1 .. n - k : r[i] = s[i]
  <2>1. r \in Seq(CpuModes) /\ Len(r) = Len(s) - 1 /\ \A i \in 1 .. Len(s) - 1 : r[i] = s[i]
    BY <1>5, <1>6, PoppedStack
  <2>2. Len(s) - 1 = n - k
    BY <1>1, <1>5
  <2> HIDE DEF r, k
  <2> QED
    BY <2>1, <2>2
<1>9. Under(u) = k
  <2>1. CASE n - 1 = 1
    <3>1. Len(u) = 1 /\ k = 1
      BY <1>1, <1>3, <1>4, <2>1
    <3> HIDE DEF u, k
    <3> QED
      BY <3>1 DEF Under
  <2>2. CASE n - 1 > 1
    <3>1. Len(u) > 1 /\ u[2] = m[2] /\ Len(m) > 1
      BY <1>1, <1>4, <2>2 DEF n
    <3> HIDE DEF u
    <3> QED
      BY <3>1 DEF Under
  <2> QED
    BY <1>1, <1>3, <2>1, <2>2
<1> HIDE DEF u, r, k
<1>10. ASSUME NEW i \in k + 1 .. Len(u)
       PROVE  u[i] \in DOMAIN CpuModeOf /\ r[1 + i - k] = CpuModeOf[u[i]]
  <2>1. i \in k + 1 .. n /\ i \in 1 .. n - 1 /\ 1 + i - k \in 1 .. n - k
    BY <1>1, <1>3, <1>4, <1>10
  <2> QED
    BY <1>4, <1>5, <1>8, <2>1
<1>11. 1 \in 1 .. n - k /\ n - k = 1 + (n - 1) - k
  BY <1>1, <1>3
<1>12. Mirrors(r, u, base)
  BY <1>4, <1>5, <1>8, <1>9, <1>10, <1>11 DEF Mirrors
<1> QED
  BY <1>7, <1>12 DEF r, u

\* A system call from user mode, and the return from it.
LEMMA MirrorsCall ==
  ASSUME NEW m, Nests(m), Last1(m) = "USER_MODE", NEW s, NEW base, Mirrors(s, m, base)
  PROVE  Mirrors(s, Append(m, "SYSCALL"), base)
<1> DEFINE u == Append(m, "SYSCALL")
<1>1. Len(m) = 1 /\ m \in Seq(KernelModes) /\ "SYSCALL" \in KernelModes
  BY NestsBottom, NestsParts DEF KernelModes
<1>2. Len(u) = 2 /\ u[2] = "SYSCALL"
  <2>1. Len(u) = Len(m) + 1 /\ u[Len(m) + 1] = "SYSCALL"
    BY <1>1, PushedStack
  <2> HIDE DEF u
  <2> QED
    BY <1>1, <2>1
<1> HIDE DEF u
<1>3. Under(u) = 2 /\ Under(m) = 1
  BY <1>1, <1>2 DEF Under
<1>4. Mirrors(s, u, base)
  BY <1>1, <1>2, <1>3 DEF Mirrors
<1> QED
  BY <1>4 DEF u

LEMMA MirrorsReturn ==
  ASSUME NEW m, Nests(m), Last1(m) = "SYSCALL", Len(m) > 1, NEW s, NEW base, Mirrors(s, m, base)
  PROVE  Mirrors(s, Front1(m), base)
<1> DEFINE u == Front1(m)
<1>1. Len(m) = 2 /\ m[2] = "SYSCALL" /\ m \in Seq(KernelModes) /\ m # <<>>
  BY NestsBottom, NestsParts
<1>2. Len(u) = 1
  <2>1. Len(u) = Len(m) - 1
    BY <1>1, PoppedStack
  <2> HIDE DEF u
  <2> QED
    BY <1>1, <2>1
<1> HIDE DEF u
<1>3. Under(u) = 1 /\ Under(m) = 2
  BY <1>1, <1>2 DEF Under
<1>4. Mirrors(s, u, base)
  BY <1>1, <1>2, <1>3 DEF Mirrors
<1> QED
  BY <1>4 DEF u

\* Between switches a process is in a fault at most.
RestModes(m, base) == IF Last1(m) = "TRAP" THEN Append(<<base>>, "CPU_TRAP") ELSE <<base>>

LEMMA MirrorsRest ==
  ASSUME NEW m, Rests(m), NEW base \in CpuModes
  PROVE  Mirrors(RestModes(m, base), m, base)
<1> DEFINE n == Len(m)
           k == Under(m)
           s == RestModes(m, base)
<1>1. /\ Nests(m) /\ m \in Seq(KernelModes) /\ n \in Nat \ {0} /\ k \in {1, 2} /\ k <= n
      /\ Last1(m) = m[n] /\ m[1] \in {"USER_MODE", "SYSCALL"}
      /\ \A i \in 1 .. n : m[i] \in KernelModes /\ m[i] \notin Interrupts
  BY NestsParts, UnderFacts, RestsFacts DEF Rests
<1>2. ASSUME NEW i \in k + 1 .. n
      PROVE  m[i] = "TRAP" /\ m[i - 1] # "TRAP"
  <2>1. i \in 2 .. n /\ i \in 1 .. n
    BY <1>1, <1>2
  <2>2. Fits(m, i)
    BY <1>1, <2>1 DEF Nests
  <2>3. m[i] # "SYSCALL"
    <3>1. ASSUME m[i] = "SYSCALL"
          PROVE  FALSE
      <4>1. i = 2 /\ n > 1
        BY <1>1, <2>1, <2>2, <3>1 DEF Fits
      <4>2. k = 2
        BY <3>1, <4>1 DEF Under
      <4> QED
        BY <1>2, <4>1, <4>2
    <3> QED
      BY <3>1
  <2> QED
    BY <1>1, <2>1, <2>2, <2>3 DEF Fits, KernelModes, Interrupts
<1>3. n \in {k, k + 1}
  <2>1. ASSUME n > k + 1
        PROVE  FALSE
    <3>1. n \in k + 1 .. n /\ n - 1 \in k + 1 .. n
      BY <1>1, <2>1
    <3> QED
      BY <1>2, <3>1
  <2> QED
    BY <1>1, <2>1
<1>4. n = k => m[n] # "TRAP"
  BY <1>1 DEF Under
<1>5. "CPU_TRAP" \in CpuModes
  BY DEF CpuModes
<1>6. CASE n = k
  <2>1. s = <<base>>
    BY <1>1, <1>4, <1>6 DEF RestModes
  <2>2. s \in Seq(CpuModes) /\ Len(s) = 1 /\ s[1] = base
    BY <2>1
  <2> HIDE DEF s
  <2>3. Len(s) = 1 + n - k /\ \A i \in k + 1 .. n : FALSE
    BY <1>1, <1>6, <2>2
  <2> QED
    BY <2>2, <2>3 DEF Mirrors, s
<1>7. CASE n = k + 1
  <2>1. n \in k + 1 .. n
    BY <1>1, <1>7
  <2>2. m[n] = "TRAP"
    BY <1>2, <2>1
  <2>3. s = Append(<<base>>, "CPU_TRAP")
    BY <1>1, <2>2 DEF RestModes
  <2>4. s \in Seq(CpuModes) /\ Len(s) = 2 /\ s[1] = base /\ s[2] = "CPU_TRAP"
    BY <1>5, <2>3
  <2> HIDE DEF s
  <2>5. Len(s) = 1 + n - k
    BY <1>1, <1>7, <2>4
  <2>6. \A i \in k + 1 .. n : i = n /\ 1 + i - k = 2
    BY <1>1, <1>7
  <2>7. "TRAP" \in DOMAIN CpuModeOf /\ CpuModeOf["TRAP"] = "CPU_TRAP"
    BY DEF CpuModeOf
  <2>8. \A i \in k + 1 .. n : m[i] \in DOMAIN CpuModeOf /\ s[1 + i - k] = CpuModeOf[m[i]]
    BY <2>2, <2>4, <2>6, <2>7
  <2> QED
    BY <2>4, <2>5, <2>8 DEF Mirrors, s
<1> QED
  BY <1>3, <1>6, <1>7

LEMMA MirrorsTop ==
  ASSUME NEW m, Nests(m), NEW s, NEW base, Mirrors(s, m, base)
  PROVE  Last1(s) = IF Last1(m) \in DOMAIN CpuModeOf THEN CpuModeOf[Last1(m)] ELSE base
<1> DEFINE n == Len(m)
           k == Under(m)
<1>1. /\ n \in Nat \ {0} /\ k \in {1, 2} /\ k <= n
      /\ Last1(m) = m[n] /\ m[1] \in {"USER_MODE", "SYSCALL"}
  BY NestsParts, UnderFacts
<1>2. /\ Len(s) = 1 + n - k /\ s[1] = base
      /\ \A i \in k + 1 .. n : m[i] \in DOMAIN CpuModeOf /\ s[1 + i - k] = CpuModeOf[m[i]]
  BY DEF Mirrors
<1>3. CASE n = k
  <2>1. m[n] \notin DOMAIN CpuModeOf
    BY <1>1, <1>3 DEF Under, CpuModeOf
  <2>2. Len(s) = 1
    BY <1>1, <1>2, <1>3
  <2> QED
    BY <1>1, <1>2, <2>1, <2>2 DEF Last1
<1>4. CASE n > k
  <2>1. n \in k + 1 .. n
    BY <1>1, <1>4
  <2>2. m[n] \in DOMAIN CpuModeOf /\ s[1 + n - k] = CpuModeOf[m[n]]
    BY <1>2, <2>1
  <2> HIDE DEF n, k
  <2> QED
    BY <1>1, <1>2, <2>2 DEF Last1
<1> QED
  BY <1>1, <1>3, <1>4

-----------------------------------------------------------------------------
(* The modes of the processes of the kernel, over the whole trace.         *)

NestInv ==
  /\ \A k \in DOMAIN mode : Nests(mode[k])
  /\ \A c \in Cpus : Idles(mode[Key(c, 0)]) /\ (current[c] # 0 => Rests(mode[Key(c, 0)]))
  /\ \A p \in Pids : status[p] # "run" => Rests(mode[Key(0, p)])

LEMMA CurrentKeys ==
  ASSUME RunInv, BornKernel, NEW c \in Cpus
  PROVE  /\ CurrentKey(c) \in DOMAIN mode /\ Key(c, 0) \in DOMAIN mode
         /\ current[c] = 0 => CurrentKey(c) = Key(c, 0)
         /\ current[c] # 0 => current[c] \in Pids /\ CurrentKey(c) = Key(0, current[c])
         /\ \A d \in Cpus : /\ Key(d, 0) = CurrentKey(c) => d = c /\ current[c] = 0
                            /\ CurrentKey(d) = CurrentKey(c) => d = c
         /\ \A p \in Pids : /\ Key(0, p) \in DOMAIN mode
                            /\ Key(0, p) = CurrentKey(c) => p = current[c] /\ status[p] = "run"
<1>1. /\ current \in [Cpus -> {0} \cup Pids]
      /\ \A d \in Cpus : current[c] = current[d] /\ current[c] # 0 => c = d
      /\ \A d \in Cpus : current[d] # 0 => status[current[d]] = "run"
      /\ DOMAIN mode = {Key(d, 0) : d \in Cpus} \cup {Key(0, p) : p \in Pids}
  BY DEF RunInv, Kernel, BornKernel
<1>2. /\ \A d \in Cpus : Key(d, 0) = <<0, d>>
      /\ \A p \in Pids : p # 0 /\ Key(0, p) = <<p, -1>> /\ \A d \in Cpus : Key(d, p) = <<p, -1>>
  BY StateTraceAssumption DEF Key
<1>3. \A d \in Cpus : /\ current[d] = 0 => CurrentKey(d) = <<0, d>>
                      /\ current[d] # 0 => current[d] \in Pids /\ CurrentKey(d) = <<current[d], -1>>
  BY <1>1, <1>2 DEF CurrentKey
<1>4. ASSUME NEW d \in Cpus
      PROVE  /\ Key(d, 0) = CurrentKey(c) => d = c /\ current[c] = 0
             /\ CurrentKey(d) = CurrentKey(c) => d = c
  <2>1. current[c] # 0 => CurrentKey(c) # <<0, d>>
    BY <1>3
  <2>2. Key(d, 0) = CurrentKey(c) => d = c /\ current[c] = 0
    BY <1>2, <1>3, <2>1
  <2>3. CurrentKey(d) = CurrentKey(c) => d = c
    <3>1. CASE current[d] = 0
      BY <1>2, <1>3, <2>2, <3>1
    <3>2. CASE current[d] # 0 /\ current[c] # 0
      BY <1>1, <1>3, <3>2
    <3>3. CASE current[d] # 0 /\ current[c] = 0
      BY <1>3, <3>3
    <3> QED
      BY <3>1, <3>2, <3>3
  <2> QED
    BY <2>2, <2>3
<1>5. ASSUME NEW p \in Pids, Key(0, p) = CurrentKey(c)
      PROVE  p = current[c] /\ status[p] = "run"
  <2>1. current[c] # 0
    BY <1>2, <1>3, <1>5
  <2>2. p = current[c]
    BY <1>2, <1>3, <1>5, <2>1
  <2> QED
    BY <1>1, <2>1, <2>2
<1>6. current[c] # 0 => current[c] \in Pids /\ CurrentKey(c) = Key(0, current[c])
  BY <1>2, <1>3
<1>7. current[c] = 0 => CurrentKey(c) = Key(c, 0)
  BY <1>2, <1>3
<1>8. CurrentKey(c) \in DOMAIN mode
  BY <1>1, <1>6, <1>7
<1> QED
  BY <1>1, <1>4, <1>5, <1>6, <1>7, <1>8

\* The process of a processor gets into other modes.
LEMMA NestWrite ==
  ASSUME RunInv, BornKernel, NestInv, NEW c \in Cpus, NEW m, Nests(m), current[c] = 0 => Idles(m),
         mode' = [mode EXCEPT ![CurrentKey(c)] = m], UNCHANGED <<current, status>>
  PROVE  NestInv'
<1>1. /\ \A d \in Cpus : Key(d, 0) \in DOMAIN mode
      /\ \A d \in Cpus : Key(d, 0) = CurrentKey(c) => d = c /\ current[c] = 0
      /\ \A p \in Pids : /\ Key(0, p) \in DOMAIN mode
                         /\ Key(0, p) = CurrentKey(c) => status[p] = "run"
  BY CurrentKeys
<1>2. DOMAIN mode' = DOMAIN mode
  OBVIOUS
<1>3. \A k \in DOMAIN mode : mode'[k] = IF k = CurrentKey(c) THEN m ELSE mode[k]
  OBVIOUS
<1>4. \A k \in DOMAIN mode' : Nests(mode'[k])
  BY <1>2, <1>3 DEF NestInv
<1>5. ASSUME NEW d \in Cpus
      PROVE  Idles(mode'[Key(d, 0)]) /\ (current[d] # 0 => Rests(mode'[Key(d, 0)]))
  <2>1. CASE Key(d, 0) = CurrentKey(c)
    BY <1>1, <1>3, <2>1
  <2>2. CASE Key(d, 0) # CurrentKey(c)
    BY <1>1, <1>3, <2>2 DEF NestInv
  <2> QED
    BY <2>1, <2>2
<1>6. ASSUME NEW p \in Pids, status[p] # "run"
      PROVE  Rests(mode'[Key(0, p)])
  BY <1>1, <1>3, <1>6 DEF NestInv
<1> QED
  BY <1>4, <1>5, <1>6 DEF NestInv

\* A process is born, or one comes to or from its rest.
LEMMA NestStatus ==
  ASSUME NestInv, UNCHANGED <<current, mode>>,
         \A p \in Pids : status[p] = "run" => status'[p] = "run"
  PROVE  NestInv'
BY DEF NestInv

LEMMA NestSwitch ==
  ASSUME RunInv, BornKernel, NestInv, NEW c \in Cpus, NEW in \in {0} \cup Pids,
         NEW stateOut \in {0, 1, 64}, SchedChange(c, in, stateOut)
  PROVE  /\ NestInv' /\ Rests(mode[CurrentKey(c)]) /\ Rests(mode[Key(c, in)])
         /\ in = 0 => Last1(mode[Key(c, in)]) # "TRAP"
<1> DEFINE out == current[c]
           left == IF out = 0 THEN status ELSE [status EXCEPT ![out] = AfterSwitch(out, stateOut)]
<1>1. /\ TopMode(c) \in {"USER_MODE", "SYSCALL", "TRAP"}
      /\ in # out /\ (in # 0 => status[in] = "ready")
      /\ current' = [current EXCEPT ![c] = in]
      /\ status' = IF in = 0 THEN left ELSE [left EXCEPT ![in] = "run"]
      /\ mode' = mode
  BY DEF SchedChange, left
<1>2. /\ CurrentKey(c) \in DOMAIN mode /\ Key(c, 0) \in DOMAIN mode
      /\ out = 0 => CurrentKey(c) = Key(c, 0)
      /\ out # 0 => out \in Pids /\ CurrentKey(c) = Key(0, out)
  BY CurrentKeys
<1>3. Rests(mode[CurrentKey(c)])
  <2>1. Nests(mode[CurrentKey(c)])
    BY <1>2 DEF NestInv
  <2>2. Last1(mode[CurrentKey(c)]) \in {"USER_MODE", "SYSCALL", "TRAP"}
    BY <1>1 DEF TopMode
  <2> QED
    BY <2>1, <2>2 DEF Rests, Interrupts
<1>4. \A p \in Pids : p \notin {out, in} => status'[p] = status[p]
  <2>1. \A p \in Pids : p # out => left[p] = status[p]
    BY DEF RunInv, Kernel
  <2>2. DOMAIN left = Pids
    BY DEF RunInv, Kernel
  <2> HIDE DEF left
  <2> QED
    BY <1>1, <2>1, <2>2
<1>5. in # 0 => status'[in] = "run"
  <2>1. DOMAIN left = Pids
    BY DEF RunInv, Kernel
  <2> HIDE DEF left
  <2> QED
    BY <1>1, <2>1
<1>6. \A d \in Cpus : d # c => current'[d] = current[d]
  BY <1>1 DEF RunInv, Kernel
<1> HIDE DEF left
<1>7. ASSUME NEW d \in Cpus, current'[d] # 0
      PROVE  Rests(mode[Key(d, 0)])
  <2>1. CASE d = c /\ out = 0
    BY <1>2, <1>3, <2>1
  <2>2. CASE d = c /\ out # 0
    BY <2>2 DEF NestInv
  <2>3. CASE d # c
    BY <1>6, <1>7, <2>3 DEF NestInv
  <2> QED
    BY <2>1, <2>2, <2>3
<1>8. ASSUME NEW p \in Pids, status'[p] # "run"
      PROVE  Rests(mode[Key(0, p)])
  <2>1. CASE p = out
    <3>1. out # 0
      BY <2>1, StateTraceAssumption
    <3> QED
      BY <1>2, <1>3, <2>1, <3>1
  <2>2. CASE p # out
    <3>1. p # in \/ in = 0
      BY <1>5, <1>8
    <3>2. p # 0
      BY StateTraceAssumption
    <3>3. status'[p] = status[p]
      BY <1>4, <2>2, <3>1, <3>2
    <3> QED
      BY <1>8, <3>3 DEF NestInv
  <2> QED
    BY <2>1, <2>2
<1>9. NestInv'
  BY <1>1, <1>7, <1>8 DEF NestInv
<1>10. CASE in = 0
  <2>1. Idles(mode[Key(c, 0)]) /\ Rests(mode[Key(c, 0)])
    BY <1>1, <1>10 DEF NestInv
  <2>2. Last1(mode[Key(c, 0)]) # "TRAP"
    <3>1. Nests(mode[Key(c, 0)])
      BY <2>1 DEF Idles
    <3> DEFINE m == mode[Key(c, 0)]
    <3>2. Last1(m) = m[Len(m)] /\ Len(m) \in 1 .. Len(m)
      BY <3>1, NestsParts
    <3> QED
      BY <2>1, <3>2 DEF Idles
  <2> QED
    BY <1>3, <1>9, <1>10, <2>1, <2>2
<1>11. CASE in # 0
  <2>1. in \in Pids /\ Key(c, in) = Key(0, in) /\ status[in] # "run"
    BY <1>1, <1>11 DEF Key
  <2> QED
    BY <1>3, <1>9, <1>11, <2>1 DEF NestInv
<1> QED
  BY <1>10, <1>11

LEMMA NestFork ==
  ASSUME RunInv, BornKernel, NestInv, NEW c \in Cpus, NEW p \in Pids, NEW thread \in BOOLEAN,
         Fork(c, p, thread)
  PROVE  /\ NestInv' /\ Key(c, p) = Key(0, p) /\ status[p] = "none"
         /\ \A k \in DOMAIN mode : k # Key(0, p) => mode'[k] = mode[k]
<1> DEFINE m == IF thread THEN <<"SYSCALL">> ELSE <<"USER_MODE", "SYSCALL">>
<1>1. /\ status[p] = "none" /\ mode' = [mode EXCEPT ![Key(c, p)] = m] /\ current' = current
      /\ status' = [status EXCEPT ![p] = IF thread THEN "forked" ELSE "ready"]
  BY DEF Fork
<1>2. Rests(m)
  BY StartNests
<1> HIDE DEF m
<1>3. Key(c, p) = Key(0, p) /\ \A d \in Cpus : Key(d, 0) # Key(0, p)
  BY Keys
<1>4. \A q \in Pids : Key(0, q) = Key(0, p) <=> q = p
  BY StateAssumption, Keys
<1>5. /\ \A d \in Cpus : Key(d, 0) \in DOMAIN mode
      /\ \A q \in Pids : Key(0, q) \in DOMAIN mode
  BY DEF BornKernel
<1>6. /\ DOMAIN mode' = DOMAIN mode
      /\ \A k \in DOMAIN mode : mode'[k] = IF k = Key(0, p) THEN m ELSE mode[k]
  BY <1>1, <1>3
<1>7. \A k \in DOMAIN mode' : Nests(mode'[k])
  BY <1>2, <1>6 DEF NestInv, Rests
<1>8. \A d \in Cpus : Idles(mode'[Key(d, 0)]) /\ (current[d] # 0 => Rests(mode'[Key(d, 0)]))
  BY <1>3, <1>5, <1>6 DEF NestInv
<1>9. ASSUME NEW q \in Pids, status'[q] # "run"
      PROVE  Rests(mode'[Key(0, q)])
  <2>1. CASE q = p
    BY <1>2, <1>5, <1>6, <2>1
  <2>2. CASE q # p
    <3>1. status[q] # "run"
      BY <1>1, <1>9, <2>2 DEF RunInv, Kernel
    <3> QED
      BY <1>4, <1>5, <1>6, <2>2, <3>1 DEF NestInv
  <2> QED
    BY <2>1, <2>2
<1>10. NestInv'
  BY <1>1, <1>7, <1>8, <1>9 DEF NestInv
<1> QED
  BY <1>1, <1>3, <1>6, <1>10

LEMMA NestInit ==
  ASSUME Init
  PROVE  NestInv
<1>1. PICK m \in [InitialPids -> StartModes] :
        mode = [k \in {Key(c, 0) : c \in Cpus} \cup {Key(0, p) : p \in Pids} |->
                 IF k[1] \in InitialPids THEN m[k[1]] ELSE <<"SYSCALL">>]
  BY DEF Init
<1>2. \A k \in DOMAIN mode : Rests(mode[k])
  BY <1>1, StartNests DEF StartModes
<1>3. ASSUME NEW c \in Cpus
      PROVE  Idles(mode[Key(c, 0)])
  <2>1. Key(c, 0)[1] \notin InitialPids
    BY StateTraceAssumption DEF Key, Pids
  <2>2. Key(c, 0) \in DOMAIN mode /\ mode[Key(c, 0)] = <<"SYSCALL">>
    BY <1>1, <2>1
  <2> QED
    BY <2>2, StartNests
<1>4. \A c \in Cpus : Key(c, 0) \in DOMAIN mode
  BY <1>1
<1>5. \A p \in Pids : Key(0, p) \in DOMAIN mode
  BY <1>1
<1> QED
  BY <1>2, <1>3, <1>4, <1>5 DEF NestInv, Rests

-----------------------------------------------------------------------------
(* What the state tells of a processor, and the modes its process is in.   *)

Base(pid) == IF pid = 0 THEN "CPU_IDLE" ELSE "CPU_BUSY"

\* The interrupts in service are those of the kernel, from the start on.
Serves(x, m) == Len(x.irqs) = Nested(m, "IRQ") /\ Len(x.softIrqs) = Nested(m, "SOFT_IRQ")

\* The modes are those of the kernel where the process is one of those known.
Shows(x, m, pid, known) == Serves(x, m) /\ (pid \in known => Mirrors(x.modes, m, Base(pid)))

KnownAt(c) == IF c \in synced THEN born \cup {0} ELSE {}

CpuInv ==
  \A c \in Cpus : Shows(v.ts.cpus[c], mode[CurrentKey(c)], current[c], KnownAt(c))

LEMMA ShowsEntry ==
  ASSUME NEW x, IsCpu(x), NEW m, Nests(m), NEW pid, NEW known, Shows(x, m, pid, known), NEW y,
         NEW t \in DOMAIN CpuModeOf, NEW id \in Nat, Enters(x, y, t, id)
  PROVE  Shows(y, Append(m, t), pid, known)
<1> DEFINE u == Append(m, t)
<1>1. m \in Seq(KernelModes)
  BY NestsParts
<1>2. t \in {"TRAP", "IRQ", "SOFT_IRQ"} /\ t \in KernelModes
  BY DEF CpuModeOf, KernelModes
<1>3. \A i : Nested(u, i) = IF t = i THEN Nested(m, i) + 1 ELSE Nested(m, i)
  BY <1>1, <1>2, NestedPush
<1>4. Len(x.irqs) \in Nat /\ Len(x.softIrqs) \in Nat /\ x.irqs \in Seq(Nat) /\ x.softIrqs \in Seq(Nat)
  BY DEF IsCpu
<1>5. Len(y.irqs) = (IF t = "IRQ" THEN Len(x.irqs) + 1 ELSE Len(x.irqs))
  BY <1>4, PushedStack DEF Enters
<1>6. Len(y.softIrqs) = (IF t = "SOFT_IRQ" THEN Len(x.softIrqs) + 1 ELSE Len(x.softIrqs))
  BY <1>4, PushedStack DEF Enters
<1> HIDE DEF u
<1>7. Serves(y, u)
  BY <1>2, <1>3, <1>5, <1>6 DEF Shows, Serves
<1>8. pid \in known => Mirrors(y.modes, u, Base(pid))
  BY MirrorsPush DEF Shows, Enters, u
<1> QED
  BY <1>7, <1>8 DEF Shows, u

LEMMA ShowsExit ==
  ASSUME NEW x, IsCpu(x), NEW m, Nests(m), NEW pid, NEW known, Shows(x, m, pid, known), NEW y,
         NEW t \in DOMAIN CpuModeOf, Last1(m) = t, Leaves(x, y, t)
  PROVE  Shows(y, Front1(m), pid, known)
<1> DEFINE u == Front1(m)
<1>1. m \in Seq(KernelModes) /\ m # <<>> /\ Last1(m) = m[Len(m)] /\ Len(m) \in 1 .. Len(m)
  BY NestsParts
<1>2. t \in {"TRAP", "IRQ", "SOFT_IRQ"}
  BY DEF CpuModeOf
<1>3. \A i : Nested(u, i) = IF t = i THEN Nested(m, i) - 1 ELSE Nested(m, i)
  BY <1>1, NestedPop
<1>4. \A i : Nested(u, i) \in Nat /\ Nested(m, i) \in Nat
  <2>1. u \in Seq(KernelModes)
    BY <1>1, PoppedStack
  <2> HIDE DEF u
  <2> QED
    BY <1>1, <2>1, NestedFacts
<1>5. Nested(m, t) > 0
  BY <1>3, <1>4
<1>6. x.irqs \in Seq(Nat) /\ x.softIrqs \in Seq(Nat)
  BY DEF IsCpu
<1>7. Len(x.irqs) = Nested(m, "IRQ") /\ Len(x.softIrqs) = Nested(m, "SOFT_IRQ")
  BY DEF Shows, Serves
<1>8. Len(y.irqs) = (IF t = "IRQ" THEN Len(x.irqs) - 1 ELSE Len(x.irqs))
  <2>1. CASE t = "IRQ"
    <3>1. x.irqs # <<>>
      BY <1>5, <1>6, <1>7, <2>1
    <3>2. y.irqs = Front1(x.irqs)
      BY <2>1, <3>1 DEF Leaves
    <3> QED
      BY <1>6, <2>1, <3>1, <3>2, PoppedStack
  <2>2. CASE t # "IRQ"
    BY <2>2 DEF Leaves
  <2> QED
    BY <2>1, <2>2
<1>9. Len(y.softIrqs) = (IF t = "SOFT_IRQ" THEN Len(x.softIrqs) - 1 ELSE Len(x.softIrqs))
  <2>1. CASE t = "SOFT_IRQ"
    <3>1. x.softIrqs # <<>>
      BY <1>5, <1>6, <1>7, <2>1
    <3>2. y.softIrqs = Front1(x.softIrqs)
      BY <2>1, <3>1 DEF Leaves
    <3> QED
      BY <1>6, <2>1, <3>1, <3>2, PoppedStack
  <2>2. CASE t # "SOFT_IRQ"
    BY <2>2 DEF Leaves
  <2> QED
    BY <2>1, <2>2
<1> HIDE DEF u
<1>10. Serves(y, u)
  BY <1>2, <1>3, <1>7, <1>8, <1>9 DEF Serves
<1>11. pid \in known => Mirrors(y.modes, u, Base(pid))
  BY MirrorsPop DEF Shows, Leaves, u
<1> QED
  BY <1>10, <1>11 DEF Shows, u

\* A system call and the return from it change nothing of a processor.
LEMMA ShowsCall ==
  ASSUME NEW x, NEW m, Nests(m), NEW pid, NEW known, Shows(x, m, pid, known)
  PROVE  /\ Last1(m) = "USER_MODE" => Shows(x, Append(m, "SYSCALL"), pid, known)
         /\ Last1(m) = "SYSCALL" /\ Len(m) > 1 => Shows(x, Front1(m), pid, known)
<1>1. m \in Seq(KernelModes) /\ m # <<>> /\ "SYSCALL" \in KernelModes
  BY NestsParts DEF KernelModes
<1>2. ASSUME Last1(m) = "USER_MODE"
      PROVE  Shows(x, Append(m, "SYSCALL"), pid, known)
  <2>1. /\ Nested(Append(m, "SYSCALL"), "IRQ") = Nested(m, "IRQ")
        /\ Nested(Append(m, "SYSCALL"), "SOFT_IRQ") = Nested(m, "SOFT_IRQ")
    BY <1>1, NestedPush
  <2>2. pid \in known => Mirrors(x.modes, Append(m, "SYSCALL"), Base(pid))
    BY <1>2, MirrorsCall DEF Shows
  <2> QED
    BY <2>1, <2>2 DEF Shows, Serves
<1>3. ASSUME Last1(m) = "SYSCALL", Len(m) > 1
      PROVE  Shows(x, Front1(m), pid, known)
  <2>1. /\ Nested(Front1(m), "IRQ") = Nested(m, "IRQ")
        /\ Nested(Front1(m), "SOFT_IRQ") = Nested(m, "SOFT_IRQ")
    BY <1>1, <1>3, NestedPop
  <2>2. pid \in known => Mirrors(x.modes, Front1(m), Base(pid))
    BY <1>3, MirrorsReturn DEF Shows
  <2> QED
    BY <2>1, <2>2 DEF Shows, Serves
<1> QED
  BY <1>2, <1>3

\* At a switch no interrupt is in service.
LEMMA RestsServe ==
  ASSUME NEW m, Rests(m)
  PROVE  Nested(m, "IRQ") = 0 /\ Nested(m, "SOFT_IRQ") = 0
<1>1. m \in Seq(KernelModes)
  BY NestsParts DEF Rests
<1>2. \A i \in 1 .. Len(m) : m[i] # "IRQ" /\ m[i] # "SOFT_IRQ"
  BY RestsFacts DEF Interrupts
<1> QED
  BY <1>1, <1>2, NestedFacts

LEMMA ShowsSwitch ==
  ASSUME NEW x, NEW m, Rests(m), NEW pid, NEW known, Shows(x, m, pid, known), NEW y,
         y.irqs = x.irqs, y.softIrqs = x.softIrqs, NEW in, NEW more, NEW u, Rests(u),
         in \in more => y.modes = RestModes(u, Base(in))
  PROVE  Shows(y, u, in, more)
<1>1. Serves(y, u)
  BY RestsServe DEF Shows, Serves
<1>2. Base(in) \in CpuModes
  BY DEF Base, CpuModes
<1>3. in \in more => Mirrors(y.modes, u, Base(in))
  BY <1>2, MirrorsRest
<1> QED
  BY <1>1, <1>3 DEF Shows

\* A processor that a step does not concern.
Apart(d) ==
  /\ v'.ts.cpus[d] = v.ts.cpus[d] /\ mode'[CurrentKey(d)'] = mode[CurrentKey(d)]
  /\ current'[d] = current[d] /\ (current[d] \in KnownAt(d)' => current[d] \in KnownAt(d))

LEMMA ApartStep ==
  ASSUME CpuInv, NEW d \in Cpus, Apart(d)
  PROVE  Shows(v'.ts.cpus[d], mode'[CurrentKey(d)'], current'[d], KnownAt(d)')
<1>1. Shows(v.ts.cpus[d], mode[CurrentKey(d)], current[d], KnownAt(d))
  BY DEF CpuInv
<1> DEFINE x == v.ts.cpus[d]
           y == v'.ts.cpus[d]
           m == mode[CurrentKey(d)]
           u == mode'[CurrentKey(d)']
           pid == current[d]
           qid == current'[d]
           known == KnownAt(d)
           more == KnownAt(d)'
<1>2. Shows(x, m, pid, known) /\ y = x /\ u = m /\ qid = pid /\ (pid \in more => pid \in known)
  BY <1>1 DEF Apart
<1> HIDE DEF x, y, m, u, pid, qid, known, more
<1>3. Shows(y, u, qid, more)
  BY <1>2 DEF Shows
<1> QED
  BY <1>3 DEF y, u, qid, more

LEMMA OneCpu ==
  ASSUME CpuInv, NEW c \in Cpus, \A d \in Cpus : d # c => Apart(d),
         Shows(v'.ts.cpus[c], mode'[CurrentKey(c)'], current'[c], KnownAt(c)')
  PROVE  CpuInv'
<1>1. \A d \in Cpus : Shows(v'.ts.cpus[d], mode'[CurrentKey(d)'], current'[d], KnownAt(d)')
  <2>1. ASSUME NEW d \in Cpus
        PROVE  Shows(v'.ts.cpus[d], mode'[CurrentKey(d)'], current'[d], KnownAt(d)')
    BY ApartStep
  <2> QED
    BY <2>1
<1> QED
  BY <1>1 DEF CpuInv

-----------------------------------------------------------------------------
(* The steps of the kernel and of the state.                               *)

ProcessorInv == NestInv /\ Settled(v.ts) /\ CpuInv

\* The process of a processor gets into the modes m.
LEMMA CpuWrite ==
  ASSUME RunInv, BornKernel, CpuInv, NEW c \in Cpus, NEW m,
         mode' = [mode EXCEPT ![CurrentKey(c)] = m], UNCHANGED <<current, synced, born>>,
         OtherCpus(v.ts, v'.ts, c), Shows(v'.ts.cpus[c], m, current[c], KnownAt(c))
  PROVE  CpuInv'
<1>1. \A d \in Cpus : CurrentKey(d)' = CurrentKey(d) /\ KnownAt(d)' = KnownAt(d)
  BY DEF CurrentKey, KnownAt
<1>2. CurrentKey(c) \in DOMAIN mode
  BY CurrentKeys
<1>3. ASSUME NEW d \in Cpus, d # c
      PROVE  Apart(d)
  <2>1. CurrentKey(d) # CurrentKey(c) /\ CurrentKey(d) \in DOMAIN mode
    BY <1>3, CurrentKeys
  <2>2. mode'[CurrentKey(d)] = mode[CurrentKey(d)]
    BY <2>1
  <2>3. v'.ts.cpus[d] = v.ts.cpus[d]
    BY <1>3 DEF OtherCpus
  <2> QED
    BY <1>1, <2>2, <2>3 DEF Apart
<1>4. mode'[CurrentKey(c)] = m
  BY <1>2
<1>5. Shows(v'.ts.cpus[c], mode'[CurrentKey(c)'], current'[c], KnownAt(c)')
  BY <1>1, <1>4
<1> QED
  BY <1>3, <1>5, OneCpu

\* No processor is concerned.
LEMMA CpuStay ==
  ASSUME CpuInv, v'.ts.cpus = v.ts.cpus, UNCHANGED <<current, mode, synced, born>>
  PROVE  CpuInv'
BY DEF CpuInv, CurrentKey, KnownAt

LEMMA CpuParts ==
  ASSUME RunInv, LifeInv, ProcessorInv, NEW c \in Cpus
  PROVE  /\ IsState(v.ts) /\ Settled(v.ts) /\ NestInv /\ CpuInv /\ BornKernel
         /\ IsCpu(v.ts.cpus[c]) /\ Nests(mode[CurrentKey(c)])
         /\ Shows(v.ts.cpus[c], mode[CurrentKey(c)], current[c], KnownAt(c))
         /\ current[c] = 0 => Idles(mode[CurrentKey(c)])
<1>1. IsState(v.ts) /\ BornKernel
  BY TracksRuns DEF RunInv, LifeInv
<1>2. CurrentKey(c) \in DOMAIN mode /\ (current[c] = 0 => CurrentKey(c) = Key(c, 0))
  BY <1>1, CurrentKeys
<1> QED
  BY <1>1, <1>2 DEF ProcessorInv, Settled, HasTables, NestInv, CpuInv

LEMMA EntryCpu ==
  ASSUME RunInv, IsComputed(v), LifeInv, ProcessorInv, NEW c \in Cpus, NEW e, e.cpu = c,
         e.id \in Nat, v' = Process(v, e), NEW t, Into(e.kind, t), Over(mode[CurrentKey(c)], t),
         t = "TRAP" => current[c] # 0, Push(c, t)
  PROVE  ProcessorInv'
<1> DEFINE u == mode[CurrentKey(c)]
           m == Append(u, t)
           x == v.ts.cpus[c]
           y == v'.ts.cpus[c]
<1>1. mode' = [mode EXCEPT ![CurrentKey(c)] = m] /\ UNCHANGED <<current, status, ending, synced, born>>
  BY DEF Push
<1>2. e.kind \in QuietKinds \cup {"enum_process_state"}
  BY DEF QuietKinds, Into
<1>3. Hooked(v, e, v')
  BY <1>1, <1>2, QuietStep
<1>4. /\ IsState(v.ts) /\ Settled(v.ts) /\ NestInv /\ CpuInv /\ BornKernel
      /\ IsCpu(x) /\ Nests(u) /\ Shows(x, u, current[c], KnownAt(c))
      /\ current[c] = 0 => Idles(u)
  BY CpuParts
<1>5. EntersMode(v.ts, v'.ts, c, t, e.id)
  BY <1>3, <1>4, EnteredState
<1>6. Settled(v'.ts) /\ Enters(x, y, t, e.id) /\ OtherCpus(v.ts, v'.ts, c)
  BY <1>5 DEF EntersMode
<1>7. t \in DOMAIN CpuModeOf /\ t \in {"TRAP", "IRQ", "SOFT_IRQ"}
  BY DEF Into, CpuModeOf
<1> HIDE DEF u, x, y
<1>8. Shows(y, m, current[c], KnownAt(c))
  BY <1>4, <1>6, <1>7, ShowsEntry
<1>9. Nests(m) /\ (current[c] = 0 => Idles(m))
  <2>1. current[c] = 0 => t \in Interrupts
    BY <1>7 DEF Interrupts
  <2> QED
    BY <1>4, <2>1, NestsPush DEF u
<1> HIDE DEF m
<1>10. NestInv'
  BY <1>1, <1>4, <1>9, NestWrite
<1>11. CpuInv'
  BY <1>1, <1>4, <1>6, <1>8, CpuWrite DEF y
<1> QED
  BY <1>6, <1>10, <1>11 DEF ProcessorInv

LEMMA ExitCpu ==
  ASSUME RunInv, IsComputed(v), LifeInv, ProcessorInv, NEW c \in Cpus, NEW e, e.cpu = c,
         v' = Process(v, e), NEW t, OutOf(e.kind, t), Pop(c, t)
  PROVE  ProcessorInv'
<1> DEFINE u == mode[CurrentKey(c)]
           m == Front1(u)
           x == v.ts.cpus[c]
           y == v'.ts.cpus[c]
<1>1. /\ mode' = [mode EXCEPT ![CurrentKey(c)] = m] /\ Len(u) > 1 /\ Last1(u) = t
      /\ UNCHANGED <<current, status, ending, synced, born>>
  BY DEF Pop, TopMode
<1>2. e.kind \in QuietKinds \cup {"enum_process_state"}
  BY DEF QuietKinds, OutOf
<1>3. Hooked(v, e, v')
  BY <1>1, <1>2, QuietStep
<1>4. /\ IsState(v.ts) /\ Settled(v.ts) /\ NestInv /\ CpuInv /\ BornKernel
      /\ IsCpu(x) /\ Nests(u) /\ Shows(x, u, current[c], KnownAt(c))
      /\ current[c] = 0 => Idles(u)
  BY CpuParts
<1>5. LeavesMode(v.ts, v'.ts, c, t)
  BY <1>3, <1>4, LeftState
<1>6. Settled(v'.ts) /\ Leaves(x, y, t) /\ OtherCpus(v.ts, v'.ts, c)
  BY <1>5 DEF LeavesMode
<1>7. t \in DOMAIN CpuModeOf
  BY DEF OutOf, CpuModeOf
<1> HIDE DEF u, x, y
<1>8. Shows(y, m, current[c], KnownAt(c))
  BY <1>1, <1>4, <1>6, <1>7, ShowsExit
<1>9. Nests(m) /\ (current[c] = 0 => Idles(m))
  BY <1>1, <1>4, NestsPop
<1> HIDE DEF m
<1>10. NestInv'
  BY <1>1, <1>4, <1>9, NestWrite
<1>11. CpuInv'
  BY <1>1, <1>4, <1>6, <1>8, CpuWrite DEF y
<1> QED
  BY <1>6, <1>10, <1>11 DEF ProcessorInv

LEMMA CallCpu ==
  ASSUME RunInv, IsComputed(v), LifeInv, ProcessorInv, NEW c \in Cpus, NEW e, e.cpu = c,
         v' = Process(v, e),
         \/ e.kind = "syscall_entry" /\ TopMode(c) = "USER_MODE" /\ current[c] # 0
              /\ Push(c, "SYSCALL")
         \/ e.kind = "syscall_exit" /\ Pop(c, "SYSCALL")
  PROVE  ProcessorInv'
<1> DEFINE u == mode[CurrentKey(c)]
           x == v.ts.cpus[c]
<1>1. \E m : /\ mode' = [mode EXCEPT ![CurrentKey(c)] = m]
             /\ \/ m = Append(u, "SYSCALL") /\ Last1(u) = "USER_MODE" /\ current[c] # 0
                \/ m = Front1(u) /\ Last1(u) = "SYSCALL" /\ Len(u) > 1
  BY DEF Push, Pop, TopMode
<1>2. UNCHANGED <<current, status, ending, synced, born>>
  BY DEF Push, Pop
<1>3. e.kind \in QuietKinds \cup {"enum_process_state"} /\ e.kind \in OtherKinds
      /\ e.kind \notin {"enum_interrupt", "dump_softirq"}
  BY DEF QuietKinds, OtherKinds
<1>4. Hooked(v, e, v')
  BY <1>2, <1>3, QuietStep
<1>5. /\ IsState(v.ts) /\ Settled(v.ts) /\ NestInv /\ CpuInv /\ BornKernel
      /\ Nests(u) /\ Shows(x, u, current[c], KnownAt(c))
      /\ current[c] = 0 => Idles(u)
  BY CpuParts
<1>6. Settled(v'.ts) /\ v'.ts.cpus = v.ts.cpus
  BY <1>3, <1>4, <1>5, OtherState
<1>7. PICK m : /\ mode' = [mode EXCEPT ![CurrentKey(c)] = m]
               /\ \/ m = Append(u, "SYSCALL") /\ Last1(u) = "USER_MODE" /\ current[c] # 0
                  \/ m = Front1(u) /\ Last1(u) = "SYSCALL" /\ Len(u) > 1
  BY <1>1
<1> HIDE DEF u
<1>8. Shows(x, m, current[c], KnownAt(c))
  BY <1>5, <1>7, ShowsCall
<1>9. Nests(m) /\ (current[c] = 0 => Idles(m))
  <2>1. Last1(u) = "USER_MODE" => Over(u, "SYSCALL")
    BY DEF Over
  <2> QED
    BY <1>5, <1>7, <2>1, NestsPush, NestsPop
<1>10. NestInv'
  BY <1>2, <1>5, <1>7, <1>9, NestWrite
<1>11. CpuInv'
  <2>1. OtherCpus(v.ts, v'.ts, c) /\ Shows(v'.ts.cpus[c], m, current[c], KnownAt(c))
    BY <1>6, <1>8 DEF OtherCpus
  <2>2. mode' = [mode EXCEPT ![CurrentKey(c)] = m]
    BY <1>7
  <2> QED
    BY <1>2, <1>5, <2>1, <2>2, CpuWrite
<1> QED
  BY <1>6, <1>10, <1>11 DEF ProcessorInv

\* Steps in which no processor gets another process or another mode.
LEMMA OtherCpu ==
  ASSUME RunInv, LifeInv, ProcessorInv, NEW e, Hooked(v, e, v'), e.kind \in OtherKinds,
         e.kind \in {"enum_interrupt", "dump_softirq"} => e.id \in Nat,
         UNCHANGED <<current, mode, synced, born>>,
         \A p \in Pids : status[p] = "run" => status'[p] = "run"
  PROVE  ProcessorInv'
<1>1. IsState(v.ts) /\ Settled(v.ts) /\ NestInv /\ CpuInv
  BY TracksRuns DEF RunInv, ProcessorInv
<1>2. Settled(v'.ts) /\ v'.ts.cpus = v.ts.cpus
  BY <1>1, OtherState
<1> QED
  BY <1>1, <1>2, CpuStay, NestStatus DEF ProcessorInv

\* After a switch the state has the modes of the process that is switched in.
LEMMA AgreeNext == RunInv' /\ LifeInv' => BornLivesAgree'
<1>1. RunInv /\ LifeInv => BornLivesAgree
  BY LivesAgree
<1>2. (RunInv /\ LifeInv => BornLivesAgree)'
  BY <1>1, PTL
<1> QED
  BY <1>2

LEMMA SwitchCpu ==
  ASSUME RunInv, IsComputed(v), LifeInv, ProcessorInv, LifeInv', NEW c \in Cpus,
         NEW in \in {0} \cup Pids, NEW stateOut \in {0, 1, 64}, SchedChange(c, in, stateOut),
         NEW e, e = [kind |-> "schedchange", cpu |-> c, time |-> clock + Ticks,
               pidOut |-> current[c], pidIn |-> in, stateOut |-> stateOut]
  PROVE  ProcessorInv'
<1> DEFINE k == Key(c, in)
           p == v'.ts.processes[k]
           u == mode[CurrentKey(c)]
           m == mode[k]
           x == v.ts.cpus[c]
           y == v'.ts.cpus[c]
<1>1. /\ current' = [current EXCEPT ![c] = in] /\ synced' = synced \cup {c}
      /\ UNCHANGED <<mode, born>>
  BY DEF SchedChange
<1>2. /\ e.kind = "schedchange" /\ e.cpu = c /\ e.pidIn = in /\ InKey(e) = k
  BY DEF InKey
<1>3. Hooked(v, e, v') /\ RunInv'
  BY SwitchStep
<1>4. /\ IsState(v.ts) /\ Settled(v.ts) /\ NestInv /\ CpuInv /\ BornKernel
      /\ Shows(x, u, current[c], KnownAt(c))
  BY CpuParts
<1>5. NestInv' /\ Rests(u) /\ Rests(m) /\ (in = 0 => Last1(m) # "TRAP")
  BY <1>4, NestSwitch
<1>6. current \in [Cpus -> {0} \cup Pids]
  BY DEF RunInv, Kernel
<1>7. current'[c] = in /\ CurrentKey(c)' = k /\ c \in synced'
  BY <1>1, <1>6 DEF CurrentKey
<1>8. k \in DOMAIN v'.ts.processes /\ IsState(v'.ts)
  <2>1. TakenToRun'[c] = k
    BY <1>7 DEF TakenToRun
  <2>2. TakenToRun' \in [Cpus -> DOMAIN v'.ts.processes] /\ IsState(v'.ts)
    BY <1>3 DEF RunInv, Tracks
  <2> QED
    BY <2>1, <2>2
<1>9. Switches(v.ts, v'.ts, c, SwitchedModes(in, p))
  BY <1>2, <1>3, <1>4, <1>8, SwitchedState
<1>10. /\ Settled(v'.ts) /\ OtherCpus(v.ts, v'.ts, c) /\ y.modes = SwitchedModes(in, p)
       /\ y.irqs = x.irqs /\ y.softIrqs = x.softIrqs
  BY <1>9 DEF Switches
<1>11. ASSUME in \in KnownAt(c)'
       PROVE  SwitchedModes(in, p) = RestModes(m, Base(in))
  <2>1. CASE in = 0
    BY <1>5, <2>1 DEF SwitchedModes, RestModes, Base, SetBaseMode
  <2>2. CASE in # 0
    <3>1. in \in born' /\ in \in Pids /\ k = Key(0, in)
      BY <1>7, <1>11, <2>2 DEF KnownAt, Key
    <3>2. status'[in] = "run"
      BY <1>3, <1>7, <2>2 DEF RunInv, Kernel
    <3>3. BornLivesAgree'
      BY <1>3, AgreeNext
    <3>4. Modes(p) = mode'[k]
      BY <3>1, <3>2, <3>3 DEF BornLivesAgree, BornAlive, Alive, Table
    <3>5. IsProcess(p)
      BY <1>8 DEF IsState
    <3>6. Last1(Modes(p)) = Top(p).t
      BY <3>5, ModesFacts
    <3>7. Top(p).t = Last1(m)
      BY <1>1, <3>4, <3>6
    <3> HIDE DEF p, m
    <3> QED
      BY <2>2, <3>7 DEF SwitchedModes, RestModes, Base, SetBaseMode
  <2> QED
    BY <2>1, <2>2
<1>12. ASSUME NEW d \in Cpus, d # c
       PROVE  Apart(d)
  <2>1. current'[d] = current[d] /\ CurrentKey(d)' = CurrentKey(d)
    BY <1>1, <1>6, <1>12 DEF CurrentKey
  <2>2. KnownAt(d)' = KnownAt(d)
    BY <1>1, <1>12 DEF KnownAt
  <2>3. v'.ts.cpus[d] = v.ts.cpus[d]
    BY <1>10, <1>12 DEF OtherCpus
  <2> QED
    BY <1>1, <2>1, <2>2, <2>3 DEF Apart
<1> DEFINE more == KnownAt(c)'
<1>13. in \in more => y.modes = RestModes(m, Base(in))
  BY <1>10, <1>11
<1> HIDE DEF x, y, u, m, p, more
<1>14. Shows(y, m, in, more)
  BY <1>4, <1>5, <1>10, <1>13, ShowsSwitch
<1>15. Shows(v'.ts.cpus[c], mode'[CurrentKey(c)'], current'[c], KnownAt(c)')
  BY <1>1, <1>7, <1>14 DEF y, m, more
<1>16. CpuInv'
  BY <1>4, <1>12, <1>15, OneCpu
<1> QED
  BY <1>5, <1>10, <1>16 DEF ProcessorInv

LEMMA ForkCpu ==
  ASSUME RunInv, IsComputed(v), LifeInv, ProcessorInv, NEW c \in Cpus, NEW p \in Pids,
         NEW thread \in BOOLEAN, Fork(c, p, thread)
  PROVE  ProcessorInv'
<1> DEFINE e == [kind |-> "process_fork", cpu |-> c, time |-> clock + Ticks, pid |-> p]
<1>1. /\ e = [kind |-> "process_fork", cpu |-> c, time |-> clock + Ticks, pid |-> p]
      /\ e.kind \in OtherKinds /\ e.kind \notin {"enum_interrupt", "dump_softirq"}
  BY DEF OtherKinds
<1> HIDE DEF e
<1>2. Hooked(v, e, v')
  BY <1>1, ForkStep
<1>3. IsState(v.ts) /\ Settled(v.ts) /\ NestInv /\ CpuInv /\ BornKernel
  BY CpuParts
<1>4. Settled(v'.ts) /\ v'.ts.cpus = v.ts.cpus
  BY <1>1, <1>2, <1>3, OtherState
<1>5. /\ NestInv' /\ status[p] = "none"
      /\ \A k \in DOMAIN mode : k # Key(0, p) => mode'[k] = mode[k]
  BY <1>3, NestFork
<1>6. UNCHANGED <<current, synced>> /\ born' = born \cup {p}
  BY DEF Fork
<1>7. ASSUME NEW d \in Cpus
      PROVE  Apart(d)
  <2>1. CurrentKey(d) \in DOMAIN mode /\ (Key(0, p) = CurrentKey(d) => status[p] = "run")
    BY <1>3, CurrentKeys
  <2>2. mode'[CurrentKey(d)] = mode[CurrentKey(d)]
    BY <1>5, <2>1
  <2>3. current[d] # p
    BY <1>5, StateTraceAssumption DEF RunInv, Kernel
  <2>4. current[d] \in KnownAt(d)' => current[d] \in KnownAt(d)
    BY <1>6, <2>3 DEF KnownAt
  <2>5. CurrentKey(d)' = CurrentKey(d)
    BY <1>6 DEF CurrentKey
  <2> QED
    BY <1>4, <1>6, <2>2, <2>4, <2>5 DEF Apart
<1>8. Shows(v'.ts.cpus[c], mode'[CurrentKey(c)'], current'[c], KnownAt(c)')
  BY <1>3, <1>7, ApartStep
<1>9. CpuInv'
  BY <1>3, <1>7, <1>8, OneCpu
<1> QED
  BY <1>4, <1>5, <1>9 DEF ProcessorInv

LEMMA ProcessorInit ==
  ASSUME Init
  PROVE  ProcessorInv
<1> DEFINE ts == InitialState(1)
<1>1. v.ts = ts /\ synced = {}
  BY DEF Init
<1>2. /\ ts.cpus = [c \in Cpus |-> [modes |-> <<>>, irqs |-> <<>>, softIrqs |-> <<>>, traps |-> <<>>]]
      /\ ts.irqs = [i \in 0 .. NbIrqs - 1 |-> <<>>]
      /\ ts.softIrqs = [i \in 0 .. NbSoftIrqs - 1 |-> [pending |-> 0, running |-> 0]]
      /\ ts.nb = [irq |-> NbIrqs, softIrq |-> NbSoftIrqs, trap |-> NbTraps]
  BY DEF InitialState, restore_init_state
<1> HIDE DEF ts
<1>3. HasTables(ts)
  <2>1. DOMAIN ts.cpus = Cpus /\ \A c \in Cpus : IsCpu(ts.cpus[c])
    <3> DEFINE x == [modes |-> <<>>, irqs |-> <<>>, softIrqs |-> <<>>, traps |-> <<>>]
    <3>1. <<>> \in Seq(CpuModes) /\ <<>> \in Seq(Nat)
      OBVIOUS
    <3>2. IsCpu(x)
      BY <3>1 DEF IsCpu
    <3>3. ts.cpus = [c \in Cpus |-> x]
      BY <1>2
    <3> HIDE DEF x
    <3> QED
      BY <3>2, <3>3
  <2>2. /\ DOMAIN ts.nb = {"irq", "softIrq", "trap"} /\ ts.nb.irq = NbIrqs /\ ts.nb.softIrq = NbSoftIrqs
        /\ DOMAIN ts.irqs = 0 .. NbIrqs - 1 /\ DOMAIN ts.softIrqs = 0 .. NbSoftIrqs - 1
    BY <1>2
  <2> QED
    BY <2>1, <2>2, StateAssumption DEF HasTables
<1>4. ASSUME NEW f, \A c \in Cpus : f[c] = <<>>, NEW soft, NEW table,
             \A id \in DOMAIN table : Told(soft, table[id], 0)
      PROVE  Served(soft, f, table)
  <2>1. UNION {{c} \X DOMAIN f[c] : c \in Cpus} = {}
    BY <1>4
  <2>2. \A id : Places(f, id) = {}
    BY <2>1 DEF Places
  <2>3. \A id : IsFiniteSet(Places(f, id)) /\ Cardinality(Places(f, id)) = 0
    BY <2>2, FS_EmptySet
  <2>4. \A c \in Cpus : f[c] \in Seq(Nat) /\ \A i \in 1 .. Len(f[c]) : FALSE
    <3>1. \A s : s = <<>> => s \in Seq(Nat) /\ Len(s) = 0
      OBVIOUS
    <3> QED
      BY <1>4, <3>1
  <2>5. ASSUME NEW id \in DOMAIN table
        PROVE  IsFiniteSet(Places(f, id)) /\ Told(soft, table[id], Cardinality(Places(f, id)))
    BY <1>4, <2>3
  <2> QED
    BY <2>4, <2>5 DEF Served
<1>5. \A id \in DOMAIN ts.irqs : Told(FALSE, ts.irqs[id], 0)
  <2>1. BusyFor(<<>>, 0)
    BY DEF BusyFor, IrqModes
  <2> QED
    BY <1>2, <2>1 DEF Told
<1>6. \A id \in DOMAIN ts.softIrqs : Told(TRUE, ts.softIrqs[id], 0)
  BY <1>2 DEF Told
<1>7. /\ \A c \in Cpus : IrqStacks(ts)[c] = <<>>
      /\ \A c \in Cpus : SoftIrqStacks(ts)[c] = <<>>
  BY <1>2 DEF IrqStacks, SoftIrqStacks
<1>8. Settled(ts)
  BY <1>3, <1>4, <1>5, <1>6, <1>7 DEF Settled
<1>9. NestInv
  BY NestInit
<1>10. CpuInv
  <2>1. /\ current \in [Cpus -> {0} \cup InitialPids]
        /\ \E m \in [InitialPids -> StartModes] :
             mode = [k \in {Key(c, 0) : c \in Cpus} \cup {Key(0, p) : p \in Pids} |->
                       IF k[1] \in InitialPids THEN m[k[1]] ELSE <<"SYSCALL">>]
    BY DEF Init
  <2>2. \A k \in DOMAIN mode : Rests(mode[k])
    BY <2>1, StartNests DEF StartModes
  <2>3. ASSUME NEW c \in Cpus
        PROVE  Shows(v.ts.cpus[c], mode[CurrentKey(c)], current[c], KnownAt(c))
    <3>1. RunInv /\ LifeInv
      BY RunInit, LifeInit
    <3>2. CurrentKey(c) \in DOMAIN mode
      BY <3>1, CurrentKeys DEF LifeInv
    <3>3. KnownAt(c) = {}
      BY <1>1 DEF KnownAt
    <3>4. Nested(mode[CurrentKey(c)], "IRQ") = 0 /\ Nested(mode[CurrentKey(c)], "SOFT_IRQ") = 0
      BY <2>2, <3>2, RestsServe
    <3>5. Len(v.ts.cpus[c].irqs) = 0 /\ Len(v.ts.cpus[c].softIrqs) = 0
      BY <1>1, <1>2
    <3> QED
      BY <3>3, <3>4, <3>5 DEF Shows, Serves
  <2> QED
    BY <2>3 DEF CpuInv
<1> QED
  BY <1>1, <1>8, <1>9, <1>10 DEF ProcessorInv

LEMMA ProcessorStep ==
  ASSUME RunInv, IsComputed(v), LifeInv, ProcessorInv, LifeInv', Next \/ Described
  PROVE  ProcessorInv'
<1>1. ASSUME NEW c \in Cpus, NEW e, e.cpu = c, e.id \in Ids, Read(e), NEW t, Into(e.kind, t),
             Over(mode[CurrentKey(c)], t), t = "TRAP" => current[c] # 0, Push(c, t)
      PROVE  ProcessorInv'
  <2>1. e.id \in Nat
    BY <1>1, StateTraceAssumption
  <2> QED
    BY <1>1, <2>1, EntryCpu DEF Read
<1>2. ASSUME NEW c \in Cpus, NEW e, e.cpu = c, Read(e), NEW t, OutOf(e.kind, t), Pop(c, t)
      PROVE  ProcessorInv'
  BY <1>2, ExitCpu DEF Read
<1>3. ASSUME NEW e, e.cpu \in Cpus, Read(e), Tell,
             \/ e.kind \in {"soft_irq_raise", "bdev_request_issue", "bdev_request_complete",
                            "function_entry", "function_exit", "process_exec", "thread_brand",
                            "fs_open", "statedump_end", "enum_process_state"}
             \/ e.kind \in {"enum_interrupt", "dump_softirq"} /\ e.id \in Ids
      PROVE  ProcessorInv'
  <2>1. e.kind \in QuietKinds \cup {"enum_process_state"} /\ e.kind \in OtherKinds
    BY <1>3 DEF QuietKinds, OtherKinds
  <2>2. UNCHANGED <<current, mode, status, ending, synced, born>> /\ v' = Process(v, e)
    BY <1>3 DEF Tell, Read
  <2>3. e.kind \in {"enum_interrupt", "dump_softirq"} => e.id \in Nat
    BY <1>3, StateTraceAssumption
  <2>4. Hooked(v, e, v')
    BY <1>3, <2>1, <2>2, QuietStep
  <2> QED
    BY <2>1, <2>2, <2>3, <2>4, OtherCpu
<1>4. ASSUME NEW c \in Cpus, NEW id \in Ids, SyscallEntry(c, id)
      PROVE  ProcessorInv'
  <2> DEFINE e == EventId("syscall_entry", c, id)
  <2>1. e.cpu = c /\ e.kind = "syscall_entry" /\ v' = Process(v, e)
    BY <1>4 DEF SyscallEntry, EventId, Read
  <2>2. TopMode(c) = "USER_MODE" /\ current[c] # 0 /\ Push(c, "SYSCALL")
    BY <1>4 DEF SyscallEntry
  <2> HIDE DEF e
  <2> QED
    BY <2>1, <2>2, CallCpu
<1>5. ASSUME NEW c \in Cpus, SyscallExit(c)
      PROVE  ProcessorInv'
  <2> DEFINE e == Event("syscall_exit", c)
  <2>1. e.cpu = c /\ e.kind = "syscall_exit" /\ v' = Process(v, e) /\ Pop(c, "SYSCALL")
    BY <1>5 DEF SyscallExit, Event, Read
  <2> HIDE DEF e
  <2> QED
    BY <2>1, CallCpu
<1>6. ASSUME NEW c \in Cpus, NEW id \in Ids,
             \/ IrqEntry(c, id) \/ SoftIrqEntry(c, id)
             \/ \E kind \in {"trap_entry", "page_fault_entry"} : TrapEntry(c, id, kind)
      PROVE  ProcessorInv'
  <2>1. CASE IrqEntry(c, id)
    <3> DEFINE e == EventId("irq_entry", c, id)
    <3>1. e.cpu = c /\ e.id \in Ids /\ Read(e) /\ Into(e.kind, "IRQ") /\ Push(c, "IRQ")
      BY <2>1 DEF IrqEntry, EventId, Into
    <3>2. Over(mode[CurrentKey(c)], "IRQ")
      BY DEF Over
    <3> HIDE DEF e
    <3> QED
      BY <1>1, <3>1, <3>2
  <2>2. CASE SoftIrqEntry(c, id)
    <3> DEFINE e == EventId("soft_irq_entry", c, id)
    <3>1. e.cpu = c /\ e.id \in Ids /\ Read(e) /\ Into(e.kind, "SOFT_IRQ") /\ Push(c, "SOFT_IRQ")
      BY <2>2 DEF SoftIrqEntry, EventId, Into
    <3>2. Over(mode[CurrentKey(c)], "SOFT_IRQ")
      BY <2>2 DEF SoftIrqEntry, Over, TopMode, Interrupts
    <3> HIDE DEF e
    <3> QED
      BY <1>1, <3>1, <3>2
  <2>3. ASSUME NEW kind \in {"trap_entry", "page_fault_entry"}, TrapEntry(c, id, kind)
        PROVE  ProcessorInv'
    <3> DEFINE e == EventId(kind, c, id)
    <3>1. e.cpu = c /\ e.id \in Ids /\ Read(e) /\ Into(e.kind, "TRAP") /\ Push(c, "TRAP")
      BY <2>3 DEF TrapEntry, EventId, Into
    <3>2. Over(mode[CurrentKey(c)], "TRAP") /\ current[c] # 0
      BY <2>3 DEF TrapEntry, Over, TopMode
    <3> HIDE DEF e
    <3> QED
      BY <1>1, <3>1, <3>2
  <2> QED
    BY <1>6, <2>1, <2>2, <2>3
<1>7. ASSUME NEW c \in Cpus,
             \/ IrqExit(c) \/ SoftIrqExit(c)
             \/ \E kind \in {"trap_exit", "page_fault_exit"} : TrapExit(c, kind)
      PROVE  ProcessorInv'
  <2>1. CASE IrqExit(c)
    BY <1>2, <2>1 DEF IrqExit, Event, OutOf
  <2>2. CASE SoftIrqExit(c)
    BY <1>2, <2>2 DEF SoftIrqExit, Event, OutOf
  <2>3. ASSUME NEW kind \in {"trap_exit", "page_fault_exit"}, TrapExit(c, kind)
        PROVE  ProcessorInv'
    BY <1>2, <2>3 DEF TrapExit, Event, OutOf
  <2> QED
    BY <1>7, <2>1, <2>2, <2>3
<1>8. ASSUME NEW c \in Cpus,
             \/ StatedumpEnd(c) \/ Exec(c) \/ Brand(c)
             \/ \E id \in Ids :
                  \/ SoftIrqRaise(c, id) \/ ListInterrupt(c, id) \/ ListSoftIrq(c, id)
                  \/ Open(c, id) \/ Call(c, id) \/ Return(c, id)
                  \/ \E oper \in {"BUSY_READING", "BUSY_WRITING"} : Request(c, id, oper)
                  \/ RequestDone(c, id)
             \/ \E p \in {0} \cup Pids : ProcessState(c, p)
      PROVE  ProcessorInv'
  BY <1>3, <1>8 DEF StatedumpEnd, Exec, Brand, SoftIrqRaise, ListInterrupt, ListSoftIrq, Open, Call,
                    Return, Request, RequestDone, ProcessState, Event, EventId
<1>9. ASSUME NEW c \in Cpus, NEW in \in {0} \cup Pids, NEW stateOut \in {0, 1, 64},
             SchedChange(c, in, stateOut)
      PROVE  ProcessorInv'
  <2> DEFINE e == [kind |-> "schedchange", cpu |-> c, time |-> clock + Ticks,
                   pidOut |-> current[c], pidIn |-> in, stateOut |-> stateOut]
  <2>1. e = [kind |-> "schedchange", cpu |-> c, time |-> clock + Ticks,
             pidOut |-> current[c], pidIn |-> in, stateOut |-> stateOut]
    OBVIOUS
  <2> HIDE DEF e
  <2> QED
    BY <1>9, <2>1, SwitchCpu
<1>10. ASSUME NEW c \in Cpus, NEW p \in Pids, NEW thread \in BOOLEAN, Fork(c, p, thread)
       PROVE  ProcessorInv'
  BY <1>10, ForkCpu
<1>11. ASSUME NEW c \in Cpus, NEW p \in Pids, Wakeup(c, p)
       PROVE  ProcessorInv'
  <2> DEFINE e == [kind |-> "sched_try_wakeup", cpu |-> c, time |-> clock + Ticks,
                   pid |-> p, wokenCpu |-> c]
  <2>1. e = [kind |-> "sched_try_wakeup", cpu |-> c, time |-> clock + Ticks,
             pid |-> p, wokenCpu |-> c]
        /\ e.kind \in OtherKinds /\ e.kind \notin {"enum_interrupt", "dump_softirq"}
    BY DEF OtherKinds
  <2> HIDE DEF e
  <2>2. Hooked(v, e, v')
    BY <1>11, <2>1, WakeupStep
  <2>3. /\ UNCHANGED <<current, mode, synced, born>>
        /\ \A q \in Pids : status[q] = "run" => status'[q] = "run"
    BY <1>11 DEF Wakeup, RunInv, Kernel
  <2> QED
    BY <2>1, <2>2, <2>3, OtherCpu
<1>12. ASSUME NEW c \in Cpus, NEW p \in Pids, KernelThread(c, p)
       PROVE  ProcessorInv'
  <2> DEFINE e == [kind |-> "process_kernel_thread", cpu |-> c, time |-> clock + Ticks, pid |-> p]
  <2>1. e = [kind |-> "process_kernel_thread", cpu |-> c, time |-> clock + Ticks, pid |-> p]
        /\ e.kind \in OtherKinds /\ e.kind \notin {"enum_interrupt", "dump_softirq"}
    BY DEF OtherKinds
  <2> HIDE DEF e
  <2>2. Hooked(v, e, v')
    BY <1>12, <2>1, ThreadStep
  <2>3. /\ UNCHANGED <<current, mode, synced, born>>
        /\ \A q \in Pids : status[q] = "run" => status'[q] = "run"
    BY <1>12 DEF KernelThread, RunInv, Kernel
  <2> QED
    BY <2>1, <2>2, <2>3, OtherCpu
<1>13. ASSUME NEW c \in Cpus, NEW p \in Pids, Free(c, p)
       PROVE  ProcessorInv'
  <2> DEFINE e == [kind |-> "process_free", cpu |-> c, time |-> clock + Ticks, pid |-> p]
  <2>1. e = [kind |-> "process_free", cpu |-> c, time |-> clock + Ticks, pid |-> p]
        /\ e.kind \in OtherKinds /\ e.kind \notin {"enum_interrupt", "dump_softirq"}
    BY DEF OtherKinds
  <2> HIDE DEF e
  <2>2. Hooked(v, e, v')
    BY <1>13, <2>1, FreeStep
  <2>3. /\ UNCHANGED <<current, mode, synced, born>>
        /\ \A q \in Pids : status[q] = "run" => status'[q] = "run"
    BY <1>13 DEF Free, RunInv, Kernel
  <2> QED
    BY <2>1, <2>2, <2>3, OtherCpu
<1>14. ASSUME NEW c \in Cpus, Exit(c)
       PROVE  ProcessorInv'
  <2> DEFINE e == [kind |-> "process_exit", cpu |-> c, time |-> clock + Ticks, pid |-> current[c]]
  <2>1. e = [kind |-> "process_exit", cpu |-> c, time |-> clock + Ticks, pid |-> current[c]]
        /\ e.kind \in OtherKinds /\ e.kind \notin {"enum_interrupt", "dump_softirq"}
    BY DEF OtherKinds
  <2> HIDE DEF e
  <2>2. Hooked(v, e, v')
    BY <1>14, <2>1, ExitStep
  <2>3. /\ UNCHANGED <<current, mode, synced, born>>
        /\ \A q \in Pids : status[q] = "run" => status'[q] = "run"
    BY <1>14 DEF Exit
  <2> QED
    BY <2>1, <2>2, <2>3, OtherCpu
<1> QED
  BY <1>4, <1>5, <1>6, <1>7, <1>8, <1>9, <1>10, <1>11, <1>12, <1>13, <1>14 DEF Next, Described

\* What the invariant says is what the property does.
LEMMA ProcessorsAgree ==
  ASSUME RunInv, LifeInv, ProcessorInv
  PROVE  CpuModesAgree
<1> DEFINE ts == v.ts
<1>1. /\ Served(FALSE, IrqStacks(ts), ts.irqs) /\ Served(TRUE, SoftIrqStacks(ts), ts.softIrqs)
      /\ \A c \in Cpus : IsCpu(ts.cpus[c])
  BY DEF ProcessorInv, Settled, HasTables
<1>2. ASSUME NEW c \in synced, current[c] \in born \cup {0}
      PROVE  Last1(v.ts.cpus[c].modes) = ShownMode(c)
  <2>1. c \in Cpus
    BY DEF RunInv, Kernel
  <2> DEFINE s == v.ts.cpus[c].modes
             m == mode[CurrentKey(c)]
             base == Base(current[c])
  <2>2. Nests(m) /\ Shows(v.ts.cpus[c], m, current[c], KnownAt(c))
    BY <2>1, CpuParts
  <2>3. Mirrors(s, m, base)
    BY <1>2, <2>2 DEF KnownAt, Shows
  <2>4. Last1(s) = IF Last1(m) \in DOMAIN CpuModeOf THEN CpuModeOf[Last1(m)] ELSE base
    BY <2>2, <2>3, MirrorsTop
  <2>5. TopMode(c) = Last1(m)
    BY DEF TopMode
  <2> HIDE DEF s, m
  <2>6. /\ DOMAIN CpuModeOf = {"TRAP", "IRQ", "SOFT_IRQ"} /\ CpuModeOf["TRAP"] = "CPU_TRAP"
        /\ CpuModeOf["IRQ"] = "CPU_IRQ" /\ CpuModeOf["SOFT_IRQ"] = "CPU_SOFT_IRQ"
    BY DEF CpuModeOf
  <2>7. Last1(s) = ShownMode(c)
    <3>1. CASE Last1(m) = "TRAP"
      BY <2>4, <2>5, <2>6, <3>1 DEF ShownMode
    <3>2. CASE Last1(m) = "IRQ"
      BY <2>4, <2>5, <2>6, <3>2 DEF ShownMode
    <3>3. CASE Last1(m) = "SOFT_IRQ"
      BY <2>4, <2>5, <2>6, <3>3 DEF ShownMode
    <3>4. CASE Last1(m) \notin {"TRAP", "IRQ", "SOFT_IRQ"}
      BY <2>4, <2>5, <2>6, <3>4 DEF ShownMode, Base
    <3> QED
      BY <3>1, <3>2, <3>3, <3>4
  <2> QED
    BY <2>7 DEF s
<1>3. ASSUME NEW id
      PROVE  Places([c \in Cpus |-> v.ts.cpus[c].irqs], id) # {}
               <=> /\ id \in DOMAIN v.ts.irqs
                   /\ v.ts.irqs[id] # <<>> /\ Last1(v.ts.irqs[id]) = "IRQ_BUSY"
  <2> DEFINE f == IrqStacks(ts)
             table == ts.irqs
             P == Places(f, id)
  <2>1. Served(FALSE, f, table)
    BY <1>1
  <2>2. P = Places([c \in Cpus |-> v.ts.cpus[c].irqs], id)
    BY DEF IrqStacks
  <2> HIDE DEF f, table
  <2>3. CASE id \notin DOMAIN table
    <3>1. IsFiniteSet(P) /\ Cardinality(P) = 0
      BY <2>1, <2>3, NoPlaces
    <3>2. P = {}
      BY <3>1, FS_EmptySet
    <3> QED
      BY <2>2, <2>3, <3>2 DEF table
  <2>4. CASE id \in DOMAIN table
    <3>1. IsFiniteSet(P) /\ BusyFor(table[id], Cardinality(P))
      BY <2>1, <2>4 DEF Served, Told
    <3>2. Cardinality(P) \in Nat /\ (Cardinality(P) = 0 <=> P = {})
      BY <3>1, FS_CardinalityType, FS_EmptySet
    <3> HIDE DEF P
    <3>3. table[id] # <<>> /\ Last1(table[id]) = "IRQ_BUSY" <=> Cardinality(P) > 0
      BY <3>1, <3>2, BusyFacts
    <3>4. Cardinality(P) > 0 <=> P # {}
      BY <3>2
    <3> QED
      BY <2>2, <2>4, <3>3, <3>4 DEF table
  <2> QED
    BY <2>3, <2>4
<1>4. ASSUME NEW id
      PROVE  Cardinality(Places([c \in Cpus |-> v.ts.cpus[c].softIrqs], id)) =
               IF id \in DOMAIN v.ts.softIrqs THEN v.ts.softIrqs[id].running ELSE 0
  <2> DEFINE f == SoftIrqStacks(ts)
             table == ts.softIrqs
  <2>1. Served(TRUE, f, table)
    BY <1>1
  <2>2. Places(f, id) = Places([c \in Cpus |-> v.ts.cpus[c].softIrqs], id)
    BY DEF SoftIrqStacks
  <2> HIDE DEF f, table
  <2>3. CASE id \notin DOMAIN table
    BY <2>1, <2>2, <2>3, NoPlaces DEF table
  <2>4. CASE id \in DOMAIN table
    BY <2>1, <2>2, <2>4 DEF Served, Told, table
  <2> QED
    BY <2>3, <2>4
<1>5. ASSUME NEW id, NEW c \in Cpus
      PROVE  Nested(v.ts.cpus[c].irqs, id) <= Nested(mode[CurrentKey(c)], "IRQ")
  <2> DEFINE s == v.ts.cpus[c].irqs
             m == mode[CurrentKey(c)]
  <2>1. s \in Seq(Nat) /\ Len(s) = Nested(m, "IRQ")
    BY CpuParts DEF IsCpu, Shows, Serves
  <2> HIDE DEF s, m
  <2>2. Nested(s, id) <= Len(s)
    BY <2>1, NestedFacts
  <2> QED
    BY <2>1, <2>2 DEF s, m
<1> QED
  BY <1>2, <1>3, <1>4, <1>5 DEF CpuModesAgree

\* Whatever the trace tells, the mode of a processor is what the kernel is in
\* there, once it has switched and runs a process born in the trace or none; an
\* interrupt is busy just while a processor serves it, and a soft interrupt runs
\* as often as processors are in it (CpuModesAgree).  The stack of a processor
\* is that of its process over its last switch: schedchange rebuilds it from the
\* mode on top, which suffices for no process is switched out in an interrupt,
\* and the tables, which grow with the ids met, lose no entry in use.
THEOREM CpuModesAreKnown == Traced => []CpuModesAgree
<1> DEFINE I == RunInv /\ IsComputed(v) /\ LifeInv /\ ProcessorInv
<1>1. Init => I
  BY RunInit, LifeInit, ProcessorInit
<1>2. I /\ [Next \/ Described]_vars => I'
  <2>1. ASSUME I, Next \/ Described
        PROVE  I'
    <3>1. RunInv' /\ IsComputed(v)' /\ LifeInv'
      BY <2>1, RunStep, LifeStep
    <3>2. ProcessorInv'
      BY <2>1, <3>1, ProcessorStep
    <3> QED
      BY <3>1, <3>2
  <2>2. ASSUME I, UNCHANGED vars
        PROVE  I'
    <3>1. RunInv' /\ IsComputed(v)' /\ LifeInv'
      BY <2>2 DEF vars, RunInv, IsComputed, LifeInv, Kernel, TakenToRun, HalfEnded, Ended,
                  CurrentKey, BornKernel, BornKeys, Lives
    <3>2. ProcessorInv'
      BY <2>2 DEF vars, ProcessorInv, NestInv, CpuInv, CurrentKey, KnownAt
    <3> QED
      BY <3>1, <3>2
  <2> QED
    BY <2>1, <2>2
<1>3. I => CpuModesAgree
  BY ProcessorsAgree
<1> QED
  BY <1>1, <1>2, <1>3, PTL DEF Traced
=============================================================================
