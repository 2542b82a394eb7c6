------------------------ MODULE SynchronizationProofs ------------------------
(***************************************************************************)
(* Theorems about Synchronization, for any number of traces, any clocks    *)
(* and any traffic: what is lost, sent again or shares a buffer.           *)
(***************************************************************************)
EXTENDS Synchronization, GSListProofs, FiniteSetTheorems, SequenceTheorems, WellFoundedInduction, TLAPS

-----------------------------------------------------------------------------
(* What a record, an event and a message tell of the past P: the frames    *)
(* sent, the clocks and the kinds of records lost.                         *)

Past == [frames |-> frames, traffic |-> traffic, lost |-> lost]

Told(P, h, t) == P.traffic.start[h] + P.traffic.rate[h] * t

\* A segment with the key was sent, by its source, when the clock of h showed
\* the time; and one with the key arrived then.
IsSent(P, h, time, key) ==
  /\ \E k \in DOMAIN P.frames : P.frames[k].key = key /\ time = Told(P, h, P.frames[k].sent)
  /\ key # NotTcp => h = key.saddr

IsArrival(P, h, time, key) ==
  \E k \in DOMAIN P.frames : /\ P.frames[k].key = key /\ P.frames[k].arrived > 0
                             /\ time = Told(P, h, P.frames[k].arrived)

IsReceived(P, h, time, key) ==
  /\ key # NotTcp /\ h = key.daddr
  /\ "dev_receive" \notin P.lost => IsArrival(P, h, time, key)

IsMessage(P, m) ==
  /\ m.in.key = m.out.key
  /\ IsSent(P, m.out.trace, m.out.time, m.out.key)
  /\ IsReceived(P, m.in.trace, m.in.time, m.in.key)

\* Of the records rs of a host that are still to be read, the first n leave a
\* frame of this time in the buffer skb: one of them puts it there, or it is one
\* of those read (pending), and none takes or replaces it.
IsPut(r) == r.name = "dev_receive" /\ r.protocol = ETH_P_IP
Uses(r, skb) == r.name \in {"dev_receive", "tcpv4_rcv_extended"} /\ r.skb = skb

InBuffer(rs, pending, n, skb, time) ==
  \/ \E i \in 1 .. n :
       /\ IsPut(rs[i]) /\ rs[i].skb = skb /\ rs[i].time = time
       /\ \A m \in i + 1 .. n : ~ Uses(rs[m], skb)
  \/ /\ \A m \in 1 .. n : ~ Uses(rs[m], skb)
     /\ \E f \in pending : f.skb = skb /\ f.time = time

HasFrame(P, rs, pending, n, skb, h, key) ==
  "dev_receive" \notin P.lost =>
    \E time : IsArrival(P, h, time, key) /\ InBuffer(rs, pending, n, skb, time)

IsTrue(P, h, r) ==
  /\ r.name \in {"dev_xmit_extended", "dev_receive", "tcpv4_rcv_extended"} /\ r.time \in Nat
  /\ r.name = "dev_xmit_extended" => IsSent(P, h, r.time, r.key)
  /\ r.name = "tcpv4_rcv_extended" => r.key # NotTcp /\ h = r.key.daddr

\* The records that are left to a host, after those before them left the frames
\* pending.
IsList(x) == \E S : x \in Seq(S)

RecordsAreTrue(P, h, rs, pending) ==
  /\ IsList(rs)
  /\ \A j \in 1 .. Len(rs) :
       /\ IsTrue(P, h, rs[j])
       /\ rs[j].name = "tcpv4_rcv_extended" =>
            HasFrame(P, rs, pending, j - 1, rs[j].skb, h, rs[j].key)

OnePerBuffer(fs) == \A f, g \in fs : f.skb = g.skb => f = g

\* What a host received and has not handed to TCP is in its buffers.
BuffersAreTrue(P, h, rs, pending, fs) ==
  /\ OnePerBuffer(fs)
  /\ \A f \in fs : /\ f.key # NotTcp /\ h = f.key.daddr
                   /\ HasFrame(P, rs, pending, Len(rs), f.skb, h, f.key)

-----------------------------------------------------------------------------
(* The invariant.  w is the state of processing and matching.              *)

NetworkInv ==
  /\ traffic \in Traffic /\ now \in Nat
  /\ phase \in {"tracing", "reading", "synchronized"}
  /\ IsList(frames) /\ (DOMAIN frames # {} => now > 0)
  /\ \A k \in DOMAIN frames :
       /\ DOMAIN frames[k] = {"key", "sent", "arrived"}
       /\ frames[k].key # NotTcp => frames[k].key.saddr \in Traces /\ frames[k].key.daddr \in Traces
  /\ DOMAIN received = Traces /\ DOMAIN records = Traces
  /\ phase # "tracing" => \A h \in Traces : received[h] = {}
  /\ phase = "synchronized" => \A h \in Traces : records[h] = << >>

\* A frame under way has not arrived and is no other one.
WireInv ==
  \A f \in wire :
    /\ f.number \in DOMAIN frames /\ f.to \in Traces
    /\ frames[f.number].key = f.key /\ frames[f.number].arrived = 0
    /\ f.key # NotTcp => f.to = f.key.daddr
    /\ \A g \in wire : f.number = g.number => f = g

IsMatching(w) ==
  /\ DOMAIN w = {"pendingRecv", "unMatchedOutE", "unMatchedInE", "unAcked", "hulls",
                 "messages", "exchanges", "disorganized"}
  /\ DOMAIN w.pendingRecv = Traces

EventsAreTrue(P, w) ==
  /\ \A e \in w.unMatchedOutE : IsSent(P, e.trace, e.time, e.key)
  /\ \A e \in w.unMatchedInE : IsReceived(P, e.trace, e.time, e.key)
  /\ \A e \in w.unMatchedOutE, f \in w.unMatchedInE : e.key # f.key
  /\ \A m \in w.messages : IsMessage(P, m)

\* The two events of a segment are on their way to each other until they meet.
HasRecord(rs, name, key) == \E j \in 1 .. Len(rs) : rs[j].name = name /\ rs[j].key = key
HasKey(fs, key) == \E f \in fs : f.key = key

IsOnItsWay(rec, recvd, w, frame) ==
  LET key == frame.key IN
  /\ HasRecord(rec[key.saddr], "dev_xmit_extended", key) \/ HasKey(w.unMatchedOutE, key)
  /\ frame.arrived > 0 =>
       \/ HasRecord(rec[key.daddr], "tcpv4_rcv_extended", key)
       \/ HasKey(w.unMatchedInE, key) \/ HasKey(recvd[key.daddr], key)

IsFound(w, key) == \E m \in w.messages : m.out.key = key

NothingIsLeftOut(P, rec, recvd, w) ==
  P.lost = {} =>
    \A k \in DOMAIN P.frames :
      P.frames[k].key # NotTcp /\ P.frames[k].key.saddr # P.frames[k].key.daddr =>
        IsFound(w, P.frames[k].key) \/ IsOnItsWay(rec, recvd, w, P.frames[k])

TracesAreTrue(P, rec, recvd, w) ==
  \A h \in Traces :
    /\ RecordsAreTrue(P, h, rec[h], w.pendingRecv[h])
    /\ BuffersAreTrue(P, h, rec[h], w.pendingRecv[h], recvd[h])
    /\ OnePerBuffer(w.pendingRecv[h])

MatchingInv ==
  /\ NetworkInv /\ WireInv /\ IsMatching(s)
  /\ TracesAreTrue(Past, records, received, s)
  /\ EventsAreTrue(Past, s)
  /\ NothingIsLeftOut(Past, records, received, s)

-----------------------------------------------------------------------------
(* Lists and buffers.                                                      *)

LEMMA AppendedLemma ==
  ASSUME NEW x, IsList(x), NEW e
  PROVE  /\ IsList(Append(x, e))
         /\ Len(x) \in Nat /\ DOMAIN x = 1 .. Len(x)
         /\ Len(Append(x, e)) = Len(x) + 1
         /\ DOMAIN Append(x, e) = 1 .. Len(x) + 1
         /\ \A j \in 1 .. Len(x) : Append(x, e)[j] = x[j]
         /\ Append(x, e)[Len(x) + 1] = e
<1>1. PICK S : x \in Seq(S)
  BY DEF IsList
<1>2. x \in Seq(S \cup {e}) /\ e \in S \cup {e}
  BY <1>1
<1>3. /\ Append(x, e) \in Seq(S \cup {e}) /\ Len(Append(x, e)) = Len(x) + 1
      /\ \A j \in 1 .. Len(x) : Append(x, e)[j] = x[j]
      /\ Append(x, e)[Len(x) + 1] = e
  BY <1>2, AppendProperties
<1> QED
  BY <1>2, <1>3 DEF IsList

LEMMA TailLemma ==
  ASSUME NEW x, IsList(x), x # << >>
  PROVE  /\ IsList(Tail(x)) /\ Len(x) \in Nat \ {0} /\ Head(x) = x[1]
         /\ Len(Tail(x)) = Len(x) - 1
         /\ \A j \in 1 .. Len(x) - 1 : Tail(x)[j] = x[j + 1]
<1>1. PICK S : x \in Seq(S)
  BY DEF IsList
<1>2. /\ Tail(x) \in Seq(S) /\ Len(Tail(x)) = Len(x) - 1
      /\ \A j \in 1 .. Len(Tail(x)) : Tail(x)[j] = x[j + 1]
  BY <1>1, HeadTailProperties, Zenon
<1>3. Len(x) \in Nat \ {0} /\ Head(x) = x[1]
  BY <1>1
<1> QED
  BY <1>2, <1>3 DEF IsList

LEMMA InBufferAppend ==
  ASSUME NEW rs, IsList(rs), NEW r, NEW pending, NEW skb, NEW time
  PROVE  /\ \A n \in 0 .. Len(rs) :
              InBuffer(rs, pending, n, skb, time) => InBuffer(Append(rs, r), pending, n, skb, time)
         /\ InBuffer(rs, pending, Len(rs), skb, time) /\ ~ Uses(r, skb) =>
              InBuffer(Append(rs, r), pending, Len(rs) + 1, skb, time)
         /\ IsPut(r) /\ r.skb = skb /\ r.time = time =>
              InBuffer(Append(rs, r), pending, Len(rs) + 1, skb, time)
<1> DEFINE x == Append(rs, r)
           l == Len(rs)
<1>1. l \in Nat /\ (\A j \in 1 .. l : x[j] = rs[j]) /\ x[l + 1] = r
  BY AppendedLemma
<1> HIDE DEF x, l
<1>2. ASSUME NEW n \in 0 .. l, InBuffer(rs, pending, n, skb, time)
      PROVE  InBuffer(x, pending, n, skb, time)
  <2>1. \A i \in 1 .. n : x[i] = rs[i]
    BY <1>1
  <2>2. \A i \in 1 .. n : \A m \in i + 1 .. n : x[m] = rs[m]
    BY <1>1, <2>1
  <2> QED
    BY <1>2, <2>1, <2>2 DEF InBuffer
<1>3. ASSUME InBuffer(rs, pending, l, skb, time), ~ Uses(r, skb)
      PROVE  InBuffer(x, pending, l + 1, skb, time)
  <2>1. CASE \E i \in 1 .. l :
               /\ IsPut(rs[i]) /\ rs[i].skb = skb /\ rs[i].time = time
               /\ \A m \in i + 1 .. l : ~ Uses(rs[m], skb)
    <3>1. PICK i \in 1 .. l : /\ IsPut(rs[i]) /\ rs[i].skb = skb /\ rs[i].time = time
                              /\ \A m \in i + 1 .. l : ~ Uses(rs[m], skb)
      BY <2>1
    <3>2. x[i] = rs[i] /\ i \in 1 .. l + 1
      BY <1>1
    <3>3. \A m \in i + 1 .. l + 1 : m = l + 1 \/ (m \in i + 1 .. l /\ x[m] = rs[m])
      BY <1>1
    <3>4. \A m \in i + 1 .. l + 1 : ~ Uses(x[m], skb)
      BY <1>1, <1>3, <3>1, <3>3
    <3> QED
      BY <3>1, <3>2, <3>4 DEF InBuffer
  <2>2. CASE (\A m \in 1 .. l : ~ Uses(rs[m], skb)) /\ \E f \in pending : f.skb = skb /\ f.time = time
    <3>1. \A m \in 1 .. l + 1 : m = l + 1 \/ (m \in 1 .. l /\ x[m] = rs[m])
      BY <1>1
    <3>2. \A m \in 1 .. l + 1 : ~ Uses(x[m], skb)
      BY <1>1, <1>3, <2>2, <3>1
    <3> QED
      BY <2>2, <3>2 DEF InBuffer
  <2> QED
    BY <1>3, <2>1, <2>2 DEF InBuffer
<1>4. ASSUME IsPut(r), r.skb = skb, r.time = time
      PROVE  InBuffer(x, pending, l + 1, skb, time)
  <2>1. l + 1 \in 1 .. l + 1 /\ \A m \in l + 1 + 1 .. l + 1 : FALSE
    BY <1>1
  <2> QED
    BY <1>1, <1>4, <2>1 DEF InBuffer
<1> QED
  BY <1>2, <1>3, <1>4 DEF x, l

LEMMA InBufferTail ==
  ASSUME NEW rs, IsList(rs), rs # << >>, NEW pending, NEW kept,
         \A f \in pending : ~ Uses(rs[1], f.skb) => f \in kept,
         IsPut(rs[1]) => \E f \in kept : f.skb = rs[1].skb /\ f.time = rs[1].time,
         NEW n \in 1 .. Len(rs), NEW skb, NEW time,
         InBuffer(rs, pending, n, skb, time)
  PROVE  InBuffer(Tail(rs), kept, n - 1, skb, time)
<1> DEFINE x == Tail(rs)
           l == Len(rs)
<1>1. l \in Nat \ {0} /\ \A m \in 1 .. l - 1 : x[m] = rs[m + 1]
  BY TailLemma
<1>2. n \in Nat /\ 1 <= n /\ n <= l
  BY <1>1
<1> HIDE DEF x, l
<1>3. ASSUME \E i \in 1 .. n :
               /\ IsPut(rs[i]) /\ rs[i].skb = skb /\ rs[i].time = time
               /\ \A m \in i + 1 .. n : ~ Uses(rs[m], skb)
      PROVE  InBuffer(x, kept, n - 1, skb, time)
  <2>1. PICK i \in 1 .. n : /\ IsPut(rs[i]) /\ rs[i].skb = skb /\ rs[i].time = time
                            /\ \A m \in i + 1 .. n : ~ Uses(rs[m], skb)
    BY <1>3
  <2>2. \A m \in i .. n - 1 : m \in 1 .. l - 1 /\ m + 1 \in i + 1 .. n
    BY <1>1, <1>2
  <2>3. \A m \in i .. n - 1 : ~ Uses(x[m], skb)
    BY <1>1, <2>1, <2>2
  <2>4. CASE i = 1
    <3>1. \E f \in kept : f.skb = skb /\ f.time = time
      BY <2>1, <2>4
    <3>2. \A m \in 1 .. n - 1 : ~ Uses(x[m], skb)
      BY <2>3, <2>4
    <3> QED
      BY <3>1, <3>2 DEF InBuffer
  <2>5. CASE i # 1
    <3> DEFINE k == i - 1
    <3>1. k \in 1 .. l - 1 /\ k \in 1 .. n - 1 /\ k + 1 = i
      BY <1>1, <1>2, <2>5
    <3> HIDE DEF k
    <3>2. x[k] = rs[i]
      BY <1>1, <3>1
    <3>3. \A m \in k + 1 .. n - 1 : ~ Uses(x[m], skb)
      BY <2>3, <3>1
    <3> QED
      BY <2>1, <3>1, <3>2, <3>3 DEF InBuffer
  <2> QED
    BY <2>4, <2>5
<1>4. ASSUME \A m \in 1 .. n : ~ Uses(rs[m], skb), \E f \in pending : f.skb = skb /\ f.time = time
      PROVE  InBuffer(x, kept, n - 1, skb, time)
  <2>1. \A m \in 1 .. n - 1 : m \in 1 .. l - 1 /\ m + 1 \in 1 .. n
    BY <1>1, <1>2
  <2>2. \A m \in 1 .. n - 1 : ~ Uses(x[m], skb)
    BY <1>1, <1>4, <2>1
  <2>3. 1 \in 1 .. n
    BY <1>2
  <2>4. \E f \in kept : f.skb = skb /\ f.time = time
    BY <1>4, <2>3
  <2> QED
    BY <2>2, <2>4 DEF InBuffer
<1> QED
  BY <1>3, <1>4 DEF InBuffer, x

-----------------------------------------------------------------------------
(* What goes on does not change what was.                                  *)

Continues(P, Q) ==
  /\ Q.traffic = P.traffic /\ P.lost \subseteq Q.lost
  /\ \A k \in DOMAIN P.frames :
       /\ k \in DOMAIN Q.frames
       /\ Q.frames[k].key = P.frames[k].key /\ Q.frames[k].sent = P.frames[k].sent
       /\ P.frames[k].arrived > 0 => Q.frames[k].arrived = P.frames[k].arrived

LEMMA PastKept ==
  ASSUME NEW P, NEW Q, Continues(P, Q)
  PROVE  /\ \A h, time, key : IsSent(P, h, time, key) => IsSent(Q, h, time, key)
         /\ \A h, time, key : IsReceived(P, h, time, key) => IsReceived(Q, h, time, key)
         /\ \A h, r : IsTrue(P, h, r) => IsTrue(Q, h, r)
         /\ \A rs, pending, n, skb, h, key :
              HasFrame(P, rs, pending, n, skb, h, key) => HasFrame(Q, rs, pending, n, skb, h, key)
<1>1. \A h, t : Told(Q, h, t) = Told(P, h, t)
  BY DEF Continues, Told
<1>2. ASSUME NEW h, NEW time, NEW key, IsSent(P, h, time, key) PROVE IsSent(Q, h, time, key)
  BY <1>1, <1>2 DEF IsSent, Continues
<1>3. ASSUME NEW h, NEW time, NEW key, IsArrival(P, h, time, key) PROVE IsArrival(Q, h, time, key)
  BY <1>1, <1>3 DEF IsArrival, Continues
<1>4. "dev_receive" \notin Q.lost => "dev_receive" \notin P.lost
  BY DEF Continues
<1> QED
  BY <1>2, <1>3, <1>4 DEF IsReceived, IsTrue, HasFrame

LEMMA TracesKept ==
  ASSUME NEW P, NEW Q, Continues(P, Q)
  PROVE  /\ \A h, rs, pending : RecordsAreTrue(P, h, rs, pending) => RecordsAreTrue(Q, h, rs, pending)
         /\ \A h, rs, pending, fs :
              BuffersAreTrue(P, h, rs, pending, fs) => BuffersAreTrue(Q, h, rs, pending, fs)
         /\ \A w : EventsAreTrue(P, w) => EventsAreTrue(Q, w)
BY PastKept DEF RecordsAreTrue, BuffersAreTrue, EventsAreTrue, IsMessage

LEMMA RecordsAppend ==
  ASSUME NEW P, NEW h, NEW rs, NEW pending, RecordsAreTrue(P, h, rs, pending),
         NEW r, IsTrue(P, h, r),
         r.name = "tcpv4_rcv_extended" => HasFrame(P, rs, pending, Len(rs), r.skb, h, r.key)
  PROVE  RecordsAreTrue(P, h, Append(rs, r), pending)
<1> DEFINE x == Append(rs, r)
           l == Len(rs)
<1>1. IsList(rs)
  BY DEF RecordsAreTrue
<1>2. /\ IsList(x) /\ Len(x) = l + 1 /\ l \in Nat
      /\ (\A j \in 1 .. l : x[j] = rs[j]) /\ x[l + 1] = r
  BY <1>1, AppendedLemma
<1>3. \A n \in 0 .. l : \A skb, key :
        HasFrame(P, rs, pending, n, skb, h, key) => HasFrame(P, x, pending, n, skb, h, key)
  BY <1>1, InBufferAppend DEF HasFrame
<1>4. \A j \in 1 .. l : /\ IsTrue(P, h, rs[j])
                        /\ rs[j].name = "tcpv4_rcv_extended" =>
                             HasFrame(P, rs, pending, j - 1, rs[j].skb, h, rs[j].key)
  BY DEF RecordsAreTrue
<1>5. r.name = "tcpv4_rcv_extended" => HasFrame(P, rs, pending, l, r.skb, h, r.key)
  OBVIOUS
<1> HIDE DEF x, l
<1>6. ASSUME NEW j \in 1 .. l + 1
      PROVE  /\ IsTrue(P, h, x[j])
             /\ x[j].name = "tcpv4_rcv_extended" => HasFrame(P, x, pending, j - 1, x[j].skb, h, x[j].key)
  <2>1. CASE j = l + 1
    <3>1. x[j] = r /\ j - 1 = l /\ l \in 0 .. l
      BY <1>2, <2>1
    <3> QED
      BY <1>3, <1>5, <3>1
  <2>2. CASE j # l + 1
    <3>1. j \in 1 .. l /\ j - 1 \in 0 .. l
      BY <1>2, <2>2
    <3>2. x[j] = rs[j]
      BY <1>2, <3>1
    <3> QED
      BY <1>3, <1>4, <3>1, <3>2
  <2> QED
    BY <2>1, <2>2
<1> QED
  BY <1>2, <1>6 DEF RecordsAreTrue, x

LEMMA BuffersAppend ==
  ASSUME NEW P, NEW h, NEW rs, IsList(rs), NEW pending, NEW fs, BuffersAreTrue(P, h, rs, pending, fs),
         NEW r, \A f \in fs : ~ Uses(r, f.skb)
  PROVE  BuffersAreTrue(P, h, Append(rs, r), pending, fs)
<1>1. Len(Append(rs, r)) = Len(rs) + 1
  BY AppendedLemma
<1> QED
  BY <1>1, InBufferAppend DEF BuffersAreTrue, HasFrame

\* The records left, when the first of them is read and what it left pending.
LEMMA RecordsTail ==
  ASSUME NEW P, NEW h, NEW rs, rs # << >>, NEW pending, RecordsAreTrue(P, h, rs, pending), NEW kept,
         \A f \in pending : ~ Uses(rs[1], f.skb) => f \in kept,
         IsPut(rs[1]) => \E f \in kept : f.skb = rs[1].skb /\ f.time = rs[1].time
  PROVE  RecordsAreTrue(P, h, Tail(rs), kept)
<1> DEFINE x == Tail(rs)
           l == Len(rs)
<1>1. IsList(rs)
  BY DEF RecordsAreTrue
<1>2. /\ IsList(x) /\ Len(x) = l - 1 /\ l \in Nat \ {0}
      /\ \A j \in 1 .. l - 1 : x[j] = rs[j + 1]
  BY <1>1, TailLemma
<1>3. \A n \in 1 .. l : \A skb, key :
        HasFrame(P, rs, pending, n, skb, h, key) => HasFrame(P, x, kept, n - 1, skb, h, key)
  BY <1>1, InBufferTail DEF HasFrame
<1>4. \A j \in 1 .. l : /\ IsTrue(P, h, rs[j])
                        /\ rs[j].name = "tcpv4_rcv_extended" =>
                             HasFrame(P, rs, pending, j - 1, rs[j].skb, h, rs[j].key)
  BY DEF RecordsAreTrue
<1> HIDE DEF x, l
<1>5. ASSUME NEW j \in 1 .. l - 1
      PROVE  /\ IsTrue(P, h, x[j])
             /\ x[j].name = "tcpv4_rcv_extended" => HasFrame(P, x, kept, j - 1, x[j].skb, h, x[j].key)
  <2>1. j \in 1 .. l /\ j + 1 \in 1 .. l /\ (j + 1) - 1 = j /\ x[j] = rs[j + 1]
    BY <1>2
  <2>2. /\ IsTrue(P, h, x[j])
        /\ x[j].name = "tcpv4_rcv_extended" => HasFrame(P, rs, pending, j, x[j].skb, h, x[j].key)
    BY <1>4, <2>1
  <2> QED
    BY <1>3, <2>1, <2>2
<1> QED
  BY <1>2, <1>5 DEF RecordsAreTrue, x

LEMMA HasRecordAppend ==
  ASSUME NEW rs, IsList(rs), NEW r, NEW name, NEW key
  PROVE  HasRecord(Append(rs, r), name, key) <=>
           HasRecord(rs, name, key) \/ (r.name = name /\ r.key = key)
<1> DEFINE x == Append(rs, r)
           l == Len(rs)
<1>1. /\ Len(x) = l + 1 /\ l \in Nat
      /\ (\A j \in 1 .. l : x[j] = rs[j]) /\ x[l + 1] = r
  BY AppendedLemma
<1> HIDE DEF x, l
<1>2. 1 .. l + 1 = (1 .. l) \cup {l + 1}
  BY <1>1
<1> QED
  BY <1>1, <1>2 DEF HasRecord, x, l

LEMMA HasRecordTail ==
  ASSUME NEW rs, IsList(rs), rs # << >>, NEW name, NEW key, HasRecord(rs, name, key)
  PROVE  HasRecord(Tail(rs), name, key) \/ (rs[1].name = name /\ rs[1].key = key)
<1> DEFINE x == Tail(rs)
           l == Len(rs)
<1>1. /\ Len(x) = l - 1 /\ l \in Nat \ {0}
      /\ \A j \in 1 .. l - 1 : x[j] = rs[j + 1]
  BY TailLemma
<1>2. PICK j \in 1 .. l : rs[j].name = name /\ rs[j].key = key
  BY DEF HasRecord
<1> HIDE DEF x, l
<1>3. CASE j # 1
  <2>1. j - 1 \in 1 .. l - 1 /\ (j - 1) + 1 = j
    BY <1>1, <1>3
  <2> QED
    BY <1>1, <1>2, <2>1 DEF HasRecord, x
<1> QED
  BY <1>2, <1>3

-----------------------------------------------------------------------------
(* Matching: an event meets the one that is waiting for it, or waits.      *)

SameEvents(w, x) ==
  /\ x.pendingRecv = w.pendingRecv
  /\ x.unMatchedOutE = w.unMatchedOutE /\ x.unMatchedInE = w.unMatchedInE

LEMMA MatchedLemma ==
  ASSUME NEW w, IsMatching(w), NEW packet, NEW exchanges
  PROVE  /\ IsMatching(Matched(w, packet, exchanges))
         /\ SameEvents(w, Matched(w, packet, exchanges))
         /\ Matched(w, packet, exchanges).messages =
              IF packet.in.trace = packet.out.trace THEN w.messages ELSE w.messages \cup {packet}
<1> DEFINE given == [w EXCEPT !.messages = @ \cup {packet}]
           All(x) == IsMatching(x) /\ SameEvents(w, x) /\ x.messages = w.messages \cup {packet}
<1>1. All(given)
  BY DEF IsMatching, SameEvents
<1>2. ASSUME NEW x, All(x) PROVE All(AnalyzeAck(x, packet))
  <2> DEFINE c == ReversedConnection(packet.in.key)
             q == Keep(x.unAcked[c], {p \in Range(x.unAcked[c]) : ~ isAcking(packet, p)})
             a == x.unAcked[c][Max(Acked(x, packet))]
             u == [x EXCEPT !.unAcked[c] = q]
  <2>1. \/ AnalyzeAck(x, packet) = x
        \/ AnalyzeAck(x, packet) = [u EXCEPT !.disorganized = TRUE]
        \/ AnalyzeAck(x, packet) = [u EXCEPT !.exchanges = @ \cup {[message |-> packet, acked |-> a]}]
    BY Zenon DEF AnalyzeAck
  <2> HIDE DEF a, q, c
  <2>2. All(u)
    BY <1>2 DEF IsMatching, SameEvents
  <2> HIDE DEF u
  <2>3. \A y : All([u EXCEPT !.disorganized = y]) /\ All([u EXCEPT !.exchanges = y])
    BY <2>2 DEF IsMatching, SameEvents
  <2> QED
    BY <1>2, <2>1, <2>3
<1>3. ASSUME NEW x, All(x) PROVE All(Await(x, packet))
  <2> DEFINE c == Connection(packet.in.key)
  <2>1. \/ Await(x, packet) = x
        \/ Await(x, packet) = [x EXCEPT !.unAcked[c] = Append(@, packet)]
    BY DEF Await
  <2> HIDE DEF c
  <2> QED
    BY <1>3, <2>1 DEF IsMatching, SameEvents
<1>4. All([w EXCEPT !.messages = @ \cup {packet}, !.hulls = analyzeMessage(@, packet)])
  BY DEF IsMatching, SameEvents
<1>5. packet.in.trace = packet.out.trace =>
        Matched(w, packet, exchanges) = w
  BY DEF Matched
<1>6. packet.in.trace # packet.out.trace /\ exchanges =>
        Matched(w, packet, exchanges) = Await(AnalyzeAck(given, packet), packet)
  BY Zenon DEF Matched
<1>7. packet.in.trace # packet.out.trace /\ ~ exchanges =>
        Matched(w, packet, exchanges) =
          [w EXCEPT !.messages = @ \cup {packet}, !.hulls = analyzeMessage(@, packet)]
  BY Zenon DEF Matched
<1>8. CASE packet.in.trace = packet.out.trace
  BY <1>5, <1>8 DEF SameEvents
<1> HIDE DEF given
<1>9. CASE packet.in.trace # packet.out.trace /\ exchanges
  <2>1. All(Await(AnalyzeAck(given, packet), packet))
    BY <1>1, <1>2, <1>3
  <2> QED
    BY <1>6, <1>9, <2>1
<1>10. CASE packet.in.trace # packet.out.trace /\ ~ exchanges
  BY <1>4, <1>7, <1>10
<1> QED
  BY <1>8, <1>9, <1>10

\* What is left of the events waiting there (w.unMatchedOutE and unMatchedInE
\* for a received segment, the reverse for a sent one), of the messages, and of
\* the event e itself.
Waits(there, here, there1, here1, e) ==
  /\ SameKey(there, e) = {}
  /\ there1 = there /\ here1 = (here \ SameKey(here, e)) \cup {e}

Meets(there, here, there1, here1, other, e) ==
  /\ other \in there /\ other.key = e.key
  /\ there1 = there \ {other} /\ here1 = here

LEMMA MatchInLemma ==
  ASSUME NEW w, IsMatching(w), NEW e, NEW exchanges, NEW x, x = MatchIn(w, e, exchanges)
  PROVE  /\ IsMatching(x) /\ x.pendingRecv = w.pendingRecv
         /\ \/ /\ Waits(w.unMatchedOutE, w.unMatchedInE, x.unMatchedOutE, x.unMatchedInE, e)
               /\ x.messages = w.messages
            \/ \E out :
                 /\ Meets(w.unMatchedOutE, w.unMatchedInE, x.unMatchedOutE, x.unMatchedInE, out, e)
                 /\ x.messages = IF e.trace = out.trace THEN w.messages
                                 ELSE w.messages \cup {[out |-> out, in |-> e]}
<1> DEFINE out == CHOOSE f \in SameKey(w.unMatchedOutE, e) : TRUE
           taken == [w EXCEPT !.unMatchedOutE = @ \ {out}]
           packet == [out |-> out, in |-> e]
<1>1. CASE SameKey(w.unMatchedOutE, e) = {}
  <2>1. x = [w EXCEPT !.unMatchedInE = (@ \ SameKey(@, e)) \cup {e}]
    BY <1>1, Zenon DEF MatchIn
  <2> QED
    BY <1>1, <2>1 DEF IsMatching, Waits
<1>2. CASE SameKey(w.unMatchedOutE, e) # {}
  <2>1. x = Matched(taken, packet, exchanges)
    BY <1>2, Zenon DEF MatchIn
  <2>2. out \in SameKey(w.unMatchedOutE, e)
    BY <1>2
  <2>3. out \in w.unMatchedOutE /\ out.key = e.key
    BY <2>2 DEF SameKey
  <2> HIDE DEF out
  <2>4. /\ IsMatching(taken) /\ taken.pendingRecv = w.pendingRecv
        /\ taken.unMatchedOutE = w.unMatchedOutE \ {out} /\ taken.unMatchedInE = w.unMatchedInE
        /\ taken.messages = w.messages
    BY DEF IsMatching
  <2> HIDE DEF taken
  <2>5. packet.in = e /\ packet.out = out
    OBVIOUS
  <2> HIDE DEF packet
  <2>6. /\ IsMatching(x) /\ SameEvents(taken, x)
        /\ x.messages = IF e.trace = out.trace THEN w.messages ELSE w.messages \cup {packet}
    BY <2>1, <2>4, <2>5, MatchedLemma
  <2>7. Meets(w.unMatchedOutE, w.unMatchedInE, x.unMatchedOutE, x.unMatchedInE, out, e)
    BY <2>3, <2>4, <2>6 DEF Meets, SameEvents
  <2> QED
    BY <2>4, <2>6, <2>7 DEF SameEvents, packet
<1> QED
  BY <1>1, <1>2

LEMMA MatchOutLemma ==
  ASSUME NEW w, IsMatching(w), NEW e, NEW exchanges, NEW x, x = MatchOut(w, e, exchanges)
  PROVE  /\ IsMatching(x) /\ x.pendingRecv = w.pendingRecv
         /\ \/ /\ Waits(w.unMatchedInE, w.unMatchedOutE, x.unMatchedInE, x.unMatchedOutE, e)
               /\ x.messages = w.messages
            \/ \E in :
                 /\ Meets(w.unMatchedInE, w.unMatchedOutE, x.unMatchedInE, x.unMatchedOutE, in, e)
                 /\ x.messages = IF in.trace = e.trace THEN w.messages
                                 ELSE w.messages \cup {[out |-> e, in |-> in]}
<1> DEFINE in == CHOOSE f \in SameKey(w.unMatchedInE, e) : TRUE
           taken == [w EXCEPT !.unMatchedInE = @ \ {in}]
           packet == [out |-> e, in |-> in]
<1>1. CASE SameKey(w.unMatchedInE, e) = {}
  <2>1. x = [w EXCEPT !.unMatchedOutE = (@ \ SameKey(@, e)) \cup {e}]
    BY <1>1, Zenon DEF MatchOut
  <2> QED
    BY <1>1, <2>1 DEF IsMatching, Waits
<1>2. CASE SameKey(w.unMatchedInE, e) # {}
  <2>1. x = Matched(taken, packet, exchanges)
    BY <1>2, Zenon DEF MatchOut
  <2>2. in \in SameKey(w.unMatchedInE, e)
    BY <1>2
  <2>3. in \in w.unMatchedInE /\ in.key = e.key
    BY <2>2 DEF SameKey
  <2> HIDE DEF in
  <2>4. /\ IsMatching(taken) /\ taken.pendingRecv = w.pendingRecv
        /\ taken.unMatchedInE = w.unMatchedInE \ {in} /\ taken.unMatchedOutE = w.unMatchedOutE
        /\ taken.messages = w.messages
    BY DEF IsMatching
  <2> HIDE DEF taken
  <2>5. packet.in = in /\ packet.out = e
    OBVIOUS
  <2> HIDE DEF packet
  <2>6. /\ IsMatching(x) /\ SameEvents(taken, x)
        /\ x.messages = IF in.trace = e.trace THEN w.messages ELSE w.messages \cup {packet}
    BY <2>1, <2>4, <2>5, MatchedLemma
  <2>7. Meets(w.unMatchedInE, w.unMatchedOutE, x.unMatchedInE, x.unMatchedOutE, in, e)
    BY <2>3, <2>4, <2>6 DEF Meets, SameEvents
  <2> QED
    BY <2>4, <2>6, <2>7 DEF SameEvents, packet
<1> QED
  BY <1>1, <1>2

\* No event of a segment between two hosts is dropped but for a message.
IsBetweenHosts(key) == key # NotTcp /\ key.saddr # key.daddr

Advances(w, x) ==
  \A key : IsBetweenHosts(key) =>
    /\ IsFound(w, key) => IsFound(x, key)
    /\ HasKey(w.unMatchedOutE, key) => IsFound(x, key) \/ HasKey(x.unMatchedOutE, key)
    /\ HasKey(w.unMatchedInE, key) => IsFound(x, key) \/ HasKey(x.unMatchedInE, key)

LEMMA MatchInTrue ==
  ASSUME NEW P, NEW w, IsMatching(w), EventsAreTrue(P, w),
         NEW e, IsReceived(P, e.trace, e.time, e.key), NEW exchanges, NEW x, x = MatchIn(w, e, exchanges)
  PROVE  /\ EventsAreTrue(P, x) /\ Advances(w, x)
         /\ IsBetweenHosts(e.key) => IsFound(x, e.key) \/ HasKey(x.unMatchedInE, e.key)
<1>1. CASE /\ Waits(w.unMatchedOutE, w.unMatchedInE, x.unMatchedOutE, x.unMatchedInE, e)
           /\ x.messages = w.messages
  <2>1. EventsAreTrue(P, x)
    BY <1>1 DEF EventsAreTrue, Waits, SameKey
  <2>2. Advances(w, x) /\ HasKey(x.unMatchedInE, e.key)
    BY <1>1 DEF Advances, IsFound, HasKey, Waits, SameKey
  <2> QED
    BY <2>1, <2>2
<1>2. ASSUME NEW out,
             Meets(w.unMatchedOutE, w.unMatchedInE, x.unMatchedOutE, x.unMatchedInE, out, e),
             x.messages = IF e.trace = out.trace THEN w.messages
                          ELSE w.messages \cup {[out |-> out, in |-> e]}
      PROVE  /\ EventsAreTrue(P, x) /\ Advances(w, x)
             /\ IsBetweenHosts(e.key) => IsFound(x, e.key)
  <2> DEFINE m == [out |-> out, in |-> e]
  <2>1. m.out = out /\ m.in = e
    OBVIOUS
  <2>2. e.trace # out.trace => x.messages = w.messages \cup {m}
    BY <1>2
  <2>3. e.trace = out.trace => x.messages = w.messages
    BY <1>2
  <2> HIDE DEF m
  <2>4. IsSent(P, out.trace, out.time, out.key) /\ out.key = e.key
    BY <1>2 DEF EventsAreTrue, Meets
  <2>5. IsMessage(P, m)
    BY <2>1, <2>4 DEF IsMessage
  <2>6. EventsAreTrue(P, x)
    BY <1>2, <2>2, <2>3, <2>5 DEF EventsAreTrue, Meets
  <2>7. IsBetweenHosts(e.key) => e.trace # out.trace
    BY <2>4 DEF IsBetweenHosts, IsSent, IsReceived
  <2>8. IsBetweenHosts(e.key) => IsFound(x, e.key)
    BY <2>1, <2>2, <2>4, <2>7 DEF IsFound
  <2>9. \A key : IsFound(w, key) => IsFound(x, key)
    BY <2>2, <2>3 DEF IsFound
  <2>10. \A key : HasKey(w.unMatchedOutE, key) => key = e.key \/ HasKey(x.unMatchedOutE, key)
    BY <1>2 DEF HasKey, Meets
  <2>11. Advances(w, x)
    BY <1>2, <2>8, <2>9, <2>10 DEF Advances, Meets
  <2> QED
    BY <2>6, <2>8, <2>11
<1> QED
  BY <1>1, <1>2, MatchInLemma, Zenon DEF HasKey, Waits

LEMMA MatchOutTrue ==
  ASSUME NEW P, NEW w, IsMatching(w), EventsAreTrue(P, w),
         NEW e, IsSent(P, e.trace, e.time, e.key), NEW exchanges, NEW x, x = MatchOut(w, e, exchanges)
  PROVE  /\ EventsAreTrue(P, x) /\ Advances(w, x)
         /\ IsBetweenHosts(e.key) => IsFound(x, e.key) \/ HasKey(x.unMatchedOutE, e.key)
<1>1. CASE /\ Waits(w.unMatchedInE, w.unMatchedOutE, x.unMatchedInE, x.unMatchedOutE, e)
           /\ x.messages = w.messages
  <2>1. EventsAreTrue(P, x)
    BY <1>1 DEF EventsAreTrue, Waits, SameKey
  <2>2. Advances(w, x) /\ HasKey(x.unMatchedOutE, e.key)
    BY <1>1 DEF Advances, IsFound, HasKey, Waits, SameKey
  <2> QED
    BY <2>1, <2>2
<1>2. ASSUME NEW in,
             Meets(w.unMatchedInE, w.unMatchedOutE, x.unMatchedInE, x.unMatchedOutE, in, e),
             x.messages = IF in.trace = e.trace THEN w.messages
                          ELSE w.messages \cup {[out |-> e, in |-> in]}
      PROVE  /\ EventsAreTrue(P, x) /\ Advances(w, x)
             /\ IsBetweenHosts(e.key) => IsFound(x, e.key)
  <2> DEFINE m == [out |-> e, in |-> in]
  <2>1. m.out = e /\ m.in = in
    OBVIOUS
  <2>2. in.trace # e.trace => x.messages = w.messages \cup {m}
    BY <1>2
  <2>3. in.trace = e.trace => x.messages = w.messages
    BY <1>2
  <2> HIDE DEF m
  <2>4. IsReceived(P, in.trace, in.time, in.key) /\ in.key = e.key
    BY <1>2 DEF EventsAreTrue, Meets
  <2>5. IsMessage(P, m)
    BY <2>1, <2>4 DEF IsMessage
  <2>6. EventsAreTrue(P, x)
    BY <1>2, <2>2, <2>3, <2>5 DEF EventsAreTrue, Meets
  <2>7. IsBetweenHosts(e.key) => in.trace # e.trace
    BY <2>4 DEF IsBetweenHosts, IsSent, IsReceived
  <2>8. IsBetweenHosts(e.key) => IsFound(x, e.key)
    BY <2>1, <2>2, <2>7 DEF IsFound
  <2>9. \A key : IsFound(w, key) => IsFound(x, key)
    BY <2>2, <2>3 DEF IsFound
  <2>10. \A key : HasKey(w.unMatchedInE, key) => key = e.key \/ HasKey(x.unMatchedInE, key)
    BY <1>2 DEF HasKey, Meets
  <2>11. Advances(w, x)
    BY <1>2, <2>8, <2>9, <2>10 DEF Advances, Meets
  <2> QED
    BY <2>6, <2>8, <2>11
<1> QED
  BY <1>1, <1>2, MatchOutLemma, Zenon DEF HasKey, Waits

-----------------------------------------------------------------------------
(* Reading: what processing does with the first record of a host.          *)

\* The record r leaves of the frames pending.
Leaves(r, pending, kept) ==
  /\ OnePerBuffer(kept)
  /\ \A f \in pending : ~ Uses(r, f.skb) => f \in kept
  /\ IsPut(r) => \E f \in kept : f.skb = r.skb /\ f.time = r.time

LEMMA EmptyBuffer ==
  ASSUME NEW rs, NEW pending, NEW skb, NEW time, InBuffer(rs, pending, 0, skb, time)
  PROVE  \E f \in pending : f.skb = skb /\ f.time = time
<1>1. \A i \in 1 .. 0 : FALSE
  OBVIOUS
<1> QED
  BY <1>1 DEF InBuffer

\* What reading a record gives: x of w, at host h.
Processed(P, w, x, h, r) ==
  /\ IsMatching(x) /\ EventsAreTrue(P, x) /\ Advances(w, x)
  /\ Leaves(r, w.pendingRecv[h], x.pendingRecv[h])
  /\ \A g \in Traces \ {h} : x.pendingRecv[g] = w.pendingRecv[g]
  /\ r.name = "dev_xmit_extended" /\ IsBetweenHosts(r.key) =>
       IsFound(x, r.key) \/ HasKey(x.unMatchedOutE, r.key)
  /\ r.name = "tcpv4_rcv_extended" /\ IsBetweenHosts(r.key) /\ P.lost = {} =>
       IsFound(x, r.key) \/ HasKey(x.unMatchedInE, r.key)

LEMMA ProcessLemma ==
  ASSUME NEW P, NEW w, IsMatching(w), EventsAreTrue(P, w),
         NEW h \in Traces, OnePerBuffer(w.pendingRecv[h]),
         NEW r, IsTrue(P, h, r), NEW rs,
         r.name = "tcpv4_rcv_extended" => HasFrame(P, rs, w.pendingRecv[h], 0, r.skb, h, r.key),
         NEW exchanges
  PROVE  Processed(P, w, processEvent(w, h, r, exchanges), h, r)
<1> DEFINE pending == w.pendingRecv[h]
           x == processEvent(w, h, r, exchanges)
<1>1. CASE r.name = "dev_xmit_extended"
  <2> DEFINE e == [trace |-> h, time |-> r.time, key |-> r.key]
  <2>1. x = MatchOut(w, e, exchanges)
    BY <1>1, Zenon DEF processEvent, dev_xmit
  <2>2. e.trace = h /\ e.time = r.time /\ e.key = r.key
    OBVIOUS
  <2> HIDE DEF e, x
  <2>3. IsSent(P, e.trace, e.time, e.key)
    BY <1>1, <2>2 DEF IsTrue
  <2>4. IsMatching(x) /\ x.pendingRecv = w.pendingRecv
    BY <2>1, MatchOutLemma
  <2>5. /\ EventsAreTrue(P, x) /\ Advances(w, x)
        /\ IsBetweenHosts(r.key) => IsFound(x, r.key) \/ HasKey(x.unMatchedOutE, r.key)
    BY <2>1, <2>2, <2>3, MatchOutTrue
  <2>6. Leaves(r, pending, pending)
    BY <1>1 DEF Leaves, IsPut
  <2> QED
    BY <1>1, <2>4, <2>5, <2>6 DEF Processed, x
<1>2. CASE r.name = "dev_receive" /\ r.protocol # ETH_P_IP
  <2>1. x = w
    BY <1>2, Zenon DEF processEvent, dev_receive
  <2>2. Leaves(r, pending, pending)
    BY <1>2 DEF Leaves, IsPut
  <2>3. Advances(w, x)
    BY <2>1 DEF Advances
  <2> HIDE DEF x, pending
  <2> QED
    BY <1>2, <2>1, <2>2, <2>3 DEF Processed, x, pending
<1>3. CASE r.name = "dev_receive" /\ r.protocol = ETH_P_IP
  <2> DEFINE frame == [skb |-> r.skb, time |-> r.time]
             kept == (pending \ SameSkb(pending, r.skb)) \cup {frame}
  <2>1. x = [w EXCEPT !.pendingRecv[h] = kept]
    BY <1>3, Zenon DEF processEvent, dev_receive
  <2>2. frame.skb = r.skb /\ frame.time = r.time
    OBVIOUS
  <2> HIDE DEF frame, x
  <2>3. Leaves(r, pending, kept)
    BY <1>3, <2>2 DEF Leaves, IsPut, OnePerBuffer, SameSkb, Uses
  <2> HIDE DEF kept
  <2>4. /\ IsMatching(x) /\ x.pendingRecv = [w.pendingRecv EXCEPT ![h] = kept]
        /\ x.unMatchedOutE = w.unMatchedOutE /\ x.unMatchedInE = w.unMatchedInE
        /\ x.messages = w.messages
    BY <2>1 DEF IsMatching
  <2>5. EventsAreTrue(P, x) /\ Advances(w, x)
    BY <2>4 DEF EventsAreTrue, Advances, IsFound, HasKey
  <2> QED
    BY <1>3, <2>3, <2>4, <2>5 DEF Processed, x, IsMatching
<1>4. CASE r.name = "tcpv4_rcv_extended"
  <2> DEFINE fs == SameSkb(pending, r.skb)
             frame == CHOOSE f \in fs : TRUE
             kept == pending \ fs
             e == [trace |-> h, time |-> frame.time, key |-> r.key]
             taken == [w EXCEPT !.pendingRecv[h] = kept]
  <2>1. Leaves(r, pending, kept)
    BY <1>4 DEF Leaves, IsPut, OnePerBuffer, SameSkb, Uses
  <2>2. "dev_receive" \notin P.lost =>
          fs # {} /\ IsArrival(P, h, frame.time, r.key)
    <3>1. SUFFICES ASSUME "dev_receive" \notin P.lost
                   PROVE  fs # {} /\ IsArrival(P, h, frame.time, r.key)
      OBVIOUS
    <3>2. PICK time : IsArrival(P, h, time, r.key) /\ InBuffer(rs, pending, 0, r.skb, time)
      BY <1>4, <3>1 DEF HasFrame
    <3>3. PICK f \in pending : f.skb = r.skb /\ f.time = time
      BY <3>2, EmptyBuffer
    <3>4. f \in fs /\ frame \in fs
      BY <3>3 DEF SameSkb
    <3>5. frame = f
      BY <3>4 DEF OnePerBuffer, SameSkb
    <3> QED
      BY <3>2, <3>3, <3>4, <3>5
  <2>3. CASE fs = {}
    <3>1. x = w
      BY <1>4, <2>3, Zenon DEF processEvent, tcpv4_rcv
    <3>2. P.lost # {}
      BY <2>2, <2>3
    <3>4. Leaves(r, pending, pending)
      BY <2>1, <2>3
    <3>5. Advances(w, x)
      BY <3>1 DEF Advances
    <3> HIDE DEF x, fs, kept, pending
    <3> QED
      BY <1>4, <3>1, <3>2, <3>4, <3>5 DEF Processed, x, pending
  <2>4. CASE fs # {}
    <3>1. x = MatchIn(taken, e, exchanges)
      BY <1>4, <2>4, Zenon DEF processEvent, tcpv4_rcv
    <3>2. e.trace = h /\ e.time = frame.time /\ e.key = r.key
      OBVIOUS
    <3>3. IsReceived(P, e.trace, e.time, e.key)
      BY <1>4, <2>2, <3>2 DEF IsReceived, IsTrue
    <3> HIDE DEF x, e, kept, fs, frame
    <3>4. /\ IsMatching(taken) /\ taken.pendingRecv = [w.pendingRecv EXCEPT ![h] = kept]
          /\ taken.unMatchedOutE = w.unMatchedOutE /\ taken.unMatchedInE = w.unMatchedInE
          /\ taken.messages = w.messages
      BY DEF IsMatching
    <3> HIDE DEF taken
    <3>5. EventsAreTrue(P, taken) /\ (Advances(taken, x) => Advances(w, x))
      BY <3>4 DEF EventsAreTrue, Advances, IsFound, HasKey
    <3>6. IsMatching(x) /\ x.pendingRecv = taken.pendingRecv
      BY <3>1, <3>4, MatchInLemma
    <3>7. /\ EventsAreTrue(P, x) /\ Advances(taken, x)
          /\ IsBetweenHosts(r.key) => IsFound(x, r.key) \/ HasKey(x.unMatchedInE, r.key)
      BY <3>1, <3>2, <3>3, <3>4, <3>5, MatchInTrue
    <3> QED
      BY <1>4, <2>1, <3>4, <3>5, <3>6, <3>7 DEF Processed, x, IsMatching
  <2> QED
    BY <2>3, <2>4
<1> QED
  BY <1>1, <1>2, <1>3, <1>4 DEF IsTrue

\* Reading the next record of a host keeps all that is true of its trace, of the
\* other traces and of the events that wait.
LEMMA ReadLemma ==
  ASSUME NEW P, NEW w, IsMatching(w), NEW rec, DOMAIN rec = Traces, NEW recvd,
         \A h \in Traces : recvd[h] = {},
         TracesAreTrue(P, rec, recvd, w), EventsAreTrue(P, w), NothingIsLeftOut(P, rec, recvd, w),
         \A k \in DOMAIN P.frames :
           P.frames[k].key # NotTcp => P.frames[k].key.saddr \in Traces /\ P.frames[k].key.daddr \in Traces,
         NEW t \in Traces, rec[t] # << >>, NEW exchanges,
         NEW x, x = processEvent(w, t, Head(rec[t]), exchanges),
         NEW left1, left1 = [rec EXCEPT ![t] = Tail(@)]
  PROVE  /\ IsMatching(x) /\ EventsAreTrue(P, x)
         /\ TracesAreTrue(P, left1, recvd, x) /\ NothingIsLeftOut(P, left1, recvd, x)
<1> DEFINE rs == rec[t]
           r == rs[1]
           pending == w.pendingRecv[t]
<1>1. RecordsAreTrue(P, t, rs, pending) /\ OnePerBuffer(pending)
  BY DEF TracesAreTrue
<1>2. IsList(rs) /\ Len(rs) \in Nat \ {0} /\ Head(rs) = r
  BY <1>1, TailLemma DEF RecordsAreTrue
<1>3. 1 \in 1 .. Len(rs) /\ 1 - 1 = 0
  BY <1>2
<1>4. /\ IsTrue(P, t, r)
      /\ r.name = "tcpv4_rcv_extended" => HasFrame(P, rs, pending, 0, r.skb, t, r.key)
  BY <1>1, <1>3 DEF RecordsAreTrue
<1>5. left1[t] = Tail(rs) /\ \A h \in Traces \ {t} : left1[h] = rec[h]
  OBVIOUS
<1>6. x = processEvent(w, t, r, exchanges)
  BY <1>2
<1> HIDE DEF r
<1>7. Processed(P, w, x, t, r)
  BY <1>1, <1>4, <1>6, ProcessLemma
<1>8. Leaves(r, pending, x.pendingRecv[t]) /\ \A h \in Traces \ {t} : x.pendingRecv[h] = w.pendingRecv[h]
  BY <1>7 DEF Processed
<1>9. RecordsAreTrue(P, t, Tail(rs), x.pendingRecv[t])
  BY <1>1, <1>8, RecordsTail DEF Leaves, r
<1>10. TracesAreTrue(P, left1, recvd, x)
  <2>1. SUFFICES ASSUME NEW h \in Traces
                 PROVE  /\ RecordsAreTrue(P, h, left1[h], x.pendingRecv[h])
                        /\ BuffersAreTrue(P, h, left1[h], x.pendingRecv[h], recvd[h])
                        /\ OnePerBuffer(x.pendingRecv[h])
    BY Zenon DEF TracesAreTrue
  <2>2. BuffersAreTrue(P, h, left1[h], x.pendingRecv[h], recvd[h])
    BY DEF BuffersAreTrue, OnePerBuffer
  <2>3. CASE h = t
    BY <1>5, <1>8, <1>9, <2>2, <2>3 DEF Leaves
  <2>4. CASE h # t
    BY <1>5, <1>8, <2>2, <2>4 DEF TracesAreTrue
  <2> QED
    BY <2>3, <2>4
<1>11. Advances(w, x)
  BY <1>7 DEF Processed
<1>12. ASSUME NEW h \in Traces, NEW name, NEW key, HasRecord(rec[h], name, key)
       PROVE  HasRecord(left1[h], name, key) \/ (r.name = name /\ r.key = key)
  BY <1>2, <1>5, <1>12, HasRecordTail DEF r
<1>13. NothingIsLeftOut(P, left1, recvd, x)
  <2>1. SUFFICES ASSUME P.lost = {}, NEW k \in DOMAIN P.frames, NEW key, key = P.frames[k].key,
                        IsBetweenHosts(key), ~ IsFound(x, key)
                 PROVE  IsOnItsWay(left1, recvd, x, P.frames[k])
    BY DEF NothingIsLeftOut, IsBetweenHosts
  <2>2. key.saddr \in Traces /\ key.daddr \in Traces
    BY <2>1 DEF IsBetweenHosts
  <2>3. ~ IsFound(w, key)
    BY <1>11, <2>1 DEF Advances
  <2>4. IsOnItsWay(rec, recvd, w, P.frames[k])
    BY <2>1, <2>3 DEF NothingIsLeftOut, IsBetweenHosts
  <2>5. HasRecord(left1[key.saddr], "dev_xmit_extended", key) \/ HasKey(x.unMatchedOutE, key)
    <3>1. HasKey(w.unMatchedOutE, key) => HasKey(x.unMatchedOutE, key)
      BY <1>11, <2>1 DEF Advances
    <3>2. r.name = "dev_xmit_extended" /\ r.key = key => HasKey(x.unMatchedOutE, key)
      BY <1>7, <2>1 DEF Processed
    <3> QED
      BY <1>12, <2>1, <2>2, <2>4, <3>1, <3>2 DEF IsOnItsWay
  <2>6. P.frames[k].arrived > 0 =>
          \/ HasRecord(left1[key.daddr], "tcpv4_rcv_extended", key)
          \/ HasKey(x.unMatchedInE, key) \/ HasKey(recvd[key.daddr], key)
    <3>1. HasKey(w.unMatchedInE, key) => HasKey(x.unMatchedInE, key)
      BY <1>11, <2>1 DEF Advances
    <3>2. r.name = "tcpv4_rcv_extended" /\ r.key = key => HasKey(x.unMatchedInE, key)
      BY <1>7, <2>1 DEF Processed
    <3> QED
      BY <1>12, <2>1, <2>2, <2>4, <3>1, <3>2 DEF IsOnItsWay
  <2> QED
    BY <2>1, <2>5, <2>6 DEF IsOnItsWay
<1> QED
  BY <1>7, <1>10, <1>13 DEF Processed

\* A set of numbers has a lowest one.
LEMMA LowestExists ==
  ASSUME NEW S \in SUBSET Nat, S # {}
  PROVE  \E m \in S : \A n \in S : m <= n
<1> DEFINE R == OpToRel(<, Nat)
<1>1. IsWellFoundedOn(R, Nat)
  BY NatLessThanWellFounded
<1>2. \A x, y \in Nat : <<y, x>> \in R <=> y < x
  BY DEF OpToRel
<1> HIDE DEF R
<1>3. PICK m \in S : \A n \in S : <<n, m>> \notin R
  BY <1>1, WFMin
<1>4. \A n \in S : ~(n < m)
  BY <1>2, <1>3
<1>5. \A n \in S : m <= n
  BY <1>4
<1> QED
  BY <1>5

\* There is a next record as long as records are left.
LEMMA NextTraceLemma ==
  ASSUME \A h \in Traces : records[h] # << >> => Head(records[h]).time \in Nat,
         \E h \in Traces : records[h] # << >>
  PROVE  NextTrace \in Traces /\ records[NextTrace] # << >>
<1> DEFINE ready == {h \in Traces : records[h] # << >>}
           First(h) == Head(records[h]).time
           earliest == {h \in ready : \A g \in ready : First(h) <= First(g)}
           times == {First(h) : h \in ready}
<1>1. times \in SUBSET Nat /\ times # {}
  OBVIOUS
<1>2. PICK m \in times : \A n \in times : m <= n
  BY <1>1, LowestExists
<1>3. PICK h \in ready : m = First(h)
  OBVIOUS
<1>4. h \in earliest
  BY <1>2, <1>3
<1>5. earliest \in SUBSET Nat /\ earliest # {}
  BY <1>4, ConvexHullAssumption DEF Traces
<1>6. PICK g \in earliest : \A f \in earliest : g <= f
  BY <1>5, LowestExists, Zenon
<1>7. NextTrace = Min(earliest)
  BY Zenon DEF NextTrace
<1>8. Min(earliest) \in earliest
  <2> HIDE DEF earliest
  <2> QED
    BY <1>6, Zenon DEF Min
<1> QED
  BY <1>7, <1>8

\* Reading a record keeps the invariant.
LEMMA ReadEventStep ==
  ASSUME MatchingInv, ReadEvent
  PROVE  MatchingInv'
<1> DEFINE t == NextTrace
           x == processEvent(s, t, Head(records[t]), traffic.exchanges)
           rest == [records EXCEPT ![t] = Tail(@)]
           P == Past
<1>1. NetworkInv /\ WireInv /\ IsMatching(s) /\ TracesAreTrue(P, records, received, s)
      /\ EventsAreTrue(P, s) /\ NothingIsLeftOut(P, records, received, s)
  BY DEF MatchingInv
<1>2. /\ phase = "reading" /\ s' = x /\ records' = rest /\ Past' = P
      /\ UNCHANGED <<traffic, now, wire, received, frames, lost, phase>>
  BY DEF ReadEvent, Past
<1>3. ASSUME NEW h \in Traces, records[h] # << >> PROVE Head(records[h]).time \in Nat
  <2>1. RecordsAreTrue(P, h, records[h], s.pendingRecv[h])
    BY <1>1 DEF TracesAreTrue
  <2>2. Len(records[h]) \in Nat \ {0} /\ Head(records[h]) = records[h][1]
    BY <1>3, <2>1, TailLemma DEF RecordsAreTrue
  <2>3. 1 \in 1 .. Len(records[h])
    BY <2>2
  <2> QED
    BY <2>1, <2>2, <2>3 DEF RecordsAreTrue, IsTrue
<1>4. t \in Traces /\ records[t] # << >>
  BY <1>3, NextTraceLemma DEF ReadEvent
<1>5. /\ DOMAIN records = Traces /\ DOMAIN received = Traces
      /\ \A h \in Traces : received[h] = {}
      /\ \A k \in DOMAIN P.frames :
           P.frames[k].key # NotTcp => P.frames[k].key.saddr \in Traces /\ P.frames[k].key.daddr \in Traces
  BY <1>1, <1>2 DEF NetworkInv, Past
<1> HIDE DEF t, P
<1>6. /\ IsMatching(x) /\ EventsAreTrue(P, x)
      /\ TracesAreTrue(P, rest, received, x) /\ NothingIsLeftOut(P, rest, received, x)
  BY <1>1, <1>4, <1>5, ReadLemma
<1>7. DOMAIN rest = Traces
  BY <1>5
<1> HIDE DEF x, rest
<1>8. NetworkInv'
  BY <1>1, <1>2, <1>7 DEF NetworkInv
<1>9. WireInv'
  BY <1>1, <1>2 DEF WireInv
<1>10. IsMatching(s)' /\ EventsAreTrue(Past, s)'
  BY <1>2, <1>6
<1>11. TracesAreTrue(Past, records, received, s)' /\ NothingIsLeftOut(Past, records, received, s)'
  BY <1>2, <1>6
<1> QED
  BY <1>8, <1>9, <1>10, <1>11 DEF MatchingInv

-----------------------------------------------------------------------------
(* Tracing: what a record of a host adds, if it is kept, and what its loss *)
(* leaves.                                                                 *)

IsRecorded(P, Q, rec, rec1, h, r) ==
  \/ rec1 = [rec EXCEPT ![h] = Append(@, r)] /\ Q.lost = P.lost
  \/ rec1 = rec /\ Q.lost = P.lost \cup {r.name}

\* A frame that is in the buffers of h after the record r was there before, or
\* came with the record.
CameWith(Q, h, r, f) ==
  /\ IsPut(r) /\ f.skb = r.skb
  /\ f.key # NotTcp /\ h = f.key.daddr /\ IsArrival(Q, h, r.time, f.key)

IsBuffered(Q, h, r, recvd, recvd1) ==
  /\ OnePerBuffer(recvd1[h])
  /\ \A f \in recvd1[h] : (f \in recvd[h] /\ ~ Uses(r, f.skb)) \/ CameWith(Q, h, r, f)
  /\ \A g \in Traces \ {h} : recvd1[g] = recvd[g]

LEMMA RecordedTracesTrue ==
  ASSUME NEW P, NEW Q, Continues(P, Q), NEW rec, DOMAIN rec = Traces, NEW recvd, NEW w,
         TracesAreTrue(P, rec, recvd, w),
         NEW h \in Traces, NEW r, IsTrue(Q, h, r),
         r.name = "tcpv4_rcv_extended" =>
           HasFrame(Q, rec[h], w.pendingRecv[h], Len(rec[h]), r.skb, h, r.key),
         NEW rec1, IsRecorded(P, Q, rec, rec1, h, r),
         NEW recvd1, IsBuffered(Q, h, r, recvd, recvd1)
  PROVE  TracesAreTrue(Q, rec1, recvd1, w)
<1> DEFINE pending == w.pendingRecv[h]
           rs == rec[h]
<1>1. TracesAreTrue(Q, rec, recvd, w)
  BY TracesKept DEF TracesAreTrue
<1>2. /\ RecordsAreTrue(Q, h, rs, pending) /\ BuffersAreTrue(Q, h, rs, pending, recvd[h])
      /\ OnePerBuffer(pending) /\ IsList(rs)
  BY <1>1 DEF TracesAreTrue, RecordsAreTrue
<1>3. \A g \in Traces \ {h} : rec1[g] = rec[g] /\ recvd1[g] = recvd[g]
  BY DEF IsRecorded, IsBuffered
<1>4. \A f \in recvd1[h] : f.key # NotTcp /\ h = f.key.daddr
  BY <1>2 DEF IsBuffered, BuffersAreTrue, CameWith
<1>5. CASE rec1 = [rec EXCEPT ![h] = Append(@, r)] /\ Q.lost = P.lost
  <2>1. rec1[h] = Append(rs, r)
    BY <1>5
  <2>2. RecordsAreTrue(Q, h, Append(rs, r), pending)
    BY <1>2, RecordsAppend
  <2>3. ASSUME NEW f \in recvd1[h]
        PROVE  HasFrame(Q, Append(rs, r), pending, Len(Append(rs, r)), f.skb, h, f.key)
    <3>1. Len(Append(rs, r)) = Len(rs) + 1
      BY <1>2, AppendedLemma
    <3>2. CASE f \in recvd[h] /\ ~ Uses(r, f.skb)
      <4>1. HasFrame(Q, rs, pending, Len(rs), f.skb, h, f.key)
        BY <1>2, <3>2 DEF BuffersAreTrue
      <4> QED
        BY <1>2, <3>1, <3>2, <4>1, InBufferAppend DEF HasFrame
    <3>3. CASE CameWith(Q, h, r, f)
      <4>1. IsArrival(Q, h, r.time, f.key) /\ IsPut(r) /\ r.skb = f.skb
        BY <3>3 DEF CameWith
      <4>2. InBuffer(Append(rs, r), pending, Len(rs) + 1, f.skb, r.time)
        BY <1>2, <4>1, InBufferAppend
      <4> QED
        BY <3>1, <4>1, <4>2 DEF HasFrame
    <3> QED
      BY <3>2, <3>3 DEF IsBuffered
  <2>4. BuffersAreTrue(Q, h, Append(rs, r), pending, recvd1[h])
    BY <1>4, <2>3 DEF BuffersAreTrue, IsBuffered
  <2>5. ASSUME NEW g \in Traces
        PROVE  /\ RecordsAreTrue(Q, g, rec1[g], w.pendingRecv[g])
               /\ BuffersAreTrue(Q, g, rec1[g], w.pendingRecv[g], recvd1[g])
               /\ OnePerBuffer(w.pendingRecv[g])
    <3>1. CASE g = h
      BY <1>2, <2>1, <2>2, <2>4, <3>1
    <3>2. CASE g # h
      BY <1>1, <1>3, <3>2 DEF TracesAreTrue
    <3> QED
      BY <3>1, <3>2
  <2> QED
    BY <2>5, Zenon DEF TracesAreTrue
<1>6. CASE rec1 = rec /\ Q.lost = P.lost \cup {r.name}
  <2>1. ASSUME NEW f \in recvd1[h]
        PROVE  HasFrame(Q, rs, pending, Len(rs), f.skb, h, f.key)
    BY <1>2, <1>6 DEF IsBuffered, BuffersAreTrue, CameWith, HasFrame, IsPut
  <2>2. BuffersAreTrue(Q, h, rs, pending, recvd1[h])
    BY <1>4, <2>1 DEF BuffersAreTrue, IsBuffered
  <2>3. ASSUME NEW g \in Traces
        PROVE  /\ RecordsAreTrue(Q, g, rec1[g], w.pendingRecv[g])
               /\ BuffersAreTrue(Q, g, rec1[g], w.pendingRecv[g], recvd1[g])
               /\ OnePerBuffer(w.pendingRecv[g])
    <3>1. CASE g = h
      BY <1>2, <1>6, <2>2, <3>1
    <3>2. CASE g # h
      BY <1>1, <1>3, <3>2 DEF TracesAreTrue
    <3> QED
      BY <3>1, <3>2
  <2> QED
    BY <2>3, Zenon DEF TracesAreTrue
<1> QED
  BY <1>5, <1>6 DEF IsRecorded

\* A frame of Q was one of P, which may have arrived since, or is sent with r.
IsFrameOf(P, Q, h, r, recvd1, k) ==
  LET key == Q.frames[k].key IN
  \/ /\ k \in DOMAIN P.frames
     /\ Q.frames[k].arrived > 0 => P.frames[k].arrived > 0 \/ HasKey(recvd1[key.daddr], key)
  \/ /\ r.name = "dev_xmit_extended" /\ r.key = key /\ h = key.saddr
     /\ Q.frames[k].arrived = 0

FramesAreOf(P, Q, h, r, recvd1) ==
  \A k \in DOMAIN Q.frames :
    Q.frames[k].key # NotTcp =>
      /\ Q.frames[k].key.saddr \in Traces /\ Q.frames[k].key.daddr \in Traces
      /\ IsFrameOf(P, Q, h, r, recvd1, k)

\* What leaves the buffers of a host leaves a record.
LeavesRecord(recvd, recvd1, h, r) ==
  \A g \in Traces : \A key : HasKey(recvd[g], key) =>
    HasKey(recvd1[g], key) \/ (g = h /\ r.name = "tcpv4_rcv_extended" /\ r.key = key)

LEMMA RecordedNothingLeftOut ==
  ASSUME NEW P, NEW Q, Continues(P, Q), NEW rec, DOMAIN rec = Traces, NEW recvd, NEW w,
         NothingIsLeftOut(P, rec, recvd, w),
         \A g \in Traces : IsList(rec[g]),
         NEW h \in Traces, NEW r,
         NEW rec1, IsRecorded(P, Q, rec, rec1, h, r), NEW recvd1,
         FramesAreOf(P, Q, h, r, recvd1), LeavesRecord(recvd, recvd1, h, r)
  PROVE  NothingIsLeftOut(Q, rec1, recvd1, w)
<1>1. SUFFICES ASSUME Q.lost = {}, NEW k \in DOMAIN Q.frames, NEW key, key = Q.frames[k].key,
                      key # NotTcp, key.saddr # key.daddr, ~ IsFound(w, key)
               PROVE  IsOnItsWay(rec1, recvd1, w, Q.frames[k])
  BY DEF NothingIsLeftOut
<1>2. rec1 = [rec EXCEPT ![h] = Append(@, r)] /\ P.lost = {}
  BY <1>1 DEF IsRecorded
<1>3. ASSUME NEW g \in Traces, NEW name, NEW c,
             HasRecord(rec[g], name, c) \/ (g = h /\ r.name = name /\ r.key = c)
      PROVE  HasRecord(rec1[g], name, c)
  <2>1. CASE g = h
    <3>1. rec1[g] = Append(rec[g], r) /\ IsList(rec[g])
      BY <1>2, <2>1
    <3>2. HasRecord(rec[g], name, c) \/ (r.name = name /\ r.key = c)
      BY <1>3
    <3> QED
      BY <3>1, <3>2, HasRecordAppend
  <2>2. CASE g # h
    BY <1>2, <1>3, <2>2
  <2> QED
    BY <2>1, <2>2
<1>4. key.saddr \in Traces /\ key.daddr \in Traces /\ IsFrameOf(P, Q, h, r, recvd1, k)
  BY <1>1 DEF FramesAreOf
<1>5. CASE k \in DOMAIN P.frames /\
             (Q.frames[k].arrived > 0 => P.frames[k].arrived > 0 \/ HasKey(recvd1[key.daddr], key))
  <2>1. P.frames[k].key = key
    BY <1>1, <1>5 DEF Continues
  <2>2. IsOnItsWay(rec, recvd, w, P.frames[k])
    BY <1>1, <1>2, <1>5, <2>1 DEF NothingIsLeftOut
  <2>3. HasRecord(rec1[key.saddr], "dev_xmit_extended", key) \/ HasKey(w.unMatchedOutE, key)
    BY <1>3, <1>4, <2>1, <2>2 DEF IsOnItsWay
  <2>4. Q.frames[k].arrived > 0 =>
          \/ HasRecord(rec1[key.daddr], "tcpv4_rcv_extended", key)
          \/ HasKey(w.unMatchedInE, key) \/ HasKey(recvd1[key.daddr], key)
    BY <1>3, <1>4, <1>5, <2>1, <2>2 DEF IsOnItsWay, LeavesRecord
  <2> QED
    BY <1>1, <2>3, <2>4 DEF IsOnItsWay
<1>6. CASE /\ r.name = "dev_xmit_extended" /\ r.key = key /\ h = key.saddr
           /\ Q.frames[k].arrived = 0
  BY <1>1, <1>3, <1>4, <1>6 DEF IsOnItsWay
<1> QED
  BY <1>1, <1>4, <1>5, <1>6 DEF IsFrameOf

-----------------------------------------------------------------------------
(* The steps of tracing.                                                   *)

\* A record made in a state P and a state Q after it: what is new in Q is true.
IsNews(P, Q, rec, recvd, recvd1, w, h, r) ==
  /\ Continues(P, Q) /\ IsTrue(Q, h, r)
  /\ r.name = "tcpv4_rcv_extended" =>
       HasFrame(Q, rec[h], w.pendingRecv[h], Len(rec[h]), r.skb, h, r.key)
  /\ IsBuffered(Q, h, r, recvd, recvd1)
  /\ FramesAreOf(P, Q, h, r, recvd1) /\ LeavesRecord(recvd, recvd1, h, r)

LEMMA NewsKept ==
  ASSUME NEW P, NEW Q, NEW rec, DOMAIN rec = Traces, NEW recvd, NEW recvd1, NEW w,
         TracesAreTrue(P, rec, recvd, w), EventsAreTrue(P, w), NothingIsLeftOut(P, rec, recvd, w),
         NEW h \in Traces, NEW r, IsNews(P, Q, rec, recvd, recvd1, w, h, r),
         NEW rec1, IsRecorded(P, Q, rec, rec1, h, r)
  PROVE  /\ TracesAreTrue(Q, rec1, recvd1, w) /\ EventsAreTrue(Q, w)
         /\ NothingIsLeftOut(Q, rec1, recvd1, w) /\ DOMAIN rec1 = Traces
<1>1. Continues(P, Q) /\ IsTrue(Q, h, r) /\ IsBuffered(Q, h, r, recvd, recvd1)
  BY DEF IsNews
<1>2. r.name = "tcpv4_rcv_extended" =>
        HasFrame(Q, rec[h], w.pendingRecv[h], Len(rec[h]), r.skb, h, r.key)
  BY DEF IsNews
<1>3. TracesAreTrue(Q, rec1, recvd1, w)
  BY <1>1, <1>2, RecordedTracesTrue
<1>4. EventsAreTrue(Q, w)
  BY <1>1, TracesKept
<1>5. \A g \in Traces : IsList(rec[g])
  BY DEF TracesAreTrue, RecordsAreTrue
<1>6. NothingIsLeftOut(Q, rec1, recvd1, w)
  BY <1>1, <1>5, RecordedNothingLeftOut DEF IsNews
<1>7. DOMAIN rec1 = Traces
  BY DEF IsRecorded
<1> QED
  BY <1>3, <1>4, <1>6, <1>7

LEMMA RecordingStep ==
  ASSUME MatchingInv, NEW h \in Traces, NEW r, Recorded(h, r), s' = s,
         IsNews(Past, Past', records, received, received', s, h, r), NetworkInv', WireInv'
  PROVE  MatchingInv'
<1> DEFINE P == Past
           Q == Past'
           rec1 == records'
           recvd1 == received'
<1>1. /\ IsMatching(s) /\ DOMAIN records = Traces
      /\ TracesAreTrue(P, records, received, s)
      /\ EventsAreTrue(P, s) /\ NothingIsLeftOut(P, records, received, s)
  BY DEF MatchingInv, NetworkInv
<1>2. IsRecorded(P, Q, records, rec1, h, r)
  BY DEF Recorded, IsRecorded, Past
<1>3. IsNews(P, Q, records, received, recvd1, s, h, r)
  OBVIOUS
<1> HIDE DEF P, Q, rec1, recvd1
<1>4. /\ TracesAreTrue(Q, rec1, recvd1, s) /\ EventsAreTrue(Q, s)
      /\ NothingIsLeftOut(Q, rec1, recvd1, s)
  BY <1>1, <1>2, <1>3, NewsKept
<1>5. TracesAreTrue(Past, records, received, s)'
  BY <1>4 DEF Q, rec1, recvd1
<1>6. EventsAreTrue(Past, s)' /\ NothingIsLeftOut(Past, records, received, s)' /\ IsMatching(s)'
  BY <1>1, <1>4 DEF Q, rec1, recvd1
<1> QED
  BY <1>5, <1>6 DEF MatchingInv

LEMMA ClockLemma ==
  ASSUME NetworkInv, NEW h \in Traces
  PROVE  Clock(h) \in Nat /\ Clock(h) = Told(Past, h, now)
<1>1. traffic.start \in [Traces -> Nat] /\ traffic.rate \in [Traces -> Nat \ {0}] /\ now \in Nat
  BY DEF NetworkInv, Traffic
<1>2. traffic.start[h] \in Nat /\ traffic.rate[h] \in Nat
  BY <1>1
<1>3. traffic.rate[h] * now \in Nat
  BY <1>1, <1>2
<1> QED
  BY <1>2, <1>3 DEF Clock, Told, Past

LEMMA TransmitStep ==
  ASSUME MatchingInv, NEW from \in Traces, NEW to \in Traces, NEW key,
         key # NotTcp => key.saddr = from /\ key.daddr = to,
         Transmit(from, to, key), UNCHANGED <<traffic, received, phase, s>>, phase = "tracing"
  PROVE  MatchingInv'
<1> DEFINE frame == [number |-> Len(frames) + 1, from |-> from, to |-> to, key |-> key]
           sent == [key |-> key, sent |-> now, arrived |-> 0]
           r == [name |-> "dev_xmit_extended", key |-> key, skb |-> None, time |-> Clock(from)]
           n == Len(frames)
           P == Past
           Q == Past'
<1>1. /\ NetworkInv /\ WireInv /\ now' = now + 1 /\ wire' = wire \cup {frame}
      /\ frames' = Append(frames, sent) /\ Recorded(from, r)
  BY Zenon DEF MatchingInv, Transmit
<1>2. /\ frame.number = n + 1 /\ frame.to = to /\ frame.key = key
      /\ DOMAIN sent = {"key", "sent", "arrived"}
      /\ sent.key = key /\ sent.sent = now /\ sent.arrived = 0
      /\ r.name = "dev_xmit_extended" /\ r.key = key /\ r.time = Clock(from)
  OBVIOUS
<1>3. IsList(frames) /\ now \in Nat /\ DOMAIN records = Traces
  BY <1>1 DEF NetworkInv
<1> HIDE DEF frame, sent, r, n, P, Q
<1>4. /\ IsList(frames') /\ n \in Nat /\ DOMAIN frames = 1 .. n /\ DOMAIN frames' = 1 .. n + 1
      /\ \A k \in 1 .. n : frames'[k] = frames[k]
      /\ frames'[n + 1] = sent
  BY <1>1, <1>3, AppendedLemma DEF n
<1>5. \A k \in DOMAIN frames' : (k \in DOMAIN frames /\ frames'[k] = frames[k]) \/ k = n + 1
  BY <1>4
<1>6. n + 1 \in DOMAIN frames' /\ n + 1 \notin DOMAIN frames /\ DOMAIN frames \subseteq DOMAIN frames'
  BY <1>4
<1>7. /\ P.frames = frames /\ Q.frames = frames' /\ P.traffic = traffic /\ Q.traffic = traffic
      /\ P.lost = lost /\ Q.lost = lost' /\ lost \subseteq lost'
  BY <1>1 DEF P, Q, Past, Recorded
<1>8. Clock(from) \in Nat /\ Clock(from) = Told(Q, from, now)
  BY <1>1, <1>7, ClockLemma DEF Told, Past
<1>9. Continues(P, Q)
  BY <1>4, <1>6, <1>7 DEF Continues
<1>10. IsTrue(Q, from, r)
  BY <1>2, <1>4, <1>6, <1>7, <1>8 DEF IsTrue, IsSent
<1>11. NetworkInv'
  <2>1. \A k \in DOMAIN frames' :
          /\ DOMAIN frames'[k] = {"key", "sent", "arrived"}
          /\ frames'[k].key # NotTcp => frames'[k].key.saddr \in Traces /\ frames'[k].key.daddr \in Traces
    BY <1>1, <1>2, <1>4, <1>5 DEF NetworkInv
  <2>2. DOMAIN records' = Traces
    BY <1>1, <1>3 DEF Recorded
  <2> QED
    BY <1>1, <1>3, <1>4, <2>1, <2>2 DEF NetworkInv
<1>12. WireInv'
  <2>1. \A f \in wire : f.number \in DOMAIN frames /\ f.number # n + 1
    BY <1>1, <1>6 DEF WireInv
  <2>2. ASSUME NEW f \in wire'
        PROVE  /\ f.number \in DOMAIN frames' /\ f.to \in Traces
               /\ frames'[f.number].key = f.key /\ frames'[f.number].arrived = 0
               /\ f.key # NotTcp => f.to = f.key.daddr
    <3>1. CASE f \in wire
      BY <1>1, <1>4, <2>1, <1>6, <3>1 DEF WireInv
    <3>2. CASE f = frame
      BY <1>2, <1>4, <1>6, <3>2
    <3> QED
      BY <1>1, <3>1, <3>2
  <2>3. \A f, g \in wire' : f.number = g.number => f = g
    BY <1>1, <1>2, <2>1 DEF WireInv
  <2> QED
    BY <2>2, <2>3 DEF WireInv
<1>13. IsBuffered(Q, from, r, received, received')
  <2>1. OnePerBuffer(received[from])
    BY <1>1 DEF MatchingInv, TracesAreTrue, BuffersAreTrue
  <2> QED
    BY <1>2, <2>1 DEF IsBuffered, Uses
<1>14. ASSUME NEW k \in DOMAIN Q.frames, Q.frames[k].key # NotTcp
       PROVE  /\ Q.frames[k].key.saddr \in Traces /\ Q.frames[k].key.daddr \in Traces
              /\ IsFrameOf(P, Q, from, r, received', k)
  <2>1. Q.frames[k].key.saddr \in Traces /\ Q.frames[k].key.daddr \in Traces
    BY <1>7, <1>11, <1>14 DEF NetworkInv
  <2>2. IsFrameOf(P, Q, from, r, received', k)
    BY <1>2, <1>4, <1>5, <1>7, <1>14 DEF IsFrameOf
  <2> QED
    BY <2>1, <2>2
<1>15. FramesAreOf(P, Q, from, r, received')
  BY <1>14 DEF FramesAreOf
<1>16. LeavesRecord(received, received', from, r)
  BY DEF LeavesRecord
<1>17. IsNews(P, Q, records, received, received', s, from, r)
  BY <1>2, <1>9, <1>10, <1>13, <1>15, <1>16 DEF IsNews
<1> QED
  BY <1>1, <1>11, <1>12, <1>17, RecordingStep DEF P, Q

LEMMA ReceiveStep ==
  ASSUME MatchingInv, NEW frame \in wire, NEW skb, NEW protocol, Receive(frame, skb, protocol)
  PROVE  MatchingInv'
<1> DEFINE h == frame.to
           n == frame.number
           arrived == [frames[n] EXCEPT !.arrived = now]
           r == [name |-> "dev_receive", protocol |-> protocol, skb |-> skb, time |-> Clock(h)]
           new == [skb |-> skb, key |-> frame.key]
           P == Past
           Q == Past'
<1>1. /\ NetworkInv /\ WireInv /\ phase = "tracing" /\ now' = now + 1 /\ wire' = wire \ {frame}
      /\ \A f \in received[h] : f.skb # skb
      /\ frame.key # NotTcp => protocol = ETH_P_IP
      /\ received' = IF frame.key = NotTcp THEN received
                     ELSE [received EXCEPT ![h] = @ \cup {new}]
      /\ Recorded(h, r) /\ UNCHANGED <<traffic, phase, s>>
  BY Zenon DEF MatchingInv, Receive
<1>2. frames' = [frames EXCEPT ![n].arrived = now]
  BY DEF Receive
<1>3. /\ r.name = "dev_receive" /\ r.protocol = protocol /\ r.skb = skb /\ r.time = Clock(h)
      /\ new.skb = skb /\ new.key = frame.key
  OBVIOUS
<1>4. /\ n \in DOMAIN frames /\ h \in Traces /\ frames[n].key = frame.key /\ frames[n].arrived = 0
      /\ frame.key # NotTcp => h = frame.key.daddr
  BY <1>1 DEF WireInv
<1>5. /\ IsList(frames) /\ now \in Nat /\ now > 0
      /\ DOMAIN records = Traces /\ DOMAIN received = Traces
      /\ DOMAIN frames[n] = {"key", "sent", "arrived"}
  BY <1>1, <1>4 DEF NetworkInv
<1>6. arrived.key = frames[n].key /\ arrived.sent = frames[n].sent /\ arrived.arrived = now
      /\ DOMAIN arrived = {"key", "sent", "arrived"}
  BY <1>5
<1>7. frames' = [frames EXCEPT ![n] = arrived]
  BY <1>2
<1> HIDE DEF h, arrived, n, r, new, P, Q
<1>8. IsList(frames') /\ DOMAIN frames' = DOMAIN frames /\ frames'[n] = arrived
      /\ \A k \in DOMAIN frames : k # n => frames'[k] = frames[k]
  <2>1. PICK S : frames \in Seq(S)
    BY <1>5 DEF IsList
  <2>2. frames \in Seq(S \cup {arrived}) /\ n \in 1 .. Len(frames) /\ arrived \in S \cup {arrived}
    BY <1>4, <2>1
  <2>3. frames' \in Seq(S \cup {arrived})
    BY <1>7, <2>2, ExceptSeq
  <2> QED
    BY <1>4, <1>7, <2>3 DEF IsList
<1>9. /\ P.frames = frames /\ Q.frames = frames' /\ P.traffic = traffic /\ Q.traffic = traffic
      /\ P.lost = lost /\ Q.lost = lost' /\ lost \subseteq lost'
  BY <1>1 DEF P, Q, Past, Recorded
<1>10. Clock(h) \in Nat /\ Clock(h) = Told(Q, h, now)
  BY <1>1, <1>4, <1>9, ClockLemma DEF Told, Past
<1>11. Continues(P, Q)
  BY <1>4, <1>6, <1>8, <1>9 DEF Continues
<1>12. IsTrue(Q, h, r)
  BY <1>3, <1>10 DEF IsTrue
<1>13. NetworkInv'
  <2>1. \A k \in DOMAIN frames' :
          /\ DOMAIN frames'[k] = {"key", "sent", "arrived"}
          /\ frames'[k].key # NotTcp => frames'[k].key.saddr \in Traces /\ frames'[k].key.daddr \in Traces
    BY <1>1, <1>6, <1>8 DEF NetworkInv
  <2>2. DOMAIN records' = Traces /\ DOMAIN received' = Traces
    BY <1>1, <1>5 DEF Recorded
  <2> QED
    BY <1>1, <1>5, <1>8, <2>1, <2>2 DEF NetworkInv
<1>14. WireInv'
  <2>1. \A f \in wire' : f \in wire /\ f.number # n
    BY <1>1 DEF WireInv, n
  <2>2. \A f \in wire' : f.number \in DOMAIN frames /\ frames'[f.number] = frames[f.number]
    BY <1>1, <1>8, <2>1 DEF WireInv
  <2> QED
    BY <1>1, <1>8, <2>1, <2>2 DEF WireInv
<1>15. IsBuffered(Q, h, r, received, received')
  <2>1. OnePerBuffer(received[h])
    BY <1>1, <1>4 DEF MatchingInv, TracesAreTrue, BuffersAreTrue
  <2>2. frame.key # NotTcp => CameWith(Q, h, r, new)
    BY <1>1, <1>3, <1>4, <1>5, <1>6, <1>8, <1>9, <1>10 DEF CameWith, IsArrival, IsPut
  <2>3. \A f \in received[h] : ~ Uses(r, f.skb)
    BY <1>1, <1>3 DEF Uses
  <2>4. CASE frame.key = NotTcp
    BY <1>1, <2>1, <2>3, <2>4 DEF IsBuffered
  <2>5. CASE frame.key # NotTcp
    <3>1. received'[h] = received[h] \cup {new} /\ \A g \in Traces \ {h} : received'[g] = received[g]
      BY <1>1, <1>4, <1>5, <2>5
    <3>2. OnePerBuffer(received'[h])
      BY <1>1, <1>3, <2>1, <3>1 DEF OnePerBuffer
    <3> QED
      BY <2>2, <2>3, <2>5, <3>1, <3>2 DEF IsBuffered
  <2> QED
    BY <2>4, <2>5
<1>16. \A g \in Traces : \A key : HasKey(received[g], key) => HasKey(received'[g], key)
  <2>1. \A g \in Traces : received[g] \subseteq received'[g]
    BY <1>1, <1>4, <1>5
  <2> QED
    BY <2>1 DEF HasKey
<1>17. FramesAreOf(P, Q, h, r, received')
  <2>1. SUFFICES ASSUME NEW k \in DOMAIN Q.frames, Q.frames[k].key # NotTcp
                 PROVE  /\ Q.frames[k].key.saddr \in Traces /\ Q.frames[k].key.daddr \in Traces
                        /\ IsFrameOf(P, Q, h, r, received', k)
    BY DEF FramesAreOf
  <2>2. Q.frames[k].key.saddr \in Traces /\ Q.frames[k].key.daddr \in Traces
    BY <1>9, <1>13, <2>1 DEF NetworkInv
  <2>3. CASE k = n
    <3>1. Q.frames[k].key = frame.key /\ frame.key # NotTcp /\ h = frame.key.daddr
      BY <1>4, <1>6, <1>8, <1>9, <2>1, <2>3
    <3>2. HasKey(received'[h], frame.key)
      <4>1. new \in received'[h]
        BY <1>1, <1>4, <1>5, <3>1
      <4> QED
        BY <1>3, <4>1 DEF HasKey
    <3> QED
      BY <1>8, <1>9, <2>2, <3>1, <3>2 DEF IsFrameOf
  <2>4. CASE k # n
    BY <1>8, <1>9, <2>2, <2>4 DEF IsFrameOf
  <2> QED
    BY <2>3, <2>4
<1>18. LeavesRecord(received, received', h, r)
  BY <1>16 DEF LeavesRecord
<1>19. IsNews(P, Q, records, received, received', s, h, r)
  BY <1>3, <1>11, <1>12, <1>15, <1>17, <1>18 DEF IsNews
<1> QED
  BY <1>1, <1>4, <1>13, <1>14, <1>19, RecordingStep DEF P, Q

LEMMA ReceiveSegmentStep ==
  ASSUME MatchingInv, NEW h \in Traces, NEW f \in received[h], ReceiveSegment(h, f)
  PROVE  MatchingInv'
<1> DEFINE r == [name |-> "tcpv4_rcv_extended", key |-> f.key, skb |-> f.skb, time |-> Clock(h)]
           P == Past
           Q == Past'
<1>1. /\ NetworkInv /\ WireInv /\ phase = "tracing"
      /\ received' = [received EXCEPT ![h] = @ \ {f}]
      /\ Recorded(h, r) /\ UNCHANGED <<traffic, now, wire, frames, phase, s>>
  BY Zenon DEF MatchingInv, ReceiveSegment
<1>2. r.name = "tcpv4_rcv_extended" /\ r.key = f.key /\ r.skb = f.skb /\ r.time = Clock(h)
  OBVIOUS
<1> HIDE DEF r, P, Q
<1>3. /\ P.frames = frames /\ Q.frames = frames /\ P.traffic = traffic /\ Q.traffic = traffic
      /\ P.lost = lost /\ Q.lost = lost' /\ lost \subseteq lost'
  BY <1>1 DEF P, Q, Past, Recorded
<1>4. Continues(P, Q)
  BY <1>3 DEF Continues
<1>5. /\ DOMAIN records = Traces /\ DOMAIN received = Traces
      /\ received'[h] = received[h] \ {f} /\ \A g \in Traces \ {h} : received'[g] = received[g]
  BY <1>1 DEF NetworkInv
<1>6. BuffersAreTrue(P, h, records[h], s.pendingRecv[h], received[h])
  BY DEF MatchingInv, TracesAreTrue, P
<1>7. /\ OnePerBuffer(received[h]) /\ f.key # NotTcp /\ h = f.key.daddr
      /\ HasFrame(P, records[h], s.pendingRecv[h], Len(records[h]), f.skb, h, f.key)
  BY <1>6 DEF BuffersAreTrue
<1>8. HasFrame(Q, records[h], s.pendingRecv[h], Len(records[h]), r.skb, h, r.key)
  BY <1>2, <1>4, <1>7, PastKept
<1>9. IsTrue(Q, h, r)
  BY <1>1, <1>2, <1>7, ClockLemma DEF IsTrue
<1>10. IsBuffered(Q, h, r, received, received')
  BY <1>2, <1>5, <1>7 DEF IsBuffered, OnePerBuffer, Uses
<1>11. LeavesRecord(received, received', h, r)
  BY <1>2, <1>5 DEF LeavesRecord, HasKey
<1>12. FramesAreOf(P, Q, h, r, received')
  BY <1>1, <1>3 DEF FramesAreOf, IsFrameOf, NetworkInv
<1>13. IsNews(P, Q, records, received, received', s, h, r)
  BY <1>4, <1>8, <1>9, <1>10, <1>11, <1>12 DEF IsNews
<1>14. NetworkInv'
  <2>1. DOMAIN records' = Traces /\ DOMAIN received' = Traces
    BY <1>1, <1>5 DEF Recorded
  <2> QED
    BY <1>1, <2>1 DEF NetworkInv
<1>15. WireInv'
  BY <1>1 DEF WireInv
<1> QED
  BY <1>1, <1>13, <1>14, <1>15, RecordingStep DEF P, Q

LEMMA QuietStep ==
  ASSUME MatchingInv, UNCHANGED <<traffic, received, frames, records, lost, s>>,
         wire' \subseteq wire, now' \in {now, now + 1},
         \/ phase' = phase
         \/ phase' = "reading" /\ \A h \in Traces : received[h] = {}
         \/ phase = "reading" /\ phase' = "synchronized" /\ \A h \in Traces : records[h] = << >>
  PROVE  MatchingInv'
<1>1. NetworkInv /\ WireInv
  BY DEF MatchingInv
<1>2. NetworkInv'
  <2>1. now' \in Nat /\ (now > 0 => now' > 0)
    BY <1>1 DEF NetworkInv
  <2> QED
    BY <1>1, <2>1 DEF NetworkInv
<1>3. WireInv'
  BY <1>1 DEF WireInv
<1>4. Past' = Past
  BY DEF Past
<1>5. TracesAreTrue(Past, records, received, s)' /\ EventsAreTrue(Past, s)'
  BY <1>4 DEF MatchingInv
<1>6. NothingIsLeftOut(Past, records, received, s)' /\ IsMatching(s)'
  BY <1>4 DEF MatchingInv
<1> QED
  BY <1>2, <1>3, <1>5, <1>6 DEF MatchingInv

LEMMA NextMatchingInv ==
  ASSUME MatchingInv, [Next]_vars
  PROVE  MatchingInv'
<1>1. ASSUME NEW h \in Traces, NEW g \in Traces, NEW len \in traffic.lens, Send(h, g, len)
      PROVE  MatchingInv'
  <2> DEFINE key == Segment(h, g, tcp[<<h, g>>].snd_nxt, len)
  <2>1. key.saddr = h /\ key.daddr = g
    BY DEF Segment
  <2> HIDE DEF key
  <2>2. /\ Transmit(h, g, key) /\ phase = "tracing"
        /\ UNCHANGED <<traffic, received, phase, s>>
    BY <1>1 DEF Send, Sending, key
  <2> QED
    BY <2>1, <2>2, TransmitStep
<1>2. ASSUME NEW h \in Traces, NEW g \in Traces, Retransmit(h, g)
      PROVE  MatchingInv'
  <2>1. PICK k \in DOMAIN frames : Transmit(h, g, Segment(h, g, frames[k].key.seq, 1))
    BY <1>2 DEF Retransmit
  <2> DEFINE key == Segment(h, g, frames[k].key.seq, 1)
  <2>2. key.saddr = h /\ key.daddr = g
    BY DEF Segment
  <2>3. Transmit(h, g, key)
    BY <2>1
  <2> HIDE DEF key
  <2>4. phase = "tracing" /\ UNCHANGED <<traffic, received, phase, s>>
    BY <1>2 DEF Retransmit, Sending
  <2> QED
    BY <2>2, <2>3, <2>4, TransmitStep
<1>3. ASSUME NEW h \in Traces, NEW g \in Traces, SendOther(h, g)
      PROVE  MatchingInv'
  <2>1. /\ Transmit(h, g, NotTcp) /\ phase = "tracing"
        /\ UNCHANGED <<traffic, received, phase, s>>
    BY <1>3 DEF SendOther, Sending
  <2> QED
    BY <2>1, TransmitStep
<1>4. ASSUME NEW frame \in wire, Lose(frame)
      PROVE  MatchingInv'
  BY <1>4, QuietStep DEF Lose
<1>5. ASSUME NEW frame \in wire, NEW skb \in traffic.skbs, NEW protocol \in Protocols,
             Receive(frame, skb, protocol)
      PROVE  MatchingInv'
  BY <1>5, ReceiveStep
<1>6. ASSUME NEW h \in Traces, NEW f \in received[h], ReceiveSegment(h, f)
      PROVE  MatchingInv'
  BY <1>6, ReceiveSegmentStep
<1>7. CASE Idle
  BY <1>7, QuietStep DEF Idle
<1>8. CASE StartReading
  BY <1>8, QuietStep DEF StartReading, network
<1>9. CASE ReadEvent
  BY <1>9, ReadEventStep
<1>10. CASE Finalize
  BY <1>10, QuietStep DEF Finalize, network
<1>11. CASE UNCHANGED vars
  BY <1>11, QuietStep DEF vars
<1> QED
  BY <1>1, <1>2, <1>3, <1>4, <1>5, <1>6, <1>7, <1>8, <1>9, <1>10, <1>11 DEF Next

LEMMA InitMatchingInv ==
  ASSUME Init
  PROVE  MatchingInv
<1>1. traffic \in Traffic
  BY SynchronizationAssumption DEF Init
<1>2. /\ now = 0 /\ phase = "tracing" /\ frames = << >> /\ wire = {}
      /\ records = [h \in Traces |-> << >>] /\ received = [h \in Traces |-> {}]
      /\ s = [InitialState EXCEPT !.hulls = traffic.hulls]
  BY DEF Init
<1>3. IsList(<< >>) /\ Len(<< >>) = 0 /\ DOMAIN << >> = {}
  <2>1. << >> \in Seq({})
    OBVIOUS
  <2> QED
    BY <2>1 DEF IsList
<1>4. NetworkInv /\ WireInv
  <2>1. NetworkInv
    BY <1>1, <1>2, <1>3 DEF NetworkInv
  <2> QED
    BY <1>2, <2>1 DEF WireInv
<1>5. /\ IsMatching(s) /\ s.unMatchedOutE = {} /\ s.unMatchedInE = {} /\ s.messages = {}
      /\ \A h \in Traces : s.pendingRecv[h] = {}
  BY <1>2 DEF InitialState, IsMatching
<1>6. TracesAreTrue(Past, records, received, s)
  <2>1. SUFFICES ASSUME NEW h \in Traces
                 PROVE  /\ RecordsAreTrue(Past, h, records[h], s.pendingRecv[h])
                        /\ BuffersAreTrue(Past, h, records[h], s.pendingRecv[h], received[h])
                        /\ OnePerBuffer(s.pendingRecv[h])
    BY Zenon DEF TracesAreTrue
  <2>2. records[h] = << >> /\ received[h] = {} /\ s.pendingRecv[h] = {}
    BY <1>2, <1>5
  <2>3. RecordsAreTrue(Past, h, records[h], s.pendingRecv[h])
    BY <1>3, <2>2 DEF RecordsAreTrue
  <2> QED
    BY <2>2, <2>3 DEF BuffersAreTrue, OnePerBuffer
<1>7. EventsAreTrue(Past, s)
  BY <1>5 DEF EventsAreTrue
<1>8. NothingIsLeftOut(Past, records, received, s)
  BY <1>2, <1>3 DEF NothingIsLeftOut, Past
<1> QED
  BY <1>4, <1>5, <1>6, <1>7, <1>8 DEF MatchingInv

-----------------------------------------------------------------------------
(* What the invariant says of the messages.                                *)

LEMMA SentOnceLemma ==
  ASSUME NetworkInv, NEW key, SentOnce(key),
         NEW k \in DOMAIN frames, frames[k].key = key,
         NEW j \in DOMAIN frames, frames[j].key = key
  PROVE  j = k
<1>1. PICK S : frames \in Seq(S)
  BY DEF NetworkInv, IsList
<1>2. Len(frames) \in Nat /\ DOMAIN frames = 1 .. Len(frames)
  BY <1>1
<1>3. IsFiniteSet(1 .. Len(frames))
  BY <1>2, FS_Interval
<1>4. SentWith(key) \subseteq 1 .. Len(frames)
  BY <1>2 DEF SentWith
<1>5. IsFiniteSet(SentWith(key))
  BY <1>3, <1>4, FS_Subset
<1>6. PICK i : SentWith(key) = {i}
  BY <1>5, FS_Singleton DEF SentOnce
<1>7. k \in SentWith(key) /\ j \in SentWith(key)
  BY DEF SentWith
<1> QED
  BY <1>6, <1>7

LEMMA MatchingInvSuffices ==
  ASSUME MatchingInv
  PROVE  MessagesAreTransmissions
<1>1. NetworkInv /\ EventsAreTrue(Past, s) /\ NothingIsLeftOut(Past, records, received, s)
  BY DEF MatchingInv
<1>2. Past.frames = frames /\ Past.lost = lost /\ \A h, t : Told(Past, h, t) = ClockAt(h, t)
  BY DEF Past, Told, ClockAt
<1>3. ASSUME NEW m \in s.messages, SentOnce(m.out.key), "dev_receive" \notin lost
      PROVE  \E k \in SentWith(m.out.key) :
               /\ frames[k].arrived > 0 /\ m.in.key = m.out.key
               /\ m.out.trace = m.out.key.saddr /\ m.out.time = ClockAt(m.out.trace, frames[k].sent)
               /\ m.in.trace = m.out.key.daddr /\ m.in.time = ClockAt(m.in.trace, frames[k].arrived)
  <2>1. /\ m.in.key = m.out.key
        /\ IsSent(Past, m.out.trace, m.out.time, m.out.key)
        /\ IsReceived(Past, m.in.trace, m.in.time, m.out.key)
    BY <1>1 DEF EventsAreTrue, IsMessage
  <2>2. /\ m.out.key # NotTcp /\ m.out.trace = m.out.key.saddr /\ m.in.trace = m.out.key.daddr
        /\ IsArrival(Past, m.in.trace, m.in.time, m.out.key)
    BY <1>2, <1>3, <2>1 DEF IsSent, IsReceived
  <2>3. PICK k \in DOMAIN frames :
          frames[k].key = m.out.key /\ m.out.time = ClockAt(m.out.trace, frames[k].sent)
    BY <1>2, <2>1 DEF IsSent
  <2>4. PICK j \in DOMAIN frames :
          /\ frames[j].key = m.out.key /\ frames[j].arrived > 0
          /\ m.in.time = ClockAt(m.in.trace, frames[j].arrived)
    BY <1>2, <2>2 DEF IsArrival
  <2>5. j = k
    BY <1>1, <1>3, <2>3, <2>4, SentOnceLemma
  <2>6. k \in SentWith(m.out.key)
    BY <2>3 DEF SentWith
  <2> QED
    BY <2>1, <2>2, <2>3, <2>4, <2>5, <2>6
<1>4. ASSUME phase = "synchronized", lost = {}, NEW k \in DOMAIN frames,
             frames[k].key # NotTcp, frames[k].key.saddr # frames[k].key.daddr,
             frames[k].arrived > 0
      PROVE  \E m \in s.messages : m.out.key = frames[k].key
  <2> DEFINE key == frames[k].key
  <2>1. SUFFICES ASSUME ~ IsFound(s, key) PROVE FALSE
    BY DEF IsFound
  <2>2. IsOnItsWay(records, received, s, frames[k])
    BY <1>1, <1>2, <1>4, <2>1 DEF NothingIsLeftOut
  <2>3. /\ key.saddr \in Traces /\ key.daddr \in Traces
        /\ \A h \in Traces : records[h] = << >> /\ received[h] = {}
    BY <1>1, <1>4 DEF NetworkInv
  <2>4. \A h \in Traces : \A name : ~ HasRecord(records[h], name, key)
    <3>1. \A j \in 1 .. Len(<< >>) : FALSE
      OBVIOUS
    <3> QED
      BY <2>3, <3>1 DEF HasRecord
  <2>5. HasKey(s.unMatchedOutE, key) /\ HasKey(s.unMatchedInE, key)
    BY <1>4, <2>2, <2>3, <2>4 DEF IsOnItsWay, HasKey
  <2> QED
    BY <1>1, <2>5 DEF EventsAreTrue, HasKey
<1> QED
  BY <1>3, <1>4 DEF MessagesAreTransmissions

\* Whatever hosts send, send again and receive in whatever buffers, with whatever
\* clocks, and whatever the network loses, a message that matching
\* (event_matching_tcp.c) hands to the analysis has the times its segment was
\* sent and received at, unless it was sent twice or the tracer lost records of
\* frames; and no segment is left out if no record was lost.
THEOREM MessagesAreTrue == Spec => []MessagesAreTransmissions
<1>1. Init => MatchingInv
  BY InitMatchingInv
<1>2. MatchingInv /\ [Next]_vars => MatchingInv'
  BY NextMatchingInv
<1>3. MatchingInv => MessagesAreTransmissions
  BY MatchingInvSuffices
<1> QED
  BY <1>1, <1>2, <1>3, PTL DEF Spec

-----------------------------------------------------------------------------
(* Sequence numbers: the place of a number is how much data comes before   *)
(* it, as long as they do not wrap around to the first one.                *)

Seqs == 0 .. SeqMod - 1
Place(x) == IF x = FirstSeq THEN 0 ELSE x + 1

LEMMA NumbersFacts ==
  /\ SeqMod = 2 * (SeqMod \div 2) /\ SeqMod \div 2 \in Nat \ {0} /\ SeqMod \in Nat
  /\ FirstSeq = SeqMod - 1 /\ FirstSeq \in Seqs /\ Place(FirstSeq) = 0
  /\ \A x \in Seqs : Place(x) \in Seqs
  /\ \A x, y \in Seqs : Place(x) = Place(y) => x = y
<1>1. /\ SeqMod = 2 * (SeqMod \div 2) /\ SeqMod \div 2 \in Nat \ {0} /\ SeqMod \in Nat
  BY EventMatchingAssumption
<1>2. FirstSeq = SeqMod - 1
  BY DEF FirstSeq
<1>3. SeqMod >= 2
  BY <1>1
<1>4. FirstSeq \in Seqs /\ Place(FirstSeq) = 0
  BY <1>1, <1>2, <1>3 DEF Seqs, Place
<1>5. \A x \in Seqs : Place(x) \in Seqs
  BY <1>1, <1>2, <1>3 DEF Seqs, Place
<1>6. \A x, y \in Seqs : Place(x) = Place(y) => x = y
  BY <1>1, <1>2, <1>3 DEF Seqs, Place
<1> QED
  BY <1>1, <1>2, <1>4, <1>5, <1>6

\* What is next comes one place later.
LEMMA NextNumber ==
  ASSUME NEW x \in Seqs, NEW len \in 0 .. 1, Place(x) + len < SeqMod
  PROVE  (x + len) % SeqMod \in Seqs /\ Place((x + len) % SeqMod) = Place(x) + len
<1>1. SeqMod \in Nat /\ SeqMod >= 2 /\ FirstSeq = SeqMod - 1
  BY NumbersFacts
<1>2. CASE x + len < SeqMod
  <2>1. (x + len) % SeqMod = x + len
    BY <1>1, <1>2 DEF Seqs
  <2> QED
    BY <1>1, <1>2, <2>1 DEF Seqs, Place
<1>3. CASE x + len >= SeqMod
  <2>1. x = SeqMod - 1 /\ len = 1
    BY <1>1, <1>3 DEF Seqs
  <2>2. (x + len) % SeqMod = 0
    BY <1>1, <2>1 DEF Seqs
  <2> QED
    BY <1>1, <2>1, <2>2 DEF Seqs, Place
<1> QED
  BY <1>1, <1>2, <1>3 DEF Seqs

\* A number is greater than those whose places come before its own, and no others.
LEMMA GreaterNumber ==
  ASSUME NEW a \in Seqs, NEW b \in Seqs,
         Place(a) <= SeqMod \div 2, Place(b) <= SeqMod \div 2, SEQ_GT(a, b)
  PROVE  Place(b) < Place(a)
<1> DEFINE half == SeqMod \div 2
<1>1. SeqMod = 2 * half /\ half \in Nat \ {0} /\ SeqMod \in Nat /\ FirstSeq = SeqMod - 1
  BY NumbersFacts
<1>2. (a - b) % SeqMod \in 1 .. half - 1
  BY DEF SEQ_GT
<1>3. a \in 0 .. SeqMod - 1 /\ b \in 0 .. SeqMod - 1
  BY DEF Seqs
<1> HIDE DEF half
<1>4. \A i \in 0 .. SeqMod - 1 : i % SeqMod = i
  BY <1>1
<1>5. \A i \in Int : -SeqMod < i /\ i < 0 => i % SeqMod = i + SeqMod
  BY <1>1
<1>6. SUFFICES ASSUME Place(a) <= Place(b) PROVE FALSE
  BY <1>1, <1>3 DEF Place
<1>7. CASE a = FirstSeq /\ b = FirstSeq
  BY <1>1, <1>2, <1>4, <1>7
<1>8. CASE a = FirstSeq /\ b # FirstSeq
  <2>1. b + 1 <= half
    BY <1>8 DEF Place, half
  <2>2. a - b \in 0 .. SeqMod - 1 /\ a - b >= half
    BY <1>1, <1>3, <1>8, <2>1
  <2> QED
    BY <1>1, <1>2, <1>4, <2>2
<1>9. CASE a # FirstSeq /\ b = FirstSeq
  BY <1>1, <1>3, <1>6, <1>9 DEF Place
<1>10. CASE a # FirstSeq /\ b # FirstSeq
  <2>1. a <= b /\ b + 1 <= half
    BY <1>1, <1>3, <1>6, <1>10 DEF Place, half
  <2>2. CASE a = b
    BY <1>1, <1>2, <1>3, <1>4, <2>2
  <2>3. CASE a < b
    <3>1. a - b \in Int /\ -SeqMod < a - b /\ a - b < 0 /\ a - b + SeqMod >= half
      BY <1>1, <1>3, <2>1, <2>3
    <3> QED
      BY <1>1, <1>2, <1>5, <3>1
  <2> QED
    BY <1>3, <2>1, <2>2, <2>3
<1> QED
  BY <1>7, <1>8, <1>9, <1>10

-----------------------------------------------------------------------------
(* What is acknowledged has arrived.  fs are the frames sent, tc what TCP  *)
(* keeps of each connection.                                               *)

Connections == Traces \X Traces

HasArrived(fs, l, i, t) ==
  \E k \in DOMAIN fs :
    /\ fs[k].key # NotTcp /\ Connection(fs[k].key) = l
    /\ Place(fs[k].key.seq) = i /\ fs[k].key.len = 1
    /\ fs[k].arrived \in 1 .. t - 1

\* The first n data sent on l had arrived before t.
IsKnown(fs, l, n, t) == \A i \in 0 .. n - 1 : HasArrived(fs, l, i, t)

IsSegment(fs, tc, f) ==
  /\ Connection(f.key) \in Connections
  /\ f.key.seq \in Seqs /\ f.key.ack_seq \in Seqs /\ f.key.len \in 0 .. 1
  /\ Place(f.key.seq) + f.key.len <= Place(tc[Connection(f.key)].snd_nxt)
  /\ Place(f.key.ack_seq) <= Place(tc[ReversedConnection(f.key)].rcv_nxt)
  /\ IsKnown(fs, ReversedConnection(f.key), Place(f.key.ack_seq), f.sent)

IsTimed(f, t) ==
  /\ f.sent \in Nat /\ f.sent < t /\ f.arrived \in Nat /\ f.arrived < t
  /\ f.arrived > 0 => f.sent < f.arrived

FramesInv(fs, tc, t) ==
  \A k \in DOMAIN fs : IsTimed(fs[k], t) /\ (fs[k].key # NotTcp => IsSegment(fs, tc, fs[k]))

IsTcp(tc) == tc \in [Connections -> [snd_nxt : Seqs, rcv_nxt : Seqs]]

TcpInv(fs, tc, n, t) ==
  \A l \in Connections :
    /\ Place(tc[l].rcv_nxt) <= Place(tc[l].snd_nxt) /\ Place(tc[l].snd_nxt) <= n
    /\ IsKnown(fs, l, Place(tc[l].rcv_nxt), t)

ReceivedInv(fs, recvd) ==
  \A h \in Traces : \A f \in recvd[h] :
    f.key # NotTcp /\ \E k \in DOMAIN fs : fs[k].key = f.key /\ fs[k].arrived > 0

LeftInv ==
  /\ DOMAIN left = {"frames", "retransmissions", "others", "losses", "idle", "lostRecords"}
  /\ left.frames \in Nat /\ Len(frames) + left.frames = traffic.frames
  /\ traffic.frames <= SeqMod \div 2

SequenceInv ==
  traffic.exchanges =>
    /\ LeftInv /\ IsTcp(tcp)
    /\ FramesInv(frames, tcp, now) /\ TcpInv(frames, tcp, Len(frames), now)
    /\ ReceivedInv(frames, received)

\* What was sent and arrived stays so.
Extends(fs, gs) ==
  \A k \in DOMAIN fs :
    /\ k \in DOMAIN gs /\ gs[k].key = fs[k].key /\ gs[k].sent = fs[k].sent
    /\ fs[k].arrived > 0 => gs[k].arrived = fs[k].arrived

Grows(tc, td) ==
  \A l \in Connections : /\ Place(tc[l].snd_nxt) <= Place(td[l].snd_nxt)
                         /\ Place(tc[l].rcv_nxt) <= Place(td[l].rcv_nxt)

LEMMA TcpFacts ==
  ASSUME NEW tc, IsTcp(tc), NEW l \in Connections
  PROVE  /\ tc[l].snd_nxt \in Seqs /\ tc[l].rcv_nxt \in Seqs
         /\ Place(tc[l].snd_nxt) \in Nat /\ Place(tc[l].rcv_nxt) \in Nat
<1>1. tc[l].snd_nxt \in Seqs /\ tc[l].rcv_nxt \in Seqs
  BY DEF IsTcp
<1>2. \A x \in Seqs : Place(x) \in Nat
  BY NumbersFacts DEF Seqs
<1> QED
  BY <1>1, <1>2

LEMMA ReversedLemma ==
  ASSUME NEW key, Connection(key) \in Connections
  PROVE  ReversedConnection(key) \in Connections
BY DEF Connection, ReversedConnection, Connections

LEMMA KnownKept ==
  ASSUME NEW fs, NEW gs, Extends(fs, gs), NEW t \in Int, NEW u \in Int, t <= u
  PROVE  \A l, n : IsKnown(fs, l, n, t) => IsKnown(gs, l, n, u)
<1>1. ASSUME NEW l, NEW i, HasArrived(fs, l, i, t) PROVE HasArrived(gs, l, i, u)
  <2>1. PICK k \in DOMAIN fs : /\ fs[k].key # NotTcp /\ Connection(fs[k].key) = l
                               /\ Place(fs[k].key.seq) = i /\ fs[k].key.len = 1
                               /\ fs[k].arrived \in 1 .. t - 1
    BY <1>1 DEF HasArrived
  <2>2. fs[k].arrived > 0 /\ fs[k].arrived \in 1 .. u - 1
    BY <2>1
  <2>3. k \in DOMAIN gs /\ gs[k].key = fs[k].key /\ gs[k].arrived = fs[k].arrived
    BY <2>2 DEF Extends
  <2> QED
    BY <2>1, <2>2, <2>3 DEF HasArrived
<1> QED
  BY <1>1 DEF IsKnown

LEMMA FramesKept ==
  ASSUME NEW fs, NEW gs, Extends(fs, gs), NEW tc, NEW td, IsTcp(tc), IsTcp(td), Grows(tc, td),
         NEW t \in Nat, NEW u, FramesInv(fs, tc, t),
         \A k \in DOMAIN gs : IsTimed(gs[k], u) /\
           (k \in DOMAIN fs \/ (gs[k].key # NotTcp => IsSegment(gs, td, gs[k])))
  PROVE  FramesInv(gs, td, u)
<1>1. SUFFICES ASSUME NEW k \in DOMAIN gs, k \in DOMAIN fs, gs[k].key # NotTcp
               PROVE  IsSegment(gs, td, gs[k])
  BY DEF FramesInv
<1> DEFINE key == gs[k].key
<1>2. fs[k].key = key /\ fs[k].sent = gs[k].sent
  BY <1>1 DEF Extends
<1>3. IsSegment(fs, tc, fs[k]) /\ gs[k].sent \in Nat
  BY <1>1, <1>2 DEF FramesInv, IsTimed
<1>4. IsKnown(gs, ReversedConnection(key), Place(key.ack_seq), gs[k].sent)
  BY <1>2, <1>3, KnownKept DEF IsSegment
<1>5. /\ Connection(key) \in Connections /\ ReversedConnection(key) \in Connections
      /\ key.seq \in Seqs /\ key.ack_seq \in Seqs /\ key.len \in 0 .. 1
  BY <1>2, <1>3, ReversedLemma DEF IsSegment
<1>6. Place(key.seq) \in Nat /\ Place(key.ack_seq) \in Nat
  BY <1>5, NumbersFacts DEF Seqs
<1>7. /\ Place(key.seq) + key.len <= Place(tc[Connection(key)].snd_nxt)
      /\ Place(key.ack_seq) <= Place(tc[ReversedConnection(key)].rcv_nxt)
  BY <1>2, <1>3 DEF IsSegment
<1>8. /\ Place(tc[Connection(key)].snd_nxt) \in Nat /\ Place(td[Connection(key)].snd_nxt) \in Nat
      /\ Place(tc[ReversedConnection(key)].rcv_nxt) \in Nat
      /\ Place(td[ReversedConnection(key)].rcv_nxt) \in Nat
  BY <1>5, TcpFacts
<1>9. /\ Place(key.seq) + key.len <= Place(td[Connection(key)].snd_nxt)
      /\ Place(key.ack_seq) <= Place(td[ReversedConnection(key)].rcv_nxt)
  BY <1>5, <1>6, <1>7, <1>8 DEF Grows
<1> QED
  BY <1>4, <1>5, <1>9 DEF IsSegment

\* A frame is sent; tcp' is what TCP keeps then.
LEMMA TransmitSequence ==
  ASSUME NetworkInv, SequenceInv, NEW h \in Traces, NEW g \in Traces, NEW key,
         Transmit(h, g, key), UNCHANGED <<traffic, received>>,
         NEW kinds, "frames" \in kinds, left.frames > 0, Spent(kinds),
         traffic.exchanges => IsTcp(tcp') /\ Grows(tcp, tcp'),
         traffic.exchanges => \A l \in Connections :
           /\ tcp'[l].rcv_nxt = tcp[l].rcv_nxt
           /\ Place(tcp'[l].snd_nxt) <= Len(frames) + 1,
         traffic.exchanges /\ key # NotTcp =>
           /\ Connection(key) \in Connections /\ key.seq \in Seqs /\ key.len \in 0 .. 1
           /\ Place(key.seq) + key.len <= Place(tcp'[Connection(key)].snd_nxt)
           /\ key.ack_seq = tcp[ReversedConnection(key)].rcv_nxt
  PROVE  SequenceInv'
<1> DEFINE sent == [key |-> key, sent |-> now, arrived |-> 0]
           n == Len(frames)
           gs == frames'
           td == tcp'
<1>1. now' = now + 1 /\ frames' = Append(frames, sent)
  BY Zenon DEF Transmit
<1>2. sent.key = key /\ sent.sent = now /\ sent.arrived = 0
  OBVIOUS
<1>3. IsList(frames) /\ now \in Nat
  BY DEF NetworkInv
<1> SUFFICES ASSUME traffic.exchanges
             PROVE  (LeftInv /\ IsTcp(tcp) /\ FramesInv(frames, tcp, now)
                     /\ TcpInv(frames, tcp, Len(frames), now) /\ ReceivedInv(frames, received))'
  BY DEF SequenceInv
<1>4. /\ LeftInv /\ IsTcp(tcp) /\ IsTcp(td) /\ Grows(tcp, td)
      /\ FramesInv(frames, tcp, now) /\ TcpInv(frames, tcp, n, now) /\ ReceivedInv(frames, received)
  BY DEF SequenceInv
<1> HIDE DEF sent
<1>5. /\ n \in Nat /\ DOMAIN frames = 1 .. n /\ DOMAIN gs = 1 .. n + 1 /\ Len(gs) = n + 1
      /\ (\A k \in 1 .. n : gs[k] = frames[k]) /\ gs[n + 1] = sent
  BY <1>1, <1>3, AppendedLemma
<1> HIDE DEF n, gs, td
<1>6. Extends(frames, gs)
  BY <1>5 DEF Extends
<1>7. LeftInv'
  <2>1. DOMAIN left' = DOMAIN left /\ left'.frames = left.frames - 1
    BY <1>4 DEF Spent, LeftInv
  <2> QED
    BY <1>4, <1>5, <2>1 DEF LeftInv, n, gs
<1>8. IsTimed(sent, now + 1)
  BY <1>2, <1>3 DEF IsTimed
<1>9. key # NotTcp => IsSegment(gs, td, sent)
  <2>1. SUFFICES ASSUME key # NotTcp PROVE IsSegment(gs, td, sent)
    OBVIOUS
  <2> DEFINE l == ReversedConnection(key)
  <2>2. l \in Connections /\ key.ack_seq = tcp[l].rcv_nxt /\ td[l].rcv_nxt = tcp[l].rcv_nxt
    BY <2>1, ReversedLemma DEF td
  <2>3. IsKnown(frames, l, Place(tcp[l].rcv_nxt), now)
    BY <1>4, <2>2 DEF TcpInv
  <2>4. IsKnown(gs, l, Place(key.ack_seq), now)
    BY <1>3, <1>6, <2>2, <2>3, KnownKept
  <2>5. key.ack_seq \in Seqs /\ Place(key.ack_seq) \in Nat
    BY <1>4, <2>2, TcpFacts
  <2>6. Place(key.ack_seq) <= Place(td[l].rcv_nxt)
    BY <2>2, <2>5
  <2>7. /\ Connection(key) \in Connections /\ key.seq \in Seqs /\ key.len \in 0 .. 1
        /\ Place(key.seq) + key.len <= Place(td[Connection(key)].snd_nxt)
    BY <2>1 DEF td
  <2> QED
    BY <1>2, <2>4, <2>5, <2>6, <2>7 DEF IsSegment
<1>10. \A k \in DOMAIN gs :
         IsTimed(gs[k], now + 1) /\
           (k \in DOMAIN frames \/ (gs[k].key # NotTcp => IsSegment(gs, td, gs[k])))
  <2>1. \A k \in DOMAIN frames : IsTimed(frames[k], now + 1)
    BY <1>3, <1>4 DEF FramesInv, IsTimed
  <2>2. \A k \in DOMAIN gs : (k \in DOMAIN frames /\ gs[k] = frames[k]) \/ gs[k] = sent
    BY <1>5
  <2> QED
    BY <1>2, <1>8, <1>9, <2>1, <2>2
<1>11. FramesInv(gs, td, now + 1)
  BY <1>3, <1>4, <1>6, <1>10, FramesKept
<1>12. TcpInv(gs, td, n + 1, now + 1)
  <2>1. SUFFICES ASSUME NEW l \in Connections
                 PROVE  /\ Place(td[l].rcv_nxt) <= Place(td[l].snd_nxt)
                        /\ Place(td[l].snd_nxt) <= n + 1
                        /\ IsKnown(gs, l, Place(td[l].rcv_nxt), now + 1)
    BY DEF TcpInv
  <2>2. td[l].rcv_nxt = tcp[l].rcv_nxt /\ Place(td[l].snd_nxt) <= n + 1
    BY DEF td, n
  <2>3. IsKnown(gs, l, Place(td[l].rcv_nxt), now + 1)
    BY <1>3, <1>4, <1>6, <2>2, KnownKept DEF TcpInv
  <2>4. /\ Place(tcp[l].rcv_nxt) \in Nat /\ Place(tcp[l].snd_nxt) \in Nat /\ Place(td[l].snd_nxt) \in Nat
        /\ Place(tcp[l].rcv_nxt) <= Place(tcp[l].snd_nxt) /\ Place(tcp[l].snd_nxt) <= Place(td[l].snd_nxt)
    BY <1>4, TcpFacts DEF TcpInv, Grows
  <2> QED
    BY <2>2, <2>3, <2>4
<1>13. ReceivedInv(gs, received)
  BY <1>4, <1>6 DEF ReceivedInv, Extends
<1>14. FramesInv(frames, tcp, now)' /\ TcpInv(frames, tcp, Len(frames), now)' /\ ReceivedInv(frames, received)'
  BY <1>1, <1>5, <1>11, <1>12, <1>13 DEF gs, td
<1> QED
  BY <1>4, <1>7, <1>14 DEF td

LEMMA SendSequence ==
  ASSUME NetworkInv, SequenceInv, NEW h \in Traces, NEW g \in Traces, NEW len \in traffic.lens,
         Send(h, g, len)
  PROVE  SequenceInv'
<1> DEFINE l == <<h, g>>
           key == Segment(h, g, tcp[l].snd_nxt, len)
           next == (tcp[l].snd_nxt + len) % SeqMod
<1>1. /\ Transmit(h, g, key) /\ UNCHANGED <<traffic, received>>
      /\ left.frames > 0 /\ Spent({"frames"})
      /\ tcp' = [tcp EXCEPT ![l].snd_nxt = next]
  BY DEF Send, Sending
<1>2. /\ key.saddr = h /\ key.daddr = g /\ key.seq = tcp[l].snd_nxt /\ key.len = len
      /\ key.ack_seq = tcp[<<g, h>>].rcv_nxt
  BY DEF Segment
<1>3. Connection(key) = l /\ ReversedConnection(key) = <<g, h>> /\ l \in Connections
  BY <1>2 DEF Connection, ReversedConnection, Connections
<1>4. len \in 0 .. 1
  BY DEF NetworkInv, Traffic
<1> HIDE DEF key, l
<1>5. ASSUME traffic.exchanges
      PROVE  /\ IsTcp(tcp') /\ Grows(tcp, tcp')
             /\ \A c \in Connections : /\ tcp'[c].rcv_nxt = tcp[c].rcv_nxt
                                       /\ Place(tcp'[c].snd_nxt) <= Len(frames) + 1
             /\ key.seq \in Seqs /\ Place(key.seq) + key.len <= Place(tcp'[l].snd_nxt)
  <2>1. LeftInv /\ IsTcp(tcp) /\ TcpInv(frames, tcp, Len(frames), now)
    BY <1>5 DEF SequenceInv
  <2> DEFINE x == tcp[l].snd_nxt
             n == Len(frames)
  <2>2. x \in Seqs /\ Place(x) \in Nat /\ Place(x) <= n
    BY <1>3, <2>1, TcpFacts DEF TcpInv
  <2>3. n \in Nat /\ n + 1 <= SeqMod \div 2
    <3>1. IsList(frames)
      BY DEF NetworkInv
    <3>2. n \in Nat
      BY <3>1 DEF IsList
    <3>3. traffic.frames \in Nat
      BY DEF NetworkInv, Traffic
    <3> QED
      BY <1>1, <2>1, <3>2, <3>3, NumbersFacts DEF LeftInv
  <2>4. Place(x) + len < SeqMod
    BY <1>4, <2>2, <2>3, NumbersFacts
  <2>5. next \in Seqs /\ Place(next) = Place(x) + len
    BY <1>4, <2>2, <2>4, NextNumber
  <2> HIDE DEF next
  <2>6. /\ IsTcp(tcp') /\ tcp'[l].snd_nxt = next
        /\ \A c \in Connections : /\ tcp'[c].rcv_nxt = tcp[c].rcv_nxt
                                  /\ c # l => tcp'[c].snd_nxt = tcp[c].snd_nxt
    BY <1>1, <1>3, <2>1, <2>5 DEF IsTcp
  <2>7. \A c \in Connections : /\ Place(tcp[c].snd_nxt) \in Nat /\ Place(tcp[c].snd_nxt) <= n
                               /\ Place(tcp[c].rcv_nxt) \in Nat
    BY <2>1, TcpFacts DEF TcpInv
  <2> HIDE DEF x, n
  <2>8. Grows(tcp, tcp')
    BY <1>4, <2>2, <2>5, <2>6, <2>7 DEF Grows, x
  <2>9. \A c \in Connections : Place(tcp'[c].snd_nxt) <= n + 1
    BY <1>4, <2>2, <2>3, <2>5, <2>6, <2>7
  <2> QED
    BY <1>2, <1>4, <2>2, <2>5, <2>6, <2>8, <2>9 DEF x, n
<1> HIDE DEF next
<1>6. traffic.exchanges => IsTcp(tcp') /\ Grows(tcp, tcp')
  BY <1>5
<1>7. traffic.exchanges => \A c \in Connections :
        tcp'[c].rcv_nxt = tcp[c].rcv_nxt /\ Place(tcp'[c].snd_nxt) <= Len(frames) + 1
  BY <1>5
<1>8. traffic.exchanges /\ key # NotTcp =>
        /\ Connection(key) \in Connections /\ key.seq \in Seqs /\ key.len \in 0 .. 1
        /\ Place(key.seq) + key.len <= Place(tcp'[Connection(key)].snd_nxt)
        /\ key.ack_seq = tcp[ReversedConnection(key)].rcv_nxt
  BY <1>2, <1>3, <1>4, <1>5
<1>9. "frames" \in {"frames"}
  OBVIOUS
<1> QED
  BY <1>1, <1>6, <1>7, <1>8, <1>9, TransmitSequence

\* What is sent again, and what is not TCP.
LEMMA ResendSequence ==
  ASSUME NetworkInv, SequenceInv, NEW h \in Traces, NEW g \in Traces,
         Retransmit(h, g) \/ SendOther(h, g)
  PROVE  SequenceInv'
<1>1. /\ left.frames > 0 /\ UNCHANGED <<traffic, received, tcp>>
      /\ Spent({"frames", "retransmissions"}) \/ Spent({"frames", "others"})
  BY DEF Retransmit, SendOther, Sending
<1>2. traffic.exchanges => /\ IsTcp(tcp') /\ Grows(tcp, tcp') /\ FramesInv(frames, tcp, now)
                           /\ \A c \in Connections : /\ tcp'[c].rcv_nxt = tcp[c].rcv_nxt
                                                     /\ Place(tcp'[c].snd_nxt) <= Len(frames) + 1
  <2>1. SUFFICES ASSUME traffic.exchanges
                 PROVE  /\ IsTcp(tcp') /\ Grows(tcp, tcp') /\ FramesInv(frames, tcp, now)
                        /\ \A c \in Connections : /\ tcp'[c].rcv_nxt = tcp[c].rcv_nxt
                                                  /\ Place(tcp'[c].snd_nxt) <= Len(frames) + 1
    OBVIOUS
  <2>2. /\ IsTcp(tcp) /\ FramesInv(frames, tcp, now) /\ TcpInv(frames, tcp, Len(frames), now)
        /\ tcp' = tcp
    BY <1>1, <2>1 DEF SequenceInv
  <2>3. Len(frames) \in Nat
    BY DEF NetworkInv, IsList
  <2>4. \A c \in Connections : /\ Place(tcp[c].snd_nxt) \in Nat /\ Place(tcp[c].snd_nxt) <= Len(frames)
                               /\ Place(tcp[c].rcv_nxt) \in Nat
    BY <2>2, TcpFacts DEF TcpInv
  <2> QED
    BY <2>2, <2>3, <2>4 DEF Grows
<1>3. CASE SendOther(h, g)
  <2>1. Transmit(h, g, NotTcp) /\ Spent({"frames", "others"}) /\ "frames" \in {"frames", "others"}
    BY <1>3 DEF SendOther
  <2> QED
    BY <1>1, <1>2, <2>1, TransmitSequence
<1>4. CASE Retransmit(h, g)
  <2>1. PICK k \in DOMAIN frames :
          /\ frames[k].key.saddr = h /\ frames[k].key.daddr = g /\ frames[k].key.len > 0
          /\ Transmit(h, g, Segment(h, g, frames[k].key.seq, 1))
    BY <1>4 DEF Retransmit
  <2> DEFINE key == Segment(h, g, frames[k].key.seq, 1)
             old == frames[k].key
  <2>2. /\ Transmit(h, g, key) /\ Spent({"frames", "retransmissions"})
        /\ "frames" \in {"frames", "retransmissions"}
    BY <1>4, <2>1 DEF Retransmit
  <2>3. /\ key.saddr = h /\ key.daddr = g /\ key.seq = old.seq /\ key.len = 1
        /\ key.ack_seq = tcp[<<g, h>>].rcv_nxt
    BY DEF Segment
  <2>4. old # NotTcp
    BY <2>1 DEF NotTcp
  <2> HIDE DEF key
  <2>5. /\ Connection(key) = <<h, g>> /\ Connection(old) = <<h, g>> /\ ReversedConnection(key) = <<g, h>>
        /\ <<h, g>> \in Connections
    BY <2>1, <2>3 DEF Connection, ReversedConnection, Connections
  <2>6. traffic.exchanges => old.seq \in Seqs /\ old.len = 1
                             /\ Place(old.seq) + 1 <= Place(tcp'[<<h, g>>].snd_nxt)
    <3>1. SUFFICES ASSUME traffic.exchanges
                   PROVE  old.seq \in Seqs /\ old.len = 1
                          /\ Place(old.seq) + 1 <= Place(tcp'[<<h, g>>].snd_nxt)
      OBVIOUS
    <3>2. IsSegment(frames, tcp, frames[k])
      BY <1>2, <2>4, <3>1 DEF FramesInv
    <3>3. old.len \in 0 .. 1 /\ old.len = 1
      BY <2>1, <3>2 DEF IsSegment
    <3> QED
      BY <1>1, <2>5, <3>2, <3>3 DEF IsSegment
  <2>7. traffic.exchanges /\ key # NotTcp =>
          /\ Connection(key) \in Connections /\ key.seq \in Seqs /\ key.len \in 0 .. 1
          /\ Place(key.seq) + key.len <= Place(tcp'[Connection(key)].snd_nxt)
          /\ key.ack_seq = tcp[ReversedConnection(key)].rcv_nxt
    BY <2>3, <2>5, <2>6
  <2> QED
    BY <1>1, <1>2, <2>2, <2>7, TransmitSequence
<1> QED
  BY <1>3, <1>4

\* Time goes on and frames arrive; TCP knows nothing new.
LEMMA LaterSequence ==
  ASSUME NetworkInv, SequenceInv, UNCHANGED <<traffic, tcp>>, now' \in {now, now + 1},
         DOMAIN frames' = DOMAIN frames, Len(frames') = Len(frames), Extends(frames, frames'),
         traffic.exchanges => DOMAIN left' = DOMAIN left /\ left'.frames = left.frames,
         traffic.exchanges => \A k \in DOMAIN frames : IsTimed(frames'[k], now'),
         traffic.exchanges => ReceivedInv(frames', received')
  PROVE  SequenceInv'
<1> SUFFICES ASSUME traffic.exchanges
             PROVE  (LeftInv /\ IsTcp(tcp) /\ FramesInv(frames, tcp, now)
                     /\ TcpInv(frames, tcp, Len(frames), now) /\ ReceivedInv(frames, received))'
  BY DEF SequenceInv
<1>1. /\ LeftInv /\ IsTcp(tcp) /\ FramesInv(frames, tcp, now)
      /\ TcpInv(frames, tcp, Len(frames), now)
  BY DEF SequenceInv
<1>2. now \in Nat /\ now' \in Nat /\ now <= now'
  BY DEF NetworkInv
<1>3. LeftInv'
  BY <1>1 DEF LeftInv
<1>4. \A l \in Connections : Place(tcp[l].snd_nxt) \in Nat /\ Place(tcp[l].rcv_nxt) \in Nat
  BY <1>1, TcpFacts
<1>5. Grows(tcp, tcp)
  BY <1>4 DEF Grows
<1>6. \A k \in DOMAIN frames' : IsTimed(frames'[k], now')
  OBVIOUS
<1>7. FramesInv(frames', tcp, now')
  BY <1>1, <1>2, <1>5, <1>6, FramesKept
<1>8. TcpInv(frames', tcp, Len(frames), now')
  BY <1>1, <1>2, KnownKept DEF TcpInv
<1> QED
  BY <1>1, <1>3, <1>7, <1>8

LEMMA ReceiveSequence ==
  ASSUME NetworkInv, WireInv, SequenceInv, NEW frame \in wire, NEW skb, NEW protocol, Receive(frame, skb, protocol)
  PROVE  SequenceInv'
<1> DEFINE h == frame.to
           n == frame.number
           new == [skb |-> skb, key |-> frame.key]
           arrived == [frames[n] EXCEPT !.arrived = now]
<1>1. /\ now' = now + 1 /\ Spent({}) /\ UNCHANGED <<traffic, tcp>>
      /\ received' = IF frame.key = NotTcp THEN received
                     ELSE [received EXCEPT ![h] = @ \cup {new}]
      /\ frames' = [frames EXCEPT ![n].arrived = now]
  BY Zenon DEF Receive
<1>2. new.key = frame.key
  OBVIOUS
<1>3. n \in DOMAIN frames /\ h \in Traces /\ frames[n].key = frame.key /\ frames[n].arrived = 0
  BY DEF WireInv
<1>4. /\ IsList(frames) /\ now \in Nat /\ now > 0 /\ DOMAIN received = Traces
      /\ DOMAIN frames[n] = {"key", "sent", "arrived"}
  BY <1>3 DEF NetworkInv
<1>5. arrived.key = frame.key /\ arrived.sent = frames[n].sent /\ arrived.arrived = now
  BY <1>3, <1>4
<1>6. frames' = [frames EXCEPT ![n] = arrived]
  BY <1>1
<1> HIDE DEF h, n, new, arrived
<1>7. /\ DOMAIN frames' = DOMAIN frames /\ frames'[n] = arrived /\ Len(frames') = Len(frames)
      /\ \A k \in DOMAIN frames : k # n => frames'[k] = frames[k]
  <2>1. PICK S : frames \in Seq(S)
    BY <1>4 DEF IsList
  <2>2. frames \in Seq(S \cup {arrived}) /\ n \in 1 .. Len(frames) /\ arrived \in S \cup {arrived}
    BY <1>3, <2>1
  <2>3. Len(frames') = Len(frames)
    BY <1>6, <2>2, ExceptSeq
  <2> QED
    BY <1>3, <1>6, <2>3
<1>8. Extends(frames, frames')
  <2>1. SUFFICES ASSUME NEW k \in DOMAIN frames
                 PROVE  /\ frames'[k].key = frames[k].key /\ frames'[k].sent = frames[k].sent
                        /\ frames[k].arrived > 0 => frames'[k].arrived = frames[k].arrived
    BY <1>7 DEF Extends
  <2>2. CASE k = n
    BY <1>3, <1>5, <1>7, <2>2
  <2>3. CASE k # n
    BY <1>7, <2>3
  <2> QED
    BY <2>2, <2>3
<1>9. traffic.exchanges => DOMAIN left' = DOMAIN left /\ left'.frames = left.frames
  <2>1. traffic.exchanges => "frames" \in DOMAIN left
    BY DEF SequenceInv, LeftInv
  <2> QED
    BY <1>1, <2>1 DEF Spent
<1>10. traffic.exchanges => \A k \in DOMAIN frames : IsTimed(frames'[k], now')
  <2>1. SUFFICES ASSUME traffic.exchanges, NEW k \in DOMAIN frames PROVE IsTimed(frames'[k], now')
    OBVIOUS
  <2>2. IsTimed(frames[k], now)
    BY <2>1 DEF SequenceInv, FramesInv
  <2>3. CASE k = n
    BY <1>1, <1>4, <1>5, <1>7, <2>2, <2>3 DEF IsTimed
  <2>4. CASE k # n
    BY <1>1, <1>4, <1>7, <2>2, <2>4 DEF IsTimed
  <2> QED
    BY <2>3, <2>4
<1>11. traffic.exchanges => ReceivedInv(frames', received')
  <2>1. SUFFICES ASSUME traffic.exchanges, NEW g \in Traces, NEW f \in received'[g]
                 PROVE  f.key # NotTcp /\ \E k \in DOMAIN frames' : frames'[k].key = f.key /\ frames'[k].arrived > 0
    BY DEF ReceivedInv
  <2>2. CASE f \in received[g]
    <3>1. f.key # NotTcp /\ \E k \in DOMAIN frames : frames[k].key = f.key /\ frames[k].arrived > 0
      BY <2>1, <2>2 DEF SequenceInv, ReceivedInv
    <3> QED
      BY <1>8, <3>1 DEF Extends
  <2>3. CASE f \notin received[g]
    <3>1. frame.key # NotTcp /\ f = new
      BY <1>1, <1>4, <2>1, <2>3
    <3> QED
      BY <1>2, <1>3, <1>4, <1>5, <1>7, <3>1
  <2> QED
    BY <2>2, <2>3
<1> QED
  BY <1>1, <1>7, <1>8, <1>9, <1>10, <1>11, LaterSequence

LEMMA ReceiveSegmentSequence ==
  ASSUME NetworkInv, SequenceInv, NEW h \in Traces, NEW f \in received[h], ReceiveSegment(h, f)
  PROVE  SequenceInv'
<1> DEFINE key == f.key
           l == Connection(key)
           x == tcp[l].rcv_nxt
           next == (x + key.len) % SeqMod
<1>1. /\ received' = [received EXCEPT ![h] = @ \ {f}] /\ Spent({})
      /\ UNCHANGED <<traffic, now, frames>>
  BY Zenon DEF ReceiveSegment
<1>2. tcp' = IF key.seq = x THEN [tcp EXCEPT ![l].rcv_nxt = next] ELSE tcp
  <2>1. l = <<key.saddr, key.daddr>>
    BY DEF Connection
  <2> QED
    BY <2>1, Zenon DEF ReceiveSegment
<1> SUFFICES ASSUME traffic.exchanges
             PROVE  (LeftInv /\ IsTcp(tcp) /\ FramesInv(frames, tcp, now)
                     /\ TcpInv(frames, tcp, Len(frames), now) /\ ReceivedInv(frames, received))'
  BY <1>1 DEF SequenceInv
<1>3. /\ LeftInv /\ IsTcp(tcp) /\ FramesInv(frames, tcp, now)
      /\ TcpInv(frames, tcp, Len(frames), now) /\ ReceivedInv(frames, received)
  BY DEF SequenceInv
<1>4. now \in Nat /\ DOMAIN received = Traces /\ IsList(frames)
  BY DEF NetworkInv
<1>5. key # NotTcp
  BY <1>3 DEF ReceivedInv
<1>6. PICK k \in DOMAIN frames : frames[k].key = key /\ frames[k].arrived > 0
  BY <1>3 DEF ReceivedInv
<1>7. IsSegment(frames, tcp, frames[k]) /\ IsTimed(frames[k], now)
  BY <1>3, <1>5, <1>6 DEF FramesInv
<1>8. l \in Connections /\ key.len \in 0 .. 1 /\ Place(key.seq) + key.len <= Place(tcp[l].snd_nxt)
  BY <1>6, <1>7 DEF IsSegment
<1> HIDE DEF l, key
<1>9. x \in Seqs /\ tcp[l].snd_nxt \in Seqs /\ Place(x) \in Nat /\ Place(tcp[l].snd_nxt) \in Nat
  BY <1>3, <1>8, TcpFacts
<1>10. Place(tcp[l].snd_nxt) < SeqMod
  BY <1>9, NumbersFacts DEF Seqs
<1> HIDE DEF x
<1>11. LeftInv'
  <2>1. DOMAIN left' = DOMAIN left /\ left'.frames = left.frames
    BY <1>1, <1>3 DEF Spent, LeftInv
  <2> QED
    BY <1>1, <1>3, <2>1 DEF LeftInv
<1>12. ReceivedInv(frames, received')
  <2>1. \A g \in Traces : received'[g] \subseteq received[g]
    BY <1>1, <1>4
  <2> QED
    BY <1>3, <2>1 DEF ReceivedInv
<1>13. CASE key.seq # x
  BY <1>1, <1>2, <1>3, <1>11, <1>12, <1>13
<1>14. CASE key.seq = x
  <2>1. next \in Seqs /\ Place(next) = Place(x) + key.len
    <3>1. Place(x) + key.len < SeqMod
      BY <1>8, <1>9, <1>10, <1>14, NumbersFacts
    <3> QED
      BY <1>8, <1>9, <3>1, NextNumber DEF x
  <2> HIDE DEF next
  <2>2. /\ IsTcp(tcp') /\ tcp'[l].rcv_nxt = next /\ tcp'[l].snd_nxt = tcp[l].snd_nxt
        /\ \A c \in Connections : c # l => tcp'[c] = tcp[c]
    <3>1. tcp' = [tcp EXCEPT ![l].rcv_nxt = next]
      BY <1>2, <1>14
    <3> QED
      BY <1>3, <1>8, <2>1, <3>1 DEF IsTcp
  <2>3. \A c \in Connections : Place(tcp[c].snd_nxt) \in Nat /\ Place(tcp[c].rcv_nxt) \in Nat
    BY <1>3, TcpFacts
  <2>4. Grows(tcp, tcp')
    <3>1. Place(tcp[l].rcv_nxt) <= Place(tcp'[l].rcv_nxt) /\ Place(tcp[l].snd_nxt) <= Place(tcp'[l].snd_nxt)
      BY <1>8, <1>9, <2>1, <2>2 DEF x
    <3> QED
      BY <2>2, <2>3, <3>1 DEF Grows
  <2>5. Extends(frames, frames)
    BY DEF Extends
  <2>6. FramesInv(frames, tcp', now)
    <3>1. \A j \in DOMAIN frames : IsTimed(frames[j], now)
      BY <1>3 DEF FramesInv
    <3> QED
      BY <1>3, <1>4, <2>2, <2>4, <2>5, <3>1, FramesKept
  <2>7. TcpInv(frames, tcp', Len(frames), now)
    <3>1. IsKnown(frames, l, Place(next), now)
      <4>1. SUFFICES ASSUME NEW i \in 0 .. Place(next) - 1 PROVE HasArrived(frames, l, i, now)
        BY DEF IsKnown
      <4>2. IsKnown(frames, l, Place(x), now)
        BY <1>3, <1>8 DEF TcpInv, x
      <4>3. CASE i < Place(x)
        <5>1. i \in 0 .. Place(x) - 1
          BY <1>9, <4>1, <4>3
        <5> QED
          BY <4>2, <5>1 DEF IsKnown
      <4>4. CASE i >= Place(x)
        <5>1. key.len = 1 /\ i = Place(x)
          BY <1>8, <1>9, <2>1, <4>1, <4>4
        <5>2. frames[k].arrived \in 1 .. now - 1
          BY <1>4, <1>6, <1>7 DEF IsTimed
        <5> QED
          BY <1>5, <1>6, <1>14, <5>1, <5>2 DEF HasArrived, l, key
      <4> QED
        BY <1>9, <4>1, <4>3, <4>4
    <3>2. Place(next) <= Place(tcp'[l].snd_nxt)
      BY <1>8, <1>14, <2>1, <2>2
    <3>3. SUFFICES ASSUME NEW c \in Connections
                   PROVE  /\ Place(tcp'[c].rcv_nxt) <= Place(tcp'[c].snd_nxt)
                          /\ Place(tcp'[c].snd_nxt) <= Len(frames)
                          /\ IsKnown(frames, c, Place(tcp'[c].rcv_nxt), now)
      BY DEF TcpInv
    <3>4. /\ Place(tcp[c].rcv_nxt) <= Place(tcp[c].snd_nxt) /\ Place(tcp[c].snd_nxt) <= Len(frames)
          /\ IsKnown(frames, c, Place(tcp[c].rcv_nxt), now)
      BY <1>3 DEF TcpInv
    <3>5. CASE c = l
      BY <2>2, <3>1, <3>2, <3>4, <3>5
    <3>6. CASE c # l
      BY <2>2, <3>4, <3>6
    <3> QED
      BY <3>5, <3>6
  <2> QED
    BY <1>1, <1>11, <1>12, <2>2, <2>6, <2>7
<1> QED
  BY <1>13, <1>14

\* What neither sends nor receives.
LEMMA QuietSequence ==
  ASSUME NetworkInv, SequenceInv, UNCHANGED <<traffic, tcp, frames, received>>,
         now' \in {now, now + 1},
         traffic.exchanges => DOMAIN left' = DOMAIN left /\ left'.frames = left.frames
  PROVE  SequenceInv'
<1>1. Extends(frames, frames')
  BY DEF Extends
<1>2. now \in Nat
  BY DEF NetworkInv
<1>3. traffic.exchanges => \A k \in DOMAIN frames : IsTimed(frames[k], now)
  BY DEF SequenceInv, FramesInv
<1>4. traffic.exchanges => \A k \in DOMAIN frames : IsTimed(frames'[k], now')
  BY <1>2, <1>3 DEF IsTimed
<1>5. traffic.exchanges => ReceivedInv(frames', received')
  BY DEF SequenceInv
<1> QED
  BY <1>1, <1>4, <1>5, LaterSequence

LEMMA NextSequence ==
  ASSUME NetworkInv, WireInv, SequenceInv, [Next]_vars
  PROVE  SequenceInv'
<1>1. ASSUME NEW h \in Traces, NEW g \in Traces, NEW len \in traffic.lens, Send(h, g, len)
      PROVE  SequenceInv'
  BY <1>1, SendSequence
<1>2. ASSUME NEW h \in Traces, NEW g \in Traces, Retransmit(h, g) \/ SendOther(h, g)
      PROVE  SequenceInv'
  BY <1>2, ResendSequence
<1>3. ASSUME NEW frame \in wire, Lose(frame)
      PROVE  SequenceInv'
  <2>1. /\ UNCHANGED <<traffic, tcp, frames, received, now>>
        /\ left' = [left EXCEPT !.losses = left.losses - 1]
    BY <1>3 DEF Lose
  <2>2. DOMAIN left' = DOMAIN left /\ left'.frames = left.frames
    BY <2>1
  <2> QED
    BY <2>1, <2>2, QuietSequence
<1>4. ASSUME NEW frame \in wire, NEW skb \in traffic.skbs, NEW protocol \in Protocols,
             Receive(frame, skb, protocol)
      PROVE  SequenceInv'
  BY <1>4, ReceiveSequence
<1>5. ASSUME NEW h \in Traces, NEW f \in received[h], ReceiveSegment(h, f)
      PROVE  SequenceInv'
  BY <1>5, ReceiveSegmentSequence
<1>6. CASE Idle
  <2>1. /\ UNCHANGED <<traffic, tcp, frames, received>> /\ now' = now + 1
        /\ left' = [left EXCEPT !.idle = left.idle - 1]
    BY <1>6 DEF Idle
  <2>2. DOMAIN left' = DOMAIN left /\ left'.frames = left.frames
    BY <2>1
  <2> QED
    BY <2>1, <2>2, QuietSequence
<1>7. CASE StartReading \/ ReadEvent \/ Finalize \/ UNCHANGED vars
  <2>1. UNCHANGED <<traffic, tcp, frames, received, now, left>>
    BY <1>7 DEF StartReading, ReadEvent, Finalize, network, vars
  <2> QED
    BY <2>1, QuietSequence
<1> QED
  BY <1>1, <1>2, <1>3, <1>4, <1>5, <1>6, <1>7 DEF Next

LEMMA InitSequence ==
  ASSUME NumbersSuffice, Init
  PROVE  SequenceInv
<1> SUFFICES ASSUME traffic.exchanges
             PROVE  /\ LeftInv /\ IsTcp(tcp) /\ FramesInv(frames, tcp, now)
                    /\ TcpInv(frames, tcp, Len(frames), now) /\ ReceivedInv(frames, received)
  BY DEF SequenceInv
<1>1. /\ traffic \in Traffics /\ now = 0 /\ frames = << >>
      /\ tcp = [l \in Connections |-> [snd_nxt |-> FirstSeq, rcv_nxt |-> FirstSeq]]
      /\ received = [h \in Traces |-> {}]
      /\ left = [frames |-> traffic.frames, retransmissions |-> traffic.retransmissions,
                 others |-> traffic.others, losses |-> traffic.losses, idle |-> traffic.idle,
                 lostRecords |-> traffic.lostRecords]
  BY DEF Init, Connections
<1>2. traffic.frames \in Nat /\ traffic.frames <= SeqMod \div 2
  BY <1>1, SynchronizationAssumption DEF NumbersSuffice, Traffic
<1>3. Len(frames) = 0 /\ DOMAIN frames = {}
  BY <1>1
<1>4. LeftInv
  BY <1>1, <1>2, <1>3 DEF LeftInv
<1>5. IsTcp(tcp)
  BY <1>1, NumbersFacts DEF IsTcp
<1>6. FramesInv(frames, tcp, now) /\ ReceivedInv(frames, received)
  BY <1>1, <1>3 DEF FramesInv, ReceivedInv
<1>7. TcpInv(frames, tcp, Len(frames), now)
  <2>1. \A l \in Connections : Place(tcp[l].rcv_nxt) = 0 /\ Place(tcp[l].snd_nxt) = 0
    BY <1>1, NumbersFacts
  <2>2. \A l : IsKnown(frames, l, 0, now)
    BY DEF IsKnown
  <2> QED
    BY <1>3, <2>1, <2>2 DEF TcpInv
<1> QED
  BY <1>4, <1>5, <1>6, <1>7

-----------------------------------------------------------------------------
(* Analysis: acknowledgements meet the segments that wait for them.        *)

IsTrip(m) ==
  /\ m.in.key = m.out.key /\ Connection(m.in.key) \in Connections
  /\ m.out.trace = m.in.key.saddr /\ m.in.trace = m.in.key.daddr

IsWaiting(ms, c, q) == q \in ms /\ Connection(q.in.key) = c /\ needsAck(q)

IsQueue(ms, c, queue) == IsList(queue) /\ \A q \in Range(queue) : IsWaiting(ms, c, q)

IsAnswer(ms, e) ==
  /\ e.message \in ms /\ e.acked \in ms
  /\ Connection(e.acked.in.key) = ReversedConnection(e.message.in.key)
  /\ isAcking(e.message, e.acked) /\ needsAck(e.acked)

AnalysisInv(w, exchanges) ==
  /\ ~ w.disorganized
  /\ DOMAIN w.unAcked = Connections
  /\ \A c \in Connections : IsQueue(w.messages, c, w.unAcked[c])
  /\ \A e \in w.exchanges : exchanges /\ IsAnswer(w.messages, e)

SameAnalysis(w, x) ==
  /\ x.disorganized = w.disorganized /\ x.unAcked = w.unAcked /\ x.exchanges = w.exchanges
  /\ w.messages \subseteq x.messages

LEMMA AnalysisKept ==
  ASSUME NEW w, NEW x, NEW exchanges, AnalysisInv(w, exchanges), SameAnalysis(w, x)
  PROVE  AnalysisInv(x, exchanges)
BY DEF AnalysisInv, SameAnalysis, IsQueue, IsWaiting, IsAnswer

\* A set of indices has a highest one.
LEMMA HighestExists ==
  ASSUME NEW n \in Nat, NEW S \in SUBSET (1 .. n), S # {}
  PROVE  Max(S) \in S
<1> DEFINE T == {n - i : i \in S}
<1>1. T \in SUBSET Nat /\ T # {}
  <2>1. \A i \in S : n - i \in Nat
    OBVIOUS
  <2> QED
    BY <2>1, Zenon
<1>2. PICK m \in T : \A j \in T : m <= j
  BY <1>1, LowestExists
<1>3. PICK i \in S : m = n - i
  OBVIOUS
<1>4. \A j \in S : i >= j
  BY <1>2, <1>3
<1> HIDE DEF T
<1> QED
  BY <1>3, <1>4, Zenon DEF Max

LEMMA AnalyzeAckAnalysis ==
  ASSUME NEW w, IsMatching(w), NEW packet, packet \in w.messages, IsTrip(packet),
         \A m \in w.messages : IsTrip(m), AnalysisInv(w, TRUE)
  PROVE  LET x == AnalyzeAck(w, packet)
         IN  AnalysisInv(x, TRUE) /\ IsMatching(x) /\ x.messages = w.messages
<1> DEFINE c == ReversedConnection(packet.in.key)
           queue == w.unAcked[c]
           kept == Keep(queue, {q \in Range(queue) : ~ isAcking(packet, q)})
           acked == queue[Max(Acked(w, packet))]
           cleared == [w EXCEPT !.unAcked[c] = kept]
           new == [message |-> packet, acked |-> acked]
           x == AnalyzeAck(w, packet)
<1>1. c \in Connections
  BY ReversedLemma DEF IsTrip
<1>2. IsQueue(w.messages, c, queue)
  BY <1>1 DEF AnalysisInv
<1>3. PICK T : queue \in Seq(T)
  BY <1>2 DEF IsQueue, IsList
<1>4. kept \in Seq(T) /\ Range(kept) \subseteq Range(queue)
  BY <1>3, KeepLemma
<1>5. CASE ~ isAck(packet) \/ Acked(w, packet) = {}
  <2>1. x = w
    BY <1>5, Zenon DEF AnalyzeAck
  <2> QED
    BY <2>1
<1>6. CASE isAck(packet) /\ Acked(w, packet) # {}
  <2>1. acked \in Range(queue) /\ isAcking(packet, acked)
    <3>1. Len(queue) \in Nat /\ DOMAIN queue = 1 .. Len(queue)
      BY <1>3
    <3>2. Acked(w, packet) = {k \in DOMAIN queue : isAcking(packet, queue[k])}
      BY DEF Acked
    <3>3. Max(Acked(w, packet)) \in Acked(w, packet)
      BY <1>6, <3>1, <3>2, HighestExists
    <3> QED
      BY <3>2, <3>3 DEF Range
  <2>2. acked \in w.messages /\ Connection(acked.in.key) = c /\ needsAck(acked) /\ IsTrip(acked)
    BY <1>2, <2>1 DEF IsQueue, IsWaiting
  <2>3. acked.out.trace = packet.in.trace /\ acked.in.trace = packet.out.trace
    BY <2>2 DEF IsTrip, Connection, ReversedConnection
  <2>4. x = [cleared EXCEPT !.exchanges = @ \cup {new}]
    BY <1>6, <2>3, Zenon DEF AnalyzeAck
  <2>5. new.message = packet /\ new.acked = acked
    OBVIOUS
  <2> HIDE DEF new, acked, kept, x
  <2>6. IsAnswer(w.messages, new)
    BY <2>1, <2>2, <2>5 DEF IsAnswer
  <2>7. /\ x.disorganized = w.disorganized /\ x.messages = w.messages /\ IsMatching(x)
        /\ x.unAcked = [w.unAcked EXCEPT ![c] = kept] /\ x.exchanges = w.exchanges \cup {new}
    BY <2>4 DEF IsMatching
  <2>8. IsQueue(w.messages, c, kept)
    BY <1>2, <1>4 DEF IsQueue, IsList
  <2> HIDE DEF c
  <2>9. /\ DOMAIN x.unAcked = Connections /\ x.unAcked[c] = kept
        /\ \A d \in Connections : d # c => x.unAcked[d] = w.unAcked[d]
    BY <1>1, <2>7 DEF AnalysisInv
  <2>10. AnalysisInv(x, TRUE)
    BY <2>6, <2>7, <2>8, <2>9 DEF AnalysisInv
  <2> QED
    BY <2>7, <2>10 DEF x
<1> QED
  BY <1>5, <1>6

LEMMA AwaitAnalysis ==
  ASSUME NEW w, IsMatching(w), NEW packet, packet \in w.messages, IsTrip(packet),
         AnalysisInv(w, TRUE)
  PROVE  AnalysisInv(Await(w, packet), TRUE)
<1> DEFINE c == Connection(packet.in.key)
           queue == w.unAcked[c]
           longer == Append(queue, packet)
           x == Await(w, packet)
<1>1. c \in Connections
  BY DEF IsTrip
<1>2. IsQueue(w.messages, c, queue)
  BY <1>1 DEF AnalysisInv
<1>3. CASE needsAck(packet)
  <2>1. x = [w EXCEPT !.unAcked[c] = longer]
    BY <1>3, Zenon DEF Await, AnalysisInv
  <2>2. IsQueue(w.messages, c, longer)
    <3>1. /\ IsList(longer) /\ DOMAIN longer = 1 .. Len(queue) + 1 /\ Len(queue) \in Nat
          /\ DOMAIN queue = 1 .. Len(queue)
          /\ (\A j \in 1 .. Len(queue) : longer[j] = queue[j]) /\ longer[Len(queue) + 1] = packet
      BY <1>2, AppendedLemma DEF IsQueue
    <3> HIDE DEF longer, queue
    <3>2. Range(longer) \subseteq Range(queue) \cup {packet}
      BY <3>1 DEF Range
    <3>3. IsWaiting(w.messages, c, packet)
      BY <1>3 DEF IsWaiting
    <3> QED
      BY <1>2, <3>1, <3>2, <3>3 DEF IsQueue
  <2> HIDE DEF longer, c, x
  <2>3. /\ x.disorganized = w.disorganized /\ x.messages = w.messages
        /\ x.unAcked = [w.unAcked EXCEPT ![c] = longer] /\ x.exchanges = w.exchanges
    BY <2>1 DEF IsMatching
  <2>4. /\ DOMAIN x.unAcked = Connections /\ x.unAcked[c] = longer
        /\ \A d \in Connections : d # c => x.unAcked[d] = w.unAcked[d]
    BY <1>1, <2>3 DEF AnalysisInv
  <2> QED
    BY <2>2, <2>3, <2>4 DEF AnalysisInv, x
<1>4. CASE ~ needsAck(packet)
  BY <1>4 DEF Await
<1> QED
  BY <1>3, <1>4

LEMMA MatchedAnalysis ==
  ASSUME NEW w, IsMatching(w), NEW packet, IsTrip(packet), \A m \in w.messages : IsTrip(m),
         NEW exchanges \in BOOLEAN, AnalysisInv(w, exchanges)
  PROVE  AnalysisInv(Matched(w, packet, exchanges), exchanges)
<1> DEFINE given == [w EXCEPT !.messages = @ \cup {packet}]
           x == Matched(w, packet, exchanges)
<1>1. CASE packet.in.trace = packet.out.trace
  BY <1>1 DEF Matched
<1>2. CASE packet.in.trace # packet.out.trace /\ exchanges
  <2>1. x = Await(AnalyzeAck(given, packet), packet)
    BY <1>2, Zenon DEF Matched
  <2>2. IsMatching(given) /\ SameAnalysis(w, given) /\ given.messages = w.messages \cup {packet}
    BY DEF IsMatching, SameAnalysis
  <2> HIDE DEF given, x
  <2>3. AnalysisInv(given, TRUE) /\ packet \in given.messages /\ \A m \in given.messages : IsTrip(m)
    BY <1>2, <2>2, AnalysisKept
  <2> DEFINE y == AnalyzeAck(given, packet)
  <2>4. AnalysisInv(y, TRUE) /\ IsMatching(y) /\ packet \in y.messages
    BY <2>2, <2>3, AnalyzeAckAnalysis
  <2> HIDE DEF y
  <2>5. AnalysisInv(Await(y, packet), TRUE)
    BY <2>4, AwaitAnalysis
  <2> QED
    BY <1>2, <2>1, <2>5 DEF x, y
<1>3. CASE packet.in.trace # packet.out.trace /\ ~ exchanges
  <2>1. x = [w EXCEPT !.messages = @ \cup {packet}, !.hulls = analyzeMessage(@, packet)]
    BY <1>3, Zenon DEF Matched
  <2>2. SameAnalysis(w, x)
    <3> HIDE DEF x
    <3> QED
      BY <2>1 DEF IsMatching, SameAnalysis
  <2> QED
    BY <2>2, AnalysisKept
<1> QED
  BY <1>1, <1>2, <1>3

\* A record is read: what is matched then are segments of hosts that are traced.
LEMMA ProcessAnalysis ==
  ASSUME NEW P, NEW w, IsMatching(w), EventsAreTrue(P, w),
         \A k \in DOMAIN P.frames :
           P.frames[k].key # NotTcp => P.frames[k].key.saddr \in Traces /\ P.frames[k].key.daddr \in Traces,
         NEW h \in Traces, NEW r, IsTrue(P, h, r),
         NEW exchanges \in BOOLEAN, AnalysisInv(w, exchanges)
  PROVE  AnalysisInv(processEvent(w, h, r, exchanges), exchanges)
<1> DEFINE x == processEvent(w, h, r, exchanges)
<1>1. ASSUME NEW out, NEW in, in.key = out.key, in.key # NotTcp, in.trace = in.key.daddr,
             NEW time, IsSent(P, out.trace, time, out.key)
      PROVE  /\ Connection(in.key) \in Connections
             /\ out.trace = in.key.saddr /\ in.trace = in.key.daddr
  BY <1>1 DEF IsSent, Connection, Connections
<1>2. \A m \in w.messages : IsTrip(m)
  <2>1. SUFFICES ASSUME NEW m \in w.messages PROVE IsTrip(m)
    OBVIOUS
  <2>2. /\ m.in.key = m.out.key /\ IsSent(P, m.out.trace, m.out.time, m.out.key)
        /\ m.in.key # NotTcp /\ m.in.trace = m.in.key.daddr
    BY DEF EventsAreTrue, IsMessage, IsReceived
  <2> QED
    BY <1>1, <2>2 DEF IsTrip
<1>3. ASSUME r.name = "dev_xmit_extended"
      PROVE  AnalysisInv(x, exchanges)
  <2> DEFINE e == [trace |-> h, time |-> r.time, key |-> r.key]
             in == CHOOSE f \in SameKey(w.unMatchedInE, e) : TRUE
             taken == [w EXCEPT !.unMatchedInE = @ \ {in}]
             packet == [out |-> e, in |-> in]
  <2>1. x = MatchOut(w, e, exchanges)
    BY <1>3, Zenon DEF processEvent, dev_xmit
  <2>2. e.trace = h /\ e.key = r.key
    OBVIOUS
  <2>3. CASE SameKey(w.unMatchedInE, e) = {}
    <3> DEFINE y == [w EXCEPT !.unMatchedOutE = (@ \ SameKey(@, e)) \cup {e}]
    <3>1. x = y
      BY <2>1, <2>3, Zenon DEF MatchOut
    <3>2. SameAnalysis(w, y)
      BY DEF IsMatching, SameAnalysis
    <3> HIDE DEF y, x
    <3> QED
      BY <3>1, <3>2, AnalysisKept
  <2>4. CASE SameKey(w.unMatchedInE, e) # {}
    <3>1. x = Matched(taken, packet, exchanges)
      BY <2>1, <2>4, Zenon DEF MatchOut
    <3>2. in \in w.unMatchedInE /\ in.key = e.key
      <4>1. in \in SameKey(w.unMatchedInE, e)
        BY <2>4, Zenon
      <4> QED
        BY <4>1 DEF SameKey
    <3>3. packet.out = e /\ packet.in = in
      OBVIOUS
    <3>4. IsMatching(taken) /\ SameAnalysis(w, taken) /\ taken.messages = w.messages
      BY DEF IsMatching, SameAnalysis
    <3> HIDE DEF e, in, taken, packet, x
    <3>5. in.key # NotTcp /\ in.trace = in.key.daddr
      BY <3>2 DEF EventsAreTrue, IsReceived
    <3>6. IsSent(P, e.trace, r.time, e.key)
      BY <1>3, <2>2 DEF IsTrue
    <3>7. IsTrip(packet)
      BY <1>1, <3>2, <3>3, <3>5, <3>6 DEF IsTrip
    <3>8. AnalysisInv(taken, exchanges)
      BY <3>4, AnalysisKept
    <3> QED
      BY <1>2, <3>1, <3>4, <3>7, <3>8, MatchedAnalysis
  <2> QED
    BY <2>3, <2>4
<1>4. ASSUME r.name = "dev_receive"
      PROVE  AnalysisInv(x, exchanges)
  <2> DEFINE y(pending) == [w EXCEPT !.pendingRecv[h] = pending]
             kept == (w.pendingRecv[h] \ SameSkb(w.pendingRecv[h], r.skb)) \cup {[skb |-> r.skb, time |-> r.time]}
  <2>1. x = w \/ x = y(kept)
    BY <1>4, Zenon DEF processEvent, dev_receive
  <2> HIDE DEF kept, x
  <2>2. SameAnalysis(w, y(kept))
    BY DEF IsMatching, SameAnalysis
  <2> HIDE DEF y
  <2>3. CASE x = w
    BY <2>3
  <2>4. CASE x = y(kept)
    BY <2>2, <2>4, AnalysisKept
  <2> QED
    BY <2>1, <2>3, <2>4
<1>5. ASSUME r.name = "tcpv4_rcv_extended"
      PROVE  AnalysisInv(x, exchanges)
  <2> DEFINE fs == SameSkb(w.pendingRecv[h], r.skb)
             frame == CHOOSE f \in fs : TRUE
             kept == w.pendingRecv[h] \ fs
             e == [trace |-> h, time |-> frame.time, key |-> r.key]
             u == [w EXCEPT !.pendingRecv[h] = kept]
             out == CHOOSE f \in SameKey(u.unMatchedOutE, e) : TRUE
             taken == [u EXCEPT !.unMatchedOutE = @ \ {out}]
             packet == [out |-> out, in |-> e]
  <2>1. CASE fs = {}
    <3>1. x = w
      BY <1>5, <2>1, Zenon DEF processEvent, tcpv4_rcv
    <3> QED
      BY <3>1
  <2>2. CASE fs # {}
    <3>1. x = MatchIn(u, e, exchanges)
      BY <1>5, <2>2, Zenon DEF processEvent, tcpv4_rcv
    <3>2. e.trace = h /\ e.key = r.key
      OBVIOUS
    <3> HIDE DEF kept
    <3>3. IsMatching(u) /\ SameAnalysis(w, u) /\ u.messages = w.messages /\ u.unMatchedOutE = w.unMatchedOutE
      BY DEF IsMatching, SameAnalysis
    <3> HIDE DEF u, e, x
    <3>4. AnalysisInv(u, exchanges)
      BY <3>3, AnalysisKept
    <3>5. CASE SameKey(u.unMatchedOutE, e) = {}
      <4> DEFINE y == [u EXCEPT !.unMatchedInE = (@ \ SameKey(@, e)) \cup {e}]
      <4>1. x = y
        BY <3>1, <3>5, Zenon DEF MatchIn
      <4>2. SameAnalysis(u, y)
        BY <3>3 DEF IsMatching, SameAnalysis
      <4> HIDE DEF y
      <4> QED
        BY <3>4, <4>1, <4>2, AnalysisKept
    <3>6. CASE SameKey(u.unMatchedOutE, e) # {}
      <4>1. x = Matched(taken, packet, exchanges)
        BY <3>1, <3>6, Zenon DEF MatchIn
      <4>2. out \in w.unMatchedOutE /\ out.key = e.key
        <5>1. out \in SameKey(u.unMatchedOutE, e)
          BY <3>6, Zenon
        <5> QED
          BY <3>3, <5>1 DEF SameKey
      <4>3. packet.out = out /\ packet.in = e
        OBVIOUS
      <4>4. IsMatching(taken) /\ SameAnalysis(u, taken) /\ taken.messages = u.messages
        BY <3>3 DEF IsMatching, SameAnalysis
      <4> HIDE DEF out, taken, packet
      <4>5. e.key # NotTcp /\ e.trace = e.key.daddr
        BY <1>5, <3>2 DEF IsTrue
      <4>6. IsSent(P, out.trace, out.time, out.key)
        BY <4>2 DEF EventsAreTrue
      <4>7. IsTrip(packet)
        BY <1>1, <4>2, <4>3, <4>5, <4>6 DEF IsTrip
      <4>8. AnalysisInv(taken, exchanges)
        BY <3>4, <4>4, AnalysisKept
      <4> QED
        BY <1>2, <3>3, <4>1, <4>4, <4>7, <4>8, MatchedAnalysis
    <3> QED
      BY <3>5, <3>6
  <2> QED
    BY <2>1, <2>2
<1> QED
  BY <1>3, <1>4, <1>5 DEF IsTrue

LEMMA NextAnalysis ==
  ASSUME MatchingInv, AnalysisInv(s, traffic.exchanges), [Next]_vars
  PROVE  AnalysisInv(s, traffic.exchanges)'
<1>1. traffic' = traffic
  BY DEF Next, Send, Retransmit, SendOther, Lose, Receive, ReceiveSegment, Idle, StartReading,
         ReadEvent, Finalize, vars
<1>2. CASE s' = s
  BY <1>1, <1>2
<1>3. CASE ReadEvent
  <2> DEFINE t == NextTrace
             rs == records[t]
  <2>1. /\ NetworkInv /\ IsMatching(s) /\ TracesAreTrue(Past, records, received, s)
        /\ EventsAreTrue(Past, s)
    BY DEF MatchingInv
  <2>2. s' = processEvent(s, t, Head(rs), traffic.exchanges)
    BY <1>3, Zenon DEF ReadEvent
  <2>3. ASSUME NEW h \in Traces, records[h] # << >>
        PROVE  IsTrue(Past, h, Head(records[h]))
    <3>1. RecordsAreTrue(Past, h, records[h], s.pendingRecv[h])
      BY <2>1 DEF TracesAreTrue
    <3>2. Len(records[h]) \in Nat \ {0} /\ Head(records[h]) = records[h][1]
      BY <2>3, <3>1, TailLemma DEF RecordsAreTrue
    <3>3. 1 \in 1 .. Len(records[h])
      BY <3>2
    <3> QED
      BY <3>1, <3>2, <3>3 DEF RecordsAreTrue
  <2>4. t \in Traces /\ rs # << >>
    <3>1. \A h \in Traces : records[h] # << >> => Head(records[h]).time \in Nat
      BY <2>3 DEF IsTrue
    <3> QED
      BY <1>3, <3>1, NextTraceLemma DEF ReadEvent
  <2> HIDE DEF t
  <2>5. /\ traffic.exchanges \in BOOLEAN
        /\ \A k \in DOMAIN Past.frames :
             Past.frames[k].key # NotTcp =>
               Past.frames[k].key.saddr \in Traces /\ Past.frames[k].key.daddr \in Traces
    BY <2>1 DEF NetworkInv, Traffic, Past
  <2>6. AnalysisInv(s', traffic.exchanges)
    BY <2>1, <2>2, <2>3, <2>4, <2>5, ProcessAnalysis
  <2> QED
    BY <1>1, <2>6
<1> QED
  BY <1>2, <1>3 DEF Next, Send, Retransmit, SendOther, Lose, Receive, ReceiveSegment, Idle,
                    StartReading, Finalize, vars

LEMMA InitAnalysis ==
  ASSUME Init
  PROVE  AnalysisInv(s, traffic.exchanges)
<1>1. s = [InitialState EXCEPT !.hulls = traffic.hulls]
  BY DEF Init
<1>2. /\ s.disorganized = FALSE /\ s.exchanges = {}
      /\ s.unAcked = [c \in Connections |-> << >>]
  BY <1>1 DEF InitialState, Connections
<1>3. IsList(<< >>) /\ Range(<< >>) = {}
  <2>1. << >> \in Seq({})
    OBVIOUS
  <2>2. IsList(<< >>)
    BY <2>1 DEF IsList
  <2> QED
    BY <2>2 DEF Range
<1> QED
  BY <1>2, <1>3 DEF AnalysisInv, IsQueue

-----------------------------------------------------------------------------
(* What the invariants say of the exchanges.                               *)

LEMMA ClockAdvances ==
  ASSUME NetworkInv, NEW h \in Traces, NEW t \in Nat, NEW u \in Nat, t < u
  PROVE  ClockAt(h, t) < ClockAt(h, u)
<1>1. traffic.start[h] \in Nat /\ traffic.rate[h] \in Nat \ {0}
  BY DEF NetworkInv, Traffic
<1>2. \A a, b \in Nat, r \in Nat \ {0} : a < b => r * a < r * b
  OBVIOUS
<1>3. traffic.rate[h] * t < traffic.rate[h] * u
  BY <1>1, <1>2
<1>4. traffic.rate[h] * t \in Nat /\ traffic.rate[h] * u \in Nat
  BY <1>1
<1> QED
  BY ONLY <1>1, <1>3, <1>4 DEF ClockAt

LEMMA DataSentOnceLemma ==
  ASSUME NetworkInv, NEW key, DataSentOnce(key),
         NEW k \in DOMAIN frames, Connection(frames[k].key) = Connection(key),
         frames[k].key.seq = key.seq, frames[k].key.len > 0,
         NEW j \in DOMAIN frames, Connection(frames[j].key) = Connection(key),
         frames[j].key.seq = key.seq, frames[j].key.len > 0
  PROVE  j = k
<1> DEFINE S == {i \in DOMAIN frames : /\ Connection(frames[i].key) = Connection(key)
                                       /\ frames[i].key.seq = key.seq /\ frames[i].key.len > 0}
<1>1. IsList(frames)
  BY DEF NetworkInv
<1>2. Len(frames) \in Nat /\ DOMAIN frames = 1 .. Len(frames)
  BY <1>1 DEF IsList
<1>3. IsFiniteSet(S)
  <2>1. IsFiniteSet(1 .. Len(frames)) /\ S \subseteq 1 .. Len(frames)
    BY <1>2, FS_Interval
  <2> QED
    BY <2>1, FS_Subset
<1>4. k \in S /\ j \in S /\ Cardinality(S) = 1
  BY DEF DataSentOnce
<1> HIDE DEF S
<1>5. PICK i : S = {i}
  BY <1>3, <1>4, FS_Singleton
<1> QED
  BY <1>4, <1>5

\* A message that was sent and received, of which no record is lost.
LEMMA FrameOfMessage ==
  ASSUME MatchingInv, NEW m \in s.messages, "dev_receive" \notin lost,
         \A j, k \in DOMAIN frames :
           frames[j].key = m.out.key /\ frames[k].key = m.out.key => j = k
  PROVE  \E k \in DOMAIN frames :
           /\ frames[k].key = m.out.key /\ m.out.key # NotTcp /\ frames[k].arrived > 0
           /\ m.out.time = ClockAt(m.out.trace, frames[k].sent)
           /\ m.in.time = ClockAt(m.in.trace, frames[k].arrived)
<1>1. Past.frames = frames /\ Past.lost = lost /\ \A h, t : Told(Past, h, t) = ClockAt(h, t)
  BY DEF Past, Told, ClockAt
<1>2. /\ m.in.key = m.out.key
      /\ IsSent(Past, m.out.trace, m.out.time, m.out.key)
      /\ IsReceived(Past, m.in.trace, m.in.time, m.out.key)
  BY DEF MatchingInv, EventsAreTrue, IsMessage
<1>3. PICK k \in DOMAIN frames :
        frames[k].key = m.out.key /\ m.out.time = ClockAt(m.out.trace, frames[k].sent)
  BY <1>1, <1>2 DEF IsSent
<1>4. m.out.key # NotTcp /\ IsArrival(Past, m.in.trace, m.in.time, m.out.key)
  BY <1>1, <1>2 DEF IsReceived
<1>5. PICK j \in DOMAIN frames :
        /\ frames[j].key = m.out.key /\ frames[j].arrived > 0
        /\ m.in.time = ClockAt(m.in.trace, frames[j].arrived)
  BY <1>1, <1>4 DEF IsArrival
<1>6. j = k
  BY <1>3, <1>5
<1> QED
  BY <1>3, <1>4, <1>5, <1>6

\* What an acknowledgement covers had arrived before it was sent.
LEMMA AcknowledgedHasArrived ==
  ASSUME NetworkInv, SequenceInv, traffic.exchanges,
         NEW k \in DOMAIN frames, frames[k].key # NotTcp,
         NEW j \in DOMAIN frames, frames[j].key # NotTcp, frames[j].key.len > 0,
         Connection(frames[j].key) = ReversedConnection(frames[k].key),
         SEQ_GT(frames[k].key.ack_seq, frames[j].key.seq),
         DataSentOnce(frames[j].key)
  PROVE  frames[j].arrived \in Nat \ {0} /\ frames[j].arrived < frames[k].sent
<1> DEFINE c == ReversedConnection(frames[k].key)
           ack == frames[k].key.ack_seq
           seq == frames[j].key.seq
           half == SeqMod \div 2
<1>1. /\ LeftInv /\ IsTcp(tcp) /\ FramesInv(frames, tcp, now)
      /\ TcpInv(frames, tcp, Len(frames), now)
  BY DEF SequenceInv
<1>2. IsSegment(frames, tcp, frames[k]) /\ IsTimed(frames[k], now)
  BY <1>1 DEF FramesInv
<1>3. IsSegment(frames, tcp, frames[j]) /\ IsTimed(frames[j], now)
  BY <1>1 DEF FramesInv
<1>4. /\ c \in Connections /\ ack \in Seqs /\ seq \in Seqs
      /\ Place(ack) <= Place(tcp[c].rcv_nxt) /\ IsKnown(frames, c, Place(ack), frames[k].sent)
      /\ frames[j].key.len = 1 /\ Place(seq) + 1 <= Place(tcp[c].snd_nxt)
  <2>1. c \in Connections /\ frames[j].key.len \in 0 .. 1
    BY <1>2, <1>3, ReversedLemma DEF IsSegment
  <2>2. frames[j].key.len = 1
    BY <2>1
  <2> QED
    BY <1>2, <1>3, <2>1, <2>2 DEF IsSegment
<1>5. Place(ack) \in Nat /\ Place(seq) \in Nat
  BY <1>4, NumbersFacts DEF Seqs
<1>6. Len(frames) \in Nat /\ Len(frames) <= half
  <2>1. IsList(frames) /\ traffic.frames \in Nat
    BY DEF NetworkInv, Traffic
  <2>2. Len(frames) \in Nat
    BY <2>1 DEF IsList
  <2> QED
    BY <1>1, <2>1, <2>2, NumbersFacts DEF LeftInv
<1>7. /\ Place(tcp[c].rcv_nxt) \in Nat /\ Place(tcp[c].snd_nxt) \in Nat
      /\ Place(tcp[c].rcv_nxt) <= Place(tcp[c].snd_nxt) /\ Place(tcp[c].snd_nxt) <= Len(frames)
  BY <1>1, <1>4, TcpFacts DEF TcpInv
<1>8. half \in Nat
  BY NumbersFacts
<1> HIDE DEF c, ack, seq, half
<1>9. Place(ack) <= half /\ Place(seq) <= half
  BY <1>4, <1>5, <1>6, <1>7, <1>8
<1>10. Place(seq) < Place(ack)
  BY <1>4, <1>9, GreaterNumber DEF half, ack, seq
<1>11. HasArrived(frames, c, Place(seq), frames[k].sent)
  <2>1. Place(seq) \in 0 .. Place(ack) - 1
    BY <1>5, <1>10
  <2> QED
    BY <1>4, <2>1 DEF IsKnown
<1>12. PICK i \in DOMAIN frames :
         /\ frames[i].key # NotTcp /\ Connection(frames[i].key) = c
         /\ Place(frames[i].key.seq) = Place(seq) /\ frames[i].key.len = 1
         /\ frames[i].arrived \in 1 .. frames[k].sent - 1
  BY <1>11 DEF HasArrived
<1>13. frames[i].key.seq = seq
  <2>1. IsSegment(frames, tcp, frames[i])
    BY <1>1, <1>12 DEF FramesInv
  <2>2. frames[i].key.seq \in Seqs
    BY <2>1 DEF IsSegment
  <2> QED
    BY <1>4, <1>12, <2>2, NumbersFacts
<1>14. i = j
  <2>1. Connection(frames[i].key) = Connection(frames[j].key) /\ frames[i].key.seq = frames[j].key.seq
    BY <1>12, <1>13 DEF c, seq
  <2>2. frames[i].key.len > 0
    BY <1>12
  <2> QED
    BY <2>1, <2>2, DataSentOnceLemma
<1>15. frames[k].sent \in Nat
  BY <1>2 DEF IsTimed
<1> QED
  BY <1>12, <1>14, <1>15

LEMMA AnalysisInvSuffices ==
  ASSUME MatchingInv, SequenceInv, AnalysisInv(s, traffic.exchanges)
  PROVE  ExchangesAreCausal
<1>1. ~ s.disorganized
  BY DEF AnalysisInv
<1>2. NetworkInv
  BY DEF MatchingInv
<1>3. SUFFICES ASSUME NEW e \in s.exchanges
               PROVE  /\ e.acked.in.trace = e.message.out.trace /\ e.acked.out.trace = e.message.in.trace
                      /\ SentOnce(e.message.out.key) /\ DataSentOnce(e.acked.out.key) /\ "dev_receive" \notin lost
                         => /\ e.acked.in.time < e.message.out.time
                            /\ e.acked.out.time < e.message.in.time
  BY <1>1 DEF ExchangesAreCausal
<1> DEFINE m == e.message
           a == e.acked
<1>4. traffic.exchanges /\ IsAnswer(s.messages, e)
  BY DEF AnalysisInv
<1>5. /\ m \in s.messages /\ a \in s.messages
      /\ Connection(a.in.key) = ReversedConnection(m.in.key)
      /\ SEQ_GT(m.in.key.ack_seq, a.in.key.seq) /\ a.in.key.len > 0
  BY <1>4 DEF IsAnswer, isAcking, needsAck
<1>6. ASSUME NEW x \in s.messages
      PROVE  /\ x.in.key = x.out.key /\ x.out.trace = x.in.key.saddr /\ x.in.trace = x.in.key.daddr
             /\ x.out.trace \in Traces /\ x.in.trace \in Traces
  <2>1. /\ x.in.key = x.out.key /\ IsSent(Past, x.out.trace, x.out.time, x.out.key)
        /\ x.in.key # NotTcp /\ x.in.trace = x.in.key.daddr
    BY DEF MatchingInv, EventsAreTrue, IsMessage, IsReceived
  <2>2. \E k \in DOMAIN frames : frames[k].key = x.in.key
    BY <2>1 DEF IsSent, Past
  <2> QED
    BY <1>2, <2>1, <2>2 DEF IsSent, NetworkInv
<1>7. /\ m.in.key = m.out.key /\ m.out.trace \in Traces /\ m.in.trace \in Traces
      /\ a.in.key = a.out.key
  BY <1>5, <1>6
<1>8. a.in.trace = m.out.trace /\ a.out.trace = m.in.trace
  BY <1>5, <1>6 DEF Connection, ReversedConnection
<1> HIDE DEF m, a
<1>9. ASSUME SentOnce(m.out.key), DataSentOnce(a.out.key), "dev_receive" \notin lost
      PROVE  a.in.time < m.out.time /\ a.out.time < m.in.time
  <2>1. PICK k \in DOMAIN frames :
          /\ frames[k].key = m.out.key /\ m.out.key # NotTcp /\ frames[k].arrived > 0
          /\ m.out.time = ClockAt(m.out.trace, frames[k].sent)
          /\ m.in.time = ClockAt(m.in.trace, frames[k].arrived)
    <3>1. \A j, k \in DOMAIN frames :
            frames[j].key = m.out.key /\ frames[k].key = m.out.key => j = k
      BY <1>2, <1>9, SentOnceLemma
    <3> QED
      BY <1>5, <1>9, <3>1, FrameOfMessage
  <2>2. PICK j \in DOMAIN frames :
          /\ frames[j].key = a.out.key /\ a.out.key # NotTcp /\ frames[j].arrived > 0
          /\ a.out.time = ClockAt(a.out.trace, frames[j].sent)
          /\ a.in.time = ClockAt(a.in.trace, frames[j].arrived)
    <3>1. \A i, j \in DOMAIN frames :
            frames[i].key = a.out.key /\ frames[j].key = a.out.key => i = j
      BY <1>2, <1>5, <1>7, <1>9, DataSentOnceLemma
    <3> QED
      BY <1>5, <1>9, <3>1, FrameOfMessage
  <2>3. frames[j].arrived \in Nat \ {0} /\ frames[j].arrived < frames[k].sent
    <3>1. /\ frames[j].key.len > 0 /\ DataSentOnce(frames[j].key)
          /\ Connection(frames[j].key) = ReversedConnection(frames[k].key)
          /\ SEQ_GT(frames[k].key.ack_seq, frames[j].key.seq)
      BY <1>5, <1>7, <1>9, <2>1, <2>2
    <3> QED
      BY <1>2, <1>4, <2>1, <2>2, <3>1, AcknowledgedHasArrived
  <2>4. IsTimed(frames[k], now) /\ IsTimed(frames[j], now)
    BY <1>4 DEF SequenceInv, FramesInv
  <2>5. /\ frames[j].sent \in Nat /\ frames[k].sent \in Nat /\ frames[k].arrived \in Nat
        /\ frames[j].sent < frames[j].arrived /\ frames[k].sent < frames[k].arrived
    BY <2>1, <2>3, <2>4 DEF IsTimed
  <2>6. frames[j].sent < frames[k].arrived
    BY <2>3, <2>5
  <2>7. a.in.time < m.out.time
    BY <1>2, <1>7, <1>8, <2>1, <2>2, <2>3, <2>5, ClockAdvances
  <2>8. a.out.time < m.in.time
    BY <1>2, <1>7, <1>8, <2>1, <2>2, <2>5, <2>6, ClockAdvances
  <2> QED
    BY <2>7, <2>8
<1> QED
  BY <1>8, <1>9 DEF m, a

\* Whatever is lost, sent again or read in whatever order, the exchanges that
\* matching hands to the analysis are of a segment and the acknowledgement of it
\* (event_matching_tcp.c, isAcking): the answering host had received the data
\* before it answered, if it was sent once and no record of a frame is lost, as
\* long as there are no more frames than half the sequence numbers; and the two
\* packets are always those of two hosts, each way.
THEOREM ExchangesAreTrue == ASSUME NumbersSuffice PROVE Spec => []ExchangesAreCausal
<1> DEFINE Inv == MatchingInv /\ SequenceInv /\ AnalysisInv(s, traffic.exchanges)
<1>1. Init => Inv
  BY InitMatchingInv, InitSequence, InitAnalysis
<1>2. Inv /\ [Next]_vars => Inv'
  <2>1. SUFFICES ASSUME Inv, [Next]_vars PROVE Inv'
    OBVIOUS
  <2>2. MatchingInv'
    BY <2>1, NextMatchingInv
  <2>3. SequenceInv'
    BY <2>1, NextSequence DEF MatchingInv
  <2>4. AnalysisInv(s, traffic.exchanges)'
    BY <2>1, NextAnalysis
  <2> QED
    BY <2>2, <2>3, <2>4
<1>3. Inv => ExchangesAreCausal
  BY AnalysisInvSuffices
<1> HIDE DEF Inv
<1> QED
  BY <1>1, <1>2, <1>3, PTL DEF Spec
=============================================================================
