---------------------------- MODULE EventMatching ----------------------------
(***************************************************************************)
(* Time synchronization's first half: network events of the traces are     *)
(* made events of segments (event_processing_lttng_standard.c), these are  *)
(* paired into messages and exchanges (event_matching_tcp.c), and handed   *)
(* to the analysis.  The state s is what both modules keep between events. *)
(***************************************************************************)
EXTENDS ConvexHull, GSList

CONSTANT SeqMod  \* modulus of sequence numbers, 2^32 in the code

ASSUME EventMatchingAssumption == SeqMod \in Nat \ {0} /\ SeqMod % 2 = 0

\* The key of a segment: the addresses are those of the traced hosts, and the
\* only ones of each.  A synchronization event is of a trace, has the time of
\* its clock and a key; a message is [out |-> event, in |-> event].
Connection(key) == <<key.saddr, key.daddr>>
ReversedConnection(key) == <<key.daddr, key.saddr>>

SEQ_GT(a, b) == (a - b) % SeqMod \in 1 .. SeqMod \div 2 - 1
\* Mutant: a segment is acknowledged by its own sequence number.
SEQ_GEQ(a, b) == (a - b) % SeqMod \in 0 .. SeqMod \div 2 - 1

\* Mutant: as SEQ_GEQ.
isAckingItself(ack, acked) == SEQ_GEQ(ack.in.key.ack_seq, acked.in.key.seq)
isAcking(ack, acked) == SEQ_GT(ack.in.key.ack_seq, acked.in.key.seq)
isAck(packet) == packet.in.key.ack
\* Data, the start or the end of a connection take numbers and are acknowledged.
needsAck(packet) == packet.in.key.len > 0

InitialState ==
  [pendingRecv |-> [t \in Traces |-> {}],
   unMatchedOutE |-> {}, unMatchedInE |-> {},
   unAcked |-> [c \in Traces \X Traces |-> << >>],
   hulls |-> EmptyHulls,
   messages |-> {}, exchanges |-> {},  \* what analyses were given
   disorganized |-> FALSE]

-----------------------------------------------------------------------------
\* The acknowledged packets leave the queue of their connection; the analysis
\* uses the last one of them.
Acked(s, packet) ==
  {k \in DOMAIN s.unAcked[ReversedConnection(packet.in.key)] :
     isAcking(packet, s.unAcked[ReversedConnection(packet.in.key)][k])}

AnalyzeAck(s, packet) ==
  LET c == ReversedConnection(packet.in.key)
      queue == s.unAcked[c]
      acked == queue[Max(Acked(s, packet))]
  IN  IF ~ isAck(packet) \/ Acked(s, packet) = {} THEN s
      ELSE LET left == [s EXCEPT !.unAcked[c] =
                          Keep(queue, {q \in Range(queue) : ~ isAcking(packet, q)})]
           IN  IF acked.out.trace # packet.in.trace \/ acked.in.trace # packet.out.trace
               THEN [left EXCEPT !.disorganized = TRUE]
               ELSE [left EXCEPT !.exchanges = @ \cup {[message |-> packet, acked |-> acked]}]

Await(s, packet) ==
  IF needsAck(packet) /\ ~ s.disorganized
  THEN [s EXCEPT !.unAcked[Connection(packet.in.key)] = Append(@, packet)] ELSE s

\* A packet of which both events are known.  `exchanges' tells which analysis
\* is used: the convex hull takes messages, the linear regression exchanges.
Matched(s, packet, exchanges) ==
  IF packet.in.trace = packet.out.trace THEN s  \* loopback
  ELSE IF exchanges
  THEN Await(AnalyzeAck([s EXCEPT !.messages = @ \cup {packet}], packet), packet)
  ELSE [s EXCEPT !.messages = @ \cup {packet}, !.hulls = analyzeMessage(@, packet)]

SameKey(events, e) == {f \in events : f.key = e.key}

\* matchEvents for a received segment, and for a sent one.
MatchIn(s, e, exchanges) ==
  IF SameKey(s.unMatchedOutE, e) = {}
  THEN [s EXCEPT !.unMatchedInE = (@ \ SameKey(@, e)) \cup {e}]
  ELSE LET out == CHOOSE f \in SameKey(s.unMatchedOutE, e) : TRUE
       IN  Matched([s EXCEPT !.unMatchedOutE = @ \ {out}], [out |-> out, in |-> e], exchanges)

MatchOut(s, e, exchanges) ==
  IF SameKey(s.unMatchedInE, e) = {}
  THEN [s EXCEPT !.unMatchedOutE = (@ \ SameKey(@, e)) \cup {e}]
  ELSE LET in == CHOOSE f \in SameKey(s.unMatchedInE, e) : TRUE
       IN  Matched([s EXCEPT !.unMatchedInE = @ \ {in}], [out |-> e, in |-> in], exchanges)

-----------------------------------------------------------------------------
\* processEventLTTVStandard, for the three records of TCP.
SameSkb(frames, skb) == {f \in frames : f.skb = skb}

ETH_P_IP == 2048

\* Mutant: a frame does not replace an earlier one in the same buffer.
dev_receive_kept(s, t, r) ==
  IF r.protocol # ETH_P_IP \/ SameSkb(s.pendingRecv[t], r.skb) # {} THEN s
  ELSE [s EXCEPT !.pendingRecv[t] = @ \cup {[skb |-> r.skb, time |-> r.time]}]

dev_receive(s, t, r) ==
  IF r.protocol # ETH_P_IP THEN s
  ELSE [s EXCEPT !.pendingRecv[t] =
          (@ \ SameSkb(@, r.skb)) \cup {[skb |-> r.skb, time |-> r.time]}]

\* The time of the segment is that of its frame.  Without a frame the record
\* is ignored: events were lost.
tcpv4_rcv(s, t, r, exchanges) ==
  LET frames == SameSkb(s.pendingRecv[t], r.skb)
      frame == CHOOSE f \in frames : TRUE
  IN  IF frames = {} THEN s
      ELSE MatchIn([s EXCEPT !.pendingRecv[t] = @ \ frames],
                   [trace |-> t, time |-> frame.time, key |-> r.key], exchanges)

\* The test of the protocol never holds (event_processing_lttng_standard.c:371),
\* so frames of other protocols make events too, whose keys are made of fields
\* that are not theirs.
dev_xmit(s, t, r, exchanges) ==
  MatchOut(s, [trace |-> t, time |-> r.time, key |-> r.key], exchanges)

processEvent(s, t, r, exchanges) ==
  CASE r.name = "dev_xmit_extended" -> dev_xmit(s, t, r, exchanges)
    [] r.name = "dev_receive" -> dev_receive(s, t, r)
    [] r.name = "tcpv4_rcv_extended" -> tcpv4_rcv(s, t, r, exchanges)
=============================================================================
