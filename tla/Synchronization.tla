--------------------------- MODULE Synchronization ---------------------------
(***************************************************************************)
(* Hosts that talk TCP while each of them is traced with a clock of its    *)
(* own, and the synchronization of their traces (sync_chain_lttv.c): the   *)
(* traces are read from the start to the end in the order of their clocks, *)
(* every network event is processed, and then factors are calculated and   *)
(* reduced.  The hosts, their kernels and the network are no part of the   *)
(* program; they are modelled as far as their records depend on them.      *)
(***************************************************************************)
EXTENDS EventMatching, FactorReduction

CONSTANT Traffics  \* what may happen, see Traffic

\* links: pairs of hosts that talk.  lens: lengths of their segments.
\* frames: number of frames sent, window: of those that are under way at once.  retransmissions, others: how many of them
\* are sent again, are not TCP.  losses: frames the network loses.
\* idle: moments nothing happens.  lostRecords: records the tracer loses.  skbs: addresses of buffers.  start, rate: the hosts' clocks.
\* exchanges: the analysis is by exchanges (linreg), not messages (chull).
\* hulls: what the part of the traces before gave.
Traffic ==
  [links : SUBSET (Traces \X Traces), lens : SUBSET (0 .. 1), frames : Nat,
   retransmissions : Nat, others : Nat, losses : Nat, lostRecords : Nat,
   window : Nat, idle : Nat, skbs : SUBSET Nat,
   start : [Traces -> Nat], rate : [Traces -> Nat \ {0}], exchanges : BOOLEAN,
   hulls : [Traces -> [Traces -> Seq([x : Nat, y : Nat])]]]

ASSUME SynchronizationAssumption == Traffics \subseteq Traffic

VARIABLES traffic,   \* the one that happens
          left,      \* how much of it is left
          now,       \* time no clock tells
          tcp,       \* the next sequence number to send and to receive per link
          wire,      \* frames in the network
          received,  \* frames a host received and has not handed to TCP yet
          frames,    \* the frames sent so far
          records,   \* the traces
          lost,      \* kinds of records that were lost
          phase,     \* tracing, reading or synchronized
          s,         \* the state of processing, matching and analysis
          result     \* the factors of pairs and what the reduction makes of them

network == <<tcp, wire, received, frames, records, lost, left, now>>
vars == <<traffic, left, now, tcp, wire, received, frames, records, lost, phase, s, result>>

Clock(h) == traffic.start[h] + traffic.rate[h] * now
\* Sequence numbers start before they wrap around.
FirstSeq == SeqMod - 1
NotTcp == [saddr |-> None, daddr |-> None, seq |-> 0, ack_seq |-> 0, len |-> 0, ack |-> FALSE]

Init ==
  /\ traffic \in Traffics
  /\ left = [frames |-> traffic.frames, retransmissions |-> traffic.retransmissions,
             others |-> traffic.others, losses |-> traffic.losses, idle |-> traffic.idle,
             lostRecords |-> traffic.lostRecords]
  /\ now = 0
  /\ tcp = [l \in Traces \X Traces |-> [snd_nxt |-> FirstSeq, rcv_nxt |-> FirstSeq]]
  /\ wire = {} /\ received = [h \in Traces |-> {}] /\ frames = << >>
  /\ records = [h \in Traces |-> << >>] /\ lost = {}
  /\ phase = "tracing"
  /\ s = [InitialState EXCEPT !.hulls = traffic.hulls]
  /\ result = << >>

\* A host makes a record, which the tracer keeps or loses.
Recorded(h, r) ==
  /\ \/ /\ records' = [records EXCEPT ![h] = Append(@, r)]
        /\ UNCHANGED lost
     \/ /\ left.lostRecords > 0
        /\ lost' = lost \cup {r.name}
        /\ UNCHANGED records

Spent(kinds) ==
  left' = [k \in DOMAIN left |->
             IF k = "lostRecords" THEN left[k] - (IF records' = records THEN 1 ELSE 0)
             ELSE IF k \in kinds THEN left[k] - 1 ELSE left[k]]

\* A frame of a host to another is put on the wire.  Its number tells it from
\* others with the same key.
Transmit(from, to, key) ==
  LET frame == [number |-> Len(frames) + 1, from |-> from, to |-> to, key |-> key]
  IN  /\ now' = now + 1
      /\ wire' = wire \cup {frame}
      /\ frames' = Append(frames, [key |-> key, sent |-> now, arrived |-> 0])
      /\ Recorded(from, [name |-> "dev_xmit_extended", key |-> key, skb |-> None,
                         time |-> Clock(from)])

Segment(h, g, seq, len) ==
  [saddr |-> h, daddr |-> g, seq |-> seq, ack_seq |-> tcp[<<g, h>>].rcv_nxt,
   len |-> len, ack |-> TRUE]

Sending ==
  /\ phase = "tracing" /\ left.frames > 0
  /\ Cardinality(wire) + Cardinality(UNION {received[h] : h \in Traces}) < traffic.window

\* New data, or a mere acknowledgement.
Send(h, g, len) ==
  /\ Sending
  /\ <<h, g>> \in traffic.links
  /\ Transmit(h, g, Segment(h, g, tcp[<<h, g>>].snd_nxt, len))
  /\ tcp' = [tcp EXCEPT ![<<h, g>>].snd_nxt = (@ + len) % SeqMod]
  /\ Spent({"frames"})
  /\ UNCHANGED <<traffic, received, phase, s, result>>

\* Data sent before is sent again as long as no acknowledgement arrived.
Acknowledged(h, g, seq) ==
  \E k \in DOMAIN frames :
    /\ frames[k].key.saddr = g /\ frames[k].key.daddr = h /\ frames[k].arrived > 0
    /\ SEQ_GT(frames[k].key.ack_seq, seq)

Retransmit(h, g) ==
  /\ Sending /\ left.retransmissions > 0
  /\ \E k \in DOMAIN frames :
       /\ frames[k].key.saddr = h /\ frames[k].key.daddr = g /\ frames[k].key.len > 0
       /\ ~ Acknowledged(h, g, frames[k].key.seq)
       /\ Transmit(h, g, Segment(h, g, frames[k].key.seq, 1))
  /\ Spent({"frames", "retransmissions"})
  /\ UNCHANGED <<traffic, tcp, received, phase, s, result>>

\* A frame of another protocol.
SendOther(h, g) ==
  /\ Sending /\ left.others > 0
  /\ <<h, g>> \in traffic.links
  /\ Transmit(h, g, NotTcp)
  /\ Spent({"frames", "others"})
  /\ UNCHANGED <<traffic, tcp, received, phase, s, result>>

Lose(frame) ==
  /\ phase = "tracing" /\ left.losses > 0
  /\ wire' = wire \ {frame}
  /\ left' = [left EXCEPT !.losses = @ - 1]
  /\ UNCHANGED <<traffic, now, tcp, received, frames, records, lost, phase, s, result>>

Idle ==
  /\ phase = "tracing" /\ left.idle > 0 /\ left.frames < traffic.frames
  /\ now' = now + 1
  /\ left' = [left EXCEPT !.idle = @ - 1]
  /\ UNCHANGED <<traffic, tcp, wire, received, frames, records, lost, phase, s, result>>

\* A frame arrives in a free buffer.  What is not TCP goes another way, and may
\* be of another protocol than IP, here ARP.
Protocols == {ETH_P_IP, 2054}

Receive(frame, skb, protocol) ==
  LET h == frame.to IN
  /\ phase = "tracing"
  /\ \A f \in received[h] : f.skb # skb
  /\ frame.key # NotTcp => protocol = ETH_P_IP
  /\ now' = now + 1
  /\ Recorded(h, [name |-> "dev_receive", protocol |-> protocol, skb |-> skb, time |-> Clock(h)])
  /\ wire' = wire \ {frame}
  /\ received' = IF frame.key = NotTcp THEN received
                 ELSE [received EXCEPT ![h] = @ \cup {[skb |-> skb, key |-> frame.key]}]
  /\ frames' = [frames EXCEPT ![frame.number].arrived = now]
  /\ Spent({})
  /\ UNCHANGED <<traffic, tcp, phase, s, result>>

\* TCP takes the segment: data that is next is acknowledged from now on.
ReceiveSegment(h, f) ==
  LET l == <<f.key.saddr, f.key.daddr>> IN
  /\ phase = "tracing"
  /\ Recorded(h, [name |-> "tcpv4_rcv_extended", key |-> f.key, skb |-> f.skb,
                  time |-> Clock(h)])
  /\ received' = [received EXCEPT ![h] = @ \ {f}]
  /\ tcp' = IF f.key.seq = tcp[l].rcv_nxt
            THEN [tcp EXCEPT ![l].rcv_nxt = (@ + f.key.len) % SeqMod] ELSE tcp
  /\ Spent({})
  /\ UNCHANGED <<traffic, now, wire, frames, phase, s, result>>

-----------------------------------------------------------------------------
\* syncTraceset, once the traces are there.
StartReading ==
  /\ phase = "tracing" /\ left.frames = 0 /\ wire = {} /\ \A h \in Traces : received[h] = {}
  /\ phase' = "reading"
  /\ UNCHANGED <<traffic, network, s, result>>

\* The next record by time, of the lowest trace if there are several.
NextTrace ==
  LET ready == {h \in Traces : records[h] # << >>}
      First(h) == Head(records[h]).time
  IN  Min({h \in ready : \A g \in ready : First(h) <= First(g)})

ReadEvent ==
  /\ phase = "reading" /\ ~ s.disorganized
  /\ \E h \in Traces : records[h] # << >>
  /\ s' = processEvent(s, NextTrace, Head(records[NextTrace]), traffic.exchanges)
  /\ records' = [records EXCEPT ![NextTrace] = Tail(@)]
  /\ UNCHANGED <<traffic, left, now, tcp, wire, received, frames, lost, phase, result>>

\* Factors of an analysis by exchanges are real numbers and not calculated.
Finalize ==
  /\ phase = "reading" /\ \A h \in Traces : records[h] = << >>
  /\ phase' = "synchronized"
  /\ result' = IF traffic.exchanges THEN << >>
               ELSE LET pairs == calculateAllFactors(s.hulls)
                    IN  [pairs |-> pairs, reduction |-> finalizeReduction(pairs)]
  /\ UNCHANGED <<traffic, network, s>>

Next ==
  \/ \E h, g \in Traces : \/ \E len \in traffic.lens : Send(h, g, len)
                          \/ Retransmit(h, g)
                          \/ SendOther(h, g)
  \/ \E frame \in wire : Lose(frame) \/ \E skb \in traffic.skbs, protocol \in Protocols : Receive(frame, skb, protocol)
  \/ \E h \in Traces : \E f \in received[h] : ReceiveSegment(h, f)
  \/ Idle \/ StartReading \/ ReadEvent \/ Finalize

Spec == Init /\ [][Next]_vars

-----------------------------------------------------------------------------
ClockAt(h, t) == traffic.start[h] + traffic.rate[h] * t
SentWith(key) == {k \in DOMAIN frames : frames[k].key = key}
SentOnce(key) == Cardinality(SentWith(key)) = 1
DataSentOnce(key) ==
  Cardinality({k \in DOMAIN frames : /\ Connection(frames[k].key) = Connection(key)
                                     /\ frames[k].key.seq = key.seq
                                     /\ frames[k].key.len > 0}) = 1

\* A message is made of the times a segment was really sent and received, by
\* the clocks of its hosts, whatever frames shared its buffers and in whatever
\* order the traces are read, if it was sent once and no frame's record is
\* lost; and no segment whose records are there is left out.
MessagesAreTransmissions ==
  /\ \A m \in s.messages :
       SentOnce(m.out.key) /\ "dev_receive" \notin lost =>
         \E k \in SentWith(m.out.key) :
           /\ frames[k].arrived > 0 /\ m.in.key = m.out.key
           /\ m.out.trace = m.out.key.saddr /\ m.out.time = ClockAt(m.out.trace, frames[k].sent)
           /\ m.in.trace = m.out.key.daddr /\ m.in.time = ClockAt(m.in.trace, frames[k].arrived)
  /\ phase = "synchronized" /\ lost = {} =>
       \A k \in DOMAIN frames :
         /\ frames[k].key # NotTcp /\ frames[k].key.saddr # frames[k].key.daddr
         /\ frames[k].arrived > 0 /\ SentOnce(frames[k].key)
         => \E m \in s.messages : m.out.key = frames[k].key

\* No analysis by exchanges sees more data than half the sequence numbers count,
\* or an old number may look like a new one.
NumbersSuffice == \A t \in Traffics : t.exchanges => t.frames <= SeqMod \div 2

\* The four times of an exchange are those of a message and an answer to it:
\* the answering host had received what it acknowledges, or the offset that
\* analyzeExchange takes from them is wrong.  Data sent several times is no
\* concern: which of them is acknowledged cannot be told.
ExchangesAreCausal ==
  /\ ~ s.disorganized
  /\ \A e \in s.exchanges :
       /\ e.acked.in.trace = e.message.out.trace /\ e.acked.out.trace = e.message.in.trace
       /\ SentOnce(e.message.out.key) /\ DataSentOnce(e.acked.out.key) /\ "dev_receive" \notin lost
          => e.acked.in.time < e.message.out.time /\ e.acked.out.time < e.message.in.time

\* With linear clocks there is a line between the hulls ("this means that an
\* assertion was false. Most probably, the clocks are not linear",
\* event_analysis_chull.c:1009), and the bounds hold the true drift.
DriftsAreBounded ==
  phase = "synchronized" /\ ~ traffic.exchanges =>
    \A a \in Traces, b \in Traces : b < a =>
      LET pair == result.pairs[a][b]
          drift == Unit * traffic.rate[a]
      IN  /\ pair.type \in {"ACCURATE", "INCOMPLETE", "ABSENT"}
          /\ IsLine(pair.min) => Drift(pair.min) * traffic.rate[b] <= drift
          /\ IsLine(pair.max) => Drift(pair.max) * traffic.rate[b] >= drift

\* Two traces have the same reference exactly if factors relate them, directly
\* or through others, every trace is followed by its predecessor on a shortest
\* path to its reference, and a direct neighbour gets the factors of its pair.
TracesAreRelated ==
  phase = "synchronized" /\ ~ traffic.exchanges =>
    LET Edge(i, j) == InitialDistance(result.pairs, i, j)
        d == result.reduction.distances
        p == result.reduction.predecessors
        references == result.reduction.references
    IN  \A i, j \in Traces :
          /\ \A k \in Traces : d[i][j] <= Plus(d[i][k], Edge(k, j))
          /\ i # j /\ d[i][j] # Infinity =>
               p[i][j] # j /\ d[i][j] = d[i][p[i][j]] + Edge(p[i][j], j)
          /\ references[i] = references[j] <=> d[i][j] # Infinity
          /\ i = references[j] /\ i # j /\ p[i][j] = i =>
               result.reduction.factors[j] = <<PairFactors(result.pairs, i, j)>>
=============================================================================
