------------------------------ MODULE Tracefile ------------------------------
(***************************************************************************)
(* The trace reading library (ltt/tracefile.c, ltt/event.c): a tracefile   *)
(* is a list of buffers of events, one of them mapped, and a cursor into   *)
(* it that all readers of the tracefile share.                             *)
(*                                                                         *)
(* An event's header holds the low TscBits bits of the cycle counter only; *)
(* the rest is carried on from the event before, so that the time of an    *)
(* event depends on how the cursor got there.                              *)
(***************************************************************************)
EXTENDS Integers, Sequences

CONSTANTS Tracefiles,  \* by number: its trace, its index in it, and its blocks
          Drift,       \* per trace: cycles to time, as synchronization sets it
          Offset,
          TscBits      \* tscbits

ASSUME TracefileAssumption ==
  /\ TscBits \in Nat
  /\ \A f \in DOMAIN Tracefiles :
       /\ Drift[Tracefiles[f].trace] \in Nat \ {0} /\ Offset[Tracefiles[f].trace] \in Nat
       /\ Tracefiles[f].blocks # <<>>
       /\ \A b \in DOMAIN Tracefiles[f].blocks :
            LET block == Tracefiles[f].blocks[b]
            IN  \A i \in DOMAIN block.events :
                  /\ block.begin <= block.events[i].tsc /\ block.events[i].tsc <= block.end
                  /\ i > 1 => block.events[i - 1].tsc <= block.events[i].tsc

NextBit == 2 ^ TscBits  \* tsc_mask_next_bit
Low(tsc) == tsc % NextBit

Blocks(f) == Tracefiles[f].blocks
Events(f, b) == Blocks(f)[b].events
NumBlocks(f) == Len(Blocks(f))

\* The tracer writes the whole counter where the low bits cannot be carried on.
Extended(f, b, i) ==
  LET before == IF i = 1 THEN Blocks(f)[b].begin ELSE Events(f, b)[i - 1].tsc
  IN  Events(f, b)[i].tsc - before >= NextBit

ltt_interpolate_time_from_tsc(f, tsc) ==
  Drift[Tracefiles[f].trace] * tsc + Offset[Tracefiles[f].trace]
Begin(f, b) == ltt_interpolate_time_from_tsc(f, Blocks(f)[b].begin)
End(f, b) == ltt_interpolate_time_from_tsc(f, Blocks(f)[b].end)

\* A cursor: the mapped block, the event in it (0 before the first, one past the
\* last at the end), and the counter and time of the event last read.
map_block(f, c, b) == [c EXCEPT !.block = b, !.offset = 0, !.tsc = Blocks(f)[b].begin]

\* The counter is carried on, past one overflow at most.
CarriedTsc(tsc, stamp) ==
  (tsc - Low(tsc)) + (IF stamp < Low(tsc) THEN NextBit ELSE 0) + stamp

ltt_tracefile_read_update_event(f, c) ==
  LET event == Events(f, c.block)[c.offset]
      tsc == IF Extended(f, c.block, c.offset) THEN event.tsc ELSE CarriedTsc(c.tsc, Low(event.tsc))
  IN  [c EXCEPT !.tsc = tsc, !.time = ltt_interpolate_time_from_tsc(f, tsc)]

\* The next event, in the mapped block or in the next one that has any.
RECURSIVE ltt_tracefile_read(_, _)
ltt_tracefile_read(f, c) ==
  LET last == Len(Events(f, c.block))
      next == [c EXCEPT !.offset = IF @ > last THEN @ ELSE @ + 1]
  IN  IF next.offset <= last THEN [cursor |-> ltt_tracefile_read_update_event(f, next), ret |-> "ok"]
      ELSE IF c.block = NumBlocks(f) THEN [cursor |-> next, ret |-> "ERANGE"]
      ELSE ltt_tracefile_read(f, map_block(f, c, c.block + 1))

IsAtOrAfter(f, b, t) == t >= End(f, b)
IsAfter(f, b, t) == t > End(f, b)

\* The binary search of the block with a time, which is neither before the first
\* nor after the last.  `high - low' is unsigned: with high below low the block
\* is none of the file, here 0, and the assertion of map_block fails.
BlockOf(f, t) ==
  LET search[range \in (1 .. NumBlocks(f)) \X (0 .. NumBlocks(f))] ==
        LET low == range[1] high == range[2] block_num == (high - low) \div 2 + low
        IN  IF high < low THEN 0
            ELSE IF high = low THEN low
            ELSE IF t < Begin(f, block_num) THEN search[<<low, block_num - 1>>]
            ELSE IF IsAfter(f, block_num, t) THEN search[<<block_num + 1, high>>]
            ELSE block_num
  IN  search[<<1, NumBlocks(f)>>]

RECURSIVE ReadUntil(_, _, _)
ReadOnUntil(f, read, t) ==
  IF read.ret = "ERANGE" \/ t <= read.cursor.time THEN read ELSE ReadUntil(f, read.cursor, t)
ReadUntil(f, c, t) == ReadOnUntil(f, ltt_tracefile_read(f, c), t)

SeekInBlock(f, c, b, t) ==
  IF b = 0 THEN [cursor |-> c, ret |-> "aborted"] ELSE ReadUntil(f, map_block(f, c, b), t)

ltt_tracefile_seek_time(f, c, t) ==
  IF t <= Begin(f, 1) THEN ltt_tracefile_read(f, map_block(f, c, 1))
  ELSE IF IsAfter(f, NumBlocks(f), t) THEN [cursor |-> map_block(f, c, NumBlocks(f)), ret |-> "ERANGE"]
  ELSE SeekInBlock(f, c, BlockOf(f, t), t)

\* A position of an event, and the seek to it.
ltt_event_position(c) == [block |-> c.block, offset |-> c.offset, tsc |-> c.tsc]

ltt_tracefile_seek_position(f, c, ep) ==
  ltt_tracefile_read_update_event(f, [map_block(f, c, ep.block) EXCEPT !.offset = ep.offset, !.tsc = ep.tsc])

\* Where ltt_tracefile_time_span_get leaves the cursor.
ltt_tracefile_time_span_get(f, c) == map_block(f, c, NumBlocks(f))
=============================================================================
