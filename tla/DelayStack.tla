----------------------------- MODULE DelayStack -----------------------------
(***************************************************************************)
(* The stack of delayed actions of the dependency analysis (sstack.c).     *)
(* Pushes, pops and events are queued as they are read.  A push that says  *)
(* so holds back everything until its pop is there, so that it is          *)
(* processed with all that was found out about it meanwhile.  A pair whose *)
(* pop was processed goes, once everything after it has gone.              *)
(*                                                                         *)
(* Adding an item gives the stack and the items that are processed then,   *)
(* in their order: processing them does not change the stack.  A pop has   *)
(* the data of its push.                                                   *)
(***************************************************************************)
EXTENDS Integers, Sequences, FiniteSets

NoPush == 0

sstack_new == [array |-> << >>, pushes |-> << >>, wait_pop_stack |-> << >>, proc_index |-> 0]

Item(type, data, wait) ==
  [type |-> type, data |-> data, wait_pop |-> wait, pushpop |-> NoPush, deletable |-> FALSE]
sstack_item_new_push(wait, data) == Item("PUSH", data, wait)
sstack_item_new_pop(data) == Item("POP", data, FALSE)
sstack_item_new_event(data) == [Item("EVENT", data, FALSE) EXCEPT !.deletable = TRUE]

LastOf(s) == s[Len(s)]
AllButLast(s) == SubSeq(s, 1, Len(s) - 1)

\* The push that the next pop ends, or NoPush.
LastPush(stack) == IF stack.pushes = << >> THEN NoPush ELSE LastOf(stack.pushes)

\* The items that are not processed yet.
Due(stack) == SubSeq(stack.array, stack.proc_index + 1, Len(stack.array))

IsWaiting(stack) == stack.wait_pop_stack # << >> /\ LastOf(stack.wait_pop_stack)

\* try_start_deleting: from the end to the first item that has to stay.
Deleted(array) ==
  SubSeq(array, 1, CHOOSE n \in 0 .. Len(array) :
                     /\ n > 0 => ~array[n].deletable
                     /\ \A i \in n + 1 .. Len(array) : array[i].deletable)

\* A pop that is processed is deletable, and so is its push.
MarkedDeletable(stack) ==
  [i \in DOMAIN stack.array |->
     IF \E j \in stack.proc_index + 1 .. Len(stack.array) :
          stack.array[j].type = "POP" /\ i \in {j, stack.array[j].pushpop}
     THEN [stack.array[i] EXCEPT !.deletable = TRUE]
     ELSE stack.array[i]]

\* All items are processed.
sstack_force_flush(stack) ==
  LET kept == Deleted(MarkedDeletable(stack))
  IN  [stack |-> [stack EXCEPT !.array = kept, !.proc_index = Len(kept)], due |-> Due(stack)]

\* Mutant: what waits for its pop is processed at once.
try_advance_eagerly(stack) == sstack_force_flush(stack)
try_advance_processing(stack) ==
  IF IsWaiting(stack) THEN [stack |-> stack, due |-> << >>] ELSE sstack_force_flush(stack)

AddPush(stack, item) ==
  try_advance_processing(
    [stack EXCEPT !.array = Append(@, item),
                  !.pushes = Append(@, Len(stack.array) + 1),
                  !.wait_pop_stack = Append(@, IsWaiting(stack) \/ item.wait_pop)])

AddPop(stack, item) ==
  IF stack.pushes = << >>
  THEN sstack_force_flush([stack EXCEPT !.array = Append(@, item)])
  ELSE try_advance_processing(
         [stack EXCEPT !.array = Append([@ EXCEPT ![LastPush(stack)].data = item.data],
                                        [item EXCEPT !.pushpop = LastPush(stack)]),
                       !.pushes = AllButLast(@),
                       !.wait_pop_stack = AllButLast(@)])

AddEvent(stack, item) == [stack |-> [stack EXCEPT !.array = Append(@, item)], due |-> << >>]

sstack_add_item(stack, item) ==
  CASE item.type = "PUSH" -> AddPush(stack, item)
    [] item.type = "POP" -> AddPop(stack, item)
    [] item.type = "EVENT" -> AddEvent(stack, item)
=============================================================================
