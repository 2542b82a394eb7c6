---------------------------- MODULE EventDelivery ----------------------------
(***************************************************************************)
(* What lttvwindow.h promises a viewer: "all events requested, and only    *)
(* them, will be delivered".  Each request gets the events it wants, in    *)
(* order, some at a time and each once, until it has them all or is        *)
(* withdrawn.  Requests are independent of each other here; that chunks of *)
(* events are shared between them is how EventsRequests implements this.   *)
(***************************************************************************)
EXTENDS Integers

CONSTANTS Ids, Events

VARIABLES wanted,     \* the events each request asks for
          delivered,  \* the events it got
          phase       \* what became of it

vars == <<wanted, delivered, phase>>

\* No event of W is missing from D before one that is there.
InOrder(D, W) == \A e \in D, d \in W : d < e => d \in D

Make(id) ==
  /\ phase[id] = "unmade"
  /\ phase'[id] = "waiting"
  /\ wanted'[id] \subseteq Events
  /\ delivered'[id] = {}

Deliver(id) ==
  /\ phase[id] = "waiting"
  /\ wanted'[id] = wanted[id]
  /\ delivered[id] \subseteq delivered'[id]
  /\ delivered'[id] \subseteq wanted[id]
  /\ InOrder(delivered'[id], wanted[id])
  /\ phase'[id] \in {"waiting", "ended", "withdrawn"}
  /\ phase'[id] = "ended" => delivered'[id] = wanted[id]

Rest(id) ==
  /\ phase'[id] = phase[id]
  /\ wanted'[id] = wanted[id]
  /\ delivered'[id] = delivered[id]

Init ==
  /\ wanted = [id \in Ids |-> {}]
  /\ delivered = [id \in Ids |-> {}]
  /\ phase = [id \in Ids |-> "unmade"]

Next == \A id \in Ids : Make(id) \/ Deliver(id) \/ Rest(id)

Spec == Init /\ [][Next]_vars
=============================================================================
