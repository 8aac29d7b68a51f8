----------------------------- MODULE EventDelivery -----------------------------
(***************************************************************************)
(* What the durable queues promise of a signed provider event: once it is  *)
(* received it is handled and then starts its workflow, each at least      *)
(* once, or it is rejected without an effect.  Nothing that is reached is  *)
(* ever taken back.                                                        *)
(***************************************************************************)
CONSTANTS
    Event,      \* the events
    Invalid,    \* those whose handler reports a permanent error
    Poison      \* those whose handler fails every time, without saying so

VARIABLE progress   \* progress[e]: how far event e has got

Progress == {"UNKNOWN", "RECEIVED", "HANDLED", "STARTED", "REJECTED"}

Init == progress = [e \in Event |-> "UNKNOWN"]

Advance(e, from, to) ==
    progress[e] = from /\ progress' = [progress EXCEPT ![e] = to]

Receive(e) == Advance(e, "UNKNOWN", "RECEIVED")
Handle(e)  == e \notin Invalid \cup Poison /\ Advance(e, "RECEIVED", "HANDLED")
Start(e)   == Advance(e, "HANDLED", "STARTED")
Reject(e)  == e \in Invalid /\ Advance(e, "RECEIVED", "REJECTED")

Next == \E e \in Event : Receive(e) \/ Handle(e) \/ Start(e) \/ Reject(e)

Fairness == \A e \in Event : WF_progress(Handle(e) \/ Start(e) \/ Reject(e))

SafeSpec == Init /\ [][Next]_progress
Spec == SafeSpec /\ Fairness
===============================================================================
