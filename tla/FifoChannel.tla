----------------------------- MODULE FifoChannel -----------------------------
(***************************************************************************)
(* What a user of ThreadSafeQueue<T> relies on, with no lock, condition    *)
(* variable or notification in sight: a closable channel that hands every  *)
(* accepted value to exactly one receiver, in order, and loses none of     *)
(* them when it is closed.                                                 *)
(***************************************************************************)
EXTENDS Sequences, Naturals

CONSTANTS Items,       \* the values sent through the channel
          MaxEnqueues  \* bound on the number of values accepted

VARIABLES chan,        \* values accepted and not yet received
          closed,      \* TRUE once the channel refuses new values
          received     \* values received so far, in order

vars == <<chan, closed, received>>

Init == chan = <<>> /\ closed = FALSE /\ received = <<>>

Send(v) ==
  /\ ~closed
  /\ Len(received) + Len(chan) < MaxEnqueues
  /\ chan' = Append(chan, v)
  /\ UNCHANGED <<closed, received>>

Receive ==
  /\ chan # <<>>
  /\ received' = Append(received, Head(chan))
  /\ chan' = Tail(chan)
  /\ UNCHANGED closed

Close ==
  /\ closed' = TRUE
  /\ UNCHANGED <<chan, received>>

Next == Receive \/ Close \/ \E v \in Items : Send(v)

SafeSpec == Init /\ [][Next]_vars
Spec == SafeSpec /\ WF_vars(Receive)
=============================================================================
