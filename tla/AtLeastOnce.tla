----------------------------- MODULE AtLeastOnce -----------------------------
(***************************************************************************)
(* What a client's Messenger::sendMsg() promises about the numbered        *)
(* messages it is given one after the other: the server processes copies   *)
(* of them in the order they were offered, a bounded number of times each, *)
(* and a message is reported as delivered only if it was processed.  A     *)
(* message reported as failed may have been processed too.                 *)
(***************************************************************************)
EXTENDS Naturals, Sequences, FiniteSets

CONSTANTS MaxMsgs,    \* number of messages offered
          MaxCopies   \* how often one message may be processed

VARIABLES offered,    \* messages 1..offered have been given to sendMsg()
          processed,  \* ids in the order the server processed them
          verdict     \* verdict[id]: what sendMsg() reported

vars == <<offered, processed, verdict>>

Init == offered = 0 /\ processed = <<>> /\ verdict = [id \in 1 .. MaxMsgs |-> "none"]

Copies(id) == {i \in DOMAIN processed : processed[i] = id}

Offer ==
  /\ offered < MaxMsgs
  /\ offered = 0 \/ verdict[offered] # "none"
  /\ offered' = offered + 1
  /\ UNCHANGED <<processed, verdict>>

Process(id) ==
  /\ id <= offered
  /\ \A i \in DOMAIN processed : processed[i] <= id
  /\ Cardinality(Copies(id)) < MaxCopies
  /\ processed' = Append(processed, id)
  /\ UNCHANGED <<offered, verdict>>

Conclude(id) ==
  /\ id = offered
  /\ verdict[id] = "none"
  /\ \/ verdict' = [verdict EXCEPT ![id] = "failed"]
     \/ Copies(id) # {} /\ verdict' = [verdict EXCEPT ![id] = "delivered"]
  /\ UNCHANGED <<offered, processed>>

Next == Offer \/ \E id \in 1 .. MaxMsgs : Process(id) \/ Conclude(id)

SafeSpec == Init /\ [][Next]_vars
Spec == SafeSpec /\ \A id \in 1 .. MaxMsgs : WF_vars(Conclude(id))
=============================================================================
