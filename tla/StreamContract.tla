----------------------------- MODULE StreamContract ----------------------------
(***************************************************************************)
(* What a server stream promises between the service that produces it and  *)
(* the connection that sends it to the client                              *)
(* (thrift/lib/cpp2/async/StreamCallbacks.h): the items of each producer   *)
(* arrive in the order they were produced, none twice and none left out,   *)
(* no more of them than the client asked for, the end after all of them,   *)
(* and nothing after the end or after a cancellation.                      *)
(***************************************************************************)
EXTENDS Naturals, Sequences

CONSTANTS Producers

VARIABLES sent,      \* producer -> number of items it has produced
          finished,  \* has the service ended the stream?
          seen,      \* the items the client's side was given, in order
          granted,   \* how many items the client has asked for
          over       \* "open", "ended" or "cancelled"

vars == <<sent, finished, seen, granted, over>>

Init ==
  /\ sent = [p \in Producers |-> 0]
  /\ finished = FALSE
  /\ seen = <<>>
  /\ granted = 0
  /\ over = "open"

(* The numbers of the items of producer p that have arrived.               *)
Arrived(p) == {n \in 1..sent[p] : \E i \in DOMAIN seen : seen[i] = <<p, n>>}

Produce(p) ==
  /\ ~finished
  /\ sent' = [sent EXCEPT ![p] = @ + 1]
  /\ UNCHANGED <<finished, seen, granted, over>>

Finish ==
  /\ finished' = TRUE
  /\ UNCHANGED <<sent, seen, granted, over>>

Grant ==
  /\ over = "open"
  /\ granted' \in Nat /\ granted' > granted
  /\ UNCHANGED <<sent, finished, seen, over>>

Arrive(p) ==
  /\ over = "open"
  /\ Len(seen) < granted
  /\ \E n \in 1..sent[p] : /\ Arrived(p) = 1..(n - 1)
                          /\ seen' = Append(seen, <<p, n>>)
  /\ UNCHANGED <<sent, finished, granted, over>>

End ==
  /\ over = "open"
  /\ finished
  /\ \A p \in Producers : Arrived(p) = 1..sent[p]
  /\ over' = "ended"
  /\ UNCHANGED <<sent, finished, seen, granted>>

Cancel ==
  /\ over = "open"
  /\ over' = "cancelled"
  /\ UNCHANGED <<sent, finished, seen, granted>>

Next ==
  \/ \E p \in Producers : Produce(p) \/ Arrive(p)
  \/ Finish \/ Grant \/ End \/ Cancel

Spec == Init /\ [][Next]_vars

=============================================================================
