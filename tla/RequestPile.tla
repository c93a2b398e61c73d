------------------------------ MODULE RequestPile ------------------------------
(***************************************************************************)
(* What a request pile promises to the concurrency controller that drains  *)
(* it (thrift/lib/cpp2/server/RequestPileInterface.h): the pile is a set,  *)
(* every accepted request is handed out once or discarded once, and a      *)
(* dequeue comes back empty-handed only if each request in the pile came   *)
(* too late or was in a bucket that another thread was busy with.          *)
(* ParallelConcurrencyController is written against this promise, and      *)
(* RoundRobinRequestPile implements it.                                    *)
(***************************************************************************)
CONSTANTS Requests, Threads

VARIABLES fresh,   \* requests that have not been offered yet
          pile,    \* requests in the pile
          at,      \* thread -> where it is in the pile
          missed   \* thread -> requests its dequeue cannot find any more

vars == <<fresh, pile, at, missed>>

Init ==
  /\ fresh = Requests
  /\ pile = {}
  /\ at = [t \in Threads |-> "out"]
  /\ missed = [t \in Threads |-> {}]

Goto(t, place) == at' = [at EXCEPT ![t] = place]

Push(t, r) ==
  /\ at[t] = "out"
  /\ r \in fresh
  /\ fresh' = fresh \ {r}
  /\ pile' = pile \union {r}
  /\ \E place \in {"out", "index"} : Goto(t, place)
  /\ missed' = [u \in Threads |->
       IF at[u] = "dequeue" THEN missed[u] \union {r} ELSE missed[u]]

Publish(t) ==
  /\ at[t] = "index"
  /\ Goto(t, "out")
  /\ UNCHANGED <<fresh, pile, missed>>

Reject(t, r) ==
  /\ at[t] = "out"
  /\ r \in fresh
  /\ fresh' = fresh \ {r}
  /\ UNCHANGED <<pile, at, missed>>

Begin(t) ==
  /\ at[t] = "out"
  /\ Goto(t, "dequeue")
  /\ UNCHANGED <<fresh, pile, missed>>

(* Another thread has a bucket in its hands, which nobody else finds.      *)
Busy(t) ==
  \E u \in Threads \ {t} : at[u] \in {"index", "claim", "drive", "arm"}

Pass(t, hidden) ==
  /\ at[t] = "dequeue"
  /\ Busy(t)
  /\ missed' = [missed EXCEPT ![t] = @ \union hidden]
  /\ UNCHANGED <<fresh, pile, at>>

Take(t, r) ==
  /\ at[t] = "dequeue"
  /\ r \in pile
  /\ pile' = pile \ {r}
  /\ Goto(t, "out")
  /\ missed' = [missed EXCEPT ![t] = {}]
  /\ UNCHANGED fresh

(* The first request of a bucket that is now in the thread's hands, ...    *)
Claim(t, r) ==
  /\ at[t] \in {"dequeue", "drive"}
  /\ r \in pile
  /\ pile' = pile \ {r}
  /\ Goto(t, "claim")
  /\ missed' = [missed EXCEPT ![t] = {}]
  /\ UNCHANGED fresh

(* ... which is returned, or discarded because it has expired.             *)
Keep(t) ==
  /\ at[t] = "claim"
  /\ Goto(t, "arm")
  /\ UNCHANGED <<fresh, pile, missed>>

Discard(t) ==
  /\ at[t] = "claim"
  /\ Goto(t, "drive")
  /\ UNCHANGED <<fresh, pile, missed>>

Rearm(t) ==
  /\ at[t] = "arm"
  /\ Goto(t, "out")
  /\ UNCHANGED <<fresh, pile, missed>>

Empty(t) ==
  /\ \/ at[t] = "dequeue" /\ (pile \subseteq missed[t] \/ Busy(t))
     \/ at[t] = "drive"
  /\ Goto(t, "out")
  /\ missed' = [missed EXCEPT ![t] = {}]
  /\ UNCHANGED <<fresh, pile>>

Next ==
  \E t \in Threads :
    \/ \E r \in Requests :
         Push(t, r) \/ Reject(t, r) \/ Take(t, r) \/ Claim(t, r)
    \/ Publish(t)
    \/ Begin(t)
    \/ \E hidden \in SUBSET Requests : Pass(t, hidden)
    \/ Keep(t)
    \/ Discard(t)
    \/ Rearm(t)
    \/ Empty(t)

Spec == Init /\ [][Next]_vars

=============================================================================
