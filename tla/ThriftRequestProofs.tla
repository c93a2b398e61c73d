-------------------------- MODULE ThriftRequestProofs --------------------------
(***************************************************************************)
(* What the runs check of the life of a request on three requests and two  *)
(* workers, for any number of both: one answer, no handler for a request   *)
(* that was shed, a count of active requests that only stray completions   *)
(* lower, and a worker that is joined once, drained.                       *)
(***************************************************************************)
EXTENDS ThriftRequest, FiniteSetTheorems, TLAPS

(* Most steps are first-order; the ones that need arithmetic, records or   *)
(* sequences cite SMTT.                                                    *)
USE ZenonT(30)

(* What the two flags of RequestStateMachine say of the answer, and of the *)
(* handler; a stopping worker has stopped what was queued.                 *)
Unanswered(r) == sent[r] = <<>>
Single(r) == Len(sent[r]) <= 1
Shed(r) == sent[r] # <<>> /\ sent[r][1] = "queueTimeout"

Answers ==
  \A r \in Requests :
    /\ Single(r)
    /\ r \in Oneway \/ ~cancelled[r] => Unanswered(r)
    /\ ran[r] /\ r \notin Oneway => stopped[r]
    /\ Shed(r) => stopped[r] /\ ~ran[r]
    /\ stopping[Owner[r]] /\ stage[r] \in {"admitted", "queued", "claim"} =>
         cancelled[r] \/ stopped[r]

(* A connection holds its worker's guard until it is destroyed, drained.   *)
Drain ==
  \A w \in Workers :
    /\ guards[w] = IF conn[w] = "closed" THEN 0 ELSE 1
    /\ baton[w] = IF conn[w] = "closed" /\ stopping[w] THEN 1 ELSE 0
    /\ conn[w] = "closed" => ~InFlight(w)

(* A worker's thread is in one callback at a time.                         *)
Lowering == {"dec", "closedDec", "strayDec"}
InCallback == {"admitted", "refused"} \union Lowering
OneCallback ==
  \A r, s \in Requests :
    /\ stage[r] \in InCallback /\ stage[s] \in InCallback
    /\ Owner[r] = Owner[s]
    => r = s

(* The requests that passed the overload check, those included that are    *)
(* not counted yet.                                                        *)
Entering == {r \in Requests : stage[r] = "admitted"}
Passed == Admitted \union Entering
Overshoot ==
  Tracking /\ MaxRequests > 0 =>
    Cardinality(Passed \ Bypass)
      <= MaxRequests + Cardinality(Limited) - 1 + Cardinality(Strayed)

(* The count of active requests; a thread lowers it only if it is kept.    *)
Count ==
  /\ ~Tracking => active = 0 /\ \A r \in Requests : stage[r] \notin Lowering
  /\ Tracking => /\ Cardinality(Counted) - Cardinality(Strayed) <= active
                 /\ active <= Cardinality(Counted)

IInv == /\ TypeOK /\ Answers /\ Drain /\ OneCallback
        /\ Count
        /\ Overshoot

-----------------------------------------------------------------------------
(* How a request moves.  The count of active requests changes with its     *)
(* stage only.                                                             *)
Closes(r) == /\ conn[Owner[r]] # "closed"
             /\ conn' = [conn EXCEPT ![Owner[r]] = "closing"]
Moved(r, s) ==
  /\ stage'[r] = s
  /\ \A q \in Requests \ {r} : stage'[q] = stage[q]
  /\ UNCHANGED <<stopping, guards, baton>>
  /\ UNCHANGED conn \/ Closes(r)
Counts == active' = IF Tracking THEN active + 1 ELSE active

Enters(r) == /\ stage[r] = "new" /\ conn[Owner[r]] = "open" /\ ~Busy(Owner[r])
             /\ \/ Moved(r, "refused")
                \/ /\ Moved(r, "admitted")
                   /\ Tracking /\ MaxRequests > 0 =>
                        r \in Bypass \/ active < MaxRequests
             /\ active' = active
IsCounted(r) == /\ \/ stage[r] = "new" /\ conn[Owner[r]] = "open"
                      /\ Moved(r, "destroyed")
                   \/ /\ stage[r] \in {"admitted", "refused"}
                      /\ Moved(r, "destroyed")
                   \/ stage[r] = "admitted" /\ Moved(r, "queued")
                   \/ stage[r] = "admitted" /\ Moved(r, "closed")
                /\ Counts
IsRefused(r) == /\ stage[r] = "new" /\ conn[Owner[r]] = "open"
                /\ Moved(r, "stray")
                /\ active' = active
Proceeds(r) == /\ stage[r] \in {"queued", "claim", "running", "posted"}
               /\ \E s \in {"claim", "running", "posted", "destroyed"} :
                    Moved(r, s)
               /\ active' = active
Skips(r) == /\ ~Tracking \/ active <= 0
            /\ \/ /\ stage[r] \in {"destroyed", "closed"}
                  /\ Moved(r, "stray") \/ Moved(r, "complete")
               \/ stage[r] = "stray" /\ Moved(r, "complete")
            /\ active' = active
Completes(r) == /\ Tracking /\ ~Busy(Owner[r])
                /\ \/ stage[r] = "destroyed" /\ Moved(r, "dec")
                   \/ stage[r] = "closed" /\ Moved(r, "closedDec")
                   \/ stage[r] = "stray" /\ Moved(r, "strayDec")
                /\ active' = active
IsUncounted(r) == /\ \/ /\ stage[r] \in {"dec", "closedDec"}
                        /\ Moved(r, "stray") \/ Moved(r, "complete")
                     \/ stage[r] = "strayDec" /\ Moved(r, "strayed")
                  /\ active' = active - 1
Stays == UNCHANGED <<stage, active, worker>>

Moves(r) == \/ Enters(r) \/ IsCounted(r) \/ IsRefused(r) \/ Proceeds(r)
            \/ Skips(r) \/ Completes(r) \/ IsUncounted(r) \/ Stays

(* Every step of a request is one of these.                                *)
LEMMA RequestMoves ==
  ASSUME TypeOK, Drain, NEW r \in Requests, IOStep(r) \/ ExecutorStep(r)
  PROVE  Moves(r)
<1>1. ASSUME NEW s, Goto(r, s),
             UNCHANGED worker
               \/ (CloseConnection(Owner[r]) /\ conn[Owner[r]] # "closed")
      PROVE  Moved(r, s)
  <2>1. /\ stage'[r] = s
        /\ \A q \in Requests \ {r} : stage'[q] = stage[q]
    BY <1>1 DEF TypeOK, Goto
  <2>2. CASE UNCHANGED worker
    BY <2>1, <2>2 DEF Moved, worker
  <2>3. CASE CloseConnection(Owner[r]) /\ conn[Owner[r]] # "closed"
    <3>1. Owner[r] \in Workers
      BY RequestAssumption
    <3>2. conn[Owner[r]] \in {"open", "closing"}
      BY <2>3, <3>1 DEF TypeOK
    <3>3. conn' = [conn EXCEPT ![Owner[r]] = "closing"]
      <4>1. CASE conn[Owner[r]] = "open"
        BY <2>3, <4>1 DEF CloseConnection
      <4>2. CASE conn[Owner[r]] = "closing"
        BY <2>3, <4>2, <3>1 DEF CloseConnection, TypeOK
      <4> QED  BY <3>2, <4>1, <4>2
    <3> QED  BY <2>1, <2>3, <3>3 DEF Moved, Closes, CloseConnection
  <2> QED  BY <1>1, <2>2, <2>3
<1>2. CASE Arrive(r)
  <2>1. /\ stage[r] = "new" /\ conn[Owner[r]] = "open" /\ ~Busy(Owner[r])
        /\ active' = active /\ UNCHANGED worker
    BY <1>2 DEF Arrive
  <2>2. CASE OverMaxRequests(r)
    BY <1>1, <1>2, <2>1, <2>2 DEF Arrive, Moves, Enters
  <2>3. CASE ~OverMaxRequests(r)
    <3>1. Moved(r, "admitted")
      BY <1>1, <1>2, <2>1, <2>3 DEF Arrive
    <3>2. Tracking /\ MaxRequests > 0 => r \in Bypass \/ active < MaxRequests
      BY <2>3, RequestAssumption, SMTT(30) DEF OverMaxRequests, TypeOK
    <3> QED  BY <2>1, <3>1, <3>2 DEF Moves, Enters
  <2> QED  BY <2>2, <2>3
<1>3. CASE RefuseEarly(r) \/ Dispatch(r) \/ RefuseLate(r)
  BY <1>1, <1>3 DEF RefuseEarly, Dispatch, RefuseLate, Destroy, Moves,
                    IsCounted, IncActiveRequests, Counts
<1>4. CASE RefuseFrame(r)
  BY <1>1, <1>4 DEF RefuseFrame, Moves, IsRefused
<1>5. CASE RefuseByClosing(r)
  <2>1. conn[Owner[r]] # "closed"
    BY <1>5, RequestAssumption DEF RefuseByClosing, Drain, InFlight
  <2> QED
    BY <1>1, <1>5, <2>1 DEF RefuseByClosing, Moves, IsCounted,
                            IncActiveRequests, Counts
<1>6. CASE QueueTimeout(r) \/ TaskTimeout(r)
  BY <1>6 DEF QueueTimeout, TaskTimeout, Moves, Stays
<1>7. CASE Deliver(r)
  <2>1. stage[r] = "posted"
    BY <1>7 DEF Deliver, TypeOK
  <2> QED
    BY <1>1, <1>7, <2>1 DEF Deliver, Destroy, Moves, Proceeds
<1>8. CASE RequestComplete(r)
  <2>1. /\ stage[r] \in {"destroyed", "closed", "stray"} /\ ~Busy(Owner[r])
        /\ active' = active /\ UNCHANGED worker
    BY <1>8 DEF RequestComplete
  <2>2. CASE ~Tracking \/ active <= 0
    <3>1. Moved(r, Completed(r))
      BY <1>1, <1>8, <2>1, <2>2 DEF RequestComplete
    <3> QED  BY <2>1, <2>2, <3>1 DEF Completed, Moves, Skips
  <2>3. CASE Tracking /\ ~(active <= 0)
    <3>1. \/ stage[r] = "destroyed" /\ Goto(r, "dec")
          \/ stage[r] = "closed" /\ Goto(r, "closedDec")
          \/ stage[r] = "stray" /\ Goto(r, "strayDec")
      BY <1>8, <2>1, <2>3, SMTT(30) DEF RequestComplete
    <3> QED  BY <1>1, <2>1, <2>3, <3>1 DEF Moves, Completes
  <2> QED  BY <2>2, <2>3, RequestAssumption
<1>9. CASE DecActiveRequests(r)
  BY <1>1, <1>9 DEF DecActiveRequests, Completed, Moves, IsUncounted
<1>10. CASE ExecutorStep(r)
  BY <1>1, <1>10 DEF ExecutorStep, StartOneway, CheckCancelled, Claim, Finish,
                     Abandon, Post, Moves, Proceeds
<1> QED
  BY <1>2, <1>3, <1>4, <1>5, <1>6, <1>7, <1>8, <1>9, <1>10 DEF IOStep

-----------------------------------------------------------------------------
(* The sets that are counted are finite.                                   *)
LEMMA FiniteCounts ==
  /\ IsFiniteSet(Counted) /\ Cardinality(Counted) \in Nat
  /\ IsFiniteSet(Counted)' /\ Cardinality(Counted)' \in Nat
  /\ IsFiniteSet(Strayed) /\ Cardinality(Strayed) \in Nat
  /\ IsFiniteSet(Strayed)' /\ Cardinality(Strayed)' \in Nat
  /\ IsFiniteSet(Passed \ Bypass) /\ Cardinality(Passed \ Bypass) \in Nat
  /\ IsFiniteSet(Passed \ Bypass)' /\ Cardinality(Passed \ Bypass)' \in Nat
  /\ IsFiniteSet(Limited) /\ Cardinality(Limited) \in Nat
<1>1. /\ Counted \in SUBSET Requests /\ Counted' \in SUBSET Requests
      /\ Strayed \in SUBSET Requests /\ Strayed' \in SUBSET Requests
      /\ Passed \ Bypass \in SUBSET Requests
      /\ (Passed \ Bypass)' \in SUBSET Requests
  BY DEF Counted, Strayed, Passed, Admitted, Entering
<1>2. Limited \in SUBSET Workers
  BY RequestAssumption DEF Limited
<1> QED
  BY <1>1, <1>2, FS_Subset, FS_CardinalityType, RequestAssumption

(* Every path counts a request once and uncounts it once; what uncounts it *)
(* again is a stray completion.                                            *)
LEMMA CountStep ==
  ASSUME TypeOK, Count, NEW r \in Requests, Moves(r)
  PROVE  Count'
<1>1. active \in Int
  BY DEF TypeOK
<1>2. CASE Enters(r) \/ Proceeds(r) \/ IsRefused(r) \/ Completes(r) \/ Stays
  <2>1. Counted' = Counted /\ Strayed' = Strayed /\ active' = active
    BY <1>2 DEF Enters, Proceeds, IsRefused, Completes, Stays, Moved, Counted,
                Strayed
  <2>2. ~Tracking => \A q \in Requests : stage'[q] \notin Lowering
    BY <1>2 DEF Enters, Proceeds, IsRefused, Completes, Stays, Moved, Count,
                Lowering
  <2> QED  BY <2>1, <2>2 DEF Count
<1>3. CASE IsCounted(r)
  <2>1. /\ r \notin Counted /\ Counted' = Counted \union {r}
        /\ Strayed' = Strayed
    BY <1>3 DEF IsCounted, Moved, Counted, Strayed
  <2>2. Cardinality(Counted') = Cardinality(Counted) + 1
    BY <2>1, FS_AddElement, FiniteCounts
  <2>3. ~Tracking => \A q \in Requests : stage'[q] \notin Lowering
    BY <1>3 DEF IsCounted, Moved, Count, Lowering
  <2>4. CASE Tracking
    <3>1. active' = active + 1
      BY <1>3, <2>4 DEF IsCounted, Counts
    <3> QED
      BY <1>1, <2>1, <2>2, <2>4, <3>1, FiniteCounts, SMTT(30) DEF Count
  <2>5. CASE ~Tracking
    BY <1>3, <2>3, <2>5 DEF IsCounted, Counts, Count
  <2> QED  BY <2>4, <2>5
<1>4. CASE Skips(r)
  <2>1. Strayed' = Strayed /\ active' = active
    BY <1>4 DEF Skips, Moved, Strayed
  <2>2. ~Tracking => \A q \in Requests : stage'[q] \notin Lowering
    BY <1>4 DEF Skips, Moved, Count, Lowering
  <2>3. CASE stage[r] = "stray"
    <3>1. Counted' = Counted
      BY <1>4, <2>3 DEF Skips, Moved, Counted
    <3> QED  BY <2>1, <2>2, <3>1 DEF Count
  <2>4. CASE stage[r] \in {"destroyed", "closed"}
    <3>1. r \in Counted /\ Counted' = Counted \ {r}
      BY <1>4, <2>4 DEF Skips, Moved, Counted
    <3>2. Cardinality(Counted') = Cardinality(Counted) - 1
      BY <3>1, FS_RemoveElement, FiniteCounts
    <3>3. Tracking => active <= 0
      BY <1>4 DEF Skips
    <3> QED
      BY <1>1, <2>1, <2>2, <3>2, <3>3, FiniteCounts, SMTT(30) DEF Count
  <2> QED  BY <1>4, <2>3, <2>4 DEF Skips
<1>5. CASE IsUncounted(r)
  <2>1. Tracking /\ active' = active - 1
    BY <1>5, RequestAssumption DEF IsUncounted, Count, Lowering
  <2>2. CASE stage[r] = "strayDec"
    <3>1. /\ Counted' = Counted
          /\ r \notin Strayed /\ Strayed' = Strayed \union {r}
      BY <1>5, <2>2 DEF IsUncounted, Moved, Counted, Strayed
    <3>2. Cardinality(Strayed') = Cardinality(Strayed) + 1
      BY <3>1, FS_AddElement, FiniteCounts
    <3> QED
      BY <1>1, <2>1, <3>1, <3>2, FiniteCounts, SMTT(30) DEF Count
  <2>3. CASE stage[r] \in {"dec", "closedDec"}
    <3>1. /\ r \in Counted /\ Counted' = Counted \ {r}
          /\ Strayed' = Strayed
      BY <1>5, <2>3 DEF IsUncounted, Moved, Counted, Strayed
    <3>2. Cardinality(Counted') = Cardinality(Counted) - 1
      BY <3>1, FS_RemoveElement, FiniteCounts
    <3> QED
      BY <1>1, <2>1, <3>1, <3>2, FiniteCounts, SMTT(30) DEF Count
  <2> QED  BY <1>5, <2>2, <2>3 DEF IsUncounted
<1> QED
  BY <1>2, <1>3, <1>4, <1>5 DEF Moves

(* A worker begins a callback only when it is in none.                     *)
LEMMA OneCallbackStep ==
  ASSUME OneCallback, NEW r \in Requests, Moves(r)
  PROVE  OneCallback'
<1>1. CASE Enters(r) \/ Completes(r)
  <2>1. ~Busy(Owner[r]) /\ \A q \in Requests \ {r} : stage'[q] = stage[q]
    BY <1>1 DEF Enters, Completes, Moved
  <2>2. \A q \in Requests : Owner[q] = Owner[r] => stage[q] \notin InCallback
    BY <2>1 DEF Busy, InCallback, Lowering
  <2> QED  BY <2>1, <2>2 DEF OneCallback
<1>2. CASE IsCounted(r) \/ IsRefused(r) \/ Proceeds(r) \/ Skips(r)
           \/ IsUncounted(r)
  <2>1. /\ stage'[r] \notin InCallback
        /\ \A q \in Requests \ {r} : stage'[q] = stage[q]
    BY <1>2 DEF IsCounted, IsRefused, Proceeds, Skips, IsUncounted, Moved,
                InCallback, Lowering
  <2> QED  BY <2>1 DEF OneCallback
<1>3. CASE Stays
  BY <1>3 DEF Stays, OneCallback
<1> QED  BY <1>1, <1>2, <1>3 DEF Moves

(* A request is admitted on a count below the limit, while no other worker *)
(* can have admitted more than one that is not counted.                    *)
LEMMA OvershootStep ==
  ASSUME TypeOK, OneCallback, Overshoot, Count, NEW r \in Requests, Moves(r)
  PROVE  Overshoot'
<1> SUFFICES ASSUME Tracking, MaxRequests > 0
             PROVE  Cardinality((Passed \ Bypass)') <=
                      MaxRequests + Cardinality(Limited) - 1
                        + Cardinality(Strayed')
  BY DEF Overshoot, Limited
<1>1. Cardinality(Strayed) <= Cardinality(Strayed')
  <2>1. Strayed \subseteq Strayed'
    BY DEF Moves, Enters, IsCounted, IsRefused, Proceeds, Skips, Completes,
           IsUncounted, Stays, Moved, Strayed
  <2> QED  BY <2>1, FS_Subset, FiniteCounts
<1>2. CASE (Passed \ Bypass)' \subseteq Passed \ Bypass
  <2>1. Cardinality((Passed \ Bypass)') <= Cardinality(Passed \ Bypass)
    BY <1>2, FS_Subset, FiniteCounts
  <2>2. Cardinality(Passed \ Bypass)
          <= MaxRequests + Cardinality(Limited) - 1 + Cardinality(Strayed)
    BY DEF Overshoot
  <2> QED  BY <1>1, <2>1, <2>2, FiniteCounts, RequestAssumption, SMTT(30)
<1>3. CASE Enters(r) /\ Moved(r, "admitted") /\ r \notin Bypass
  <2>1. Admitted' \subseteq Counted
    BY <1>3 DEF Enters, Moved, Admitted, Counted
  <2>2. IsFiniteSet(Admitted') /\ Cardinality(Admitted') <= Cardinality(Counted)
    BY <2>1, FS_Subset, FiniteCounts
  <2>3. active < MaxRequests
    BY <1>3 DEF Enters, Moved
  <2> DEFINE E == Entering' \ Bypass
  <2>4. IsFiniteSet(E) /\ Cardinality(E) <= Cardinality(Limited)
    <3> DEFINE own == [q \in E |-> Owner[q]]
    <3>1. OneCallback'
      BY OneCallbackStep
    <3>2. own \in Injection(E, Limited)
      BY <3>1, RequestAssumption
      DEF Injection, IsInjective, Entering, Limited, OneCallback, InCallback
    <3> QED  BY <3>2, FS_Injection, FiniteCounts
  <2>5. Cardinality(Admitted' \union E) <= Cardinality(Admitted') + Cardinality(E)
    <3>1. IsFiniteSet(Admitted' \intersect E)
      BY <2>2, FS_Subset
    <3>2. /\ Cardinality(Admitted') \in Nat /\ Cardinality(E) \in Nat
          /\ Cardinality(Admitted' \intersect E) \in Nat
      BY <2>2, <2>4, <3>1, FS_CardinalityType
    <3>3. Cardinality(Admitted' \union E) =
            Cardinality(Admitted') + Cardinality(E)
              - Cardinality(Admitted' \intersect E)
      BY <2>2, <2>4, FS_Union
    <3> QED  BY <3>2, <3>3, SMTT(30)
  <2>6. /\ IsFiniteSet(Admitted' \union E)
        /\ (Passed \ Bypass)' \subseteq Admitted' \union E
    BY <2>2, <2>4, FS_Union DEF Passed
  <2>7. Cardinality((Passed \ Bypass)') <= Cardinality(Admitted' \union E)
    BY <2>6, FS_Subset
  <2>8. /\ Cardinality(Admitted' \union E) \in Nat
        /\ Cardinality(Admitted') \in Nat /\ Cardinality(E) \in Nat
    BY <2>2, <2>4, <2>6, FS_CardinalityType
  <2>9. Cardinality(Counted) - Cardinality(Strayed) <= active /\ active \in Int
    BY DEF Count, TypeOK
  <2> HIDE DEF E
  <2> QED
    BY <1>1, <2>2, <2>3, <2>4, <2>5, <2>7, <2>8, <2>9, FiniteCounts,
       RequestAssumption, SMTT(30)
<1>4. CASE ~(Enters(r) /\ Moved(r, "admitted") /\ r \notin Bypass)
  <2>1. (Passed \ Bypass)' \subseteq Passed \ Bypass
    BY <1>4 DEF Moves, Enters, IsCounted, IsRefused, Proceeds, Skips,
                Completes, IsUncounted, Stays, Moved, Passed, Admitted, Entering
  <2> QED  BY <1>2, <2>1
<1> QED  BY <1>3, <1>4

(* Nothing arrives on a connection that is gone.                           *)
LEMMA DrainStep ==
  ASSUME TypeOK, Drain, NEW r \in Requests, Moves(r)
  PROVE  Drain'
<1>1. /\ UNCHANGED <<stopping, guards, baton>>
      /\ \A w \in Workers : conn'[w] = "closed" <=> conn[w] = "closed"
  <2>1. \/ Stays
        \/ /\ UNCHANGED <<stopping, guards, baton>>
           /\ UNCHANGED conn \/ Closes(r)
    BY DEF Moves, Enters, IsCounted, IsRefused, Proceeds, Skips, Completes,
           IsUncounted, Moved
  <2> QED  BY <2>1 DEF Stays, worker, Closes, TypeOK
<1>2. ASSUME NEW w \in Workers, conn[w] = "closed"  PROVE ~InFlight(w)'
  <2>1. ~InFlight(w)
    BY <1>2 DEF Drain
  <2>2. CASE Stays
    BY <2>1, <2>2 DEF Stays, InFlight
  <2>3. CASE Owner[r] = w /\ ~Stays
    <3>1. stage[r] \in {"new", "complete", "strayed"}
      BY <2>1, <2>3 DEF InFlight
    <3> QED
      BY <1>2, <2>3, <3>1 DEF Moves, Enters, IsCounted, IsRefused, Proceeds,
           Skips, Completes, IsUncounted
  <2>4. CASE Owner[r] # w /\ ~Stays
    <3>1. \A q \in Requests \ {r} : stage'[q] = stage[q]
      BY <2>4 DEF Moves, Enters, IsCounted, IsRefused, Proceeds, Skips,
           Completes, IsUncounted, Moved
    <3> QED  BY <2>1, <2>4, <3>1 DEF InFlight
  <2> QED  BY <2>2, <2>3, <2>4
<1> QED  BY <1>1, <1>2 DEF Drain

(* The worker is told once: in requestStop if its connection is gone, with *)
(* the connection's guard if it stops.                                     *)
LEMMA DrainWorkerStep ==
  ASSUME TypeOK, Drain, NEW w \in Workers, WorkerStep(w)
  PROVE  Drain'
<1>1. \A v \in Workers : InFlight(v)' = InFlight(v)
  BY DEF WorkerStep, RequestStop, Close, DestroyConnection, requests, InFlight
<1>2. CASE RequestStop(w)
  BY <1>1, <1>2, SMTT(30) DEF RequestStop, PostIfIdle, Drain, TypeOK
<1>3. CASE Close(w)
  BY <1>1, <1>3 DEF Close, Drain, TypeOK
<1>4. CASE DestroyConnection(w)
  BY <1>1, <1>4, SMTT(30) DEF DestroyConnection, Drain, TypeOK
<1> QED  BY <1>2, <1>3, <1>4 DEF WorkerStep

-----------------------------------------------------------------------------
(* What a send* function does to the flag and to the answer.               *)
LEMMA SendEffect ==
  ASSUME TypeOK, NEW r \in Requests, NEW k \in Kinds, Send(r, k)
  PROVE  /\ cancelled' \in [Requests -> BOOLEAN] /\ cancelled'[r] = TRUE
         /\ sent' \in [Requests -> Seq(Kinds)]
         /\ sent'[r] = IF cancelled[r] \/ r \in Oneway
                         THEN sent[r] ELSE Append(sent[r], k)
         /\ \A q \in Requests \ {r} : /\ cancelled'[q] = cancelled[q]
                                      /\ sent'[q] = sent[q]
BY SMTT(30) DEF TypeOK, Send

(* The count stays a number.                                               *)
LEMMA CountType == TypeOK /\ IncActiveRequests => active' \in Int
BY SMTT(30) DEF TypeOK, IncActiveRequests

(* The types are kept by what the worker's thread does with a request, ... *)
LEMMA TypeIOStep ==
  ASSUME TypeOK, NEW r \in Requests, IOStep(r)
  PROVE  TypeOK'
<1> USE DEF worker
<1>1. CASE Arrive(r)
  <2>1. PICK s \in {"admitted", "refused"} : Goto(r, s)
    BY <1>1 DEF Arrive
  <2>2. /\ stage' \in [Requests -> Stages]
        /\ stage'[r] = s /\ \A q \in Requests \ {r} : stage'[q] = stage[q]
    BY <2>1 DEF Goto, TypeOK, Stages
  <2>3. /\ timers' \in [Requests -> SUBSET {"queue", "task"}]
        /\ \A q \in Requests \ {r} : timers'[q] = timers[q]
    BY <1>1, RequestAssumption DEF Arrive, TypeOK
  <2>4. mail' = mail /\ stage[r] = "new"
    BY <1>1 DEF Arrive
  <2>5. \A q \in Requests : /\ timers'[q] # {} => Alive(q)'
                            /\ mail'[q] # "none" <=> stage'[q] = "posted"
    BY <2>2, <2>3, <2>4 DEF TypeOK, Alive
  <2> QED  BY <1>1, <2>2, <2>3, <2>5 DEF Arrive, TypeOK
<1>2. CASE RefuseEarly(r)
  <2>1. /\ cancelled' \in [Requests -> BOOLEAN]
        /\ sent' \in [Requests -> Seq(Kinds)]
    BY <1>2, SendEffect DEF RefuseEarly, Kinds
  <2>2. /\ stage[r] = "new" /\ Goto(r, "destroyed") /\ active' \in Int
        /\ UNCHANGED <<stopped, timers, mail, ran, worker>>
    BY <1>2, CountType DEF RefuseEarly
  <2> QED  BY <2>1, <2>2, SMTT(30) DEF Goto, TypeOK, Alive, Stages
<1>3. CASE Dispatch(r)
  <2>1. active' \in Int
    BY <1>3, CountType DEF Dispatch
  <2> QED  BY <1>3, <2>1 DEF Dispatch, Goto, TypeOK, Alive, Stages
<1>4. CASE RefuseLate(r)
  <2>1. /\ cancelled' \in [Requests -> BOOLEAN]
        /\ sent' \in [Requests -> Seq(Kinds)]
    BY <1>4, SendEffect DEF RefuseLate, Kinds
  <2>2. /\ stage[r] \in {"admitted", "refused"} /\ active' \in Int
        /\ Destroy(r) /\ UNCHANGED <<stopped, mail, ran, worker>>
    BY <1>4, CountType DEF RefuseLate
  <2> QED  BY <2>1, <2>2, SMTT(30) DEF Destroy, Goto, TypeOK, Alive, Stages
<1>5. CASE QueueTimeout(r)
  <2>1. /\ cancelled' \in [Requests -> BOOLEAN]
        /\ sent' \in [Requests -> Seq(Kinds)]
    BY <1>5, SendEffect DEF QueueTimeout, Kinds, TypeOK
  <2>2. timers' \in [Requests -> SUBSET {"queue", "task"}]
    <3>1. \/ timers' = [timers EXCEPT ![r] = {}]
          \/ timers' = [timers EXCEPT ![r] = @ \ {"queue"}]
      BY <1>5 DEF QueueTimeout
    <3>2. timers \in [Requests -> SUBSET {"queue", "task"}]
      BY DEF TypeOK
    <3> QED  BY <3>1, <3>2
  <2>3. \A q \in Requests : timers'[q] # {} => Alive(q)
    BY <1>5 DEF QueueTimeout, OnLoop, TypeOK
  <2>4. stopped' \in [Requests -> BOOLEAN]
    BY <1>5 DEF QueueTimeout, TypeOK
  <2> QED  BY <1>5, <2>1, <2>2, <2>3, <2>4 DEF QueueTimeout, TypeOK, Alive
<1>6. CASE TaskTimeout(r)
  BY <1>6, SendEffect DEF TaskTimeout, OnLoop, TypeOK, Alive, Kinds
<1>7. CASE Deliver(r)
  BY <1>7, SendEffect DEF Deliver, Destroy, Goto, TypeOK, Alive, Stages, Kinds
<1>8. CASE RequestComplete(r)
  <2>1. PICK s \in {"dec", "closedDec", "strayDec", "stray", "complete"} :
          Goto(r, s)
    <3>1. CASE ~Tracking \/ active <= 0
      BY <1>8, <3>1 DEF RequestComplete, Completed
    <3>2. CASE ~(~Tracking \/ active <= 0)
      BY <1>8, <3>2, SMTT(30) DEF RequestComplete
    <3> QED  BY <3>1, <3>2
  <2>2. ~Alive(r) /\ stage[r] # "posted"
    BY <1>8 DEF RequestComplete, Alive
  <2>3. /\ stage' \in [Requests -> Stages]
        /\ stage'[r] = s /\ \A q \in Requests \ {r} : stage'[q] = stage[q]
    BY <2>1 DEF Goto, TypeOK, Stages
  <2>4. \A q \in Requests : /\ timers[q] # {} => Alive(q)'
                            /\ mail[q] # "none" <=> stage'[q] = "posted"
    BY <2>2, <2>3 DEF TypeOK, Alive
  <2> QED  BY <1>8, <2>3, <2>4 DEF RequestComplete, TypeOK, worker, Alive
<1>9. CASE DecActiveRequests(r)
  <2>1. PICK s \in {"stray", "strayed", "complete"} : Goto(r, s)
    BY <1>9 DEF DecActiveRequests, Completed
  <2>2. active' \in Int
    BY <1>9, SMTT(30) DEF DecActiveRequests, TypeOK
  <2>3. ~Alive(r) /\ stage[r] # "posted"
    BY <1>9 DEF DecActiveRequests, Alive
  <2>4. /\ stage' \in [Requests -> Stages]
        /\ stage'[r] = s /\ \A q \in Requests \ {r} : stage'[q] = stage[q]
    BY <2>1 DEF Goto, TypeOK, Stages
  <2>5. \A q \in Requests : /\ timers[q] # {} => Alive(q)'
                            /\ mail[q] # "none" <=> stage'[q] = "posted"
    BY <2>3, <2>4 DEF TypeOK, Alive
  <2> QED
    BY <1>9, <2>2, <2>4, <2>5 DEF DecActiveRequests, TypeOK, worker, Alive
<1>10. CASE RefuseFrame(r)
  <2>1. conn' \in [Workers -> {"open", "closing", "closed"}]
    BY <1>10, RequestAssumption DEF RefuseFrame, CloseConnection, TypeOK
  <2> QED
    BY <1>10, <2>1 DEF RefuseFrame, CloseConnection, Goto, TypeOK, Alive, Stages
<1>11. CASE RefuseByClosing(r)
  <2>1. conn' \in [Workers -> {"open", "closing", "closed"}]
    BY <1>11, RequestAssumption DEF RefuseByClosing, CloseConnection, TypeOK
  <2>2. active' \in Int
    BY <1>11, CountType DEF RefuseByClosing
  <2> QED
    BY <1>11, <2>1, <2>2 DEF RefuseByClosing, CloseConnection, Goto, TypeOK,
                             Alive, Stages
<1> QED
  BY <1>1, <1>2, <1>3, <1>4, <1>5, <1>6, <1>7, <1>8, <1>9, <1>10, <1>11
  DEF IOStep

(* ... by the executor's thread ...                                        *)
LEMMA TypeExecutorStep ==
  ASSUME TypeOK, NEW r \in Requests, ExecutorStep(r)
  PROVE  TypeOK'
<1> USE DEF worker, TypeOK
<1>1. CASE StartOneway(r)
  BY <1>1 DEF StartOneway, Goto, Alive, Stages
<1>2. CASE CheckCancelled(r)
  <2>1. /\ stage[r] = "queued"
        /\ Post(r, "release") \/ (Goto(r, "claim") /\ UNCHANGED mail)
        /\ UNCHANGED <<stopped, cancelled, timers, sent, ran, active, worker>>
    BY <1>2 DEF CheckCancelled
  <2>2. CASE Post(r, "release")
    BY <2>1, <2>2, SMTT(30) DEF Post, Goto, Alive, Stages
  <2>3. CASE Goto(r, "claim") /\ UNCHANGED mail
    BY <2>1, <2>3, SMTT(30) DEF Goto, Alive, Stages
  <2> QED  BY <2>1, <2>2, <2>3
<1>3. CASE Claim(r)
  <2>1. /\ stage[r] = "claim"
        /\ Post(r, "release") \/ (Goto(r, "running") /\ UNCHANGED mail)
        /\ UNCHANGED <<cancelled, timers, sent, active, worker>>
    BY <1>3 DEF Claim
  <2>2. /\ stopped' \in [Requests -> BOOLEAN]
        /\ ran' \in [Requests -> BOOLEAN]
    BY <1>3, ZenonT(30) DEF Claim
  <2>3. CASE Post(r, "release")
    BY <2>1, <2>2, <2>3, SMTT(30) DEF Post, Goto, Alive, Stages
  <2>4. CASE Goto(r, "running") /\ UNCHANGED mail
    BY <2>1, <2>2, <2>4, SMTT(30) DEF Goto, Alive, Stages
  <2> QED  BY <2>1, <2>3, <2>4
<1>4. CASE Finish(r)
  BY <1>4, SMTT(30) DEF Finish, Post, Goto, Alive, Stages
<1>5. CASE Abandon(r)
  BY <1>5 DEF Abandon, Post, Goto, Alive, Stages
<1> QED
  BY <1>1, <1>2, <1>3, <1>4, <1>5 DEF ExecutorStep

(* ... and by the worker itself.                                           *)
LEMMA TypeWorkerStep ==
  ASSUME TypeOK, NEW w \in Workers, WorkerStep(w)
  PROVE  TypeOK'
<1>1. CASE RequestStop(w)
  BY <1>1, SMTT(30) DEF RequestStop, PostIfIdle, TypeOK, Alive, Kinds
<1>2. CASE Close(w)
  BY <1>2 DEF Close, requests, TypeOK, Alive
<1>3. CASE DestroyConnection(w)
  BY <1>3, SMTT(30) DEF DestroyConnection, requests, TypeOK, Alive
<1> QED  BY <1>1, <1>2, <1>3 DEF WorkerStep

-----------------------------------------------------------------------------
(* A request whose answers are left alone.                                 *)
SameAnswer(r) == /\ Unanswered(r)' <=> Unanswered(r)
                 /\ Single(r)' <=> Single(r)
                 /\ Shed(r)' <=> Shed(r)

(* No answer is sent.                                                       *)
LEMMA SentUnchanged == ASSUME UNCHANGED sent, NEW r PROVE SameAnswer(r)
BY DEF SameAnswer, Unanswered, Single, Shed

(* An answer is sent if there is none.                                     *)
LEMMA SendAnswers ==
  ASSUME TypeOK, Answers, NEW r \in Requests, NEW k \in Kinds, Send(r, k)
  PROVE  /\ cancelled'[r] = TRUE
         /\ Single(r)'
         /\ r \in Oneway => Unanswered(r)'
         /\ Shed(r)' => Shed(r) \/ k = "queueTimeout"
         /\ \A q \in Requests \ {r} : /\ cancelled'[q] = cancelled[q]
                                      /\ SameAnswer(q)
<1>1. sent[r] \in Seq(Kinds)
  BY DEF TypeOK
<1>2. \A q \in Requests \ {r} : cancelled'[q] = cancelled[q] /\ SameAnswer(q)
  BY SendEffect DEF SameAnswer, Unanswered, Single, Shed
<1>3. CASE cancelled[r] \/ r \in Oneway
  <2>1. sent'[r] = sent[r]
    BY <1>3, SendEffect
  <2>2. SameAnswer(r) /\ Single(r) /\ (r \in Oneway => Unanswered(r))
    BY <2>1 DEF SameAnswer, Unanswered, Single, Shed, Answers
  <2> QED  BY <1>2, <2>2, SendEffect DEF SameAnswer
<1>4. CASE ~(cancelled[r] \/ r \in Oneway)
  <2>1. sent'[r] = Append(sent[r], k) /\ sent[r] = <<>>
    BY <1>4, SendEffect DEF Answers, Unanswered
  <2>2. Len(sent'[r]) = 1 /\ sent'[r][1] = k
    BY <1>1, <2>1, SMTT(30)
  <2>3. Single(r)' /\ (Shed(r)' => k = "queueTimeout")
    BY <2>2, SMTT(30) DEF Single, Shed
  <2> QED  BY <1>2, <1>4, <2>3, SendEffect
<1> QED  BY <1>3, <1>4

(* Only the answer that sheds a request excludes its handler.              *)
LEMMA ShedIsAnswered == \A r : Unanswered(r) => ~Shed(r)
BY DEF Unanswered, Shed

(* Only one answer is sent, and the answer that sheds a request excludes   *)
(* its handler: by the steps of the worker's thread, ...                   *)
LEMMA AnswersIOStep ==
  ASSUME TypeOK, Answers, NEW r \in Requests, IOStep(r)
  PROVE  Answers'
<1> USE DEF worker
<1>1. CASE Arrive(r)
  BY <1>1, SentUnchanged, RequestAssumption
  DEF Arrive, Goto, TypeOK, Answers, SameAnswer
<1>2. CASE RefuseEarly(r)
  <2>1. /\ cancelled'[r] = TRUE /\ Single(r)'
        /\ r \in Oneway => Unanswered(r)'
        /\ Shed(r)' => Shed(r)
        /\ \A q \in Requests \ {r} :
             cancelled'[q] = cancelled[q] /\ SameAnswer(q)
    BY <1>2, SendAnswers DEF RefuseEarly, Kinds
  <2>2. /\ Goto(r, "destroyed") /\ UNCHANGED <<stopped, ran, stopping>>
    BY <1>2 DEF RefuseEarly
  <2> QED  BY <2>1, <2>2 DEF Goto, TypeOK, Answers, SameAnswer
<1>3. CASE Dispatch(r)
  BY <1>3, SentUnchanged DEF Dispatch, Goto, TypeOK, Answers, SameAnswer
<1>4. CASE RefuseLate(r)
  <2>1. /\ cancelled'[r] = TRUE /\ Single(r)'
        /\ r \in Oneway => Unanswered(r)'
        /\ Shed(r)' => Shed(r)
        /\ \A q \in Requests \ {r} :
             cancelled'[q] = cancelled[q] /\ SameAnswer(q)
    BY <1>4, SendAnswers DEF RefuseLate, Kinds
  <2>2. /\ Goto(r, "destroyed") /\ UNCHANGED <<stopped, ran, stopping>>
    BY <1>4 DEF RefuseLate, Destroy
  <2> QED  BY <2>1, <2>2 DEF Goto, TypeOK, Answers, SameAnswer
<1>5. CASE QueueTimeout(r)
  <2>1. /\ stopped'[r] = TRUE /\ UNCHANGED <<stage, ran, stopping>>
        /\ \A q \in Requests \ {r} : stopped'[q] = stopped[q]
    BY <1>5 DEF QueueTimeout, TypeOK
  <2>2. CASE stopped[r]
    <3>1. UNCHANGED <<cancelled, sent>>
      BY <1>5, <2>2 DEF QueueTimeout
    <3> QED
      BY <2>1, <2>2, <3>1, SentUnchanged DEF Answers, SameAnswer
  <2>3. CASE ~stopped[r]
    <3>1. Send(r, "queueTimeout")
      BY <1>5, <2>3 DEF QueueTimeout
    <3>2. /\ cancelled'[r] = TRUE /\ Single(r)'
          /\ r \in Oneway => Unanswered(r)'
          /\ \A q \in Requests \ {r} : /\ cancelled'[q] = cancelled[q]
                                       /\ SameAnswer(q)
      BY <3>1, SendAnswers DEF Kinds
    <3>3. Shed(r)' => ~ran[r]
      <4>1. CASE r \in Oneway
        BY <4>1, <3>2 DEF Unanswered, Shed
      <4>2. CASE r \notin Oneway
        BY <4>2, <2>3 DEF Answers
      <4> QED  BY <4>1, <4>2
    <3> QED
      BY <2>1, <3>2, <3>3 DEF Answers, SameAnswer
  <2> QED  BY <2>2, <2>3
<1>6. CASE TaskTimeout(r)
  <2>1. /\ cancelled'[r] = TRUE /\ Single(r)'
        /\ r \in Oneway => Unanswered(r)'
        /\ Shed(r)' => Shed(r)
        /\ \A q \in Requests \ {r} :
             cancelled'[q] = cancelled[q] /\ SameAnswer(q)
    BY <1>6, SendAnswers DEF TaskTimeout, Kinds
  <2> QED  BY <1>6, <2>1 DEF TaskTimeout, TypeOK, Answers, SameAnswer
<1>7. CASE Deliver(r)
  <2>1. CASE mail[r] = "release"
    BY <1>7, <2>1, SentUnchanged
    DEF Deliver, Destroy, Goto, TypeOK, Answers, SameAnswer
  <2>2. CASE mail[r] # "release"
    <3>1. mail[r] \in Kinds /\ mail[r] # "queueTimeout" /\ Send(r, mail[r])
      BY <1>7, <2>2 DEF Deliver, TypeOK, Kinds
    <3>2. /\ cancelled'[r] = TRUE /\ Single(r)'
          /\ r \in Oneway => Unanswered(r)'
          /\ Shed(r)' => Shed(r)
          /\ \A q \in Requests \ {r} : /\ cancelled'[q] = cancelled[q]
                                       /\ SameAnswer(q)
      BY <3>1, SendAnswers
    <3>3. /\ Goto(r, "destroyed") /\ UNCHANGED <<stopped, ran, stopping>>
      BY <1>7 DEF Deliver, Destroy
    <3> QED  BY <3>2, <3>3 DEF Goto, TypeOK, Answers, SameAnswer
  <2> QED  BY <2>1, <2>2
<1>8. CASE RequestComplete(r) \/ DecActiveRequests(r) \/ RefuseFrame(r)
           \/ RefuseByClosing(r)
  <2>1. /\ stage'[r] \notin {"admitted", "queued", "claim"}
        /\ \A q \in Requests \ {r} : stage'[q] = stage[q]
    <3>1. PICK s \in {"dec", "closedDec", "strayDec", "closed", "stray",
                      "strayed", "complete"} : Goto(r, s)
      <4>1. CASE RequestComplete(r) /\ (~Tracking \/ active <= 0)
        BY <4>1 DEF RequestComplete, Completed
      <4>2. CASE RequestComplete(r) /\ ~(~Tracking \/ active <= 0)
        BY <4>2, SMTT(30) DEF RequestComplete
      <4>3. CASE DecActiveRequests(r) \/ RefuseFrame(r) \/ RefuseByClosing(r)
        BY <4>3 DEF DecActiveRequests, Completed, RefuseFrame, RefuseByClosing
      <4> QED  BY <1>8, <4>1, <4>2, <4>3
    <3> QED  BY <3>1 DEF Goto, TypeOK
  <2>2. UNCHANGED <<stopped, cancelled, sent, ran, stopping>>
    BY <1>8 DEF RequestComplete, DecActiveRequests, RefuseFrame,
                RefuseByClosing, CloseConnection
  <2> QED  BY <2>1, <2>2, SentUnchanged DEF Answers, SameAnswer
<1> QED
  BY <1>1, <1>2, <1>3, <1>4, <1>5, <1>6, <1>7, <1>8 DEF IOStep

(* ... of the executor's thread ...                                        *)
LEMMA AnswersExecutorStep ==
  ASSUME TypeOK, Answers, NEW r \in Requests, ExecutorStep(r)
  PROVE  Answers'
<1> USE DEF worker, Goto, TypeOK, Answers, SameAnswer
<1>1. CASE StartOneway(r)
  BY <1>1, SentUnchanged, ShedIsAnswered DEF StartOneway
<1>2. CASE CheckCancelled(r)
  BY <1>2, SentUnchanged DEF CheckCancelled, Post
<1>3. CASE Claim(r)
  BY <1>3, SentUnchanged DEF Claim, Post
<1>4. CASE Finish(r)
  BY <1>4, SentUnchanged DEF Finish, Post
<1>5. CASE Abandon(r)
  BY <1>5, SentUnchanged DEF Abandon, Post
<1> QED
  BY <1>1, <1>2, <1>3, <1>4, <1>5 DEF ExecutorStep

(* ... and of the worker.                                                  *)
LEMMA AnswersWorkerStep ==
  ASSUME TypeOK, Answers, NEW w \in Workers, WorkerStep(w)
  PROVE  Answers'
<1>1. CASE RequestStop(w)
  <2> SUFFICES ASSUME NEW r \in Requests
               PROVE  /\ Single(r)'
                      /\ r \in Oneway \/ ~cancelled'[r] => Unanswered(r)'
                      /\ ran'[r] /\ r \notin Oneway => stopped'[r]
                      /\ Shed(r)' => stopped'[r] /\ ~ran'[r]
                      /\ stopping'[Owner[r]]
                         /\ stage'[r] \in {"admitted", "queued", "claim"} =>
                           cancelled'[r] \/ stopped'[r]
    BY DEF Answers
  <2>1. /\ stopped'[r] = (stopped[r] \/ r \in Cancels(w))
        /\ cancelled'[r] = (cancelled[r] \/ r \in Cancels(w))
        /\ sent'[r] = IF r \in Cancels(w) \ Oneway
                        THEN Append(sent[r], "queueTimeout") ELSE sent[r]
        /\ ran' = ran /\ stage' = stage
    BY <1>1 DEF RequestStop
  <2>2. \A v \in Workers \ {w} : stopping'[v] = stopping[v]
    BY <1>1 DEF RequestStop, TypeOK
  <2>3. CASE r \in Cancels(w) \ Oneway
    <3>1. sent[r] = <<>> /\ ~stopped[r] /\ ~cancelled[r]
      BY <2>3 DEF Cancels, Answers, Unanswered
    <3>2. Len(sent'[r]) = 1
      BY <2>1, <2>3, <3>1, SMTT(30)
    <3>3. Single(r)'
      BY <3>2, SMTT(30) DEF Single
    <3>4. ~ran[r]
      BY <2>3, <3>1 DEF Answers
    <3> QED  BY <2>1, <2>3, <3>3, <3>4
  <2>4. CASE r \notin Cancels(w) \ Oneway
    <3>1. SameAnswer(r)
      BY <2>1, <2>4 DEF SameAnswer, Unanswered, Single, Shed
    <3>2. Owner[r] = w /\ stage[r] \in {"admitted", "queued", "claim"} =>
            r \in Cancels(w) \/ cancelled[r] \/ stopped[r]
      BY DEF Cancels, Alive
    <3> QED
      BY <2>1, <2>2, <2>4, <3>1, <3>2, ShedIsAnswered, RequestAssumption
      DEF Answers, SameAnswer
  <2> QED  BY <2>3, <2>4
<1>2. CASE Close(w) \/ DestroyConnection(w)
  BY <1>2, SentUnchanged
  DEF Close, DestroyConnection, requests, Answers, SameAnswer
<1> QED  BY <1>1, <1>2 DEF WorkerStep

-----------------------------------------------------------------------------
(* Nothing has arrived.                                                    *)
LEMMA InitIInv == Init => IInv
<1> SUFFICES ASSUME Init PROVE IInv
  OBVIOUS
<1>1. TypeOK
  BY SMTT(30) DEF Init, TypeOK, Stages, Alive
<1>2. Answers
  BY SMTT(30) DEF Init, Answers, Unanswered, Single, Shed
<1>3. Drain
  BY DEF Init, Drain, InFlight
<1>4. OneCallback
  BY DEF Init, OneCallback, InCallback, Lowering
<1>5. Counted = {} /\ Strayed = {} /\ Passed \ Bypass = {}
  BY DEF Init, Counted, Strayed, Passed, Admitted, Entering
<1>6. Count
  <2>1. /\ Cardinality(Counted) = 0 /\ Cardinality(Strayed) = 0 /\ active = 0
        /\ \A r \in Requests : stage[r] \notin Lowering
    BY <1>5, FS_EmptySet DEF Init, Lowering
  <2> QED  BY <2>1, SMTT(30) DEF Count
<1>7. Overshoot
  <2>1. Cardinality(Strayed) = 0 /\ Cardinality(Passed \ Bypass) = 0
    BY <1>5, FS_EmptySet
  <2> QED  BY <2>1, FiniteCounts, RequestAssumption, SMTT(30) DEF Overshoot
<1> QED  BY <1>1, <1>2, <1>3, <1>4, <1>6, <1>7 DEF IInv

(* Every step keeps the invariant.                                         *)
LEMMA NextIInv == IInv /\ [Next]_vars => IInv'
<1> SUFFICES ASSUME IInv, [Next]_vars PROVE IInv'
  OBVIOUS
<1> USE DEF IInv
<1>1. ASSUME NEW r \in Requests, IOStep(r) \/ ExecutorStep(r)  PROVE IInv'
  <2>1. Moves(r)
    BY <1>1, RequestMoves
  <2>2. TypeOK' /\ Answers'
    BY <1>1, TypeIOStep, TypeExecutorStep, AnswersIOStep, AnswersExecutorStep
  <2> QED
    BY <2>1, <2>2, CountStep, OneCallbackStep, OvershootStep, DrainStep
<1>2. ASSUME NEW w \in Workers, WorkerStep(w)  PROVE IInv'
  <2>1. UNCHANGED <<stage, active>>
    BY <1>2 DEF WorkerStep, RequestStop, Close, DestroyConnection, requests
  <2>2. /\ OneCallback' /\ Counted' = Counted /\ Strayed' = Strayed
        /\ Passed' = Passed
    BY <2>1 DEF OneCallback, Counted, Strayed, Passed, Admitted, Entering
  <2>3. Count' /\ Overshoot'
    BY <2>1, <2>2 DEF Count, Overshoot, Limited
  <2> QED
    BY <1>2, <2>2, <2>3, TypeWorkerStep, AnswersWorkerStep, DrainWorkerStep
<1>3. CASE UNCHANGED vars
  <2> USE <1>3 DEF vars, requests, worker
  <2>1. TypeOK'
    BY DEF TypeOK, Alive
  <2>2. Answers'
    BY SentUnchanged DEF Answers, SameAnswer
  <2>3. Drain'
    BY DEF Drain, InFlight
  <2>4. /\ OneCallback' /\ Counted' = Counted /\ Strayed' = Strayed
        /\ Passed' = Passed
    BY DEF OneCallback, Counted, Strayed, Passed, Admitted, Entering
  <2>5. Count' /\ Overshoot'
    BY <2>4 DEF Count, Overshoot, Limited
  <2> QED  BY <2>1, <2>2, <2>3, <2>4, <2>5
<1> QED  BY <1>1, <1>2, <1>3 DEF Next

(* The invariant holds always.                                             *)
LEMMA AlwaysIInv == Spec => []IInv
BY InitIInv, NextIInv, PTL DEF Spec

(* A request is answered at most once, whoever answers first: handler,     *)
(* timers, refusal or the stop of the worker.                              *)
THEOREM OneAnswer == Spec => []AnsweredOnce
<1>1. IInv => AnsweredOnce
  <2> SUFFICES ASSUME IInv, NEW r \in Requests
               PROVE  /\ Len(sent[r]) <= (IF r \in Oneway THEN 0 ELSE 1)
                      /\ sent[r] # <<>> => cancelled[r]
    BY DEF AnsweredOnce
  <2>1. Single(r) /\ (r \in Oneway \/ ~cancelled[r] => Unanswered(r))
    BY DEF IInv, Answers
  <2>2. CASE r \in Oneway
    BY <2>1, <2>2, SMTT(30) DEF Unanswered
  <2>3. CASE r \notin Oneway
    BY <2>1, <2>3 DEF Unanswered, Single
  <2> QED  BY <2>2, <2>3
<1> QED  BY AlwaysIInv, <1>1, PTL

(* The handler of a request that was told it timed out in the queue has    *)
(* not run and never runs.                                                 *)
THEOREM ShedRequestsNeverRun == Spec => []ShedNeverRuns
<1>1. IInv => ShedNeverRuns
  BY DEF IInv, Answers, Shed, ShedNeverRuns
<1> QED  BY AlwaysIInv, <1>1, PTL

(* activeRequests_ is the number of requests that were counted and are not *)
(* complete, less at most one for every stray completion; the requests to  *)
(* which the limit applies exceed it by fewer than the workers that bring  *)
(* such requests, and one for every stray completion.                      *)
THEOREM ActiveRequestsCounted == Spec => []ActiveRequestsExact
<1>1. IInv => ActiveRequestsExact
  <2> SUFFICES ASSUME IInv PROVE ActiveRequestsExact
    OBVIOUS
  <2>1. Admitted \ Bypass \subseteq Passed \ Bypass
    BY DEF Passed
  <2>2. /\ Cardinality(Admitted \ Bypass) <= Cardinality(Passed \ Bypass)
        /\ Cardinality(Admitted \ Bypass) \in Nat
    BY <2>1, FS_Subset, FS_CardinalityType, FiniteCounts
  <2>3. Tracking => active \in Cardinality(Counted) - Cardinality(Strayed)
                                 .. Cardinality(Counted)
    BY FiniteCounts, SMTT(30) DEF IInv, Count, TypeOK
  <2>4. ASSUME Tracking, MaxRequests > 0
        PROVE  Cardinality(Admitted \ Bypass)
                 <= MaxRequests + Cardinality(Limited) - 1 + Cardinality(Strayed)
    <3>1. Cardinality(Passed \ Bypass)
            <= MaxRequests + Cardinality(Limited) - 1 + Cardinality(Strayed)
      BY <2>4 DEF IInv, Overshoot
    <3> QED  BY <2>2, <3>1, FiniteCounts, RequestAssumption, SMTT(30)
  <2> QED  BY <2>3, <2>4 DEF IInv, Count, ActiveRequestsExact
<1> QED  BY AlwaysIInv, <1>1, PTL

(* A worker is joined once, when no request of its is left.                *)
THEOREM JoinedOnceDrained == Spec => []JoinedWhenDrained
<1>1. IInv => JoinedWhenDrained
  BY SMTT(30) DEF IInv, Drain, InFlight, JoinedWhenDrained
<1> QED  BY AlwaysIInv, <1>1, PTL

(* No request that a client still waits for starts on a stopping worker.   *)
THEOREM NothingStartsLate == Spec => NoLateStart
<1> DEFINE Late == \A r \in Requests \ Oneway :
             stopping[Owner[r]] /\ ~cancelled[r] /\ ~ran[r] => ~ran'[r]
<1>1. IInv /\ [Next]_vars => [Late]_vars
  <2> SUFFICES ASSUME IInv, Next, NEW r \in Requests \ Oneway,
                      stopping[Owner[r]], ~cancelled[r], ~ran[r], ran'[r]
               PROVE  FALSE
    OBVIOUS
  <2>1. ASSUME NEW w \in Workers, WorkerStep(w)  PROVE ran' = ran
    BY <2>1 DEF WorkerStep, RequestStop, Close, DestroyConnection, requests
  <2>2. ASSUME NEW q \in Requests, IOStep(q)  PROVE ran' = ran
    BY <2>2 DEF IOStep, Arrive, RefuseEarly, RefuseFrame, Dispatch,
         RefuseLate, RefuseByClosing, QueueTimeout, TaskTimeout, Deliver, RequestComplete, DecActiveRequests
  <2>3. ASSUME NEW q \in Requests, ExecutorStep(q)  PROVE FALSE
    <3>1. q = r /\ stage[r] = "claim" /\ ~stopped[r]
      BY <2>3 DEF ExecutorStep, StartOneway, CheckCancelled, Claim, Finish,
           Abandon, IInv, TypeOK
    <3> QED  BY <3>1 DEF IInv, Answers
  <2> QED  BY <2>1, <2>2, <2>3 DEF Next
<1> QED  BY AlwaysIInv, <1>1, PTL DEF Spec, NoLateStart

================================================================================
