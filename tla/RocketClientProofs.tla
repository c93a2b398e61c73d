-------------------------- MODULE RocketClientProofs --------------------------
(***************************************************************************)
(* The first theorems about RocketClient: for every set of requests and    *)
(* streams, a caller is called once, and a client that is closing closes   *)
(* once it has drained.                                                    *)
(*                                                                         *)
(* Every callback ends with Finish, so what Finish does to the invariant   *)
(* is shown once (FinishHalf, FinishStep); an action then only has to show *)
(* what it hands to Finish (Call) and what it does to writeSendingQueue_.  *)
(***************************************************************************)
EXTENDS RocketClient, FiniteSetTheorems, WellFoundedInduction, TLAPS

(* Most steps are first-order; the ones that need arithmetic, records or   *)
(* sequences cite SMTT.                                                    *)
USE ZenonT(30)

(* writeScheduledQueue_ holds the contexts in state WRITE_SCHEDULED, each  *)
(* once, and a write loop is scheduled for them.                           *)
InScheduled ==
  /\ \A i, j \in DOMAIN scheduled : scheduled[i] = scheduled[j] => i = j
  /\ \A x \in Contexts : state[x] = "WRITE_SCHEDULED"
                           <=> \E i \in DOMAIN scheduled : scheduled[i] = x
  /\ scheduled # <<>> => writeLoop = TRUE /\ conn = "CONNECTED"

(* writeSendingQueue_ holds the contexts in state WRITE_SENDING, each      *)
(* once; only the dummy marker may be there more often.                    *)
InSending ==
  /\ \A i, j \in DOMAIN sending :
       sending[i].ctx = sending[j].ctx => i = j \/ sending[i].ctx = Dummy
  /\ \A x \in Contexts : state[x] = "WRITE_SENDING"
                           <=> \E i \in DOMAIN sending : sending[i].ctx = x

(* A response finds the requests that are not complete, and a timeout only *)
(* one that is being written or is written.                                *)
Reachable ==
  /\ \A r \in RR : r \in tracked <=> state[r] \notin {"NEW", "COMPLETE"}
  /\ \A r \in timers : state[r] \in {"WRITE_SENDING", "WRITE_SENT"}

(* What the callers have heard: one callback for a request that is         *)
(* complete and none before; of a stream nothing while its first response  *)
(* timeout is armed, then its first response, then one end.  A stream in   *)
(* streams_ has not been cancelled, so its CANCEL frame is still to be     *)
(* made.                                                                   *)
Heard ==
  /\ \A r \in RR \cup FNF :
       /\ state[r] = "COMPLETE" => Len(calls[r]) = 1
       /\ state[r] # "COMPLETE" => calls[r] = <<>>
  /\ \A s \in Streams :
       /\ state[s] = "NEW" =>
            /\ s \notin streams /\ calls[s] = <<>> /\ peer[s] = "none"
            /\ state[<<"CANCEL", s>>] = "NEW"
       /\ s \in first =>
            /\ s \in streams /\ calls[s] = <<>> /\ peer[s] = "none"
       /\ s \in streams => state[<<"CANCEL", s>>] = "NEW"
       /\ s \in streams \ first => calls[s] = <<"response">> /\ peer[s] = "open"
       /\ Len(calls[s]) <= 2
       /\ Len(calls[s]) = 2 => /\ calls[s][1] = "response"
                               /\ calls[s][2] \in {"streamEnd", "streamError"}

(* The comments on ClientState::connState, with the queues of a closed     *)
(* client.                                                                 *)
Drained ==
  /\ conn = "CLOSING" => Counted # {} \/ streams # {}
  /\ conn = "CLOSED" =>
       /\ \A x \in Contexts : state[x] \in {"NEW", "COMPLETE"}
       /\ streams = {} /\ sending = <<>> /\ timers = {} /\ writes = <<>>

(* What the socket has, or has written, has left writeScheduledQueue_.     *)
OnWire ==
  /\ \A x \in wire : state[x] \notin {"NEW", "WRITE_SCHEDULED"}
  /\ \A n \in DOMAIN writes : \A j \in DOMAIN writes[n] :
       state[writes[n][j]] \notin {"NEW", "WRITE_SCHEDULED"}

(* The inductive invariant.  CalledOnce and ClosesWhenDrained follow from  *)
(* it at once; RocketClientWriteProofs builds on it.                       *)
IInv == /\ TypeOK /\ InScheduled /\ InSending /\ Reachable /\ Heard
        /\ OnWire /\ Drained

-----------------------------------------------------------------------------
(* What a callback hands to Finish.                                        *)
Call(c, result, sent, close, told, freed) ==
  /\ close \in BOOLEAN
  /\ c = conn \/ (c \in {"CLOSING", "CLOSED"}
                    /\ \A i \in DOMAIN scheduled :
                         scheduled[i] \in DOMAIN result)
  /\ \A x \in DOMAIN result : x \in Unfinished /\ result[x] \in Outcomes
  /\ \/ \A i \in DOMAIN scheduled : scheduled[i] \in DOMAIN result
     \/ \A i \in DOMAIN scheduled : scheduled[i] \notin DOMAIN result
  /\ \A x \in sent : /\ x \in Contexts /\ x \notin DOMAIN result
                     /\ state[x] = "WRITE_SENDING"
  /\ freed \subseteq streams
  /\ \A s \in freed : s \in first => s \in DOMAIN told
  /\ \A s \in DOMAIN told :
       /\ s \in streams
       /\ \/ told[s] \in Errors /\ s \in first
          \/ told[s] = "response" /\ s \in first /\ s \notin freed
          \/ /\ told[s] \in {"streamEnd", "streamError"}
             /\ s \in freed /\ s \notin first
  /\ c = "CONNECTED" =>
       /\ close = FALSE => \A s \in first \cap DOMAIN result :
                             result[s] \notin Errors
       /\ \A s, t \in DOMAIN told : s = t

(* The kinds of contexts are disjoint.                                     *)
LEMMA Kinds ==
  /\ Contexts = Requests \cup Control /\ Requests = (RR \cup FNF) \cup Streams
  /\ RR \cap FNF = {} /\ RR \cap Streams = {} /\ FNF \cap Streams = {}
  /\ Requests \cap Control = {} /\ Dummy \notin Contexts
  /\ \A s \in Streams : /\ <<"CANCEL", s>> \in Control
                        /\ <<"REQUEST_N", s>> \in Control
  /\ \A s, t \in Streams : /\ <<"CANCEL", s>> = <<"CANCEL", t>> => s = t
                           /\ <<"CANCEL", s>> # <<"REQUEST_N", t>>
<1>1. Dummy \notin Control
  BY DEF Dummy, Control
<1> QED  BY <1>1, ClientAssumption, ContextAssumption
         DEF Contexts, Requests, Control

(* What Finish does, as the invariants see it: the contexts of ended end,  *)
(* the streams of initial hear an error before any response and are gone,  *)
(* and at most one of them is cancelled.                                   *)
Ends(c, result, sent, told, freed, ended, initial, cancels) ==
  /\ \A x \in DOMAIN result : x \in ended
  /\ \A x \in ended : /\ x \in Unfinished
                      /\ x \notin DOMAIN result
                           => state[x] = "WRITE_SCHEDULED"
  /\ conn' # "CONNECTED" => \A i \in DOMAIN scheduled : scheduled[i] \in ended
  /\ \/ \A i \in DOMAIN scheduled : scheduled[i] \in ended
     \/ \A i \in DOMAIN scheduled : scheduled[i] \notin ended
  /\ conn' = c \/ (conn' = "ERROR" /\ c \in {"CONNECTED", "CLOSING"})
  /\ initial \subseteq first
  /\ \A s \in DOMAIN told : told[s] \in Errors => s \in initial
  /\ \A s \in initial : \/ s \in DOMAIN told /\ told[s] \in Errors
                        \/ s \in ended
  /\ \A x \in cancels : \E s \in initial : x = <<"CANCEL", s>>
  /\ \A x, y \in cancels : x = y
  /\ cancels # {} => conn' = "CONNECTED"
  /\ state' = [x \in Contexts |->
                 IF x \in cancels    THEN "WRITE_SCHEDULED"
                 ELSE IF x \in ended THEN "COMPLETE"
                 ELSE IF x \in sent  THEN "WRITE_SENT"
                 ELSE state[x]]
  /\ scheduled' = LeftScheduled(ended) \o InSequence(cancels)
  /\ writeLoop' = (conn' = "CONNECTED" /\ (writeLoop \/ cancels # {}))
  /\ closeLoop' \in BOOLEAN
  /\ tracked' = tracked \ ended
  /\ timers' = timers \ ended
  /\ streams' = streams \ (freed \cup initial)
  /\ first' = first \ (freed \cup initial \cup DOMAIN told)
  /\ conn' = "CLOSING" => Counted \ ended # {} \/ streams' # {}

(* What a callback tells the callers.                                      *)
Tells(result, told, ended, initial) ==
  /\ calls' \in [Requests -> Seq(Outcomes)]
  /\ \A r \in RR \cup FNF :
       /\ r \in DOMAIN result => calls'[r] = Append(calls[r], result[r])
       /\ r \in ended \ DOMAIN result => calls'[r] = Append(calls[r], "NOT_OPEN")
       /\ r \notin ended => calls'[r] = calls[r]
  /\ \A s \in Streams :
       /\ s \in initial =>
            \E v \in Errors :
              /\ calls'[s] = Append(calls[s], v)
              /\ \/ s \in DOMAIN result /\ v = result[s]
                 \/ s \in ended \ DOMAIN result
                 \/ s \in DOMAIN told /\ v = told[s]
       /\ s \in DOMAIN told \ initial => calls'[s] = Append(calls[s], told[s])
       /\ s \notin DOMAIN told \cup initial => calls'[s] = calls[s]

(* Finish, whatever a callback hands to it, ends in one of the ways that   *)
(* Ends and Tells describe.  The other lemmas on Finish start here.        *)
LEMMA FinishEnds ==
  ASSUME TypeOK, InScheduled, Heard,
         NEW c, NEW result, NEW sent, NEW close, NEW told, NEW freed,
         Call(c, result, sent, close, told, freed),
         Finish(c, result, sent, close, told, freed)
  PROVE  \E ended, initial, cancels :
           /\ Ends(c, result, sent, told, freed, ended, initial, cancels)
           /\ Tells(result, told, ended, initial)
<1> DEFINE refused == InitialErrors(Failed(result)) \cup Failed(told)
           closes == Closes(c, close, Failed(result), refused, DOMAIN result,
                            streams \ (freed \cup refused))
           drop == FailAllScheduledWrites(closes) \ DOMAIN result
<1>0. Settle(c, closes, result, drop, sent, told,
             refused \cup InitialErrors(drop), freed)
  BY DEF Finish
<1>1. /\ closes = TRUE \/ closes = FALSE
      /\ refused = InitialErrors(Failed(result)) \cup Failed(told)
      /\ closes <=> Closes(c, close, Failed(result), refused, DOMAIN result,
                           streams \ (freed \cup refused))
      /\ drop = FailAllScheduledWrites(closes) \ DOMAIN result
  BY DEF Closes
<1> HIDE DEF refused, closes, drop
<1> DEFINE ended == DOMAIN result \cup drop
           initial == refused \cup InitialErrors(drop)
           cancels == IF c = "CONNECTED" /\ ~closes
                        THEN {<<"CANCEL", s>> : s \in initial} ELSE {}
           answered == (ended \cap (RR \cup FNF)) \cup
                       InitialErrors(Failed(result) \cup drop)
<1>2. /\ conn' = IF closes THEN "ERROR" ELSE c
      /\ closeLoop' = (c # "CLOSED" /\ (closeLoop \/ closes))
      /\ state' = [x \in Contexts |->
                     IF x \in cancels    THEN "WRITE_SCHEDULED"
                     ELSE IF x \in ended THEN "COMPLETE"
                     ELSE IF x \in sent  THEN "WRITE_SENT"
                     ELSE state[x]]
      /\ scheduled' = LeftScheduled(ended) \o InSequence(cancels)
      /\ writeLoop' = (conn' = "CONNECTED" /\ (writeLoop \/ cancels # {}))
      /\ tracked' = tracked \ ended
      /\ timers' = timers \ ended
      /\ streams' = streams \ (freed \cup initial)
      /\ first' = FirstAfter(freed \cup initial, DOMAIN told)
      /\ calls' = [r \in Requests |->
                     IF r \in answered
                       THEN Append(calls[r], IF r \in drop THEN "NOT_OPEN"
                                                           ELSE result[r])
                     ELSE IF r \in DOMAIN told
                       THEN Append(calls[r], told[r])
                     ELSE calls[r]]
  BY <1>0 DEF Settle
<1>3. /\ \A x \in drop : /\ x \in Contexts /\ state[x] = "WRITE_SCHEDULED"
                         /\ x \notin DOMAIN result
      /\ closes = TRUE => \A i \in DOMAIN scheduled : scheduled[i] \in ended
      /\ closes = FALSE => drop = {}
  <2>1. \A i \in DOMAIN scheduled :
          /\ scheduled[i] \in Contexts
          /\ state[scheduled[i]] = "WRITE_SCHEDULED"
    BY SMTT(30) DEF TypeOK, InScheduled
  <2> QED  BY <1>1, <2>1 DEF FailAllScheduledWrites, ToSet
<1>4. /\ closes = TRUE => c \in {"CONNECTED", "CLOSING"}
      /\ closes = FALSE /\ c = "CLOSING" =>
           \/ Counted \ DOMAIN result # {}
           \/ streams \ (freed \cup refused) # {}
      /\ closes = FALSE /\ c = "CONNECTED" => close = FALSE
  BY <1>1 DEF Closes, NotifyIfDetachable, Call
<1>5. /\ initial \subseteq first
      /\ \A s \in DOMAIN told : told[s] \in Errors => s \in initial
      /\ \A s \in initial : \/ s \in DOMAIN told /\ told[s] \in Errors
                            \/ s \in ended /\ s \in answered
      /\ \A s \in first : s \in answered => s \in initial
  <2>1. \A s \in first : s \notin RR \cup FNF
    BY Kinds DEF TypeOK
  <2>2. initial \subseteq first
    BY <1>1 DEF InitialErrors, Failed, Call, Errors
  <2>3. \A s \in DOMAIN told : told[s] \in Errors => s \in initial
    BY <1>1 DEF Failed
  <2>4. \A s \in initial : \/ s \in DOMAIN told /\ told[s] \in Errors
                           \/ s \in ended /\ s \in answered
    BY <1>1 DEF InitialErrors, Failed
  <2>5. \A s \in first : s \in answered => s \in initial
    BY <1>1, <2>1 DEF InitialErrors
  <2> QED  BY <2>2, <2>3, <2>4, <2>5
<1>11. /\ \A s \in answered : s \notin drop => s \in DOMAIN result
       /\ \A s \in answered : s \notin (RR \cup FNF) /\ s \notin drop
                                => result[s] \in Errors
       /\ \A s \in answered : s \in RR \cup FNF \/ s \in first
       /\ \A r \in RR \cup FNF : r \in answered <=> r \in ended
  <2>1. \A s \in first : s \notin RR \cup FNF
    BY Kinds DEF TypeOK
  <2> QED  BY <1>1, <2>1 DEF InitialErrors, Failed
<1>12. closes = FALSE /\ c = "CONNECTED" => \A s \in initial : s \in DOMAIN told
  BY <1>1, <1>3, <1>4 DEF InitialErrors, Failed, Call
<1>6. /\ \A x \in cancels : \E s \in initial : x = <<"CANCEL", s>>
      /\ \A x, y \in cancels : x = y
      /\ cancels # {} => conn' = "CONNECTED"
  BY <1>2, <1>12, SMTT(30) DEF Call
<1>7. /\ conn' # "CONNECTED" =>
           \A i \in DOMAIN scheduled : scheduled[i] \in ended
      /\ \/ \A i \in DOMAIN scheduled : scheduled[i] \in ended
         \/ \A i \in DOMAIN scheduled : scheduled[i] \notin ended
  <2>1. CASE closes = TRUE
    BY <1>3, <2>1
  <2>2. CASE closes = FALSE
    <3>1. ended = DOMAIN result /\ conn' = c
      BY <1>2, <1>3, <2>2
    <3>2. conn # "CONNECTED" => DOMAIN scheduled = {}
      BY SMTT(30) DEF InScheduled
    <3> QED  BY <3>1, <3>2 DEF Call
  <2> QED  BY <1>1, <2>1, <2>2
<1>8. conn' = "CLOSING" => Counted \ ended # {} \/ streams' # {}
  BY <1>1, <1>2, <1>3, <1>4 DEF InitialErrors
<1>9. Ends(c, result, sent, told, freed, ended, initial, cancels)
  <2>1. \A x \in ended : /\ x \in Unfinished
                         /\ x \notin DOMAIN result
                              => state[x] = "WRITE_SCHEDULED"
    BY <1>3 DEF Call, Unfinished
  <2>2. closeLoop' \in BOOLEAN
    BY <1>2
  <2>3. \A x \in DOMAIN result : x \in ended
    OBVIOUS
  <2>4. conn' = c \/ (conn' = "ERROR" /\ c \in {"CONNECTED", "CLOSING"})
    BY <1>2, <1>4
  <2> HIDE DEF ended, initial, cancels
  <2>5. first' = first \ (freed \cup initial \cup DOMAIN told)
    BY <1>2 DEF FirstAfter
  <2> QED  BY <1>2, <1>5, <1>6, <1>7, <1>8, <2>1, <2>2, <2>3, <2>4, <2>5
           DEF Ends
<1>10. Tells(result, told, ended, initial)
  <2>1. \A r \in Requests : /\ r \in DOMAIN result => result[r] \in Outcomes
                            /\ r \in DOMAIN told => told[r] \in Outcomes
                            /\ calls[r] \in Seq(Outcomes)
    BY DEF Call, Outcomes, TypeOK
  <2>2. "NOT_OPEN" \in Errors /\ "NOT_OPEN" \in Outcomes
    BY DEF Outcomes, Errors
  <2> HIDE DEF ended, initial, answered
  <2>3. \A r \in Requests :
          /\ r \in answered => calls'[r] = Append(calls[r], IF r \in drop
                                           THEN "NOT_OPEN" ELSE result[r])
          /\ r \in DOMAIN told \ answered
               => calls'[r] = Append(calls[r], told[r])
          /\ r \notin answered /\ r \notin DOMAIN told => calls'[r] = calls[r]
    BY <1>2
  <2>4. calls' \in [Requests -> Seq(Outcomes)]
    <3>1. ASSUME NEW r \in Requests  PROVE calls'[r] \in Seq(Outcomes)
      <4>1. CASE r \in answered /\ r \in drop
        BY <2>1, <2>2, <2>3, <4>1, SMTT(30)
      <4>2. CASE r \in answered /\ r \notin drop
        BY <1>11, <2>1, <2>3, <4>2, SMTT(30)
      <4>3. CASE r \notin answered
        BY <2>1, <2>3, <4>3, SMTT(30)
      <4> QED  BY <4>1, <4>2, <4>3
    <3> QED  BY <1>2, <3>1
  <2>5. \A r \in RR \cup FNF :
       /\ r \in DOMAIN result => calls'[r] = Append(calls[r], result[r])
       /\ r \in ended \ DOMAIN result => calls'[r] = Append(calls[r], "NOT_OPEN")
       /\ r \notin ended => calls'[r] = calls[r]
    <3>1. \A r \in RR \cup FNF : r \in Requests /\ r \notin DOMAIN told
      BY Kinds DEF Call, TypeOK
    <3> QED  BY <1>3, <1>11, <2>3, <3>1 DEF ended
  <2>6. ASSUME NEW s \in Streams
        PROVE  /\ s \in initial =>
                    \E v \in Errors :
                      /\ calls'[s] = Append(calls[s], v)
                      /\ \/ s \in DOMAIN result /\ v = result[s]
                         \/ s \in ended \ DOMAIN result
                         \/ s \in DOMAIN told /\ v = told[s]
               /\ s \in DOMAIN told \ initial
                    => calls'[s] = Append(calls[s], told[s])
               /\ s \notin DOMAIN told \cup initial => calls'[s] = calls[s]
    <3>1. s \in Requests /\ s \notin RR \cup FNF
      BY Kinds
    <3>2. s \in answered => s \in initial
      BY <1>5, <1>11, <3>1
    <3>3. CASE s \notin initial
      BY <2>3, <3>1, <3>2, <3>3
    <3>4. CASE s \in initial /\ s \notin answered
      BY <1>5, <2>3, <3>1, <3>4
    <3>5. CASE s \in answered /\ s \in drop
      BY <1>3, <2>2, <2>3, <3>1, <3>2, <3>5 DEF ended
    <3>6. CASE s \in answered /\ s \notin drop
      BY <1>11, <2>3, <3>1, <3>2, <3>6
    <3> QED  BY <3>3, <3>4, <3>5, <3>6
  <2> QED  BY <2>4, <2>5, <2>6 DEF Tells
<1> QED  BY <1>9, <1>10

-----------------------------------------------------------------------------
(* What the end of a callback does to each invariant                       *)

(* The states of a context.                                                *)
States == {"NEW", "WRITE_SCHEDULED", "WRITE_SENDING", "WRITE_SENT", "COMPLETE"}

(* The state of a context moves forward: from NEW to WRITE_SCHEDULED, from *)
(* WRITE_SENDING to WRITE_SENT, from anywhere in between to COMPLETE.      *)
LEMMA EndsState ==
  ASSUME TypeOK, Heard,
         NEW c, NEW result, NEW sent, NEW close, NEW told, NEW freed,
         NEW ended, NEW initial, NEW cancels,
         Call(c, result, sent, close, told, freed),
         Ends(c, result, sent, told, freed, ended, initial, cancels)
  PROVE  /\ state' \in [Contexts -> States]
         /\ \A x \in cancels : /\ x \in Control /\ x \notin ended
                               /\ state[x] = "NEW"
                               /\ state'[x] = "WRITE_SCHEDULED"
         /\ \A x \in ended : /\ x \in Contexts
                             /\ state[x] \notin {"NEW", "COMPLETE"}
                             /\ state'[x] = "COMPLETE"
         /\ \A x \in sent : /\ x \in Contexts \ ended /\ x \notin cancels
                            /\ state[x] = "WRITE_SENDING"
                            /\ state'[x] = "WRITE_SENT"
         /\ \A x \in Contexts :
              x \notin cancels /\ x \notin ended /\ x \notin sent
                => state'[x] = state[x]
<1>1. \A x \in cancels : x \in Control /\ state[x] = "NEW"
  <2> SUFFICES ASSUME NEW x \in cancels
               PROVE  x \in Control /\ state[x] = "NEW"
    OBVIOUS
  <2>1. PICK s \in initial : x = <<"CANCEL", s>>
    BY DEF Ends
  <2>2. s \in first /\ s \in Streams
    BY DEF Ends, TypeOK
  <2> QED  BY <2>1, <2>2, Kinds DEF Heard
<1>2. \A x \in ended : x \in Contexts /\ state[x] \notin {"NEW", "COMPLETE"}
  BY DEF Ends, Unfinished
<1>3. \A x \in ended : x \notin DOMAIN result => state[x] = "WRITE_SCHEDULED"
  BY DEF Ends
<1>4. \A x \in sent : /\ x \in Contexts /\ x \notin DOMAIN result
                      /\ state[x] = "WRITE_SENDING"
  BY DEF Call
<1>5. state' = [x \in Contexts |->
                 IF x \in cancels    THEN "WRITE_SCHEDULED"
                 ELSE IF x \in ended THEN "COMPLETE"
                 ELSE IF x \in sent  THEN "WRITE_SENT"
                 ELSE state[x]]
  BY DEF Ends
<1>6. state \in [Contexts -> States]
  BY DEF TypeOK, States
<1>7. state' \in [Contexts -> States]
  BY <1>5, <1>6 DEF States
<1> QED  BY <1>1, <1>2, <1>3, <1>4, <1>5, <1>7, Kinds

(* writeScheduledQueue_ loses all it holds or nothing, and gains the       *)
(* CANCEL frame of a stream that failed.                                   *)
LEMMA EndsScheduled ==
  ASSUME TypeOK, Heard, InScheduled,
         NEW c, NEW result, NEW sent, NEW close, NEW told, NEW freed,
         NEW ended, NEW initial, NEW cancels,
         Call(c, result, sent, close, told, freed),
         Ends(c, result, sent, told, freed, ended, initial, cancels)
  PROVE  InScheduled' /\ scheduled' \in Seq(Contexts)
<1>1. /\ scheduled \in Seq(Contexts)
      /\ \A i \in DOMAIN scheduled : /\ scheduled[i] \in Contexts
                                     /\ state[scheduled[i]] = "WRITE_SCHEDULED"
      /\ \A i, j \in DOMAIN scheduled : scheduled[i] = scheduled[j] => i = j
      /\ \A x \in Contexts : state[x] = "WRITE_SCHEDULED"
                               => \E i \in DOMAIN scheduled : scheduled[i] = x
  BY SMTT(30) DEF TypeOK, InScheduled
<1>2. /\ \A x \in cancels : /\ x \in Contexts /\ x \notin ended
                            /\ state[x] = "NEW"
                            /\ state'[x] = "WRITE_SCHEDULED"
      /\ \A x \in ended : x \in Contexts /\ state'[x] = "COMPLETE"
      /\ \A x \in Contexts :
           x \notin cancels /\ x \notin ended /\ x \notin sent
             => state'[x] = state[x]
      /\ \A x \in sent : state[x] = "WRITE_SENDING" /\ state'[x] = "WRITE_SENT"
  BY EndsState, Kinds, SMTT(30)
<1>3. \A x \in Contexts : state'[x] = "WRITE_SCHEDULED" <=>
        x \in cancels \/ (x \notin ended /\ state[x] = "WRITE_SCHEDULED")
  BY <1>2
<1> DEFINE left == LeftScheduled(ended)
<1>4. /\ left \in Seq(Contexts)
      /\ \A i \in DOMAIN left : /\ left[i] \in Contexts \ ended
                                /\ state[left[i]] = "WRITE_SCHEDULED"
      /\ \A i, j \in DOMAIN left : left[i] = left[j] => i = j
      /\ \A x \in Contexts :
           x \notin ended /\ state[x] = "WRITE_SCHEDULED"
             => \E i \in DOMAIN left : left[i] = x
      /\ left # <<>> => left = scheduled /\ conn' = "CONNECTED"
  <2>1. CASE \A i \in DOMAIN scheduled : scheduled[i] \in ended
    <3>1. LeftScheduled(ended) = <<>>
      BY <2>1 DEF LeftScheduled, ToSet
    <3>2. left \in Seq(Contexts) /\ DOMAIN left = {}
      BY <3>1, SMTT(30)
    <3> QED  BY <1>1, <2>1, <3>1, <3>2, SMTT(30)
  <2>2. CASE ~ \A i \in DOMAIN scheduled : scheduled[i] \in ended
    <3>1. LeftScheduled(ended) = scheduled
      BY <2>2 DEF LeftScheduled, ToSet
    <3>2. /\ conn' = "CONNECTED"
          /\ \A i \in DOMAIN scheduled : scheduled[i] \notin ended
      BY <2>2 DEF Ends
    <3> QED  BY <1>1, <3>1, <3>2
  <2> QED  BY <2>1, <2>2
<1>10. scheduled' = left \o InSequence(cancels)
  BY DEF Ends
<1> HIDE DEF left
<1>5. /\ conn' # "CONNECTED" => cancels = {}
      /\ \A x, y \in cancels : x = y
      /\ conn' = "CONNECTED" /\ cancels # {} => writeLoop' = TRUE
      /\ conn' = "CONNECTED" /\ writeLoop = TRUE => writeLoop' = TRUE
  BY DEF Ends
<1>6. left # <<>> => writeLoop = TRUE /\ conn' = "CONNECTED"
  BY <1>4 DEF InScheduled
<1>7. CASE cancels = {}
  <2>1. scheduled' = left
    BY <1>4, <1>7, <1>10, SMTT(30) DEF InSequence
  <2>2. \A x \in Contexts : state'[x] = "WRITE_SCHEDULED"
                              <=> \E i \in DOMAIN left : left[i] = x
    BY <1>3, <1>4, <1>7, SMTT(30)
  <2>3. left # <<>> => writeLoop' = TRUE /\ conn' = "CONNECTED"
    BY <1>5, <1>6
  <2> QED  BY <1>4, <2>1, <2>2, <2>3 DEF InScheduled
<1>8. CASE cancels # {}
  <2>1. PICK x \in cancels : TRUE
    BY <1>8
  <2>2. InSequence(cancels) = <<x>>
    BY <1>5, <1>8, <2>1 DEF InSequence
  <2>3. scheduled' = Append(left, x) /\ x \in Contexts
    BY <1>2, <1>4, <1>10, <2>2, SMTT(30)
  <2>4. \A i \in DOMAIN left : left[i] # x
    BY <1>2, <1>4, <2>1
  <2>5. /\ scheduled' \in Seq(Contexts) /\ Len(scheduled') = Len(left) + 1
        /\ DOMAIN scheduled' = 1..(Len(left) + 1) /\ DOMAIN left = 1..Len(left)
        /\ Len(left) \in Nat
        /\ \A i \in DOMAIN left : scheduled'[i] = left[i]
        /\ scheduled'[Len(left) + 1] = x
    BY <1>4, <2>3, SMTT(30)
  <2>6. \A i, j \in DOMAIN scheduled' : scheduled'[i] = scheduled'[j] => i = j
    BY <1>4, <2>4, <2>5, SMTT(30)
  <2>7. ASSUME NEW y \in Contexts
        PROVE  state'[y] = "WRITE_SCHEDULED"
                 <=> \E i \in DOMAIN scheduled' : scheduled'[i] = y
    <3>1. CASE y = x
      BY <1>3, <2>1, <2>5, <3>1, SMTT(30)
    <3>2. CASE y # x
      <4>1. y \notin cancels
        BY <1>5, <2>1, <3>2
      <4>2. (\E i \in DOMAIN scheduled' : scheduled'[i] = y)
              <=> \E i \in DOMAIN left : left[i] = y
        BY <2>5, <3>2, SMTT(30)
      <4> QED  BY <1>3, <1>4, <4>1, <4>2, SMTT(30)
    <3> QED  BY <3>1, <3>2
  <2> QED  BY <1>5, <1>8, <2>5, <2>6, <2>7 DEF InScheduled
<1> QED  BY <1>7, <1>8

(* A context that ends can no longer be reached by a response or by its    *)
(* timeout.                                                                *)
LEMMA EndsReachable ==
  ASSUME TypeOK, Heard, Reachable,
         NEW c, NEW result, NEW sent, NEW close, NEW told, NEW freed,
         NEW ended, NEW initial, NEW cancels,
         Call(c, result, sent, close, told, freed),
         Ends(c, result, sent, told, freed, ended, initial, cancels)
  PROVE  Reachable'
<1>1. /\ \A x \in ended : x \in Contexts /\ state'[x] = "COMPLETE"
      /\ \A x \in Contexts :
           x \notin cancels /\ x \notin ended /\ x \notin sent
             => state'[x] = state[x]
      /\ \A x \in sent : state[x] = "WRITE_SENDING" /\ state'[x] = "WRITE_SENT"
      /\ \A x \in cancels : x \in Control
      /\ \A x \in ended : state[x] \notin {"NEW", "COMPLETE"}
  BY EndsState, SMTT(30)
<1>2. /\ tracked' = tracked \ ended /\ timers' = timers \ ended
      /\ tracked \subseteq RR /\ timers \subseteq RR
  BY DEF Ends, TypeOK
<1>3. \A r \in RR : r \in Contexts /\ r \notin cancels
  BY <1>1, Kinds
<1> QED  BY <1>1, <1>2, <1>3 DEF Reachable

(* A client that is CLOSING after the callback has a request or a stream   *)
(* left: notifyIfDetachable() would have closed it.                        *)
LEMMA EndsDrained ==
  ASSUME TypeOK, Heard,
         NEW c, NEW result, NEW sent, NEW close, NEW told, NEW freed,
         NEW ended, NEW initial, NEW cancels,
         Call(c, result, sent, close, told, freed),
         Ends(c, result, sent, told, freed, ended, initial, cancels)
  PROVE  conn' = "CLOSING" => Counted' # {} \/ streams' # {}
<1> SUFFICES ASSUME conn' = "CLOSING", streams' = {}  PROVE Counted' # {}
  OBVIOUS
<1>1. PICK x \in Counted : x \notin ended
  BY DEF Ends
<1>2. x \in Contexts /\ state[x] \notin {"NEW", "COMPLETE"}
        /\ x \in (RR \cup FNF) \cup Control
  BY <1>1, Kinds DEF Counted
<1>3. state'[x] \notin {"NEW", "COMPLETE"}
  BY <1>1, <1>2, EndsState, SMTT(30)
<1> QED  BY <1>2, <1>3 DEF Counted

(* The server's view of the streams that are new and that stay.            *)
PeerAgrees(told, freed) ==
  /\ \A s \in Streams : state[s] = "NEW" => peer'[s] = peer[s]
  /\ \A s \in streams \ freed :
       \/ peer'[s] = peer[s] /\ (s \in DOMAIN told => told[s] # "response")
       \/ s \in DOMAIN told /\ told[s] = "response" /\ peer'[s] = "open"

(* A caller hears of the end of its request once, and a stream's consumer  *)
(* in the right order.                                                     *)
LEMMA EndsHeard ==
  ASSUME TypeOK, Heard,
         NEW c, NEW result, NEW sent, NEW close, NEW told, NEW freed,
         NEW ended, NEW initial, NEW cancels,
         Call(c, result, sent, close, told, freed),
         Ends(c, result, sent, told, freed, ended, initial, cancels),
         Tells(result, told, ended, initial),
         PeerAgrees(told, freed)
  PROVE  Heard'
<1>1. /\ \A x \in ended : x \in Contexts /\ state'[x] = "COMPLETE"
      /\ \A x \in Contexts :
           x \notin cancels /\ x \notin ended /\ x \notin sent
             => state'[x] = state[x]
      /\ \A x \in sent : state[x] = "WRITE_SENDING" /\ state'[x] = "WRITE_SENT"
      /\ \A x \in cancels : x \in Control
      /\ \A x \in ended : state[x] \notin {"NEW", "COMPLETE"}
  BY EndsState, SMTT(30)
<1>2. ASSUME NEW r \in RR \cup FNF
      PROVE  /\ state'[r] = "COMPLETE" => Len(calls'[r]) = 1
             /\ state'[r] # "COMPLETE" => calls'[r] = <<>>
  <2>1. r \in Contexts /\ r \notin cancels
    BY <1>1, Kinds
  <2>2. CASE r \in ended
    <3>1. calls[r] = <<>>
      BY <1>1, <2>2 DEF Heard
    <3>2. \/ calls'[r] = Append(calls[r], result[r])
          \/ calls'[r] = Append(calls[r], "NOT_OPEN")
      BY <2>2 DEF Tells
    <3>3. Len(calls'[r]) = 1
      <4>1. CASE calls'[r] = Append(calls[r], result[r])
        BY <3>1, <4>1, SMTT(30)
      <4>2. CASE calls'[r] = Append(calls[r], "NOT_OPEN")
        BY <3>1, <4>2, SMTT(30)
      <4> QED  BY <3>2, <4>1, <4>2
    <3> QED  BY <1>1, <2>2, <3>3
  <2>3. CASE r \notin ended
    <3>1. calls'[r] = calls[r]
      BY <2>3 DEF Tells
    <3>2. state'[r] = "COMPLETE" <=> state[r] = "COMPLETE"
      BY <1>1, <2>1, <2>3
    <3> QED  BY <3>1, <3>2 DEF Heard
  <2> QED  BY <2>2, <2>3
<1>3. ASSUME NEW s \in Streams
      PROVE  /\ state'[s] = "NEW" =>
                  /\ s \notin streams' /\ calls'[s] = <<>> /\ peer'[s] = "none"
                  /\ state'[<<"CANCEL", s>>] = "NEW"
             /\ s \in first' =>
                  /\ s \in streams' /\ calls'[s] = <<>> /\ peer'[s] = "none"
             /\ s \in streams' => state'[<<"CANCEL", s>>] = "NEW"
             /\ s \in streams' \ first' =>
                  calls'[s] = <<"response">> /\ peer'[s] = "open"
             /\ Len(calls'[s]) <= 2
             /\ Len(calls'[s]) = 2 =>
                  /\ calls'[s][1] = "response"
                  /\ calls'[s][2] \in {"streamEnd", "streamError"}
  <2>0. /\ s \in Contexts /\ s \notin cancels /\ calls[s] \in Seq(Outcomes)
        /\ <<"CANCEL", s>> \in Contexts
        /\ streams \subseteq Streams /\ first \subseteq Streams
    BY <1>1, Kinds DEF TypeOK
  <2>1. /\ streams' = streams \ (freed \cup initial)
        /\ first' = first \ (freed \cup initial \cup DOMAIN told)
        /\ initial \subseteq first
    BY DEF Ends
  <2>2. state'[s] = "NEW" => state[s] = "NEW"
    BY <1>1, <2>0
  <2>3. /\ state[s] = "NEW" =>
             /\ s \notin streams /\ calls[s] = <<>> /\ peer[s] = "none"
             /\ state[<<"CANCEL", s>>] = "NEW"
        /\ s \in first => /\ s \in streams /\ calls[s] = <<>>
                          /\ peer[s] = "none"
        /\ s \in streams => state[<<"CANCEL", s>>] = "NEW"
        /\ s \in streams \ first =>
             calls[s] = <<"response">> /\ peer[s] = "open"
        /\ Len(calls[s]) <= 2
        /\ Len(calls[s]) = 2 =>
             /\ calls[s][1] = "response"
             /\ calls[s][2] \in {"streamEnd", "streamError"}
    BY DEF Heard
  <2>4. s \in streams' \/ state'[s] = "NEW" => state'[<<"CANCEL", s>>] = "NEW"
    <3> SUFFICES ASSUME s \in streams' \/ state'[s] = "NEW"
                 PROVE  state'[<<"CANCEL", s>>] = "NEW"
      OBVIOUS
    <3>1. state[<<"CANCEL", s>>] = "NEW" /\ s \notin initial
      BY <2>1, <2>2, <2>3
    <3>2. <<"CANCEL", s>> \notin cancels
      <4>1. \A t \in initial : t \in Streams
        BY <2>0, <2>1
      <4> QED  BY <3>1, <4>1, Kinds, SMTT(30) DEF Ends
    <3> QED  BY <1>1, <2>0, <3>1, <3>2
  <2>8. state[s] = "NEW" => peer'[s] = "none"
    BY <2>3 DEF PeerAgrees
  <2>5. CASE s \in initial
    <3>1. PICK v \in Errors : calls'[s] = Append(calls[s], v)
      BY <2>5 DEF Tells
    <3>2. calls[s]
            = <<>> /\ s \notin first' /\ s \notin streams' /\ state[s] # "NEW"
      BY <2>1, <2>3, <2>5
    <3>3. Len(calls'[s]) = 1
      BY <3>1, <3>2, SMTT(30)
    <3> QED  BY <2>2, <2>4, <3>2, <3>3, SMTT(30)
  <2>6. CASE s \notin initial /\ s \in DOMAIN told
    <3>1. calls'[s]
            = Append(calls[s], told[s]) /\ s \notin first' /\ s \in streams
      BY <2>1, <2>6 DEF Tells, Call
    <3>2. told[s] \notin Errors
      BY <2>6 DEF Ends
    <3>3. CASE told[s] = "response" /\ s \in first /\ s \notin freed
      <4>1. calls'[s] = <<"response">> /\ Len(calls'[s]) = 1
        <5>1. calls[s] = <<>>
          BY <2>3, <3>3
        <5>2. Append(<<>>, "response") = <<"response">>
          BY SMTT(30)
        <5>3. Len(<<"response">>) = 1
          OBVIOUS
        <5> QED  BY <3>1, <3>3, <5>1, <5>2, <5>3
      <4>2. peer'[s] = "open"
        BY <2>6, <3>1, <3>3 DEF PeerAgrees
      <4> QED  BY <2>2, <2>3, <2>4, <3>1, <4>1, <4>2, SMTT(30)
    <3>4. CASE /\ told[s] \in {"streamEnd", "streamError"}
               /\ s \in freed /\ s \notin first
      <4>1. calls[s] = <<"response">> /\ s \notin streams' /\ state[s] # "NEW"
        BY <2>1, <2>3, <3>1, <3>4
      <4>2. Len(calls'[s])
              = 2 /\ calls'[s][1] = "response" /\ calls'[s][2] = told[s]
        BY <3>1, <4>1, SMTT(30)
      <4> QED  BY <2>2, <2>4, <3>1, <3>4, <4>1, <4>2, SMTT(30)
    <3> QED  BY <2>6, <3>2, <3>3, <3>4 DEF Call
  <2>7. CASE s \notin initial /\ s \notin DOMAIN told
    <3>1. calls'[s] = calls[s]
      BY <2>7 DEF Tells
    <3>2. /\ s \in first' <=> s \in first
          /\ s \in streams' => s \in streams /\ peer'[s] = peer[s]
          /\ s \in first => s \in streams'
      BY <2>1, <2>3, <2>7 DEF Call, PeerAgrees
    <3> QED  BY <2>2, <2>3, <2>4, <2>8, <3>1, <3>2
  <2> QED  BY <2>5, <2>6, <2>7
<1> QED  BY <1>2, <1>3 DEF Heard

-----------------------------------------------------------------------------
(* The steps                                                               *)

(* The part of the invariant that Finish decides.                          *)
Half ==
  /\ conn \in {"CONNECTED", "CLOSING", "ERROR", "CLOSED"}
  /\ state \in [Contexts -> States]
  /\ scheduled \in Seq(Contexts)
  /\ tracked \subseteq RR /\ timers \subseteq RR
  /\ streams \subseteq Streams /\ first \subseteq Streams
  /\ writeLoop \in BOOLEAN /\ closeLoop \in BOOLEAN
  /\ calls \in [Requests -> Seq(Outcomes)]
  /\ InScheduled /\ Reachable /\ Heard
  /\ conn = "CLOSING" => Counted # {} \/ streams # {}

(* Finish keeps its half of the invariant; the other half is about the     *)
(* queue and the socket, and needs to know which contexts are still being  *)
(* sent.                                                                   *)
LEMMA FinishHalf ==
  ASSUME TypeOK, InScheduled, Reachable, Heard,
         NEW c, NEW result, NEW sent, NEW close, NEW told, NEW freed,
         Call(c, result, sent, close, told, freed),
         Finish(c, result, sent, close, told, freed),
         PeerAgrees(told, freed)
  PROVE  /\ Half'
         /\ conn' = c \/ (conn' = "ERROR" /\ c # "CLOSED")
         /\ \A x \in Contexts :
              state'[x] = "WRITE_SENDING" <=>
                /\ state[x] = "WRITE_SENDING"
                /\ x \notin DOMAIN result /\ x \notin sent
         /\ \A x \in Contexts :
              state[x] \notin {"NEW", "WRITE_SCHEDULED"}
                => state'[x] \notin {"NEW", "WRITE_SCHEDULED"}
<1>1. PICK ended, initial, cancels :
        /\ Ends(c, result, sent, told, freed, ended, initial, cancels)
        /\ Tells(result, told, ended, initial)
  BY FinishEnds
<1>2. /\ state' \in [Contexts -> States]
      /\ \A x \in cancels : /\ x \in Control /\ x \notin ended
                            /\ state[x] = "NEW"
                            /\ state'[x] = "WRITE_SCHEDULED"
      /\ \A x \in ended : x \in Contexts /\ state'[x] = "COMPLETE"
      /\ \A x \in sent : state'[x] = "WRITE_SENT"
      /\ \A x \in Contexts :
           x \notin cancels /\ x \notin ended /\ x \notin sent
             => state'[x] = state[x]
  BY <1>1, EndsState, SMTT(30)
<1>3. InScheduled' /\ scheduled' \in Seq(Contexts)
  BY <1>1, EndsScheduled
<1>4. Reachable' /\ Heard'
  BY <1>1, EndsReachable, EndsHeard
<1>5. conn' = "CLOSING" => Counted' # {} \/ streams' # {}
  BY <1>1, EndsDrained
<1>6. conn' = c \/ (conn' = "ERROR" /\ c # "CLOSED")
  BY <1>1 DEF Ends
<1>7. /\ conn' \in {"CONNECTED", "CLOSING", "ERROR", "CLOSED"}
      /\ tracked' \subseteq RR /\ timers' \subseteq RR
      /\ streams' \subseteq Streams /\ first' \subseteq Streams
      /\ writeLoop' \in BOOLEAN /\ closeLoop' \in BOOLEAN
      /\ calls' \in [Requests -> Seq(Outcomes)]
  BY <1>1 DEF Ends, Tells, TypeOK, Call
<1>8. Half'
  BY <1>2, <1>3, <1>4, <1>5, <1>7 DEF Half
<1>9. \A x \in ended : x \notin DOMAIN result => state[x] = "WRITE_SCHEDULED"
  BY <1>1 DEF Ends
<1>10. \A x \in DOMAIN result : x \in ended
  BY <1>1 DEF Ends
<1> QED  BY <1>2, <1>6, <1>8, <1>9, <1>10

(* A set of numbers has a least element.                                   *)
LEMMA Least ==
  ASSUME NEW T \in SUBSET Nat, T # {}
  PROVE  \E x \in T : \A y \in T : x <= y
<1> DEFINE below == {p \in Nat \X Nat : p[1] < p[2]}
<1>1. IsWellFoundedOn(below, Nat)
  BY NatLessThanWellFounded DEF OpToRel
<1>2. PICK x \in T : \A y \in T : ~ (<<y, x>> \in below)
  <2> HIDE DEF below
  <2> QED BY <1>1, WFMin
<1>3. \A y \in T : ~ (y < x)
  BY <1>2
<1> QED  BY <1>3, SMTT(30)

(* The numbers up to k are k many.                                         *)
LEMMA CountTo ==
  ASSUME NEW k \in Nat
  PROVE  IsFiniteSet(1..k) /\ Cardinality(1..k) = k
<1>1. k \in Int /\ 1 \in Int /\ (IF 1 > k THEN 0 ELSE k - 1 + 1) = k
  BY SMTT(30)
<1> QED  BY <1>1, FS_Interval

(* A set of places that is closed downwards is an interval.                *)
LEMMA DownClosed ==
  ASSUME NEW m \in Nat, NEW D \in SUBSET (1..m),
         \A i \in D : \A j \in 1..m : j <= i => j \in D
  PROVE  /\ IsFiniteSet(D) /\ Cardinality(D) \in 0..m
         /\ D = 1..Cardinality(D)
<1>1. \E k \in 0..m : D = 1..k
  <2> DEFINE T == (1..(m + 1)) \ D
  <2>1. T \in SUBSET Nat /\ m + 1 \in T
    BY SMTT(30)
  <2>2. PICK x \in T : \A y \in T : x <= y
    <3> HIDE DEF T
    <3> QED  BY <2>1, Least
  <2>3. x \in Nat /\ 1 <= x /\ x <= m + 1 /\ x \notin D
    BY <2>2, SMTT(30)
  <2>4. \A y \in 1..m : y \in D <=> y < x
    <3> SUFFICES ASSUME NEW y \in 1..m  PROVE y \in D <=> y < x
      OBVIOUS
    <3>1. y < x => y \in D
      BY <2>2, <2>3, SMTT(30)
    <3>2. y \in D => y < x
      BY <2>3, SMTT(30)
    <3> QED  BY <3>1, <3>2
  <2>5. x - 1 \in 0..m
    BY <2>3, SMTT(30)
  <2>6. \A y \in D : y \in 1..(x - 1)
    BY <2>3, <2>4, SMTT(30)
  <2>7. \A y \in 1..(x - 1) : y \in D
    BY <2>3, <2>4, SMTT(30)
  <2>8. D = 1..(x - 1)
    BY <2>6, <2>7
  <2> QED  BY <2>5, <2>8
<1>2. PICK k \in 0..m : D = 1..k
  BY <1>1
<1> QED  BY <1>2, CountTo, SMTT(30)

(* What EndsBefore counts.                                                 *)
LEMMA EndsCount ==
  ASSUME NEW q, NEW i \in Nat \ {0}
  PROVE  /\ EndsBefore(q, i) \in Nat /\ EndsBefore(q, 1) = 0
         /\ q[i].last = TRUE => EndsBefore(q, i + 1) = EndsBefore(q, i) + 1
         /\ q[i].last = FALSE => EndsBefore(q, i + 1) = EndsBefore(q, i)
<1> DEFINE S(k) == {j \in 1..(k - 1) : q[j].last}
<1>1. IsFiniteSet(S(i)) /\ Cardinality(S(i)) \in Nat
  <2>1. IsFiniteSet(1..(i - 1))
    BY CountTo, SMTT(30)
  <2>2. S(i) \in SUBSET (1..(i - 1))
    OBVIOUS
  <2> QED  BY <2>1, <2>2, FS_Subset, FS_CardinalityType
<1>2. S(1) = {}
  BY SMTT(30)
<1>3. q[i].last = TRUE => S(i + 1) = S(i) \cup {i} /\ i \notin S(i)
  BY SMTT(30)
<1>4. q[i].last = FALSE => S(i + 1) = S(i)
  BY SMTT(30)
<1>5. /\ EndsBefore(q, i) = Cardinality(S(i))
      /\ EndsBefore(q, 1) = Cardinality(S(1))
      /\ EndsBefore(q, i + 1) = Cardinality(S(i + 1))
  BY DEF EndsBefore
<1> HIDE DEF S
<1>6. q[i].last = TRUE => Cardinality(S(i + 1)) = Cardinality(S(i)) + 1
  BY <1>1, <1>3, FS_AddElement
<1>7. Cardinality(S(1)) = 0
  BY <1>2, FS_EmptySet
<1> QED  BY <1>1, <1>4, <1>5, <1>6, <1>7

(* No batch ends before the first entry.                                   *)
LEMMA NoneBefore ==
  ASSUME NEW q
  PROVE  EndsBefore(q, 1) = 0
<1>1. 1 \in Nat \ {0}
  BY SMTT(30)
<1> QED  BY <1>1, EndsCount

(* The count of marks grows along the queue.                               *)
LEMMA EndsGrow ==
  ASSUME NEW q, NEW i \in Nat \ {0}, NEW k \in Nat \ {0}, i <= k
  PROVE  /\ EndsBefore(q, i) \in Nat /\ EndsBefore(q, k) \in Nat
         /\ EndsBefore(q, i) <= EndsBefore(q, k)
<1> DEFINE S(n) == {j \in 1..(n - 1) : q[j].last}
<1>1. IsFiniteSet(S(k))
  <2>1. IsFiniteSet(1..(k - 1))
    BY CountTo, SMTT(30)
  <2>2. S(k) \in SUBSET (1..(k - 1))
    OBVIOUS
  <2> QED  BY <2>1, <2>2, FS_Subset
<1>2. S(i) \in SUBSET S(k)
  BY SMTT(30)
<1>3. EndsBefore(q, i)
        = Cardinality(S(i)) /\ EndsBefore(q, k) = Cardinality(S(k))
  BY DEF EndsBefore
<1> HIDE DEF S
<1> QED  BY <1>1, <1>2, <1>3, FS_Subset, FS_CardinalityType

(* Queues p and q have the same marks in the m places after a and b.       *)
Alike(p, a, q, b, m) ==
  \A k \in 1..m : /\ p[a + k].last \in BOOLEAN
                  /\ p[a + k].last = q[b + k].last

(* As many of them before the i-th of those places.                        *)
Even(p, a, q, b, i) ==
  EndsBefore(p, a + i) - EndsBefore(p, a + 1)
    = EndsBefore(q, b + i) - EndsBefore(q, b + 1)

(* Where two queues have the same marks, they have the same counts.        *)
LEMMA SameMarks ==
  ASSUME NEW p, NEW q, NEW a \in Nat, NEW b \in Nat, NEW m \in Nat,
         Alike(p, a, q, b, m)
  PROVE  \A i \in 1..(m + 1) : Even(p, a, q, b, i)
<1> SUFFICES ASSUME NEW i \in 1..(m + 1)  PROVE Even(p, a, q, b, i)
  OBVIOUS
<1> DEFINE E(k) == EndsBefore(p, a + k)
           F(k) == EndsBefore(q, b + k)
<1>1. ASSUME NEW k \in 1..m
      PROVE  /\ E(k) \in Nat /\ F(k) \in Nat
             /\ E(k + 1) \in Nat /\ F(k + 1) \in Nat
             /\ E(k + 1) - E(k) = F(k + 1) - F(k)
  <2>1. /\ a + k \in Nat \ {0} /\ b + k \in Nat \ {0}
        /\ a + (k + 1) = (a + k) + 1 /\ b + (k + 1) = (b + k) + 1
        /\ a + (k + 1) \in Nat \ {0} /\ b + (k + 1) \in Nat \ {0}
    BY SMTT(30)
  <2>2. /\ E(k) \in Nat /\ F(k) \in Nat /\ E(k + 1) \in Nat /\ F(k + 1) \in Nat
    BY <2>1, EndsCount
  <2>3. /\ p[a + k].last = TRUE \/ p[a + k].last = FALSE
        /\ p[a + k].last = q[b + k].last
    BY DEF Alike
  <2>4. CASE p[a + k].last = TRUE
    <3>1. E(k + 1) = E(k) + 1 /\ F(k + 1) = F(k) + 1
      BY <2>1, <2>3, <2>4, EndsCount
    <3> HIDE DEF E, F
    <3> QED  BY <2>2, <3>1, SMTT(30)
  <2>5. CASE p[a + k].last = FALSE
    <3>1. E(k + 1) = E(k) /\ F(k + 1) = F(k)
      BY <2>1, <2>3, <2>5, EndsCount
    <3> HIDE DEF E, F
    <3> QED  BY <2>2, <3>1, SMTT(30)
  <2> QED  BY <2>2, <2>3, <2>4, <2>5
<1>2. E(1) \in Nat /\ F(1) \in Nat
  <2>1. a + 1 \in Nat \ {0} /\ b + 1 \in Nat \ {0}
    BY SMTT(30)
  <2> QED  BY <2>1, EndsCount
<1> HIDE DEF E, F
<1>3. E(i) - E(1) = F(i) - F(1)
  <2> DEFINE T == {k \in 1..(m + 1) : E(k) - E(1) # F(k) - F(1)}
  <2> SUFFICES ASSUME i \in T  PROVE FALSE
    OBVIOUS
  <2>1. T \in SUBSET Nat
    BY SMTT(30)
  <2>2. PICK x \in T : \A y \in T : x <= y
    <3> HIDE DEF T
    <3> QED  BY <2>1, Least
  <2>3. x # 1
    BY <1>2, <2>2, SMTT(30)
  <2>4. x - 1 \in 1..m /\ x - 1 \notin T
    BY <2>2, <2>3, SMTT(30)
  <2>5. E(x - 1) - E(1) = F(x - 1) - F(1)
    BY <2>4, SMTT(30)
  <2>6. /\ E(x - 1) \in Nat /\ F(x - 1) \in Nat /\ E(x) \in Nat /\ F(x) \in Nat
        /\ E(x) - E(x - 1) = F(x) - F(x - 1)
    BY SMTT(30), <1>1, <2>4, (x - 1) + 1 = x
  <2>7. E(x) - E(1) = F(x) - F(1)
    BY <1>2, <2>5, <2>6, SMTT(30)
  <2> QED  BY <2>2, <2>7
<1> QED  BY <1>3 DEF E, F, Even

(* The places up to the first mark of a queue.                             *)
LEMMA FirstEnd ==
  ASSUME NEW q \in Seq(Entries)
  PROVE  LET D == {i \in DOMAIN q : EndsBefore(q, i) = 0}
         IN  /\ Cardinality(D) \in 0..Len(q) /\ D = 1..Cardinality(D)
             /\ Cardinality(D) < Len(q) =>
                  Cardinality(D) > 0 /\ q[Cardinality(D)].last = TRUE
             /\ EndsBefore(q, Cardinality(D) + 1) <= 1
<1> DEFINE D == {i \in DOMAIN q : EndsBefore(q, i) = 0}
           n == Cardinality(D)
<1>1. /\ Len(q) \in Nat /\ DOMAIN q = 1..Len(q)
      /\ \A i \in DOMAIN q : q[i].last = TRUE \/ q[i].last = FALSE
  BY SMTT(30) DEF Entries
<1>2. \A i \in D : \A j \in 1..Len(q) : j <= i => j \in D
  <2> SUFFICES ASSUME NEW i \in D, NEW j \in 1..Len(q), j <= i  PROVE j \in D
    OBVIOUS
  <2>1. i \in Nat \ {0} /\ j \in Nat \ {0} /\ j \in DOMAIN q
    BY <1>1, SMTT(30)
  <2>2. EndsBefore(q, j) \in Nat /\ EndsBefore(q, j) <= EndsBefore(q, i)
    BY <2>1, EndsGrow
  <2> QED  BY <2>1, <2>2, SMTT(30)
<1>3. D \in SUBSET (1..Len(q))
  BY <1>1
<1>4. n \in 0..Len(q) /\ D = 1..n
  <2> HIDE DEF D
  <2> QED  BY <1>1, <1>2, <1>3, DownClosed
<1>5. \A i \in 1..Len(q) : i \in 1..n <=> EndsBefore(q, i) = 0
  BY <1>1, <1>4
<1> HIDE DEF D, n
<1>6. ASSUME n < Len(q)  PROVE n > 0 /\ q[n].last = TRUE
  <2>1. n + 1 \in 1..Len(q) /\ n + 1 \notin 1..n /\ n \in Nat
    BY <1>1, <1>4, <1>6, SMTT(30)
  <2>2. EndsBefore(q, n + 1) # 0
    BY <1>5, <2>1
  <2>3. n # 0
    <3>1. 0 + 1 = 1
      BY SMTT(30)
    <3> QED  BY <2>2, <3>1, NoneBefore
  <2>4. n \in Nat \ {0} /\ n \in 1..n /\ n \in 1..Len(q)
    BY <2>1, <2>3, <1>1, <1>6, SMTT(30)
  <2>5. EndsBefore(q, n) = 0
    BY <1>5, <2>4
  <2>6. q[n].last = TRUE \/ q[n].last = FALSE
    BY <1>1, <2>4
  <2>7. q[n].last = FALSE => EndsBefore(q, n + 1) = EndsBefore(q, n)
    BY <2>4, EndsCount
  <2> QED  BY <2>2, <2>4, <2>5, <2>6, <2>7, SMTT(30)
<1>7. EndsBefore(q, n + 1) <= 1
  <2>1. CASE n = 0
    <3>1. n + 1 = 1 /\ 1 \in Nat \ {0}
      BY <2>1, SMTT(30)
    <3>2. EndsBefore(q, 1) = 0
      BY <3>1, EndsCount
    <3> QED  BY <3>1, <3>2, SMTT(30)
  <2>2. CASE n # 0
    <3>1. n \in Nat \ {0} /\ n \in 1..n /\ n \in 1..Len(q)
      BY <1>1, <1>4, <2>2, SMTT(30)
    <3>2. EndsBefore(q, n) = 0
      BY <1>5, <3>1
    <3>3. q[n].last = TRUE \/ q[n].last = FALSE
      BY <1>1, <3>1
    <3>4. /\ q[n].last = FALSE => EndsBefore(q, n + 1) = EndsBefore(q, n)
          /\ q[n].last = TRUE => EndsBefore(q, n + 1) = EndsBefore(q, n) + 1
      BY <3>1, EndsCount
    <3> QED  BY <3>2, <3>3, <3>4, SMTT(30)
  <2> QED  BY <2>1, <2>2
<1> QED  BY <1>4, <1>6, <1>7 DEF D, n

(* A callback that ends with Finish on a client that stays open keeps the  *)
(* invariant if writeSendingQueue_ loses what ends and what is sent.       *)
LEMMA FinishStep ==
  ASSUME IInv, NEW c, NEW result, NEW sent, NEW close, NEW told, NEW freed,
         Call(c, result, sent, close, told, freed),
         Finish(c, result, sent, close, told, freed),
         PeerAgrees(told, freed), c # "CLOSED",
         sending' \in Seq(Entries), writes' \in Seq(Seq(Contexts)),
         done' \in Nat, broken' \in BOOLEAN, wire' \subseteq Contexts,
         peer' \in [Requests -> {"none", "open", "done"}],
         \A i, j \in DOMAIN sending' :
           sending'[i].ctx = sending'[j].ctx => i = j \/ sending'[i].ctx = Dummy,
         \A x \in Contexts :
           (\E i \in DOMAIN sending' : sending'[i].ctx = x) <=>
             /\ \E i \in DOMAIN sending : sending[i].ctx = x
             /\ x \notin DOMAIN result /\ x \notin sent,
         \A x \in wire' : \/ x \in wire
                          \/ \E n \in DOMAIN writes :
                               \E j \in DOMAIN writes[n] : writes[n][j] = x,
         \A n \in DOMAIN writes' : \E m \in DOMAIN writes :
           writes'[n] = writes[m]
  PROVE  IInv'
<1>0. TypeOK /\ InScheduled /\ InSending /\ Reachable /\ Heard /\ OnWire
  BY DEF IInv
<1>1. /\ Half'
      /\ conn' = c \/ (conn' = "ERROR" /\ c # "CLOSED")
      /\ \A x \in Contexts :
           state'[x] = "WRITE_SENDING" <=>
             /\ state[x] = "WRITE_SENDING"
             /\ x \notin DOMAIN result /\ x \notin sent
      /\ \A x \in Contexts :
           state[x] \notin {"NEW", "WRITE_SCHEDULED"}
             => state'[x] \notin {"NEW", "WRITE_SCHEDULED"}
  BY <1>0, FinishHalf
<1>2. TypeOK'
  BY <1>1 DEF Half, States, TypeOK
<1>3. InSending'
  BY <1>0, <1>1 DEF InSending
<1>4. Drained'
  BY <1>1 DEF Half, Drained
<1>5. OnWire'
  <2>1. /\ wire \subseteq Contexts
        /\ \A n \in DOMAIN writes : \A j \in DOMAIN writes[n] :
             writes[n][j] \in Contexts
    <3>1. \A n \in DOMAIN writes : writes[n] \in Seq(Contexts)
      BY <1>0, SMTT(30) DEF TypeOK
    <3> QED  BY <1>0, <3>1, SMTT(30) DEF TypeOK
  <2>2. \A x \in wire' : state'[x] \notin {"NEW", "WRITE_SCHEDULED"}
    BY <1>0, <1>1, <2>1 DEF OnWire
  <2>3. \A n \in DOMAIN writes : \A j \in DOMAIN writes[n] :
          state'[writes[n][j]] \notin {"NEW", "WRITE_SCHEDULED"}
    BY <1>0, <1>1, <2>1 DEF OnWire
  <2>4. \A n \in DOMAIN writes' : \A j \in DOMAIN writes'[n] :
          state'[writes'[n][j]] \notin {"NEW", "WRITE_SCHEDULED"}
    BY <2>3
  <2> QED  BY <2>2, <2>4 DEF OnWire
<1> QED  BY <1>1, <1>2, <1>3, <1>4, <1>5 DEF Half, IInv

(* The same when the queue and the socket are left alone.                  *)
LEMMA FinishQuiet ==
  ASSUME IInv, NEW c, NEW result, NEW close, NEW told, NEW freed,
         Call(c, result, {}, close, told, freed),
         Finish(c, result, {}, close, told, freed),
         PeerAgrees(told, freed), c # "CLOSED",
         \A x \in DOMAIN result : state[x] # "WRITE_SENDING",
         UNCHANGED <<sending, socket>>,
         peer' \in [Requests -> {"none", "open", "done"}]
  PROVE  IInv'
<1>1. /\ sending' = sending /\ writes' = writes /\ done' = done
      /\ broken' = broken /\ wire' = wire
  BY DEF socket
<1>2. /\ sending \in Seq(Entries) /\ writes \in Seq(Seq(Contexts))
      /\ done \in Nat /\ broken \in BOOLEAN /\ wire \subseteq Contexts
  BY DEF IInv, TypeOK
<1>3. /\ \A i, j \in DOMAIN sending :
           sending[i].ctx = sending[j].ctx => i = j \/ sending[i].ctx = Dummy
      /\ \A x \in Contexts :
           (\E i \in DOMAIN sending : sending[i].ctx = x)
             => x \notin DOMAIN result
  BY DEF IInv, InSending
<1> QED  BY <1>1, <1>2, <1>3, FinishStep, SMTT(30)

(* The functions that callbacks hand to Finish.                            *)
LEMMA Empty ==
  /\ DOMAIN None = {} /\ \A xs, v : DOMAIN Result(xs, v) = xs
  /\ \A xs, v : \A x \in xs : Result(xs, v)[x] = v
BY DEF None, Result

(* A frame that a client no longer connected refuses, or an error of the   *)
(* connection.                                                             *)
LEMMA CloseStep ==
  ASSUME IInv, NEW freed, freed \subseteq streams \ first, conn # "CLOSED",
         Finish(conn, None, {}, TRUE, None, freed),
         UNCHANGED <<sending, socket, peer>>
  PROVE  IInv'
<1>1. Call(conn, None, {}, TRUE, None, freed)
  BY Empty DEF Call
<1>2. PeerAgrees(None, freed)
  BY Empty DEF PeerAgrees
<1>3. peer' \in [Requests -> {"none", "open", "done"}]
  BY DEF IInv, TypeOK
<1> QED  BY <1>1, <1>2, <1>3, Empty, FinishQuiet

(* A frame of a stream keeps the invariant, whether the stream is still    *)
(* known or not.                                                           *)
LEMMA StreamFrameStep ==
  ASSUME IInv, NEW s \in Streams, NEW v, NEW freed, freed \subseteq {s},
         StreamFrame(s, v, freed), conn # "CLOSED", state[s] # "NEW",
         peer' \in [Requests -> {"none", "open", "done"}],
         \A t \in Requests : t # s => peer'[t] = peer[t],
         s \in streams =>
           \/ v \in Errors /\ s \in first /\ (s \in freed \/ peer'[s] = peer[s])
           \/ v = "response" /\ s \in first /\ freed = {} /\ peer'[s] = "open"
           \/ v \in {"streamEnd", "streamError"} /\ s \in freed /\ s \notin first
  PROVE  IInv'
<1>1. CASE s \in streams
  <2> DEFINE told == Result({s}, v)
  <2>1. /\ Finish(conn, None, {}, FALSE, told, freed)
        /\ UNCHANGED <<sending, socket>>
    BY <1>1 DEF StreamFrame
  <2>2. DOMAIN told = {s} /\ told[s] = v
    BY Empty, SMTT(30)
  <2> HIDE DEF told
  <2>3. Call(conn, None, {}, FALSE, told, freed)
    BY <1>1, <2>2, Empty, SMTT(30) DEF Call
  <2>4. PeerAgrees(told, freed)
    <3>1. \A t \in streams : t \in Requests
      BY Kinds DEF IInv, TypeOK
    <3>2. \A t \in Streams : t \in Requests
      BY Kinds
    <3>3. \A t \in Streams : state[t] = "NEW" => peer'[t] = peer[t]
      BY <3>2
    <3>4. "response" \notin Errors
      BY DEF Errors
    <3> QED  BY <1>1, <2>2, <3>1, <3>3, <3>4 DEF PeerAgrees
  <2> QED  BY <2>1, <2>3, <2>4, Empty, FinishQuiet
<1>2. CASE s \notin streams
  <2>1. UNCHANGED <<client, sending, socket>>
    BY <1>2 DEF StreamFrame
  <2>2. Heard'
    <3>1. \A t \in Streams : t = s \/ peer'[t] = peer[t]
      BY Kinds
    <3>2. UNCHANGED <<state, calls, streams, first>>
      BY <2>1 DEF client
    <3> QED  BY <1>2, <3>1, <3>2, SMTT(30) DEF IInv, Heard
  <2>3. TypeOK'
    BY <2>1 DEF IInv, TypeOK, client, socket
  <2>4. InScheduled' /\ InSending' /\ Reachable' /\ OnWire' /\ Drained'
    BY <2>1, SMTT(30)
    DEF IInv, InScheduled, InSending, Reachable, OnWire, Drained,
                client, socket, Counted
  <2> QED  BY <2>2, <2>3, <2>4 DEF IInv
<1> QED  BY <1>1, <1>2

(* The callbacks of streams keep the invariant.                            *)
LEMMA StreamSteps ==
  ASSUME IInv, NEW s \in Streams,
         \/ SendRequestN(s) /\ conn # "CONNECTED"
         \/ Cancel(s) /\ conn # "CONNECTED"
         \/ FirstResponse(s) \/ FirstError(s) \/ StreamEnd(s)
         \/ FirstResponseTimeout(s)
  PROVE  IInv'
<1>0. /\ s \in Requests /\ peer \in [Requests -> {"none", "open", "done"}]
      /\ conn = "CLOSED" => streams = {}
      /\ state[s] = "NEW" => peer[s] = "none" /\ s \notin streams
      /\ s \in first => s \in streams /\ peer[s] = "none"
      /\ s \in streams \ first => peer[s] = "open"
      /\ s \in wire => state[s] # "NEW"
  BY Kinds DEF IInv, TypeOK, Drained, Heard, OnWire
<1>1. CASE SendRequestN(s) /\ conn # "CONNECTED"
  <2>1. conn # "CLOSED"
    BY <1>0, <1>1 DEF SendRequestN
  <2> DEFINE freed == {}
  <2>2. freed \subseteq streams \ first
    OBVIOUS
  <2>3. /\ Finish(conn, None, {}, TRUE, None, freed)
        /\ UNCHANGED <<sending, socket, peer>>
    BY <1>1 DEF SendRequestN, SendFrame
  <2> HIDE DEF freed
  <2> QED  BY <2>1, <2>2, <2>3, CloseStep
<1>2. CASE Cancel(s) /\ conn # "CONNECTED"
  <2>1. conn # "CLOSED"
    BY <1>0, <1>2 DEF Cancel
  <2>2. {s} \subseteq streams \ first
    BY <1>2 DEF Cancel
  <2>3. /\ Finish(conn, None, {}, TRUE, None, {s})
        /\ UNCHANGED <<sending, socket, peer>>
    BY <1>2 DEF Cancel, SendFrame
  <2> QED  BY <2>1, <2>2, <2>3, CloseStep
<1>3. CASE FirstResponse(s)
  <2>1. /\ s \in wire /\ peer[s] = "none" /\ conn # "CLOSED"
        /\ peer' = [peer EXCEPT ![s] = "open"]
        /\ StreamFrame(s, "response", {})
    BY <1>3 DEF FirstResponse, Answers
  <2>2. /\ peer' \in [Requests -> {"none", "open", "done"}] /\ peer'[s] = "open"
        /\ \A t \in Requests : t # s => peer'[t] = peer[t]
    BY <1>0, <2>1
  <2>3. s \in streams => s \in first
    BY <1>0, <2>1
  <2>4. {} \subseteq {s}
    OBVIOUS
  <2> QED  BY <1>0, <2>1, <2>2, <2>3, <2>4, StreamFrameStep, SMTT(30)
<1>4. CASE FirstError(s)
  <2>1. /\ s \in wire /\ peer[s] = "none" /\ conn # "CLOSED"
        /\ peer' = [peer EXCEPT ![s] = "done"]
        /\ StreamFrame(s, "error", {s})
    BY <1>4 DEF FirstError, Answers
  <2>2. /\ peer' \in [Requests -> {"none", "open", "done"}]
        /\ \A t \in Requests : t # s => peer'[t] = peer[t]
    BY <1>0, <2>1
  <2>3. s \in streams => s \in first
    BY <1>0, <2>1
  <2>4. "error" \in Errors
    BY DEF Errors
  <2> QED  BY <1>0, <2>1, <2>2, <2>3, <2>4, StreamFrameStep
<1>5. CASE StreamEnd(s)
  <2>1. /\ peer[s] = "open" /\ conn # "CLOSED"
        /\ peer' = [peer EXCEPT ![s] = "done"]
        /\ StreamFrame(s, "streamEnd", {s})
    BY <1>5 DEF StreamEnd
  <2>2. /\ peer' \in [Requests -> {"none", "open", "done"}]
        /\ \A t \in Requests : t # s => peer'[t] = peer[t]
    BY <1>0, <2>1
  <2>3. state[s] # "NEW" /\ s \notin first
    BY <1>0, <2>1
  <2> QED  BY <2>1, <2>2, <2>3, StreamFrameStep
<1>6. CASE FirstResponseTimeout(s)
  <2>1. s \in first /\ StreamFrame(s, "TIMED_OUT", {}) /\ peer' = peer
    BY <1>6 DEF FirstResponseTimeout
  <2>2. s \in streams /\ state[s] # "NEW" /\ conn # "CLOSED"
    BY <1>0, <2>1
  <2>3. "TIMED_OUT" \in Errors /\ {} \subseteq {s}
    BY DEF Errors
  <2> QED  BY <1>0, <2>1, <2>2, <2>3, StreamFrameStep, SMTT(30)
<1> QED  BY <1>1, <1>2, <1>3, <1>4, <1>5, <1>6

(* Errors of the connection keep the invariant.                            *)
LEMMA ConnectionSteps ==
  ASSUME IInv, HandleConnectionClose \/ ConnectionError
  PROVE  IInv'
<1>1. CASE ConnectionError
  <2> DEFINE freed == {}
  <2>1. freed \subseteq streams \ first
    OBVIOUS
  <2>2. /\ Finish(conn, None, {}, TRUE, None, freed) /\ conn # "CLOSED"
        /\ UNCHANGED <<sending, socket, peer>>
    BY <1>1 DEF ConnectionError
  <2> HIDE DEF freed
  <2> QED  BY <2>1, <2>2, CloseStep
<1>2. CASE HandleConnectionClose
  <2> DEFINE result == Result(ToSet(scheduled), "NOT_OPEN")
  <2>1. /\ Finish("CLOSING", result, {}, FALSE, None, {})
        /\ UNCHANGED <<sending, socket, peer>> /\ conn = "CONNECTED"
    BY <1>2 DEF HandleConnectionClose
  <2>2. /\ DOMAIN result = ToSet(scheduled)
        /\ \A x \in DOMAIN result : result[x] = "NOT_OPEN"
    BY Empty
  <2> HIDE DEF result
  <2>3. \A x \in DOMAIN result : x \in Contexts /\ state[x] = "WRITE_SCHEDULED"
    BY <2>2, SMTT(30) DEF IInv, InScheduled, TypeOK, ToSet
  <2>4. \A i \in DOMAIN scheduled : scheduled[i] \in DOMAIN result
    BY <2>2 DEF ToSet
  <2>5. Call("CLOSING", result, {}, FALSE, None, {})
    <3>1. \A x \in DOMAIN result : x \in Unfinished
      BY <2>3 DEF Unfinished
    <3>2. "NOT_OPEN" \in Outcomes
      BY DEF Outcomes, Errors
    <3> QED  BY <2>2, <2>4, <3>1, <3>2, Empty DEF Call
  <2>6. PeerAgrees(None, {})
    BY <2>1, Empty DEF PeerAgrees
  <2>7. peer' \in [Requests -> {"none", "open", "done"}]
    BY <2>1 DEF IInv, TypeOK
  <2>8. \A x \in DOMAIN result : state[x] # "WRITE_SENDING"
    BY <2>3
  <2> QED  BY <2>1, <2>5, <2>6, <2>7, <2>8, FinishQuiet
<1> QED  BY <1>1, <1>2

(* What markNextSendingBatchAsSent() takes off writeSendingQueue_.         *)
LEMMA MarkNext ==
  ASSUME IInv, MarkNextSendingBatchAsSent
  PROVE  /\ sending' \in Seq(Entries)
         /\ \A i, j \in DOMAIN sending' :
              sending'[i].ctx = sending'[j].ctx
                => i = j \/ sending'[i].ctx = Dummy
         /\ \A x \in Contexts :
              (\E i \in DOMAIN sending' : sending'[i].ctx = x) <=>
                /\ \E i \in DOMAIN sending : sending[i].ctx = x
                /\ x \notin NextContexts
         /\ \A x \in NextContexts :
              x \in Contexts /\ state[x] = "WRITE_SENDING"
<1> DEFINE n == Cardinality(NextBatch)
           m == Len(sending)
<1>0. /\ sending \in Seq(Entries) /\ m \in Nat /\ DOMAIN sending = 1..m
      /\ \A i \in 1..m : sending[i] \in Entries
      /\ \A i, j \in 1..m :
           sending[i].ctx = sending[j].ctx => i = j \/ sending[i].ctx = Dummy
      /\ \A x \in Contexts : state[x] = "WRITE_SENDING"
                               <=> \E i \in 1..m : sending[i].ctx = x
  <2>1. sending \in Seq(Entries)
    BY DEF IInv, TypeOK
  <2>2. /\ m \in Nat /\ DOMAIN sending = 1..m
        /\ \A i \in 1..m : sending[i] \in Entries
    BY <2>1, SMTT(30)
  <2> HIDE DEF m
  <2> QED  BY <2>1, <2>2 DEF IInv, InSending
<1>1. n \in 0..m /\ NextBatch = 1..n
  BY <1>0, FirstEnd DEF NextBatch
<1> HIDE DEF n
<1>2. /\ sending' \in Seq(Entries) /\ DOMAIN sending' = 1..(m - n)
      /\ \A k \in 1..(m - n) : sending'[k] = sending[n + k]
  <2>1. sending' = SubSeq(sending, n + 1, m)
    BY DEF MarkNextSendingBatchAsSent, n
  <2> HIDE DEF m
  <2> QED  BY <1>0, <1>1, <2>1, SMTT(30)
<1> HIDE DEF m
<1>3. \A x : x \in NextContexts
                <=> x # Dummy /\ \E i \in 1..n : sending[i].ctx = x
  BY <1>1 DEF NextContexts
<1>4. \A i, j \in DOMAIN sending' :
        sending'[i].ctx = sending'[j].ctx => i = j \/ sending'[i].ctx = Dummy
  <2> SUFFICES ASSUME NEW i \in 1..(m - n), NEW j \in 1..(m - n),
                      sending'[i].ctx = sending'[j].ctx
               PROVE  i = j \/ sending'[i].ctx = Dummy
    BY <1>2
  <2>1. n + i \in 1..m /\ n + j \in 1..m /\ (n + i = n + j => i = j)
    BY <1>0, <1>1, SMTT(30)
  <2> QED  BY <1>0, <1>2, <2>1, SMTT(30)
<1>5. ASSUME NEW x \in Contexts
      PROVE  (\E i \in DOMAIN sending' : sending'[i].ctx = x) <=>
                /\ \E i \in DOMAIN sending : sending[i].ctx = x
                /\ x \notin NextContexts
  <2>0. x # Dummy
    BY Kinds
  <2>1. ASSUME NEW i \in DOMAIN sending', sending'[i].ctx = x
        PROVE  /\ \E k \in DOMAIN sending : sending[k].ctx = x
               /\ x \notin NextContexts
    <3>1. i \in 1..(m - n) /\ n + i \in 1..m /\ sending[n + i].ctx = x
      BY <1>0, <1>1, <1>2, <2>1, SMTT(30)
    <3>2. \A k \in 1..n : k \in 1..m /\ k # n + i
      BY <1>0, <1>1, <3>1, SMTT(30)
    <3> QED  BY <1>0, <1>3, <2>0, <3>1, <3>2, SMTT(30)
  <2>2. ASSUME NEW i \in DOMAIN sending, sending[i].ctx
          = x, x \notin NextContexts
        PROVE  \E k \in DOMAIN sending' : sending'[k].ctx = x
    <3>1. i \in 1..m /\ i \notin 1..n
      BY <1>0, <1>3, <2>0, <2>2
    <3>2. i - n \in 1..(m - n) /\ n + (i - n) = i
      BY <1>0, <1>1, <3>1, SMTT(30)
    <3> QED  BY <1>2, <2>2, <3>2
  <2> QED  BY <2>1, <2>2
<1>6. \A x \in NextContexts : x \in Contexts /\ state[x] = "WRITE_SENDING"
  <2> SUFFICES ASSUME NEW x \in NextContexts
               PROVE  x \in Contexts /\ state[x] = "WRITE_SENDING"
    OBVIOUS
  <2>1. PICK i \in 1..n : sending[i].ctx = x /\ x # Dummy
    BY <1>3
  <2>2. i \in 1..m
    BY <1>0, <1>1, SMTT(30)
  <2>3. x \in Contexts
    BY <1>0, <2>1, <2>2 DEF Entries
  <2> QED  BY <1>0, <2>1, <2>2, <2>3
<1> QED  BY <1>2, <1>4, <1>5, <1>6

(* The socket ends its first write.                                        *)
LEMMA TailOfWrites ==
  ASSUME IInv, writes # <<>>, writes' = Tail(writes)
  PROVE  /\ writes' \in Seq(Seq(Contexts)) /\ conn # "CLOSED"
         /\ \A k \in DOMAIN writes' : \E j \in DOMAIN writes :
              writes'[k] = writes[j]
         /\ 1 \in DOMAIN writes /\ Head(writes) = writes[1]
         /\ Head(writes) \in Seq(Contexts)
<1>1. writes \in Seq(Seq(Contexts)) /\ conn # "CLOSED"
  BY DEF IInv, TypeOK, Drained
<1>2. /\ writes' \in Seq(Seq(Contexts)) /\ DOMAIN writes' = 1..(Len(writes) - 1)
      /\ \A k \in DOMAIN writes' : k + 1 \in DOMAIN writes
                                   /\ writes'[k] = writes[k + 1]
      /\ 1 \in DOMAIN writes /\ Head(writes) = writes[1]
  BY <1>1, SMTT(30)
<1>3. writes[1] \in Seq(Contexts)
  BY <1>1, <1>2, SMTT(30)
<1> QED  BY <1>1, <1>2, <1>3

(* The callbacks of a socket write keep the invariant:                     *)
(* markNextSendingBatchAsSent() takes off the queue just what ends or is   *)
(* sent.                                                                   *)
LEMMA WriteSteps ==
  ASSUME IInv, SocketWriteSuccess \/ SocketWriteErr
  PROVE  IInv'
<1>0. /\ writes # <<>> /\ MarkNextSendingBatchAsSent /\ writes' = Tail(writes)
      /\ done' = 0 /\ peer' = peer
  BY DEF SocketWriteSuccess, SocketWriteErr
<1>1. /\ sending' \in Seq(Entries)
      /\ \A i, j \in DOMAIN sending' :
           sending'[i].ctx = sending'[j].ctx => i = j \/ sending'[i].ctx = Dummy
      /\ \A x \in Contexts :
           (\E i \in DOMAIN sending' : sending'[i].ctx = x) <=>
             /\ \E i \in DOMAIN sending : sending[i].ctx = x
             /\ x \notin NextContexts
  BY <1>0, MarkNext
<1>2. \A x \in NextContexts : x \in Contexts /\ state[x] = "WRITE_SENDING"
  BY <1>0, MarkNext
<1>3. /\ writes' \in Seq(Seq(Contexts)) /\ conn # "CLOSED"
      /\ \A k \in DOMAIN writes' : \E j \in DOMAIN writes :
           writes'[k] = writes[j]
      /\ 1 \in DOMAIN writes /\ Head(writes) = writes[1]
      /\ Head(writes) \in Seq(Contexts)
  BY <1>0, TailOfWrites
<1>4. /\ \A i \in DOMAIN scheduled : scheduled[i] \notin NextContexts
      /\ wire \subseteq Contexts /\ broken \in BOOLEAN /\ done' \in Nat
      /\ peer' \in [Requests -> {"none", "open", "done"}]
  BY <1>0, <1>2 DEF IInv, TypeOK, InScheduled
<1>5. /\ PeerAgrees(None, {}) /\ {} \subseteq streams
      /\ "ok" \in Outcomes /\ "ok" \notin Errors /\ "NOT_OPEN" \in Outcomes
  BY <1>0, Empty DEF PeerAgrees, Outcomes, Errors
<1>6. \A x \in NextContexts : x \in Unfinished
  BY <1>2 DEF Unfinished
<1>7. CASE SocketWriteSuccess
  <2> DEFINE result == Result(NextContexts \ RR, "ok")
             sent == NextContexts \cap RR
  <2>1. Finish(conn, result, sent, FALSE, None, {})
    BY <1>7 DEF SocketWriteSuccess
  <2>2. /\ DOMAIN result = NextContexts \ RR
        /\ \A x \in DOMAIN result : result[x] = "ok"
    BY Empty, SMTT(30)
  <2>3. /\ \A x : x \in NextContexts <=> x \in DOMAIN result \/ x \in sent
        /\ \A x \in sent : x \notin DOMAIN result
    BY <2>2
  <2> HIDE DEF result, sent
  <2>4. Call(conn, result, sent, FALSE, None, {})
    BY <1>2, <1>4, <1>5, <1>6, <2>2, <2>3, Empty DEF Call
  <2>5. /\ wire' = wire \cup ToSet(Head(writes)) /\ broken' = broken
    BY <1>7 DEF SocketWriteSuccess
  <2>6. /\ wire' \subseteq Contexts
        /\ \A x \in wire' : \/ x \in wire
                            \/ \E n \in DOMAIN writes :
                                 \E j \in DOMAIN writes[n] : writes[n][j] = x
    BY <1>3, <1>4, <2>5, SMTT(30) DEF ToSet
  <2>7. \A x \in Contexts :
          (\E i \in DOMAIN sending' : sending'[i].ctx = x) <=>
            /\ \E i \in DOMAIN sending : sending[i].ctx = x
            /\ x \notin DOMAIN result /\ x \notin sent
    BY <1>1, <2>3
  <2>8. broken' \in BOOLEAN
    BY <1>4, <2>5
  <2> QED  BY <1>1, <1>3, <1>4, <1>5, <2>1, <2>4, <2>6, <2>7, <2>8, FinishStep
<1>8. CASE SocketWriteErr
  <2> DEFINE aborted == Aborted(NextBatch, done)
             result == Result(aborted, "NOT_OPEN")
             sent == NextContexts \ aborted
  <2>1. Finish(conn, result, sent, TRUE, None, {})
    BY <1>8 DEF SocketWriteErr
  <2>2. /\ DOMAIN result = aborted
        /\ \A x \in DOMAIN result : result[x] = "NOT_OPEN"
    BY Empty
  <2>3. /\ \A x : x \in NextContexts <=> x \in DOMAIN result \/ x \in sent
        /\ \A x \in sent : x \notin DOMAIN result
    <3>1. aborted \subseteq NextContexts
      BY DEF Aborted, NextContexts
    <3> QED  BY <2>2, <3>1
  <2> HIDE DEF result, sent
  <2>4. Call(conn, result, sent, TRUE, None, {})
    BY <1>2, <1>4, <1>5, <1>6, <2>2, <2>3, Empty DEF Call
  <2>5. /\ wire' = wire /\ broken' = TRUE
    BY <1>8 DEF SocketWriteErr
  <2>6. /\ wire' \subseteq Contexts /\ broken' \in BOOLEAN
        /\ \A x \in wire' : \/ x \in wire
                            \/ \E n \in DOMAIN writes :
                                 \E j \in DOMAIN writes[n] : writes[n][j] = x
    BY <1>4, <2>5
  <2>7. \A x \in Contexts :
          (\E i \in DOMAIN sending' : sending'[i].ctx = x) <=>
            /\ \E i \in DOMAIN sending : sending[i].ctx = x
            /\ x \notin DOMAIN result /\ x \notin sent
    BY <1>1, <2>3
  <2> QED  BY <1>1, <1>3, <1>4, <1>5, <2>1, <2>4, <2>6, <2>7, FinishStep
<1> QED  BY <1>7, <1>8

(* removeFromWriteSendingQueue() takes one context off the queue.          *)
LEMMA RemoveOne ==
  ASSUME IInv, NEW r \in Contexts, state[r] = "WRITE_SENDING",
         sending' = RemoveFromWriteSendingQueue(r)
  PROVE  /\ sending' \in Seq(Entries)
         /\ \A i, j \in DOMAIN sending' :
              sending'[i].ctx = sending'[j].ctx
                => i = j \/ sending'[i].ctx = Dummy
         /\ \A x \in Contexts :
              (\E i \in DOMAIN sending' : sending'[i].ctx = x) <=>
                (\E i \in DOMAIN sending : sending[i].ctx = x) /\ x # r
<1> DEFINE m == Len(sending)
           p == PlaceOf(r)
<1>0. /\ sending \in Seq(Entries) /\ m \in Nat /\ DOMAIN sending = 1..m
      /\ \A i \in 1..m : sending[i] \in Entries
      /\ \A i, j \in 1..m :
           sending[i].ctx = sending[j].ctx => i = j \/ sending[i].ctx = Dummy
      /\ \E i \in 1..m : sending[i].ctx = r
  <2>1. sending \in Seq(Entries)
    BY DEF IInv, TypeOK
  <2>2. /\ m \in Nat /\ DOMAIN sending = 1..m
        /\ \A i \in 1..m : sending[i] \in Entries
    BY <2>1, SMTT(30)
  <2> HIDE DEF m
  <2> QED  BY <2>1, <2>2 DEF IInv, InSending
<1>1. p \in 1..m /\ sending[p].ctx = r /\ r # Dummy
  BY <1>0, Kinds DEF PlaceOf
<1>2. \A i \in 1..m : sending[i].ctx = r <=> i = p
  BY <1>0, <1>1
<1>3. CASE sending[p].last
  <2>1. sending' = [sending EXCEPT ![p].ctx = Dummy]
    BY <1>3 DEF RemoveFromWriteSendingQueue
  <2> HIDE DEF m, p
  <2>2. /\ DOMAIN sending' = 1..m
        /\ \A i \in 1..m : i # p => sending'[i] = sending[i]
        /\ sending'[p] \in Entries /\ sending'[p].ctx = Dummy
    BY <1>0, <1>1, <2>1 DEF Entries
  <2>3. sending' \in Seq(Entries)
    BY <1>0, <1>1, <2>1, <2>2, SMTT(30)
  <2>4. \A x \in Contexts : x # Dummy
    BY Kinds
  <2> QED  BY <1>0, <1>1, <1>2, <2>2, <2>3, <2>4, SMTT(30)
<1>4. CASE ~sending[p].last
  <2> DEFINE up(j) == IF j < p THEN j ELSE j + 1
  <2>1. sending' = [j \in 1..(m - 1) |-> sending[up(j)]]
    BY <1>4 DEF RemoveFromWriteSendingQueue, Without
  <2> HIDE DEF m, p
  <2>2. /\ \A j \in 1..(m - 1) : up(j) \in 1..m /\ up(j) # p
        /\ \A i, j \in 1..(m - 1) : up(i) = up(j) => i = j
        /\ \A i \in 1..m : i # p => \E j \in 1..(m - 1) : up(j) = i
    <3>1. \A i \in 1..m : i # p => \E j \in 1..(m - 1) : up(j) = i
      <4> SUFFICES ASSUME NEW i \in 1..m, i # p
                   PROVE  \E j \in 1..(m - 1) : up(j) = i
        OBVIOUS
      <4>1. CASE i < p
        BY <1>0, <1>1, <4>1, SMTT(30)
      <4>2. CASE i > p
        <5>1. i - 1 \in 1..(m - 1) /\ up(i - 1) = i
          BY <1>0, <1>1, <4>2, SMTT(30)
        <5> QED  BY <5>1
      <4>3. i \in Int /\ p \in Int
        BY <1>0, <1>1, SMTT(30)
      <4> QED  BY <4>1, <4>2, <4>3, SMTT(30)
    <3> QED  BY <1>0, <1>1, <3>1, SMTT(30)
  <2> HIDE DEF up
  <2>3. /\ DOMAIN sending' = 1..(m - 1)
        /\ \A j \in 1..(m - 1) : sending'[j] = sending[up(j)]
    BY <2>1
  <2>4. sending' \in Seq(Entries)
    BY <1>0, <1>1, <2>1, <2>2, SMTT(30)
  <2>5. \A i, j \in DOMAIN sending' :
          sending'[i].ctx = sending'[j].ctx => i = j \/ sending'[i].ctx = Dummy
    BY <1>0, <2>2, <2>3, SMTT(30)
  <2>6. \A x \in Contexts :
          (\E i \in DOMAIN sending' : sending'[i].ctx = x) <=>
            (\E i \in DOMAIN sending : sending[i].ctx = x) /\ x # r
    <3> SUFFICES ASSUME NEW x \in Contexts
                 PROVE  (\E j \in 1..(m - 1) : sending[up(j)].ctx = x) <=>
                          (\E i \in 1..m : sending[i].ctx = x) /\ x # r
      BY <1>0, <2>3, SMTT(30)
    <3>1. ASSUME NEW j \in 1..(m - 1), sending[up(j)].ctx = x
          PROVE  (\E i \in 1..m : sending[i].ctx = x) /\ x # r
      BY <1>2, <2>2, <3>1
    <3>2. ASSUME NEW i \in 1..m, sending[i].ctx = x, x # r
          PROVE  \E j \in 1..(m - 1) : sending[up(j)].ctx = x
      BY <1>1, <2>2, <3>2
    <3> QED  BY <3>1, <3>2
  <2> QED  BY <2>4, <2>5, <2>6
<1> QED  BY <1>3, <1>4

(* markAsResponded() keeps the invariant, also of a request that has not   *)
(* been reported as written yet.                                           *)
LEMMA RespondedStep ==
  ASSUME IInv, NEW r \in RR, NEW v \in Outcomes,
         state[r] \in {"WRITE_SENDING", "WRITE_SENT"},
         MarkAsResponded(r, v), UNCHANGED socket,
         peer' \in [Requests -> {"none", "open", "done"}],
         \A t \in Requests : t # r => peer'[t] = peer[t]
  PROVE  IInv'
<1> DEFINE result == Result({r}, v)
<1>1. /\ Finish(conn, result, {}, FALSE, None, {})
      /\ state[r] = "WRITE_SENDING" => sending' = RemoveFromWriteSendingQueue(r)
      /\ state[r] # "WRITE_SENDING" => sending' = sending
  BY DEF MarkAsResponded
<1>2. DOMAIN result = {r} /\ result[r] = v
  BY Empty, SMTT(30)
<1> HIDE DEF result
<1>3. /\ r \in Contexts /\ r \notin Streams /\ r \in Unfinished
      /\ conn # "CLOSED"
  BY Kinds DEF IInv, Drained, Unfinished
<1>4. /\ sending' \in Seq(Entries)
      /\ \A i, j \in DOMAIN sending' :
           sending'[i].ctx = sending'[j].ctx => i = j \/ sending'[i].ctx = Dummy
      /\ \A x \in Contexts :
           (\E i \in DOMAIN sending' : sending'[i].ctx = x) <=>
             (\E i \in DOMAIN sending : sending[i].ctx = x) /\ x # r
  <2>1. CASE state[r] = "WRITE_SENDING"
    BY <1>1, <1>3, <2>1, RemoveOne
  <2>2. CASE state[r] # "WRITE_SENDING"
    BY <1>1, <1>3, <2>2 DEF IInv, TypeOK, InSending
  <2> QED  BY <2>1, <2>2
<1>5. Call(conn, result, {}, FALSE, None, {})
  <2>1. \A i \in DOMAIN scheduled : scheduled[i] # r
    BY <1>3 DEF IInv, InScheduled
  <2>2. r \notin first
    BY <1>3 DEF IInv, TypeOK
  <2> QED  BY <1>2, <1>3, <2>1, <2>2, Empty DEF Call
<1>6. PeerAgrees(None, {})
  <2>1. \A t \in Streams : t \in Requests /\ t # r
    BY <1>3, Kinds
  <2>2. streams \subseteq Streams
    BY DEF IInv, TypeOK
  <2> QED  BY <2>1, <2>2, Empty DEF PeerAgrees
<1>7. /\ writes' = writes /\ done' = done /\ broken' = broken /\ wire' = wire
  BY DEF socket
<1> DEFINE none == {}
<1>8. /\ \A x \in Contexts :
           (\E i \in DOMAIN sending' : sending'[i].ctx = x) <=>
             /\ \E i \in DOMAIN sending : sending[i].ctx = x
             /\ x \notin DOMAIN result /\ x \notin none
      /\ Call(conn, result, none, FALSE, None, none)
      /\ Finish(conn, result, none, FALSE, None, none)
      /\ PeerAgrees(None, none)
  BY <1>1, <1>2, <1>4, <1>5, <1>6
<1> HIDE DEF none
<1>10. /\ writes' \in Seq(Seq(Contexts)) /\ done' \in Nat
       /\ broken' \in BOOLEAN /\ wire' \subseteq Contexts
  BY <1>7 DEF IInv, TypeOK
<1>9. /\ \A x \in wire' : \/ x \in wire
                          \/ \E n \in DOMAIN writes :
                               \E j \in DOMAIN writes[n] : writes[n][j] = x
      /\ \A n \in DOMAIN writes' : \E m \in DOMAIN writes :
           writes'[n] = writes[m]
  BY <1>7
<1> QED  BY <1>3, <1>4, <1>8, <1>9, <1>10, FinishStep

(* A response and a timeout keep the invariant.                            *)
LEMMA ResponseSteps ==
  ASSUME IInv, NEW r \in RR, Respond(r) \/ TimeoutExpired(r)
  PROVE  IInv'
<1>0. /\ r \in Requests /\ r \in Contexts
      /\ peer \in [Requests -> {"none", "open", "done"}]
      /\ state \in [Contexts -> States]
  BY Kinds DEF IInv, TypeOK, States
<1>1. CASE TimeoutExpired(r)
  <2>1. /\ state[r] \in {"WRITE_SENDING", "WRITE_SENT"}
        /\ MarkAsResponded(r, "TIMED_OUT") /\ UNCHANGED socket /\ peer' = peer
    BY <1>1 DEF TimeoutExpired, IInv, Reachable
  <2>2. "TIMED_OUT" \in Outcomes
    BY DEF Outcomes, Errors
  <2> QED  BY <1>0, <2>1, <2>2, RespondedStep
<1>2. CASE Respond(r)
  <2>1. /\ r \in wire /\ peer' = [peer EXCEPT ![r] = "done"]
        /\ UNCHANGED socket
    BY <1>2 DEF Respond, Answers
  <2>2. /\ peer' \in [Requests -> {"none", "open", "done"}]
        /\ \A t \in Requests : t # r => peer'[t] = peer[t]
    BY <1>0, <2>1
  <2>3. CASE r \in tracked
    <3>1. state[r] \in {"WRITE_SENDING", "WRITE_SENT"}
      BY <1>0, <2>1, <2>3 DEF IInv, OnWire, Reachable, States
    <3>2. MarkAsResponded(r, "response") /\ "response" \in Outcomes
      BY <1>2, <2>3 DEF Respond, Outcomes
    <3> QED  BY <2>1, <2>2, <3>1, <3>2, RespondedStep
  <2>4. CASE r \notin tracked
    <3>1. UNCHANGED <<client, sending, socket>>
      BY <1>2, <2>4 DEF Respond
    <3>2. Heard'
      <4>1. \A t \in Streams : peer'[t] = peer[t]
        BY <2>2, Kinds
      <4>2. UNCHANGED <<state, calls, streams, first>>
        BY <3>1 DEF client
      <4> QED  BY <4>1, <4>2, SMTT(30) DEF IInv, Heard
    <3>3. TypeOK'
      BY <2>2, <3>1 DEF IInv, TypeOK, client, socket
    <3>4. InScheduled' /\ InSending' /\ Reachable' /\ OnWire' /\ Drained'
      BY <3>1 DEF IInv, InScheduled, InSending, Reachable, OnWire, Drained,
                  client, socket, Counted
    <3> QED  BY <3>2, <3>3, <3>4 DEF IInv
  <2> QED  BY <2>3, <2>4
<1> QED  BY <1>1, <1>2

(* A function on an interval is a sequence.                                *)
LEMMA FunctionSeq ==
  ASSUME NEW S, NEW n \in Nat, NEW f \in [1..n -> S]
  PROVE  f \in Seq(S) /\ Len(f) = n /\ DOMAIN f = 1..n
BY SMTT(30)

(* The writes that a batch makes: each place of the batch is in the write  *)
(* that the marks before it number, and the writes hold nothing else.      *)
LEMMA WritesMade ==
  ASSUME NEW b \in Seq(Entries), \A i \in DOMAIN b : b[i].ctx \in Contexts,
         b # <<>> => b[Len(b)].last = TRUE
  PROVE  /\ WritesOf(b) \in Seq(Seq(Contexts))
         /\ Len(WritesOf(b)) = EndsBefore(b, Len(b) + 1)
         /\ \A n \in DOMAIN WritesOf(b) : \A j \in DOMAIN WritesOf(b)[n] :
              \E i \in DOMAIN b : WritesOf(b)[n][j] = b[i].ctx
         /\ \A i \in DOMAIN b :
              /\ EndsBefore(b, i) + 1 \in DOMAIN WritesOf(b)
              /\ \E k \in DOMAIN WritesOf(b)[EndsBefore(b, i) + 1] :
                   WritesOf(b)[EndsBefore(b, i) + 1][k] = b[i].ctx
<1> DEFINE m == Len(b)
           N == EndsBefore(b, m + 1)
           B(n) == {i \in DOMAIN b : EndsBefore(b, i) < n - 1}
           O(n) == {i \in DOMAIN b : EndsBefore(b, i) = n - 1}
           w == WritesOf(b)
<1>1. m \in Nat /\ DOMAIN b = 1..m
  BY SMTT(30)
<1>2. N \in Nat
  <2>1. m + 1 \in Nat \ {0}
    BY <1>1, SMTT(30)
  <2> HIDE DEF m
  <2> QED  BY <2>1, EndsCount
<1>3. ASSUME NEW i \in 1..m
      PROVE  /\ EndsBefore(b, i) \in Nat /\ EndsBefore(b, i) \in Int
             /\ EndsBefore(b, i) + 1 <= N
  <2>1. m \in Nat \ {0} /\ i \in Nat \ {0} /\ i <= m /\ b # <<>>
    BY <1>1, SMTT(30)
  <2>2. /\ EndsBefore(b, i) \in Nat /\ EndsBefore(b, m) \in Nat
        /\ EndsBefore(b, i) <= EndsBefore(b, m)
    BY <2>1, EndsGrow
  <2>3. N = EndsBefore(b, m) + 1
    BY <2>1, EndsCount
  <2> HIDE DEF N, m
  <2> QED  BY <2>2, <2>3, SMTT(30)
<1>4. ASSUME NEW n \in Nat
      PROVE  \E a \in 0..m : B(n) = 1..a /\ Cardinality(B(n)) = a
  <2>1. B(n) \in SUBSET (1..m)
    BY <1>1
  <2>2. ASSUME NEW i \in B(n), NEW j \in 1..m, j <= i  PROVE j \in B(n)
    <3>1. i \in Nat \ {0} /\ j \in Nat \ {0} /\ j \in DOMAIN b
      BY <1>1, <2>1, <2>2, SMTT(30)
    <3>2. /\ EndsBefore(b, j) \in Nat /\ EndsBefore(b, i) \in Nat
          /\ EndsBefore(b, j) <= EndsBefore(b, i)
      BY <2>2, <3>1, EndsGrow
    <3> QED  BY <3>1, <3>2, SMTT(30)
  <2> HIDE DEF B, m
  <2> QED  BY <1>1, <2>1, <2>2, DownClosed
<1>5. w = [n \in 1..N |->
             [j \in 1..Cardinality(O(n)) |-> b[Cardinality(B(n)) + j].ctx]]
  BY DEF WritesOf
<1>6. ASSUME NEW n \in 1..N
      PROVE  \E a \in 0..m : \E c \in a..m :
               /\ O(n) = (a + 1)..c
               /\ w[n] = [j \in 1..(c - a) |-> b[a + j].ctx]
  <2>0. n \in Nat /\ n + 1 \in Nat
    BY <1>2, SMTT(30)
  <2>1. PICK a \in 0..m : B(n) = 1..a /\ Cardinality(B(n)) = a
    BY <1>4, <2>0
  <2>2. PICK c \in 0..m : B(n + 1) = 1..c
    BY <1>4, <2>0
  <2>3. B(n) \subseteq B(n + 1) /\ O(n) = B(n + 1) \ B(n)
    <3>1. ASSUME NEW i \in DOMAIN b
          PROVE  /\ EndsBefore(b, i) < n - 1 => EndsBefore(b, i) < (n + 1) - 1
                 /\ EndsBefore(b, i) = n - 1 <=>
                      /\ EndsBefore(b, i) < (n + 1) - 1
                      /\ ~(EndsBefore(b, i) < n - 1)
      <4>1. EndsBefore(b, i) \in Nat
        BY <1>1, <1>3
      <4> QED  BY <2>0, <4>1, SMTT(30)
    <3> QED  BY <3>1
  <2>4. w[n] = [j \in 1..Cardinality(O(n)) |-> b[a + j].ctx]
    <3> HIDE DEF O, B, N, w
    <3> QED  BY <1>5, <2>1
  <2> HIDE DEF B, O, m, w, N
  <2>5. a \in Nat /\ c \in Nat /\ a <= c /\ c <= m
    <3>1. a \in Nat /\ c \in Nat /\ c <= m
      BY <1>1, SMTT(30)
    <3>2. \A i \in 1..a : i \in 1..c
      BY <2>1, <2>2, <2>3
    <3>3. a = 0 \/ a \in 1..a
      BY <3>1, SMTT(30)
    <3> QED  BY <3>1, <3>2, <3>3, SMTT(30)
  <2>6. O(n) = (a + 1)..c
    <3>1. \A i : i \in O(n) <=> i \in 1..c /\ i \notin 1..a
      BY <2>1, <2>2, <2>3
    <3>2. \A i : i \in 1..c /\ i \notin 1..a <=> i \in (a + 1)..c
      BY <2>5, SMTT(30)
    <3> QED  BY <3>1, <3>2
  <2>7. Cardinality((a + 1)..c) = c - a
    <3>1. a + 1 \in Int /\ c \in Int
            /\ (IF a + 1 > c THEN 0 ELSE c - (a + 1) + 1) = c - a
      BY <2>5, SMTT(30)
    <3> QED  BY <3>1, FS_Interval
  <2>8. c \in a..m
    BY <1>1, <2>5, SMTT(30)
  <2> QED  BY <2>4, <2>6, <2>7, <2>8
<1>7. DOMAIN w = 1..N
  <2> HIDE DEF O, B, N, w
  <2> QED  BY <1>5
<1> HIDE DEF B, w, N, m
<1>8. ASSUME NEW n \in 1..N
      PROVE  /\ w[n] \in Seq(Contexts)
             /\ \A j \in DOMAIN w[n] : \E i \in DOMAIN b : w[n][j] = b[i].ctx
             /\ \A i \in O(n) : \E k \in DOMAIN w[n] : w[n][k] = b[i].ctx
  <2>1. PICK a \in 0..m, c \in 0..m :
          /\ a <= c /\ O(n) = (a + 1)..c
          /\ w[n] = [j \in 1..(c - a) |-> b[a + j].ctx]
    <3>1. PICK a \in 0..m : \E c \in a..m :
               /\ O(n) = (a + 1)..c
               /\ w[n] = [j \in 1..(c - a) |-> b[a + j].ctx]
      BY <1>6
    <3>2. PICK c \in a..m :
               /\ O(n) = (a + 1)..c
               /\ w[n] = [j \in 1..(c - a) |-> b[a + j].ctx]
      BY <3>1
    <3>3. c \in 0..m /\ a <= c
      BY <1>1, SMTT(30)
    <3> QED  BY <3>2, <3>3
  <2> HIDE DEF O
  <2>2. c - a \in Nat /\ \A j \in 1..(c - a) : a + j \in DOMAIN b
    BY <1>1, <2>1, SMTT(30)
  <2>3. w[n] \in Seq(Contexts)
    <3>1. w[n] \in [1..(c - a) -> Contexts]
      BY <2>1, <2>2
    <3> QED  BY <2>2, <3>1, FunctionSeq
  <2>4. \A j \in DOMAIN w[n] : \E i \in DOMAIN b : w[n][j] = b[i].ctx
    BY <2>1, <2>2
  <2>5. ASSUME NEW i \in O(n)
        PROVE  \E k \in DOMAIN w[n] : w[n][k] = b[i].ctx
    <3>1. i - a \in 1..(c - a) /\ a + (i - a) = i
      BY <1>1, <2>1, SMTT(30)
    <3> DEFINE k == i - a
    <3>2. k \in 1..(c - a) /\ b[a + k].ctx = b[i].ctx
      BY <3>1
    <3> HIDE DEF k
    <3>3. k \in DOMAIN w[n] /\ w[n][k] = b[a + k].ctx
      BY <2>1, <3>2
    <3> QED  BY <3>2, <3>3
  <2> QED  BY <2>3, <2>4, <2>5
<1>9. w \in Seq(Seq(Contexts)) /\ Len(w) = N
  <2>1. \A n \in 1..N : w[n] \in Seq(Contexts)
    BY <1>8
  <2>2. w \in [1..N -> Seq(Contexts)]
    BY <1>5, <1>7, <2>1
  <2> QED  BY <1>2, <2>2, FunctionSeq
<1>10. \A n \in DOMAIN w : \A j \in DOMAIN w[n] :
        \E i \in DOMAIN b : w[n][j] = b[i].ctx
  BY <1>7, <1>8
<1>11. ASSUME NEW i \in DOMAIN b
       PROVE  /\ EndsBefore(b, i) + 1 \in DOMAIN w
              /\ \E k \in DOMAIN w[EndsBefore(b, i) + 1] :
                   w[EndsBefore(b, i) + 1][k] = b[i].ctx
  <2>1. EndsBefore(b, i) \in Nat /\ EndsBefore(b, i) + 1 <= N
    BY <1>1, <1>3
  <2>2. /\ EndsBefore(b, i) + 1 \in 1..N
        /\ EndsBefore(b, i) = (EndsBefore(b, i) + 1) - 1
    BY <1>2, <2>1, SMTT(30)
  <2>3. i \in O(EndsBefore(b, i) + 1)
    BY <2>2
  <2> HIDE DEF O
  <2> QED  BY <1>7, <1>8, <2>2, <2>3
<1> QED  BY <1>9, <1>10, <1>11 DEF w, N, m

(* scheduleWrite() on a connected client keeps the invariant.              *)
LEMMA EnqueueStep ==
  ASSUME IInv, conn = "CONNECTED", NEW x \in Contexts, state[x] = "NEW",
         NEW freed, freed \subseteq streams \ first,
         EnqueueScheduledWrite(x, freed), UNCHANGED <<sending, socket, peer>>,
         \A s \in Streams : x = <<"CANCEL", s>> => s \in freed /\ s \in streams
  PROVE  IInv'
<1>0. /\ state \in [Contexts -> States] /\ scheduled \in Seq(Contexts)
      /\ tracked \subseteq RR /\ timers \subseteq RR
      /\ streams \subseteq Streams /\ first \subseteq Streams
      /\ TypeOK /\ InScheduled /\ InSending /\ Reachable /\ Heard /\ OnWire
  BY DEF IInv, TypeOK, States
<1>1. /\ state' = [state EXCEPT ![x] = "WRITE_SCHEDULED"]
      /\ scheduled' = Append(scheduled, x)
      /\ writeLoop' = TRUE
      /\ tracked' = tracked \cup ({x} \cap RR)
      /\ streams' = (streams \ freed) \cup ({x} \cap Streams)
      /\ first' = first \cup ({x} \cap Streams)
      /\ conn' = conn /\ timers' = timers /\ closeLoop' = closeLoop
      /\ calls' = calls /\ sending' = sending /\ writes' = writes
      /\ done' = done /\ broken' = broken /\ wire' = wire /\ peer' = peer
  BY DEF EnqueueScheduledWrite, TrackIfRequestResponse, socket
<1>2. /\ state' \in [Contexts -> States] /\ state'[x] = "WRITE_SCHEDULED"
      /\ \A y \in Contexts : y # x => state'[y] = state[y]
  BY <1>0, <1>1 DEF States
<1>3. /\ scheduled' \in Seq(Contexts)
      /\ DOMAIN scheduled' = DOMAIN scheduled \cup {Len(scheduled) + 1}
      /\ Len(scheduled) + 1 \notin DOMAIN scheduled
      /\ \A i \in DOMAIN scheduled : scheduled'[i] = scheduled[i]
      /\ scheduled'[Len(scheduled) + 1] = x
  BY <1>0, <1>1, SMTT(30)
<1>4. TypeOK'
  <2>1. /\ tracked' \subseteq RR /\ timers' \subseteq RR
        /\ streams' \subseteq Streams /\ first' \subseteq Streams
        /\ writeLoop' \in BOOLEAN
    BY <1>0, <1>1
  <2> QED  BY <1>0, <1>1, <1>2, <1>3, <2>1 DEF TypeOK, States
<1>5. InScheduled'
  <2>1. /\ \A i, j \in DOMAIN scheduled : scheduled[i] = scheduled[j] => i = j
        /\ \A y \in Contexts : state[y] = "WRITE_SCHEDULED"
                           <=> \E i \in DOMAIN scheduled : scheduled[i] = y
    BY <1>0 DEF InScheduled
  <2>2. \A i \in DOMAIN scheduled : scheduled[i] # x
    BY <2>1
  <2>3. \A i, j \in DOMAIN scheduled' : scheduled'[i] = scheduled'[j] => i = j
    BY <1>3, <2>1, <2>2
  <2>4. \A y \in Contexts : state'[y] = "WRITE_SCHEDULED"
                           <=> \E i \in DOMAIN scheduled' : scheduled'[i] = y
    BY <1>2, <1>3, <2>1, SMTT(30)
  <2> QED  BY <1>1, <2>3, <2>4 DEF InScheduled
<1>6. InSending'
  BY <1>0, <1>1, <1>2, SMTT(30) DEF InSending
<1>7. Reachable'
  <2>1. \A r \in RR : r \in Contexts
    BY Kinds
  <2> QED  BY <1>0, <1>1, <1>2, <2>1 DEF Reachable
<1>8. OnWire'
  <2>1. x \notin wire /\ \A n \in DOMAIN writes : \A j \in DOMAIN writes[n] :
                           writes[n][j] # x
    BY <1>0 DEF OnWire
  <2>2. /\ \A y \in wire : y \in Contexts
        /\ \A n \in DOMAIN writes : \A j \in DOMAIN writes[n] :
             writes[n][j] \in Contexts
    <3>1. \A n \in DOMAIN writes : writes[n] \in Seq(Contexts)
      BY <1>0, SMTT(30) DEF TypeOK
    <3> QED  BY <1>0, <3>1, SMTT(30) DEF TypeOK
  <2> QED  BY <1>0, <1>1, <1>2, <2>1, <2>2, SMTT(30) DEF OnWire
<1>9. Heard'
  <2>1. ASSUME NEW r \in RR \cup FNF
        PROVE  /\ state'[r] = "COMPLETE" => Len(calls'[r]) = 1
               /\ state'[r] # "COMPLETE" => calls'[r] = <<>>
    <3>1. r \in Contexts
      BY Kinds
    <3>2. /\ state[r] = "COMPLETE" => Len(calls[r]) = 1
          /\ state[r] # "COMPLETE" => calls[r] = <<>>
      BY <1>0 DEF Heard
    <3>3. state'[r] = "COMPLETE" <=> state[r] = "COMPLETE"
      BY <1>2, <3>1
    <3> QED  BY <1>1, <3>2, <3>3
  <2>2. ASSUME NEW s \in Streams
        PROVE  /\ state'[s] = "NEW" =>
                    /\ s \notin streams' /\ calls'[s] = <<>> /\ peer'[s] = "none"
                    /\ state'[<<"CANCEL", s>>] = "NEW"
               /\ s \in first' =>
                    /\ s \in streams' /\ calls'[s] = <<>> /\ peer'[s] = "none"
               /\ s \in streams' => state'[<<"CANCEL", s>>] = "NEW"
               /\ s \in streams' \ first' =>
                    calls'[s] = <<"response">> /\ peer'[s] = "open"
               /\ Len(calls'[s]) <= 2
               /\ Len(calls'[s]) = 2 =>
                    /\ calls'[s][1] = "response"
                    /\ calls'[s][2] \in {"streamEnd", "streamError"}
    <3>1. s \in Contexts /\ <<"CANCEL", s>> \in Contexts /\ s # <<"CANCEL", s>>
      BY Kinds
    <3>2. /\ state[s] = "NEW" =>
               /\ s \notin streams /\ calls[s] = <<>> /\ peer[s] = "none"
               /\ state[<<"CANCEL", s>>] = "NEW"
          /\ s \in first =>
               /\ s \in streams /\ calls[s] = <<>> /\ peer[s] = "none"
          /\ s \in streams => state[<<"CANCEL", s>>] = "NEW"
          /\ s \in streams \ first =>
               calls[s] = <<"response">> /\ peer[s] = "open"
          /\ Len(calls[s]) <= 2
          /\ Len(calls[s]) = 2 =>
               /\ calls[s][1] = "response"
               /\ calls[s][2] \in {"streamEnd", "streamError"}
      BY <1>0 DEF Heard
    <3>3. CASE x = s
      BY <1>1, <1>2, <3>1, <3>2, <3>3
    <3>4. CASE x = <<"CANCEL", s>>
      <4>1. s \in freed /\ s \in streams /\ s \notin first
        BY <3>4
      <4>2. s \notin streams' /\ s \notin first' /\ state'[s] # "NEW"
        BY <1>1, <1>2, <3>1, <3>2, <3>4, <4>1
      <4> QED  BY <1>1, <3>2, <4>2
    <3>5. CASE x # s /\ x # <<"CANCEL", s>>
      <4>1. /\ state'[s] = state[s]
            /\ state'[<<"CANCEL", s>>] = state[<<"CANCEL", s>>]
            /\ s \in streams' <=> s \in streams /\ s \notin freed
            /\ s \in first' <=> s \in first
            /\ s \in freed => s \notin first
        BY <1>1, <1>2, <3>1, <3>5
      <4> QED  BY <1>1, <3>2, <4>1
    <3> QED  BY <3>3, <3>4, <3>5
  <2> QED  BY <2>1, <2>2 DEF Heard
<1>10. Drained'
  BY <1>1 DEF Drained
<1> QED  BY <1>4, <1>5, <1>6, <1>7, <1>8, <1>9, <1>10 DEF IInv

(* A request that the channel refuses keeps the invariant.                 *)
LEMMA RefuseStep ==
  ASSUME IInv, NEW r \in Requests, state[r] = "NEW", Refuse(r),
         UNCHANGED <<sending, socket, peer>>
  PROVE  IInv'
<1>0. /\ state \in [Contexts -> States] /\ calls \in [Requests -> Seq(Outcomes)]
      /\ TypeOK /\ InScheduled /\ InSending /\ Reachable /\ Heard /\ OnWire
      /\ r \in Contexts
  BY Kinds DEF IInv, TypeOK, States
<1>1. /\ state' = [state EXCEPT ![r] = "COMPLETE"]
      /\ calls' = [calls EXCEPT ![r] = Append(@, "NOT_OPEN")]
      /\ UNCHANGED <<conn, scheduled, tracked, timers, streams, first,
                     writeLoop, closeLoop, sending, writes, done, broken, wire,
                     peer>>
  BY DEF Refuse, socket
<1>2. /\ state' \in [Contexts -> States] /\ state'[r] = "COMPLETE"
      /\ \A y \in Contexts : y # r => state'[y] = state[y]
  BY <1>0, <1>1 DEF States
<1>3. calls[r] = <<>>
  BY Kinds, <1>0 DEF Heard
<1>4. /\ calls' \in [Requests -> Seq(Outcomes)]
      /\ \A t \in Requests : t # r => calls'[t] = calls[t]
      /\ Len(calls'[r]) = 1
  <2>1. calls'[r] = Append(calls[r], "NOT_OPEN")
    BY <1>0, <1>1
  <2>2. "NOT_OPEN" \in Outcomes
    BY DEF Outcomes, Errors
  <2>3. Append(calls[r], "NOT_OPEN") \in Seq(Outcomes)
    BY <1>0, <2>2, SMTT(30)
  <2>4. Len(calls'[r]) = 1
    BY <1>3, <2>1, SMTT(30)
  <2> QED  BY <1>0, <1>1, <2>1, <2>3, <2>4
<1>5. TypeOK'
  BY <1>0, <1>1, <1>2, <1>4 DEF TypeOK, States
<1>6. InScheduled' /\ InSending'
  BY <1>0, <1>1, <1>2, SMTT(30) DEF InScheduled, InSending
<1>7. Reachable'
  <2>1. \A t \in RR : t \in Contexts
    BY Kinds
  <2> QED  BY <1>0, <1>1, <1>2, <2>1 DEF Reachable, TypeOK
<1>8. OnWire'
  <2>1. r \notin wire /\ \A n \in DOMAIN writes : \A j \in DOMAIN writes[n] :
                           writes[n][j] # r
    BY <1>0 DEF OnWire
  <2>2. /\ \A y \in wire : y \in Contexts
        /\ \A n \in DOMAIN writes : \A j \in DOMAIN writes[n] :
             writes[n][j] \in Contexts
    <3>1. \A n \in DOMAIN writes : writes[n] \in Seq(Contexts)
      BY <1>0, SMTT(30) DEF TypeOK
    <3> QED  BY <1>0, <3>1, SMTT(30) DEF TypeOK
  <2> QED  BY <1>0, <1>1, <1>2, <2>1, <2>2 DEF OnWire
<1>9. Heard'
  <2>1. \A t \in RR \cup FNF : /\ state'[t] = "COMPLETE" => Len(calls'[t]) = 1
                               /\ state'[t] # "COMPLETE" => calls'[t] = <<>>
    <3>1. \A t \in RR \cup FNF : t \in Contexts /\ t \in Requests
      BY Kinds
    <3> QED  BY <1>0, <1>2, <1>4, <3>1, SMTT(30) DEF Heard
  <2>2. ASSUME NEW s \in Streams
        PROVE  /\ state'[s] = "NEW" =>
                    /\ s \notin streams' /\ calls'[s] = <<>> /\ peer'[s] = "none"
                    /\ state'[<<"CANCEL", s>>] = "NEW"
               /\ s \in first' =>
                    /\ s \in streams' /\ calls'[s] = <<>> /\ peer'[s] = "none"
               /\ s \in streams' => state'[<<"CANCEL", s>>] = "NEW"
               /\ s \in streams' \ first' =>
                    calls'[s] = <<"response">> /\ peer'[s] = "open"
               /\ Len(calls'[s]) <= 2
               /\ Len(calls'[s]) = 2 =>
                    /\ calls'[s][1] = "response"
                    /\ calls'[s][2] \in {"streamEnd", "streamError"}
    <3>1. /\ s \in Contexts /\ <<"CANCEL", s>> \in Contexts
          /\ r # <<"CANCEL", s>> /\ s \in Requests
      BY Kinds
    <3>2. /\ state[s] = "NEW" =>
               /\ s \notin streams /\ calls[s] = <<>> /\ peer[s] = "none"
               /\ state[<<"CANCEL", s>>] = "NEW"
          /\ s \in first =>
               /\ s \in streams /\ calls[s] = <<>> /\ peer[s] = "none"
          /\ s \in streams => state[<<"CANCEL", s>>] = "NEW"
          /\ s \in streams \ first =>
               calls[s] = <<"response">> /\ peer[s] = "open"
          /\ Len(calls[s]) <= 2
          /\ Len(calls[s]) = 2 =>
               /\ calls[s][1] = "response"
               /\ calls[s][2] \in {"streamEnd", "streamError"}
      BY <1>0 DEF Heard
    <3>3. CASE r = s
      BY <1>1, <1>2, <1>4, <3>1, <3>2, <3>3, SMTT(30)
    <3>4. CASE r # s
      BY <1>1, <1>2, <1>4, <3>1, <3>2, <3>4
    <3> QED  BY <3>3, <3>4
  <2> QED  BY <2>1, <2>2 DEF Heard
<1>10. Drained'
  <2>1. ASSUME conn = "CLOSING"  PROVE Counted' # {} \/ streams' # {}
    <3>1. Counted # {} \/ streams # {}
      BY <2>1 DEF IInv, Drained
    <3>2. Counted \subseteq Counted'
      <4>1. \A y \in Counted : y \in Contexts /\ state[y] # "NEW"
        BY Kinds DEF Counted
      <4> QED  BY <1>2, <4>1 DEF Counted
    <3> QED  BY <1>1, <3>1, <3>2
  <2> QED  BY <1>1, <1>2, <2>1 DEF IInv, Drained
<1> QED  BY <1>4, <1>5, <1>6, <1>7, <1>8, <1>9, <1>10 DEF IInv

(* The calls of the channel and of the streams' consumers keep the         *)
(* invariant.                                                              *)
LEMMA SendSteps ==
  ASSUME IInv, \/ \E r \in Requests : Send(r)
               \/ \E s \in Streams : SendRequestN(s) \/ Cancel(s)
  PROVE  IInv'
<1>1. ASSUME NEW r \in Requests, Send(r)  PROVE IInv'
  <2>1. CASE conn = "CONNECTED"
    <3> DEFINE freed == {}
    <3>1. r \in Contexts /\ \A s \in Streams : r # <<"CANCEL", s>>
      <4>1. ASSUME NEW s \in Streams  PROVE r # <<"CANCEL", s>>
        BY Kinds
      <4> QED  BY <4>1, Kinds
    <3>3. freed \subseteq streams \ first
      OBVIOUS
    <3>2. /\ EnqueueScheduledWrite(r, freed) /\ state[r] = "NEW"
          /\ UNCHANGED <<sending, socket, peer>>
      BY <1>1, <2>1 DEF Send
    <3> HIDE DEF freed
    <3> QED  BY <2>1, <3>1, <3>2, <3>3, EnqueueStep
  <2>2. CASE conn # "CONNECTED"
    BY <1>1, <2>2, RefuseStep DEF Send
  <2> QED  BY <2>1, <2>2
<1>2. ASSUME NEW s \in Streams, SendRequestN(s)  PROVE IInv'
  <2>1. CASE conn = "CONNECTED"
    <3> DEFINE freed == {}
    <3>1. /\ <<"REQUEST_N", s>> \in Contexts
          /\ \A t \in Streams : <<"REQUEST_N", s>> # <<"CANCEL", t>>
          /\ freed \subseteq streams \ first
      BY Kinds
    <3>2. /\ EnqueueScheduledWrite(<<"REQUEST_N", s>>, freed)
          /\ state[<<"REQUEST_N", s>>] = "NEW"
          /\ UNCHANGED <<sending, socket, peer>>
      BY <1>2, <2>1 DEF SendRequestN, SendFrame
    <3> HIDE DEF freed
    <3> QED  BY <2>1, <3>1, <3>2, EnqueueStep
  <2>2. CASE conn # "CONNECTED"
    BY <1>2, <2>2, StreamSteps
  <2> QED  BY <2>1, <2>2
<1>3. ASSUME NEW s \in Streams, Cancel(s)  PROVE IInv'
  <2>1. CASE conn = "CONNECTED"
    <3>0. s \in streams /\ s \notin first
      BY <1>3 DEF Cancel
    <3> DEFINE freed == {s}
    <3>1. /\ <<"CANCEL", s>> \in Contexts
          /\ \A t \in Streams : <<"CANCEL", s>> = <<"CANCEL", t>>
                                  => t \in freed /\ t \in streams
          /\ freed \subseteq streams \ first
      BY <3>0, Kinds
    <3>2. /\ EnqueueScheduledWrite(<<"CANCEL", s>>, freed)
          /\ UNCHANGED <<sending, socket, peer>>
      BY <1>3, <2>1 DEF Cancel, SendFrame
    <3>3. state[<<"CANCEL", s>>] = "NEW"
      BY <3>0 DEF IInv, Heard
    <3> HIDE DEF freed
    <3> QED  BY <2>1, <3>1, <3>2, <3>3, EnqueueStep
  <2>2. CASE conn # "CONNECTED"
    BY <1>3, <2>2, StreamSteps
  <2> QED  BY <2>1, <2>2
<1> QED  BY <1>1, <1>2, <1>3

(* Progress of the socket keeps the invariant.                             *)
LEMMA TransmitStep ==
  ASSUME IInv, Transmit
  PROVE  IInv'
<1>0. TypeOK /\ OnWire
  BY DEF IInv
<1>1. /\ writes # <<>> /\ done' = done + 1
      /\ done + 1 < Len(Head(writes)) + (IF Deferred THEN 1 ELSE 0)
      /\ wire' = wire \cup {Head(writes)[done + 1]}
      /\ UNCHANGED <<client, sending, writes, broken, peer>>
  BY DEF Transmit
<1>2. /\ 1 \in DOMAIN writes /\ Head(writes) = writes[1]
      /\ writes[1] \in Seq(Contexts) /\ done \in Nat
  BY <1>0, <1>1, SMTT(30) DEF TypeOK
<1>3. done + 1 \in DOMAIN writes[1] /\ done' \in Nat
  BY <1>1, <1>2, SMTT(30)
<1>4. /\ writes[1][done + 1] \in Contexts
      /\ state[writes[1][done + 1]] \notin {"NEW", "WRITE_SCHEDULED"}
  BY <1>0, <1>2, <1>3, SMTT(30) DEF OnWire
<1>5. TypeOK'
  BY <1>0, <1>1, <1>2, <1>3, <1>4 DEF TypeOK, client
<1>6. OnWire'
  BY <1>0, <1>1, <1>2, <1>4 DEF OnWire, client
<1>7. InScheduled' /\ InSending' /\ Reachable' /\ Heard' /\ Drained'
  BY <1>1, SMTT(30) DEF IInv, InScheduled, InSending, Reachable, Heard, Drained,
              client, Counted
<1> QED  BY <1>5, <1>6, <1>7 DEF IInv

(* The entries of a concatenation.                                         *)
LEMMA Concatenation ==
  ASSUME NEW S, NEW p \in Seq(S), NEW q \in Seq(S)
  PROVE  /\ p \o q \in Seq(S) /\ Len(p) \in Nat /\ Len(q) \in Nat
         /\ DOMAIN p = 1..Len(p) /\ DOMAIN q = 1..Len(q)
         /\ Len(p \o q) = Len(p) + Len(q)
         /\ DOMAIN (p \o q) = 1..(Len(p) + Len(q))
         /\ \A i \in 1..Len(p) : (p \o q)[i] = p[i]
         /\ \A i \in (Len(p) + 1)..(Len(p) + Len(q)) :
              (p \o q)[i] = q[i - Len(p)]
BY SMTT(30)

(* The batch that writeScheduledRequestsToSocket() makes.                  *)
LEMMA BatchMade ==
  ASSUME NEW q \in Seq(Contexts)
  PROVE  /\ Batch(q) \in Seq(Entries) /\ Len(Batch(q)) = Len(q)
         /\ DOMAIN Batch(q) = DOMAIN q
         /\ \A i \in DOMAIN q : /\ Batch(q)[i].ctx = q[i]
                                /\ Batch(q)[i].ctx \in Contexts
                                /\ Batch(q)[i].end = i
         /\ Batch(q) # <<>> => Batch(q)[Len(Batch(q))].last = TRUE
<1> DEFINE m == Len(q)
<1>1. /\ m \in Nat /\ DOMAIN q = 1..m /\ \A i \in 1..m : q[i] \in Contexts
  BY SMTT(30)
<1>2. Batch(q) = [i \in 1..m |->
        [ctx |-> q[i], last |-> q[i] \in HasFds \/ i = m, end |-> i]]
  BY <1>1 DEF Batch
<1> HIDE DEF m
<1>3. \A i \in 1..m : Batch(q)[i] \in Entries
  <2> SUFFICES ASSUME NEW i \in 1..m  PROVE Batch(q)[i] \in Entries
    OBVIOUS
  <2>1. Batch(q)[i]
          = [ctx |-> q[i], last |-> q[i] \in HasFds \/ i = m, end |-> i]
    BY <1>2
  <2>2. /\ q[i] \in Contexts \cup {Dummy} /\ i \in Nat \ {0}
        /\ (q[i] \in HasFds \/ i = m) \in BOOLEAN
    BY <1>1, SMTT(30)
  <2> QED  BY <2>1, <2>2, SMTT(30) DEF Entries
<1>4. Batch(q) \in [1..m -> Entries]
  BY <1>2, <1>3
<1>5. Batch(q) \in Seq(Entries) /\ Len(Batch(q)) = m /\ DOMAIN Batch(q) = 1..m
  BY <1>1, <1>4, FunctionSeq
<1>6. \A i \in 1..m : /\ Batch(q)[i].ctx = q[i]
                      /\ Batch(q)[i].end = i
                      /\ i = m => Batch(q)[i].last = TRUE
  <2> SUFFICES ASSUME NEW i \in 1..m
               PROVE  /\ Batch(q)[i].ctx = q[i] /\ Batch(q)[i].end = i
                      /\ i = m => Batch(q)[i].last = TRUE
    OBVIOUS
  <2>1. Batch(q)[i]
          = [ctx |-> q[i], last |-> q[i] \in HasFds \/ i = m, end |-> i]
    BY <1>2
  <2>2. i = m => (q[i] \in HasFds \/ i = m) = TRUE
    OBVIOUS
  <2>3. /\ Batch(q)[i].ctx = q[i] /\ Batch(q)[i].end = i
        /\ Batch(q)[i].last = (q[i] \in HasFds \/ i = m)
    BY <2>1, SMTT(30)
  <2> QED  BY <2>2, <2>3
<1>7. Batch(q) # <<>> => m \in 1..m
  BY <1>1, <1>5, SMTT(30)
<1> QED  BY <1>1, <1>5, <1>6, <1>7 DEF m

(* The write loop, spelled out: whatever is scheduled goes.                *)
LEMMA WriteLoopDoes ==
  ASSUME IInv, WriteScheduledRequestsToSocket
  PROVE  LET b == Batch(scheduled)
         IN  /\ sending' = sending \o b /\ writes' = writes \o WritesOf(b)
             /\ scheduled' = <<>>
             /\ state' = [x \in Contexts |->
                            IF \E i \in DOMAIN scheduled : scheduled[i] = x
                              THEN "WRITE_SENDING" ELSE state[x]]
             /\ timers' = timers \cup
                  (ToSet(scheduled) \cap RR \cap Timed)
             /\ writeLoop' = FALSE
             /\ UNCHANGED <<conn, tracked, streams, first, closeLoop, calls,
                            done, broken, wire, peer>>
<1>1. (IF conn = "CONNECTED" THEN scheduled ELSE <<>>) = scheduled
  BY DEF IInv, InScheduled
<1>2. LeftScheduled(ToSet(scheduled)) = <<>>
  BY DEF LeftScheduled
<1> QED  BY <1>1, <1>2 DEF WriteScheduledRequestsToSocket, ToSet

(* The write loop keeps the invariant: what leaves writeScheduledQueue_ is *)
(* in writeSendingQueue_ and in the writes.                                *)
LEMMA WriteLoopStep ==
  ASSUME IInv, WriteScheduledRequestsToSocket
  PROVE  IInv'
<1> DEFINE b == Batch(scheduled)
<1>1. /\ sending' = sending \o b /\ writes' = writes \o WritesOf(b)
      /\ scheduled' = <<>>
      /\ state' = [x \in Contexts |->
                     IF \E i \in DOMAIN scheduled : scheduled[i] = x
                       THEN "WRITE_SENDING" ELSE state[x]]
      /\ timers' = timers \cup (ToSet(scheduled) \cap RR \cap Timed)
      /\ writeLoop' = FALSE
      /\ UNCHANGED <<conn, tracked, streams, first, closeLoop, calls,
                     done, broken, wire, peer>>
  BY WriteLoopDoes
<1>2. /\ scheduled \in Seq(Contexts) /\ sending \in Seq(Entries)
      /\ writes \in Seq(Seq(Contexts)) /\ state \in [Contexts -> States]
      /\ TypeOK /\ InScheduled /\ InSending /\ Reachable /\ Heard /\ OnWire
  BY DEF IInv, TypeOK, States
<1>3. /\ b \in Seq(Entries) /\ Len(b) = Len(scheduled)
      /\ DOMAIN b = DOMAIN scheduled
      /\ \A i \in DOMAIN scheduled : b[i].ctx = scheduled[i]
      /\ \A i \in DOMAIN b : b[i].ctx \in Contexts
      /\ b # <<>> => b[Len(b)].last = TRUE
  BY <1>2, BatchMade
<1> HIDE DEF b
<1>4. /\ WritesOf(b) \in Seq(Seq(Contexts))
      /\ Len(WritesOf(b)) = EndsBefore(b, Len(b) + 1)
      /\ \A n \in DOMAIN WritesOf(b) : \A j \in DOMAIN WritesOf(b)[n] :
           \E i \in DOMAIN b : WritesOf(b)[n][j] = b[i].ctx
  BY <1>3, WritesMade
<1>5. /\ state' \in [Contexts -> States]
      /\ \A x \in Contexts :
           /\ state[x] = "WRITE_SCHEDULED" => state'[x] = "WRITE_SENDING"
           /\ state[x] # "WRITE_SCHEDULED" => state'[x] = state[x]
  BY <1>1, <1>2 DEF States, InScheduled
<1>6. /\ \A i, j \in DOMAIN scheduled : scheduled[i] = scheduled[j] => i = j
      /\ \A x \in Contexts : state[x] = "WRITE_SCHEDULED"
                               <=> \E i \in DOMAIN scheduled : scheduled[i] = x
  BY <1>2 DEF InScheduled
<1>7. TypeOK'
  <2>1. sending' \in Seq(Entries) /\ writes' \in Seq(Seq(Contexts))
    BY <1>1, <1>2, <1>3, <1>4, SMTT(30)
  <2>2. /\ timers' \subseteq RR /\ scheduled' \in Seq(Contexts)
        /\ writeLoop' \in BOOLEAN
    <3>1. timers' \subseteq RR
      BY <1>1, <1>2 DEF TypeOK
    <3>2. <<>> \in Seq(Contexts)
      BY SMTT(30)
    <3> QED  BY <1>1, <3>1, <3>2
  <2> QED  BY <1>1, <1>2, <1>5, <2>1, <2>2 DEF TypeOK, States
<1>8. InScheduled'
  <2>1. DOMAIN scheduled' = {}
    BY <1>1, SMTT(30)
  <2> QED  BY <1>1, <1>5, <1>6, <2>1 DEF InScheduled
<1>9. InSending'
  <2> DEFINE m == Len(sending)
             k == Len(b)
  <2>1. /\ m \in Nat /\ k \in Nat /\ DOMAIN sending = 1..m /\ DOMAIN b = 1..k
        /\ DOMAIN sending' = 1..(m + k)
        /\ \A i \in 1..m : sending'[i] = sending[i]
        /\ \A i \in (m + 1)..(m + k) : sending'[i] = b[i - m]
    <3>1. sending' = sending \o b
      BY <1>1
    <3>2. /\ m \in Nat /\ k \in Nat /\ DOMAIN sending = 1..m /\ DOMAIN b = 1..k
          /\ DOMAIN (sending \o b) = 1..(m + k)
          /\ \A i \in 1..m : (sending \o b)[i] = sending[i]
          /\ \A i \in (m + 1)..(m + k) : (sending \o b)[i] = b[i - m]
      <4>1. sending \in Seq(Entries) /\ b \in Seq(Entries)
        BY <1>2, <1>3
      <4> QED  BY <4>1, Concatenation, SMTT(30)
    <3> HIDE DEF m, k
    <3> QED  BY <3>1, <3>2
  <2> HIDE DEF m, k
  <2>2. /\ \A i \in 1..k : m + i \in (m + 1)..(m + k) /\ (m + i) - m = i
        /\ \A i \in 1..(m + k) : i \in 1..m \/ i \in (m + 1)..(m + k)
        /\ \A i \in (m + 1)..(m + k) : i - m \in 1..k
        /\ \A i, j \in (m + 1)..(m + k) : i - m = j - m => i = j
        /\ \A i \in 1..m : i \in 1..(m + k)
        /\ \A i \in (m + 1)..(m + k) : i \in 1..(m + k)
    BY <2>1, SMTT(30)
  <2>3. \A i \in 1..k : /\ b[i].ctx \in Contexts
                        /\ state[b[i].ctx] = "WRITE_SCHEDULED"
    <3> SUFFICES ASSUME NEW i \in 1..k
                 PROVE  /\ b[i].ctx \in Contexts
                        /\ state[b[i].ctx] = "WRITE_SCHEDULED"
      OBVIOUS
    <3>1. i \in DOMAIN b /\ i \in DOMAIN scheduled
      BY <1>3, <2>1
    <3>2. b[i].ctx \in Contexts /\ b[i].ctx = scheduled[i]
      BY <1>3, <3>1
    <3> QED  BY <1>6, <3>1, <3>2
  <2>4. /\ \A i, j \in 1..m : sending[i].ctx = sending[j].ctx
                                => i = j \/ sending[i].ctx = Dummy
        /\ \A x \in Contexts : state[x] = "WRITE_SENDING"
                                 <=> \E i \in 1..m : sending[i].ctx = x
    BY <1>2, <2>1 DEF InSending
  <2>5. \A i, j \in 1..k : b[i].ctx = b[j].ctx => i = j
    <3> SUFFICES ASSUME NEW i \in 1..k, NEW j \in 1..k, b[i].ctx = b[j].ctx
                 PROVE  i = j
      OBVIOUS
    <3>1. i \in DOMAIN scheduled /\ j \in DOMAIN scheduled
      BY <1>3, <2>1
    <3>2. scheduled[i] = scheduled[j]
      BY <1>3, <3>1
    <3> QED  BY <1>6, <3>1, <3>2
  <2>6. ASSUME NEW i \in DOMAIN sending', NEW j \in DOMAIN sending',
               sending'[i].ctx = sending'[j].ctx
        PROVE  i = j \/ sending'[i].ctx = Dummy
    <3>1. CASE i \in 1..m /\ j \in 1..m
      BY <2>1, <2>4, <2>6, <3>1
    <3>2. CASE i \in 1..m /\ j \in (m + 1)..(m + k)
      <4>1. j - m \in 1..k /\ sending'[i] = sending[i] /\ sending'[j] = b[j - m]
        BY <2>1, <2>2, <3>2
      <4>2. /\ sending[i].ctx \in Contexts
            /\ state[sending[i].ctx] = "WRITE_SCHEDULED"
        BY <2>3, <2>6, <4>1
      <4> QED  BY <2>4, <3>2, <4>2
    <3>3. CASE i \in (m + 1)..(m + k) /\ j \in 1..m
      <4>1. i - m \in 1..k /\ sending'[j] = sending[j] /\ sending'[i] = b[i - m]
        BY <2>1, <2>2, <3>3
      <4>2. /\ sending[j].ctx \in Contexts
            /\ state[sending[j].ctx] = "WRITE_SCHEDULED"
        BY <2>3, <2>6, <4>1
      <4> QED  BY <2>4, <3>3, <4>2
    <3>4. CASE i \in (m + 1)..(m + k) /\ j \in (m + 1)..(m + k)
      <4>1. /\ i - m \in 1..k /\ sending'[i] = b[i - m]
            /\ j - m \in 1..k /\ sending'[j] = b[j - m]
        BY <2>1, <2>2, <3>4
      <4>2. i - m = j - m
        BY <2>5, <2>6, <4>1
      <4> QED  BY <2>2, <3>4, <4>2
    <3> QED  BY <2>1, <2>2, <3>1, <3>2, <3>3, <3>4
  <2>7. ASSUME NEW x \in Contexts
        PROVE  state'[x] = "WRITE_SENDING"
                 <=> \E i \in DOMAIN sending' : sending'[i].ctx = x
    <3>1. ASSUME state'[x] = "WRITE_SENDING"
          PROVE  \E i \in DOMAIN sending' : sending'[i].ctx = x
      <4>1. CASE state[x] = "WRITE_SCHEDULED"
        <5>1. PICK i \in 1..k : b[i].ctx = x
          <6>1. PICK n \in DOMAIN scheduled : scheduled[n] = x
            BY <1>6, <4>1
          <6>2. n \in 1..k /\ b[n].ctx = x
            BY <1>3, <2>1, <6>1
          <6> QED  BY <6>2
        <5>2. m + i \in DOMAIN sending' /\ sending'[m + i] = b[i]
          BY <2>1, <2>2, <5>1
        <5> QED  BY <5>1, <5>2
      <4>2. CASE state[x] = "WRITE_SENDING"
        BY <2>1, <2>2, <2>4, <4>2
      <4> QED  BY <1>5, <3>1, <4>1, <4>2
    <3>2. ASSUME NEW i \in DOMAIN sending', sending'[i].ctx = x
          PROVE  state'[x] = "WRITE_SENDING"
      <4>1. CASE i \in 1..m
        BY <1>5, <2>1, <2>4, <3>2, <4>1
      <4>2. CASE i \in (m + 1)..(m + k)
        BY <1>5, <2>1, <2>2, <2>3, <3>2, <4>2, SMTT(30)
      <4> QED  BY <2>1, <2>2, <4>1, <4>2
    <3> QED  BY <3>1, <3>2
  <2> QED  BY <2>6, <2>7 DEF InSending
<1>10. Reachable'
  <2>1. \A r \in RR : r \in Contexts
    BY Kinds
  <2>2. timers \subseteq RR /\ \A x \in ToSet(scheduled) :
          x \in Contexts /\ state[x] = "WRITE_SCHEDULED"
    BY <1>2, <1>6, SMTT(30) DEF TypeOK, ToSet
  <2> QED  BY <1>1, <1>2, <1>5, <2>1, <2>2 DEF Reachable
<1>11. Heard'
  <2>1. \A r \in RR \cup FNF : r \in Contexts
    BY Kinds
  <2>2. \A s \in Streams : s \in Contexts /\ <<"CANCEL", s>> \in Contexts
    BY Kinds
  <2>3. \A x \in Contexts : /\ state'[x] = "NEW" <=> state[x] = "NEW"
                            /\ state'[x] = "COMPLETE" <=> state[x] = "COMPLETE"
    BY <1>5
  <2> QED  BY <1>1, <1>2, <2>1, <2>2, <2>3 DEF Heard
<1>12. OnWire'
  <2>1. \A x \in Contexts : /\ state'[x] \notin {"WRITE_SCHEDULED"}
                            /\ state'[x] = "NEW" => state[x] = "NEW"
    BY <1>5
  <2>2. \A x \in wire : x \in Contexts
    BY <1>2 DEF TypeOK
  <2>3. ASSUME NEW n \in DOMAIN writes', NEW j \in DOMAIN writes'[n]
        PROVE  writes'[n][j] \in Contexts /\ state[writes'[n][j]] # "NEW"
    <3>1. \/ n \in DOMAIN writes /\ writes'[n] = writes[n]
          \/ \E k \in DOMAIN WritesOf(b) : writes'[n] = WritesOf(b)[k]
      <4>1. /\ n \in 1..(Len(writes) + Len(WritesOf(b)))
            /\ Len(writes) \in Nat /\ Len(WritesOf(b)) \in Nat
            /\ DOMAIN writes = 1..Len(writes)
            /\ DOMAIN WritesOf(b) = 1..Len(WritesOf(b))
            /\ n <= Len(writes) => writes'[n] = writes[n]
            /\ n > Len(writes) => writes'[n] = WritesOf(b)[n - Len(writes)]
        BY <1>1, <1>2, <1>4, Concatenation, SMTT(30)
      <4> QED  BY <4>1, SMTT(30)
    <3>2. CASE n \in DOMAIN writes /\ writes'[n] = writes[n]
      BY <1>2, <3>2, SMTT(30) DEF OnWire
    <3>3. CASE \E k \in DOMAIN WritesOf(b) : writes'[n] = WritesOf(b)[k]
      <4>1. PICK i \in DOMAIN b : writes'[n][j] = b[i].ctx
        BY <1>4, <3>3
      <4> QED  BY <1>3, <1>6, <4>1, SMTT(30)
    <3> QED  BY <3>1, <3>2, <3>3
  <2>4. \A n \in DOMAIN writes' : \A j \in DOMAIN writes'[n] :
          state'[writes'[n][j]] \notin {"NEW", "WRITE_SCHEDULED"}
    BY <2>1, <2>3
  <2> QED  BY <1>1, <1>2, <2>1, <2>2, <2>4 DEF OnWire
<1>13. Drained'
  <2>1. Counted' = Counted
    <3>1. \A x \in (RR \cup FNF) \cup Control : x \in Contexts
      BY Kinds
    <3> QED  BY <1>5, <3>1 DEF Counted
  <2>2. ASSUME conn = "CLOSED"
        PROVE  sending' = <<>> /\ writes' = <<>> /\ timers' = {}
    <3>1. /\ sending = <<>> /\ writes = <<>> /\ timers = {}
          /\ scheduled = <<>>
      BY <1>2, <2>2 DEF IInv, Drained, InScheduled
    <3>2. b = <<>> /\ ToSet(scheduled) = {}
      BY <1>3, <3>1, SMTT(30) DEF ToSet
    <3>3. EndsBefore(b, 1) = 0
      BY NoneBefore
    <3>4. WritesOf(b) = <<>>
      BY <1>4, <3>2, <3>3, SMTT(30)
    <3> QED  BY <1>1, <3>1, <3>2, <3>4, SMTT(30)
  <2>3. ASSUME conn = "CLOSED"
        PROVE  \A x \in Contexts : state'[x] \in {"NEW", "COMPLETE"}
    BY <1>5, <2>3 DEF IInv, Drained
  <2> QED  BY <1>1, <2>1, <2>2, <2>3 DEF IInv, Drained
<1> QED  BY <1>7, <1>8, <1>9, <1>10, <1>11, <1>12, <1>13 DEF IInv

(* What closeNowImpl() hands to Finish.                                    *)
LEMMA CloseNowCall ==
  ASSUME IInv, CloseNowImpl
  PROVE  \E result, told :
           /\ Finish("CLOSED", result, {}, FALSE, told, streams)
           /\ Call("CLOSED", result, {}, FALSE, told, streams)
           /\ DOMAIN result = Unfinished /\ DOMAIN told = streams
           /\ \A x \in Unfinished :
                result[x] = IF x \in ToSet(scheduled) \cup
                                     Aborted(NextBatch, done) \cup
                                     Aborted(DOMAIN sending \ NextBatch, 0)
                              THEN "NOT_OPEN" ELSE "CLOSED"
           /\ \A s \in streams : told[s] \in {"CLOSED", "streamError"}
<1> DEFINE unsent == ToSet(scheduled) \cup Aborted(NextBatch, done)
                       \cup Aborted(DOMAIN sending \ NextBatch, 0)
           result == [x \in EndedByClose |->
                        IF x \in unsent THEN "NOT_OPEN" ELSE "CLOSED"]
           told == [s \in streams |-> IF s \in first THEN "CLOSED"
                                                     ELSE "streamError"]
<1>1. Finish("CLOSED", result, {}, FALSE, told, streams)
  BY DEF CloseNowImpl
<1>2. /\ DOMAIN result = Unfinished /\ DOMAIN told = streams
      /\ \A x \in Unfinished :
           result[x] = IF x \in unsent THEN "NOT_OPEN" ELSE "CLOSED"
      /\ \A s \in streams : told[s] = IF s \in first THEN "CLOSED"
                                                     ELSE "streamError"
  BY DEF EndedByClose
<1> HIDE DEF unsent, result, told
<1>3. \A i \in DOMAIN scheduled : scheduled[i] \in DOMAIN result
  <2>1. \A i \in DOMAIN scheduled : /\ scheduled[i] \in Contexts
                                    /\ state[scheduled[i]] = "WRITE_SCHEDULED"
    BY SMTT(30) DEF IInv, TypeOK, InScheduled
  <2> QED  BY <1>2, <2>1 DEF Unfinished
<1>4. \A x \in DOMAIN result : x \in Unfinished /\ result[x] \in Outcomes
  BY <1>2 DEF Outcomes, Errors
<1>5. \A s \in DOMAIN told :
        /\ s \in streams
        /\ \/ told[s] \in Errors /\ s \in first
           \/ /\ told[s] \in {"streamEnd", "streamError"}
              /\ s \in streams /\ s \notin first
  BY <1>2 DEF Errors
<1>6. Call("CLOSED", result, {}, FALSE, told, streams)
  <2>1. "CLOSED" # "CONNECTED" /\ FALSE \in BOOLEAN
    OBVIOUS
  <2> QED  BY <1>2, <1>3, <1>4, <1>5, <2>1 DEF Call
<1>7. \A s \in streams : told[s] \in {"CLOSED", "streamError"}
  BY <1>2
<1> QED  BY <1>1, <1>2, <1>6, <1>7 DEF unsent

(* closeNowImpl() keeps the invariant: it ends every context that has not  *)
(* ended, and the streams.                                                 *)
LEMMA CloseNowStep ==
  ASSUME IInv, CloseNowImpl
  PROVE  IInv'
<1>0. /\ TypeOK /\ InScheduled /\ Reachable /\ Heard
  BY DEF IInv
<1>1. PICK result, told :
        /\ Finish("CLOSED", result, {}, FALSE, told, streams)
        /\ Call("CLOSED", result, {}, FALSE, told, streams)
        /\ DOMAIN result = Unfinished
        /\ \A s \in streams : told[s] \in {"CLOSED", "streamError"}
  BY CloseNowCall
<1>2. /\ sending' = <<>> /\ writes' = <<>> /\ done' = 0
      /\ broken' = broken /\ wire' = wire /\ peer' = peer
  BY DEF CloseNowImpl
<1>3. PeerAgrees(told, streams)
  BY <1>2 DEF PeerAgrees
<1>4. Half' /\ (conn' = "CLOSED" \/ (conn' = "ERROR" /\ "CLOSED" # "CLOSED"))
  BY <1>0, <1>1, <1>3, FinishHalf
<1>5. PICK ended, initial, cancels :
        Ends("CLOSED", result, {}, told, streams, ended, initial, cancels)
  BY <1>0, <1>1, FinishEnds
<1>6. /\ \A x \in ended : x \in Contexts /\ state'[x] = "COMPLETE"
      /\ \A x \in Contexts : x \notin cancels /\ x \notin ended
                               => state'[x] = state[x]
  <2> DEFINE none == {}
             close == FALSE
  <2>1. /\ Call("CLOSED", result, none, close, told, streams)
        /\ Ends("CLOSED", result, none, told, streams, ended, initial, cancels)
    BY <1>1, <1>5
  <2>2. \A x \in Contexts : x \notin none
    OBVIOUS
  <2> HIDE DEF none, close
  <2>3. /\ \A x \in ended : x \in Contexts /\ state'[x] = "COMPLETE"
        /\ \A x \in Contexts : x \notin cancels /\ x \notin ended /\ x \notin none
                               => state'[x] = state[x]
    BY <1>0, <2>1, EndsState, SMTT(30)
  <2> QED  BY <2>2, <2>3
<1>7. /\ cancels = {} /\ \A x \in Unfinished : x \in ended
      /\ streams' = {} /\ timers' = timers \ ended
  BY <1>1, <1>4, <1>5 DEF Ends
<1>8. \A x \in Contexts : state'[x] \in {"NEW", "COMPLETE"}
  BY <1>6, <1>7 DEF Unfinished
<1>9. timers' = {}
  <2>1. \A r \in timers : r \in Unfinished
    BY <1>0, Kinds DEF Reachable, TypeOK, Unfinished
  <2> QED  BY <1>7, <2>1
<1>10. /\ DOMAIN sending' = {} /\ DOMAIN writes' = {}
       /\ sending' \in Seq(Entries) /\ writes' \in Seq(Seq(Contexts))
  BY <1>2, SMTT(30)
<1>11. TypeOK'
  BY <1>0, <1>2, <1>4, <1>10 DEF Half, States, TypeOK
<1>12. InSending'
  BY <1>8, <1>10 DEF InSending
<1>13. OnWire'
  <2>1. \A x \in wire : /\ x \in Contexts
                        /\ state[x] \notin {"NEW", "WRITE_SCHEDULED"}
    BY DEF IInv, OnWire, TypeOK
  <2>2. \A x \in wire : state'[x] \notin {"NEW", "WRITE_SCHEDULED"}
    BY <1>6, <1>7, <2>1
  <2> QED  BY <1>2, <1>10, <2>2 DEF OnWire
<1>14. Drained'
  BY <1>2, <1>4, <1>7, <1>8, <1>9 DEF Drained
<1> QED  BY <1>4, <1>11, <1>12, <1>13, <1>14 DEF Half, IInv

(* The invariant holds at the start.                                       *)
LEMMA Start ==
  ASSUME Init
  PROVE  IInv
<1>1. /\ conn = "CONNECTED" /\ state = [x \in Contexts |-> "NEW"]
      /\ scheduled = <<>> /\ sending = <<>>
      /\ tracked = {} /\ timers = {} /\ streams = {} /\ first = {}
      /\ writeLoop = FALSE /\ closeLoop = FALSE
      /\ calls = [r \in Requests |-> <<>>]
      /\ writes = <<>> /\ done = 0 /\ broken = FALSE /\ wire = {}
      /\ peer = [r \in Requests |-> "none"]
  BY DEF Init
<1>2. DOMAIN scheduled = {} /\ DOMAIN sending = {} /\ DOMAIN writes = {}
  BY <1>1, SMTT(30)
<1>3. \A x \in Contexts : state[x] = "NEW"
  BY <1>1
<1>4. \A r \in Requests : calls[r] = <<>> /\ peer[r] = "none"
  BY <1>1
<1>5. TypeOK
  <2>1. /\ state \in [Contexts -> States]
        /\ peer \in [Requests -> {"none", "open", "done"}]
    BY <1>1 DEF States
  <2>2. calls \in [Requests -> Seq(Outcomes)]
    BY <1>1, SMTT(30)
  <2>3. /\ scheduled \in Seq(Contexts) /\ sending \in Seq(Entries)
        /\ writes \in Seq(Seq(Contexts))
    BY <1>1, SMTT(30)
  <2> QED  BY <1>1, <2>1, <2>2, <2>3 DEF TypeOK, States
<1>6. InScheduled /\ InSending
  BY <1>1, <1>2, <1>3 DEF InScheduled, InSending
<1>7. Reachable /\ OnWire /\ Drained
  BY <1>1, <1>2, <1>3, Kinds DEF Reachable, OnWire, Drained
<1>8. Heard
  <2>1. \A r \in RR \cup FNF : r \in Contexts /\ r \in Requests
    BY Kinds
  <2>2. \A s \in Streams : /\ s \in Requests /\ s \in Contexts
                           /\ <<"CANCEL", s>> \in Contexts
    BY Kinds
  <2> QED  BY <1>1, <1>3, <1>4, <2>1, <2>2, SMTT(30) DEF Heard
<1> QED  BY <1>5, <1>6, <1>7, <1>8 DEF IInv

(* Every step keeps the invariant.                                         *)
LEMMA Step ==
  ASSUME IInv, [Next]_vars
  PROVE  IInv'
<1>1. CASE \E r \in Requests : Send(r)
  BY <1>1, SendSteps
<1>2. CASE \E s \in Streams : SendRequestN(s)
  BY <1>2, SendSteps
<1>3. CASE \E s \in Streams : Cancel(s)
  BY <1>3, SendSteps
<1>4. CASE WriteScheduledRequestsToSocket
  BY <1>4, WriteLoopStep
<1>5. CASE Transmit
  BY <1>5, TransmitStep
<1>6. CASE SocketWriteSuccess \/ SocketWriteErr
  BY <1>6, WriteSteps
<1>7. CASE \E r \in RR : Respond(r) \/ TimeoutExpired(r)
  BY <1>7, ResponseSteps
<1>8. CASE \E s \in Streams : FirstResponse(s) \/ FirstError(s) \/ StreamEnd(s)
                                \/ FirstResponseTimeout(s)
  BY <1>8, StreamSteps
<1>9. CASE HandleConnectionClose \/ ConnectionError
  BY <1>9, ConnectionSteps
<1>10. CASE CloseLoop \/ CloseNow
  BY <1>10, CloseNowStep DEF CloseLoop, CloseNow
<1>11. CASE UNCHANGED vars
  BY <1>11, SMTT(30)
  DEF vars, client, socket, IInv, TypeOK, InScheduled, InSending,
     Reachable, Heard, OnWire, Drained, Counted
<1> QED  BY <1>1, <1>2, <1>3, <1>4, <1>5, <1>6, <1>7, <1>8, <1>9, <1>10,
            <1>11 DEF Next

(* The invariant holds always.                                             *)
LEMMA Invariance == Spec => []IInv
<1>1. Init => IInv
  BY Start
<1>2. IInv /\ [Next]_vars => IInv'
  BY Step
<1> QED  BY <1>1, <1>2, PTL DEF Spec

(* A caller of the client is called back at most once for a request, and a *)
(* stream's consumer hears at most a first response and then one end,      *)
(* whatever responses, timeouts, write errors and close() race for them; a *)
(* stream waiting for its first response is in streams_, as the CHECK of   *)
(* FirstResponseTimeout has it.                                            *)
THEOREM ClientCallsOnce == Spec => []CalledOnce
<1>1. ASSUME IInv  PROVE CalledOnce
  <2>1. first \subseteq streams
    BY <1>1 DEF IInv, Heard, TypeOK
  <2>2. ASSUME NEW r \in Requests
        PROVE  /\ Len(calls[r]) <= IF r \in Streams THEN 2 ELSE 1
               /\ Len(calls[r]) = 2 =>
                    /\ calls[r][1] = "response"
                    /\ calls[r][2] \in {"streamEnd", "streamError"}
    <3>1. CASE r \in Streams
      BY <1>1, <3>1 DEF IInv, Heard
    <3>2. CASE r \notin Streams
      <4>1. r \in RR \cup FNF
        BY <3>2, Kinds
      <4>2. Len(calls[r]) = 1 \/ Len(calls[r]) = 0
        BY <1>1, <4>1, SMTT(30) DEF IInv, Heard
      <4> QED  BY <3>2, <4>2, SMTT(30)
    <3> QED  BY <3>1, <3>2
  <2> QED  BY <2>1, <2>2 DEF CalledOnce
<1> QED  BY <1>1, Invariance, PTL

(* What the comments on ClientState::connState say: a client that is       *)
(* CLOSING has a request or a stream left, so notifyIfDetachable() never   *)
(* misses the last one; a client that is CLOSED has ended and reported     *)
(* everything.                                                             *)
THEOREM ClientDrains == Spec => []ClosesWhenDrained
<1>1. ASSUME IInv  PROVE ClosesWhenDrained
  <2>1. \A r \in RR \cup FNF : state[r] = "COMPLETE" => calls[r] # <<>>
    <3> SUFFICES ASSUME NEW r \in RR \cup FNF, state[r] = "COMPLETE"
                 PROVE  calls[r] # <<>>
      OBVIOUS
    <3>1. Len(calls[r]) = 1
      BY <1>1 DEF IInv, Heard
    <3> QED  BY <3>1, SMTT(30)
  <2> QED  BY <1>1, <2>1 DEF IInv, Drained, ClosesWhenDrained
<1> QED  BY <1>1, Invariance, PTL
=============================================================================
