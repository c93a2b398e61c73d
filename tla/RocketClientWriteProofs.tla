------------------------ MODULE RocketClientWriteProofs ------------------------
(***************************************************************************)
(* The theorems about RocketClient and its socket: for every set of        *)
(* requests and streams, the queues agree with the states of the contexts  *)
(* and with the writes of the socket, and a request reported as unsent has *)
(* not been sent.                                                          *)
(*                                                                         *)
(* Both rest on where the entries of writeSendingQueue_ are in the socket: *)
(* the marks of the queue number the writes (Marks), and an entry keeps    *)
(* its write whatever leaves the queue before it (Follows).                *)
(***************************************************************************)
EXTENDS RocketClientProofs

(* Most steps are first-order; the ones that need arithmetic, records or   *)
(* sequences cite SMTT.                                                    *)
USE ZenonT(30)

(* writeSendingQueue_ has one mark for each write of the socket, the last  *)
(* of them at its end.                                                     *)
Marks ==
  /\ EndsBefore(sending, Len(sending) + 1) = Len(writes)
  /\ sending # <<>> => sending[Len(sending)].last = TRUE

(* The entry in place i belongs to this write.                             *)
WriteOf(i) == writes[EndsBefore(sending, i) + 1]

(* A batch holds contexts of its write.                                    *)
Held ==
  \A i \in DOMAIN sending : sending[i].ctx # Dummy =>
    \E k \in DOMAIN WriteOf(i) : WriteOf(i)[k] = sending[i].ctx

(* The entries that stay in the queue stay with their write.               *)
Follows ==
  \A i \in DOMAIN sending' :
    \/ sending'[i].ctx = Dummy
    \/ \E j \in DOMAIN sending :
         sending'[i] = sending[j] /\ WriteOf(i)' = WriteOf(j)

(* The types of the queue and of the writes, as the proofs below use them. *)
LEMMA SendingTypes ==
  ASSUME TypeOK
  PROVE  /\ sending \in Seq(Entries) /\ writes \in Seq(Seq(Contexts))
         /\ Len(sending) \in Nat /\ DOMAIN sending = 1..Len(sending)
         /\ Len(writes) \in Nat /\ DOMAIN writes = 1..Len(writes)
         /\ \A i \in DOMAIN sending :
              /\ sending[i] \in Entries
              /\ sending[i].ctx \in Contexts \cup {Dummy}
              /\ sending[i].last = TRUE \/ sending[i].last = FALSE
              /\ sending[i].last \in BOOLEAN
         /\ \A n \in DOMAIN writes : writes[n] \in Seq(Contexts)
<1>1. sending \in Seq(Entries) /\ writes \in Seq(Seq(Contexts))
  BY DEF TypeOK
<1>2. \A i \in DOMAIN sending : sending[i] \in Entries
  BY <1>1, SMTT(30)
<1>3. \A i \in DOMAIN sending :
              /\ sending[i].ctx \in Contexts \cup {Dummy}
              /\ sending[i].last \in BOOLEAN
  BY <1>2 DEF Entries
<1>4. \A n \in DOMAIN writes : writes[n] \in Seq(Contexts)
  BY <1>1, SMTT(30)
<1>5. \A i \in DOMAIN sending : sending[i].last
        = TRUE \/ sending[i].last = FALSE
  BY <1>3
<1>6. /\ Len(sending) \in Nat /\ DOMAIN sending = 1..Len(sending)
      /\ Len(writes) \in Nat /\ DOMAIN writes = 1..Len(writes)
  BY <1>1, SMTT(30)
<1> QED  BY <1>1, <1>2, <1>3, <1>4, <1>5, <1>6

(* Every entry has a write.                                                *)
LEMMA HasWrite ==
  ASSUME TypeOK, Marks, NEW i \in DOMAIN sending
  PROVE  /\ EndsBefore(sending, i) \in Nat
         /\ EndsBefore(sending, i) + 1 \in 1..Len(writes)
         /\ Len(writes) \in Nat /\ DOMAIN writes = 1..Len(writes)
<1> DEFINE m == Len(sending)
<1>1. /\ m \in Nat /\ DOMAIN sending = 1..m /\ Len(writes) \in Nat
      /\ DOMAIN writes = 1..Len(writes)
  BY SendingTypes
<1>2. i \in Nat \ {0} /\ m \in Nat \ {0} /\ i <= m /\ sending # <<>>
  BY <1>1, SMTT(30)
<1>3. sending[m].last = TRUE /\ EndsBefore(sending, m + 1) = Len(writes)
  BY <1>2 DEF Marks
<1> HIDE DEF m
<1>4. /\ EndsBefore(sending, i) \in Nat /\ EndsBefore(sending, m) \in Nat
      /\ EndsBefore(sending, i) <= EndsBefore(sending, m)
  BY <1>2, EndsGrow
<1>5. EndsBefore(sending, m + 1) = EndsBefore(sending, m) + 1
  BY <1>2, <1>3, EndsCount
<1> QED  BY <1>1, <1>3, <1>4, <1>5, SMTT(30)

(* markNextSendingBatchAsSent() takes the first batch off the queue when   *)
(* the socket has ended the first write, and the other batches move up     *)
(* with their writes.                                                      *)
LEMMA MarkFollows ==
  ASSUME TypeOK, Marks, MarkNextSendingBatchAsSent, writes # <<>>,
         writes' = Tail(writes)
  PROVE  Marks' /\ Follows
<1> DEFINE n == Cardinality(NextBatch)
           m == Len(sending)
           w == Len(writes)
<1>0. /\ sending \in Seq(Entries) /\ m \in Nat /\ DOMAIN sending = 1..m
      /\ w \in Nat /\ w # 0
      /\ \A i \in 1..m : /\ sending[i].last = TRUE \/ sending[i].last = FALSE
                         /\ sending[i].last \in BOOLEAN
      /\ writes \in Seq(Seq(Contexts))
  <2>1. w \in Nat /\ w # 0
    BY SendingTypes, SMTT(30)
  <2> QED  BY <2>1, SendingTypes
<1>1. /\ EndsBefore(sending, m + 1) = w
      /\ m > 0 => sending[m].last = TRUE
  BY <1>0, SMTT(30) DEF Marks
<1>2. /\ n \in 0..m /\ NextBatch = 1..n
      /\ n < m => n > 0 /\ sending[n].last = TRUE
  BY <1>0, FirstEnd DEF NextBatch
<1>3. /\ sending' \in Seq(Entries) /\ DOMAIN sending' = 1..(m - n)
      /\ Len(sending') = m - n
      /\ \A k \in 1..(m - n) : sending'[k] = sending[n + k]
  <2>1. sending' = SubSeq(sending, n + 1, m)
    BY DEF MarkNextSendingBatchAsSent, n
  <2> HIDE DEF m, n
  <2> QED  BY <1>0, <1>2, <2>1, SMTT(30)
<1>4. /\ writes' \in Seq(Seq(Contexts)) /\ Len(writes') = w - 1
      /\ \A k \in 1..(w - 1) : writes'[k] = writes[k + 1]
  BY <1>0, SMTT(30)
<1> HIDE DEF n, m, w
<1>5. m # 0
  <2>1. EndsBefore(sending, 1) = 0
    BY NoneBefore
  <2> QED  BY <1>0, <1>1, <2>1, SMTT(30)
<1>6. n \in Nat \ {0} /\ n \in 1..n /\ n \in 1..m /\ sending[n].last = TRUE
  BY <1>0, <1>1, <1>2, <1>5, SMTT(30)
<1>7. EndsBefore(sending, n + 1) = 1
  <2>1. EndsBefore(sending, n) = 0
    <3>1. n \in NextBatch
      BY <1>2, <1>6
    <3> QED  BY <3>1 DEF NextBatch
  <2>2. EndsBefore(sending, n + 1) = EndsBefore(sending, n) + 1
    BY <1>6, EndsCount
  <2> QED  BY <2>1, <2>2, SMTT(30)
<1>8. ASSUME NEW i \in 1..((m - n) + 1)
      PROVE  /\ EndsBefore(sending', i) = EndsBefore(sending, n + i) - 1
             /\ EndsBefore(sending', i) \in Nat
  <2> DEFINE p == sending'
             z == 0
  <2>1. \A k \in 1..(m - n) : /\ p[z + k].last \in BOOLEAN
                              /\ p[z + k].last = sending[n + k].last
    <3> SUFFICES ASSUME NEW k \in 1..(m - n)
                 PROVE  /\ p[z + k].last \in BOOLEAN
                        /\ p[z + k].last = sending[n + k].last
      OBVIOUS
    <3>1. z + k = k /\ n + k \in 1..m
      BY <1>0, <1>2, SMTT(30)
    <3>2. p[z + k] = sending[n + k]
      BY <1>3, <3>1
    <3> QED  BY <1>0, <3>1, <3>2
  <2>2. m - n \in Nat /\ z \in Nat /\ n \in Nat
    BY <1>0, <1>2, SMTT(30)
  <2>4. z + i = i /\ z + 1 = 1 /\ i \in Nat \ {0} /\ n + i \in Nat \ {0}
    BY <2>2, SMTT(30)
  <2> DEFINE d == m - n
  <2>7. Alike(p, z, sending, n, d) /\ d \in Nat /\ i \in 1..(d + 1)
    BY <2>1, <2>2 DEF Alike
  <2> HIDE DEF p, z, d
  <2>3. Even(p, z, sending, n, i)
    BY <2>2, <2>7, SameMarks
  <2>5. /\ EndsBefore(p, 1) = 0 /\ EndsBefore(p, i) \in Nat
        /\ EndsBefore(sending, n + i) \in Nat
    BY <2>4, EndsCount
  <2>6. EndsBefore(p, i) - EndsBefore(p, 1)
          = EndsBefore(sending, n + i) - EndsBefore(sending, n + 1)
    BY <2>3, <2>4 DEF Even
  <2> QED  BY <1>7, <2>5, <2>6, SMTT(30) DEF p
<1>9. Marks'
  <2>1. EndsBefore(sending', Len(sending') + 1) = Len(writes')
    <3>1. (m - n) + 1 \in 1..((m - n) + 1) /\ n + ((m - n) + 1) = m + 1
      BY <1>0, <1>2, SMTT(30)
    <3> QED  BY <1>1, <1>3, <1>4, <1>8, <3>1
  <2>2. ASSUME sending' # <<>>  PROVE sending'[Len(sending')].last = TRUE
    <3>1. m - n \in 1..(m - n) /\ n + (m - n) = m
      BY <1>0, <1>2, <1>3, <2>2, SMTT(30)
    <3>2. sending'[m - n] = sending[m]
      BY <1>3, <3>1
    <3> QED  BY <1>0, <1>1, <1>3, <1>5, <3>2, SMTT(30)
  <2> QED  BY <2>1, <2>2 DEF Marks
<1>10. Follows
  <2> SUFFICES ASSUME NEW i \in DOMAIN sending'
               PROVE  \E j \in DOMAIN sending :
                        /\ sending'[i] = sending[j]
                        /\ writes'[EndsBefore(sending', i) + 1]
                             = writes[EndsBefore(sending, j) + 1]
    BY DEF Follows, WriteOf
  <2>1. /\ i \in 1..(m - n) /\ n + i \in 1..m /\ n + i \in DOMAIN sending
        /\ i \in 1..((m - n) + 1)
    BY <1>0, <1>2, <1>3, SMTT(30)
  <2>2. /\ EndsBefore(sending', i) = EndsBefore(sending, n + i) - 1
        /\ EndsBefore(sending', i) \in Nat
    BY <1>8, <2>1
  <2>3. /\ EndsBefore(sending, n + i) \in Nat
        /\ EndsBefore(sending, n + i) + 1 \in 1..w
    BY <2>1, HasWrite DEF w
  <2>4. /\ EndsBefore(sending', i) + 1 \in 1..(w - 1)
        /\ (EndsBefore(sending', i) + 1) + 1 = EndsBefore(sending, n + i) + 1
    BY <1>0, <2>2, <2>3, SMTT(30)
  <2>5. writes'[EndsBefore(sending', i) + 1]
          = writes[EndsBefore(sending, n + i) + 1]
    BY <1>4, <2>4
  <2> QED  BY <1>3, <2>1, <2>5
<1> QED  BY <1>9, <1>10

(* Two queues with the same marks up to a place have the same counts up to *)
(* it.                                                                     *)
LEMMA SamePrefix ==
  ASSUME NEW p, NEW q, NEW m \in Nat,
         \A k \in 1..m : p[k].last \in BOOLEAN /\ p[k].last = q[k].last
  PROVE  \A i \in 1..(m + 1) : /\ EndsBefore(p, i) = EndsBefore(q, i)
                               /\ EndsBefore(p, i) \in Nat
<1> DEFINE z == 0
<1>1. \A k \in Nat : z + k = k
  BY SMTT(30)
<1>2. Alike(p, z, q, z, m) /\ z \in Nat
  BY SMTT(30) DEF Alike
<1> HIDE DEF z
<1>3. \A i \in 1..(m + 1) : Even(p, z, q, z, i)
  BY <1>2, SameMarks
<1> SUFFICES ASSUME NEW i \in 1..(m + 1)
             PROVE  /\ EndsBefore(p, i) = EndsBefore(q, i)
                    /\ EndsBefore(p, i) \in Nat
  OBVIOUS
<1>4. i \in Nat \ {0} /\ z + i = i /\ z + 1 = 1 /\ 1 \in Nat \ {0}
  BY <1>1, SMTT(30)
<1>5. EndsBefore(p, i) - EndsBefore(p, 1) = EndsBefore(q, i) - EndsBefore(q, 1)
  BY <1>3, <1>4 DEF Even
<1>6. /\ EndsBefore(p, 1) = 0 /\ EndsBefore(q, 1) = 0
      /\ EndsBefore(p, i) \in Nat /\ EndsBefore(q, i) \in Nat
  BY <1>4, EndsCount
<1> QED  BY <1>5, <1>6, SMTT(30)

(* removeFromWriteSendingQueue() leaves every other entry with its write,  *)
(* because a dummy keeps the mark at the end of a batch.                   *)
LEMMA RemoveFollows ==
  ASSUME IInv, Marks, NEW r \in Contexts, state[r] = "WRITE_SENDING",
         sending' = RemoveFromWriteSendingQueue(r), writes' = writes
  PROVE  Marks' /\ Follows
<1> DEFINE m == Len(sending)
           p == PlaceOf(r)
<1>0. /\ sending \in Seq(Entries) /\ m \in Nat /\ DOMAIN sending = 1..m
      /\ \A i \in 1..m : /\ sending[i] \in Entries
                         /\ sending[i].last = TRUE \/ sending[i].last = FALSE
                         /\ sending[i].last \in BOOLEAN
      /\ TypeOK /\ InSending
  BY SendingTypes DEF IInv
<1>1. /\ EndsBefore(sending, m + 1) = Len(writes)
      /\ m > 0 => sending[m].last = TRUE
  BY <1>0, SMTT(30) DEF Marks
<1>2. p \in 1..m
  <2>1. \E i \in DOMAIN sending : sending[i].ctx = r
    BY <1>0 DEF InSending
  <2> QED  BY <1>0, <2>1 DEF PlaceOf
<1>3. CASE sending[p].last
  <2>1. sending' = [sending EXCEPT ![p].ctx = Dummy]
    BY <1>3 DEF RemoveFromWriteSendingQueue
  <2> HIDE DEF m, p
  <2>2. /\ DOMAIN sending' = 1..m
        /\ \A i \in 1..m : i # p => sending'[i] = sending[i]
        /\ sending'[p].ctx = Dummy /\ sending'[p].last = sending[p].last
    BY <1>0, <1>2, <2>1 DEF Entries
  <2>3. Len(sending') = m
    BY <1>0, <2>1, SMTT(30) DEF m
  <2> DEFINE q == sending'
  <2>4. \A k \in 1..m : q[k].last \in BOOLEAN /\ q[k].last = sending[k].last
    BY <1>0, <1>2, <2>2
  <2> HIDE DEF q
  <2>5. \A i \in 1..(m + 1) : EndsBefore(q, i) = EndsBefore(sending, i)
    BY <1>0, <2>4, SamePrefix
  <2>6. Marks'
    <3>1. m + 1 \in 1..(m + 1)
      BY <1>0, SMTT(30)
    <3>2. EndsBefore(sending', Len(sending') + 1) = Len(writes')
      BY <1>1, <2>3, <2>5, <3>1 DEF q
    <3>3. m \in 1..m
      BY <1>0, <1>2, SMTT(30)
    <3>4. sending'[m].last = sending[m].last
      BY <2>4, <3>3 DEF q
    <3>5. sending'[Len(sending')].last = TRUE
      BY <1>0, <1>1, <2>3, <3>3, <3>4, SMTT(30)
    <3> QED  BY <3>2, <3>5 DEF Marks
  <2>7. Follows
    <3> SUFFICES ASSUME NEW i \in DOMAIN sending', sending'[i].ctx # Dummy
                 PROVE  \E j \in DOMAIN sending :
                          /\ sending'[i] = sending[j]
                          /\ writes'[EndsBefore(sending', i) + 1]
                               = writes[EndsBefore(sending, j) + 1]
      BY DEF Follows, WriteOf
    <3>1. i \in 1..m /\ i \in 1..(m + 1) /\ i # p
      BY <1>0, <2>2, SMTT(30)
    <3>2. EndsBefore(sending', i) = EndsBefore(sending, i)
      BY <2>5, <3>1 DEF q
    <3> QED  BY <1>0, <2>2, <3>1, <3>2
  <2> QED  BY <2>6, <2>7
<1>4. CASE ~sending[p].last
  <2> DEFINE up(j) == IF j < p THEN j ELSE j + 1
             q == sending'
  <2>1. q = [j \in 1..(m - 1) |-> sending[up(j)]]
    BY <1>4 DEF RemoveFromWriteSendingQueue, Without
  <2> HIDE DEF m, p
  <2>2. /\ p < m /\ sending[p].last = FALSE /\ m > 0 /\ sending[m].last = TRUE
    BY <1>0, <1>1, <1>2, <1>4, SMTT(30)
  <2> HIDE DEF q
  <2>3. /\ DOMAIN q = 1..(m - 1) /\ Len(q) = m - 1
        /\ \A j \in 1..(m - 1) : q[j] = sending[up(j)]
    <3>1. m - 1 \in Nat
      BY <1>0, <2>2, SMTT(30)
    <3> QED  BY <2>1, <3>1, SMTT(30)
  <2>4. /\ \A j \in 1..(p - 1) : q[j] = sending[j] /\ j \in 1..m
        /\ \A k \in 1..(m - p) : /\ q[(p - 1) + k] = sending[p + k]
                                 /\ p + k \in 1..m
    <3>1. ASSUME NEW j \in 1..(p - 1)  PROVE q[j] = sending[j] /\ j \in 1..m
      <4>1. j \in 1..(m - 1) /\ up(j) = j /\ j \in 1..m
        BY <1>0, <1>2, SMTT(30)
      <4> QED  BY <2>3, <4>1
    <3>2. ASSUME NEW k \in 1..(m - p)
          PROVE  q[(p - 1) + k] = sending[p + k] /\ p + k \in 1..m
      <4>1. /\ (p - 1) + k \in 1..(m - 1) /\ up((p - 1) + k) = p + k
            /\ p + k \in 1..m
        BY <1>0, <1>2, SMTT(30)
      <4> HIDE DEF up
      <4> QED  BY <2>3, <4>1
    <3> QED  BY <3>1, <3>2
  <2>5. \A i \in 1..p : EndsBefore(q, i) = EndsBefore(sending, i)
    <3> DEFINE d == p - 1
    <3>1. d \in Nat /\ d + 1 = p
      BY <1>0, <1>2, SMTT(30)
    <3>2. \A k \in 1..d : q[k].last \in BOOLEAN /\ q[k].last = sending[k].last
      BY <1>0, <2>4
    <3> HIDE DEF d
    <3>3. \A i \in 1..(d + 1) : EndsBefore(q, i) = EndsBefore(sending, i)
      BY <3>1, <3>2, SamePrefix
    <3> QED  BY <3>1, <3>3
  <2>6. EndsBefore(sending, p + 1) = EndsBefore(sending, p)
    <3>1. p \in Nat \ {0}
      BY <1>0, <1>2, SMTT(30)
    <3> QED  BY <2>2, <3>1, EndsCount
  <2>7. ASSUME NEW k \in 1..((m - p) + 1)
        PROVE  EndsBefore(q, (p - 1) + k) = EndsBefore(sending, p + k)
    <3> DEFINE a == p - 1
               d == m - p
    <3>1. a \in Nat /\ d \in Nat /\ p \in Nat /\ a + 1 = p /\ k \in 1..(d + 1)
      BY <1>0, <1>2, SMTT(30)
    <3>2. Alike(q, a, sending, p, d)
      BY <1>0, <2>4 DEF Alike
    <3> HIDE DEF a, d
    <3>3. Even(q, a, sending, p, k)
      BY <3>1, <3>2, SameMarks
    <3>4. /\ a + k \in Nat \ {0} /\ p + k \in Nat \ {0} /\ p \in Nat \ {0}
          /\ p \in 1..p
      BY <1>2, <1>0, <3>1, SMTT(30)
    <3>5. /\ EndsBefore(q, a + k) \in Nat /\ EndsBefore(sending, p + k) \in Nat
          /\ EndsBefore(sending, p) \in Nat
      BY <3>4, EndsCount
    <3>6. EndsBefore(q, p) = EndsBefore(sending, p)
      BY <2>5, <3>4
    <3>7. EndsBefore(q, a + k) - EndsBefore(q, p)
            = EndsBefore(sending, p + k) - EndsBefore(sending, p + 1)
      BY <3>1, <3>3 DEF Even
    <3>8. EndsBefore(q, a + k) = EndsBefore(sending, p + k)
      BY <2>6, <3>5, <3>6, <3>7, SMTT(30)
    <3> QED  BY <3>8 DEF a
  <2>8. Marks'
    <3>1. /\ (m - p) + 1 \in 1..((m - p) + 1)
          /\ (p - 1) + ((m - p) + 1) = (m - 1) + 1
          /\ p + ((m - p) + 1) = m + 1
      BY <1>0, <1>2, SMTT(30)
    <3>2. EndsBefore(q, (m - 1) + 1) = Len(writes)
      BY <1>1, <2>7, <3>1
    <3>3. m - p \in 1..(m - p) /\ (p - 1) + (m - p) = m - 1 /\ p + (m - p) = m
      <4>1. m \in Int /\ p \in Int /\ m - p >= 1
        BY <1>0, <1>2, <2>2, SMTT(30)
      <4> QED  BY <4>1, SMTT(30)
    <3>4. q[m - 1].last = TRUE
      BY <2>2, <2>4, <3>3
    <3> QED  BY <2>3, <3>2, <3>4 DEF Marks, q
  <2>9. ASSUME NEW i \in DOMAIN q
        PROVE  \E j \in DOMAIN sending :
                 q[i] = sending[j] /\ EndsBefore(q, i) = EndsBefore(sending, j)
    <3>0. i \in 1..(m - 1)
      BY <2>3
    <3>1. CASE i < p
      <4>1. i \in 1..(p - 1) /\ i \in 1..p
        BY <1>0, <1>2, <3>0, <3>1, SMTT(30)
      <4> QED  BY <1>0, <2>4, <2>5, <4>1
    <3>2. CASE i >= p
      <4> DEFINE k == i - (p - 1)
      <4>1. /\ k \in 1..(m - p) /\ k \in 1..((m - p) + 1)
            /\ (p - 1) + k = i
        BY <1>0, <1>2, <3>0, <3>2, SMTT(30)
      <4> HIDE DEF k
      <4>2. /\ q[i] = sending[p + k] /\ p + k \in DOMAIN sending
            /\ EndsBefore(q, i) = EndsBefore(sending, p + k)
        BY <1>0, <2>4, <2>7, <4>1
      <4> QED  BY <4>2
    <3> QED  BY <1>0, <1>2, <3>0, <3>1, <3>2, SMTT(30)
  <2>10. Follows
    BY <2>9 DEF Follows, WriteOf, q
  <2> QED  BY <2>8, <2>10
<1> QED  BY <1>3, <1>4

(* So the batches still hold contexts of their writes.                     *)
LEMMA FollowsHeld ==
  ASSUME Held, Follows
  PROVE  Held'
BY SMTT(30) DEF Held, Follows

(* The write loop appends batch b to the queue and its writes w to the     *)
(* socket's.                                                               *)
Appends(b, w) ==
  /\ b \in Seq(Entries)
  /\ b # <<>> => b[Len(b)].last = TRUE
  /\ w \in Seq(Seq(Contexts)) /\ Len(w) = EndsBefore(b, Len(b) + 1)
  /\ \A i \in DOMAIN b : EndsBefore(b, i) + 1 \in DOMAIN w
  /\ sending' = sending \o b /\ writes' = writes \o w

(* Old entries keep their writes and new ones get theirs.                  *)
LEMMA LoopMarks ==
  ASSUME TypeOK, Marks, NEW b, NEW w, Appends(b, w)
  PROVE  /\ Marks'
         /\ \A i \in DOMAIN sending' :
              \/ /\ i \in DOMAIN sending
                 /\ sending'[i] = sending[i] /\ WriteOf(i)' = WriteOf(i)
              \/ \E k \in DOMAIN b :
                   /\ sending'[i] = b[k]
                   /\ WriteOf(i)' = w[EndsBefore(b, k) + 1]
<1> DEFINE m == Len(sending)
           n == Len(b)
           v == Len(writes)
           q == sending'
<1>1. /\ m \in Nat /\ DOMAIN sending = 1..m /\ v \in Nat /\ DOMAIN writes = 1..v
      /\ \A i \in 1..m : sending[i].last \in BOOLEAN
      /\ sending \in Seq(Entries) /\ writes \in Seq(Seq(Contexts))
  BY SendingTypes
<1>2. /\ n \in Nat /\ DOMAIN b = 1..n /\ \A i \in 1..n : b[i].last \in BOOLEAN
  <2>1. b \in Seq(Entries)
    BY DEF Appends
  <2>2. \A i \in DOMAIN b : b[i] \in Entries
    BY <2>1, SMTT(30)
  <2> QED  BY <2>1, <2>2, SMTT(30) DEF Entries
<1>3. /\ Len(q) = m + n /\ DOMAIN q = 1..(m + n)
      /\ \A i \in 1..m : q[i] = sending[i]
      /\ \A i \in (m + 1)..(m + n) : q[i] = b[i - m]
  <2>1. sending \in Seq(Entries) /\ b \in Seq(Entries) /\ q = sending \o b
    BY <1>1 DEF Appends
  <2> HIDE DEF q
  <2> QED  BY <2>1, Concatenation, SMTT(30)
<1>4. /\ Len(writes') = v + Len(w) /\ Len(w) \in Nat /\ DOMAIN w = 1..Len(w)
      /\ \A i \in 1..v : writes'[i] = writes[i]
      /\ \A i \in (v + 1)..(v + Len(w)) : writes'[i] = w[i - v]
  <2> DEFINE S == Seq(Contexts)
             u == writes'
  <2>1. writes \in Seq(S) /\ w \in Seq(S) /\ u = writes \o w
    BY <1>1 DEF Appends
  <2> HIDE DEF S, u
  <2>2. /\ Len(u) = v + Len(w) /\ Len(w) \in Nat /\ DOMAIN w = 1..Len(w)
        /\ \A i \in 1..v : u[i] = writes[i]
        /\ \A i \in (v + 1)..(v + Len(w)) : u[i] = w[i - v]
    BY <2>1, Concatenation
  <2> QED  BY <2>2 DEF u
<1>5. /\ EndsBefore(sending, m + 1) = v
      /\ m > 0 => sending[m].last = TRUE
      /\ Len(w) = EndsBefore(b, n + 1)
      /\ n > 0 => b[n].last = TRUE
  BY <1>1, <1>2, SMTT(30) DEF Marks, Appends
<1> HIDE DEF m, n, v, q
<1>10. m \in Nat /\ n \in Nat /\ v \in Nat /\ Len(w) \in Nat
  BY <1>1, <1>2, <1>4
<1>6. \A i \in 1..(m + 1) : EndsBefore(q, i) = EndsBefore(sending, i)
  <2>1. \A k \in 1..m : q[k].last \in BOOLEAN /\ q[k].last = sending[k].last
    BY <1>1, <1>3
  <2> QED  BY <1>10, <2>1, SamePrefix
<1>7. ASSUME NEW k \in 1..(n + 1)
      PROVE  /\ EndsBefore(q, m + k) = v + EndsBefore(b, k)
             /\ EndsBefore(b, k) \in Nat
  <2> DEFINE z == 0
  <2>1. \A i \in Nat : z + i = i
    BY SMTT(30)
  <2>2. z \in Nat
    OBVIOUS
  <2>3. ASSUME NEW i \in 1..n
        PROVE  q[m + i].last \in BOOLEAN /\ q[m + i].last = b[z + i].last
    <3>1. m + i \in (m + 1)..(m + n) /\ (m + i) - m = i /\ z + i = i
      BY <1>10, SMTT(30)
    <3> QED  BY <1>2, <1>3, <3>1
  <2> HIDE DEF z
  <2>4. Alike(q, m, b, z, n)
    BY <2>3 DEF Alike
  <2>5. Even(q, m, b, z, k)
    BY <1>1, <1>2, <2>2, <2>4, SameMarks
  <2>6. /\ z + k = k /\ z + 1 = 1 /\ k \in Nat \ {0} /\ m + k \in Nat \ {0}
        /\ m + 1 \in 1..(m + 1)
    BY <1>1, <1>2, <2>1, SMTT(30)
  <2>7. /\ EndsBefore(q, m + k) \in Nat /\ EndsBefore(b, k) \in Nat
        /\ EndsBefore(b, 1) = 0
    BY <2>6, EndsCount
  <2>8. EndsBefore(q, m + k) - EndsBefore(q, m + 1)
          = EndsBefore(b, k) - EndsBefore(b, 1)
    BY <2>5, <2>6 DEF Even
  <2>9. EndsBefore(q, m + 1) = v
    BY <1>5, <1>6, <2>6
  <2> QED  BY <1>1, <2>7, <2>8, <2>9, SMTT(30)
<1>8. Marks'
  <2>1. EndsBefore(q, Len(q) + 1) = Len(writes')
    <3>1. n + 1 \in 1..(n + 1) /\ m + (n + 1) = (m + n) + 1
      BY <1>1, <1>2, SMTT(30)
    <3>2. EndsBefore(q, m + (n + 1)) = v + EndsBefore(b, n + 1)
      BY <1>7, <3>1
    <3> QED  BY <1>3, <1>4, <1>5, <3>1, <3>2
  <2>2. ASSUME q # <<>>  PROVE q[Len(q)].last = TRUE
    <3>1. CASE n = 0
      <4>1. Len(q) = m /\ m # 0
        BY <1>3, <1>10, <2>2, <3>1, SMTT(30) DEF q
      <4>2. m \in 1..m /\ m > 0
        BY <1>10, <4>1, SMTT(30)
      <4>3. q[m] = sending[m]
        BY <1>3, <4>2
      <4> QED  BY <1>5, <4>1, <4>2, <4>3
    <3>2. CASE n # 0
      <4>1. /\ m + n \in (m + 1)..(m + n) /\ (m + n) - m = n /\ n > 0
        BY <1>10, <3>2, SMTT(30)
      <4>2. q[m + n] = b[n] /\ Len(q) = m + n
        BY <1>3, <4>1
      <4> QED  BY <1>5, <4>1, <4>2
    <3> QED  BY <3>1, <3>2
  <2> QED  BY <2>1, <2>2 DEF Marks, q
<1>9. ASSUME NEW i \in DOMAIN q
      PROVE  \/ /\ i \in DOMAIN sending /\ q[i] = sending[i]
                /\ writes'[EndsBefore(q, i) + 1]
                     = writes[EndsBefore(sending, i) + 1]
             \/ \E k \in DOMAIN b :
                  /\ q[i] = b[k]
                  /\ writes'[EndsBefore(q, i) + 1] = w[EndsBefore(b, k) + 1]
  <2>1. CASE i \in 1..m
    <3>1. i \in DOMAIN sending /\ i \in 1..(m + 1)
      BY <1>1, <2>1, SMTT(30)
    <3>2. EndsBefore(sending, i) + 1 \in 1..v
      BY <3>1, HasWrite DEF v
    <3> QED  BY <1>3, <1>4, <1>6, <2>1, <3>1, <3>2
  <2>2. CASE i \in (m + 1)..(m + n)
    <3> DEFINE k == i - m
    <3>1. k \in 1..n /\ k \in 1..(n + 1) /\ m + k = i
      BY <1>10, <2>2, SMTT(30)
    <3>6. k \in DOMAIN b
      BY <1>2, <3>1
    <3> HIDE DEF k
    <3>2. /\ EndsBefore(q, i) = v + EndsBefore(b, k) /\ EndsBefore(b, k) \in Nat
          /\ EndsBefore(b, k) + 1 \in 1..Len(w)
      BY <1>4, <1>7, <3>1, <3>6 DEF Appends
    <3>3. /\ EndsBefore(q, i) + 1 \in (v + 1)..(v + Len(w))
          /\ (EndsBefore(q, i) + 1) - v = EndsBefore(b, k) + 1
      BY <1>10, <3>2, SMTT(30)
    <3>4. writes'[EndsBefore(q, i) + 1] = w[EndsBefore(b, k) + 1]
      BY <1>4, <3>3, SMTT(30)
    <3>5. q[i] = b[k]
      BY <1>3, <2>2 DEF k
    <3> QED  BY <3>4, <3>5, <3>6
  <2>3. i \in 1..m \/ i \in (m + 1)..(m + n)
    BY <1>3, <1>10, SMTT(30)
  <2> QED  BY <2>1, <2>2, <2>3
<1> QED  BY <1>8, <1>9 DEF WriteOf, q

(* That is what the write loop does, and its batch holds contexts of the   *)
(* writes it makes.                                                        *)
LEMMA LoopAppends ==
  ASSUME IInv, WriteScheduledRequestsToSocket
  PROVE  LET b == Batch(scheduled)
         IN  /\ Appends(b, WritesOf(b))
             /\ \A k \in DOMAIN b :
                  \E j \in DOMAIN WritesOf(b)[EndsBefore(b, k) + 1] :
                    WritesOf(b)[EndsBefore(b, k) + 1][j] = b[k].ctx
<1> DEFINE b == Batch(scheduled)
<1>1. sending' = sending \o b /\ writes' = writes \o WritesOf(b)
  BY WriteLoopDoes
<1>2. scheduled \in Seq(Contexts)
  BY DEF IInv, TypeOK
<1>3. /\ b \in Seq(Entries) /\ \A i \in DOMAIN b : b[i].ctx \in Contexts
      /\ b # <<>> => b[Len(b)].last = TRUE
  BY <1>2, BatchMade
<1> HIDE DEF b
<1>4. /\ WritesOf(b) \in Seq(Seq(Contexts))
      /\ Len(WritesOf(b)) = EndsBefore(b, Len(b) + 1)
      /\ \A i \in DOMAIN b :
           /\ EndsBefore(b, i) + 1 \in DOMAIN WritesOf(b)
           /\ \E k \in DOMAIN WritesOf(b)[EndsBefore(b, i) + 1] :
                WritesOf(b)[EndsBefore(b, i) + 1][k] = b[i].ctx
  BY <1>3, WritesMade
<1>5. Appends(b, WritesOf(b))
  BY <1>1, <1>3, <1>4 DEF Appends
<1> QED  BY <1>4, <1>5 DEF b

(* The write loop keeps the batches with their writes.                     *)
LEMMA LoopHeld ==
  ASSUME IInv, Marks, Held, WriteScheduledRequestsToSocket
  PROVE  Marks' /\ Held'
<1> DEFINE b == Batch(scheduled)
           w == WritesOf(b)
<1>1. /\ Appends(b, w)
      /\ \A k \in DOMAIN b : \E j \in DOMAIN w[EndsBefore(b, k) + 1] :
           w[EndsBefore(b, k) + 1][j] = b[k].ctx
  BY LoopAppends
<1> HIDE DEF b, w
<1>2. TypeOK
  BY DEF IInv
<1>3. /\ Marks'
      /\ \A i \in DOMAIN sending' :
           \/ /\ i \in DOMAIN sending
              /\ sending'[i] = sending[i] /\ WriteOf(i)' = WriteOf(i)
           \/ \E k \in DOMAIN b :
                /\ sending'[i] = b[k]
                /\ WriteOf(i)' = w[EndsBefore(b, k) + 1]
  BY <1>1, <1>2, LoopMarks
<1>4. Held'
  <2> SUFFICES ASSUME NEW i \in DOMAIN sending', sending'[i].ctx # Dummy
               PROVE  \E k \in DOMAIN WriteOf(i)' :
                        WriteOf(i)'[k] = sending'[i].ctx
    BY DEF Held
  <2>1. CASE /\ i \in DOMAIN sending
             /\ sending'[i] = sending[i] /\ WriteOf(i)' = WriteOf(i)
    BY <2>1 DEF Held
  <2>2. ASSUME NEW k \in DOMAIN b, sending'[i] = b[k],
               WriteOf(i)' = w[EndsBefore(b, k) + 1]
        PROVE  \E j \in DOMAIN WriteOf(i)' : WriteOf(i)'[j] = sending'[i].ctx
    BY <1>1, <2>2
  <2> QED  BY <1>3, <2>1, <2>2
<1> QED  BY <1>3, <1>4

(* A client with nothing to send, before a step.                           *)
LEMMA HeldStart ==
  ASSUME sending = <<>>, writes = <<>>
  PROVE  Marks /\ Held
<1>1. Len(sending) = 0 /\ Len(writes) = 0 /\ DOMAIN sending = {}
  BY SMTT(30)
<1>2. EndsBefore(sending, 1) = 0
  BY NoneBefore
<1>3. Len(sending) + 1 = 1
  BY <1>1, SMTT(30)
<1> QED  BY <1>1, <1>2, <1>3 DEF Marks, Held

(* A client with nothing to send, after a step.                            *)
LEMMA HeldClosed ==
  ASSUME sending' = <<>>, writes' = <<>>
  PROVE  Marks' /\ Held'
<1> DEFINE q == sending'
<1>1. Len(sending') = 0 /\ Len(writes') = 0 /\ DOMAIN sending' = {}
  BY SMTT(30)
<1>2. EndsBefore(q, 1) = 0
  <2> HIDE DEF q
  <2> QED  BY NoneBefore
<1>3. Len(sending') + 1 = 1
  BY <1>1, SMTT(30)
<1> QED  BY <1>1, <1>2, <1>3 DEF Marks, Held

(* The actions that leave the queue and the socket alone.                  *)
LEMMA QuietSteps ==
  ASSUME \/ \E r \in Requests : Send(r)
         \/ \E s \in Streams : SendRequestN(s) \/ Cancel(s)
         \/ \E s \in Streams : FirstResponse(s) \/ FirstError(s)
                                 \/ StreamEnd(s) \/ FirstResponseTimeout(s)
         \/ HandleConnectionClose \/ ConnectionError
  PROVE  UNCHANGED <<sending, socket>>
BY DEF Send, SendRequestN, Cancel, FirstResponse, FirstError, StreamEnd,
       FirstResponseTimeout, StreamFrame, HandleConnectionClose,
       ConnectionError

(* What the actions that take an entry off the queue do to it.             *)
LEMMA TakeSteps ==
  ASSUME IInv, Marks,
         \/ SocketWriteSuccess \/ SocketWriteErr
         \/ \E r \in RR : Respond(r) \/ TimeoutExpired(r)
  PROVE  \/ UNCHANGED <<sending, writes>>
         \/ Marks' /\ Follows
<1>0. TypeOK /\ Reachable
  BY DEF IInv
<1>1. CASE SocketWriteSuccess
  <2>1. /\ MarkNextSendingBatchAsSent /\ writes # <<>> /\ writes' = Tail(writes)
    BY <1>1 DEF SocketWriteSuccess
  <2> QED  BY <1>0, <2>1, MarkFollows
<1>2. CASE SocketWriteErr
  <2>1. /\ MarkNextSendingBatchAsSent /\ writes # <<>> /\ writes' = Tail(writes)
    BY <1>2 DEF SocketWriteErr
  <2> QED  BY <1>0, <2>1, MarkFollows
<1>3. ASSUME NEW r \in RR, Respond(r) \/ TimeoutExpired(r)
      PROVE  \/ UNCHANGED <<sending, writes>>
             \/ Marks' /\ Follows
  <2>1. /\ writes' = writes
        /\ \/ sending' = sending
           \/ /\ state[r] = "WRITE_SENDING"
              /\ sending' = RemoveFromWriteSendingQueue(r)
    BY <1>3 DEF Respond, TimeoutExpired, MarkAsResponded, socket
  <2>2. r \in Contexts
    BY Kinds
  <2> QED  BY <2>1, <2>2, RemoveFollows
<1> QED  BY <1>1, <1>2, <1>3

(* Every step keeps the batches with their writes.                         *)
LEMMA HeldStep ==
  ASSUME IInv, Marks, Held, [Next]_vars
  PROVE  Marks' /\ Held'
<1>0. ASSUME UNCHANGED <<sending, writes>>  PROVE Marks' /\ Held'
  BY <1>0 DEF Marks, Held, WriteOf
<1>1. CASE WriteScheduledRequestsToSocket
  BY <1>1, LoopHeld
<1>2. CASE Transmit
  BY <1>0, <1>2 DEF Transmit
<1>3. CASE SocketWriteSuccess \/ SocketWriteErr
             \/ \E r \in RR : Respond(r) \/ TimeoutExpired(r)
  BY <1>0, <1>3, TakeSteps, FollowsHeld
<1>4. CASE CloseLoop \/ CloseNow
  BY <1>4, HeldClosed DEF CloseLoop, CloseNow, CloseNowImpl
<1>5. CASE UNCHANGED vars
  BY <1>0, <1>5 DEF vars, socket
<1>6. CASE \/ \E r \in Requests : Send(r)
           \/ \E s \in Streams : SendRequestN(s) \/ Cancel(s)
           \/ \E s \in Streams : FirstResponse(s) \/ FirstError(s)
                                   \/ StreamEnd(s) \/ FirstResponseTimeout(s)
           \/ HandleConnectionClose \/ ConnectionError
  BY <1>0, <1>6, QuietSteps DEF socket
<1> QED  BY <1>1, <1>2, <1>3, <1>4, <1>5, <1>6 DEF Next

(* A sequence without repetitions has a value once if it has it.           *)
LEMMA OnceIff ==
  ASSUME NEW q, NEW m \in Nat, DOMAIN q = 1..m, NEW x,
         \A i, j \in 1..m : q[i] = x /\ q[j] = x => i = j
  PROVE  Once(q, x) <=> \E i \in 1..m : q[i] = x
<1> DEFINE P == {i \in DOMAIN q : q[i] = x}
<1>1. ASSUME NEW i \in 1..m, q[i] = x  PROVE Cardinality(P) = 1
  <2>1. P = {i}
    BY <1>1
  <2> HIDE DEF P
  <2> QED  BY <2>1, FS_Singleton
<1>2. ASSUME ~ \E i \in 1..m : q[i] = x  PROVE Cardinality(P) = 0
  <2>1. P = {}
    BY <1>2
  <2> HIDE DEF P
  <2> QED  BY <2>1, FS_EmptySet
<1> QED  BY <1>1, <1>2, SMTT(30) DEF Once

(* The DCHECKs and CHECKs of RequestContextQueue: a context is in the      *)
(* queue of its state and in no other, writeSendingQueue_ has one end of   *)
(* batch for every write the socket has not ended, and the n-th batch      *)
(* holds contexts of the n-th write, so a write callback never meets an    *)
(* empty queue or a missing marker, and never ends a request of another    *)
(* write.                                                                  *)
THEOREM ClientQueuesAgree == Spec => []QueuesAgree
<1>1. Init => IInv /\ Marks /\ Held
  BY Start, HeldStart DEF Init
<1>2. (IInv /\ Marks /\ Held) /\ [Next]_vars => (IInv /\ Marks /\ Held)'
  BY Step, HeldStep
<1>3. ASSUME IInv, Marks, Held  PROVE QueuesAgree
  <2> DEFINE queued == [i \in DOMAIN sending |-> sending[i].ctx]
             m == Len(sending)
             n == Len(scheduled)
  <2>0. TypeOK /\ InScheduled /\ InSending /\ Reachable
    BY <1>3 DEF IInv
  <2>1. /\ m \in Nat /\ DOMAIN sending = 1..m /\ n \in Nat
        /\ DOMAIN scheduled = 1..n
    BY <2>0, SMTT(30) DEF TypeOK
  <2>2. DOMAIN queued = 1..m /\ \A i \in 1..m : queued[i] = sending[i].ctx
    BY <2>1
  <2> HIDE DEF queued, m, n
  <2>3. ASSUME NEW x \in Contexts
        PROVE  /\ (state[x] = "WRITE_SCHEDULED") <=> Once(scheduled, x)
               /\ (state[x] = "WRITE_SENDING") <=> Once(queued, x)
               /\ x \in timers => state[x] \in {"WRITE_SENDING", "WRITE_SENT"}
    <3>1. Once(scheduled, x) <=> \E i \in 1..n : scheduled[i] = x
      <4>1. \A i, j \in 1..n : scheduled[i] = x /\ scheduled[j] = x => i = j
        BY <2>0, <2>1 DEF InScheduled
      <4> QED  BY <2>1, <4>1, OnceIff
    <3>2. Once(queued, x) <=> \E i \in 1..m : queued[i] = x
      <4>1. \A i, j \in 1..m : queued[i] = x /\ queued[j] = x => i = j
        BY <2>0, <2>1, <2>2, Kinds, SMTT(30) DEF InSending
      <4> QED  BY <2>1, <2>2, <4>1, OnceIff
    <3>3. /\ (state[x] = "WRITE_SCHEDULED") <=> \E i \in 1..n : scheduled[i] = x
          /\ (state[x] = "WRITE_SENDING") <=> \E i \in 1..m : queued[i] = x
      BY <2>0, <2>1, <2>2, SMTT(30) DEF InScheduled, InSending
    <3>4. x \in timers => state[x] \in {"WRITE_SENDING", "WRITE_SENT"}
      BY <2>0 DEF Reachable
    <3> QED  BY <3>1, <3>2, <3>3, <3>4
  <2>4. tracked = {r \in RR : state[r] \notin {"NEW", "COMPLETE"}}
    BY <2>0 DEF Reachable, TypeOK
  <2>5. scheduled # <<>> => writeLoop /\ conn = "CONNECTED"
    BY <2>0 DEF InScheduled
  <2>6. /\ EndsBefore(sending, Len(sending) + 1) = Len(writes)
        /\ sending # <<>> => sending[Len(sending)].last
    BY <1>3 DEF Marks
  <2>7. ASSUME NEW i \in DOMAIN sending
        PROVE  \/ queued[i] = Dummy
               \/ queued[i] \in ToSet(writes[EndsBefore(sending, i) + 1])
    BY <1>3, <2>1, <2>2 DEF Held, WriteOf, ToSet
  <2> QED  BY <2>0, <2>3, <2>4, <2>5, <2>6, <2>7 DEF QueuesAgree, queued
<1> QED  BY <1>1, <1>2, <1>3, PTL DEF Spec

(* With no file descriptors a batch is one write, and the offset of an     *)
(* entry is its place in it.                                               *)
Placed ==
  \A i \in DOMAIN sending : sending[i].ctx # Dummy =>
    /\ sending[i].end \in DOMAIN WriteOf(i)
    /\ WriteOf(i)[sending[i].end] = sending[i].ctx

(* The socket has a context at most once.                                  *)
Distinct ==
  \A n, m \in DOMAIN writes :
    \A j \in DOMAIN writes[n], k \in DOMAIN writes[m] :
      writes[n][j] = writes[m][k] => n = m /\ j = k

(* Of the writes that have not ended, the first done contexts are on the   *)
(* wire.                                                                   *)
Unwritten ==
  \A n \in DOMAIN writes : \A j \in DOMAIN writes[n] :
    writes[n][j] \in wire => n = 1 /\ j <= done

(* A context that is not on the wire and that the socket does not have.    *)
Unsent(r) ==
  /\ r \notin wire
  /\ \A n \in DOMAIN writes : \A j \in DOMAIN writes[n] : writes[n][j] # r

(* A request reported as unsent has ended and the socket does not have it; *)
(* a oneway request reported as written is on the wire.                    *)
Reports ==
  \A r \in Requests : \A i \in DOMAIN calls[r] :
    /\ calls[r][i] = "NOT_OPEN" => state[r] = "COMPLETE" /\ Unsent(r)
    /\ calls[r][i] = "ok" => r \in wire

(* Where the contexts of writeSendingQueue_ are in the socket.             *)
SInv == Placed /\ Distinct /\ Unwritten

(* A callback tells the truth if what it hands to Finish is true.          *)
LEMMA FinishReports ==
  ASSUME TypeOK, InScheduled, OnWire, Reports,
         NEW c, NEW result, NEW sent, NEW close, NEW told, NEW freed,
         Finish(c, result, sent, close, told, freed),
         \A x \in sent : state[x] # "COMPLETE",
         \A s \in DOMAIN told : /\ told[s] \notin {"NOT_OPEN", "ok"}
                                /\ s \in Streams,
         \A r \in DOMAIN result : r \in Requests =>
           /\ result[r] = "NOT_OPEN" => Unsent(r)'
           /\ result[r] = "ok" => r \in wire',
         \A r \in Requests : /\ Unsent(r) => Unsent(r)'
                             /\ r \in wire => r \in wire'
  PROVE  Reports'
<1> DEFINE refused == InitialErrors(Failed(result)) \cup Failed(told)
           closes == Closes(c, close, Failed(result), refused, DOMAIN result,
                            streams \ (freed \cup refused))
           drop == FailAllScheduledWrites(closes) \ DOMAIN result
<1>0. Settle(c, closes, result, drop, sent, told,
             refused \cup InitialErrors(drop), freed)
  BY DEF Finish
<1>1. drop \subseteq ToSet(scheduled)
  BY DEF FailAllScheduledWrites
<1> HIDE DEF refused, closes, drop
<1> DEFINE ended == DOMAIN result \cup drop
           initial == refused \cup InitialErrors(drop)
           cancels == IF c = "CONNECTED" /\ ~closes
                        THEN {<<"CANCEL", s>> : s \in initial} ELSE {}
           answered == (ended \cap (RR \cup FNF)) \cup
                       InitialErrors(Failed(result) \cup drop)
<1>2. /\ state' = [x \in Contexts |->
                     IF x \in cancels    THEN "WRITE_SCHEDULED"
                     ELSE IF x \in ended THEN "COMPLETE"
                     ELSE IF x \in sent  THEN "WRITE_SENT"
                     ELSE state[x]]
      /\ calls' = [r \in Requests |->
                     IF r \in answered
                       THEN Append(calls[r], IF r \in drop THEN "NOT_OPEN"
                                                           ELSE result[r])
                     ELSE IF r \in DOMAIN told
                       THEN Append(calls[r], told[r])
                     ELSE calls[r]]
  BY <1>0 DEF Settle
<1>3. \A x \in drop : state[x] = "WRITE_SCHEDULED" /\ x \in Contexts
  BY <1>1, SMTT(30) DEF TypeOK, InScheduled, ToSet
<1>4. \A r \in drop : Unsent(r)
  BY <1>3 DEF OnWire, Unsent
<1>5. \A r \in answered : r \in DOMAIN result \/ r \in drop
  BY DEF InitialErrors, Failed
<1>6. \A r \in Requests : r \in Contexts /\ r \notin cancels
  <2> SUFFICES ASSUME NEW r \in Requests, r \in cancels  PROVE FALSE
    BY Kinds
  <2>1. PICK s : r = <<"CANCEL", s>> /\ s \in initial
    OBVIOUS
  <2>2. s \in Streams
    <3>1. initial \subseteq first \cup Failed(told)
      BY DEF refused, InitialErrors
    <3> QED  BY <2>1, <3>1 DEF Failed, TypeOK
  <2> QED  BY <2>1, <2>2, Kinds
<1> HIDE DEF cancels, ended, answered
<1>7. \A r \in Requests : state[r] = "COMPLETE" \/ r \in ended
                            => state'[r] = "COMPLETE"
  BY <1>2, <1>6
<1>8. \A r \in answered : r \in ended
  BY <1>5 DEF ended
<1>9. ASSUME NEW r \in Requests, NEW i \in DOMAIN calls'[r]
      PROVE  \/ i \in DOMAIN calls[r] /\ calls'[r][i] = calls[r][i]
             \/ r \in drop /\ calls'[r][i] = "NOT_OPEN" /\ r \in ended
             \/ r \in DOMAIN result /\ calls'[r][i] = result[r] /\ r \in ended
             \/ r \in DOMAIN told /\ calls'[r][i] = told[r]
  <2> DEFINE q == calls[r]
  <2>1. q \in Seq(Outcomes)
    BY DEF TypeOK
  <2>2. \/ calls'[r] = q
        \/ r \in drop /\ calls'[r] = Append(q, "NOT_OPEN") /\ r \in ended
        \/ r \in DOMAIN result /\ calls'[r] = Append(q, result[r]) /\ r \in ended
        \/ r \in DOMAIN told /\ calls'[r] = Append(q, told[r])
    BY <1>2, <1>5, <1>8
  <2>3. \A v : calls'[r] = Append(q, v) =>
          \/ i \in DOMAIN q /\ calls'[r][i] = q[i]
          \/ calls'[r][i] = v
    <3> SUFFICES ASSUME NEW v, calls'[r] = Append(q, v)
                 PROVE  \/ i \in DOMAIN q /\ calls'[r][i] = q[i]
                        \/ calls'[r][i] = v
      OBVIOUS
    <3> HIDE DEF q
    <3>1. i \in 1..(Len(q) + 1) /\ DOMAIN q = 1..Len(q) /\ Len(q) \in Nat
      BY <2>1, SMTT(30)
    <3> QED  BY <2>1, <3>1, SMTT(30)
  <2> QED  BY <2>2, <2>3
<1>10. ASSUME NEW r \in Requests, NEW i \in DOMAIN calls'[r]
       PROVE  /\ calls'[r][i] = "NOT_OPEN"
                   => state'[r] = "COMPLETE" /\ Unsent(r)'
              /\ calls'[r][i] = "ok" => r \in wire'
  <2>1. CASE i \in DOMAIN calls[r] /\ calls'[r][i] = calls[r][i]
    BY <1>7, <2>1 DEF Reports
  <2>2. CASE r \in drop /\ calls'[r][i] = "NOT_OPEN" /\ r \in ended
    BY <1>4, <1>7, <2>2
  <2>3. CASE r \in DOMAIN result /\ calls'[r][i] = result[r] /\ r \in ended
    BY <1>7, <2>3
  <2>4. CASE r \in DOMAIN told /\ calls'[r][i] = told[r]
    BY <2>4
  <2> QED  BY <1>9, <2>1, <2>2, <2>3, <2>4
<1> QED  BY <1>10 DEF Reports

(* An entry that stays with its write keeps its place in it.               *)
LEMMA FollowsPlaced ==
  ASSUME Placed, Follows
  PROVE  Placed'
BY DEF Placed, Follows

(* The socket ends its first write.                                        *)
LEMMA TailLeft ==
  ASSUME TypeOK, Distinct, Unwritten, writes # <<>>, writes' = Tail(writes),
         \/ wire' = wire
         \/ wire' = wire \cup ToSet(Head(writes))
  PROVE  /\ Distinct' /\ Unwritten'
         /\ \A n \in DOMAIN writes' : n + 1 \in DOMAIN writes
                                      /\ writes'[n] = writes[n + 1]
<1>1. /\ \A n \in DOMAIN writes' : /\ n \in Nat \ {0} /\ n + 1 \in DOMAIN writes
                                   /\ writes'[n] = writes[n + 1]
      /\ 1 \in DOMAIN writes /\ Head(writes) = writes[1]
  <2>1. writes \in Seq(Seq(Contexts))
    BY DEF TypeOK
  <2> QED  BY <2>1, SMTT(30)
<1>2. Distinct'
  <2> SUFFICES ASSUME NEW n \in DOMAIN writes', NEW m \in DOMAIN writes',
                      NEW j \in DOMAIN writes'[n], NEW k \in DOMAIN writes'[m],
                      writes'[n][j] = writes'[m][k]
               PROVE  n = m /\ j = k
    BY DEF Distinct
  <2>1. n + 1 = m + 1 /\ j = k
    BY <1>1, SMTT(30) DEF Distinct
  <2> QED  BY <1>1, <2>1, SMTT(30)
<1>3. Unwritten'
  <2> SUFFICES ASSUME NEW n \in DOMAIN writes', NEW j \in DOMAIN writes'[n],
                      writes'[n][j] \in wire'
               PROVE  FALSE
    BY DEF Unwritten
  <2>0. n + 1 # 1 /\ n + 1 \in DOMAIN writes /\ j \in DOMAIN writes[n + 1]
    BY <1>1, SMTT(30)
  <2>1. writes[n + 1][j] \in wire \cup ToSet(writes[1])
    BY <1>1
  <2>2. writes[n + 1][j] \notin wire
    BY <2>0 DEF Unwritten
  <2>3. PICK k \in DOMAIN writes[1] : writes[1][k] = writes[n + 1][j]
    BY <2>1, <2>2 DEF ToSet
  <2> QED  BY <1>1, <2>0, <2>3 DEF Distinct
<1> QED  BY <1>1, <1>2, <1>3

(* A batch without file descriptors is one write.                          *)
LEMMA OneWrite ==
  ASSUME HasFds = {}, NEW q \in Seq(Contexts)
  PROVE  LET b == Batch(q)
         IN  /\ \A k \in DOMAIN q : EndsBefore(b, k) = 0
             /\ q # <<>> => EndsBefore(b, Len(q) + 1) = 1
             /\ q # <<>> => WritesOf(b)[1] = q
<1> DEFINE b == Batch(q)
           m == Len(q)
<1>1. /\ m \in Nat /\ DOMAIN q = 1..m /\ DOMAIN b = 1..m
      /\ q # <<>> => m \in 1..m
  BY SMTT(30) DEF Batch
<1>2. \A i \in 1..m : /\ b[i].ctx = q[i]
                      /\ b[i].last = TRUE <=> i = m
                      /\ i # m => ~ b[i].last
  <2> SUFFICES ASSUME NEW i \in 1..m
               PROVE  /\ b[i].ctx = q[i]
                      /\ b[i].last = TRUE <=> i = m
                      /\ i # m => ~ b[i].last
    OBVIOUS
  <2>1. b[i] = [ctx |-> q[i], last |-> q[i] \in HasFds \/ i = m, end |-> i]
    BY <1>1 DEF Batch
  <2>2. b[i].ctx = q[i] /\ b[i].last = (q[i] \in HasFds \/ i = m)
    BY <2>1, SMTT(30)
  <2> QED  BY <2>2
<1> HIDE DEF b, m
<1>3. ASSUME NEW k \in 1..m  PROVE EndsBefore(b, k) = 0
  <2> DEFINE none == {j \in 1..(k - 1) : b[j].last}
  <2>1. \A j \in 1..(k - 1) : j \in 1..m /\ j # m
    BY <1>1, SMTT(30)
  <2>2. none = {}
    BY <1>2, <2>1
  <2>3. EndsBefore(b, k) = Cardinality(none)
    BY DEF EndsBefore
  <2> HIDE DEF none
  <2> QED  BY <2>2, <2>3, FS_EmptySet
<1>4. ASSUME q # <<>>
      PROVE  EndsBefore(b, m + 1) = 1 /\ WritesOf(b)[1] = q
  <2>1. m \in 1..m /\ m \in Nat \ {0} /\ b[m].last = TRUE
    BY <1>1, <1>2, <1>4, SMTT(30)
  <2>2. EndsBefore(b, m + 1) = EndsBefore(b, m) + 1
    BY <2>1, EndsCount
  <2>3. EndsBefore(b, m) = 0
    BY <1>3, <2>1
  <2>4. EndsBefore(b, m + 1) = 1
    BY <2>2, <2>3, SMTT(30)
  <2> DEFINE before(n) == {i \in DOMAIN b : EndsBefore(b, i) < n - 1}
             of(n) == {i \in DOMAIN b : EndsBefore(b, i) = n - 1}
  <2>5. Len(b) = m
    BY <1>1, SMTT(30) DEF b, Batch
  <2>6. WritesOf(b) = [n \in 1..EndsBefore(b, m + 1) |->
          [j \in 1..Cardinality(of(n)) |-> b[Cardinality(before(n)) + j].ctx]]
    BY <2>5 DEF WritesOf
  <2>7. before(1) = {} /\ of(1) = 1..m
    BY <1>1, <1>3, SMTT(30)
  <2> HIDE DEF before, of
  <2>8. Cardinality(before(1)) = 0 /\ Cardinality(of(1)) = m
    BY <1>1, <2>7, FS_EmptySet, CountTo
  <2>9. WritesOf(b)[1] = [j \in 1..m |-> b[0 + j].ctx]
    <3>1. 1 \in 1..EndsBefore(b, m + 1)
      BY <2>4, SMTT(30)
    <3> QED  BY <2>6, <2>8, <3>1
  <2>10. WritesOf(b)[1] = [j \in 1..m |-> q[j]]
    <3>1. \A j \in 1..m : 0 + j = j /\ b[j].ctx = q[j]
      BY <1>2, SMTT(30)
    <3>2. [j \in 1..m |-> b[0 + j].ctx] = [j \in 1..m |-> q[j]]
      BY <3>1
    <3> QED  BY <2>9, <3>2
  <2>11. q = [j \in 1..m |-> q[j]]
    BY <1>1, SMTT(30)
  <2> QED  BY <2>4, <2>10, <2>11
<1> QED  BY <1>1, <1>3, <1>4 DEF b, m

(* The write loop hands over each scheduled context, and nothing that has  *)
(* ended.                                                                  *)
LEMMA LoopSocket ==
  ASSUME HasFds = {}, IInv, Marks, SInv, WriteScheduledRequestsToSocket
  PROVE  SInv' /\ \A r \in Contexts : state[r] # "WRITE_SCHEDULED" /\ Unsent(r)
                                        => Unsent(r)'
<1> DEFINE b == Batch(scheduled)
           w == WritesOf(b)
           v == Len(writes)
<1>0. /\ TypeOK /\ scheduled \in Seq(Contexts) /\ InScheduled /\ OnWire
      /\ wire' = wire /\ done' = done
  BY WriteLoopDoes DEF IInv, TypeOK
<1>1. Appends(b, w)
  BY LoopAppends
<1>2. /\ b \in Seq(Entries) /\ Len(b) = Len(scheduled)
      /\ DOMAIN b = DOMAIN scheduled
      /\ \A k \in DOMAIN b : b[k].ctx = scheduled[k] /\ b[k].end = k
  BY <1>0, BatchMade
<1>3. /\ \A k \in DOMAIN scheduled : EndsBefore(b, k) = 0
      /\ scheduled # <<>> => EndsBefore(b, Len(scheduled) + 1) = 1
      /\ scheduled # <<>> => w[1] = scheduled
  BY <1>0, OneWrite
<1> HIDE DEF b, w
<1>4. /\ Marks'
      /\ \A i \in DOMAIN sending' :
           \/ /\ i \in DOMAIN sending
              /\ sending'[i] = sending[i] /\ WriteOf(i)' = WriteOf(i)
           \/ \E k \in DOMAIN b :
                /\ sending'[i] = b[k]
                /\ WriteOf(i)' = w[EndsBefore(b, k) + 1]
  BY <1>0, <1>1, LoopMarks
<1>5. Placed'
  <2> SUFFICES ASSUME NEW i \in DOMAIN sending', sending'[i].ctx # Dummy
               PROVE  /\ sending'[i].end \in DOMAIN WriteOf(i)'
                      /\ WriteOf(i)'[sending'[i].end] = sending'[i].ctx
    BY DEF Placed
  <2>1. CASE /\ i \in DOMAIN sending
             /\ sending'[i] = sending[i] /\ WriteOf(i)' = WriteOf(i)
    BY <2>1 DEF SInv, Placed
  <2>2. ASSUME NEW k \in DOMAIN b, sending'[i] = b[k],
               WriteOf(i)' = w[EndsBefore(b, k) + 1]
        PROVE  /\ sending'[i].end \in DOMAIN WriteOf(i)'
               /\ WriteOf(i)'[sending'[i].end] = sending'[i].ctx
    <3>1. EndsBefore(b, k) = 0 /\ scheduled # <<>>
      BY <1>2, <1>3, SMTT(30)
    <3>2. EndsBefore(b, k) + 1 = 1
      BY <3>1, SMTT(30)
    <3> QED  BY <1>2, <1>3, <2>2, <3>1, <3>2, SMTT(30)
  <2> QED  BY <1>4, <2>1, <2>2
<1>6. CASE scheduled = <<>>
  <2>1. Len(b) = 0 /\ EndsBefore(b, 1) = 0
    <3>1. Len(b) = 0
      BY <1>2, <1>6, SMTT(30)
    <3> QED  BY <3>1, NoneBefore
  <2>2. Len(w) = 0 /\ w \in Seq(Seq(Contexts)) /\ writes' = writes \o w
    BY <1>1, <2>1, SMTT(30) DEF Appends
  <2>3. writes' = writes
    BY <1>0, <2>2, SMTT(30) DEF TypeOK
  <2> QED  BY <1>0, <1>5, <2>3, SMTT(30) DEF SInv, Distinct, Unwritten, Unsent
<1>7. CASE scheduled # <<>>
  <2>1. /\ v \in Nat /\ DOMAIN writes = 1..v /\ DOMAIN writes' = 1..(v + 1)
        /\ \A n \in 1..v : writes'[n] = writes[n]
        /\ writes'[v + 1] = scheduled
    <3> DEFINE S == Seq(Contexts)
               u == writes'
    <3>1. /\ writes \in Seq(S) /\ w \in Seq(S) /\ u = writes \o w
          /\ Len(w) = EndsBefore(b, Len(b) + 1)
      BY <1>0, <1>1 DEF Appends, TypeOK
    <3>2. Len(w) = 1
      BY <1>2, <1>3, <1>7, <3>1
    <3> HIDE DEF S, u
    <3>3. /\ v \in Nat /\ DOMAIN writes = 1..v /\ DOMAIN u = 1..(v + Len(w))
          /\ \A n \in 1..v : u[n] = writes[n]
          /\ \A n \in (v + 1)..(v + Len(w)) : u[n] = w[n - v]
      BY <3>1, Concatenation, SMTT(30)
    <3> HIDE DEF v
    <3>4. v + 1 \in (v + 1)..(v + 1) /\ (v + 1) - v = 1
      BY <3>3, SMTT(30)
    <3>5. u[v + 1] = scheduled
      BY <1>3, <1>7, <3>2, <3>3, <3>4
    <3> QED  BY <3>2, <3>3, <3>5 DEF u
  <2> HIDE DEF v
  <2>2. \A n \in DOMAIN writes' :
          \/ n \in DOMAIN writes /\ writes'[n] = writes[n] /\ n # v + 1
          \/ n = v + 1 /\ writes'[n] = scheduled
    BY <2>1, SMTT(30)
  <2>3. \A k \in DOMAIN scheduled :
          /\ scheduled[k] \in Contexts
          /\ state[scheduled[k]] = "WRITE_SCHEDULED"
          /\ scheduled[k] \notin wire
    BY <1>0, SMTT(30) DEF InScheduled, OnWire
  <2>4. \A n \in DOMAIN writes : \A j \in DOMAIN writes[n] :
          \A k \in DOMAIN scheduled : writes[n][j] # scheduled[k]
    BY <1>0, <2>3 DEF OnWire
  <2>5. \A i, j \in DOMAIN scheduled : scheduled[i] = scheduled[j] => i = j
    BY <1>0 DEF InScheduled
  <2>6. Distinct'
    <3> SUFFICES ASSUME NEW n \in DOMAIN writes', NEW m \in DOMAIN writes',
                        NEW j \in DOMAIN writes'[n], NEW k \in DOMAIN writes'[m],
                        writes'[n][j] = writes'[m][k]
                 PROVE  n = m /\ j = k
      BY DEF Distinct
    <3> QED  BY <2>2, <2>4, <2>5, SMTT(30) DEF SInv, Distinct
  <2>7. Unwritten'
    BY <1>0, <2>2, <2>3 DEF SInv, Unwritten
  <2>8. ASSUME NEW r \in Contexts, state[r] # "WRITE_SCHEDULED", Unsent(r)
        PROVE  Unsent(r)'
    BY <1>0, <2>2, <2>3, <2>8 DEF Unsent
  <2> QED  BY <1>5, <2>6, <2>7, <2>8 DEF SInv
<1> QED  BY <1>6, <1>7

(* The socket puts a context of its own on the wire.                       *)
LEMMA TransmitSocket ==
  ASSUME IInv, SInv, Transmit
  PROVE  /\ SInv' /\ wire \subseteq wire'
         /\ \A r \in Contexts : Unsent(r) => Unsent(r)'
<1>0. TypeOK
  BY DEF IInv
<1>1. /\ writes # <<>> /\ done' = done + 1
      /\ done + 1 < Len(Head(writes)) + (IF Deferred THEN 1 ELSE 0)
      /\ wire' = wire \cup {Head(writes)[done + 1]}
      /\ writes' = writes /\ sending' = sending
  BY DEF Transmit
<1>2. /\ 1 \in DOMAIN writes /\ Head(writes) = writes[1]
      /\ writes[1] \in Seq(Contexts) /\ done \in Nat
  BY <1>0, <1>1, SMTT(30) DEF TypeOK
<1>3. done + 1 \in DOMAIN writes[1]
  BY <1>1, <1>2, SMTT(30)
<1>4. Placed' /\ Distinct'
  BY <1>1, SMTT(30) DEF SInv, Placed, Distinct, WriteOf
<1>5. Unwritten'
  <2> SUFFICES ASSUME NEW n \in DOMAIN writes, NEW j \in DOMAIN writes[n],
                      writes[n][j] \in wire'
               PROVE  n = 1 /\ j <= done + 1
    BY <1>1 DEF Unwritten
  <2>1. CASE writes[n][j] \in wire
    <3>1. n = 1 /\ j <= done
      BY <2>1 DEF SInv, Unwritten
    <3>2. j \in Nat
      BY <1>2, <3>1, SMTT(30)
    <3> QED  BY <1>2, <3>1, <3>2, SMTT(30)
  <2>2. CASE writes[n][j] = writes[1][done + 1]
    <3>1. n = 1 /\ j = done + 1
      BY <1>2, <1>3, <2>2, SMTT(30) DEF SInv, Distinct
    <3> QED  BY <1>2, <3>1, SMTT(30)
  <2> QED  BY <1>1, <1>2, <2>1, <2>2
<1>6. \A r \in Contexts : Unsent(r) => Unsent(r)'
  BY <1>1, <1>2, <1>3 DEF Unsent
<1> QED  BY <1>1, <1>4, <1>5, <1>6 DEF SInv

(* Every step keeps the places of the contexts in the socket.              *)
LEMMA SocketSteps ==
  ASSUME HasFds = {}, IInv, Marks, SInv, [Next]_vars
  PROVE  SInv'
<1>1. CASE WriteScheduledRequestsToSocket
  BY <1>1, LoopSocket
<1>2. CASE Transmit
  BY <1>2, TransmitSocket
<1>3. CASE UNCHANGED <<sending, socket>>
  BY <1>3, SMTT(30) DEF SInv, Placed, Distinct, Unwritten, WriteOf, socket
<1>4. CASE SocketWriteSuccess \/ SocketWriteErr
  <2>1. /\ writes # <<>> /\ writes' = Tail(writes) /\ MarkNextSendingBatchAsSent
        /\ wire' = wire \/ wire' = wire \cup ToSet(Head(writes))
    BY <1>4 DEF SocketWriteSuccess, SocketWriteErr
  <2>2. TypeOK
    BY DEF IInv
  <2>3. Placed'
    BY <2>1, <2>2, MarkFollows, FollowsPlaced DEF SInv
  <2> QED  BY <2>1, <2>2, <2>3, TailLeft DEF SInv
<1>5. CASE \E r \in RR : Respond(r) \/ TimeoutExpired(r)
  <2>1. UNCHANGED socket
    BY <1>5 DEF Respond, TimeoutExpired
  <2>2. UNCHANGED <<sending, writes>> \/ Follows
    BY <1>5, TakeSteps
  <2>3. Placed'
    <3>1. CASE UNCHANGED <<sending, writes>>
      BY <3>1 DEF SInv, Placed, WriteOf
    <3> QED  BY <2>2, <3>1, FollowsPlaced DEF SInv
  <2> QED  BY <2>1, <2>3, SMTT(30) DEF SInv, Distinct, Unwritten, socket
<1>6. CASE CloseLoop \/ CloseNow
  <2>1. sending' = <<>> /\ writes' = <<>>
    BY <1>6 DEF CloseLoop, CloseNow, CloseNowImpl
  <2>2. DOMAIN sending' = {} /\ DOMAIN writes' = {}
    BY <2>1, SMTT(30)
  <2> QED  BY <2>2 DEF SInv, Placed, Distinct, Unwritten
<1>7. CASE UNCHANGED vars
  BY <1>3, <1>7 DEF vars
<1>8. CASE \/ \E r \in Requests : Send(r)
           \/ \E s \in Streams : SendRequestN(s) \/ Cancel(s)
           \/ \E s \in Streams : FirstResponse(s) \/ FirstError(s)
                                   \/ StreamEnd(s) \/ FirstResponseTimeout(s)
           \/ HandleConnectionClose \/ ConnectionError
  BY <1>3, <1>8, QuietSteps
<1> QED  BY <1>1, <1>2, <1>4, <1>5, <1>6, <1>7, <1>8 DEF Next

(* What the socket does not touch stays as sent as it was.                 *)
LEMMA UnsentKept ==
  ASSUME UNCHANGED <<writes, wire>>
  PROVE  \A r \in Requests : /\ Unsent(r) => Unsent(r)'
                             /\ r \in wire => r \in wire'
BY DEF Unsent

(* Callbacks that end nothing by themselves.                               *)
LEMMA QuietReports ==
  ASSUME IInv, Reports, NEW c, NEW close, NEW told, NEW freed,
         Finish(c, None, {}, close, told, freed), UNCHANGED socket,
         \A s \in DOMAIN told : /\ told[s] \notin {"NOT_OPEN", "ok"}
                                /\ s \in Streams
  PROVE  Reports'
<1> DEFINE none == {}
<1>1. /\ TypeOK /\ InScheduled /\ OnWire /\ UNCHANGED <<writes, wire>>
      /\ \A x \in none : state[x] # "COMPLETE"
      /\ Finish(c, None, none, close, told, freed)
  BY DEF IInv, socket
<1>2. \A r \in DOMAIN None : r \in Requests =>
        /\ None[r] = "NOT_OPEN" => Unsent(r)'
        /\ None[r] = "ok" => r \in wire'
  BY Empty
<1> HIDE DEF none
<1> QED  BY <1>1, <1>2, UnsentKept, FinishReports

(* A step that ends nothing leaves the reports true.                       *)
LEMMA CallsKept ==
  ASSUME Reports, UNCHANGED <<calls, state>>,
         \A r \in Requests : /\ Unsent(r) => Unsent(r)'
                             /\ r \in wire => r \in wire'
  PROVE  Reports'
BY DEF Reports

(* The requests that have not been handed to the socket.                   *)
LEMMA NotHandedOver ==
  ASSUME IInv, NEW x \in Contexts, state[x] \in {"NEW", "WRITE_SCHEDULED"}
  PROVE  Unsent(x)
BY DEF IInv, OnWire, Unsent

(* A request refused by the channel, or dropped with a client that is no   *)
(* longer connected, has not been handed over.                             *)
LEMMA SendReports ==
  ASSUME IInv, Reports, \/ \E r \in Requests : Send(r)
                        \/ \E s \in Streams : SendRequestN(s) \/ Cancel(s)
  PROVE  Reports'
<1>1. UNCHANGED <<sending, socket>>
  BY QuietSteps
<1>2. \A r \in Requests : /\ Unsent(r) => Unsent(r)'
                          /\ r \in wire => r \in wire'
  BY <1>1, UnsentKept DEF socket
<1>3. TypeOK
  BY DEF IInv
<1>4. ASSUME NEW x \in Contexts, NEW freed, EnqueueScheduledWrite(x, freed),
             state[x] = "NEW"
      PROVE  Reports'
  <2>1. /\ calls' = calls
        /\ \A r \in Contexts : state[r] = "COMPLETE" => state'[r] = "COMPLETE"
    BY <1>3, <1>4 DEF EnqueueScheduledWrite, TypeOK
  <2> QED  BY <1>2, <2>1, Kinds DEF Reports
<1>5. ASSUME NEW r \in Requests, Send(r)  PROVE Reports'
  <2>1. CASE conn = "CONNECTED"
    BY <1>4, <1>5, <2>1, Kinds DEF Send
  <2>2. CASE conn # "CONNECTED"
    <3>0. r \in Contexts /\ state[r] = "NEW" /\ Refuse(r)
      BY <1>5, <2>2, Kinds DEF Send
    <3>1. /\ state' = [state EXCEPT ![r] = "COMPLETE"]
          /\ calls' = [calls EXCEPT ![r] = Append(calls[r], "NOT_OPEN")]
      BY <3>0 DEF Refuse
    <3>2. /\ \A x \in Requests : x \in Contexts
          /\ state'[r] = "COMPLETE"
          /\ \A x \in Contexts : x # r => state'[x] = state[x]
          /\ calls'[r] = Append(calls[r], "NOT_OPEN")
          /\ \A x \in Requests : x # r => calls'[x] = calls[x]
          /\ calls[r] \in Seq(Outcomes)
      BY <1>3, <3>0, <3>1, Kinds DEF TypeOK
    <3>3. Unsent(r)
      BY <3>0, NotHandedOver
    <3>4. \A i \in DOMAIN calls'[r] :
            \/ i \in DOMAIN calls[r] /\ calls'[r][i] = calls[r][i]
            \/ calls'[r][i] = "NOT_OPEN"
      BY <3>2, SMTT(30)
    <3>5. ASSUME NEW x \in Requests, NEW i \in DOMAIN calls'[x]
          PROVE  /\ calls'[x][i] = "NOT_OPEN"
                      => state'[x] = "COMPLETE" /\ Unsent(x)'
                 /\ calls'[x][i] = "ok" => x \in wire'
      <4>1. CASE x = r
        BY <1>2, <3>2, <3>3, <3>4, <4>1 DEF Reports
      <4>2. CASE x # r
        BY <1>2, <3>2, <4>2 DEF Reports
      <4> QED  BY <4>1, <4>2
    <3> QED  BY <3>5 DEF Reports
  <2> QED  BY <2>1, <2>2
<1>6. ASSUME NEW freed, Finish(conn, None, {}, TRUE, None, freed)
      PROVE  Reports'
  <2> DEFINE close == TRUE
  <2>1. Finish(conn, None, {}, close, None, freed)
    BY <1>6
  <2> HIDE DEF close
  <2> QED  BY <1>1, <2>1, Empty, QuietReports
<1>7. ASSUME NEW s \in Streams, SendRequestN(s)  PROVE Reports'
  <2>1. CASE conn = "CONNECTED"
    BY <1>4, <1>7, <2>1, Kinds DEF SendRequestN, SendFrame
  <2>2. CASE conn # "CONNECTED"
    BY <1>6, <1>7, <2>2 DEF SendRequestN, SendFrame
  <2> QED  BY <2>1, <2>2
<1>8. ASSUME NEW s \in Streams, Cancel(s)  PROVE Reports'
  <2>1. CASE conn = "CONNECTED"
    <3>1. state[<<"CANCEL", s>>] = "NEW"
      BY <1>8 DEF Cancel, IInv, Heard
    <3> QED  BY <1>4, <1>8, <2>1, <3>1, Kinds DEF Cancel, SendFrame
  <2>2. CASE conn # "CONNECTED"
    BY <1>6, <1>8, <2>2 DEF Cancel, SendFrame
  <2> QED  BY <2>1, <2>2
<1> QED  BY <1>5, <1>7, <1>8

(* The frames of a stream report nothing as unsent but what is still       *)
(* scheduled.                                                              *)
LEMMA StreamReports ==
  ASSUME IInv, Reports,
         \E s \in Streams : FirstResponse(s) \/ FirstError(s)
                              \/ StreamEnd(s) \/ FirstResponseTimeout(s)
  PROVE  Reports'
<1>1. ASSUME NEW s \in Streams, NEW v, v \notin {"NOT_OPEN", "ok"}, NEW freed,
             StreamFrame(s, v, freed)
      PROVE  Reports'
  <2>1. UNCHANGED socket
    BY <1>1 DEF StreamFrame
  <2>2. CASE s \in streams
    <3> DEFINE close == FALSE
               told == Result({s}, v)
    <3>1. Finish(conn, None, {}, close, told, freed)
      BY <1>1, <2>2 DEF StreamFrame
    <3>2. \A t \in DOMAIN told : told[t] \notin {"NOT_OPEN", "ok"} /\ t \in Streams
      BY <1>1, Empty, SMTT(30)
    <3> HIDE DEF close, told
    <3> QED  BY <2>1, <3>1, <3>2, QuietReports
  <2>3. CASE s \notin streams
    BY <1>1, <2>1, <2>3, UnsentKept, CallsKept DEF StreamFrame, client, socket
  <2> QED  BY <2>2, <2>3
<1>2. PICK s \in Streams : FirstResponse(s) \/ FirstError(s)
                             \/ StreamEnd(s) \/ FirstResponseTimeout(s)
  OBVIOUS
<1>3. CASE FirstResponse(s)
  BY <1>1, <1>3 DEF FirstResponse
<1>4. CASE FirstError(s)
  BY <1>1, <1>4 DEF FirstError
<1>5. CASE StreamEnd(s)
  BY <1>1, <1>5 DEF StreamEnd
<1>6. CASE FirstResponseTimeout(s)
  BY <1>1, <1>6 DEF FirstResponseTimeout
<1> QED  BY <1>2, <1>3, <1>4, <1>5, <1>6

(* So do the errors of the connection.                                     *)
LEMMA ConnectionReports ==
  ASSUME IInv, Reports, HandleConnectionClose \/ ConnectionError
  PROVE  Reports'
<1> DEFINE none == {}
           no == FALSE
           yes == TRUE
<1>1. CASE HandleConnectionClose
  <2> DEFINE result == Result(ToSet(scheduled), "NOT_OPEN")
  <2>1. /\ Finish("CLOSING", result, none, no, None, none)
        /\ UNCHANGED <<writes, wire>>
    BY <1>1 DEF HandleConnectionClose, socket
  <2>2. /\ TypeOK /\ InScheduled /\ OnWire
        /\ \A x \in none : state[x] # "COMPLETE"
        /\ \A s \in DOMAIN None : /\ None[s] \notin {"NOT_OPEN", "ok"}
                                  /\ s \in Streams
    BY Empty DEF IInv
  <2>3. /\ DOMAIN result = ToSet(scheduled)
        /\ \A x \in DOMAIN result : result[x] = "NOT_OPEN"
    BY Empty
  <2>4. \A x \in ToSet(scheduled) :
          x \in Contexts /\ state[x] = "WRITE_SCHEDULED"
    BY <2>2, SMTT(30) DEF TypeOK, InScheduled, ToSet
  <2>5. \A x \in ToSet(scheduled) : Unsent(x)
    BY <2>4, NotHandedOver
  <2> HIDE DEF none, no, result
  <2>6. \A r \in DOMAIN result : r \in Requests =>
           /\ result[r] = "NOT_OPEN" => Unsent(r)'
           /\ result[r] = "ok" => r \in wire'
    BY <2>1, <2>3, <2>5, UnsentKept
  <2> QED  BY <2>1, <2>2, <2>6, UnsentKept, FinishReports
<1>2. CASE ConnectionError
  <2>1. Finish(conn, None, {}, yes, None, none) /\ UNCHANGED socket
    BY <1>2 DEF ConnectionError
  <2> HIDE DEF none, yes
  <2> QED  BY <2>1, Empty, QuietReports
<1> QED  BY <1>1, <1>2

(* And responses and timeouts.                                             *)
LEMMA ResponseReports ==
  ASSUME IInv, Reports, \E r \in RR : Respond(r) \/ TimeoutExpired(r)
  PROVE  Reports'
<1>1. ASSUME NEW r \in RR, NEW v, v \notin {"NOT_OPEN", "ok"},
             MarkAsResponded(r, v), UNCHANGED socket
      PROVE  Reports'
  <2> DEFINE none == {}
             no == FALSE
             result == Result({r}, v)
  <2>1. Finish(conn, result, none, no, None, none) /\ UNCHANGED <<writes, wire>>
    BY <1>1 DEF MarkAsResponded, socket
  <2>2. /\ TypeOK /\ InScheduled /\ OnWire
        /\ \A x \in none : state[x] # "COMPLETE"
        /\ \A s \in DOMAIN None : /\ None[s] \notin {"NOT_OPEN", "ok"}
                                  /\ s \in Streams
    BY Empty DEF IInv
  <2>3. \A x \in DOMAIN result : result[x] \notin {"NOT_OPEN", "ok"}
    BY <1>1, Empty, SMTT(30)
  <2> HIDE DEF none, no, result
  <2> QED  BY <2>1, <2>2, <2>3, UnsentKept, FinishReports
<1>2. PICK r \in RR : Respond(r) \/ TimeoutExpired(r)
  OBVIOUS
<1>3. CASE TimeoutExpired(r)
  BY <1>1, <1>3 DEF TimeoutExpired
<1>4. CASE Respond(r)
  <2>1. CASE r \in tracked
    BY <1>1, <1>4, <2>1 DEF Respond
  <2>2. CASE r \notin tracked
    BY <1>4, <2>2, UnsentKept, CallsKept DEF Respond, client, socket
  <2> QED  BY <2>1, <2>2
<1> QED  BY <1>2, <1>3, <1>4

(* The contexts of the next batch are in the socket's first write.         *)
LEMMA FirstWrite ==
  ASSUME IInv, Marks, Placed, NEW i \in NextBatch, sending[i].ctx # Dummy
  PROVE  /\ 1 \in DOMAIN writes /\ sending[i].end \in DOMAIN writes[1]
         /\ writes[1][sending[i].end] = sending[i].ctx
<1>1. i \in DOMAIN sending /\ EndsBefore(sending, i) = 0 /\ TypeOK
  BY DEF NextBatch, IInv
<1>2. EndsBefore(sending, i) + 1 = 1
  BY <1>1, SMTT(30)
<1>3. EndsBefore(sending, i) + 1 \in DOMAIN writes
  BY <1>1, HasWrite
<1> QED  BY <1>1, <1>2, <1>3 DEF Placed, WriteOf

(* What abortSentRequest() ends as unsent has not reached the wire.        *)
LEMMA AbortedUnsent ==
  ASSUME IInv, Marks, SInv,
         NEW x \in Aborted(NextBatch, done) \cup
                   Aborted(DOMAIN sending \ NextBatch, 0)
  PROVE  x \notin wire
<1>0. TypeOK /\ Placed /\ Unwritten
  BY DEF IInv, SInv
<1>1. CASE x \in Aborted(NextBatch, done)
  <2>1. PICK i \in NextBatch : /\ sending[i].ctx = x /\ x # Dummy
                               /\ done < sending[i].end
    BY <1>1 DEF Aborted
  <2>2. /\ 1 \in DOMAIN writes /\ sending[i].end \in DOMAIN writes[1]
        /\ writes[1][sending[i].end] = x
    BY <1>0, <2>1, FirstWrite
  <2>3. sending[i].end \in Nat /\ done \in Nat
    <3>1. sending[i] \in Entries
      BY <1>0, SendingTypes DEF NextBatch
    <3> QED  BY <1>0, <3>1 DEF Entries, TypeOK
  <2>4. ~ (sending[i].end <= done)
    BY <2>1, <2>3, SMTT(30)
  <2> QED  BY <1>0, <2>2, <2>4 DEF Unwritten
<1>2. CASE x \in Aborted(DOMAIN sending \ NextBatch, 0)
  <2>1. PICK i \in DOMAIN sending : /\ sending[i].ctx = x /\ x # Dummy
                                    /\ i \notin NextBatch
    BY <1>2 DEF Aborted
  <2>2. EndsBefore(sending, i) # 0 /\ EndsBefore(sending, i) \in Nat
    BY <1>0, <2>1, HasWrite DEF NextBatch
  <2> DEFINE n == EndsBefore(sending, i) + 1
  <2>3. n # 1
    BY <2>2, SMTT(30)
  <2>4. n \in DOMAIN writes
    BY <1>0, HasWrite
  <2>5. sending[i].end \in DOMAIN writes[n] /\ writes[n][sending[i].end] = x
    BY <1>0, <2>1 DEF Placed, WriteOf
  <2> HIDE DEF n
  <2> QED  BY <1>0, <2>3, <2>4, <2>5 DEF Unwritten
<1> QED  BY <1>1, <1>2

(* A write that succeeds is on the wire; of one that fails, the contexts   *)
(* past the bytes written are not.                                         *)
LEMMA WriteReports ==
  ASSUME IInv, Marks, SInv, Reports, SocketWriteSuccess \/ SocketWriteErr
  PROVE  Reports'
<1> DEFINE none == {}
           no == FALSE
           yes == TRUE
<1>0. /\ writes # <<>> /\ MarkNextSendingBatchAsSent /\ writes' = Tail(writes)
      /\ wire' = wire \/ wire' = wire \cup ToSet(Head(writes))
  BY DEF SocketWriteSuccess, SocketWriteErr
<1>1. /\ TypeOK /\ InScheduled /\ OnWire /\ Placed /\ Distinct /\ Unwritten
      /\ \A s \in DOMAIN None : /\ None[s] \notin {"NOT_OPEN", "ok"}
                                /\ s \in Streams
  BY Empty DEF IInv, SInv
<1>2. /\ 1 \in DOMAIN writes /\ Head(writes) = writes[1]
      /\ \A n \in DOMAIN writes' : /\ n + 1 # 1 /\ n + 1 \in DOMAIN writes
                                   /\ writes'[n] = writes[n + 1]
  <2>1. writes \in Seq(Seq(Contexts))
    BY <1>1 DEF TypeOK
  <2> QED  BY <1>0, <2>1, SMTT(30)
<1>3. \A r \in Requests : /\ Unsent(r) => Unsent(r)'
                          /\ r \in wire => r \in wire'
  <2>1. \A r \in Requests : r \in wire => r \in wire'
    BY <1>0
  <2>2. ASSUME NEW r \in Requests, Unsent(r)  PROVE r \notin wire'
    BY <1>0, <1>2, <2>2, SMTT(30) DEF Unsent, ToSet
  <2>3. ASSUME NEW r \in Requests, Unsent(r), NEW n \in DOMAIN writes',
               NEW j \in DOMAIN writes'[n]
        PROVE  writes'[n][j] # r
    BY <1>2, <2>3, SMTT(30) DEF Unsent
  <2> QED  BY <2>1, <2>2, <2>3 DEF Unsent
<1>4. \A x \in NextContexts : state[x] = "WRITE_SENDING"
  BY <1>0, MarkNext
<1>5. CASE SocketWriteSuccess
  <2> DEFINE result == Result(NextContexts \ RR, "ok")
             sent == NextContexts \cap RR
  <2>1. /\ Finish(conn, result, sent, no, None, none)
        /\ wire' = wire \cup ToSet(Head(writes))
    BY <1>5 DEF SocketWriteSuccess
  <2>2. /\ DOMAIN result = NextContexts \ RR
        /\ \A x \in DOMAIN result : result[x] = "ok"
        /\ \A x \in sent : state[x] # "COMPLETE"
    BY <1>4, Empty, SMTT(30)
  <2>3. ASSUME NEW x \in NextContexts  PROVE x \in wire'
    <3>1. PICK i \in NextBatch : sending[i].ctx = x /\ x # Dummy
      BY DEF NextContexts
    <3>2. /\ sending[i].end \in DOMAIN writes[1]
          /\ writes[1][sending[i].end] = x
      BY <1>1, <3>1, FirstWrite
    <3> QED  BY <1>2, <2>1, <3>2 DEF ToSet
  <2> HIDE DEF none, no, result, sent
  <2>4. \A r \in DOMAIN result : r \in Requests =>
           /\ result[r] = "NOT_OPEN" => Unsent(r)'
           /\ result[r] = "ok" => r \in wire'
    BY <2>2, <2>3
  <2> QED  BY <1>1, <1>3, <2>1, <2>2, <2>4, FinishReports
<1>6. CASE SocketWriteErr
  <2> DEFINE aborted == Aborted(NextBatch, done)
             result == Result(aborted, "NOT_OPEN")
             sent == NextContexts \ aborted
  <2>1. /\ Finish(conn, result, sent, yes, None, none)
        /\ wire' = wire
    BY <1>6 DEF SocketWriteErr
  <2>2. /\ DOMAIN result = aborted
        /\ \A x \in DOMAIN result : result[x] = "NOT_OPEN"
        /\ \A x \in sent : state[x] # "COMPLETE"
    BY <1>4, Empty, SMTT(30)
  <2>3. ASSUME NEW x \in aborted  PROVE Unsent(x)'
    <3>1. x \notin wire'
      BY <2>1, AbortedUnsent
    <3>2. PICK i \in NextBatch : sending[i].ctx = x /\ x # Dummy
      BY DEF Aborted
    <3>3. /\ sending[i].end \in DOMAIN writes[1]
          /\ writes[1][sending[i].end] = x
      BY <1>1, <3>2, FirstWrite
    <3>4. ASSUME NEW n \in DOMAIN writes', NEW j \in DOMAIN writes'[n]
          PROVE  writes'[n][j] # x
      BY <1>1, <1>2, <3>3, SMTT(30) DEF Distinct
    <3> QED  BY <3>1, <3>4 DEF Unsent
  <2> HIDE DEF none, yes, result, sent, aborted
  <2>4. \A r \in DOMAIN result : r \in Requests =>
           /\ result[r] = "NOT_OPEN" => Unsent(r)'
           /\ result[r] = "ok" => r \in wire'
    BY <2>2, <2>3
  <2> QED  BY <1>1, <1>3, <2>1, <2>2, <2>4, FinishReports
<1> QED  BY <1>5, <1>6

(* closeNowImpl() reports as unsent what is scheduled and what the socket  *)
(* had not written when it failed its writes.                              *)
LEMMA CloseReports ==
  ASSUME IInv, Marks, SInv, Reports, CloseNowImpl
  PROVE  Reports'
<1> DEFINE none == {}
           no == FALSE
<1>0. /\ TypeOK /\ InScheduled /\ OnWire
      /\ writes' = <<>> /\ wire' = wire /\ DOMAIN writes' = {}
      /\ \A x \in none : state[x] # "COMPLETE"
  BY SMTT(30) DEF IInv, CloseNowImpl
<1>1. PICK result, told :
        /\ Finish("CLOSED", result, none, no, told, streams)
        /\ DOMAIN result = Unfinished /\ DOMAIN told = streams
        /\ \A x \in Unfinished :
             result[x] = IF x \in ToSet(scheduled) \cup
                                  Aborted(NextBatch, done) \cup
                                  Aborted(DOMAIN sending \ NextBatch, 0)
                           THEN "NOT_OPEN" ELSE "CLOSED"
        /\ \A s \in streams : told[s] \in {"CLOSED", "streamError"}
  BY CloseNowCall
<1>2. \A s \in DOMAIN told : /\ told[s] \notin {"NOT_OPEN", "ok"}
                             /\ s \in Streams
  BY <1>0, <1>1 DEF TypeOK
<1>3. \A r \in Contexts : r \notin wire => Unsent(r)'
  BY <1>0 DEF Unsent
<1>4. \A r \in Requests : /\ Unsent(r) => Unsent(r)'
                          /\ r \in wire => r \in wire'
  BY <1>0, <1>3, Kinds DEF Unsent
<1>5. \A x \in ToSet(scheduled) : x \notin wire
  BY <1>0 DEF TypeOK, InScheduled, ToSet, OnWire
<1>6. ASSUME NEW r \in DOMAIN result, r \in Requests
      PROVE  /\ result[r] = "NOT_OPEN" => Unsent(r)'
             /\ result[r] = "ok" => r \in wire'
  <2>1. result[r] # "ok"
    BY <1>1
  <2>2. ASSUME result[r] = "NOT_OPEN"  PROVE r \notin wire
    <3>1. \/ r \in ToSet(scheduled)
          \/ r \in Aborted(NextBatch, done) \cup
                   Aborted(DOMAIN sending \ NextBatch, 0)
      BY <1>1, <2>2
    <3> QED  BY <1>5, <3>1, AbortedUnsent
  <2> QED  BY <1>3, <1>6, <2>1, <2>2, Kinds
<1> HIDE DEF none, no
<1> QED  BY <1>0, <1>1, <1>2, <1>4, <1>6, FinishReports

(* Every step keeps the reports true.                                      *)
LEMMA ReportStep ==
  ASSUME HasFds = {}, IInv, Marks, SInv, Reports, [Next]_vars
  PROVE  Reports'
<1>1. CASE WriteScheduledRequestsToSocket
  <2>1. /\ calls' = calls /\ wire' = wire
        /\ \A x \in Contexts : state[x] = "COMPLETE" => state'[x] = "COMPLETE"
    <3>1. /\ calls' = calls /\ wire' = wire
          /\ state' = [x \in Contexts |->
                         IF \E i \in DOMAIN scheduled : scheduled[i] = x
                           THEN "WRITE_SENDING" ELSE state[x]]
      BY <1>1, WriteLoopDoes
    <3>2. \A x \in Contexts : state[x] = "COMPLETE" =>
            ~ \E i \in DOMAIN scheduled : scheduled[i] = x
      BY DEF IInv, InScheduled
    <3> QED  BY <3>1, <3>2
  <2>2. \A r \in Contexts : state[r] # "WRITE_SCHEDULED" /\ Unsent(r)
                              => Unsent(r)'
    BY <1>1, LoopSocket
  <2> QED  BY <2>1, <2>2, Kinds DEF Reports
<1>2. CASE Transmit
  <2>1. /\ wire \subseteq wire'
        /\ \A r \in Contexts : Unsent(r) => Unsent(r)'
    BY <1>2, TransmitSocket
  <2>2. UNCHANGED <<calls, state>>
    BY <1>2 DEF Transmit, client
  <2> QED  BY <2>1, <2>2, CallsKept, Kinds
<1>3. CASE SocketWriteSuccess \/ SocketWriteErr
  BY <1>3, WriteReports
<1>4. CASE \E r \in RR : Respond(r) \/ TimeoutExpired(r)
  BY <1>4, ResponseReports
<1>5. CASE \/ \E r \in Requests : Send(r)
           \/ \E s \in Streams : SendRequestN(s) \/ Cancel(s)
  BY <1>5, SendReports
<1>6. CASE \E s \in Streams : FirstResponse(s) \/ FirstError(s)
                                \/ StreamEnd(s) \/ FirstResponseTimeout(s)
  BY <1>6, StreamReports
<1>7. CASE HandleConnectionClose \/ ConnectionError
  BY <1>7, ConnectionReports
<1>8. CASE CloseLoop \/ CloseNow
  BY <1>8, CloseReports DEF CloseLoop, CloseNow
<1>9. CASE UNCHANGED vars
  BY <1>9, UnsentKept, CallsKept DEF vars, client, socket
<1> QED  BY <1>1, <1>2, <1>3, <1>4, <1>5, <1>6, <1>7, <1>8, <1>9 DEF Next

(* Without file descriptors, a request reported as NOT_OPEN, which the     *)
(* callers take to be unsent and safe to retry, has not been written to    *)
(* the end, and a oneway request reported as written has.  With them       *)
(* abortSentRequest() compares offsets in the batch with bytes of one      *)
(* write, and the property fails: the run client_fds shows how.            *)
THEOREM ClientUnsent ==
  ASSUME HasFds = {}
  PROVE  Spec => []UnsentMeansUnsent
<1> DEFINE Inv == IInv /\ Marks /\ SInv /\ Reports
<1>1. ASSUME Init  PROVE Inv
  <2>1. /\ sending = <<>> /\ writes = <<>> /\ IInv
        /\ \A r \in Requests : calls[r] = <<>>
    BY <1>1, Start DEF Init
  <2>2. DOMAIN sending = {} /\ DOMAIN writes = {}
    BY <2>1, SMTT(30)
  <2>3. \A r \in Requests : DOMAIN calls[r] = {}
    BY <2>1, SMTT(30)
  <2>4. Marks
    BY <2>1, HeldStart
  <2> QED  BY <2>1, <2>2, <2>3, <2>4
           DEF SInv, Placed, Distinct, Unwritten, Reports
<1>2. ASSUME Inv, [Next]_vars  PROVE Inv'
  <2>1. IInv' /\ SInv' /\ Reports'
    BY <1>2, Step, SocketSteps, ReportStep
  <2>2. Marks'
    <3>1. Held
      BY <1>2 DEF SInv, Placed, Held
    <3> QED  BY <1>2, <3>1, HeldStep
  <2> QED  BY <2>1, <2>2
<1>3. ASSUME Inv  PROVE UnsentMeansUnsent
  BY <1>3 DEF Reports, UnsentMeansUnsent, Unsent
<1> QED  BY <1>1, <1>2, <1>3, PTL DEF Spec
=============================================================================
