---------------------- MODULE PaymentConsumerAccounting ----------------------
(***************************************************************************)
(* Where every message is, in instances in which processes do not go down  *)
(* and the DLQ takes what it is sent: proofs that each status in Redis and *)
(* each offset the group has passed is accounted for.  In instances in     *)
(* which Redis and Kafka answer, what the counter of the DLQ shows; and in *)
(* those in which Redis answers, that one event of a payment is applied.   *)
(***************************************************************************)
EXTENDS PaymentConsumerProofs

(* What keeps hold of a message: its row, the DLQ, or a worker that has    *)
(* tried to set its key and will go on to the one or the other.            *)
PastMark == {"status", "history", "backoff", "dlq", "incr", "publish"}
Settled(pos) == Recorded(pos) \/ InDLQ(pos)
Pending(pos) == \E w \in Workers : pc[w] \in PastMark /\ Cur(w) = pos
Saved(pos)   == Settled(pos) \/ Pending(pos)

(* Without "crash" and "cancel" no process goes down again, so that no     *)
(* send to the DLQ that its caller has abandoned is lost.                  *)
StaysUp ==
  /\ \A c \in Consumers : phase[c] # "stopping"
  /\ \A s \in late : phase[s[1]] # "down"

(* A worker that has sent its message to the DLQ finds it there.           *)
Sent == \A w \in Workers : pc[w] = "incr" => InDLQ(Cur(w))

SavedInv == StaysUp /\ Sent

(* Every status in Redis comes from a message that is saved.               *)
Source(i) ==
  {pos \in Positions : Delivered(pos) /\ MessageAt(pos) # Malformed /\ MessageAt(pos).pid = i}
StatusInv ==
  \A i \in Payments : status[i] # None =>
    \E pos \in Source(i) : MessageAt(pos).status = status[i] /\ Saved(pos)

(* The messages of partition p below offset n are saved or shadowed.       *)
Accounted(p, n) == \A o \in 0 .. n - 1 : Saved(<<p, o>>) \/ Shadowed(<<p, o>>)

(* The workers of whom everything they have passed is accounted for: one   *)
(* whose session was cancelled drops the message it waits a slot for, but  *)
(* then never returns nil again.                                           *)
Careful(w) == (phase[w[1]] = "live" /\ pc[w] # "off") \/ pc[w] = "publish"

Homed == \A pos \in Positions :
  Delivered(pos) /\ MessageAt(pos) # Malformed => Home[MessageAt(pos).pid] = pos[1]

AccountInv ==
  /\ \A p \in Partitions : Accounted(p, committed[p])
  /\ \A w \in Workers : Accounted(w[2], marked[w])
  /\ \A w \in Workers : Careful(w) => Accounted(w[2], Handled(w))
  /\ \A i \in keys : \E pos \in Source(i) : Accounted(pos[1], pos[2] + 1)

-----------------------------------------------------------------------------
(* A message that is saved stays saved.                                    *)

DLQKept    == \A pos \in Positions : InDLQ(pos) => InDLQ(pos)'
Carried(w) == pc[w] \in PastMark =>
  (pc'[w] \in PastMark /\ next'[w] = next[w]) \/ Settled(Cur(w))

(* The faults no process goes down by and the DLQ survives.                *)
MildFaults == {"redis", "dynamo", "evict", "expire"}

LEMMA PastMarkInHand ==
  ASSUME IInv, NEW w \in Workers, pc[w] \in PastMark
  PROVE  Cur(w) \in Positions /\ Delivered(Cur(w)) /\ MessageAt(Cur(w)) = Msg(w)
BY MessageInHand DEF IInv, PastMark, HasMessage, Processing

(* A step that leaves the DLQ alone, takes no process down and leaves the  *)
(* workers that are past the mark where they are or ahead of the DLQ.      *)
LEMMA SavedKept ==
  ASSUME IInv, SavedInv, dlq' = dlq, late' = late,
         \A c \in Consumers : phase'[c] # "stopping" /\ (phase'[c] = "down" => phase[c] = "down"),
         \A w \in Workers : Carried(w),
         \A w \in Workers : pc'[w] = "incr" => pc[w] = "incr" /\ next'[w] = next[w]
  PROVE  DLQKept /\ (\A w \in Workers : Carried(w)) /\ SavedInv'
<1>1. \A pos : InDLQ(pos)' = InDLQ(pos)
  BY DEF InDLQ
<1>2. DLQKept
  BY <1>1 DEF DLQKept
<1>3. StaysUp'
  BY DEF StaysUp, SavedInv, IInv, TypeOK
<1>4. ASSUME NEW w \in Workers, pc'[w] = "incr" PROVE InDLQ(Cur(w))'
  <2>1. Cur(w)' = Cur(w)
    BY <1>4 DEF Cur
  <2> QED
    BY <1>1, <1>4, <2>1 DEF SavedInv, Sent, InDLQ
<1> QED
  BY <1>2, <1>3, <1>4 DEF SavedInv, Sent

LEMMA PublishDLQSaved ==
  ASSUME IInv, SavedInv, NEW w \in Workers, PublishDLQ(w), Faults \subseteq MildFaults
  PROVE  DLQKept /\ (\A v \in Workers : Carried(v)) /\ SavedInv'
<1>1. /\ pc[w] = "dlq" /\ pc' = [pc EXCEPT ![w] = "incr"] /\ next' = next /\ phase' = phase
      /\ w[1] \in Consumers
  BY WorkerPair DEF PublishDLQ, GoTo, groupVars
<1>2. Cur(w) \in Positions
  BY <1>1, PastMarkInHand DEF PastMark
<1>3. Effects(w[1], "kafka") \subseteq IF Cancelled(w[1]) THEN {FALSE} ELSE {TRUE}
  BY DEF Effects, MayFail, FailureEffects, MildFaults
<1>4. \/ ~Cancelled(w[1]) /\ dlq' = [dlq EXCEPT ![Cur(w)] = @ + 1] /\ late' = late
      \/ Cancelled(w[1]) /\ late' = late \cup {<<w[1], Cur(w)>>} /\ dlq' = dlq
  BY <1>3 DEF PublishDLQ
<1>5. DLQKept /\ InDLQ(Cur(w))'
  <2>1. dlq \in [Positions -> Nat]
    BY DEF IInv, TypeOK
  <2>2. CASE dlq' = [dlq EXCEPT ![Cur(w)] = @ + 1] /\ late' = late
    BY <1>1, <1>2, <2>1, <2>2 DEF DLQKept, InDLQ, Cur
  <2>3. CASE late' = late \cup {<<w[1], Cur(w)>>} /\ dlq' = dlq
    BY <1>1, <2>3 DEF DLQKept, InDLQ, Cur
  <2> QED
    BY <1>4, <2>2, <2>3
<1>6. \A v \in Workers : Carried(v)
  BY <1>1 DEF Carried, PastMark, IInv, TypeOK
<1>7. StaysUp'
  BY <1>1, <1>4 DEF StaysUp, SavedInv, Cancelled
<1>8. ASSUME NEW v \in Workers, pc'[v] = "incr" PROVE InDLQ(Cur(v))'
  <2>1. v = w \/ pc[v] = "incr"
    BY <1>1, <1>8 DEF IInv, TypeOK
  <2>2. CASE v = w
    BY <1>5, <2>2
  <2>3. CASE pc[v] = "incr"
    <3>1. Cur(v) \in Positions /\ InDLQ(Cur(v))
      BY <2>3, PastMarkInHand DEF PastMark, SavedInv, Sent
    <3>2. Cur(v)' = Cur(v)
      BY <1>1 DEF Cur
    <3> QED
      BY <1>5, <3>1, <3>2 DEF DLQKept, InDLQ
  <2> QED
    BY <2>1, <2>2, <2>3
<1> QED
  BY <1>5, <1>6, <1>7, <1>8 DEF SavedInv, Sent

LEMMA LateSendSaved ==
  ASSUME IInv, SavedInv, NEW c \in Consumers, NEW p \in Positions, LateSend(c, p),
         Faults \subseteq MildFaults
  PROVE  DLQKept /\ (\A v \in Workers : Carried(v)) /\ SavedInv'
<1>1. phase[c] # "down" /\ "kafka" \notin Faults
  BY DEF SavedInv, StaysUp, LateSend, MildFaults
<1>2. /\ dlq' = [dlq EXCEPT ![p] = @ + 1] /\ late' = late \ {<<c, p>>} /\ pc' = pc
      /\ next' = next /\ phase' = phase
  BY <1>1 DEF LateSend, workerVars, groupVars
<1>3. DLQKept
  BY <1>2 DEF DLQKept, InDLQ, IInv, TypeOK
<1>4. \A v \in Workers : Carried(v)
  BY <1>2 DEF Carried
<1>5. ASSUME NEW v \in Workers, pc'[v] = "incr" PROVE InDLQ(Cur(v))'
  <2>1. Cur(v) \in Positions /\ InDLQ(Cur(v))
    BY <1>2, <1>5, PastMarkInHand DEF PastMark, SavedInv, Sent
  <2>2. Cur(v)' = Cur(v)
    BY <1>2 DEF Cur
  <2> QED
    BY <1>3, <2>1, <2>2 DEF DLQKept, InDLQ
<1> QED
  BY <1>2, <1>3, <1>4, <1>5 DEF SavedInv, Sent, StaysUp

LEMMA NextSaved ==
  ASSUME IInv, BackingInv, SavedInv, [Next]_vars, Faults \subseteq MildFaults
  PROVE  DLQKept /\ (\A w \in Workers : Carried(w)) /\ SavedInv'
<1> DEFINE Good == DLQKept /\ (\A w \in Workers : Carried(w)) /\ SavedInv'
<1>1. CASE UNCHANGED vars
  BY <1>1, SavedKept DEF vars, workerVars, groupVars, dlqVars, Carried, SavedInv, StaysUp
<1>2. ASSUME NEW p \in Partitions, NEW m \in Messages, Arrive(p, m) PROVE Good
  BY <1>2, SavedKept DEF Arrive, workerVars, groupVars, dlqVars, Carried, SavedInv, StaysUp
<1>3. ASSUME NEW c \in Consumers, Start(c) \/ CancelSession(c) \/ Sigterm(c) \/ Evict(c) PROVE Good
  <2>1. "cancel" \notin Faults
    BY DEF MildFaults
  <2>2. /\ UNCHANGED <<pc, next, dlq, late>>
        /\ \A d \in Consumers : phase'[d] # "stopping" /\ (phase'[d] = "down" => phase[d] = "down")
    BY <1>3, <2>1 DEF Start, CancelSession, Sigterm, Evict, workerVars, dlqVars, SavedInv, StaysUp,
       IInv, TypeOK
  <2> QED
    BY <2>2, SavedKept DEF Carried
<1>4. ASSUME NEW c \in Consumers, Crash(c) PROVE Good
  BY <1>4 DEF Crash, MildFaults
<1>5. ASSUME NEW c \in Consumers, EndSession(c) PROVE Good
  <2>1. \A d \in Consumers : phase'[d] # "stopping" /\ (phase'[d] = "down" => phase[d] = "down")
    BY <1>5 DEF EndSession, Cancelled, SavedInv, StaysUp, IInv, TypeOK
  <2>2. ASSUME NEW w \in Workers, pc[w] \in PastMark
        PROVE  pc'[w] = pc[w] /\ next'[w] = next[w]
    <3>1. w[1] # c
      BY <1>5, <2>2, WorkerPair DEF EndSession, PastMark
    <3> QED
      BY <1>5, <3>1 DEF EndSession, IInv, TypeOK
  <2>3. \A w \in Workers : pc'[w] = "incr" => pc[w] = "incr"
    BY <1>5 DEF EndSession, IInv, TypeOK
  <2>4. dlq' = dlq /\ late' = late
    BY <1>5 DEF EndSession, dlqVars
  <2>5. \A w \in Workers : Carried(w)
    BY <2>2 DEF Carried
  <2> QED
    BY <2>1, <2>2, <2>3, <2>4, <2>5, SavedKept DEF PastMark
<1>6. ASSUME NEW c \in Consumers, NEW P \in SUBSET Partitions, Join(c, P) PROVE Good
  <2>1. \A d \in Consumers : phase'[d] # "stopping" /\ (phase'[d] = "down" => phase[d] = "down")
    BY <1>6 DEF Join, SavedInv, StaysUp, IInv, TypeOK
  <2>2. ASSUME NEW w \in Workers, pc[w] \in PastMark
        PROVE  pc'[w] = pc[w] /\ next'[w] = next[w]
    <3>1. w[1] # c
      BY <1>6, <2>2 DEF Join, IInv, WorkersOK, InSession, PastMark
    <3>2. w \notin {c} \X P
      BY <3>1
    <3> QED
      BY <1>6, <3>2 DEF Join, IInv, TypeOK
  <2>3. \A w \in Workers : pc'[w] = "incr" => pc[w] = "incr"
    BY <1>6 DEF Join, IInv, TypeOK
  <2>4. dlq' = dlq /\ late' = late
    BY <1>6 DEF Join, dlqVars
  <2>5. \A w \in Workers : Carried(w)
    BY <2>2 DEF Carried
  <2> QED
    BY <2>1, <2>2, <2>3, <2>4, <2>5, SavedKept DEF PastMark
<1>7. ASSUME NEW c \in Consumers, NEW pos \in Positions, LateSend(c, pos) PROVE Good
  BY <1>7, LateSendSaved
<1>8. ASSUME NEW w \in Workers,
             Receive(w) \/ AcquireSlot(w) \/ CommitOffset(w) \/ HandlerStep(w), ~PublishDLQ(w)
      PROVE  Good
  <2>1. /\ dlq' = dlq /\ late' = late /\ phase' = phase
        /\ \E l \in Labels : pc' = [pc EXCEPT ![w] = l] \/ pc' = pc
        /\ \A v \in Workers : v # w => next'[v] = next[v]
    BY <1>8 DEF Receive, AcquireSlot, CommitOffset, HandlerStep, FinishClaim, AcquireCancelled,
       SkipProcessed, Proceed, MarkProcessed, UpdateStatus, RecordHistory, Backoff, IncrDLQCount,
       PublishEvent, ReturnNil, ReturnErr, Leave, GoTo, AttemptFailed, dlqVars, groupVars, Labels,
       Processing, IInv, TypeOK
  <2>2. pc'[w] = "incr" => pc[w] = "incr" /\ next'[w] = next[w]
    BY <1>8 DEF Receive, AcquireSlot, CommitOffset, HandlerStep, FinishClaim, AcquireCancelled,
       SkipProcessed, Proceed, MarkProcessed, UpdateStatus, RecordHistory, Backoff, IncrDLQCount,
       PublishEvent, ReturnNil, ReturnErr, Leave, GoTo, AttemptFailed, IInv, TypeOK
  <2>3. Carried(w)
    <3> SUFFICES ASSUME pc[w] \in PastMark PROVE Carried(w)
      BY DEF Carried
    <3>1. CASE pc[w] = "publish"
      <4>1. hist[RowOf(Msg(w))] # None /\ Msg(w) # Malformed /\ MessageAt(Cur(w)) = Msg(w)
        BY <3>1, PastMarkInHand DEF BackingInv, BackingOK, IInv, WorkersOK, HasEvent
      <4> QED
        BY <4>1 DEF Carried, Settled, Recorded
    <3>2. CASE pc[w] = "incr"
      BY <3>2 DEF SavedInv, Sent, Carried, Settled
    <3>3. CASE pc[w] \in {"status", "history", "backoff", "dlq"}
      <4>1. pc'[w] \in PastMark /\ next'[w] = next[w]
        BY <1>8, <3>3 DEF Receive, AcquireSlot, CommitOffset, HandlerStep, FinishClaim,
           AcquireCancelled, SkipProcessed, Proceed, MarkProcessed, UpdateStatus, RecordHistory,
           Backoff, IncrDLQCount, PublishEvent, GoTo, AttemptFailed, PastMark, IInv, TypeOK
      <4> QED
        BY <4>1 DEF Carried
    <3> QED
      BY <3>1, <3>2, <3>3 DEF PastMark
  <2>4. \A v \in Workers : v # w => pc'[v] = pc[v]
    BY <2>1 DEF IInv, TypeOK
  <2>5. \A v \in Workers : Carried(v)
    BY <2>1, <2>3, <2>4 DEF Carried
  <2>6. \A v \in Workers : pc'[v] = "incr" => pc[v] = "incr" /\ next'[v] = next[v]
    BY <2>1, <2>2, <2>4
  <2> QED
    BY <2>1, <2>5, <2>6, SavedKept DEF SavedInv, StaysUp
<1>9. ASSUME NEW i \in Payments, Expire(i) PROVE Good
  BY <1>9, SavedKept DEF Expire, workerVars, groupVars, dlqVars, Carried, SavedInv, StaysUp
<1>10. ASSUME NEW pos \in Positions, NEW t \in Times, Announce(pos, t) PROVE Good
  BY <1>10, SavedKept DEF Announce, workerVars, groupVars, dlqVars, Carried, SavedInv, StaysUp
<1> QED
  BY <1>1, <1>2, <1>3, <1>4, <1>5, <1>6, <1>7, <1>8, <1>9, <1>10, PublishDLQSaved DEF Next

LEMMA SavedInvCorrect == ASSUME Faults \subseteq MildFaults PROVE Spec => []SavedInv
<1>1. Init => SavedInv
  BY DEF Init, SavedInv, StaysUp, Sent
<1>2. IInv /\ BackingInv /\ SavedInv /\ [Next]_vars => SavedInv'
  BY NextSaved
<1> QED
  BY <1>1, <1>2, IInvCorrect, BackingInvCorrect, PTL DEF Spec

LEMMA SavedStable ==
  ASSUME IInv, LogGrows, RowsKept, DLQKept, \A w \in Workers : Carried(w),
         NEW pos \in Positions, Delivered(pos), Saved(pos)
  PROVE  Saved(pos)'
<1>1. ASSUME Settled(pos) PROVE Settled(pos)'
  <2>1. CASE InDLQ(pos)
    BY <2>1 DEF DLQKept, Settled
  <2>2. CASE Recorded(pos)
    <3>1. MessageAt(pos)' = MessageAt(pos) /\ MessageAt(pos) # Malformed
      BY <2>2 DEF LogGrows, Recorded
    <3>2. RowOf(MessageAt(pos)) \in Rows
      BY <3>1, MessageType, EventRow DEF Messages
    <3>3. RowOf(MessageAt(pos))' = RowOf(MessageAt(pos))
      BY <3>1 DEF RowOf
    <3>4. hist'[RowOf(MessageAt(pos))] # None
      BY <2>2, <3>2 DEF RowsKept, Recorded
    <3>5. Recorded(pos)'
      BY <3>1, <3>3, <3>4 DEF Recorded
    <3> QED
      BY <3>5 DEF Settled
  <2> QED
    BY <1>1, <2>1, <2>2 DEF Settled
<1>2. CASE Settled(pos)
  BY <1>1, <1>2 DEF Saved
<1>3. ASSUME NEW w \in Workers, pc[w] \in PastMark, Cur(w) = pos PROVE Saved(pos)'
  <2>1. CASE pc'[w] \in PastMark /\ next'[w] = next[w]
    <3>1. Cur(w)' = pos
      BY <1>3, <2>1 DEF Cur
    <3> QED
      BY <2>1, <3>1 DEF Saved, Pending
  <2>2. CASE Settled(Cur(w))
    BY <1>1, <1>3, <2>2 DEF Saved
  <2> QED
    BY <1>3, <2>1, <2>2 DEF Carried
<1> QED
  BY <1>2, <1>3 DEF Saved, Pending

LEMMA SourceStable ==
  ASSUME LogGrows, NEW i \in Payments, NEW pos \in Source(i)
  PROVE  pos \in Source(i)' /\ MessageAt(pos)' = MessageAt(pos)
BY DEF Source, LogGrows

-----------------------------------------------------------------------------
(* Every status has a message behind it.                                   *)

LEMMA UpdateStatusSource ==
  ASSUME IInv, LogGrows, NEW w \in Workers, UpdateStatus(w), NEW i \in Payments,
         status'[i] # status[i]
  PROVE  \E pos \in Source(i)' : MessageAt(pos)'.status = status'[i] /\ Saved(pos)'
<1>1. pc[w] = "status" /\ next' = next /\ pc'[w] \in PastMark
  BY DEF UpdateStatus, GoTo, AttemptFailed, PastMark, IInv, TypeOK
<1>2. i = Msg(w).pid /\ status'[i] = Msg(w).status
  BY DEF UpdateStatus, IInv, TypeOK
<1>3. /\ Cur(w) \in Positions /\ Delivered(Cur(w)) /\ MessageAt(Cur(w)) = Msg(w)
      /\ Msg(w) # Malformed
  BY <1>1, PastMarkInHand DEF PastMark, IInv, WorkersOK, HasEvent
<1>4. Cur(w) \in Source(i)
  BY <1>2, <1>3 DEF Source
<1>5. Cur(w)' = Cur(w)
  BY <1>1 DEF Cur
<1>6. Saved(Cur(w))'
  <2>1. \E v \in Workers : pc'[v] \in PastMark /\ Cur(v)' = Cur(w)
    BY <1>1, <1>5
  <2> QED
    BY <1>5, <2>1 DEF Saved, Pending
<1> DEFINE q == Cur(w)
<1>7. q \in Source(i)' /\ MessageAt(q)' = MessageAt(q)
  BY <1>3, <1>4, <1>5, SourceStable
<1>8. MessageAt(q)'.status = status'[i]
  BY <1>2, <1>3, <1>7
<1> QED
  BY <1>5, <1>6, <1>7, <1>8

LEMMA NextStatusInv ==
  ASSUME IInv, BackingInv, SavedInv, StatusInv, [Next]_vars, Faults \subseteq MildFaults
  PROVE  StatusInv'
<1>1. LogGrows /\ RowsKept /\ DLQKept /\ (\A w \in Workers : Carried(w))
  BY LogAppended, RowsKeptByNext, NextSaved
<1>2. ASSUME NEW i \in Payments, status'[i] # None, status'[i] = status[i]
      PROVE  \E pos \in Source(i)' : MessageAt(pos)'.status = status'[i] /\ Saved(pos)'
  <2>1. PICK pos \in Source(i) : MessageAt(pos).status = status[i] /\ Saved(pos)
    BY <1>2 DEF StatusInv
  <2>2. pos \in Positions /\ Delivered(pos)
    BY DEF Source
  <2>3. Saved(pos)'
    BY <1>1, <2>1, <2>2, SavedStable
  <2>4. pos \in Source(i)' /\ MessageAt(pos)' = MessageAt(pos)
    BY <1>1, SourceStable
  <2> QED
    BY <1>2, <2>1, <2>3, <2>4
<1>3. \/ status' = status
      \/ \E w \in Workers : UpdateStatus(w)
      \/ \E j \in Payments : status' = [status EXCEPT ![j] = None]
  BY DEF Next, vars, storeVars, Arrive, Start, CancelSession, Sigterm, Evict, Crash, EndSession,
         Join, LateSend, Receive, AcquireSlot, CommitOffset, HandlerStep, FinishClaim,
         AcquireCancelled, SkipProcessed, Proceed, MarkProcessed, RecordHistory, Backoff,
         PublishDLQ, IncrDLQCount, PublishEvent, Expire, Announce
<1>4. ASSUME NEW i \in Payments, status'[i] # None
      PROVE  \E pos \in Source(i)' : MessageAt(pos)'.status = status'[i] /\ Saved(pos)'
  <2>1. CASE status'[i] = status[i]
    BY <1>2, <1>4, <2>1
  <2>2. CASE status'[i] # status[i]
    <3>1. PICK w \in Workers : UpdateStatus(w)
      BY <1>3, <1>4, <2>2 DEF IInv, TypeOK
    <3> QED
      BY <1>1, <2>2, <3>1, UpdateStatusSource
  <2> QED
    BY <2>1, <2>2
<1> QED
  BY <1>4 DEF StatusInv

LEMMA PendingInHand == ASSUME NEW pos, Saved(pos) PROVE Recorded(pos) \/ InDLQ(pos) \/ InHand(pos)
BY DEF Saved, Settled, Pending, InHand, PastMark, Processing

(* While processes stay up and the DLQ takes what it is sent, every status *)
(* has its row, or its message in the DLQ or in the hands of a worker,     *)
(* however Redis and DynamoDB fail and whoever is expelled.                *)
THEOREM DivergenceVisibleCorrect ==
  ASSUME Faults \subseteq MildFaults PROVE Spec => []DivergenceVisible
<1>1. Init => StatusInv
  BY DEF Init, StatusInv
<1>2. IInv /\ BackingInv /\ SavedInv /\ StatusInv /\ [Next]_vars => StatusInv'
  BY NextStatusInv
<1>3. StatusInv => DivergenceVisible
  BY PendingInHand DEF StatusInv, DivergenceVisible, Source
<1> QED
  BY <1>1, <1>2, <1>3, IInvCorrect, BackingInvCorrect, SavedInvCorrect, PTL DEF Spec

-----------------------------------------------------------------------------
(* Every message below an offset is accounted for.                         *)

(* Redis answers too: a key is set only by a worker in a live session.     *)
StoreFaults == {"dynamo", "evict", "expire"}

LEMMA NextHomed == ASSUME IInv, Homed, [Next]_vars PROVE Homed'
<1>1. ASSUME log' = log PROVE Homed'
  BY <1>1 DEF Homed, Delivered, MessageAt
<1>2. ASSUME NEW p \in Partitions, NEW m \in Messages, Arrive(p, m) PROVE Homed'
  <2> SUFFICES ASSUME NEW pos \in Positions, Delivered(pos)', MessageAt(pos)' # Malformed
               PROVE  Home[MessageAt(pos)'.pid] = pos[1]
    BY DEF Homed
  <2>1. pos[1] \in Partitions /\ pos[2] \in Nat /\ log[pos[1]] \in Seq(Messages)
    BY BoundsAssumption DEF Positions, IInv, TypeOK
  <2>2. CASE Delivered(pos)
    <3>1. MessageAt(pos)' = MessageAt(pos)
      BY <1>2, <2>1, <2>2 DEF Arrive, Delivered, MessageAt, IInv, TypeOK
    <3> QED
      BY <2>2, <3>1 DEF Homed
  <2>3. CASE ~Delivered(pos)
    <3>1. pos[1] = p /\ MessageAt(pos)' = m
      BY <1>2, <2>1, <2>3 DEF Arrive, Delivered, MessageAt, IInv, TypeOK
    <3> QED
      BY <1>2, <3>1 DEF Arrive
  <2> QED
    BY <2>2, <2>3
<1>3. log' = log \/ \E p \in Partitions, m \in Messages : Arrive(p, m)
  BY DEF Next, vars, Start, CancelSession, Sigterm, Evict, Crash, EndSession, Join, LateSend,
         Receive, AcquireSlot, CommitOffset, HandlerStep, FinishClaim, AcquireCancelled,
         SkipProcessed, Proceed, MarkProcessed, UpdateStatus, RecordHistory, Backoff,
         PublishDLQ, IncrDLQCount, PublishEvent, Expire, Announce
<1> QED
  BY <1>1, <1>2, <1>3

LEMMA HomedCorrect == Spec => []Homed
<1>1. Init => Homed
  BY BoundsAssumption DEF Init, Homed, Delivered, Positions
<1> QED
  BY <1>1, NextHomed, IInvCorrect, PTL DEF Spec

LEMMA Below ==
  ASSUME IInv, NEW p \in Partitions, NEW n \in Nat, n <= Len(log[p]), NEW o \in 0 .. n - 1
  PROVE  <<p, o>> \in Positions /\ Delivered(<<p, o>>)
<1>1. Len(log[p]) \in Nat /\ Len(log[p]) <= MaxLog
  BY DEF IInv, TypeOK
<1> QED
  BY <1>1, BoundsAssumption DEF Positions, Delivered

LEMMA AccountedStable ==
  ASSUME IInv, LogGrows, RowsKept, DLQKept, \A w \in Workers : Carried(w),
         NEW p \in Partitions, NEW n \in Nat, n <= Len(log[p]), Accounted(p, n)
  PROVE  Accounted(p, n)'
<1> SUFFICES ASSUME NEW o \in 0 .. n - 1 PROVE Saved(<<p, o>>)' \/ Shadowed(<<p, o>>)'
  BY DEF Accounted
<1>1. <<p, o>> \in Positions /\ Delivered(<<p, o>>)
  BY Below
<1>2. CASE Saved(<<p, o>>)
  BY <1>1, <1>2, SavedStable
<1>3. CASE Shadowed(<<p, o>>)
  <2>1. PICK q \in 0 .. o - 1 :
          /\ MessageAt(<<p, q>>) # Malformed /\ MessageAt(<<p, o>>) # Malformed
          /\ MessageAt(<<p, q>>).pid = MessageAt(<<p, o>>).pid
    BY <1>3 DEF Shadowed
  <2>2. <<p, q>> \in Positions /\ Delivered(<<p, q>>)
    BY Below
  <2>3. /\ MessageAt(<<p, q>>)' = MessageAt(<<p, q>>)
        /\ MessageAt(<<p, o>>)' = MessageAt(<<p, o>>)
    BY <1>1, <2>2 DEF LogGrows
  <2> QED
    BY <2>1, <2>3 DEF Shadowed
<1> QED
  BY <1>2, <1>3 DEF Accounted

LEMMA TransitiveLeq ==
  ASSUME NEW i \in Nat, NEW j \in Nat, NEW k \in Nat, i <= j, j <= k PROVE i <= k
OBVIOUS

(* Offsets that workers and the group have reached lie within the topic.   *)
Within ==
  /\ \A p \in Partitions : committed[p] \in Nat /\ committed[p] <= Len(log[p])
  /\ \A w \in Workers :
       /\ marked[w] \in Nat /\ Handled(w) \in Nat
       /\ marked[w] <= Len(log[w[2]]) /\ Handled(w) <= Len(log[w[2]])

LEMMA WithinCorrect == ASSUME IInv, OffsetInv, BackingInv PROVE Within
<1>1. ASSUME NEW p \in Partitions, NEW n \in Nat, \A o \in 0 .. n - 1 : <<p, o>> \in tried
      PROVE  n <= Len(log[p])
  <2>1. CASE n = 0
    BY <2>1 DEF IInv, TypeOK
  <2>2. CASE n > 0
    <3>1. Delivered(<<p, n - 1>>)
      BY <1>1, <2>2 DEF BackingInv, BackingOK
    <3> QED
      BY <2>2, <3>1 DEF Delivered, IInv, TypeOK
  <2> QED
    BY <2>1, <2>2
<1>2. \A p \in Partitions : committed[p] \in Nat /\ committed[p] <= Len(log[p])
  BY <1>1 DEF IInv, TypeOK, OffsetInv, NoSkip
<1>3. ASSUME NEW w \in Workers
      PROVE  /\ marked[w] \in Nat /\ Handled(w) \in Nat
             /\ marked[w] <= Len(log[w[2]]) /\ Handled(w) <= Len(log[w[2]])
  <2>1. w[2] \in Partitions /\ marked[w] \in Nat /\ Handled(w) \in Nat /\ marked[w] <= Handled(w)
    BY WorkerPair, HandledTypeCorrect DEF HandledType, IInv, TypeOK, OffsetInv, OffsetsOK
  <2>2. \A o \in 0 .. Handled(w) - 1 : <<w[2], o>> \in tried
    BY DEF OffsetInv, OffsetsOK
  <2>3. Len(log[w[2]]) \in Nat
    BY <2>1 DEF IInv, TypeOK
  <2>4. Handled(w) <= Len(log[w[2]])
    BY <1>1, <2>1, <2>2, Zenon
  <2> QED
    BY <2>1, <2>3, <2>4, TransitiveLeq
<1> QED
  BY <1>2, <1>3 DEF Within

(* What every step keeps, put together.                                    *)
Steady == /\ IInv /\ OffsetInv /\ BackingInv /\ SavedInv /\ Homed /\ Within
          /\ LogGrows /\ RowsKept /\ DLQKept /\ \A w \in Workers : Carried(w)

Held(v)   == Careful(v) /\ Handled(v)' = Handled(v)
Joined(v) == Handled(v)' = committed[v[2]]

LEMMA AccountStep ==
  ASSUME Steady, AccountInv,
         \A p \in Partitions :
           committed'[p] = committed[p] \/ \E w \in Workers : w[2] = p /\ committed'[p] = marked[w],
         \A v \in Workers :
           \/ marked'[v] \in {0, marked[v], committed[v[2]]}
           \/ Accounted(v[2], marked[v])',
         \A v \in Workers :
           Careful(v)' => Held(v) \/ Joined(v) \/ Accounted(v[2], Handled(v))',
         \A i \in keys' :
           i \in keys \/ \E pos \in Source(i)' : Accounted(pos[1], pos[2] + 1)'
  PROVE  AccountInv'
<1>1. ASSUME NEW p \in Partitions PROVE Accounted(p, committed[p])'
  <2>1. Accounted(p, committed[p])
    BY DEF AccountInv
  <2>2. Accounted(p, committed[p]) => \A n : n = committed[p] => Accounted(p, n)'
    BY AccountedStable DEF Steady, Within
  <2>3. CASE committed'[p] = committed[p]
    BY <2>1, <2>2, <2>3 DEF Accounted
  <2>4. ASSUME NEW w \in Workers, w[2] = p, committed'[p] = marked[w]
        PROVE  Accounted(p, committed[p])'
    <3>1. Accounted(p, marked[w]) /\ marked[w] \in Nat /\ marked[w] <= Len(log[p])
      BY <2>4 DEF AccountInv, Steady, Within
    <3>2. \A n : n = marked[w] => Accounted(p, n)'
      BY <3>1, AccountedStable DEF Steady
    <3> QED
      BY <2>4, <3>2 DEF Accounted
  <2> QED
    BY <2>3, <2>4
<1>2. ASSUME NEW v \in Workers PROVE \A n : n = committed[v[2]] => Accounted(v[2], n)'
  <2>1. v[2] \in Partitions
    BY WorkerPair
  <2>2. Accounted(v[2], committed[v[2]])
    BY <2>1 DEF AccountInv
  <2> QED
    BY <2>1, <2>2, AccountedStable DEF Steady, Within
<1>3. ASSUME NEW v \in Workers PROVE Accounted(v[2], marked[v])'
  <2>1. v[2] \in Partitions /\ Accounted(v[2], marked[v])
    BY WorkerPair DEF AccountInv
  <2>2. \A n : n = marked[v] => Accounted(v[2], n)'
    BY <2>1, AccountedStable DEF Steady, Within
  <2>3. CASE marked'[v] = 0
    BY <2>3 DEF Accounted
  <2>4. CASE marked'[v] = marked[v]
    BY <2>2, <2>4 DEF Accounted
  <2>5. CASE marked'[v] = committed[v[2]]
    BY <1>2, <2>5 DEF Accounted
  <2> QED
    BY <2>3, <2>4, <2>5
<1>4. ASSUME NEW v \in Workers, Careful(v)' PROVE Accounted(v[2], Handled(v))'
  <2>1. CASE Held(v)
    <3>1. v[2] \in Partitions /\ Accounted(v[2], Handled(v))
      BY <2>1, WorkerPair DEF AccountInv, Held
    <3>2. \A n : n = Handled(v) => Accounted(v[2], n)'
      BY <3>1, AccountedStable DEF Steady, Within
    <3> QED
      BY <2>1, <3>2 DEF Accounted, Held
  <2>2. CASE Joined(v)
    BY <1>2, <2>2 DEF Accounted, Joined
  <2> QED
    BY <1>4, <2>1, <2>2
<1>5. ASSUME NEW i \in keys' PROVE \E pos \in Source(i)' : Accounted(pos[1], pos[2] + 1)'
  <2>1. CASE i \in keys
    <3>1. PICK pos \in Source(i) : Accounted(pos[1], pos[2] + 1)
      BY <2>1 DEF AccountInv
    <3>2. /\ pos \in Positions /\ Delivered(pos) /\ pos[1] \in Partitions
          /\ pos[2] \in Nat /\ pos[2] + 1 <= Len(log[pos[1]])
      BY BoundsAssumption DEF Source, Positions, Delivered, Steady, IInv, TypeOK
    <3>3. Accounted(pos[1], pos[2] + 1)'
      BY <3>1, <3>2, AccountedStable DEF Steady
    <3>4. pos \in Source(i)'
      BY <3>2 DEF Source, Steady, LogGrows
    <3> QED
      BY <3>3, <3>4
  <2> QED
    BY <2>1
<1> QED
  BY <1>1, <1>3, <1>4, <1>5 DEF AccountInv

(* A step after which no worker is careful that was not, or has moved on.  *)
LEMMA AccountKept ==
  ASSUME Steady, AccountInv, committed' = committed, marked' = marked, keys' \subseteq keys,
         \A v \in Workers : Careful(v)' => Held(v)
  PROVE  AccountInv'
BY AccountStep

(* One more message.                                                       *)
LEMMA AccountedNext ==
  ASSUME Steady, NEW p \in Partitions, NEW n \in Nat, n <= Len(log[p]), Accounted(p, n),
         (Saved(<<p, n>>) \/ Shadowed(<<p, n>>))'
  PROVE  Accounted(p, n + 1)'
<1>1. Accounted(p, n)'
  BY AccountedStable DEF Steady
<1>2. \A o \in 0 .. n : o \in 0 .. n - 1 \/ o = n
  OBVIOUS
<1>3. \A o \in 0 .. (n + 1) - 1 : o \in 0 .. n
  OBVIOUS
<1> QED
  BY <1>1, <1>2, <1>3 DEF Accounted

(* A worker whose message is accounted for when it returns.                *)
LEMMA ReturnAccount ==
  ASSUME Steady, AccountInv, NEW w \in Workers, pc[w] \in Processing,
         pc' = [pc EXCEPT ![w] = "idle"], next' = next, phase' = phase, committed' = committed,
         keys' \subseteq keys,
         \A v \in Workers : v # w => marked'[v] = marked[v],
         \/ /\ Careful(w) /\ marked'[w] \in {marked[w], next[w]}
            /\ \A pos : pos = Cur(w) => (Saved(pos) \/ Shadowed(pos))'
         \/ ~Careful(w) /\ marked'[w] = marked[w]
  PROVE  AccountInv'
<1>1. /\ w[2] \in Partitions /\ Handled(w) \in Nat /\ Handled(w) <= Len(log[w[2]])
      /\ Handled(w) = next[w] - 1 /\ next[w] \in Nat /\ Handled(w)' = next[w]
      /\ Cur(w)' = Cur(w) /\ Cur(w) = <<w[2], Handled(w)>>
  BY WorkerPair DEF Steady, Within, Handled, HasMessage, Processing, Cur, IInv, TypeOK
<1>2. Careful(w) => \A n : n = next[w] => Accounted(w[2], n)'
  <2> SUFFICES ASSUME Careful(w) PROVE \A n : n = next[w] => Accounted(w[2], n)'
    OBVIOUS
  <2>1. Accounted(w[2], Handled(w))
    BY DEF AccountInv
  <2>2. \A n : n = Handled(w) =>
          (Saved(<<w[2], n>>) \/ Shadowed(<<w[2], n>>))'
    BY <1>1
  <2>3. \A n : n = Handled(w) => Accounted(w[2], n + 1)'
    BY <1>1, <2>1, <2>2, AccountedNext
  <2>4. Handled(w) + 1 = next[w]
    BY <1>1
  <2> QED
    BY <2>3, <2>4
<1>3. Careful(w)' => Careful(w)
  BY DEF Careful, Steady, IInv, TypeOK, Processing
<1>4. ASSUME NEW v \in Workers, v # w PROVE Careful(v)' => Held(v)
  BY <1>4 DEF Careful, Held, Handled, HasMessage, Processing, Steady, IInv, TypeOK
<1>5. Careful(w)' => Accounted(w[2], Handled(w))'
  BY <1>1, <1>2, <1>3 DEF Accounted
<1>6. marked'[w] # marked[w] => Accounted(w[2], marked[w])'
  BY <1>2 DEF Accounted
<1> QED
  BY <1>4, <1>5, <1>6, AccountStep

LEMMA LiveWorker ==
  ASSUME Steady, NEW w \in Workers, pc[w] # "off", ~Cancelled(w[1])
  PROVE  phase[w[1]] = "live" /\ Careful(w)
BY WorkerPair DEF Steady, IInv, WorkersOK, InSession, Cancelled, Careful

LEMMA SkipProcessedAccount ==
  ASSUME Steady, AccountInv, NEW w \in Workers, SkipProcessed(w)
  PROVE  AccountInv'
<1>1. /\ pc[w] = "check" /\ Msg(w).pid \in keys /\ Careful(w) /\ log' = log
  BY LiveWorker DEF SkipProcessed
<1>2. /\ pc' = [pc EXCEPT ![w] = "idle"] /\ next' = next /\ phase' = phase
      /\ committed' = committed /\ keys' = keys
      /\ marked' = [marked EXCEPT ![w] = next[w]] /\ marked'[w] = next[w]
      /\ \A v \in Workers : v # w => marked'[v] = marked[v]
  BY DEF SkipProcessed, ReturnNil, Leave, groupVars, storeVars, Steady, IInv, TypeOK
<1>3. ASSUME NEW pos, pos = Cur(w) PROVE (Saved(pos) \/ Shadowed(pos))'
  <2>1. /\ pos \in Positions /\ Delivered(pos) /\ MessageAt(pos) = Msg(w) /\ Msg(w) # Malformed
        /\ pos[1] \in Partitions /\ pos[2] \in Nat /\ pos = <<pos[1], pos[2]>>
    BY <1>1, <1>3, MessageInHand, WorkerPair, BoundsAssumption
    DEF HasMessage, HasEvent, Processing, Steady, IInv, WorkersOK, Positions
  <2>2. PICK q \in Source(Msg(w).pid) : Accounted(q[1], q[2] + 1)
    BY <1>1 DEF AccountInv
  <2>3. /\ q \in Positions /\ Delivered(q) /\ MessageAt(q) # Malformed
        /\ MessageAt(q).pid = MessageAt(pos).pid /\ q[1] \in Partitions /\ q[2] \in Nat
        /\ q = <<q[1], q[2]>>
    BY <2>1, BoundsAssumption DEF Source, Positions
  <2>4. q[1] = pos[1]
    BY <2>1, <2>3 DEF Steady, Homed
  <2>5. CASE q[2] >= pos[2]
    <3>1. q[2] + 1 <= Len(log[q[1]])
      BY <2>3 DEF Delivered, Steady, IInv, TypeOK
    <3>2. Accounted(q[1], q[2] + 1)'
      BY <2>2, <2>3, <3>1, AccountedStable DEF Steady
    <3>3. pos[2] \in 0 .. (q[2] + 1) - 1
      BY <2>1, <2>3, <2>5
    <3>4. (Saved(<<q[1], pos[2]>>) \/ Shadowed(<<q[1], pos[2]>>))'
      BY <3>2, <3>3 DEF Accounted
    <3> QED
      BY <2>1, <2>4, <3>4
  <2>6. CASE q[2] < pos[2]
    <3>1. q[2] \in 0 .. pos[2] - 1 /\ q = <<pos[1], q[2]>>
      BY <2>1, <2>3, <2>4, <2>6
    <3>2. MessageAt(q)' = MessageAt(q) /\ MessageAt(pos)' = MessageAt(pos)
      BY <1>1 DEF MessageAt
    <3>3. Shadowed(pos)'
      BY <2>1, <2>3, <3>1, <3>2 DEF Shadowed
    <3> QED
      BY <3>3
  <2> QED
    BY <2>1, <2>3, <2>5, <2>6
<1> QED
  BY <1>1, <1>2, <1>3, ReturnAccount DEF Processing

LEMMA PublishEventAccount ==
  ASSUME Steady, AccountInv, NEW w \in Workers, PublishEvent(w)
  PROVE  AccountInv'
<1>1. pc[w] = "publish" /\ Careful(w)
  BY DEF PublishEvent, Careful
<1>2. /\ pc' = [pc EXCEPT ![w] = "idle"] /\ next' = next /\ phase' = phase
      /\ committed' = committed /\ keys' = keys /\ marked'[w] = next[w]
      /\ \A v \in Workers : v # w => marked'[v] = marked[v]
  BY DEF PublishEvent, ReturnNil, Leave, groupVars, storeVars, Steady, IInv, TypeOK
<1>3. ASSUME NEW pos, pos = Cur(w) PROVE Saved(pos)'
  <2>1. /\ pos \in Positions /\ Delivered(pos) /\ MessageAt(pos) = Msg(w)
        /\ Msg(w) # Malformed /\ hist[RowOf(Msg(w))] # None
    BY <1>1, <1>3, PastMarkInHand
    DEF PastMark, HasEvent, Steady, IInv, WorkersOK, BackingInv, BackingOK
  <2>2. Saved(pos)
    BY <2>1 DEF Saved, Settled, Recorded
  <2> QED
    BY <2>1, <2>2, SavedStable DEF Steady
<1> QED
  BY <1>1, <1>2, <1>3, ReturnAccount DEF Processing

LEMMA IncrDLQCountAccount ==
  ASSUME Steady, AccountInv, NEW w \in Workers, IncrDLQCount(w)
  PROVE  AccountInv'
<1>1. pc[w] = "incr"
  BY DEF IncrDLQCount
<1>2. /\ pc' = [pc EXCEPT ![w] = "idle"] /\ next' = next /\ phase' = phase
      /\ committed' = committed /\ keys' = keys /\ marked' = marked
  BY DEF IncrDLQCount, ReturnErr, Leave, groupVars, storeVars
<1>3. ASSUME NEW pos, pos = Cur(w) PROVE Saved(pos)'
  <2>1. pos \in Positions /\ Delivered(pos) /\ InDLQ(pos)
    BY <1>1, <1>3, PastMarkInHand DEF PastMark, Steady, SavedInv, Sent
  <2>2. Saved(pos)
    BY <2>1 DEF Saved, Settled
  <2> QED
    BY <2>1, <2>2, SavedStable DEF Steady
<1> QED
  BY <1>1, <1>2, <1>3, ReturnAccount DEF Processing

LEMMA MarkProcessedAccount ==
  ASSUME Steady, AccountInv, NEW w \in Workers, MarkProcessed(w), Faults \subseteq StoreFaults
  PROVE  AccountInv'
<1>1. /\ pc[w] = "mark" /\ next' = next /\ phase' = phase /\ marked' = marked
      /\ committed' = committed /\ log' = log
      /\ \E l \in {"dlq", "status"} : pc' = [pc EXCEPT ![w] = l]
  BY DEF MarkProcessed, GoTo, groupVars
<1>2. /\ Cur(w) \in Positions /\ Delivered(Cur(w)) /\ MessageAt(Cur(w)) = Msg(w)
      /\ Msg(w) # Malformed
  BY <1>1, MessageInHand DEF HasMessage, HasEvent, Processing, Steady, IInv, WorkersOK
<1>3. keys' = keys \/ (~Cancelled(w[1]) /\ keys' = keys \cup {Msg(w).pid})
  <2>1. Effects(w[1], "redis") \subseteq IF Cancelled(w[1]) THEN {FALSE} ELSE {TRUE}
    BY DEF Effects, MayFail, FailureEffects, StoreFaults
  <2> QED
    BY <2>1 DEF MarkProcessed
<1>4. \A v \in Workers : Careful(v)' => Held(v)
  BY <1>1 DEF Careful, Held, Handled, HasMessage, Processing, Steady, IInv, TypeOK
<1>5. ASSUME ~Cancelled(w[1]) PROVE \E pos \in Source(Msg(w).pid)' : Accounted(pos[1], pos[2] + 1)'
  <2>1. Accounted(w[2], Handled(w))
    BY <1>1, <1>5, LiveWorker DEF AccountInv
  <2>2. PICK pos : pos = Cur(w)
    OBVIOUS
  <2>3. /\ w[2] \in Partitions /\ pos = <<w[2], Handled(w)>> /\ pos[1] = w[2] /\ pos[2] = Handled(w)
        /\ pos[2] \in Nat /\ pos[2] <= Len(log[w[2]])
    BY <1>1, <2>2, WorkerPair, CurIsHandled DEF HasMessage, Processing, Steady, Within
  <2>4. Saved(pos)'
    <3>1. pc'[w] \in PastMark /\ Cur(w)' = pos
      BY <1>1, <2>2 DEF PastMark, Cur, Steady, IInv, TypeOK
    <3> QED
      BY <3>1 DEF Saved, Pending
  <2>5. Accounted(pos[1], pos[2])
    BY <2>1, <2>3
  <2>6. pos[1] \in Partitions /\ pos = <<pos[1], pos[2]>> /\ pos[2] <= Len(log[pos[1]])
    BY <2>3
  <2>7. Accounted(pos[1], pos[2] + 1)'
    BY <2>3, <2>4, <2>5, <2>6, AccountedNext
  <2>8. pos \in Source(Msg(w).pid)'
    BY <1>1, <1>2, <2>2 DEF Source, Delivered, MessageAt, Msg
  <2> QED
    BY <2>7, <2>8
<1>6. Msg(w)' = Msg(w)
  BY <1>1 DEF Msg
<1>7. ASSUME NEW i \in keys'
      PROVE  i \in keys \/ \E pos \in Source(i)' : Accounted(pos[1], pos[2] + 1)'
  BY <1>3, <1>5, <1>6, <1>7 DEF Source
<1> QED
  BY <1>1, <1>4, <1>7, AccountStep

LEMMA EndSessionAccount ==
  ASSUME Steady, AccountInv, NEW c \in Consumers, EndSession(c)
  PROVE  AccountInv'
<1>1. ASSUME NEW p \in Partitions
      PROVE  committed'[p] = committed[p] \/ \E w \in Workers : w[2] = p /\ committed'[p] = marked[w]
  <2>1. <<c, p>> \in Workers /\ <<c, p>>[2] = p
    BY DEF Workers
  <2>2. committed'[p] = committed[p] \/ committed'[p] = marked[<<c, p>>]
    BY DEF EndSession
  <2> QED
    BY <2>1, <2>2
<1>2. \A v \in Workers : marked'[v] \in {0, marked[v]}
  BY DEF EndSession
<1>3. ASSUME NEW v \in Workers, Careful(v)' PROVE Held(v)
  <2>1. v[1] # c /\ pc'[v] = pc[v] /\ next'[v] = next[v] /\ phase'[v[1]] = phase[v[1]]
    BY <1>3, WorkerPair DEF EndSession, Careful, Steady, IInv, TypeOK
  <2> QED
    BY <1>3, <2>1 DEF Careful, Held, Handled
<1>4. keys' = keys
  BY DEF EndSession, storeVars
<1> QED
  BY <1>1, <1>2, <1>3, <1>4, AccountStep

LEMMA JoinAccount ==
  ASSUME Steady, AccountInv, NEW c \in Consumers, NEW P \in SUBSET Partitions, Join(c, P)
  PROVE  AccountInv'
<1>1. committed' = committed /\ keys' = keys
  BY DEF Join, storeVars
<1>2. \A v \in Workers : marked'[v] \in {marked[v], committed[v[2]]}
  BY DEF Join
<1>3. ASSUME NEW v \in Workers, Careful(v)' PROVE Held(v) \/ Joined(v)
  <2>1. CASE v \in {c} \X P
    <3>1. pc'[v] = "idle" /\ next'[v] = committed[v[2]]
      BY <2>1 DEF Join
    <3> QED
      BY <3>1 DEF Joined, Handled, HasMessage, Processing
  <2>2. CASE v \notin {c} \X P
    <3>1. pc'[v] = pc[v] /\ next'[v] = next[v]
      BY <2>2 DEF Join
    <3>2. v[1] # c
      BY <1>3, <3>1 DEF Join, Careful, Steady, IInv, WorkersOK, InSession
    <3>3. phase'[v[1]] = phase[v[1]]
      BY <3>2, WorkerPair DEF Join, Steady, IInv, TypeOK
    <3> QED
      BY <1>3, <3>1, <3>3 DEF Careful, Held, Handled
  <2> QED
    BY <2>1, <2>2
<1> QED
  BY <1>1, <1>2, <1>3, AccountStep

LEMMA CommitOffsetAccount ==
  ASSUME Steady, AccountInv, NEW w \in Workers, CommitOffset(w)
  PROVE  AccountInv'
<1>1. /\ committed' = [committed EXCEPT ![w[2]] = marked[w]]
      /\ UNCHANGED <<marked, pc, next, phase, keys>>
  BY DEF CommitOffset, storeVars
<1>2. \A p \in Partitions : committed'[p] = committed[p] \/ (w[2] = p /\ committed'[p] = marked[w])
  BY <1>1 DEF Steady, IInv, TypeOK
<1>3. \A v \in Workers : Careful(v)' => Held(v)
  BY <1>1 DEF Careful, Held, Handled
<1> QED
  BY <1>1, <1>2, <1>3, AccountStep

(* The steps of a worker on its way through a message, or between two.     *)
LEMMA WayAccount ==
  ASSUME Steady, AccountInv, NEW w \in Workers,
         \/ Receive(w) \/ AcquireSlot(w) \/ FinishClaim(w) \/ AcquireCancelled(w) \/ Proceed(w)
         \/ UpdateStatus(w) \/ RecordHistory(w) \/ Backoff(w) \/ PublishDLQ(w)
  PROVE  AccountInv'
<1>1. committed' = committed /\ marked' = marked /\ keys' = keys /\ phase' = phase
  BY DEF Receive, AcquireSlot, FinishClaim, AcquireCancelled, Proceed, UpdateStatus, RecordHistory,
         Backoff, PublishDLQ, GoTo, AttemptFailed, groupVars, storeVars
<1>2. ASSUME NEW v \in Workers, v # w PROVE Careful(v)' => Held(v)
  <2>1. pc'[v] = pc[v] /\ next'[v] = next[v]
    BY <1>2 DEF Receive, AcquireSlot, FinishClaim, AcquireCancelled, Proceed, UpdateStatus,
       RecordHistory, Backoff, PublishDLQ, GoTo, AttemptFailed, Steady, IInv, TypeOK
  <2> QED
    BY <1>1, <2>1 DEF Careful, Held, Handled
<1>3. Careful(w)' => Held(w)
  <2>1. CASE Receive(w)
    <3>1. pc[w] = "idle" /\ pc'[w] = "acquire" /\ next'[w] = next[w] + 1 /\ next[w] \in Nat
      BY <2>1 DEF Receive, Steady, IInv, TypeOK
    <3> QED
      BY <1>1, <3>1 DEF Careful, Held, Handled, HasMessage, Processing
  <2>2. CASE AcquireSlot(w)
    <3>1. pc[w] = "acquire" /\ pc'[w] \in {"dlq", "check"} /\ next' = next
      BY <2>2 DEF AcquireSlot, Steady, IInv, TypeOK
    <3> QED
      BY <1>1, <3>1 DEF Careful, Held, Handled, HasMessage, Processing
  <2>3. CASE FinishClaim(w) \/ AcquireCancelled(w)
    <3>1. Cancelled(w[1]) /\ pc'[w] \in {"done", "idle"}
      BY <2>3 DEF FinishClaim, AcquireCancelled, GoTo, Steady, IInv, TypeOK
    <3> QED
      BY <1>1, <3>1 DEF Careful, Cancelled
  <2>4. CASE Proceed(w) \/ UpdateStatus(w) \/ Backoff(w) \/ PublishDLQ(w)
    <3>1. pc[w] \in Processing /\ pc'[w] \in Processing \ {"publish"} /\ next' = next
      BY <2>4 DEF Proceed, UpdateStatus, Backoff, PublishDLQ, GoTo, AttemptFailed, Processing,
         Steady, IInv, TypeOK
    <3> QED
      BY <1>1, <3>1 DEF Careful, Held, Handled, HasMessage, Processing
  <2>5. CASE RecordHistory(w)
    <3>1. /\ pc[w] = "history" /\ pc'[w] \in Processing /\ next' = next
          /\ pc'[w] = "publish" => ~Cancelled(w[1])
      BY <2>5 DEF RecordHistory, GoTo, AttemptFailed, Processing, Steady, IInv, TypeOK
    <3>2. Careful(w)' => Careful(w)
      BY <1>1, <3>1, LiveWorker DEF Careful
    <3> QED
      BY <3>1, <3>2 DEF Held, Handled, HasMessage, Processing
  <2> QED
    BY <2>1, <2>2, <2>3, <2>4, <2>5
<1> QED
  BY <1>1, <1>2, <1>3, AccountKept

LEMMA NextAccount ==
  ASSUME Steady, AccountInv, [Next]_vars, Faults \subseteq StoreFaults
  PROVE  AccountInv'
<1>1. CASE UNCHANGED vars
  BY <1>1, AccountKept DEF vars, workerVars, groupVars, storeVars, Careful, Held, Handled
<1>2. ASSUME NEW p \in Partitions, NEW m \in Messages, Arrive(p, m) PROVE AccountInv'
  BY <1>2, AccountKept DEF Arrive, workerVars, groupVars, storeVars, Careful, Held, Handled
<1>3. ASSUME NEW c \in Consumers, Start(c) \/ CancelSession(c) \/ Sigterm(c) \/ Evict(c)
      PROVE  AccountInv'
  <2>1. UNCHANGED <<committed, marked, keys, pc, next>>
    BY <1>3 DEF Start, CancelSession, Sigterm, Evict, workerVars, storeVars
  <2>2. \A d \in Consumers : phase'[d] = "live" => phase[d] = "live"
    BY <1>3 DEF Start, CancelSession, Sigterm, Evict, Steady, IInv, TypeOK
  <2>3. \A v \in Workers : Careful(v)' => Held(v)
    BY <2>1, <2>2, WorkerPair DEF Careful, Held, Handled
  <2> QED
    BY <2>1, <2>3, AccountKept
<1>4. ASSUME NEW c \in Consumers, Crash(c) PROVE AccountInv'
  BY <1>4 DEF Crash, StoreFaults
<1>5. ASSUME NEW c \in Consumers, NEW pos \in Positions, LateSend(c, pos) PROVE AccountInv'
  BY <1>5, AccountKept DEF LateSend, workerVars, groupVars, storeVars, Careful, Held, Handled
<1>6. ASSUME NEW w \in Workers, HandlerStep(w) PROVE AccountInv'
  BY <1>6, WayAccount, SkipProcessedAccount, MarkProcessedAccount, IncrDLQCountAccount,
     PublishEventAccount DEF HandlerStep
<1>7. ASSUME NEW i \in Payments, Expire(i) PROVE AccountInv'
  BY <1>7, AccountKept DEF Expire, workerVars, groupVars, Careful, Held, Handled
<1>8. ASSUME NEW pos \in Positions, NEW t \in Times, Announce(pos, t) PROVE AccountInv'
  BY <1>8, AccountKept DEF Announce, workerVars, groupVars, storeVars, Careful, Held, Handled
<1> QED
  BY <1>1, <1>2, <1>3, <1>4, <1>5, <1>6, <1>7, <1>8, EndSessionAccount, JoinAccount, CommitOffsetAccount,
     WayAccount DEF Next

LEMMA AccountInvCorrect == ASSUME Faults \subseteq StoreFaults PROVE Spec => []AccountInv
<1>1. Init => AccountInv
  BY DEF Init, AccountInv, Accounted, Careful
<1>2. Faults \subseteq MildFaults
  BY DEF StoreFaults, MildFaults
<1>3. IInv /\ OffsetInv /\ BackingInv /\ SavedInv /\ Homed /\ AccountInv /\ [Next]_vars => AccountInv'
  BY <1>2, LogAppended, RowsKeptByNext, NextSaved, WithinCorrect, NextAccount DEF Steady
<1> QED
  BY <1>1, <1>2, <1>3, IInvCorrect, OffsetInvCorrect, BackingInvCorrect, SavedInvCorrect,
     HomedCorrect, PTL DEF Spec

(* When only DynamoDB fails, members are expelled and keys expire, every   *)
(* message the group's offset has passed is in the history, in the DLQ,    *)
(* shadowed by its payment's key, or still in the hands of a worker.       *)
THEOREM CommittedIsAccountedCorrect ==
  ASSUME Faults \subseteq StoreFaults PROVE Spec => []CommittedIsAccounted
<1>1. AccountInv => CommittedIsAccounted
  BY PendingInHand DEF AccountInv, Accounted, CommittedIsAccounted
<1> QED
  BY <1>1, AccountInvCorrect, PTL

-----------------------------------------------------------------------------
(* The counter of the DLQ.                                                 *)

(* The workers of live sessions that have sent to the DLQ and not counted  *)
(* it yet.                                                                 *)
Sending == {w \in Workers : pc[w] = "incr" /\ phase[w[1]] = "live"}

(* Before a first session nothing is in the DLQ; during one there is one   *)
(* process in a session, and no send has been abandoned.                   *)
FirstSession ==
  /\ sessions = 0 =>
       /\ Copies = {} /\ dlqCount = 0 /\ late = {}
       /\ \A c \in Consumers : phase[c] \notin InSession
  /\ sessions = 1 => \A c, d \in Consumers : phase[c] \in InSession /\ phase[d] \in InSession => c = d
  /\ sessions = 1 /\ (\E c \in Consumers : phase[c] = "live") =>
       late = {} /\ dlqCount + Cardinality(Sending) = Cardinality(Copies)

CountInv ==
  /\ IsFiniteSet(Copies) /\ IsFiniteSet(Sending)
  /\ dlqCount + Cardinality(Sending) <= Cardinality(Copies)
  /\ FirstSession

(* The faults by which no send to the DLQ fails and no increment is lost   *)
(* or made behind the back of a cancelled worker.                          *)
CountFaults == {"dynamo", "crash", "cancel", "evict", "expire"}

LEMMA CopyMember ==
  ASSUME NEW x PROVE x \in Copies <=> \E pos \in Positions : \E n \in 1 .. dlq[pos] : x = <<pos, n>>
BY DEF Copies

(* One more copy of one message.                                           *)
LEMMA CopyAdded ==
  ASSUME IInv, NEW pos \in Positions, dlq' = [dlq EXCEPT ![pos] = @ + 1], IsFiniteSet(Copies)
  PROVE  IsFiniteSet(Copies') /\ Cardinality(Copies') = Cardinality(Copies) + 1
<1>1. dlq \in [Positions -> Nat]
  BY DEF IInv, TypeOK
<1> DEFINE new == <<pos, dlq[pos] + 1>>
<1>2. new \notin Copies
  BY <1>1, CopyMember
<1>3. Copies' = Copies \cup {new}
  <2>1. \A x : x \in Copies' <=> \E q \in Positions : \E n \in 1 .. dlq'[q] : x = <<q, n>>
    BY DEF Copies
  <2>2. \A n : n \in 1 .. dlq'[pos] <=> n \in 1 .. dlq[pos] \/ n = dlq[pos] + 1
    BY <1>1
  <2>3. \A q \in Positions : q # pos => dlq'[q] = dlq[q]
    BY <1>1
  <2>4. \A x : x \in Copies' <=> x \in Copies \cup {new}
    BY <2>1, <2>2, <2>3, CopyMember
  <2> QED
    BY <2>4
<1> QED
  BY <1>2, <1>3, FS_AddElement

LEMMA CountTypes ==
  ASSUME IInv, CountInv
  PROVE  dlqCount \in Nat /\ Cardinality(Copies) \in Nat /\ Cardinality(Sending) \in Nat
BY FS_CardinalityType DEF IInv, TypeOK, CountInv

(* A step that sends and counts nothing, and begins no session.            *)
LEMMA CountKept ==
  ASSUME IInv, CountInv, dlq' = dlq, dlqCount' = dlqCount, late' \subseteq late,
         sessions' = sessions,
         \A c \in Consumers : phase'[c] \in InSession => phase[c] \in InSession,
         \A c \in Consumers : phase'[c] = "live" => phase[c] = "live",
         \A w \in Workers : w \in Sending' => w \in Sending,
         \A w \in Workers : w \in Sending /\ w \notin Sending' => phase'[w[1]] # "live"
  PROVE  CountInv'
<1>1. Copies' = Copies
  BY DEF Copies
<1>2. Sending' \subseteq Sending
  BY DEF Sending
<1>3. IsFiniteSet(Sending') /\ Cardinality(Sending') <= Cardinality(Sending)
      /\ Cardinality(Sending') \in Nat
  BY <1>2, FS_Subset, FS_CardinalityType DEF CountInv
<1>4. dlqCount' + Cardinality(Sending') <= Cardinality(Copies')
  BY <1>1, <1>3, CountTypes DEF CountInv
<1>5. ASSUME sessions = 1, NEW c \in Consumers, phase'[c] = "live" PROVE Sending' = Sending
  <2>1. \A w \in Workers : w \in Sending => w[1] = c
    BY <1>5, WorkerPair DEF Sending, CountInv, FirstSession, InSession
  <2> QED
    BY <1>2, <1>5, <2>1 DEF Sending
<1>6. FirstSession'
  <2>1. sessions = 0 => \A c \in Consumers : phase'[c] \notin InSession
    BY DEF CountInv, FirstSession
  <2>2. sessions = 1 =>
          \A c, d \in Consumers : phase'[c] \in InSession /\ phase'[d] \in InSession => c = d
    BY DEF CountInv, FirstSession
  <2>3. sessions = 1 /\ (\E c \in Consumers : phase'[c] = "live") =>
          late' = {} /\ dlqCount' + Cardinality(Sending') = Cardinality(Copies')
    BY <1>1, <1>5 DEF CountInv, FirstSession
  <2>4. sessions = 0 => Copies' = {} /\ dlqCount' = 0 /\ late' = {}
    BY <1>1 DEF CountInv, FirstSession
  <2> QED
    BY <2>1, <2>2, <2>3, <2>4 DEF FirstSession
<1> QED
  BY <1>1, <1>3, <1>4, <1>6 DEF CountInv

(* ... as one is that moves no worker of a live session to or from the     *)
(* increment.                                                              *)
LEMMA CountStill ==
  ASSUME IInv, CountInv, UNCHANGED <<dlq, dlqCount, late, sessions, phase>>,
         \A w \in Workers : pc'[w] = "incr" <=> pc[w] = "incr"
  PROVE  CountInv'
BY CountKept DEF Sending

LEMMA PublishDLQCount ==
  ASSUME IInv, CountInv, NEW w \in Workers, PublishDLQ(w), Faults \subseteq CountFaults
  PROVE  CountInv'
<1>1. /\ pc[w] = "dlq" /\ pc' = [pc EXCEPT ![w] = "incr"] /\ phase' = phase
      /\ sessions' = sessions /\ dlqCount' = dlqCount
      /\ w[1] \in Consumers /\ Cur(w) \in Positions
  BY WorkerPair, MessageInHand
  DEF PublishDLQ, GoTo, groupVars, IInv, HasMessage, Processing
<1>2. phase[w[1]] \in InSession
  BY <1>1 DEF IInv, WorkersOK
<1>3. CASE Cancelled(w[1])
  <2>1. dlq' = dlq /\ late' = late \cup {<<w[1], Cur(w)>>} /\ Copies' = Copies
    BY <1>3 DEF PublishDLQ, Copies
  <2>2. Sending' = Sending
    BY <1>1, <1>3 DEF Sending, Cancelled, IInv, TypeOK
  <2>3. sessions # 0 /\ (sessions = 1 => \A c \in Consumers : phase[c] # "live")
    BY <1>1, <1>2, <1>3 DEF CountInv, FirstSession, Cancelled, InSession
  <2>4. FirstSession'
    BY <1>1, <2>1, <2>3 DEF FirstSession, CountInv
  <2> QED
    BY <1>1, <2>1, <2>2, <2>4 DEF CountInv
<1>4. CASE ~Cancelled(w[1])
  <2>1. phase[w[1]] = "live"
    BY <1>2, <1>4 DEF Cancelled, InSession
  <2>2. Effects(w[1], "kafka") = {TRUE}
    BY <1>4 DEF Effects, MayFail, CountFaults
  <2>3. dlq' = [dlq EXCEPT ![Cur(w)] = @ + 1] /\ late' = late
    BY <1>4, <2>2 DEF PublishDLQ
  <2>4. IsFiniteSet(Copies') /\ Cardinality(Copies') = Cardinality(Copies) + 1
    BY <1>1, <2>3, CopyAdded DEF CountInv
  <2>5. Sending' = Sending \cup {w} /\ w \notin Sending
    BY <1>1, <2>1 DEF Sending, IInv, TypeOK
  <2>6. IsFiniteSet(Sending') /\ Cardinality(Sending') = Cardinality(Sending) + 1
    BY <2>5, FS_AddElement DEF CountInv
  <2>7. sessions # 0
    BY <1>1, <1>2 DEF CountInv, FirstSession
  <2>8. FirstSession'
    BY <1>1, <2>3, <2>4, <2>6, <2>7, CountTypes DEF FirstSession, CountInv
  <2> QED
    BY <1>1, <2>4, <2>6, <2>8, CountTypes DEF CountInv
<1> QED
  BY <1>3, <1>4

LEMMA IncrDLQCountCount ==
  ASSUME IInv, CountInv, NEW w \in Workers, IncrDLQCount(w), Faults \subseteq CountFaults
  PROVE  CountInv'
<1>1. /\ pc[w] = "incr" /\ pc' = [pc EXCEPT ![w] = "idle"] /\ phase' = phase
      /\ sessions' = sessions /\ dlq' = dlq /\ late' = late /\ Copies' = Copies
      /\ w[1] \in Consumers
  BY WorkerPair DEF IncrDLQCount, ReturnErr, Leave, groupVars, Copies
<1>2. phase[w[1]] \in InSession
  BY <1>1 DEF IInv, WorkersOK
<1>3. CASE Cancelled(w[1])
  <2>1. Effects(w[1], "redis") = {FALSE}
    BY <1>3 DEF Effects, MayFail, FailureEffects, CountFaults
  <2>2. dlqCount' = dlqCount
    BY <2>1 DEF IncrDLQCount
  <2>3. Sending' = Sending
    BY <1>1, <1>3 DEF Sending, Cancelled, IInv, TypeOK
  <2>4. FirstSession'
    BY <1>1, <2>2, <2>3 DEF FirstSession, CountInv
  <2> QED
    BY <1>1, <2>2, <2>3, <2>4 DEF CountInv
<1>4. CASE ~Cancelled(w[1])
  <2>1. phase[w[1]] = "live" /\ w \in Sending
    BY <1>1, <1>2, <1>4 DEF Cancelled, InSession, Sending
  <2>2. Effects(w[1], "redis") = {TRUE}
    BY <1>4 DEF Effects, MayFail, CountFaults
  <2>3. dlqCount' = dlqCount + 1
    BY <2>2 DEF IncrDLQCount
  <2>4. Sending' = Sending \ {w}
    BY <1>1 DEF Sending, IInv, TypeOK
  <2>5. IsFiniteSet(Sending') /\ Cardinality(Sending') = Cardinality(Sending) - 1
    BY <2>1, <2>4, FS_RemoveElement DEF CountInv
  <2>6. sessions # 0
    BY <1>1, <1>2 DEF CountInv, FirstSession
  <2>7. FirstSession'
    BY <1>1, <2>3, <2>5, <2>6, CountTypes DEF FirstSession, CountInv
  <2> QED
    BY <1>1, <2>3, <2>5, <2>7, CountTypes DEF CountInv
<1> QED
  BY <1>3, <1>4

LEMMA LateSendCount ==
  ASSUME IInv, CountInv, NEW c \in Consumers, NEW pos \in Positions, LateSend(c, pos)
  PROVE  CountInv'
<1>1. /\ <<c, pos>> \in late /\ late' = late \ {<<c, pos>>} /\ pc' = pc /\ phase' = phase
      /\ sessions' = sessions /\ dlqCount' = dlqCount
      /\ dlq' = [dlq EXCEPT ![pos] = @ + 1] \/ dlq' = dlq
  BY DEF LateSend, workerVars, groupVars
<1>2. CASE dlq' = dlq
  BY <1>1, <1>2, CountKept DEF Sending
<1>3. CASE dlq' = [dlq EXCEPT ![pos] = @ + 1]
  <2>1. IsFiniteSet(Copies') /\ Cardinality(Copies') = Cardinality(Copies) + 1
    BY <1>3, CopyAdded DEF CountInv
  <2>2. Sending' = Sending
    BY <1>1 DEF Sending
  <2>3. FirstSession'
    BY <1>1, <2>1, <2>2 DEF FirstSession, CountInv
  <2> QED
    BY <1>1, <2>1, <2>2, <2>3, CountTypes DEF CountInv
<1> QED
  BY <1>1, <1>2, <1>3

LEMMA JoinCount ==
  ASSUME IInv, CountInv, NEW c \in Consumers, NEW P \in SUBSET Partitions, Join(c, P)
  PROVE  CountInv'
<1>1. /\ phase[c] = "between" /\ phase' = [phase EXCEPT ![c] = "live"]
      /\ sessions' = sessions + 1 /\ dlq' = dlq /\ late' = late /\ dlqCount' = dlqCount
      /\ Copies' = Copies /\ sessions \in Nat
  BY BoundsAssumption DEF Join, dlqVars, Copies, IInv, TypeOK
<1>2. \A w \in Workers : w[1] = c => pc[w] = "off" /\ pc'[w] # "incr"
  BY <1>1 DEF Join, IInv, WorkersOK, InSession
<1>3. \A w \in Workers : w[1] # c => pc'[w] = pc[w] /\ phase'[w[1]] = phase[w[1]]
  BY <1>1, WorkerPair DEF Join, IInv, TypeOK
<1>4. Sending' = Sending
  BY <1>2, <1>3 DEF Sending
<1>5. ASSUME sessions = 0
      PROVE  /\ \A d \in Consumers : phase'[d] \in InSession => d = c
             /\ Sending = {} /\ Copies = {} /\ dlqCount = 0 /\ late = {}
  <2>1. \A d \in Consumers : phase'[d] \in InSession => d = c
    BY <1>1, <1>5 DEF CountInv, FirstSession, IInv, TypeOK
  <2>2. Sending = {}
    BY <1>5, WorkerPair DEF CountInv, FirstSession, Sending, InSession
  <2> QED
    BY <1>5, <2>1, <2>2 DEF CountInv, FirstSession
<1>6. FirstSession'
  BY <1>1, <1>4, <1>5, FS_EmptySet DEF FirstSession
<1> QED
  BY <1>1, <1>4, <1>6 DEF CountInv

LEMMA NextCount ==
  ASSUME IInv, CountInv, [Next]_vars, Faults \subseteq CountFaults
  PROVE  CountInv'
<1>1. CASE UNCHANGED vars
  BY <1>1, CountStill DEF vars, workerVars, groupVars, dlqVars
<1>2. ASSUME NEW p \in Partitions, NEW m \in Messages, Arrive(p, m) PROVE CountInv'
  BY <1>2, CountStill DEF Arrive, workerVars, groupVars, dlqVars
<1>3. ASSUME NEW c \in Consumers, Start(c) \/ CancelSession(c) \/ Sigterm(c) \/ Evict(c)
      PROVE  CountInv'
  <2>1. UNCHANGED <<dlq, dlqCount, late, sessions, pc>>
    BY <1>3 DEF Start, CancelSession, Sigterm, Evict, workerVars, dlqVars
  <2>2. \A d \in Consumers : /\ phase'[d] = "live" => phase[d] = "live"
                             /\ phase'[d] \in InSession => phase[d] \in InSession
    BY <1>3 DEF Start, CancelSession, Sigterm, Evict, InSession, IInv, TypeOK
  <2>3. \A w \in Workers : /\ w \in Sending' => w \in Sending
                           /\ w \in Sending /\ w \notin Sending' => phase'[w[1]] # "live"
    BY <2>1, <2>2, WorkerPair DEF Sending
  <2> QED
    BY <2>1, <2>2, <2>3, CountKept
<1>4. ASSUME NEW c \in Consumers, Crash(c) \/ EndSession(c) PROVE CountInv'
  <2>1. UNCHANGED <<dlq, dlqCount, late, sessions>>
    BY <1>4 DEF Crash, EndSession, dlqVars
  <2>2. \A d \in Consumers : /\ phase'[d] = "live" => phase[d] = "live"
                             /\ phase'[d] \in InSession => phase[d] \in InSession
    BY <1>4 DEF Crash, EndSession, InSession, IInv, TypeOK
  <2>3. phase'[c] # "live"
    BY <1>4 DEF Crash, EndSession, IInv, TypeOK
  <2>4. \A w \in Workers : /\ w[1] = c => pc'[w] # "incr"
                           /\ w[1] # c => pc'[w] = pc[w] /\ phase'[w[1]] = phase[w[1]]
    BY <1>4, WorkerPair DEF Crash, EndSession, IInv, TypeOK
  <2>5. \A w \in Workers : /\ w \in Sending' => w \in Sending
                           /\ w \in Sending /\ w \notin Sending' => phase'[w[1]] # "live"
    BY <2>3, <2>4 DEF Sending
  <2> QED
    BY <2>1, <2>2, <2>5, CountKept
<1>5. ASSUME NEW w \in Workers,
             Receive(w) \/ AcquireSlot(w) \/ CommitOffset(w) \/ HandlerStep(w),
             ~PublishDLQ(w), ~IncrDLQCount(w)
      PROVE  CountInv'
  <2>1. UNCHANGED <<dlq, dlqCount, late, sessions, phase>>
    BY <1>5 DEF Receive, AcquireSlot, CommitOffset, HandlerStep, FinishClaim, AcquireCancelled,
       SkipProcessed, Proceed, MarkProcessed, UpdateStatus, RecordHistory, Backoff, PublishEvent,
       dlqVars, groupVars
  <2>2. \E l \in Labels \ {"incr"} : pc' = pc \/ (pc[w] # "incr" /\ pc' = [pc EXCEPT ![w] = l])
    BY <1>5 DEF Receive, AcquireSlot, CommitOffset, HandlerStep, FinishClaim, AcquireCancelled,
       SkipProcessed, Proceed, MarkProcessed, UpdateStatus, RecordHistory, Backoff, PublishEvent,
       ReturnNil, Leave, GoTo, AttemptFailed, Labels, Processing
  <2>3. \A v \in Workers : pc'[v] = "incr" <=> pc[v] = "incr"
    BY <2>2 DEF IInv, TypeOK
  <2> QED
    BY <2>1, <2>3, CountStill
<1>6. ASSUME NEW i \in Payments, Expire(i) PROVE CountInv'
  BY <1>6, CountStill DEF Expire, workerVars, groupVars, dlqVars
<1>7. ASSUME NEW pos \in Positions, NEW t \in Times, Announce(pos, t) PROVE CountInv'
  BY <1>7, CountStill DEF Announce, workerVars, groupVars, dlqVars
<1> QED
  BY <1>1, <1>2, <1>3, <1>4, <1>5, <1>6, <1>7, PublishDLQCount, IncrDLQCountCount, LateSendCount,
     JoinCount DEF Next, HandlerStep

(* While Redis and Kafka answer, the counter never shows more than the DLQ *)
(* holds, for any crashes, cancellations and expulsions; in a first session *)
(* it differs by exactly the workers between the send and the increment.   *)
THEOREM CountTracksDLQCorrect ==
  ASSUME Faults \subseteq CountFaults PROVE Spec => []CountTracksDLQ
<1>1. Init => CountInv
  <2> SUFFICES ASSUME Init PROVE CountInv
    OBVIOUS
  <2>1. Copies = {}
    BY CopyMember DEF Init
  <2>2. Sending = {}
    BY DEF Init, Sending
  <2> QED
    BY <2>1, <2>2, FS_EmptySet DEF Init, CountInv, FirstSession, InSession
<1>2. IInv /\ CountInv /\ [Next]_vars => CountInv'
  BY NextCount
<1>3. IInv /\ CountInv => CountTracksDLQ
  <2> SUFFICES ASSUME IInv, CountInv PROVE CountTracksDLQ
    OBVIOUS
  <2>1. dlqCount <= Cardinality(Copies)
    BY CountTypes DEF CountInv
  <2>2. ASSUME sessions = 1, NEW c \in Consumers, phase[c] = "live"
        PROVE  {w \in Workers : pc[w] = "incr"} = Sending
    <3>1. \A w \in Workers : pc[w] = "incr" => phase[w[1]] \in InSession
      BY DEF IInv, WorkersOK
    <3>2. \A w \in Workers : pc[w] = "incr" => w[1] = c
      BY <2>2, <3>1, WorkerPair DEF CountInv, FirstSession, InSession
    <3> QED
      BY <2>2, <3>2 DEF Sending
  <2> QED
    BY <2>1, <2>2 DEF CountTracksDLQ, CountInv, FirstSession
<1> QED
  BY <1>1, <1>2, <1>3, IInvCorrect, PTL DEF Spec

-----------------------------------------------------------------------------
(* One event of a payment is applied.                                      *)

(* Redis answers, and keeps its keys.                                      *)
RedisAnswers == {"dynamo", "kafka", "crash", "cancel", "evict"}

(* The labels of a worker that has found no key for its payment, and the   *)
(* workers no call of which has been cut short by a cancelled session.     *)
Applying == {"mark", "status", "history", "backoff", "publish"}
Sure(w) == pc[w] \in {"history", "publish"} \/ (pc[w] # "off" /\ ~Cancelled(w[1]))

(* The payments of partition p below offset n have their keys.             *)
Keyed(pos) == MessageAt(pos) # Malformed => MessageAt(pos).pid \in keys
ClaimKeyed(p, n) == \A o \in 0 .. n - 1 : Keyed(<<p, o>>)

ClaimOK(w) ==
  /\ ClaimKeyed(w[2], marked[w])
  /\ Sure(w) =>
       /\ ClaimKeyed(w[2], Handled(w))
       /\ pc[w] \in Applying => First(Cur(w))
       /\ pc[w] \in PastMark => Keyed(Cur(w))

AppliedInv ==
  /\ OneEventApplied
  /\ \A p \in Partitions : ClaimKeyed(p, committed[p])
  /\ \A w \in Workers : ClaimOK(w)

Firm == IInv /\ IInv' /\ Within /\ LogGrows /\ keys \subseteq keys'

LEMMA KeyedStable ==
  ASSUME Firm, NEW pos \in Positions, Delivered(pos), Keyed(pos) PROVE Keyed(pos)'
BY DEF Firm, LogGrows, Keyed

LEMMA ClaimKeyedStable ==
  ASSUME Firm, NEW p \in Partitions, NEW n \in Nat, n <= Len(log[p]), ClaimKeyed(p, n)
  PROVE  ClaimKeyed(p, n)'
<1> SUFFICES ASSUME NEW o \in 0 .. n - 1 PROVE Keyed(<<p, o>>)'
  BY DEF ClaimKeyed
<1>1. <<p, o>> \in Positions /\ Delivered(<<p, o>>)
  BY Below DEF Firm
<1>2. Keyed(<<p, o>>)
  BY DEF ClaimKeyed
<1> QED
  BY <1>1, <1>2, KeyedStable

LEMMA FirstStable == ASSUME Firm, NEW pos \in Positions, First(pos) PROVE First(pos)'
<1>1. /\ pos[1] \in Partitions /\ pos[2] \in Nat /\ pos[2] <= Len(log[pos[1]])
      /\ pos = <<pos[1], pos[2]>> /\ Delivered(pos)
  BY BoundsAssumption DEF First, Delivered, Positions, Firm, IInv, TypeOK
<1>2. Delivered(pos)' /\ MessageAt(pos)' = MessageAt(pos)
  BY <1>1 DEF Firm, LogGrows
<1>3. \A o \in 0 .. pos[2] - 1 : MessageAt(<<pos[1], o>>)' = MessageAt(<<pos[1], o>>)
  <2> SUFFICES ASSUME NEW o \in 0 .. pos[2] - 1
               PROVE  MessageAt(<<pos[1], o>>)' = MessageAt(<<pos[1], o>>)
    OBVIOUS
  <2>1. <<pos[1], o>> \in Positions /\ Delivered(<<pos[1], o>>)
    BY <1>1, Below DEF Firm
  <2> QED
    BY <2>1 DEF Firm, LogGrows
<1> QED
  BY <1>2, <1>3 DEF First, Shadowed

LEMMA AppliedStep ==
  ASSUME Firm, AppliedInv,
         \A i \in Payments :
           status'[i] = status[i]
             \/ \E pos \in Positions :
                  First(pos) /\ MessageAt(pos).pid = i /\ MessageAt(pos).status = status'[i],
         \A r \in Rows :
           hist'[r] = hist[r]
             \/ \E pos \in Positions :
                  First(pos) /\ RowOf(MessageAt(pos)) = r /\ MessageAt(pos).status = hist'[r],
         \A p \in Partitions :
           committed'[p] = committed[p] \/ \E w \in Workers : w[2] = p /\ committed'[p] = marked[w],
         \A w \in Workers : ClaimOK(w)'
  PROVE  AppliedInv'
<1>1. \A pos \in Positions : First(pos) => First(pos)' /\ MessageAt(pos)' = MessageAt(pos)
  BY FirstStable DEF Firm, LogGrows, First
<1>2. ASSUME NEW i \in Payments, status'[i] # None
      PROVE  \E pos \in Positions :
               First(pos)' /\ MessageAt(pos)'.pid = i /\ MessageAt(pos)'.status = status'[i]
  <2>1. PICK pos \in Positions :
          First(pos) /\ MessageAt(pos).pid = i /\ MessageAt(pos).status = status'[i]
    BY <1>2 DEF AppliedInv, OneEventApplied
  <2> QED
    BY <1>1, <2>1
<1>3. ASSUME NEW r \in Rows, hist'[r] # None
      PROVE  \E pos \in Positions :
               /\ First(pos)' /\ RowOf(MessageAt(pos)') = r
               /\ MessageAt(pos)'.status = hist'[r]
  <2>1. PICK pos \in Positions :
          First(pos) /\ RowOf(MessageAt(pos)) = r /\ MessageAt(pos).status = hist'[r]
    BY <1>3 DEF AppliedInv, OneEventApplied
  <2> QED
    BY <1>1, <2>1
<1>4. OneEventApplied'
  BY <1>2, <1>3 DEF OneEventApplied, RowOf
<1>5. ASSUME NEW p \in Partitions PROVE ClaimKeyed(p, committed[p])'
  <2>1. PICK n \in Nat : n = committed'[p] /\ n <= Len(log[p]) /\ ClaimKeyed(p, n)
    BY DEF AppliedInv, ClaimOK, Firm, Within
  <2>2. ClaimKeyed(p, n)'
    BY <2>1, ClaimKeyedStable
  <2> QED
    BY <2>1, <2>2 DEF ClaimKeyed
<1> QED
  BY <1>4, <1>5 DEF AppliedInv

(* A worker that does not move.                                            *)
LEMMA ClaimStill ==
  ASSUME Firm, AppliedInv, NEW v \in Workers,
         pc'[v] = pc[v], next'[v] = next[v], marked'[v] = marked[v], Sure(v)' => Sure(v)
  PROVE  ClaimOK(v)'
<1>0. v[2] \in Partitions
  BY WorkerPair
<1>1. Handled(v)' = Handled(v) /\ Cur(v)' = Cur(v)
  BY DEF Handled, Cur
<1>2. ClaimKeyed(v[2], marked[v])'
  <2>1. ClaimKeyed(v[2], marked[v]) /\ marked[v] \in Nat /\ marked[v] <= Len(log[v[2]])
    BY DEF AppliedInv, ClaimOK, Firm, Within
  <2>2. PICK n \in Nat : n = marked[v]
    BY <2>1
  <2>3. ClaimKeyed(v[2], n)'
    BY <1>0, <2>1, <2>2, ClaimKeyedStable
  <2> QED
    BY <2>2, <2>3 DEF ClaimKeyed
<1>3. ASSUME Sure(v)
      PROVE  /\ ClaimKeyed(v[2], Handled(v))'
             /\ pc[v] \in Applying => First(Cur(v))'
             /\ pc[v] \in PastMark => Keyed(Cur(v))'
  <2>1. /\ ClaimKeyed(v[2], Handled(v)) /\ Handled(v) \in Nat /\ Handled(v) <= Len(log[v[2]])
        /\ pc[v] \in Applying => First(Cur(v))
        /\ pc[v] \in PastMark => Keyed(Cur(v))
    BY <1>3 DEF AppliedInv, ClaimOK, Firm, Within
  <2>2. PICK n \in Nat : n = Handled(v)
    BY <2>1
  <2>3. ClaimKeyed(v[2], n)'
    BY <1>0, <2>1, <2>2, ClaimKeyedStable
  <2>4. ClaimKeyed(v[2], Handled(v))'
    BY <1>1, <2>2, <2>3 DEF ClaimKeyed
  <2>5. pc[v] \in HasMessage => Cur(v) \in Positions /\ Delivered(Cur(v))
    BY MessageInHand DEF Firm, IInv
  <2>6. pc[v] \in Applying => First(Cur(v))'
    <3>1. PICK pos : pos = Cur(v)
      OBVIOUS
    <3>2. pc[v] \in Applying => pos \in Positions /\ First(pos)
      BY <2>1, <2>5, <3>1 DEF Applying, HasMessage, Processing
    <3>3. pc[v] \in Applying => First(pos)'
      BY <3>2, FirstStable
    <3> QED
      BY <1>1, <3>1, <3>3 DEF First, Delivered, Shadowed, MessageAt
  <2>7. pc[v] \in PastMark => Keyed(Cur(v))'
    <3>1. PICK pos : pos = Cur(v)
      OBVIOUS
    <3>2. pc[v] \in PastMark => pos \in Positions /\ Delivered(pos) /\ Keyed(pos)
      BY <2>1, <2>5, <3>1 DEF PastMark, HasMessage, Processing
    <3>3. pc[v] \in PastMark => Keyed(pos)'
      BY <3>2, KeyedStable
    <3> QED
      BY <1>1, <3>1, <3>3 DEF Keyed, MessageAt
  <2> QED
    BY <2>4, <2>6, <2>7
<1> QED
  BY <1>2, <1>3 DEF ClaimOK

(* A step that applies nothing: each worker stands still or is all right.  *)
LEMMA AppliedKept ==
  ASSUME Firm, AppliedInv, UNCHANGED <<status, hist>>,
         \A p \in Partitions :
           committed'[p] = committed[p] \/ \E w \in Workers : w[2] = p /\ committed'[p] = marked[w],
         \A v \in Workers :
           \/ /\ pc'[v] = pc[v] /\ next'[v] = next[v] /\ marked'[v] = marked[v]
              /\ Sure(v)' => Sure(v)
           \/ ClaimOK(v)'
  PROVE  AppliedInv'
<1>1. \A v \in Workers : ClaimOK(v)'
  BY ClaimStill
<1> QED
  BY <1>1, AppliedStep

(* A worker that goes from one call of its message to the next.            *)
LEMMA ClaimMoves ==
  ASSUME Firm, AppliedInv, NEW w \in Workers, NEW l \in HasMessage, pc[w] \in HasMessage,
         pc' = [pc EXCEPT ![w] = l], UNCHANGED <<next, marked, phase>>,
         Sure(w)' => /\ Sure(w)
                     /\ l \in Applying => First(Cur(w))
                     /\ l \in PastMark => Keyed(Cur(w)) \/ Keyed(Cur(w))'
  PROVE  \A v \in Workers : ClaimOK(v)'
<1>1. ASSUME NEW v \in Workers, v # w PROVE ClaimOK(v)'
  <2>1. pc'[v] = pc[v]
    BY <1>1 DEF Firm, IInv, TypeOK
  <2>2. Sure(v)' => Sure(v)
    BY <2>1 DEF Sure, Cancelled
  <2> QED
    BY <2>1, <2>2, ClaimStill
<1>2. ClaimOK(w)'
  <2>0. w[2] \in Partitions /\ pc'[w] = l
    BY WorkerPair DEF Firm, IInv, TypeOK
  <2>1. Cur(w) \in Positions /\ Delivered(Cur(w)) /\ Cur(w)' = Cur(w)
    BY MessageInHand DEF Firm, IInv, Cur
  <2>2. /\ ClaimKeyed(w[2], marked[w]) /\ marked[w] \in Nat /\ marked[w] <= Len(log[w[2]])
        /\ Handled(w) \in Nat /\ Handled(w) <= Len(log[w[2]])
        /\ Sure(w) => ClaimKeyed(w[2], Handled(w))
    BY DEF AppliedInv, ClaimOK, Firm, Within
  <2>3. Handled(w)' = Handled(w) /\ marked'[w] = marked[w]
    BY <2>0 DEF Handled
  <2>4. ClaimKeyed(w[2], marked[w])'
    <3>1. PICK n \in Nat : n = marked[w]
      BY <2>2
    <3>2. ClaimKeyed(w[2], n)'
      BY <2>0, <2>2, <3>1, ClaimKeyedStable
    <3> QED
      BY <2>3, <3>1, <3>2 DEF ClaimKeyed
  <2>5. ASSUME Sure(w)' PROVE ClaimKeyed(w[2], Handled(w))'
    <3>1. PICK n \in Nat : n = Handled(w)
      BY <2>2
    <3>2. ClaimKeyed(w[2], n)'
      BY <2>0, <2>2, <2>5, <3>1, ClaimKeyedStable
    <3> QED
      BY <2>3, <3>1, <3>2 DEF ClaimKeyed
  <2>6. ASSUME Sure(w)', l \in Applying PROVE First(Cur(w))'
    <3>1. PICK pos \in Positions : pos = Cur(w) /\ First(pos)
      BY <2>1, <2>6
    <3>2. First(pos)'
      BY FirstStable, <3>1
    <3> QED
      BY <2>1, <3>1, <3>2 DEF First, Delivered, Shadowed, MessageAt
  <2>7. ASSUME Sure(w)', l \in PastMark PROVE Keyed(Cur(w))'
    <3>1. PICK pos \in Positions : pos = Cur(w) /\ Delivered(pos)
      BY <2>1
    <3>2. Keyed(pos) => Keyed(pos)'
      BY <3>1, KeyedStable
    <3> QED
      BY <2>1, <2>7, <3>1, <3>2 DEF Keyed, MessageAt
  <2> QED
    BY <2>0, <2>4, <2>5, <2>6, <2>7 DEF ClaimOK
<1> QED
  BY <1>1, <1>2

(* processMessage returns: what the worker has passed now includes its     *)
(* message, which has its key if the worker goes on or marks it.           *)
LEMMA ClaimReturns ==
  ASSUME Firm, AppliedInv, NEW w \in Workers, pc[w] \in Processing,
         pc' = [pc EXCEPT ![w] = "idle"], UNCHANGED <<next, phase>>,
         marked' \in {marked, [marked EXCEPT ![w] = next[w]]},
         Sure(w)' \/ marked' # marked => Sure(w) /\ Keyed(Cur(w))
  PROVE  \A v \in Workers : ClaimOK(v)'
<1>0. /\ w[2] \in Partitions /\ pc'[w] = "idle" /\ pc[w] \in HasMessage
      /\ marked'[w] \in {marked[w], next[w]} /\ (marked' = marked => marked'[w] = marked[w])
  BY WorkerPair DEF Firm, IInv, TypeOK, HasMessage
<1>1. ASSUME NEW v \in Workers, v # w PROVE ClaimOK(v)'
  <2>1. pc'[v] = pc[v] /\ marked'[v] = marked[v]
    BY <1>1 DEF Firm, IInv, TypeOK
  <2>2. Sure(v)' => Sure(v)
    BY <2>1 DEF Sure, Cancelled
  <2> QED
    BY <2>1, <2>2, ClaimStill
<1>2. next[w] \in Nat /\ next[w] <= Len(log[w[2]]) /\ next[w] - 1 \in Nat /\ Handled(w) = next[w] - 1
  BY <1>0 DEF Firm, IInv, TypeOK, WorkersOK, Handled
<1>3. ASSUME Sure(w), Keyed(Cur(w)) PROVE ClaimKeyed(w[2], next[w])'
  <2>1. ClaimKeyed(w[2], next[w] - 1)
    BY <1>2, <1>3 DEF AppliedInv, ClaimOK
  <2>2. ClaimKeyed(w[2], next[w])
    BY <1>2, <1>3, <2>1 DEF ClaimKeyed, Cur
  <2>3. PICK n \in Nat : n = next[w]
    BY <1>2
  <2>4. ClaimKeyed(w[2], n)'
    BY <1>0, <1>2, <2>2, <2>3, ClaimKeyedStable
  <2> QED
    BY <2>3, <2>4 DEF ClaimKeyed
<1>4. ClaimKeyed(w[2], marked[w])'
  <2>1. CASE marked' = marked
    <3>1. PICK n \in Nat : n = marked[w] /\ n <= Len(log[w[2]]) /\ ClaimKeyed(w[2], n)
      BY DEF AppliedInv, ClaimOK, Firm, Within
    <3>2. ClaimKeyed(w[2], n)'
      BY <1>0, <3>1, ClaimKeyedStable
    <3> QED
      BY <2>1, <3>1, <3>2 DEF ClaimKeyed
  <2>2. CASE marked' # marked
    <3>1. ClaimKeyed(w[2], next[w])' /\ marked'[w] = next[w]
      BY <1>0, <1>3, <2>2 DEF Firm, IInv, TypeOK
    <3> QED
      BY <3>1 DEF ClaimKeyed
  <2> QED
    BY <2>1, <2>2
<1>5. Sure(w)' => ClaimKeyed(w[2], Handled(w))'
  <2>1. Handled(w)' = next[w]
    BY <1>0 DEF Handled, HasMessage, Processing
  <2> QED
    BY <1>3, <2>1 DEF ClaimKeyed
<1>6. ClaimOK(w)'
  BY <1>0, <1>4, <1>5 DEF ClaimOK, Applying, PastMark
<1> QED
  BY <1>1, <1>6

LEMMA RedisReplies ==
  ASSUME Faults \subseteq RedisAnswers, NEW c \in Consumers
  PROVE  /\ MayFail(c, "redis") <=> Cancelled(c)
         /\ FailureEffects("redis") = {FALSE}
         /\ ~Cancelled(c) => Effects(c, "redis") = {TRUE}
BY DEF RedisAnswers, MayFail, FailureEffects, Effects

LEMMA AcquireSlotApplied ==
  ASSUME Firm, AppliedInv, Early = {}, NEW w \in Workers, AcquireSlot(w) PROVE AppliedInv'
<1>1. PICK l \in {"dlq", "check"} :
        pc' = [pc EXCEPT ![w] = l] /\ (l = "dlq" => Msg(w) = Malformed)
  BY DEF AcquireSlot, Verdicts
<1>2. pc[w] \in HasMessage /\ l \in HasMessage /\ pc'[w] = l
  BY <1>1 DEF AcquireSlot, HasMessage, Processing, Firm, IInv, TypeOK
<1>3. MessageAt(Cur(w)) = Msg(w)
  BY <1>2, MessageInHand DEF Firm, IInv
<1>4. Sure(w)' => Sure(w)
  BY <1>1, <1>2 DEF AcquireSlot, Sure, Cancelled, groupVars
<1>5. l = "dlq" => Keyed(Cur(w))
  BY <1>1, <1>3 DEF Keyed
<1>6. UNCHANGED <<next, marked, phase, status, hist, committed>>
  BY DEF AcquireSlot, groupVars, storeVars
<1>7. l \notin Applying /\ (l \in PastMark => l = "dlq")
  BY DEF Applying, PastMark
<1>8. \A v \in Workers : ClaimOK(v)'
  BY <1>1, <1>2, <1>4, <1>5, <1>6, <1>7, ClaimMoves
<1> QED
  BY <1>6, <1>8, AppliedKept

LEMMA ProceedApplied ==
  ASSUME Firm, AppliedInv, Faults \subseteq RedisAnswers, NEW w \in Workers, Proceed(w)
  PROVE  AppliedInv'
<1>1. /\ pc[w] = "check" /\ pc' = [pc EXCEPT ![w] = "mark"] /\ pc'[w] = "mark"
      /\ UNCHANGED <<next, marked, phase, status, hist, committed, keys>>
  BY DEF Proceed, GoTo, groupVars, storeVars, Firm, IInv, TypeOK
<1>2. pc[w] \in HasMessage /\ "mark" \in HasMessage /\ "mark" \notin PastMark
  BY <1>1 DEF HasMessage, Processing, PastMark
<1>3. /\ Cur(w) \in Positions /\ Delivered(Cur(w)) /\ MessageAt(Cur(w)) = Msg(w)
      /\ Msg(w) # Malformed
  BY <1>1, <1>2, MessageInHand DEF Firm, IInv, WorkersOK, HasEvent
<1>4. Sure(w)' => Sure(w) /\ First(Cur(w))
  <2> SUFFICES ASSUME Sure(w)' PROVE Sure(w) /\ First(Cur(w))
    OBVIOUS
  <2>1. ~Cancelled(w[1])
    BY <1>1 DEF Sure, Cancelled
  <2>2. Sure(w)
    BY <1>1, <2>1 DEF Sure
  <2>3. Msg(w).pid \notin keys
    BY <2>1, WorkerPair, RedisReplies DEF Proceed
  <2>4. ClaimKeyed(w[2], next[w] - 1)
    BY <1>2, <2>2 DEF AppliedInv, ClaimOK, Handled
  <2>5. ~Shadowed(Cur(w))
    BY <1>3, <2>3, <2>4 DEF Shadowed, ClaimKeyed, Keyed, Cur
  <2> QED
    BY <1>3, <2>2, <2>5 DEF First
<1>5. \A v \in Workers : ClaimOK(v)'
  BY <1>1, <1>2, <1>4, ClaimMoves
<1> QED
  BY <1>1, <1>5, AppliedKept

LEMMA MarkProcessedApplied ==
  ASSUME Firm, AppliedInv, Faults \subseteq RedisAnswers, NEW w \in Workers, MarkProcessed(w)
  PROVE  AppliedInv'
<1>1. PICK l \in {"dlq", "status"} : pc' = [pc EXCEPT ![w] = l]
  BY DEF MarkProcessed, GoTo
<1>2. /\ pc[w] = "mark" /\ pc'[w] = l
      /\ UNCHANGED <<next, marked, phase, status, hist, committed, log>>
  BY <1>1 DEF MarkProcessed, GoTo, groupVars, Firm, IInv, TypeOK
<1>3. pc[w] \in HasMessage /\ l \in HasMessage
  BY <1>2 DEF HasMessage, Processing
<1>4. Sure(w)' => Sure(w) /\ First(Cur(w)) /\ Keyed(Cur(w))'
  <2> SUFFICES ASSUME Sure(w)' PROVE Sure(w) /\ First(Cur(w)) /\ Keyed(Cur(w))'
    OBVIOUS
  <2>1. ~Cancelled(w[1])
    BY <1>2 DEF Sure, Cancelled
  <2>2. Sure(w)
    BY <1>2, <2>1 DEF Sure
  <2>3. keys' = keys \cup {Msg(w).pid}
    <3>1. Effects(w[1], "redis") = {TRUE}
      BY <2>1, WorkerPair, RedisReplies
    <3>2. PICK effect \in {TRUE} : keys' = IF effect THEN keys \cup {Msg(w).pid} ELSE keys
      BY <3>1, Zenon DEF MarkProcessed
    <3> QED
      BY <3>2, Zenon
  <2>4. Keyed(Cur(w))'
    <3>1. MessageAt(Cur(w)) = Msg(w)
      BY <1>3, MessageInHand DEF Firm, IInv
    <3>2. MessageAt(Cur(w))' = MessageAt(Cur(w))
      BY <1>2 DEF MessageAt, Cur
    <3> QED
      BY <2>3, <3>1, <3>2 DEF Keyed
  <2> QED
    BY <1>2, <2>2, <2>4 DEF AppliedInv, ClaimOK, Applying
<1>5. \A v \in Workers : ClaimOK(v)'
  BY <1>1, <1>2, <1>3, <1>4, ClaimMoves
<1> QED
  BY <1>2, <1>5, AppliedKept

LEMMA UpdateStatusApplied ==
  ASSUME Firm, AppliedInv, Faults \subseteq RedisAnswers, NEW w \in Workers, UpdateStatus(w)
  PROVE  AppliedInv'
<1>1. PICK l \in {"dlq", "backoff", "history"} :
        /\ pc' = [pc EXCEPT ![w] = l]
        /\ l = "history" => ~Cancelled(w[1])
  BY DEF UpdateStatus, AttemptFailed, GoTo
<1>2. /\ pc[w] = "status" /\ pc'[w] = l
      /\ UNCHANGED <<next, marked, phase, hist, committed, log, keys>>
  BY <1>1 DEF UpdateStatus, AttemptFailed, GoTo, groupVars, Firm, IInv, TypeOK
<1>3. pc[w] \in HasMessage /\ l \in HasMessage
  BY <1>2 DEF HasMessage, Processing
<1>4. Sure(w)' => Sure(w)
  BY <1>1, <1>2 DEF Sure, Cancelled
<1>5. Sure(w) => First(Cur(w)) /\ Keyed(Cur(w))
  BY <1>2 DEF AppliedInv, ClaimOK, Applying, PastMark
<1>6. \A v \in Workers : ClaimOK(v)'
  BY <1>1, <1>2, <1>3, <1>4, <1>5, ClaimMoves
<1>7. \/ status' = status
      \/ ~Cancelled(w[1]) /\ status' = [status EXCEPT ![Msg(w).pid] = Msg(w).status]
  BY WorkerPair, RedisReplies DEF UpdateStatus
<1>8. ASSUME NEW i \in Payments, status'[i] # status[i]
      PROVE  \E pos \in Positions :
               First(pos) /\ MessageAt(pos).pid = i /\ MessageAt(pos).status = status'[i]
  <2>1. ~Cancelled(w[1]) /\ status' = [status EXCEPT ![Msg(w).pid] = Msg(w).status]
    BY <1>7, <1>8
  <2>2. i = Msg(w).pid /\ status'[i] = Msg(w).status
    BY <1>8, <2>1 DEF Firm, IInv, TypeOK
  <2>3. Cur(w) \in Positions /\ MessageAt(Cur(w)) = Msg(w)
    BY <1>3, MessageInHand DEF Firm, IInv
  <2>4. First(Cur(w))
    BY <1>2, <1>5, <2>1 DEF Sure
  <2> QED
    BY <2>2, <2>3, <2>4
<1> QED
  BY <1>2, <1>6, <1>8, AppliedStep

LEMMA RecordHistoryApplied ==
  ASSUME Firm, AppliedInv, NEW w \in Workers, RecordHistory(w) PROVE AppliedInv'
<1>1. PICK l \in {"dlq", "backoff", "publish"} : pc' = [pc EXCEPT ![w] = l]
  BY DEF RecordHistory, AttemptFailed, GoTo
<1>2. /\ pc[w] = "history" /\ pc'[w] = l
      /\ UNCHANGED <<next, marked, phase, status, committed, log, keys>>
      /\ hist' = hist \/ hist' = Put(Msg(w))
  BY <1>1 DEF RecordHistory, AttemptFailed, GoTo, groupVars, Firm, IInv, TypeOK
<1>3. pc[w] \in HasMessage /\ l \in HasMessage
  BY <1>2 DEF HasMessage, Processing
<1>4. Sure(w)
  BY <1>2 DEF Sure
<1>5. First(Cur(w)) /\ Keyed(Cur(w))
  BY <1>2, <1>4 DEF AppliedInv, ClaimOK, Applying, PastMark
<1>6. \A v \in Workers : ClaimOK(v)'
  BY <1>1, <1>2, <1>3, <1>4, <1>5, ClaimMoves
<1>7. ASSUME NEW r \in Rows, hist'[r] # hist[r]
      PROVE  \E pos \in Positions :
               First(pos) /\ RowOf(MessageAt(pos)) = r /\ MessageAt(pos).status = hist'[r]
  <2>1. hist' = [hist EXCEPT ![RowOf(Msg(w))] = Msg(w).status]
    BY <1>2, <1>7 DEF Put
  <2>2. r = RowOf(Msg(w)) /\ hist'[r] = Msg(w).status
    BY <1>7, <2>1 DEF Firm, IInv, TypeOK
  <2>3. Cur(w) \in Positions /\ MessageAt(Cur(w)) = Msg(w)
    BY <1>3, MessageInHand DEF Firm, IInv
  <2> QED
    BY <1>5, <2>2, <2>3
<1> QED
  BY <1>2, <1>6, <1>7, AppliedStep

LEMMA BackoffApplied ==
  ASSUME Firm, AppliedInv, NEW w \in Workers, Backoff(w) \/ PublishDLQ(w) PROVE AppliedInv'
<1>1. PICK l \in {"status", "dlq", "incr"} :
        pc' = [pc EXCEPT ![w] = l] /\ (l = "status" => pc[w] = "backoff")
  BY DEF Backoff, PublishDLQ, GoTo
<1>2. /\ pc[w] \in {"backoff", "dlq"} /\ pc'[w] = l
      /\ UNCHANGED <<next, marked, phase, status, hist, committed, keys>>
  BY <1>1 DEF Backoff, PublishDLQ, GoTo, groupVars, storeVars, Firm, IInv, TypeOK
<1>3. pc[w] \in HasMessage /\ l \in HasMessage
  BY <1>2 DEF HasMessage, Processing
<1>4. Sure(w)' => Sure(w)
  BY <1>1, <1>2 DEF Sure, Cancelled
<1>5. Sure(w) => Keyed(Cur(w)) /\ (l = "status" => First(Cur(w)))
  BY <1>1, <1>2 DEF AppliedInv, ClaimOK, Applying, PastMark
<1>6. l \in Applying => l = "status"
  BY DEF Applying
<1>7. \A v \in Workers : ClaimOK(v)'
  BY <1>1, <1>2, <1>3, <1>4, <1>5, <1>6, ClaimMoves
<1> QED
  BY <1>2, <1>7, AppliedKept

LEMMA ReturnsApplied ==
  ASSUME Firm, AppliedInv, NEW w \in Workers,
         SkipProcessed(w) \/ IncrDLQCount(w) \/ PublishEvent(w)
  PROVE  AppliedInv'
<1>1. /\ pc[w] \in {"check", "incr", "publish"}
      /\ pc' = [pc EXCEPT ![w] = "idle"] /\ pc'[w] = "idle"
      /\ UNCHANGED <<next, phase, status, hist, committed>>
      /\ marked' \in {marked, [marked EXCEPT ![w] = next[w]]}
  BY DEF SkipProcessed, IncrDLQCount, PublishEvent, ReturnNil, ReturnErr, Leave, groupVars,
         storeVars, Firm, IInv, TypeOK
<1>2. pc[w] \in Processing /\ pc[w] \in HasMessage
  BY <1>1 DEF Processing, HasMessage
<1>3. ASSUME Sure(w)' \/ marked' # marked PROVE Sure(w) /\ Keyed(Cur(w))
  <2>1. CASE SkipProcessed(w)
    <3>1. Sure(w)
      BY <1>1, <2>1 DEF SkipProcessed, Sure
    <3>2. Keyed(Cur(w))
      BY <1>2, <2>1, MessageInHand DEF SkipProcessed, Keyed, Firm, IInv
    <3> QED
      BY <3>1, <3>2
  <2>2. CASE IncrDLQCount(w)
    <3>1. marked' = marked /\ pc[w] = "incr"
      BY <2>2 DEF IncrDLQCount, ReturnErr
    <3>2. Sure(w)
      BY <1>1, <1>3, <3>1 DEF Sure, Cancelled
    <3> QED
      BY <3>1, <3>2 DEF AppliedInv, ClaimOK, PastMark
  <2>3. CASE PublishEvent(w)
    <3>1. pc[w] = "publish" /\ Sure(w)
      BY <2>3 DEF PublishEvent, Sure
    <3> QED
      BY <3>1 DEF AppliedInv, ClaimOK, PastMark
  <2> QED
    BY <2>1, <2>2, <2>3
<1>4. \A v \in Workers : ClaimOK(v)'
  BY <1>1, <1>2, <1>3, ClaimReturns
<1> QED
  BY <1>1, <1>4, AppliedKept

LEMMA EndedApplied ==
  ASSUME Firm, AppliedInv, NEW c \in Consumers, EndSession(c) \/ Crash(c) PROVE AppliedInv'
<1>1. /\ UNCHANGED <<status, hist>>
      /\ \A v \in Workers : v[1] = c => pc'[v] = "off" /\ marked'[v] = 0
      /\ \A v \in Workers : v[1] # c =>
           pc'[v] = pc[v] /\ next'[v] = next[v] /\ marked'[v] = marked[v]
      /\ \A d \in Consumers \ {c} : phase'[d] = phase[d]
  <2>1. UNCHANGED <<status, hist>>
    BY DEF EndSession, Crash, storeVars
  <2>2. /\ \A v \in Workers : pc'[v] = IF v[1] = c THEN "off" ELSE pc[v]
        /\ \A v \in Workers : next'[v] = IF v[1] = c THEN 0 ELSE next[v]
        /\ \A v \in Workers : marked'[v] = IF v[1] = c THEN 0 ELSE marked[v]
    BY DEF EndSession, Crash
  <2>3. \A d \in Consumers \ {c} : phase'[d] = phase[d]
    BY DEF EndSession, Crash, Firm, IInv, TypeOK
  <2> QED
    BY <2>1, <2>2, <2>3
<1>2. \A p \in Partitions :
        committed'[p] = committed[p] \/ \E w \in Workers : w[2] = p /\ committed'[p] = marked[w]
  <2>1. \A p \in Partitions : <<c, p>> \in Workers /\ <<c, p>>[2] = p
    BY DEF Workers
  <2>2. CASE EndSession(c)
    <3>1. \A p \in Partitions : committed'[p] = committed[p] \/ committed'[p] = marked[<<c, p>>]
      BY <2>2 DEF EndSession
    <3> QED
      BY <2>1, <3>1
  <2>3. CASE Crash(c)
    BY <2>3 DEF Crash
  <2> QED
    BY <2>2, <2>3
<1>3. ASSUME NEW v \in Workers, v[1] = c PROVE ClaimOK(v)'
  <2>1. pc'[v] = "off" /\ marked'[v] = 0
    BY <1>1, <1>3
  <2> QED
    BY <2>1 DEF ClaimOK, ClaimKeyed, Sure
<1>4. ASSUME NEW v \in Workers, v[1] # c
      PROVE  /\ pc'[v] = pc[v] /\ next'[v] = next[v] /\ marked'[v] = marked[v]
             /\ Sure(v)' => Sure(v)
  <2>1. /\ pc'[v] = pc[v] /\ next'[v] = next[v] /\ marked'[v] = marked[v]
        /\ phase'[v[1]] = phase[v[1]]
    BY <1>1, <1>4, WorkerPair
  <2> QED
    BY <2>1 DEF Sure, Cancelled
<1> QED
  BY <1>1, <1>2, <1>3, <1>4, AppliedKept

LEMMA JoinApplied ==
  ASSUME Firm, AppliedInv, NEW c \in Consumers, NEW P \in SUBSET Partitions, Join(c, P)
  PROVE  AppliedInv'
<1>1. UNCHANGED <<status, hist, committed>>
  BY DEF Join, storeVars
<1>2. ASSUME NEW v \in Workers, v \in {c} \X P PROVE ClaimOK(v)'
  <2>1. /\ pc'[v] = "idle" /\ next'[v] = committed[v[2]] /\ marked'[v] = committed[v[2]]
    BY <1>2 DEF Join
  <2>2. v[2] \in Partitions
    BY WorkerPair
  <2>3. PICK n \in Nat : n = committed[v[2]] /\ n <= Len(log[v[2]]) /\ ClaimKeyed(v[2], n)
    BY <2>2 DEF AppliedInv, Firm, Within
  <2>4. ClaimKeyed(v[2], n)'
    BY <2>2, <2>3, ClaimKeyedStable
  <2>5. Handled(v)' = n /\ marked'[v] = n
    BY <2>1, <2>3 DEF Handled, HasMessage, Processing
  <2> QED
    BY <2>1, <2>4, <2>5 DEF ClaimOK, ClaimKeyed, Applying, PastMark
<1>3. ASSUME NEW v \in Workers, v \notin {c} \X P
      PROVE  /\ pc'[v] = pc[v] /\ next'[v] = next[v] /\ marked'[v] = marked[v]
             /\ Sure(v)' => Sure(v)
  <2>1. pc'[v] = pc[v] /\ next'[v] = next[v] /\ marked'[v] = marked[v]
    BY <1>3 DEF Join
  <2>2. v[1] # c => phase'[v[1]] = phase[v[1]]
    BY DEF Join, Firm, IInv, TypeOK
  <2>3. v[1] = c => pc[v] = "off"
    BY DEF Join, InSession, Firm, IInv, WorkersOK
  <2> QED
    BY <2>1, <2>2, <2>3 DEF Sure, Cancelled
<1> QED
  BY <1>1, <1>2, <1>3, AppliedKept

LEMMA ClaimEndsApplied ==
  ASSUME Firm, AppliedInv, NEW w \in Workers,
         Receive(w) \/ FinishClaim(w) \/ AcquireCancelled(w)
  PROVE  AppliedInv'
<1>1. /\ UNCHANGED <<status, hist, committed, marked, phase>>
      /\ \A v \in Workers : v # w => pc'[v] = pc[v] /\ next'[v] = next[v]
  BY DEF Receive, FinishClaim, AcquireCancelled, GoTo, groupVars, storeVars, Firm, IInv, TypeOK
<1>2. ASSUME NEW v \in Workers, v # w
      PROVE  /\ pc'[v] = pc[v] /\ next'[v] = next[v] /\ marked'[v] = marked[v]
             /\ Sure(v)' => Sure(v)
  BY <1>1, <1>2 DEF Sure, Cancelled
<1>3. PICK n \in Nat : n = marked[w] /\ n <= Len(log[w[2]]) /\ ClaimKeyed(w[2], n)
  BY DEF AppliedInv, ClaimOK, Firm, Within
<1>4. ClaimKeyed(w[2], n)' /\ marked'[w] = n
  BY <1>1, <1>3, WorkerPair, ClaimKeyedStable
<1>5. CASE Receive(w)
  <2>1. /\ pc[w] = "idle" /\ pc'[w] = "acquire" /\ next'[w] = next[w] + 1 /\ next[w] \in Nat
    BY <1>5 DEF Receive, Firm, IInv, TypeOK
  <2>2. Handled(w) = next[w] /\ Handled(w)' = next[w]
    BY <2>1 DEF Handled, HasMessage, Processing
  <2>3. Sure(w)' => ClaimKeyed(w[2], next[w])
    BY <1>1, <2>1, <2>2 DEF Sure, Cancelled, AppliedInv, ClaimOK
  <2>4. PICK k \in Nat : k = next[w] /\ k <= Len(log[w[2]])
    BY <2>1, <2>2 DEF Firm, Within
  <2>5. Sure(w)' => ClaimKeyed(w[2], k)'
    BY <2>3, <2>4, WorkerPair, ClaimKeyedStable
  <2>6. ClaimOK(w)'
    BY <1>4, <2>1, <2>2, <2>4, <2>5 DEF ClaimOK, ClaimKeyed, Applying, PastMark
  <2> QED
    BY <1>1, <1>2, <2>6, AppliedKept
<1>6. CASE FinishClaim(w) \/ AcquireCancelled(w)
  <2>1. pc'[w] \in {"done", "idle"} /\ Cancelled(w[1])
    BY <1>6 DEF FinishClaim, AcquireCancelled, GoTo, Firm, IInv, TypeOK
  <2>2. ~Sure(w)'
    BY <1>1, <2>1 DEF Sure, Cancelled
  <2>3. ClaimOK(w)'
    BY <1>4, <2>2 DEF ClaimOK, ClaimKeyed
  <2> QED
    BY <1>1, <1>2, <2>3, AppliedKept
<1> QED
  BY <1>5, <1>6

LEMMA NextApplied ==
  ASSUME Firm, AppliedInv, [Next]_vars, Faults \subseteq RedisAnswers, Early = {}
  PROVE  AppliedInv'
<1> DEFINE Still == /\ UNCHANGED <<status, hist, committed, pc, next, marked>>
                    /\ \A c \in Consumers : ~Cancelled(c)' => ~Cancelled(c)
<1>1. ASSUME Still PROVE AppliedInv'
  <2>1. \A v \in Workers : Sure(v)' => Sure(v)
    BY <1>1, WorkerPair DEF Sure
  <2> QED
    BY <1>1, <2>1, AppliedKept
<1>2. CASE UNCHANGED vars
  <2>1. Still
    BY <1>2 DEF vars, workerVars, groupVars, storeVars, Cancelled
  <2> QED
    BY <1>1, <2>1
<1>3. ASSUME NEW p \in Partitions, NEW m \in Messages, Arrive(p, m) PROVE AppliedInv'
  <2>1. Still
    BY <1>3 DEF Arrive, workerVars, groupVars, storeVars, Cancelled
  <2> QED
    BY <1>1, <2>1
<1>4. ASSUME NEW c \in Consumers, Start(c) \/ CancelSession(c) \/ Sigterm(c) \/ Evict(c)
      PROVE  AppliedInv'
  <2>1. Still
    BY <1>4 DEF Start, CancelSession, Sigterm, Evict, workerVars, storeVars, Cancelled, Firm,
                IInv, TypeOK
  <2> QED
    BY <1>1, <2>1
<1>5. ASSUME NEW c \in Consumers, NEW pos \in Positions, LateSend(c, pos) PROVE AppliedInv'
  <2>1. Still
    BY <1>5 DEF LateSend, workerVars, groupVars, storeVars, Cancelled
  <2> QED
    BY <1>1, <2>1
<1>6. ASSUME NEW w \in Workers, CommitOffset(w) PROVE AppliedInv'
  <2>1. /\ UNCHANGED <<status, hist, pc, next, marked, phase>>
        /\ committed' = [committed EXCEPT ![w[2]] = marked[w]]
    BY <1>6 DEF CommitOffset, storeVars
  <2>2. \A p \in Partitions :
          committed'[p] = committed[p] \/ \E v \in Workers : v[2] = p /\ committed'[p] = marked[v]
    BY <2>1 DEF Firm, IInv, TypeOK
  <2>3. \A v \in Workers : Sure(v)' => Sure(v)
    BY <2>1 DEF Sure, Cancelled
  <2> QED
    BY <2>1, <2>2, <2>3, AppliedKept
<1>7. ASSUME NEW i \in Payments, Expire(i) PROVE AppliedInv'
  BY <1>7 DEF Expire, RedisAnswers
<1>8. ASSUME NEW pos \in Positions, NEW t \in Times, Announce(pos, t) PROVE AppliedInv'
  <2>1. Still
    BY <1>8 DEF Announce, workerVars, groupVars, storeVars, Cancelled
  <2> QED
    BY <1>1, <2>1
<1>9. ASSUME NEW w \in Workers, HandlerStep(w) PROVE AppliedInv'
  BY <1>9, ClaimEndsApplied, ProceedApplied, MarkProcessedApplied, UpdateStatusApplied,
     RecordHistoryApplied, BackoffApplied, ReturnsApplied DEF HandlerStep
<1> QED
  BY <1>2, <1>3, <1>4, <1>5, <1>6, <1>7, <1>8, <1>9, EndedApplied, JoinApplied, ClaimEndsApplied,
     AcquireSlotApplied DEF Next

LEMMA KeysKept ==
  ASSUME Faults \subseteq RedisAnswers, [Next]_vars PROVE keys \subseteq keys'
BY DEF RedisAnswers, Next, vars, storeVars, Arrive, Start, CancelSession, Sigterm, Evict, Crash,
       EndSession, Join, LateSend, Receive, AcquireSlot, CommitOffset, HandlerStep, FinishClaim,
       AcquireCancelled, SkipProcessed, Proceed, MarkProcessed, UpdateStatus, RecordHistory,
       Backoff, PublishDLQ, IncrDLQCount, PublishEvent, Expire, Announce

(* While Redis answers and no event is dated ahead, only the first event   *)
(* of a payment in the topic is ever applied, however many processes       *)
(* handle it at once, crash, are cancelled or expelled.                    *)
THEOREM OneEventAppliedCorrect ==
  ASSUME Faults \subseteq RedisAnswers, Early = {} PROVE Spec => []OneEventApplied
<1>1. Init => AppliedInv
  BY DEF Init, AppliedInv, OneEventApplied, ClaimOK, ClaimKeyed, Sure
<1>2. IInv /\ IInv' /\ OffsetInv /\ BackingInv /\ AppliedInv /\ [Next]_vars => AppliedInv'
  BY NextApplied, WithinCorrect, LogAppended, KeysKept DEF Firm
<1>3. AppliedInv => OneEventApplied
  BY DEF AppliedInv
<1> QED
  BY <1>1, <1>2, <1>3, IInvCorrect, OffsetInvCorrect, BackingInvCorrect, PTL DEF Spec
=============================================================================
