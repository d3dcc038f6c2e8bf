------------------------ MODULE PaymentConsumerProofs ------------------------
(***************************************************************************)
(* Theorems about PaymentConsumer for every value of its constants.        *)
(***************************************************************************)
EXTENDS PaymentConsumer, FiniteSetTheorems, TLAPS

LEMMA WorkerPair ==
  ASSUME NEW w \in Workers
  PROVE  w[1] \in Consumers /\ w[2] \in Partitions /\ w = <<w[1], w[2]>>
BY DEF Workers

LEMMA MessageInHand ==
  ASSUME TypeOK, WorkersOK, NEW w \in Workers, pc[w] \in HasMessage
  PROVE  /\ Cur(w) \in Positions
         /\ Msg(w) \in Messages
         /\ Delivered(Cur(w))
         /\ MessageAt(Cur(w)) = Msg(w)
BY WorkerPair, BoundsAssumption DEF TypeOK, WorkersOK, Cur, Msg, Positions, Delivered, MessageAt

LEMMA InitIInv == Init => IInv
<1> SUFFICES ASSUME Init PROVE IInv
  OBVIOUS
<1>1. TypeOK
  BY EventsAssumption, BoundsAssumption
  DEF Init, TypeOK, Labels, Phases, Positions, Rows
<1>2. SlotsHeld
  <2>1. \A c \in Consumers : {p \in Partitions : pc[<<c, p>>] \in Processing} = {}
    BY DEF Init, Processing, Workers
  <2> QED
    BY <2>1, FS_EmptySet DEF Init, SlotsHeld
<1>3. WorkersOK
  BY DEF Init, WorkersOK, HasMessage, HasEvent, Processing
<1> QED
  BY <1>1, <1>2, <1>3 DEF IInv


LEMMA EventInHand ==
  ASSUME TypeOK, WorkersOK, NEW w \in Workers, pc[w] \in HasEvent
  PROVE  /\ Msg(w) \in Events
         /\ Msg(w).pid \in Payments
         /\ Msg(w).status \in Statuses
         /\ RowOf(Msg(w)) \in Rows
<1>1. pc[w] \in HasMessage
  BY DEF HasEvent, HasMessage, Processing
<1>2. Msg(w) \in Events
  BY <1>1, MessageInHand DEF WorkersOK, Messages
<1> QED
  BY <1>2, EventsAssumption DEF RowOf, Rows

-----------------------------------------------------------------------------
(* The semaphore: slots[c] counts the workers of c in processMessage.      *)

Holders(c) == {p \in Partitions : pc[<<c, p>>] \in Processing}

LEMMA RemoveOne ==
  ASSUME NEW S, IsFiniteSet(S), NEW x \in S
  PROVE  Cardinality(S \ {x}) = Cardinality(S) - 1
<1>1. Cardinality(S \ {x}) = IF x \in S THEN Cardinality(S) - 1 ELSE Cardinality(S)
  BY FS_RemoveElement
<1> QED
  BY <1>1

LEMMA HoldersFinite == \A c \in Consumers : IsFiniteSet(Holders(c)) /\ Cardinality(Holders(c)) \in Nat
<1>1. \A c \in Consumers : Holders(c) \subseteq Partitions
  BY DEF Holders
<1> QED
  BY <1>1, FS_Subset, FS_CardinalityType, BoundsAssumption

LEMMA SameHolders ==
  ASSUME IInv, slots' = slots,
         \A w \in Workers : pc[w] \in Processing <=> pc'[w] \in Processing
  PROVE  SlotsHeld'
<1>1. \A c \in Consumers : Holders(c)' = Holders(c)
  BY DEF Holders, Workers
<1> QED
  BY <1>1 DEF IInv, SlotsHeld, Holders

LEMMA HolderLeaves ==
  ASSUME IInv, NEW w \in Workers, pc[w] \in Processing, NEW l \in Labels \ Processing,
         pc' = [pc EXCEPT ![w] = l],
         slots' = [slots EXCEPT ![w[1]] = @ - 1]
  PROVE  /\ slots' \in [Consumers -> 0 .. WorkerCount]
         /\ SlotsHeld'
<1> DEFINE c == w[1]
           p == w[2]
<1>1. c \in Consumers /\ p \in Partitions /\ w = <<c, p>>
  BY WorkerPair
<1>0. \A d \in Consumers, q \in Partitions :
        pc'[<<d, q>>] = IF <<d, q>> = <<c, p>> THEN l ELSE pc[<<d, q>>]
  BY <1>1 DEF IInv, TypeOK, Workers
<1>2. p \in Holders(c) /\ Holders(c)' = Holders(c) \ {p}
  <2>1. p \in Holders(c)
    BY <1>1 DEF Holders
  <2>2. \A q \in Partitions : pc'[<<c, q>>] \in Processing <=> (q # p /\ pc[<<c, q>>] \in Processing)
    BY <1>1, <1>0
  <2> QED
    BY <2>1, <2>2 DEF Holders
<1>3. \A d \in Consumers \ {c} : Holders(d)' = Holders(d)
  BY <1>0 DEF Holders
<1>4. slots[c] = Cardinality(Holders(c)) /\ slots[c] \in 0 .. WorkerCount
  BY <1>1 DEF IInv, SlotsHeld, TypeOK, Holders
<1>5. Cardinality(Holders(c)') = Cardinality(Holders(c)) - 1
  <2>1. IsFiniteSet(Holders(c))
    BY <1>1, HoldersFinite
  <2>2. Cardinality(Holders(c) \ {p}) = Cardinality(Holders(c)) - 1
    BY <1>2, <2>1, RemoveOne
  <2> QED
    BY <1>2, <2>2
<1>6. slots[c] # 0
  BY <1>1, <1>2, <1>4, HoldersFinite, FS_EmptySet
<1>7. slots' \in [Consumers -> 0 .. WorkerCount]
  BY <1>1, <1>4, <1>6, BoundsAssumption DEF IInv, TypeOK
<1>8. \A d \in Consumers : slots'[d] = Cardinality(Holders(d)')
  <2>1. slots'[c] = Cardinality(Holders(c)')
    BY <1>1, <1>4, <1>5 DEF IInv, TypeOK
  <2>2. ASSUME NEW d \in Consumers \ {c} PROVE slots'[d] = Cardinality(Holders(d)')
    BY <1>3 DEF IInv, TypeOK, SlotsHeld, Holders
  <2> QED
    BY <1>1, <2>1, <2>2
<1> QED
  BY <1>7, <1>8 DEF SlotsHeld, Holders

LEMMA HolderEnters ==
  ASSUME IInv, NEW w \in Workers, pc[w] \notin Processing, NEW l \in Processing,
         slots[w[1]] < WorkerCount,
         pc' = [pc EXCEPT ![w] = l],
         slots' = [slots EXCEPT ![w[1]] = @ + 1]
  PROVE  /\ slots' \in [Consumers -> 0 .. WorkerCount]
         /\ SlotsHeld'
<1> DEFINE c == w[1]
           p == w[2]
<1>1. c \in Consumers /\ p \in Partitions /\ w = <<c, p>>
  BY WorkerPair
<1>0. \A d \in Consumers, q \in Partitions :
        pc'[<<d, q>>] = IF <<d, q>> = <<c, p>> THEN l ELSE pc[<<d, q>>]
  BY <1>1 DEF IInv, TypeOK, Workers
<1>2. p \notin Holders(c) /\ Holders(c)' = Holders(c) \cup {p}
  <2>1. p \notin Holders(c)
    BY <1>1 DEF Holders
  <2>2. \A q \in Partitions : pc'[<<c, q>>] \in Processing <=> (q = p \/ pc[<<c, q>>] \in Processing)
    BY <1>1, <1>0
  <2> QED
    BY <1>1, <2>1, <2>2 DEF Holders
<1>3. \A d \in Consumers \ {c} : Holders(d)' = Holders(d)
  BY <1>0 DEF Holders
<1>4. slots[c] = Cardinality(Holders(c)) /\ slots[c] \in 0 .. WorkerCount
  BY <1>1 DEF IInv, SlotsHeld, TypeOK, Holders
<1>5. Cardinality(Holders(c)') = Cardinality(Holders(c)) + 1
  <2>1. IsFiniteSet(Holders(c))
    BY <1>1, HoldersFinite
  <2>2. Cardinality(Holders(c) \cup {p}) = Cardinality(Holders(c)) + 1
    BY <1>2, <2>1, FS_AddElement
  <2> QED
    BY <1>2, <2>2
<1>6. slots' \in [Consumers -> 0 .. WorkerCount]
  BY <1>1, <1>4, BoundsAssumption DEF IInv, TypeOK
<1>7. \A d \in Consumers : slots'[d] = Cardinality(Holders(d)')
  <2>1. slots'[c] = Cardinality(Holders(c)')
    BY <1>1, <1>4, <1>5 DEF IInv, TypeOK
  <2>2. ASSUME NEW d \in Consumers \ {c} PROVE slots'[d] = Cardinality(Holders(d)')
    BY <1>3 DEF IInv, TypeOK, SlotsHeld, Holders
  <2> QED
    BY <1>1, <2>1, <2>2
<1> QED
  BY <1>6, <1>7 DEF SlotsHeld, Holders

(* No worker of c is in processMessage after the step, nor holds a slot.   *)
LEMMA HoldersGone ==
  ASSUME IInv, NEW c \in Consumers,
         pc' = [w \in Workers |-> IF w[1] = c THEN "off" ELSE pc[w]],
         slots' = [slots EXCEPT ![c] = 0]
  PROVE  /\ slots' \in [Consumers -> 0 .. WorkerCount]
         /\ SlotsHeld'
<1>1. Holders(c)' = {}
  BY DEF Holders, Workers, Processing
<1>2. \A d \in Consumers \ {c} : Holders(d)' = Holders(d)
  BY DEF Holders, Workers
<1>3. slots' \in [Consumers -> 0 .. WorkerCount]
  BY BoundsAssumption DEF IInv, TypeOK
<1>4. slots'[c] = Cardinality(Holders(c)')
  BY <1>1, FS_EmptySet DEF IInv, TypeOK
<1>5. ASSUME NEW d \in Consumers \ {c} PROVE slots'[d] = Cardinality(Holders(d)')
  BY <1>2 DEF IInv, TypeOK, SlotsHeld, Holders
<1> QED
  BY <1>3, <1>4, <1>5 DEF SlotsHeld, Holders

-----------------------------------------------------------------------------
(* IInv is inductive: one lemma per shape of step.                         *)

(* A step of worker w alone that neither takes nor returns a slot.         *)
LEMMA LocalStep ==
  ASSUME IInv, NEW w \in Workers, NEW l \in Labels, pc[w] # "off",
         GoTo(w, l), log' = log, phase' = phase,
         attempt' = [attempt EXCEPT ![w] = attempt'[w]],
         pc[w] \in Processing <=> l \in Processing,
         l \in HasMessage => pc[w] \in HasMessage,
         l \in HasEvent => pc[w] \in HasEvent,
         l = "backoff" => attempt'[w] < MaxAttempts
  PROVE  SlotsHeld' /\ WorkersOK'
<1>1. SlotsHeld'
  BY SameHolders DEF GoTo, IInv, TypeOK
<1>2. ASSUME NEW v \in Workers
      PROVE  /\ phase'[v[1]] \notin InSession => pc'[v] = "off"
             /\ pc'[v] \in HasMessage => next'[v] \in 1 .. Len(log'[v[2]])
             /\ pc'[v] \in HasEvent => Msg(v)' # Malformed
             /\ pc'[v] = "backoff" => attempt'[v] < MaxAttempts
  <2>1. CASE v = w
    BY <2>1 DEF IInv, TypeOK, WorkersOK, GoTo, Msg
  <2>2. CASE v # w
    BY <2>2 DEF IInv, TypeOK, WorkersOK, GoTo, Msg
  <2> QED
    BY <2>1, <2>2
<1> QED
  BY <1>1, <1>2 DEF WorkersOK

(* processMessage returns.                                                 *)
LEMMA LeaveStep ==
  ASSUME IInv, NEW w \in Workers, pc[w] \in Processing,
         Leave(w), log' = log, phase' = phase, next' = next
  PROVE  /\ SlotsHeld' /\ WorkersOK'
         /\ pc' \in [Workers -> Labels]
         /\ slots' \in [Consumers -> 0 .. WorkerCount]
         /\ attempt' \in [Workers -> 0 .. MaxAttempts]
         /\ tried' \subseteq Positions
<1>1. SlotsHeld' /\ slots' \in [Consumers -> 0 .. WorkerCount]
  <2>1. "idle" \in Labels \ Processing
    BY DEF Labels, Processing
  <2> QED
    BY <2>1, HolderLeaves DEF Leave
<1>2. WorkersOK'
  <2>1. phase[w[1]] \in InSession
    BY DEF IInv, WorkersOK, Processing
  <2>2. ASSUME NEW v \in Workers
        PROVE  /\ phase'[v[1]] \notin InSession => pc'[v] = "off"
               /\ pc'[v] \in HasMessage => next'[v] \in 1 .. Len(log'[v[2]])
               /\ pc'[v] \in HasEvent => Msg(v)' # Malformed
               /\ pc'[v] = "backoff" => attempt'[v] < MaxAttempts
    <3>1. CASE v = w
      BY <2>1, <3>1 DEF Leave, IInv, TypeOK, HasMessage, HasEvent, Processing
    <3>2. CASE v # w
      BY <3>2 DEF Leave, IInv, TypeOK, WorkersOK, Msg
    <3> QED
      BY <3>1, <3>2
  <2> QED
    BY <2>2 DEF WorkersOK
<1>3. Cur(w) \in Positions
  BY MessageInHand DEF IInv, HasMessage
<1> QED
  BY <1>1, <1>2, <1>3, BoundsAssumption DEF Leave, IInv, TypeOK, Labels

LEMMA ReceiveIInv == ASSUME IInv, NEW w \in Workers, Receive(w) PROVE IInv'
<1>1. TypeOK'
  <2>1. pc' \in [Workers -> Labels] /\ next' \in [Workers -> Nat]
    BY DEF IInv, TypeOK, Receive, Labels
  <2> QED
    BY <2>1 DEF IInv, TypeOK, Receive, groupVars, storeVars, dlqVars, ghostVars
<1>2. SlotsHeld'
  BY SameHolders DEF IInv, TypeOK, Receive, Processing
<1>3. WorkersOK'
  <2>1. next[w] + 1 \in 1 .. Len(log[w[2]])
    BY WorkerPair DEF IInv, TypeOK, Receive
  <2>2. ASSUME NEW v \in Workers
        PROVE  /\ phase'[v[1]] \notin InSession => pc'[v] = "off"
               /\ pc'[v] \in HasMessage => next'[v] \in 1 .. Len(log'[v[2]])
               /\ pc'[v] \in HasEvent => Msg(v)' # Malformed
               /\ pc'[v] = "backoff" => attempt'[v] < MaxAttempts
    <3>1. CASE v = w
      BY <2>1, <3>1 DEF IInv, TypeOK, WorkersOK, Receive, groupVars, HasEvent
    <3>2. CASE v # w
      BY <3>2 DEF IInv, TypeOK, WorkersOK, Receive, groupVars, Msg
    <3> QED
      BY <3>1, <3>2
  <2> QED
    BY <2>2 DEF WorkersOK
<1> QED
  BY <1>1, <1>2, <1>3 DEF IInv

LEMMA AcquireSlotIInv == ASSUME IInv, NEW w \in Workers, AcquireSlot(w) PROVE IInv'
<1>0. PICK l \in {"dlq", "check"} :
        pc' = [pc EXCEPT ![w] = l] /\ (l = "check" => Msg(w) # Malformed)
  <2>1. PICK verdict \in Verdicts(Msg(w)) :
          pc' = [pc EXCEPT ![w] = IF verdict = "refused" THEN "dlq" ELSE "check"]
    BY DEF AcquireSlot
  <2>2. Msg(w) = Malformed => verdict = "refused"
    <3>1. Msg(w) = Malformed => Verdicts(Msg(w)) = {"refused"}
      BY EventsAssumption DEF Verdicts
    <3> QED
      BY <3>1
  <2> QED
    BY <2>1, <2>2
<1>1. SlotsHeld' /\ slots' \in [Consumers -> 0 .. WorkerCount]
  <2>1. l \in Processing /\ pc[w] \notin Processing
    BY DEF AcquireSlot, Processing
  <2> QED
    BY <1>0, <2>1, HolderEnters DEF AcquireSlot
<1>2. TypeOK'
  <2>1. pc' \in [Workers -> Labels]
    BY <1>0 DEF IInv, TypeOK, Labels, Processing
  <2> QED
    BY <1>1, <2>1 DEF IInv, TypeOK, AcquireSlot, groupVars, storeVars, dlqVars, ghostVars
<1>3. ASSUME NEW v \in Workers
      PROVE  /\ phase'[v[1]] \notin InSession => pc'[v] = "off"
             /\ pc'[v] \in HasMessage => next'[v] \in 1 .. Len(log'[v[2]])
             /\ pc'[v] \in HasEvent => Msg(v)' # Malformed
             /\ pc'[v] = "backoff" => attempt'[v] < MaxAttempts
  <2>0. next' = next /\ log' = log /\ phase' = phase /\ attempt' = attempt
    BY DEF AcquireSlot, groupVars
  <2>1. CASE v = w
    <3>1. /\ pc[v] = "acquire" /\ pc[v] \in HasMessage /\ pc[v] # "off"
          /\ pc'[v] = l /\ l # "backoff" /\ (l \in HasEvent => l = "check")
      BY <1>0, <2>1 DEF IInv, TypeOK, AcquireSlot, HasMessage, HasEvent, Processing
    <3>2. Msg(v)' = Msg(v)
      BY <2>0 DEF Msg
    <3> QED
      BY <1>0, <2>0, <2>1, <3>1, <3>2 DEF IInv, WorkersOK
  <2>2. CASE v # w
    <3>1. pc'[v] = pc[v]
      BY <1>0, <2>2 DEF IInv, TypeOK
    <3> QED
      BY <2>0, <3>1 DEF IInv, WorkersOK, Msg
  <2> QED
    BY <2>1, <2>2
<1> QED
  BY <1>1, <1>2, <1>3 DEF IInv, WorkersOK

LEMMA FinishClaimIInv == ASSUME IInv, NEW w \in Workers, FinishClaim(w) PROVE IInv'
<1>1. TypeOK'
  BY DEF IInv, TypeOK, FinishClaim, GoTo, Labels, groupVars, storeVars, dlqVars, ghostVars
<1>2. SlotsHeld' /\ WorkersOK'
  BY LocalStep DEF IInv, TypeOK, FinishClaim, Labels, Processing, HasMessage, HasEvent, groupVars
<1> QED
  BY <1>1, <1>2 DEF IInv

LEMMA AcquireCancelledIInv == ASSUME IInv, NEW w \in Workers, AcquireCancelled(w) PROVE IInv'
<1>1. Cur(w) \in Positions
  BY MessageInHand DEF IInv, AcquireCancelled, HasMessage
<1>2. TypeOK'
  BY <1>1 DEF IInv, TypeOK, AcquireCancelled, GoTo, Labels, groupVars, storeVars, dlqVars
<1>3. SlotsHeld' /\ WorkersOK'
  BY LocalStep DEF IInv, TypeOK, AcquireCancelled, Labels, Processing, HasMessage, HasEvent, groupVars
<1> QED
  BY <1>2, <1>3 DEF IInv

LEMMA SkipProcessedIInv == ASSUME IInv, NEW w \in Workers, SkipProcessed(w) PROVE IInv'
<1>1. pc[w] \in Processing /\ Leave(w) /\ next' = next
  BY DEF SkipProcessed, ReturnNil, Processing
<1>2. TypeOK'
  BY <1>1, LeaveStep DEF IInv, TypeOK, SkipProcessed, ReturnNil, Leave, groupVars, storeVars, dlqVars
<1> QED
  BY <1>1, <1>2, LeaveStep DEF IInv, SkipProcessed, groupVars

LEMMA ProceedIInv == ASSUME IInv, NEW w \in Workers, Proceed(w) PROVE IInv'
<1>1. TypeOK'
  BY DEF IInv, TypeOK, Proceed, GoTo, Labels, Processing, groupVars, storeVars, dlqVars, ghostVars
<1>2. SlotsHeld' /\ WorkersOK'
  BY LocalStep DEF IInv, TypeOK, Proceed, Labels, Processing, HasMessage, HasEvent, groupVars
<1> QED
  BY <1>1, <1>2 DEF IInv

LEMMA MarkProcessedIInv == ASSUME IInv, NEW w \in Workers, MarkProcessed(w) PROVE IInv'
<1>1. Cur(w) \in Positions /\ Msg(w).pid \in Payments
  BY MessageInHand, EventInHand DEF IInv, MarkProcessed, HasMessage, HasEvent, Processing
<1>2. TypeOK'
  <2>1. pc' \in [Workers -> Labels]
    BY DEF IInv, TypeOK, MarkProcessed, GoTo, Labels, Processing
  <2>2. attempt' \in [Workers -> 0 .. MaxAttempts]
    BY BoundsAssumption DEF IInv, TypeOK, MarkProcessed
  <2>3. keys' \subseteq Payments /\ attempted' \subseteq Positions
    BY <1>1 DEF IInv, TypeOK, MarkProcessed
  <2> QED
    BY <2>1, <2>2, <2>3 DEF IInv, TypeOK, MarkProcessed, GoTo, groupVars, dlqVars
<1>3. SlotsHeld' /\ WorkersOK'
  BY LocalStep DEF IInv, TypeOK, MarkProcessed, Labels, Processing, HasMessage, HasEvent, groupVars
<1> QED
  BY <1>2, <1>3 DEF IInv

LEMMA UpdateStatusIInv == ASSUME IInv, NEW w \in Workers, UpdateStatus(w) PROVE IInv'
<1>1. Msg(w).pid \in Payments /\ Msg(w).status \in Statuses
  BY EventInHand DEF IInv, UpdateStatus, HasEvent
<1>2. TypeOK'
  BY <1>1 DEF IInv, TypeOK, UpdateStatus, AttemptFailed, GoTo, Labels, Processing,
              groupVars, dlqVars, ghostVars
<1>3. SlotsHeld' /\ WorkersOK'
  BY LocalStep DEF IInv, TypeOK, UpdateStatus, AttemptFailed, Labels, Processing,
                   HasMessage, HasEvent, groupVars
<1> QED
  BY <1>2, <1>3 DEF IInv

LEMMA PutType ==
  ASSUME IInv, NEW e \in Events
  PROVE  Put(e) \in [Rows -> Statuses \cup {None}]
<1>1. RowOf(e) \in Rows /\ e.status \in Statuses
  BY EventsAssumption DEF RowOf, Rows
<1> QED
  BY <1>1 DEF Put, IInv, TypeOK

LEMMA RecordHistoryIInv == ASSUME IInv, NEW w \in Workers, RecordHistory(w) PROVE IInv'
<1>1. Put(Msg(w)) \in [Rows -> Statuses \cup {None}]
  BY EventInHand, PutType DEF IInv, RecordHistory, HasEvent
<1>2. TypeOK'
  BY <1>1 DEF IInv, TypeOK, RecordHistory, AttemptFailed, GoTo, Labels, Processing,
              groupVars, dlqVars, ghostVars
<1>3. SlotsHeld' /\ WorkersOK'
  BY LocalStep DEF IInv, TypeOK, RecordHistory, AttemptFailed, Labels, Processing,
                   HasMessage, HasEvent, groupVars
<1> QED
  BY <1>2, <1>3 DEF IInv

LEMMA BackoffIInv == ASSUME IInv, NEW w \in Workers, Backoff(w) PROVE IInv'
<1>1. attempt[w] \in 0 .. MaxAttempts /\ attempt[w] < MaxAttempts
  BY DEF IInv, TypeOK, WorkersOK, Backoff
<1>2. TypeOK'
  <2>1. attempt' \in [Workers -> 0 .. MaxAttempts]
    <3>1. attempt \in [Workers -> 0 .. MaxAttempts] /\ attempt[w] + 1 \in 0 .. MaxAttempts
      BY <1>1, BoundsAssumption DEF IInv, TypeOK
    <3> QED
      BY <3>1 DEF Backoff
  <2>2. pc' \in [Workers -> Labels]
    BY DEF IInv, TypeOK, Backoff, GoTo, Labels, Processing
  <2> QED
    BY <2>1, <2>2 DEF IInv, TypeOK, Backoff, GoTo, groupVars, storeVars, dlqVars, ghostVars
<1>3. SlotsHeld' /\ WorkersOK'
  BY LocalStep DEF IInv, TypeOK, Backoff, Labels, Processing, HasMessage, HasEvent, groupVars
<1> QED
  BY <1>2, <1>3 DEF IInv

LEMMA PublishDLQIInv == ASSUME IInv, NEW w \in Workers, PublishDLQ(w) PROVE IInv'
<1>1. Cur(w) \in Positions /\ w[1] \in Consumers
  BY MessageInHand, WorkerPair DEF IInv, PublishDLQ, HasMessage, Processing
<1>2. dlq' \in [Positions -> Nat] /\ late' \subseteq Consumers \X Positions
  <2>1. /\ dlq' \in {dlq, [dlq EXCEPT ![Cur(w)] = @ + 1], [dlq EXCEPT ![Cur(w)] = @]}
        /\ late' \in {late, late \cup {<<w[1], Cur(w)>>}}
    BY DEF PublishDLQ
  <2>2. dlq \in [Positions -> Nat] /\ late \subseteq Consumers \X Positions
    BY DEF IInv, TypeOK
  <2> QED
    BY <1>1, <2>1, <2>2
<1>3. TypeOK'
  <2>1. pc' \in [Workers -> Labels]
    BY DEF IInv, TypeOK, PublishDLQ, GoTo, Labels, Processing
  <2> QED
    BY <1>2, <2>1 DEF IInv, TypeOK, PublishDLQ, GoTo, groupVars, storeVars, ghostVars
<1>4. SlotsHeld' /\ WorkersOK'
  BY LocalStep DEF IInv, TypeOK, PublishDLQ, Labels, Processing, HasMessage, HasEvent, groupVars
<1> QED
  BY <1>3, <1>4 DEF IInv

LEMMA LateSendIInv ==
  ASSUME IInv, NEW c \in Consumers, NEW pos \in Positions, LateSend(c, pos)
  PROVE  IInv'
<1>1. TypeOK'
  <2>1. dlq \in [Positions -> Nat] /\ late \subseteq Consumers \X Positions
    BY DEF IInv, TypeOK
  <2>2. dlq' \in [Positions -> Nat]
    BY <2>1 DEF LateSend
  <2>3. late' \subseteq Consumers \X Positions
    BY <2>1 DEF LateSend
  <2> QED
    BY <2>2, <2>3 DEF IInv, TypeOK, LateSend, workerVars, groupVars, storeVars, ghostVars
<1>2. SlotsHeld' /\ WorkersOK'
  BY DEF IInv, SlotsHeld, WorkersOK, LateSend, workerVars, groupVars, Msg
<1> QED
  BY <1>1, <1>2 DEF IInv

LEMMA IncrDLQCountIInv == ASSUME IInv, NEW w \in Workers, IncrDLQCount(w) PROVE IInv'
<1>1. pc[w] \in Processing /\ Leave(w) /\ next' = next
  BY DEF IncrDLQCount, ReturnErr, Processing
<1>2. TypeOK'
  <2>1. dlqCount' \in Nat
    BY DEF IInv, TypeOK, IncrDLQCount
  <2>2. /\ pc' \in [Workers -> Labels] /\ slots' \in [Consumers -> 0 .. WorkerCount]
        /\ attempt' \in [Workers -> 0 .. MaxAttempts] /\ tried' \subseteq Positions
        /\ succ' \subseteq tried'
    BY <1>1, LeaveStep DEF IInv, TypeOK, IncrDLQCount, ReturnErr, Leave, groupVars
  <2> QED
    BY <2>1, <2>2 DEF IInv, TypeOK, IncrDLQCount, ReturnErr, groupVars, storeVars
<1> QED
  BY <1>1, <1>2, LeaveStep DEF IInv, IncrDLQCount, groupVars

LEMMA PublishEventIInv == ASSUME IInv, NEW w \in Workers, PublishEvent(w) PROVE IInv'
<1>1. pc[w] \in Processing /\ Leave(w) /\ next' = next
  BY DEF PublishEvent, ReturnNil, Processing
<1>2. Msg(w) \in Events
  BY EventInHand DEF IInv, PublishEvent, HasEvent
<1>3. TypeOK'
  <2>1. Msg(w) \in [pid: Payments, status: Statuses, ts: Times]
    BY <1>2, EventsAssumption
  <2>2. feed' \subseteq {"consumer", "ui"} \X [pid: Payments, status: Statuses, ts: Times]
    BY <2>1 DEF IInv, TypeOK, PublishEvent
  <2>3. /\ marked' \in [Workers -> Nat] /\ dirty' \in [Workers -> BOOLEAN]
        /\ succ' \subseteq tried' /\ skipped' \subseteq succ'
    BY DEF IInv, TypeOK, PublishEvent, ReturnNil, Leave
  <2> QED
    BY <1>1, <2>2, <2>3, LeaveStep
    DEF IInv, TypeOK, PublishEvent, ReturnNil, groupVars, storeVars, dlqVars
<1> QED
  BY <1>1, <1>3, LeaveStep DEF IInv, PublishEvent, groupVars

LEMMA ArriveIInv ==
  ASSUME IInv, NEW p \in Partitions, NEW m \in Messages, Arrive(p, m)
  PROVE  IInv'
<1>1. /\ log' \in [Partitions -> Seq(Messages)]
      /\ \A q \in Partitions : Len(log'[q]) <= MaxLog /\ Len(log'[q]) >= Len(log[q])
      /\ \A q \in Partitions : \A n \in 1 .. Len(log[q]) : log'[q][n] = log[q][n]
  BY BoundsAssumption DEF IInv, TypeOK, Arrive
<1>2. TypeOK'
  BY <1>1 DEF IInv, TypeOK, Arrive, workerVars, groupVars, storeVars, dlqVars, ghostVars
<1>3. SlotsHeld'
  BY SameHolders DEF Arrive, workerVars
<1>4. ASSUME NEW v \in Workers
      PROVE  /\ phase'[v[1]] \notin InSession => pc'[v] = "off"
             /\ pc'[v] \in HasMessage => next'[v] \in 1 .. Len(log'[v[2]])
             /\ pc'[v] \in HasEvent => Msg(v)' # Malformed
             /\ pc'[v] = "backoff" => attempt'[v] < MaxAttempts
  <2>1. v[2] \in Partitions
    BY WorkerPair
  <2>2. Len(log[v[2]]) \in Nat /\ Len(log'[v[2]]) \in Nat
    BY <1>1, <2>1 DEF IInv, TypeOK
  <2>3. pc[v] \in HasEvent => pc[v] \in HasMessage
    BY DEF HasEvent, HasMessage, Processing
  <2> QED
    BY <1>1, <2>1, <2>2, <2>3 DEF IInv, TypeOK, WorkersOK, Arrive, workerVars, groupVars, Msg
<1> QED
  BY <1>2, <1>3, <1>4 DEF IInv, WorkersOK

LEMMA StartIInv == ASSUME IInv, NEW c \in Consumers, Start(c) PROVE IInv'
<1>1. TypeOK'
  BY DEF IInv, TypeOK, Start, Phases, workerVars, storeVars, dlqVars, ghostVars
<1>2. SlotsHeld'
  BY SameHolders DEF Start, workerVars
<1>3. WorkersOK'
  BY WorkerPair DEF IInv, TypeOK, WorkersOK, Start, InSession, workerVars, Msg
<1> QED
  BY <1>1, <1>2, <1>3 DEF IInv

LEMMA CancelSessionIInv == ASSUME IInv, NEW c \in Consumers, CancelSession(c) PROVE IInv'
<1>1. TypeOK'
  BY DEF IInv, TypeOK, CancelSession, Phases, InSession, workerVars, storeVars, dlqVars, ghostVars
<1>2. SlotsHeld'
  BY SameHolders DEF CancelSession, workerVars
<1>3. WorkersOK'
  BY WorkerPair DEF IInv, TypeOK, WorkersOK, CancelSession, InSession, workerVars, Msg
<1> QED
  BY <1>1, <1>2, <1>3 DEF IInv

LEMMA SigtermIInv == ASSUME IInv, NEW c \in Consumers, Sigterm(c) PROVE IInv'
<1>1. TypeOK'
  BY DEF IInv, TypeOK, Sigterm, Phases, InSession, workerVars, storeVars, dlqVars, ghostVars
<1>2. SlotsHeld'
  BY SameHolders DEF Sigterm, workerVars
<1>3. WorkersOK'
  BY WorkerPair DEF IInv, TypeOK, WorkersOK, Sigterm, InSession, workerVars, Msg
<1> QED
  BY <1>1, <1>2, <1>3 DEF IInv

LEMMA EvictIInv == ASSUME IInv, NEW c \in Consumers, Evict(c) PROVE IInv'
<1>1. TypeOK'
  BY DEF IInv, TypeOK, Evict, workerVars, storeVars, dlqVars, ghostVars
<1>2. SlotsHeld' /\ WorkersOK'
  BY DEF IInv, SlotsHeld, WorkersOK, Evict, workerVars, Msg
<1> QED
  BY <1>1, <1>2 DEF IInv

LEMMA CommitOffsetIInv == ASSUME IInv, NEW w \in Workers, CommitOffset(w) PROVE IInv'
<1>1. TypeOK'
  <2>1. committed' \in [Partitions -> Nat] /\ dirty' \in [Workers -> BOOLEAN]
    BY WorkerPair DEF IInv, TypeOK, CommitOffset
  <2> QED
    BY <2>1 DEF IInv, TypeOK, CommitOffset, storeVars, dlqVars, ghostVars
<1>2. SlotsHeld' /\ WorkersOK'
  BY DEF IInv, SlotsHeld, WorkersOK, CommitOffset, Msg
<1> QED
  BY <1>1, <1>2 DEF IInv

LEMMA JoinIInv ==
  ASSUME IInv, NEW c \in Consumers, NEW P \in SUBSET Partitions, Join(c, P)
  PROVE  IInv'
<1>1. TypeOK'
  BY WorkerPair, BoundsAssumption
  DEF IInv, TypeOK, Join, Phases, InSession, Labels, storeVars, dlqVars, ghostVars
<1>2. \A v \in Workers : v \in {c} \X P => pc[v] = "off"
  BY DEF IInv, WorkersOK, Join, InSession
<1>3. SlotsHeld'
  BY <1>2, SameHolders DEF Join, Processing
<1>4. WorkersOK'
  <2>1. ASSUME NEW v \in Workers
        PROVE  /\ phase'[v[1]] \notin InSession => pc'[v] = "off"
               /\ pc'[v] \in HasMessage => next'[v] \in 1 .. Len(log'[v[2]])
               /\ pc'[v] \in HasEvent => Msg(v)' # Malformed
               /\ pc'[v] = "backoff" => attempt'[v] < MaxAttempts
    <3>1. v[1] \in Consumers
      BY WorkerPair
    <3>2. CASE v \in {c} \X P
      BY <3>1, <3>2 DEF Join, IInv, TypeOK, InSession, HasMessage, HasEvent, Processing
    <3>3. CASE v \notin {c} \X P
      BY <3>1, <3>3 DEF Join, IInv, TypeOK, WorkersOK, InSession, Msg
    <3> QED
      BY <3>2, <3>3
  <2> QED
    BY <2>1 DEF WorkersOK
<1> QED
  BY <1>1, <1>3, <1>4 DEF IInv

LEMMA CrashIInv == ASSUME IInv, NEW c \in Consumers, Crash(c) PROVE IInv'
<1>1. SlotsHeld' /\ slots' \in [Consumers -> 0 .. WorkerCount]
  BY HoldersGone DEF Crash
<1>2. TypeOK'
  <2>1. phase' \in [Consumers -> Phases] /\ owner' \in [Partitions -> Consumers \cup {None}]
    BY DEF IInv, TypeOK, Crash, Phases
  <2>2. pc' \in [Workers -> Labels]
    BY DEF IInv, TypeOK, Crash, Labels
  <2>3. /\ next' \in [Workers -> Nat] /\ marked' \in [Workers -> Nat]
        /\ dirty' \in [Workers -> BOOLEAN]
    BY DEF IInv, TypeOK, Crash
  <2>4. attempt' \in [Workers -> 0 .. MaxAttempts]
    <3>1. attempt \in [Workers -> 0 .. MaxAttempts] /\ 0 \in 0 .. MaxAttempts
      BY BoundsAssumption DEF IInv, TypeOK
    <3> QED
      BY <3>1 DEF Crash
  <2> QED
    BY <1>1, <2>1, <2>2, <2>3, <2>4 DEF IInv, TypeOK, Crash, storeVars, dlqVars, ghostVars
<1>3. WorkersOK'
  BY WorkerPair DEF IInv, TypeOK, WorkersOK, Crash, HasMessage, HasEvent, Processing, Msg
<1> QED
  BY <1>1, <1>2, <1>3 DEF IInv

LEMMA EndSessionIInv == ASSUME IInv, NEW c \in Consumers, EndSession(c) PROVE IInv'
<1>1. \A v \in Workers : v[1] = c => pc[v] \in {"off", "done"}
  BY WorkerPair DEF EndSession
<1>2. SlotsHeld'
  BY <1>1, SameHolders DEF EndSession, Processing
<1>3. TypeOK'
  <2>1. committed' \in [Partitions -> Nat]
    BY DEF IInv, TypeOK, EndSession, Workers
  <2>2. phase' \in [Consumers -> Phases]
    BY DEF IInv, TypeOK, EndSession, Phases
  <2> QED
    BY <2>1, <2>2 DEF IInv, TypeOK, EndSession, Labels, storeVars, dlqVars, ghostVars
<1>4. WorkersOK'
  BY WorkerPair DEF IInv, TypeOK, WorkersOK, EndSession, HasMessage, HasEvent, Processing, Msg
<1> QED
  BY <1>2, <1>3, <1>4 DEF IInv

LEMMA ExpireIInv == ASSUME IInv, NEW i \in Payments, Expire(i) PROVE IInv'
<1>1. TypeOK'
  BY DEF IInv, TypeOK, Expire, workerVars, groupVars, dlqVars, ghostVars
<1>2. SlotsHeld' /\ WorkersOK'
  BY DEF IInv, SlotsHeld, WorkersOK, Expire, workerVars, groupVars, Msg
<1> QED
  BY <1>1, <1>2 DEF IInv

LEMMA AnnounceIInv ==
  ASSUME IInv, NEW pos \in Positions, NEW t \in Times, Announce(pos, t)
  PROVE  IInv'
<1>1. [MessageAt(pos) EXCEPT !.ts = t] \in [pid: Payments, status: Statuses, ts: Times]
  BY EventsAssumption DEF Announce
<1>2. TypeOK'
  <2> DEFINE announced == [MessageAt(pos) EXCEPT !.ts = t]
  <2>1. feed' \subseteq {"consumer", "ui"} \X [pid: Payments, status: Statuses, ts: Times]
    <3>1. feed' = feed \cup {<<"ui", announced>>}
      BY DEF Announce
    <3>2. announced \in [pid: Payments, status: Statuses, ts: Times]
      BY <1>1
    <3> HIDE DEF announced
    <3> QED
      BY <3>1, <3>2 DEF IInv, TypeOK
  <2> QED
    BY <2>1 DEF IInv, TypeOK, Announce, workerVars, groupVars, storeVars, dlqVars, ghostVars
<1>3. SlotsHeld' /\ WorkersOK'
  BY DEF IInv, SlotsHeld, WorkersOK, Announce, workerVars, groupVars, Msg
<1> QED
  BY <1>2, <1>3 DEF IInv

LEMMA NextIInv == IInv /\ [Next]_vars => IInv'
<1> SUFFICES ASSUME IInv, [Next]_vars PROVE IInv'
  OBVIOUS
<1>1. CASE UNCHANGED vars
  BY <1>1 DEF vars, workerVars, groupVars, storeVars, dlqVars, ghostVars,
              IInv, TypeOK, SlotsHeld, WorkersOK, Msg
<1>2. ASSUME NEW p \in Partitions, NEW m \in Messages, Arrive(p, m) PROVE IInv'
  BY <1>2, ArriveIInv
<1>3. ASSUME NEW c \in Consumers,
             \/ Start(c) \/ CancelSession(c) \/ Sigterm(c) \/ Evict(c) \/ Crash(c)
             \/ EndSession(c)
             \/ \E P \in SUBSET Partitions \ {{}} : Join(c, P)
             \/ \E pos \in Positions : LateSend(c, pos)
      PROVE  IInv'
  BY <1>3, StartIInv, CancelSessionIInv, SigtermIInv, EvictIInv, CrashIInv, EndSessionIInv,
     JoinIInv, LateSendIInv
<1>4. ASSUME NEW w \in Workers,
             Receive(w) \/ AcquireSlot(w) \/ CommitOffset(w) \/ HandlerStep(w)
      PROVE  IInv'
  BY <1>4, ReceiveIInv, AcquireSlotIInv, CommitOffsetIInv, FinishClaimIInv,
     AcquireCancelledIInv, SkipProcessedIInv, ProceedIInv, MarkProcessedIInv,
     UpdateStatusIInv, RecordHistoryIInv, BackoffIInv, PublishDLQIInv, IncrDLQCountIInv,
     PublishEventIInv
  DEF HandlerStep
<1>5. ASSUME NEW i \in Payments, Expire(i) PROVE IInv'
  BY <1>5, ExpireIInv
<1>6. ASSUME NEW pos \in Positions, NEW t \in Times, Announce(pos, t) PROVE IInv'
  BY <1>6, AnnounceIInv
<1> QED
  BY <1>1, <1>2, <1>3, <1>4, <1>5, <1>6 DEF Next

-----------------------------------------------------------------------------
(* The invariants.                                                         *)

LEMMA IInvCorrect == Spec => []IInv
BY InitIInv, NextIInv, PTL DEF Spec

(* Every variable keeps its type and its bound, for any number of          *)
(* processes and partitions and any combination of faults.                 *)
THEOREM TypeCorrect == Spec => []TypeOK
<1>1. IInv => TypeOK
  BY DEF IInv
<1> QED
  BY <1>1, IInvCorrect, PTL

(* The semaphore holds exactly one token for each message in               *)
(* processMessage: none is leaked by an error path, a cancelled session    *)
(* or a new one (handler.go, the deferred release).                        *)
THEOREM SlotsCorrect == Spec => []SlotsHeld
<1>1. IInv => SlotsHeld
  BY DEF IInv
<1> QED
  BY <1>1, IInvCorrect, PTL

-----------------------------------------------------------------------------
(* The offsets.  A step moves the offset of a partition to the mark of one *)
(* of its workers, and a worker in one of five ways.                       *)

HandledType == \A v \in Workers : Handled(v) \in Nat

LEMMA HandledTypeCorrect == IInv => HandledType
BY WorkerPair DEF IInv, TypeOK, WorkersOK, HandledType, Handled

(* The position a worker that returns has handled is the next in its row.  *)
LEMMA CurIsHandled ==
  ASSUME NEW w \in Workers, pc[w] \in HasMessage
  PROVE  Cur(w) = <<w[2], Handled(w)>>
BY DEF Cur, Handled

Kept(v)     == Handled(v)' = Handled(v) /\ marked'[v] = marked[v]
Advanced(v) == /\ Handled(v)' = Handled(v) + 1 /\ marked'[v] = marked[v]
               /\ <<v[2], Handled(v)>> \in tried'
Succeeded(v) == /\ Handled(v)' = Handled(v) + 1 /\ marked'[v] = Handled(v) + 1
                /\ <<v[2], Handled(v)>> \in tried' /\ <<v[2], Handled(v)>> \in succ'
Forgot(v)   == Handled(v)' = 0 /\ marked'[v] = 0
Resumed(v)  == Handled(v)' = committed[v[2]] /\ marked'[v] = committed[v[2]]

LEMMA OffsetStep ==
  ASSUME IInv, OffsetInv, tried \subseteq tried', succ \subseteq succ',
         \A p \in Partitions :
           \/ committed'[p] = committed[p]
           \/ \E w \in Workers : w[2] = p /\ committed'[p] = marked[w],
         \A v \in Workers :
           Kept(v) \/ Advanced(v) \/ Succeeded(v) \/ Forgot(v) \/ Resumed(v)
  PROVE  OffsetInv'
<1>1. \A p \in Partitions : committed[p] \in Nat
  BY DEF IInv, TypeOK
<1>2. \A v \in Workers : marked[v] \in Nat /\ Handled(v) \in Nat
  BY HandledTypeCorrect DEF HandledType, IInv, TypeOK
<1>3. ASSUME NEW p \in Partitions
      PROVE  /\ \A o \in 0 .. committed'[p] - 1 : <<p, o>> \in tried'
             /\ committed'[p] > 0 => <<p, committed'[p] - 1>> \in succ'
  <2>1. CASE committed'[p] = committed[p]
    BY <2>1 DEF OffsetInv, NoSkip, FrontierSucceeded
  <2>2. ASSUME NEW w \in Workers, w[2] = p, committed'[p] = marked[w]
        PROVE  /\ \A o \in 0 .. committed'[p] - 1 : <<p, o>> \in tried'
               /\ committed'[p] > 0 => <<p, committed'[p] - 1>> \in succ'
    BY <1>2, <2>2 DEF OffsetInv, OffsetsOK
  <2> QED
    BY <2>1, <2>2
<1>4. ASSUME NEW v \in Workers
      PROVE  /\ \A o \in 0 .. Handled(v)' - 1 : <<v[2], o>> \in tried'
             /\ marked'[v] <= Handled(v)'
             /\ marked'[v] > 0 => <<v[2], marked'[v] - 1>> \in succ'
  <2>1. v[2] \in Partitions
    BY WorkerPair
  <2>2. /\ \A o \in 0 .. Handled(v) - 1 : <<v[2], o>> \in tried'
        /\ marked[v] <= Handled(v)
        /\ marked[v] > 0 => <<v[2], marked[v] - 1>> \in succ'
    BY DEF OffsetInv, OffsetsOK
  <2>3. CASE Kept(v)
    BY <2>2, <2>3 DEF Kept
  <2>4. CASE Advanced(v)
    BY <1>2, <2>2, <2>4 DEF Advanced
  <2>5. CASE Succeeded(v)
    BY <1>2, <2>2, <2>5 DEF Succeeded
  <2>6. CASE Forgot(v)
    BY <2>6 DEF Forgot
  <2>7. CASE Resumed(v)
    BY <1>1, <2>1, <2>7 DEF Resumed, OffsetInv, NoSkip, FrontierSucceeded
  <2> QED
    BY <2>3, <2>4, <2>5, <2>6, <2>7
<1> QED
  BY <1>3, <1>4 DEF OffsetInv, NoSkip, FrontierSucceeded, OffsetsOK

LEMMA InitOffsetInv == Init => OffsetInv
BY WorkerPair DEF Init, OffsetInv, NoSkip, FrontierSucceeded, OffsetsOK, Handled, HasMessage, Processing

(* A step that moves no worker past a message.                             *)
LEMMA OffsetsKept ==
  ASSUME IInv, OffsetInv, next' = next, marked' = marked, tried' = tried, succ' = succ,
         committed' = committed,
         \A v \in Workers : pc'[v] \in HasMessage <=> pc[v] \in HasMessage
  PROVE  OffsetInv'
<1>1. \A v \in Workers : Kept(v)
  BY DEF Kept, Handled
<1> QED
  BY <1>1, OffsetStep

LEMMA GoToOffsets ==
  ASSUME IInv, OffsetInv, NEW w \in Workers, NEW l \in Labels, GoTo(w, l),
         l \in HasMessage <=> pc[w] \in HasMessage,
         tried' = tried, succ' = succ, committed' = committed
  PROVE  OffsetInv'
<1>1. \A v \in Workers : pc'[v] \in HasMessage <=> pc[v] \in HasMessage
  BY DEF GoTo, IInv, TypeOK
<1> QED
  BY <1>1, OffsetsKept DEF GoTo

LEMMA ReturnOffsets ==
  ASSUME IInv, OffsetInv, NEW w \in Workers, pc[w] \in Processing,
         ReturnNil(w) \/ ReturnErr(w), committed' = committed
  PROVE  OffsetInv'
<1>1. pc[w] \in HasMessage
  BY DEF HasMessage
<1>2. Cur(w) = <<w[2], Handled(w)>> /\ next[w] = Handled(w) + 1
  BY <1>1, CurIsHandled DEF Handled, IInv, TypeOK
<1>3. Handled(w)' = Handled(w) + 1
  BY <1>2 DEF ReturnNil, ReturnErr, Leave, Handled, HasMessage, Processing, IInv, TypeOK
<1>4. Succeeded(w) \/ Advanced(w)
  BY <1>2, <1>3 DEF ReturnNil, ReturnErr, Leave, Succeeded, Advanced, IInv, TypeOK
<1>5. \A v \in Workers \ {w} : Kept(v)
  BY DEF Kept, Handled, ReturnNil, ReturnErr, Leave, IInv, TypeOK
<1> QED
  BY <1>4, <1>5, OffsetStep DEF ReturnNil, ReturnErr, Leave

LEMMA ReceiveOffsets == ASSUME IInv, OffsetInv, NEW w \in Workers, Receive(w) PROVE OffsetInv'
<1>1. \A v \in Workers : Kept(v)
  BY DEF Kept, Handled, Receive, HasMessage, Processing, IInv, TypeOK
<1> QED
  BY <1>1, OffsetStep DEF Receive, groupVars, ghostVars

LEMMA AcquireCancelledOffsets ==
  ASSUME IInv, OffsetInv, NEW w \in Workers, AcquireCancelled(w)
  PROVE  OffsetInv'
<1>1. pc[w] \in HasMessage
  BY DEF AcquireCancelled, HasMessage
<1>2. Cur(w) = <<w[2], Handled(w)>> /\ next[w] = Handled(w) + 1
  BY <1>1, CurIsHandled DEF Handled, IInv, TypeOK
<1>3. Advanced(w)
  BY <1>2 DEF Advanced, Handled, AcquireCancelled, GoTo, HasMessage, Processing, IInv, TypeOK
<1>4. \A v \in Workers \ {w} : Kept(v)
  BY DEF Kept, Handled, AcquireCancelled, GoTo, IInv, TypeOK
<1> QED
  BY <1>3, <1>4, OffsetStep DEF AcquireCancelled, groupVars

LEMMA JoinOffsets ==
  ASSUME IInv, OffsetInv, NEW c \in Consumers, NEW P \in SUBSET Partitions, Join(c, P)
  PROVE  OffsetInv'
<1>1. ASSUME NEW v \in Workers PROVE Resumed(v) \/ Kept(v)
  <2>1. CASE v \in {c} \X P
    BY <2>1 DEF Resumed, Handled, Join, HasMessage, Processing
  <2>2. CASE v \notin {c} \X P
    BY <2>2 DEF Kept, Handled, Join
  <2> QED
    BY <2>1, <2>2
<1> QED
  BY <1>1, OffsetStep DEF Join, ghostVars

LEMMA CrashOffsets == ASSUME IInv, OffsetInv, NEW c \in Consumers, Crash(c) PROVE OffsetInv'
<1>1. ASSUME NEW v \in Workers PROVE Forgot(v) \/ Kept(v)
  BY DEF Forgot, Kept, Handled, Crash, HasMessage, Processing
<1> QED
  BY <1>1, OffsetStep DEF Crash, ghostVars

LEMMA CommitOffsets == ASSUME IInv, OffsetInv, NEW w \in Workers, CommitOffset(w) PROVE OffsetInv'
<1>1. \A v \in Workers : Kept(v)
  BY DEF Kept, Handled, CommitOffset
<1>2. \A p \in Partitions :
        \/ committed'[p] = committed[p]
        \/ \E v \in Workers : v[2] = p /\ committed'[p] = marked[v]
  BY DEF CommitOffset, IInv, TypeOK
<1> QED
  BY <1>1, <1>2, OffsetStep DEF CommitOffset, ghostVars

LEMMA EndSessionOffsets ==
  ASSUME IInv, OffsetInv, NEW c \in Consumers, EndSession(c)
  PROVE  OffsetInv'
<1>1. ASSUME NEW v \in Workers PROVE Forgot(v) \/ Kept(v)
  BY DEF Forgot, Kept, Handled, EndSession, HasMessage, Processing
<1>2. ASSUME NEW p \in Partitions
      PROVE  \/ committed'[p] = committed[p]
             \/ \E v \in Workers : v[2] = p /\ committed'[p] = marked[v]
  <2>1. committed'[p] = committed[p] \/ committed'[p] = marked[<<c, p>>]
    BY DEF EndSession
  <2>2. <<c, p>> \in Workers /\ <<c, p>>[2] = p
    BY DEF Workers
  <2> QED
    BY <2>1, <2>2
<1> QED
  BY <1>1, <1>2, OffsetStep DEF EndSession, ghostVars

LEMMA HandlerOffsets ==
  ASSUME IInv, OffsetInv, NEW w \in Workers, HandlerStep(w)
  PROVE  OffsetInv'
<1>1. CASE FinishClaim(w)
  BY <1>1, GoToOffsets DEF FinishClaim, Labels, HasMessage, Processing, groupVars, ghostVars
<1>2. CASE AcquireCancelled(w)
  BY <1>2, AcquireCancelledOffsets
<1>3. CASE SkipProcessed(w)
  BY <1>3, ReturnOffsets DEF SkipProcessed, Processing, groupVars
<1>4. CASE Proceed(w)
  BY <1>4, GoToOffsets DEF Proceed, Labels, HasMessage, Processing, groupVars, ghostVars
<1>5. CASE MarkProcessed(w)
  BY <1>5, GoToOffsets DEF MarkProcessed, Labels, HasMessage, Processing, groupVars
<1>6. CASE UpdateStatus(w)
  BY <1>6, GoToOffsets
  DEF UpdateStatus, AttemptFailed, Labels, HasMessage, Processing, groupVars, ghostVars
<1>7. CASE RecordHistory(w)
  BY <1>7, GoToOffsets
  DEF RecordHistory, AttemptFailed, Labels, HasMessage, Processing, groupVars, ghostVars
<1>8. CASE Backoff(w)
  BY <1>8, GoToOffsets DEF Backoff, Labels, HasMessage, Processing, groupVars, ghostVars
<1>9. CASE PublishDLQ(w)
  BY <1>9, GoToOffsets DEF PublishDLQ, Labels, HasMessage, Processing, groupVars, ghostVars
<1>10. CASE IncrDLQCount(w)
  BY <1>10, ReturnOffsets DEF IncrDLQCount, Processing, groupVars
<1>11. CASE PublishEvent(w)
  BY <1>11, ReturnOffsets DEF PublishEvent, Processing, groupVars
<1> QED
  BY <1>1, <1>2, <1>3, <1>4, <1>5, <1>6, <1>7, <1>8, <1>9, <1>10, <1>11 DEF HandlerStep

LEMMA NextOffsetInv == IInv /\ OffsetInv /\ [Next]_vars => OffsetInv'
<1> SUFFICES ASSUME IInv, OffsetInv, [Next]_vars PROVE OffsetInv'
  OBVIOUS
<1>1. CASE UNCHANGED vars
  BY <1>1, OffsetsKept DEF vars, workerVars, groupVars, ghostVars
<1>2. ASSUME NEW p \in Partitions, NEW m \in Messages, Arrive(p, m) PROVE OffsetInv'
  BY <1>2, OffsetsKept DEF Arrive, workerVars, groupVars, ghostVars
<1>3. ASSUME NEW c \in Consumers PROVE Start(c) \/ CancelSession(c) \/ Sigterm(c) \/ Evict(c) => OffsetInv'
  BY OffsetsKept DEF Start, CancelSession, Sigterm, Evict, workerVars, ghostVars
<1>4. ASSUME NEW c \in Consumers, NEW pos \in Positions, LateSend(c, pos) PROVE OffsetInv'
  BY <1>4, OffsetsKept DEF LateSend, workerVars, groupVars, ghostVars
<1>5. ASSUME NEW w \in Workers, AcquireSlot(w) PROVE OffsetInv'
  <2>1. \A v \in Workers : pc'[v] \in HasMessage <=> pc[v] \in HasMessage
    <3>1. PICK l \in {"dlq", "check"} : pc' = [pc EXCEPT ![w] = l]
      BY <1>5 DEF AcquireSlot
    <3> QED
      BY <1>5, <3>1 DEF AcquireSlot, HasMessage, Processing, IInv, TypeOK
  <2> QED
    BY <1>5, <2>1, OffsetsKept DEF AcquireSlot, groupVars, ghostVars
<1>6. ASSUME NEW i \in Payments, Expire(i) PROVE OffsetInv'
  BY <1>6, OffsetsKept DEF Expire, workerVars, groupVars, ghostVars
<1>7. ASSUME NEW pos \in Positions, NEW t \in Times, Announce(pos, t) PROVE OffsetInv'
  BY <1>7, OffsetsKept DEF Announce, workerVars, groupVars, ghostVars
<1> QED
  BY <1>1, <1>2, <1>3, <1>4, <1>5, <1>6, <1>7, ReceiveOffsets, JoinOffsets, CrashOffsets, CommitOffsets,
     EndSessionOffsets, HandlerOffsets
  DEF Next

LEMMA OffsetInvCorrect == Spec => []OffsetInv
BY InitOffsetInv, NextOffsetInv, IInvCorrect, PTL DEF Spec

(* No committed offset passes a message that nobody has handled.           *)
THEOREM NoSkipCorrect == Spec => []NoSkip
<1>1. OffsetInv => NoSkip
  BY DEF OffsetInv
<1> QED
  BY <1>1, OffsetInvCorrect, PTL

(* An error return alone never moves a committed offset.                   *)
THEOREM FrontierCorrect == Spec => []FrontierSucceeded
<1>1. OffsetInv => FrontierSucceeded
  BY DEF OffsetInv
<1> QED
  BY <1>1, OffsetInvCorrect, PTL

-----------------------------------------------------------------------------
(* The history and what stands behind a success.                           *)

LEMMA EventRow == ASSUME NEW e \in Events PROVE RowOf(e) \in Rows
BY EventsAssumption DEF RowOf, Rows

LEMMA MessageType ==
  ASSUME IInv, NEW pos \in Positions, Delivered(pos)
  PROVE  MessageAt(pos) \in Messages
<1>1. /\ pos[1] \in Partitions /\ pos[2] \in Nat /\ pos[2] < Len(log[pos[1]])
      /\ log[pos[1]] \in Seq(Messages)
  BY BoundsAssumption DEF Positions, Delivered, IInv, TypeOK
<1>2. pos[2] + 1 \in 1 .. Len(log[pos[1]])
  BY <1>1
<1> QED
  BY <1>1, <1>2 DEF MessageAt

LogGrows ==
  \A pos \in Positions : Delivered(pos) => Delivered(pos)' /\ MessageAt(pos)' = MessageAt(pos)
RowsKept == \A r \in Rows : hist[r] # None => hist'[r] = hist[r]
Claimed(pos) == \E prior \in attempted : MessageAt(prior).pid = MessageAt(pos).pid
Backed(pos) == Recorded(pos) \/ (pos \in skipped /\ Claimed(pos))
Shown(entry) ==
  \/ entry[1] = "consumer" /\ hist[RowOf(entry[2])] # None
  \/ entry[1] = "ui" /\ \E pos \in Positions :
       /\ Delivered(pos) /\ MessageAt(pos) \in FromUI
       /\ MessageAt(pos).pid = entry[2].pid /\ MessageAt(pos).status = entry[2].status

LEMMA LogAppended == IInv /\ [Next]_vars => LogGrows
<1> SUFFICES ASSUME IInv, [Next]_vars PROVE LogGrows
  OBVIOUS
<1>1. ASSUME log' = log PROVE LogGrows
  BY <1>1 DEF LogGrows, Delivered, MessageAt
<1>2. ASSUME NEW p \in Partitions, NEW m \in Messages, Arrive(p, m) PROVE LogGrows
  <2>1. \A q \in Partitions :
          /\ Len(log[q]) \in Nat /\ Len(log'[q]) >= Len(log[q]) /\ Len(log'[q]) \in Nat
          /\ \A n \in 1 .. Len(log[q]) : log'[q][n] = log[q][n]
    BY <1>2 DEF Arrive, IInv, TypeOK
  <2>2. ASSUME NEW pos \in Positions, Delivered(pos)
        PROVE  Delivered(pos)' /\ MessageAt(pos)' = MessageAt(pos)
    <3>1. pos[1] \in Partitions /\ pos[2] \in Nat
      BY BoundsAssumption DEF Positions
    <3>2. pos[2] + 1 \in 1 .. Len(log[pos[1]])
      BY <2>1, <2>2, <3>1 DEF Delivered
    <3> QED
      BY <2>1, <2>2, <3>1, <3>2 DEF Delivered, MessageAt
  <2> QED
    BY <2>2 DEF LogGrows
<1>3. log' = log \/ \E p \in Partitions, m \in Messages : Arrive(p, m)
  BY DEF Next, vars, Start, CancelSession, Sigterm, Evict, Crash, EndSession, Join, LateSend,
         Receive, AcquireSlot, CommitOffset, HandlerStep, FinishClaim, AcquireCancelled,
         SkipProcessed, Proceed, MarkProcessed, UpdateStatus, RecordHistory, Backoff,
         PublishDLQ, IncrDLQCount, PublishEvent, Expire, Announce
<1> QED
  BY <1>1, <1>2, <1>3

LEMMA RowsKeptByNext == IInv /\ [Next]_vars => RowsKept
<1> SUFFICES ASSUME IInv, [Next]_vars PROVE RowsKept
  OBVIOUS
<1>1. ASSUME hist' = hist PROVE RowsKept
  BY <1>1 DEF RowsKept
<1>2. ASSUME NEW w \in Workers, RecordHistory(w) PROVE RowsKept
  <2>1. hist' = hist \/ hist' = Put(Msg(w))
    BY <1>2 DEF RecordHistory
  <2>2. \A r \in Rows : hist[r] # None => Put(Msg(w))[r] = hist[r]
    BY DEF Put, IInv, TypeOK
  <2> QED
    BY <1>1, <2>1, <2>2 DEF RowsKept
<1>3. hist' = hist \/ \E w \in Workers : RecordHistory(w)
  BY DEF Next, vars, storeVars, Arrive, Start, CancelSession, Sigterm, Evict, Crash, EndSession,
         Join, LateSend, Receive, AcquireSlot, CommitOffset, HandlerStep, FinishClaim,
         AcquireCancelled, SkipProcessed, Proceed, MarkProcessed, UpdateStatus, Backoff,
         PublishDLQ, IncrDLQCount, PublishEvent, Expire, Announce
<1> QED
  BY <1>1, <1>2, <1>3

LEMMA BackingStep ==
  ASSUME IInv, IInv', BackingInv, LogGrows, RowsKept,
         attempted \subseteq attempted', skipped \subseteq skipped',
         \A pos \in tried' : pos \in tried \/ (pos \in Positions /\ Delivered(pos)),
         \A pos \in attempted' :
           pos \in attempted
             \/ (pos \in Positions /\ Delivered(pos) /\ MessageAt(pos) # Malformed),
         \A pos \in succ' :
           pos \in succ
             \/ /\ pos \in Positions /\ Delivered(pos) /\ MessageAt(pos) # Malformed
                /\ Recorded(pos) \/ (pos \in skipped' /\ Claimed(pos)),
         \A i \in keys' :
           i \in keys
             \/ \E pos \in attempted' : pos \in Positions /\ Delivered(pos) /\ MessageAt(pos).pid = i,
         \A entry \in feed' : entry \in feed \/ Shown(entry),
         \A w \in Workers : pc'[w] = "publish" => hist'[RowOf(Msg(w)')] # None
  PROVE  BackingInv'
<1>1. \A pos \in tried \cup attempted : pos \in Positions /\ Delivered(pos)
  BY DEF BackingInv, BackingOK, IInv, TypeOK
<1>2. \A pos \in tried' \cup attempted' :
        pos \in Positions /\ Delivered(pos) /\ Delivered(pos)' /\ MessageAt(pos)' = MessageAt(pos)
  BY <1>1 DEF LogGrows
<1>3. \A pos \in attempted' : MessageAt(pos)' # Malformed
  BY <1>2 DEF BackingInv, BackingOK
<1>4. \A i \in keys' : \E pos \in attempted' : MessageAt(pos)'.pid = i
  BY <1>2 DEF BackingInv, BackingOK
<1>5. ASSUME NEW entry \in feed' PROVE Shown(entry)'
  <2>1. Shown(entry)
    BY DEF BackingInv, FeedBacked, Shown
  <2>2. RowOf(entry[2]) \in Rows
    BY DEF IInv, TypeOK, RowOf, Rows
  <2>3. CASE entry[1] = "consumer"
    BY <2>1, <2>2, <2>3 DEF Shown, RowsKept, RowOf
  <2>4. CASE entry[1] = "ui"
    <3>1. PICK pos \in Positions :
            /\ Delivered(pos) /\ MessageAt(pos) \in FromUI
            /\ MessageAt(pos).pid = entry[2].pid /\ MessageAt(pos).status = entry[2].status
      BY <2>1, <2>4 DEF Shown
    <3>2. Delivered(pos)' /\ MessageAt(pos)' = MessageAt(pos)
      BY <3>1 DEF LogGrows
    <3> QED
      BY <2>4, <3>1, <3>2 DEF Shown
  <2> QED
    BY <2>1, <2>3, <2>4 DEF Shown
<1>6. ASSUME NEW pos \in succ'
      PROVE  MessageAt(pos)' # Malformed /\ Backed(pos)'
  <2>1. pos \in tried'
    BY DEF IInv, TypeOK
  <2>2. /\ MessageAt(pos) # Malformed
        /\ Recorded(pos) \/ (pos \in skipped' /\ Claimed(pos))
    BY DEF BackingInv, SuccessBacked, Claimed
  <2>3. CASE Recorded(pos)
    <3>1. MessageAt(pos) \in Events
      BY <1>2, <2>1, <2>2, MessageType DEF Messages
    <3>2. RowOf(MessageAt(pos)) \in Rows
      BY <3>1, EventRow
    <3> QED
      BY <1>2, <2>1, <2>2, <2>3, <3>2 DEF Backed, Recorded, RowsKept
  <2>4. CASE pos \in skipped' /\ Claimed(pos)
    <3>1. Claimed(pos)'
      BY <1>2, <2>1, <2>4 DEF Claimed
    <3> QED
      BY <1>2, <2>1, <2>2, <2>4, <3>1 DEF Backed
  <2> QED
    BY <2>2, <2>3, <2>4
<1>7. SuccessBacked'
  BY <1>6 DEF SuccessBacked, Backed, Claimed
<1>8. FeedBacked'
  BY <1>5 DEF FeedBacked, Shown
<1>9. BackingOK'
  BY <1>2, <1>3, <1>4 DEF BackingOK, RowOf
<1> QED
  BY <1>7, <1>8, <1>9 DEF BackingInv

LEMMA InitBackingInv == Init => BackingInv
BY DEF Init, BackingInv, SuccessBacked, FeedBacked, BackingOK

(* A step that writes none of what BackingInv is about and brings no       *)
(* worker to the publish of its event.                                     *)
LEMMA BackingKept ==
  ASSUME IInv, IInv', BackingInv, LogGrows, RowsKept,
         UNCHANGED <<succ, attempted, skipped, feed>>, keys' \subseteq keys,
         \A pos \in tried' : pos \in tried \/ (pos \in Positions /\ Delivered(pos)),
         \A w \in Workers :
           pc'[w] = "publish" => pc[w] = "publish" /\ next'[w] = next[w]
  PROVE  BackingInv'
<1>1. ASSUME NEW w \in Workers, pc'[w] = "publish" PROVE hist'[RowOf(Msg(w)')] # None
  <2>1. pc[w] = "publish" /\ pc[w] \in HasEvent /\ pc[w] \in HasMessage
    BY <1>1 DEF HasEvent, HasMessage, Processing
  <2>2. RowOf(Msg(w)) \in Rows
    BY <2>1, EventInHand DEF IInv
  <2>3. Cur(w) \in Positions /\ Delivered(Cur(w)) /\ MessageAt(Cur(w)) = Msg(w)
    BY <2>1, MessageInHand DEF IInv
  <2>4. next[w] \in Nat /\ next'[w] = next[w]
    BY <1>1 DEF IInv, TypeOK
  <2>5. log'[w[2]][next[w]] = log[w[2]][next[w]]
    BY <2>3, <2>4 DEF LogGrows, MessageAt, Cur, Msg
  <2>6. Msg(w)' = Msg(w)
    BY <2>4, <2>5 DEF Msg
  <2> QED
    BY <2>1, <2>2, <2>6 DEF BackingInv, BackingOK, RowsKept
<1> QED
  BY <1>1, BackingStep

LEMMA RecordHistoryBacking ==
  ASSUME IInv, IInv', BackingInv, LogGrows, RowsKept, NEW w \in Workers, RecordHistory(w)
  PROVE  BackingInv'
<1>1. UNCHANGED <<log, next, succ, tried, attempted, skipped, feed, keys>>
  BY DEF RecordHistory, GoTo, AttemptFailed, ghostVars
<1>2. ASSUME NEW v \in Workers, pc'[v] = "publish" PROVE hist'[RowOf(Msg(v)')] # None
  <2>1. Msg(v)' = Msg(v)
    BY <1>1 DEF Msg
  <2>2. CASE v # w
    <3>1. pc[v] = "publish"
      BY <1>2, <2>2 DEF RecordHistory, GoTo, AttemptFailed, IInv, TypeOK
    <3>2. RowOf(Msg(v)) \in Rows
      BY <3>1, EventInHand DEF IInv, HasEvent
    <3> QED
      BY <2>1, <3>1, <3>2 DEF BackingInv, BackingOK, RowsKept
  <2>3. CASE v = w
    <3>1. hist' = Put(Msg(w))
      BY <1>2, <2>3 DEF RecordHistory, GoTo, AttemptFailed, IInv, TypeOK
    <3>2. RowOf(Msg(w)) \in Rows /\ Msg(w).status \in Statuses
      BY EventInHand DEF IInv, RecordHistory, HasEvent
    <3>3. Put(Msg(w))[RowOf(Msg(w))] # None
      BY <3>2, EventsAssumption DEF Put, IInv, TypeOK
    <3> QED
      BY <2>1, <2>3, <3>1, <3>3
  <2> QED
    BY <2>2, <2>3
<1> QED
  BY <1>1, <1>2, BackingStep

LEMMA MarkProcessedBacking ==
  ASSUME IInv, IInv', BackingInv, LogGrows, RowsKept, NEW w \in Workers, MarkProcessed(w)
  PROVE  BackingInv'
<1>1. /\ Cur(w) \in Positions /\ Delivered(Cur(w)) /\ MessageAt(Cur(w)) = Msg(w)
      /\ Msg(w) # Malformed
  BY MessageInHand, EventInHand, EventsAssumption
  DEF IInv, MarkProcessed, HasMessage, HasEvent, Processing
<1>2. /\ UNCHANGED <<log, next, succ, tried, skipped, feed, hist>>
      /\ attempted' = attempted \cup {Cur(w)}
      /\ keys' \subseteq keys \cup {Msg(w).pid}
  BY DEF MarkProcessed, GoTo
<1>3. ASSUME NEW v \in Workers, pc'[v] = "publish" PROVE hist'[RowOf(Msg(v)')] # None
  <2>1. pc[v] = "publish"
    BY <1>3 DEF MarkProcessed, GoTo, IInv, TypeOK
  <2> QED
    BY <1>2, <2>1 DEF BackingInv, BackingOK, Msg
<1>4. \A i \in keys' :
        i \in keys
          \/ \E pos \in attempted' : pos \in Positions /\ Delivered(pos) /\ MessageAt(pos).pid = i
  BY <1>1, <1>2
<1> QED
  BY <1>1, <1>2, <1>3, <1>4, BackingStep

LEMMA SkipProcessedBacking ==
  ASSUME IInv, IInv', BackingInv, LogGrows, RowsKept, NEW w \in Workers, SkipProcessed(w)
  PROVE  BackingInv'
<1>1. /\ Cur(w) \in Positions /\ Delivered(Cur(w)) /\ MessageAt(Cur(w)) = Msg(w)
      /\ Msg(w) # Malformed
  BY MessageInHand, EventInHand, EventsAssumption
  DEF IInv, SkipProcessed, HasMessage, HasEvent, Processing
<1>2. Claimed(Cur(w))
  BY <1>1 DEF SkipProcessed, BackingInv, BackingOK, Claimed
<1>3. /\ UNCHANGED <<log, next, attempted, feed, keys, hist>>
      /\ tried' = tried \cup {Cur(w)} /\ succ' = succ \cup {Cur(w)}
      /\ skipped' = skipped \cup {Cur(w)}
  BY DEF SkipProcessed, ReturnNil, Leave, storeVars
<1>4. ASSUME NEW v \in Workers, pc'[v] = "publish" PROVE hist'[RowOf(Msg(v)')] # None
  <2>1. pc[v] = "publish"
    BY <1>4 DEF SkipProcessed, ReturnNil, Leave, IInv, TypeOK
  <2> QED
    BY <1>3, <2>1 DEF BackingInv, BackingOK, Msg
<1> QED
  BY <1>1, <1>2, <1>3, <1>4, BackingStep

LEMMA PublishEventBacking ==
  ASSUME IInv, IInv', BackingInv, LogGrows, RowsKept, NEW w \in Workers, PublishEvent(w)
  PROVE  BackingInv'
<1>1. /\ Cur(w) \in Positions /\ Delivered(Cur(w)) /\ MessageAt(Cur(w)) = Msg(w)
      /\ Msg(w) \in Events /\ Msg(w) # Malformed
  BY MessageInHand, EventInHand, EventsAssumption
  DEF IInv, PublishEvent, HasMessage, HasEvent, Processing
<1>2. hist[RowOf(Msg(w))] # None
  BY DEF PublishEvent, BackingInv, BackingOK
<1>3. Recorded(Cur(w)) /\ Shown(<<"consumer", Msg(w)>>)
  BY <1>1, <1>2 DEF Shown, Recorded
<1>4. /\ UNCHANGED <<log, next, attempted, skipped, keys, hist>>
      /\ tried' = tried \cup {Cur(w)} /\ succ' = succ \cup {Cur(w)}
      /\ feed' \subseteq feed \cup {<<"consumer", Msg(w)>>}
  BY DEF PublishEvent, ReturnNil, Leave, storeVars
<1>5. ASSUME NEW v \in Workers, pc'[v] = "publish" PROVE hist'[RowOf(Msg(v)')] # None
  <2>1. pc[v] = "publish"
    BY <1>5 DEF PublishEvent, ReturnNil, Leave, IInv, TypeOK
  <2> QED
    BY <1>4, <2>1 DEF BackingInv, BackingOK, Msg
<1> QED
  BY <1>1, <1>2, <1>3, <1>4, <1>5, BackingStep

LEMMA NextBackingInv == IInv /\ IInv' /\ BackingInv /\ [Next]_vars => BackingInv'
<1> SUFFICES ASSUME IInv, IInv', BackingInv, [Next]_vars PROVE BackingInv'
  OBVIOUS
<1>1. LogGrows /\ RowsKept
  BY LogAppended, RowsKeptByNext
<1>2. CASE UNCHANGED vars
  BY <1>1, <1>2, BackingKept DEF vars, workerVars, storeVars, ghostVars
<1>3. ASSUME NEW p \in Partitions, NEW m \in Messages, Arrive(p, m) PROVE BackingInv'
  BY <1>1, <1>3, BackingKept DEF Arrive, workerVars, storeVars, ghostVars
<1>4. ASSUME NEW c \in Consumers
      PROVE  Start(c) \/ CancelSession(c) \/ Sigterm(c) \/ Evict(c) => BackingInv'
  BY <1>1, BackingKept DEF Start, CancelSession, Sigterm, Evict, workerVars, storeVars, ghostVars
<1>5. ASSUME NEW c \in Consumers PROVE Crash(c) => BackingInv'
  BY <1>1, BackingKept DEF Crash, storeVars, ghostVars
<1>6. ASSUME NEW c \in Consumers PROVE EndSession(c) => BackingInv'
  BY <1>1, BackingKept DEF EndSession, storeVars, ghostVars
<1>7. ASSUME NEW c \in Consumers, NEW P \in SUBSET Partitions PROVE Join(c, P) => BackingInv'
  BY <1>1, BackingKept DEF Join, storeVars, ghostVars
<1>8. ASSUME NEW c \in Consumers, NEW pos \in Positions PROVE LateSend(c, pos) => BackingInv'
  BY <1>1, BackingKept DEF LateSend, workerVars, storeVars, ghostVars
<1>9. ASSUME NEW w \in Workers PROVE Receive(w) \/ AcquireSlot(w) \/ CommitOffset(w) => BackingInv'
  <2>1. CASE Receive(w)
    <3>1. \A v \in Workers : pc'[v] = "publish" => v # w /\ pc[v] = "publish" /\ next'[v] = next[v]
      BY <2>1 DEF Receive, IInv, TypeOK
    <3> QED
      BY <1>1, <2>1, <3>1, BackingKept DEF Receive, storeVars, ghostVars
  <2>2. CASE AcquireSlot(w)
    <3>1. \A v \in Workers : pc'[v] = "publish" => pc[v] = "publish" /\ next'[v] = next[v]
      <4>1. PICK l \in {"dlq", "check"} : pc' = [pc EXCEPT ![w] = l]
        BY <2>2 DEF AcquireSlot
      <4> QED
        BY <2>2, <4>1 DEF AcquireSlot, IInv, TypeOK
    <3> QED
      BY <1>1, <2>2, <3>1, BackingKept DEF AcquireSlot, storeVars, ghostVars
  <2>3. CASE CommitOffset(w)
    BY <1>1, <2>3, BackingKept DEF CommitOffset, storeVars, ghostVars
  <2> QED
    BY <2>1, <2>2, <2>3
<1>10. ASSUME NEW w \in Workers, HandlerStep(w) PROVE BackingInv'
  <2> DEFINE Quiet == /\ UNCHANGED <<succ, attempted, skipped, feed>> /\ keys' \subseteq keys
                      /\ \A v \in Workers :
                           pc'[v] = "publish" => pc[v] = "publish" /\ next'[v] = next[v]
  <2>1. CASE FinishClaim(w)
    <3>1. Quiet /\ tried' = tried
      BY <2>1 DEF FinishClaim, GoTo, storeVars, ghostVars, IInv, TypeOK
    <3> QED
      BY <1>1, <3>1, BackingKept
  <2>2. CASE AcquireCancelled(w)
    <3>1. Quiet /\ tried' = tried \cup {Cur(w)}
      BY <2>2 DEF AcquireCancelled, GoTo, storeVars, IInv, TypeOK
    <3>2. Cur(w) \in Positions /\ Delivered(Cur(w))
      BY <2>2, MessageInHand DEF IInv, AcquireCancelled, HasMessage
    <3> QED
      BY <1>1, <3>1, <3>2, BackingKept
  <2>3. CASE Proceed(w)
    <3>1. Quiet /\ tried' = tried
      BY <2>3 DEF Proceed, GoTo, storeVars, ghostVars, IInv, TypeOK
    <3> QED
      BY <1>1, <3>1, BackingKept
  <2>4. CASE UpdateStatus(w)
    <3>1. Quiet /\ tried' = tried
      BY <2>4 DEF UpdateStatus, AttemptFailed, GoTo, ghostVars, IInv, TypeOK
    <3> QED
      BY <1>1, <3>1, BackingKept
  <2>5. CASE Backoff(w)
    <3>1. Quiet /\ tried' = tried
      BY <2>5 DEF Backoff, GoTo, storeVars, ghostVars, IInv, TypeOK
    <3> QED
      BY <1>1, <3>1, BackingKept
  <2>6. CASE PublishDLQ(w)
    <3>1. Quiet /\ tried' = tried
      BY <2>6 DEF PublishDLQ, GoTo, storeVars, ghostVars, IInv, TypeOK
    <3> QED
      BY <1>1, <3>1, BackingKept
  <2>7. CASE IncrDLQCount(w)
    <3>1. Quiet /\ tried' = tried \cup {Cur(w)}
      BY <2>7 DEF IncrDLQCount, ReturnErr, Leave, storeVars, IInv, TypeOK
    <3>2. Cur(w) \in Positions /\ Delivered(Cur(w))
      BY <2>7, MessageInHand DEF IInv, IncrDLQCount, HasMessage, Processing
    <3> QED
      BY <1>1, <3>1, <3>2, BackingKept
  <2> QED
    BY <1>1, <1>10, <2>1, <2>2, <2>3, <2>4, <2>5, <2>6, <2>7, MarkProcessedBacking,
       SkipProcessedBacking, RecordHistoryBacking, PublishEventBacking
    DEF HandlerStep
<1>11. ASSUME NEW i \in Payments PROVE Expire(i) => BackingInv'
  BY <1>1, BackingKept DEF Expire, workerVars, ghostVars
<1>12. ASSUME NEW pos \in Positions, NEW t \in Times, Announce(pos, t) PROVE BackingInv'
  <2> DEFINE entry == <<"ui", [MessageAt(pos) EXCEPT !.ts = t]>>
  <2>1. MessageAt(pos) \in [pid: Payments, status: Statuses, ts: Times]
    BY <1>12, EventsAssumption DEF Announce
  <2>2. entry[2].pid = MessageAt(pos).pid /\ entry[2].status = MessageAt(pos).status
    BY <2>1
  <2>3. Shown(entry)
    BY <1>12, <2>2 DEF Announce, Shown
  <2>4. feed' \subseteq feed \cup {entry}
    BY <1>12 DEF Announce
  <2>5. UNCHANGED <<pc, next, log, keys, hist, tried, succ, attempted, skipped>>
    BY <1>12 DEF Announce, workerVars, storeVars, ghostVars
  <2>6. \A w \in Workers : pc'[w] = "publish" => hist'[RowOf(Msg(w)')] # None
    BY <2>5 DEF BackingInv, BackingOK, Msg, RowOf
  <2> QED
    BY <1>1, <2>3, <2>4, <2>5, <2>6, BackingStep
<1> QED
  BY <1>2, <1>3, <1>4, <1>5, <1>6, <1>7, <1>8, <1>9, <1>10, <1>11, <1>12 DEF Next

LEMMA BackingInvCorrect == Spec => []BackingInv
BY InitBackingInv, NextBackingInv, IInvCorrect, PTL DEF Spec

(* A nil return means a row in the history, or a skip behind an earlier    *)
(* claim of the payment's key, whatever calls fail and whoever crashes.    *)
THEOREM SuccessBackedCorrect == Spec => []SuccessBacked
<1>1. BackingInv => SuccessBacked
  BY DEF BackingInv
<1> QED
  BY <1>1, BackingInvCorrect, PTL

(* What the consumers sent to the UI channel has a row in the history, and *)
(* what the UI sent there itself has its message in the topic.             *)
THEOREM FeedBackedCorrect == Spec => []FeedBacked
<1>1. BackingInv => FeedBacked
  BY DEF BackingInv
<1> QED
  BY <1>1, BackingInvCorrect, PTL
=============================================================================
