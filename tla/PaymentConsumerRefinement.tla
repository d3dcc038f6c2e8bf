---------------------- MODULE PaymentConsumerRefinement ----------------------
(***************************************************************************)
(* The consumer group implements OffsetContract: a proof, for every value  *)
(* of the constants, that each step of PaymentConsumer is a step of the    *)
(* contract or leaves what the contract speaks of unchanged.               *)
(***************************************************************************)
EXTENDS PaymentConsumerProofs

LEMMA InitFenceInv == Init => FenceInv
BY DEF Init, FenceInv

LEMMA FenceKept ==
  ASSUME FenceInv, owner' = owner, committed' = committed, marked' = marked,
         \A c \in Consumers : phase[c] \in InSession => phase'[c] \in InSession,
         TypeOK
  PROVE  FenceInv'
BY DEF FenceInv, TypeOK

LEMMA ReturnFence ==
  ASSUME IInv, OffsetInv, FenceInv, NEW w \in Workers, pc[w] \in Processing,
         ReturnNil(w), owner' = owner, committed' = committed, phase' = phase
  PROVE  FenceInv'
<1>1. marked[w] \in Nat /\ next[w] \in Nat /\ marked[w] <= next[w] - 1
  BY DEF OffsetInv, OffsetsOK, Handled, HasMessage, IInv, TypeOK
<1>2. \A v \in Workers : marked'[v] >= marked[v]
  BY <1>1 DEF ReturnNil, IInv, TypeOK
<1>3. ASSUME NEW p \in Partitions, owner[p] # None
      PROVE  phase[owner[p]] \in InSession /\ marked'[<<owner[p], p>>] >= committed[p]
  <2>1. owner[p] \in Consumers /\ <<owner[p], p>> \in Workers
    BY <1>3 DEF IInv, TypeOK, Workers
  <2>2. /\ marked[<<owner[p], p>>] \in Nat /\ marked'[<<owner[p], p>>] \in Nat
        /\ committed[p] \in Nat
    BY <1>1, <2>1 DEF ReturnNil, IInv, TypeOK
  <2> QED
    BY <1>2, <1>3, <2>1, <2>2 DEF FenceInv
<1> QED
  BY <1>3 DEF FenceInv

LEMMA NextFenceInv == IInv /\ OffsetInv /\ FenceInv /\ [Next]_vars => FenceInv'
<1> SUFFICES ASSUME IInv, OffsetInv, FenceInv, [Next]_vars PROVE FenceInv'
  OBVIOUS
<1>0. TypeOK
  BY DEF IInv
<1>1. CASE UNCHANGED vars
  BY <1>0, <1>1, FenceKept DEF vars, workerVars, groupVars
<1>2. ASSUME NEW p \in Partitions, NEW m \in Messages, Arrive(p, m) PROVE FenceInv'
  BY <1>0, <1>2, FenceKept DEF Arrive, workerVars, groupVars
<1>3. ASSUME NEW c \in Consumers PROVE Start(c) \/ CancelSession(c) \/ Sigterm(c) => FenceInv'
  <2>1. Start(c) \/ CancelSession(c) \/ Sigterm(c) =>
          \A d \in Consumers : phase[d] \in InSession => phase'[d] \in InSession
    BY <1>0 DEF TypeOK, Start, CancelSession, Sigterm, InSession
  <2> QED
    BY <1>0, <2>1, FenceKept DEF Start, CancelSession, Sigterm, workerVars
<1>4. ASSUME NEW c \in Consumers, Evict(c) PROVE FenceInv'
  BY <1>4 DEF Evict, FenceInv, workerVars
<1>5. ASSUME NEW c \in Consumers, Crash(c) PROVE FenceInv'
  BY <1>0, <1>5 DEF Crash, FenceInv, TypeOK, Workers
<1>6. ASSUME NEW c \in Consumers, EndSession(c) PROVE FenceInv'
  BY <1>0, <1>6 DEF EndSession, FenceInv, TypeOK, Workers
<1>7. ASSUME NEW c \in Consumers, NEW P \in SUBSET Partitions, Join(c, P) PROVE FenceInv'
  <2>1. ASSUME NEW p \in Partitions, owner'[p] # None
        PROVE  /\ phase'[owner'[p]] \in InSession
               /\ marked'[<<owner'[p], p>>] >= committed'[p]
    <3>1. CASE p \in P
      <4>1. owner'[p] = c /\ <<c, p>> \in Workers /\ <<c, p>> \in {c} \X P
        BY <1>7, <3>1 DEF Join, Workers
      <4>2. marked'[<<c, p>>] = committed[p] /\ committed'[p] = committed[p]
        BY <1>7, <4>1 DEF Join
      <4>3. phase'[c] = "live"
        BY <1>0, <1>7 DEF Join, TypeOK
      <4> QED
        BY <1>0, <4>1, <4>2, <4>3 DEF TypeOK, InSession
    <3>2. CASE p \notin P
      <4>1. owner'[p] = owner[p] /\ owner[p] # None /\ owner[p] \in Consumers
        BY <1>0, <1>7, <2>1, <3>2 DEF Join, TypeOK
      <4>2. <<owner[p], p>> \in Workers /\ <<owner[p], p>> \notin {c} \X P
        BY <3>2, <4>1 DEF Workers
      <4>3. marked'[<<owner[p], p>>] = marked[<<owner[p], p>>] /\ committed'[p] = committed[p]
        BY <1>7, <4>2 DEF Join
      <4>4. phase'[owner[p]] \in InSession
        BY <1>0, <1>7, <4>1 DEF Join, TypeOK, FenceInv, InSession
      <4> QED
        BY <4>1, <4>3, <4>4 DEF FenceInv
    <3> QED
      BY <3>1, <3>2
  <2> QED
    BY <2>1 DEF FenceInv
<1>8. ASSUME NEW c \in Consumers, NEW pos \in Positions, LateSend(c, pos) PROVE FenceInv'
  BY <1>0, <1>8, FenceKept DEF LateSend, workerVars, groupVars
<1>9. ASSUME NEW w \in Workers, Receive(w) \/ AcquireSlot(w) PROVE FenceInv'
  BY <1>0, <1>9, FenceKept DEF Receive, AcquireSlot, groupVars
<1>10. ASSUME NEW w \in Workers, CommitOffset(w) PROVE FenceInv'
  <2>1. w[2] \in Partitions /\ w = <<owner[w[2]], w[2]>>
    BY <1>10, WorkerPair DEF CommitOffset
  <2>2. \A p \in Partitions : committed'[p] = IF p = w[2] THEN marked[w] ELSE committed[p]
    BY <1>0, <1>10 DEF CommitOffset, TypeOK
  <2>3. marked[w] \in Nat
    BY <1>0 DEF TypeOK
  <2> QED
    BY <1>10, <2>1, <2>2, <2>3 DEF CommitOffset, FenceInv
<1>11. ASSUME NEW w \in Workers, HandlerStep(w) PROVE FenceInv'
  <2>1. CASE SkipProcessed(w) \/ PublishEvent(w)
    BY <2>1, ReturnFence DEF SkipProcessed, PublishEvent, Processing, groupVars
  <2>2. CASE ~(SkipProcessed(w) \/ PublishEvent(w))
    <3>1. UNCHANGED <<owner, committed, marked, phase>>
      BY <1>11, <2>2 DEF HandlerStep, FinishClaim, AcquireCancelled, Proceed, MarkProcessed,
         UpdateStatus, RecordHistory, Backoff, PublishDLQ, IncrDLQCount, ReturnErr,
         AttemptFailed, GoTo, groupVars
    <3> QED
      BY <1>0, <3>1, FenceKept
  <2> QED
    BY <2>1, <2>2
<1>12. ASSUME NEW i \in Payments, Expire(i) PROVE FenceInv'
  BY <1>0, <1>12, FenceKept DEF Expire, workerVars, groupVars
<1>13. ASSUME NEW pos \in Positions, NEW t \in Times, Announce(pos, t) PROVE FenceInv'
  BY <1>0, <1>13, FenceKept DEF Announce, workerVars, groupVars
<1> QED
  BY <1>1, <1>2, <1>3, <1>4, <1>5, <1>6, <1>7, <1>8, <1>9, <1>10, <1>11, <1>12, <1>13 DEF Next

LEMMA FenceInvCorrect == Spec => []FenceInv
BY InitFenceInv, NextFenceInv, IInvCorrect, OffsetInvCorrect, PTL DEF Spec

-----------------------------------------------------------------------------
(* What one step does to the variables of the contract.                    *)

Moved(p) == committed'[p] # committed[p]

LEMMA OnlyOwnersCommit ==
  ASSUME IInv, FenceInv, [Next]_vars, NEW p \in Partitions, Moved(p)
  PROVE  /\ committed'[p] > committed[p]
         /\ \E w \in Workers : w[2] = p /\ committed'[p] = marked[w]
         /\ UNCHANGED <<log, tried, succ>>
<1>0. TypeOK
  BY DEF IInv
<1>1. (\E w \in Workers : CommitOffset(w)) \/ (\E c \in Consumers : EndSession(c))
  BY DEF Moved, Next, vars, groupVars, workerVars, Arrive, Start, CancelSession, Sigterm, Evict, Crash, Join,
         LateSend, Receive, AcquireSlot, HandlerStep, FinishClaim, AcquireCancelled,
         SkipProcessed, Proceed, MarkProcessed, UpdateStatus, RecordHistory, Backoff,
         PublishDLQ, IncrDLQCount, PublishEvent, Expire, Announce
<1>2. ASSUME NEW w \in Workers, CommitOffset(w)
      PROVE  /\ committed'[p] > committed[p]
             /\ \E v \in Workers : v[2] = p /\ committed'[p] = marked[v]
             /\ UNCHANGED <<log, tried, succ>>
  <2>1. w[2] = p /\ committed'[p] = marked[w] /\ owner[p] = w[1]
    BY <1>0, <1>2 DEF CommitOffset, Moved, TypeOK
  <2>2. w = <<owner[p], p>> /\ owner[p] # None
    BY <2>1, WorkerPair, EventsAssumption
  <2>3. marked[w] >= committed[p] /\ marked[w] \in Nat /\ committed[p] \in Nat
    BY <1>0, <2>2 DEF FenceInv, TypeOK
  <2> QED
    BY <1>2, <2>1, <2>3 DEF Moved, CommitOffset, ghostVars
<1>3. ASSUME NEW c \in Consumers, EndSession(c)
      PROVE  /\ committed'[p] > committed[p]
             /\ \E v \in Workers : v[2] = p /\ committed'[p] = marked[v]
             /\ UNCHANGED <<log, tried, succ>>
  <2>1. committed'[p] = marked[<<c, p>>] /\ owner[p] = c
    BY <1>3 DEF EndSession, Moved
  <2>2. <<c, p>> \in Workers /\ <<c, p>>[2] = p /\ owner[p] # None
    BY <2>1, EventsAssumption DEF Workers
  <2>3. marked[<<c, p>>] >= committed[p] /\ marked[<<c, p>>] \in Nat /\ committed[p] \in Nat
    BY <1>0, <2>1, <2>2 DEF FenceInv, TypeOK
  <2> QED
    BY <1>3, <2>1, <2>2, <2>3 DEF Moved, EndSession, ghostVars
<1> QED
  BY <1>1, <1>2, <1>3

(* A committed offset never moves back: an expelled process cannot commit. *)
THEOREM OffsetMonotoneCorrect == Spec => OffsetMonotone
<1>1. IInv /\ FenceInv /\ [Next]_vars => [\A p \in Partitions : committed'[p] >= committed[p]]_vars
  <2> SUFFICES ASSUME IInv, FenceInv, [Next]_vars, NEW p \in Partitions
               PROVE  committed'[p] >= committed[p]
    OBVIOUS
  <2>1. committed[p] \in Nat
    BY DEF IInv, TypeOK
  <2>2. CASE committed'[p] = committed[p]
    BY <2>1, <2>2
  <2>3. CASE committed'[p] # committed[p]
    <3>1. committed'[p] > committed[p] /\ committed'[p] \in Nat
      BY <2>3, OnlyOwnersCommit, NextIInv DEF Moved, IInv, TypeOK
    <3> QED
      BY <2>1, <3>1
  <2> QED
    BY <2>2, <2>3
<1> QED
  BY <1>1, IInvCorrect, FenceInvCorrect, PTL DEF Spec, OffsetMonotone

LEMMA CommitRefines ==
  ASSUME IInv, IInv', OffsetInv', FenceInv, [Next]_vars, committed' # committed
  PROVE  Contract!Commit
<1>1. \E p \in Partitions : Moved(p)
  BY DEF Moved, IInv, TypeOK
<1>2. UNCHANGED <<log, tried, succ>>
  BY <1>1, OnlyOwnersCommit
<1>3. ASSUME NEW p \in Partitions, Moved(p)
      PROVE  /\ committed'[p] > committed[p]
             /\ \A o \in 0 .. committed'[p] - 1 : <<p, o>> \in tried
             /\ <<p, committed'[p] - 1>> \in succ
  <2>1. committed'[p] > committed[p] /\ committed[p] \in Nat /\ committed'[p] \in Nat
    BY <1>3, OnlyOwnersCommit DEF IInv, TypeOK
  <2> QED
    BY <1>2, <2>1 DEF OffsetInv, NoSkip, FrontierSucceeded
<1> QED
  BY <1>2, <1>3 DEF Contract!Commit, Moved, IInv, TypeOK

HandlesOne ==
  \E w \in Workers :
    /\ pc[w] \in HasMessage
    /\ tried' = tried \cup {Cur(w)}
    /\ succ' = succ \/ succ' = succ \cup {Cur(w)}
    /\ UNCHANGED <<log, committed>>

LEMMA HandleRefines ==
  ASSUME IInv, HandlesOne
  PROVE  \E p \in Partitions : \E o \in 0 .. Len(log[p]) - 1, ok \in BOOLEAN : Contract!Handle(p, o, ok)
<1>1. PICK w \in Workers :
        /\ pc[w] \in HasMessage
        /\ tried' = tried \cup {Cur(w)}
        /\ succ' = succ \/ succ' = succ \cup {Cur(w)}
        /\ UNCHANGED <<log, committed>>
  BY DEF HandlesOne
<1> DEFINE p == w[2]
           o == next[w] - 1
<1>2. p \in Partitions /\ o \in 0 .. Len(log[p]) - 1 /\ o < Len(log[p]) /\ Cur(w) = <<p, o>>
  BY <1>1, WorkerPair DEF IInv, TypeOK, WorkersOK, Cur
<1>3. CASE succ' = succ
  BY <1>1, <1>2, <1>3 DEF Contract!Handle
<1>4. CASE succ' = succ \cup {Cur(w)}
  BY <1>1, <1>2, <1>4 DEF Contract!Handle
<1> QED
  BY <1>1, <1>3, <1>4

LEMMA StepKinds ==
  ASSUME IInv, FenceInv, [Next]_vars
  PROVE  \/ committed' # committed
         \/ HandlesOne
         \/ \E p \in Partitions, m \in Messages : Contract!Extend(p, m)
         \/ UNCHANGED <<log, tried, succ, committed>>
<1>1. CASE UNCHANGED vars
  BY <1>1 DEF vars, groupVars, ghostVars
<1>2. ASSUME NEW p \in Partitions, NEW m \in Messages, Arrive(p, m) PROVE Contract!Extend(p, m)
  BY <1>2 DEF Arrive, Contract!Extend, groupVars, ghostVars
<1>3. ASSUME NEW c \in Consumers,
             \/ Start(c) \/ CancelSession(c) \/ Sigterm(c) \/ Evict(c) \/ Crash(c)
             \/ EndSession(c)
             \/ \E P \in SUBSET Partitions \ {{}} : Join(c, P)
             \/ \E pos \in Positions : LateSend(c, pos)
      PROVE  committed' # committed \/ UNCHANGED <<log, tried, succ, committed>>
  BY <1>3 DEF Start, CancelSession, Sigterm, Evict, Crash, EndSession, Join, LateSend,
              groupVars, ghostVars
<1>4. ASSUME NEW w \in Workers, Receive(w) \/ AcquireSlot(w) \/ CommitOffset(w)
      PROVE  committed' # committed \/ UNCHANGED <<log, tried, succ, committed>>
  BY <1>4 DEF Receive, AcquireSlot, CommitOffset, groupVars, ghostVars
<1>5. ASSUME NEW w \in Workers, HandlerStep(w)
      PROVE  HandlesOne \/ UNCHANGED <<log, tried, succ, committed>>
  <2>1. CASE FinishClaim(w) \/ Proceed(w) \/ MarkProcessed(w) \/ UpdateStatus(w)
               \/ RecordHistory(w) \/ Backoff(w) \/ PublishDLQ(w)
    BY <2>1 DEF FinishClaim, Proceed, MarkProcessed, UpdateStatus, RecordHistory, Backoff,
                PublishDLQ, AttemptFailed, GoTo, groupVars, ghostVars
  <2>2. CASE AcquireCancelled(w)
    BY <2>2 DEF AcquireCancelled, HandlesOne, HasMessage, groupVars
  <2>3. CASE SkipProcessed(w)
    BY <2>3 DEF SkipProcessed, ReturnNil, Leave, HandlesOne, HasMessage, Processing, groupVars
  <2>4. CASE IncrDLQCount(w)
    BY <2>4 DEF IncrDLQCount, ReturnErr, Leave, HandlesOne, HasMessage, Processing, groupVars
  <2>5. CASE PublishEvent(w)
    BY <2>5 DEF PublishEvent, ReturnNil, Leave, HandlesOne, HasMessage, Processing, groupVars
  <2> QED
    BY <1>5, <2>1, <2>2, <2>3, <2>4, <2>5 DEF HandlerStep
<1>6. ASSUME NEW i \in Payments, Expire(i) PROVE UNCHANGED <<log, tried, succ, committed>>
  BY <1>6 DEF Expire, groupVars, ghostVars
<1>7. ASSUME NEW pos \in Positions, NEW t \in Times, Announce(pos, t)
      PROVE  UNCHANGED <<log, tried, succ, committed>>
  BY <1>7 DEF Announce, groupVars, ghostVars
<1> QED
  BY <1>1, <1>2, <1>3, <1>4, <1>5, <1>6, <1>7 DEF Next

LEMMA InitRefines == Init => Contract!Init
BY DEF Init, Contract!Init

LEMMA NextRefines ==
  IInv /\ IInv' /\ OffsetInv' /\ FenceInv /\ [Next]_vars => [Contract!Next]_Contract!cvars
<1> SUFFICES ASSUME IInv, IInv', OffsetInv', FenceInv, [Next]_vars
             PROVE  [Contract!Next]_Contract!cvars
  OBVIOUS
<1>1. CASE committed' # committed
  BY <1>1, CommitRefines DEF Contract!Next
<1>2. CASE HandlesOne
  BY <1>2, HandleRefines DEF Contract!Next
<1>3. CASE \E p \in Partitions, m \in Messages : Contract!Extend(p, m)
  BY <1>3 DEF Contract!Next
<1>4. CASE UNCHANGED <<log, tried, succ, committed>>
  BY <1>4 DEF Contract!cvars
<1> QED
  BY <1>1, <1>2, <1>3, <1>4, StepKinds

(* The consumer, with its crashes, cancelled and expelled sessions and     *)
(* failing stores, consumes each partition as the contract says.           *)
THEOREM ContractImplemented == Spec => RefinesContract
BY InitRefines, NextRefines, IInvCorrect, OffsetInvCorrect, FenceInvCorrect, PTL
DEF Spec, RefinesContract, Contract!Spec
=============================================================================
