--------------------------- MODULE PaymentConsumer ---------------------------
(***************************************************************************)
(* The payment consumer (cmd/consumer and internal/consumer): processes of *)
(* one Kafka consumer group read the payments topic, and every message     *)
(* goes through validation, an idempotency check, a retried write of the   *)
(* status (Redis) and of the history (DynamoDB), and the dead letter queue *)
(* when that fails.                                                        *)
(*                                                                         *)
(* A worker <<c, p>> is the goroutine in which consumer process c runs     *)
(* ConsumeClaim for partition p.  Every call to Redis, DynamoDB or Kafka   *)
(* is one step; the local code between two calls belongs to the step of    *)
(* the first one.  Faults names what may go wrong in an instance, and a    *)
(* call that fails may still have had its effect (the reply was lost).     *)
(***************************************************************************)
EXTENDS Naturals, Sequences, FiniteSets

CONSTANTS
  Consumers, Partitions,
  Payments, Statuses, Times,  \* what tells payment events apart
  Events,                     \* the events producers send
  Early,                      \* those dated ahead of the consumer's clock
  FromUI,                     \* those sent through the form of the UI
  Malformed,                  \* a payload the validator refuses
  None,                       \* no value: no owner, no status, no row
  Home,                       \* partition of each payment (keyed producer)
  MaxLog,                     \* bound: messages per partition
  MaxSessions,                \* bound: consumer group sessions of a run
  WorkerCount,                \* worker.count, the size of the semaphore
  MaxAttempts,                \* retry.max_attempts
  Faults                      \* the faults of this instance

Messages  == Events \cup {Malformed}
Positions == Partitions \X (0 .. MaxLog - 1)
Rows      == Payments \X Times
Workers   == Consumers \X Partitions
FaultKinds == {"redis", "dynamo", "kafka", "crash", "cancel", "evict", "expire"}

ASSUME EventsAssumption ==
  /\ Events \subseteq [pid: Payments, status: Statuses, ts: Times]
  /\ Early \subseteq Events
  /\ FromUI \subseteq Events
  /\ Malformed \notin Events
  /\ None \notin Statuses
  /\ None \notin Consumers
  /\ Home \in [Payments -> Partitions]

ASSUME BoundsAssumption ==
  /\ IsFiniteSet(Partitions)
  /\ MaxLog \in Nat
  /\ MaxSessions \in Nat
  /\ WorkerCount \in Nat
  /\ MaxAttempts \in Nat
  /\ Faults \subseteq FaultKinds

VARIABLES
  log,        \* the topic: the messages of each partition
  owner,      \* the member the current generation assigns a partition to
  committed,  \* the offset the group has committed
  phase,      \* where each process is in its consume loop
  sessions,   \* sessions begun so far
  pc, next, marked, dirty, attempt,  \* locals of each worker
  slots,      \* tokens in the semaphore of each process
  keys,       \* idempotency keys present in Redis
  status,     \* payment:<id> hashes in Redis
  hist,       \* rows of the DynamoDB table
  dlq,        \* copies of each message in the DLQ topic
  late,       \* DLQ sends whose caller stopped waiting for the result
  dlqCount,   \* the dlq:count counter in Redis
  feed,       \* what was published to the UI channel, and by whom
  tried,      \* history: positions whose processMessage has returned
  succ,       \* history: positions whose processMessage returned nil
  attempted,  \* history: positions whose key a worker has tried to set
  skipped     \* history: positions returned from because the key was there

workerVars == <<pc, next, marked, dirty, attempt, slots>>
groupVars  == <<owner, committed, phase, sessions>>
storeVars  == <<keys, status, hist>>
dlqVars    == <<dlq, late, dlqCount>>
ghostVars  == <<tried, succ, attempted, skipped>>
vars == <<log, workerVars, groupVars, storeVars, dlqVars, feed, ghostVars>>

Processing == {"check", "mark", "status", "history", "backoff", "dlq", "incr", "publish"}
Labels     == Processing \cup {"off", "idle", "acquire", "done"}
InSession  == {"live", "ending", "stopping"}
Phases     == InSession \cup {"down", "between"}

Cur(w) == <<w[2], next[w] - 1>>   \* position of the message in hand
Msg(w) == log[w[2]][next[w]]      \* the message in hand
RowOf(e) == <<e.pid, e.ts>>
MessageAt(pos) == log[pos[1]][pos[2] + 1]
Delivered(pos) == pos[2] < Len(log[pos[1]])

Init ==
  /\ log = [p \in Partitions |-> << >>]
  /\ owner = [p \in Partitions |-> None]
  /\ committed = [p \in Partitions |-> 0]
  /\ phase = [c \in Consumers |-> "down"]
  /\ sessions = 0
  /\ pc = [w \in Workers |-> "off"]
  /\ next = [w \in Workers |-> 0]
  /\ marked = [w \in Workers |-> 0]
  /\ dirty = [w \in Workers |-> FALSE]
  /\ attempt = [w \in Workers |-> 0]
  /\ slots = [c \in Consumers |-> 0]
  /\ keys = {}
  /\ status = [i \in Payments |-> None]
  /\ hist = [r \in Rows |-> None]
  /\ dlq = [pos \in Positions |-> 0]
  /\ late = {}
  /\ dlqCount = 0
  /\ feed = {}
  /\ tried = {} /\ succ = {} /\ attempted = {} /\ skipped = {}

-----------------------------------------------------------------------------
(* What a call can do.  A cancelled session context makes every call of    *)
(* its workers fail; a service in Faults may fail any call, before or      *)
(* after the call took effect.                                             *)

Cancelled(c) == phase[c] \in {"ending", "stopping"}
MayFail(c, service) == Cancelled(c) \/ service \in Faults
FailureEffects(service) == IF service \in Faults THEN {TRUE, FALSE} ELSE {FALSE}

(* The effects (had or not) of a call whose result the code only logs.     *)
Effects(c, service) ==
  (IF Cancelled(c) THEN {} ELSE {TRUE})
    \cup (IF MayFail(c, service) THEN FailureEffects(service) ELSE {})

(* processMessage returns: the deferred release of the semaphore, then     *)
(* ConsumeClaim marks the message if and only if the error is nil.         *)
Leave(w) ==
  /\ pc' = [pc EXCEPT ![w] = "idle"]
  /\ slots' = [slots EXCEPT ![w[1]] = @ - 1]
  /\ attempt' = [attempt EXCEPT ![w] = 0]
  /\ tried' = tried \cup {Cur(w)}

ReturnNil(w) ==
  /\ Leave(w)
  /\ marked' = [marked EXCEPT ![w] = next[w]]
  /\ dirty' = [dirty EXCEPT ![w] = TRUE]
  /\ succ' = succ \cup {Cur(w)}
  /\ UNCHANGED <<next, attempted>>

\* MUTANT: the message is marked whatever processMessage returned.
ReturnErrMarked(w) ==
  /\ Leave(w)
  /\ marked' = [marked EXCEPT ![w] = next[w]]
  /\ dirty' = [dirty EXCEPT ![w] = TRUE]
  /\ UNCHANGED <<next, succ, attempted, skipped>>

\* MUTANT: the error paths forget the semaphore.
ReturnErrLeak(w) ==
  /\ pc' = [pc EXCEPT ![w] = "idle"]
  /\ attempt' = [attempt EXCEPT ![w] = 0]
  /\ tried' = tried \cup {Cur(w)}
  /\ UNCHANGED <<slots, marked, dirty, next, succ, attempted, skipped>>

ReturnErr(w) ==
  /\ Leave(w)
  /\ UNCHANGED <<marked, dirty, next, succ, attempted, skipped>>

(* The worker goes on to label l, all else in its frame unchanged.         *)
GoTo(w, l) ==
  /\ pc' = [pc EXCEPT ![w] = l]
  /\ UNCHANGED <<next, marked, dirty, slots>>

-----------------------------------------------------------------------------
(* The topic and the consumer group.                                       *)

Arrive(p, m) ==
  /\ Len(log[p]) < MaxLog
  /\ m # Malformed => Home[m.pid] = p
  /\ log' = [log EXCEPT ![p] = Append(@, m)]
  /\ UNCHANGED <<workerVars, groupVars, storeVars, dlqVars, feed, ghostVars>>

Start(c) ==
  /\ phase[c] = "down"
  /\ phase' = [phase EXCEPT ![c] = "between"]
  /\ UNCHANGED <<log, workerVars, owner, committed, sessions, storeVars, dlqVars, feed, ghostVars>>

\* MUTANT: the group starts at the newest offset (OffsetNewest).
JoinNewest(c, P) ==
  /\ phase[c] = "between"
  /\ sessions < MaxSessions
  /\ \A p \in P : owner[p] = None
  /\ sessions' = sessions + 1
  /\ phase' = [phase EXCEPT ![c] = "live"]
  /\ owner' = [p \in Partitions |-> IF p \in P THEN c ELSE owner[p]]
  /\ LET claim == {c} \X P IN
       /\ pc' = [w \in Workers |-> IF w \in claim THEN "idle" ELSE pc[w]]
       /\ next' = [w \in Workers |-> IF w \in claim THEN Len(log[w[2]]) ELSE next[w]]
       /\ marked' = [w \in Workers |-> IF w \in claim THEN Len(log[w[2]]) ELSE marked[w]]
  /\ UNCHANGED <<log, committed, dirty, attempt, slots, storeVars, dlqVars, feed, ghostVars>>

(* The loop calls Consume, the group assigns the partitions P to c, and a  *)
(* ConsumeClaim starts on each at the committed offset (oldest if none).   *)
Join(c, P) ==
  /\ phase[c] = "between"
  /\ sessions < MaxSessions
  /\ \A p \in P : owner[p] = None
  /\ sessions' = sessions + 1
  /\ phase' = [phase EXCEPT ![c] = "live"]
  /\ owner' = [p \in Partitions |-> IF p \in P THEN c ELSE owner[p]]
  /\ LET claim == {c} \X P IN
       /\ pc' = [w \in Workers |-> IF w \in claim THEN "idle" ELSE pc[w]]
       /\ next' = [w \in Workers |-> IF w \in claim THEN committed[w[2]] ELSE next[w]]
       /\ marked' = [w \in Workers |-> IF w \in claim THEN committed[w[2]] ELSE marked[w]]
  /\ UNCHANGED <<log, committed, dirty, attempt, slots, storeVars, dlqVars, feed, ghostVars>>

(* A rebalance, or a heartbeat that finds the member expelled, cancels the *)
(* session context; the loop will call Consume again.                      *)
CancelSession(c) ==
  /\ phase[c] = "live"
  /\ "cancel" \in Faults \/ \A p \in Partitions : owner[p] # c
  /\ phase' = [phase EXCEPT ![c] = "ending"]
  /\ UNCHANGED <<log, workerVars, owner, committed, sessions, storeVars, dlqVars, feed, ghostVars>>

(* SIGTERM cancels consumeCtx, the parent of the session context.          *)
Sigterm(c) ==
  /\ "cancel" \in Faults
  /\ phase[c] \in {"between", "live", "ending"}
  /\ phase' = [phase EXCEPT ![c] = IF @ = "between" THEN "down" ELSE "stopping"]
  /\ UNCHANGED <<log, workerVars, owner, committed, sessions, storeVars, dlqVars, feed, ghostVars>>

(* The coordinator expels a member that has stopped heartbeating: its      *)
(* partitions are free, but the process does not know yet.                 *)
Evict(c) ==
  /\ "evict" \in Faults
  /\ phase[c] \in InSession
  /\ \E p \in Partitions : owner[p] = c
  /\ owner' = [p \in Partitions |-> IF owner[p] = c THEN None ELSE owner[p]]
  /\ UNCHANGED <<log, workerVars, committed, phase, sessions, storeVars, dlqVars, feed, ghostVars>>

Crash(c) ==
  /\ "crash" \in Faults
  /\ phase[c] # "down"
  /\ phase' = [phase EXCEPT ![c] = "down"]
  /\ owner' = [p \in Partitions |-> IF owner[p] = c THEN None ELSE owner[p]]
  /\ pc' = [w \in Workers |-> IF w[1] = c THEN "off" ELSE pc[w]]
  /\ next' = [w \in Workers |-> IF w[1] = c THEN 0 ELSE next[w]]
  /\ marked' = [w \in Workers |-> IF w[1] = c THEN 0 ELSE marked[w]]
  /\ dirty' = [w \in Workers |-> IF w[1] = c THEN FALSE ELSE dirty[w]]
  /\ attempt' = [w \in Workers |-> IF w[1] = c THEN 0 ELSE attempt[w]]
  /\ slots' = [slots EXCEPT ![c] = 0]
  /\ UNCHANGED <<log, committed, sessions, storeVars, dlqVars, feed, ghostVars>>

\* MUTANT: a commit of an older generation is taken.
CommitUnfenced(w) ==
  /\ dirty[w]
  /\ committed' = [committed EXCEPT ![w[2]] = marked[w]]
  /\ dirty' = [dirty EXCEPT ![w] = FALSE]
  /\ UNCHANGED <<log, pc, next, marked, attempt, slots, owner, phase, sessions,
                 storeVars, dlqVars, feed, ghostVars>>

(* Autocommit: the broker takes the marked offset from the current owner   *)
(* only, a member of an older generation is refused.                       *)
CommitOffset(w) ==
  /\ dirty[w]
  /\ owner[w[2]] = w[1]
  /\ committed' = [committed EXCEPT ![w[2]] = marked[w]]
  /\ dirty' = [dirty EXCEPT ![w] = FALSE]
  /\ UNCHANGED <<log, pc, next, marked, attempt, slots, owner, phase, sessions,
                 storeVars, dlqVars, feed, ghostVars>>

(* All claims have returned: the session flushes the marked offsets, which *)
(* fails when Kafka does, and leaves the group.                            *)
EndSession(c) ==
  /\ Cancelled(c)
  /\ \A p \in Partitions : pc[<<c, p>>] \in {"off", "done"}
  /\ \E flushed \in IF "kafka" \in Faults THEN {TRUE, FALSE} ELSE {TRUE} :
       committed' = [p \in Partitions |->
                       IF flushed /\ owner[p] = c /\ dirty[<<c, p>>]
                         THEN marked[<<c, p>>] ELSE committed[p]]
  /\ owner' = [p \in Partitions |-> IF owner[p] = c THEN None ELSE owner[p]]
  /\ phase' = [phase EXCEPT ![c] = IF @ = "ending" THEN "between" ELSE "down"]
  /\ pc' = [w \in Workers |-> IF w[1] = c THEN "off" ELSE pc[w]]
  /\ next' = [w \in Workers |-> IF w[1] = c THEN 0 ELSE next[w]]
  /\ marked' = [w \in Workers |-> IF w[1] = c THEN 0 ELSE marked[w]]
  /\ dirty' = [w \in Workers |-> IF w[1] = c THEN FALSE ELSE dirty[w]]
  /\ UNCHANGED <<log, sessions, attempt, slots, storeVars, dlqVars, feed, ghostVars>>

-----------------------------------------------------------------------------
(* ConsumeClaim and processMessage.                                        *)

\* MUTANT: the message is marked when it is received, not when handled.
ReceiveMarking(w) ==
  /\ pc[w] = "idle"
  /\ next[w] < Len(log[w[2]])
  /\ pc' = [pc EXCEPT ![w] = "acquire"]
  /\ next' = [next EXCEPT ![w] = @ + 1]
  /\ marked' = [marked EXCEPT ![w] = next[w] + 1]
  /\ dirty' = [dirty EXCEPT ![w] = TRUE]
  /\ UNCHANGED <<log, attempt, slots, groupVars, storeVars, dlqVars, feed, ghostVars>>

(* The range over claim.Messages() yields a message, also one that was     *)
(* buffered before the session was cancelled.                              *)
Receive(w) ==
  /\ pc[w] = "idle"
  /\ next[w] < Len(log[w[2]])
  /\ pc' = [pc EXCEPT ![w] = "acquire"]
  /\ next' = [next EXCEPT ![w] = @ + 1]
  /\ UNCHANGED <<log, marked, dirty, attempt, slots, groupVars, storeVars, dlqVars, feed, ghostVars>>

\* MUTANT: the claim returns only when its marks have been committed.
FinishClaimCommitted(w) ==
  /\ pc[w] = "idle"
  /\ Cancelled(w[1]) /\ ~dirty[w]
  /\ GoTo(w, "done")
  /\ UNCHANGED <<log, attempt, groupVars, storeVars, dlqVars, feed, ghostVars>>

(* The range ends once the claim is closed.                                *)
FinishClaim(w) ==
  /\ pc[w] = "idle"
  /\ Cancelled(w[1])
  /\ GoTo(w, "done")
  /\ UNCHANGED <<log, attempt, groupVars, storeVars, dlqVars, feed, ghostVars>>

(* What Validate may say: an event dated more than five minutes ahead is   *)
(* refused now and accepted when it is delivered again later.              *)
Verdicts(m) ==
  CASE m = Malformed -> {"refused"}
    [] m \in Early   -> {"refused", "valid"}
    [] OTHER         -> {"valid"}

(* A free slot of the semaphore, then the validator decides.               *)
AcquireSlot(w) ==
  /\ pc[w] = "acquire"
  /\ slots[w[1]] < WorkerCount
  /\ slots' = [slots EXCEPT ![w[1]] = @ + 1]
  /\ \E verdict \in Verdicts(Msg(w)) :
       pc' = [pc EXCEPT ![w] = IF verdict = "refused" THEN "dlq" ELSE "check"]
  /\ UNCHANGED <<log, next, marked, dirty, attempt, groupVars, storeVars, dlqVars, feed, ghostVars>>

(* The other branch of the select: an error return before any slot.        *)
AcquireCancelled(w) ==
  /\ pc[w] = "acquire"
  /\ Cancelled(w[1])
  /\ GoTo(w, "idle")
  /\ tried' = tried \cup {Cur(w)}
  /\ UNCHANGED <<log, attempt, groupVars, storeVars, dlqVars, feed, succ, attempted, skipped>>

\* MUTANT: a failing IsProcessed counts as processed.
SkipOnError(w) ==
  /\ pc[w] = "check"
  /\ Msg(w).pid \in keys \/ MayFail(w[1], "redis")
  /\ ReturnNil(w)
  /\ skipped' = skipped \cup {Cur(w)}
  /\ UNCHANGED <<log, groupVars, storeVars, dlqVars, feed>>

(* IsProcessed finds the key: processMessage returns nil.                  *)
SkipProcessed(w) ==
  /\ pc[w] = "check"
  /\ ~Cancelled(w[1])
  /\ Msg(w).pid \in keys
  /\ ReturnNil(w)
  /\ skipped' = skipped \cup {Cur(w)}
  /\ UNCHANGED <<log, groupVars, storeVars, dlqVars, feed>>

\* MUTANT: the answer of IsProcessed is not looked at.
ProceedAlways(w) ==
  /\ pc[w] = "check"
  /\ GoTo(w, "mark")
  /\ UNCHANGED <<log, attempt, groupVars, storeVars, dlqVars, feed, ghostVars>>

(* IsProcessed finds no key, or fails and the code proceeds optimistically. *)
Proceed(w) ==
  /\ pc[w] = "check"
  /\ \/ ~Cancelled(w[1]) /\ Msg(w).pid \notin keys
     \/ MayFail(w[1], "redis")
  /\ GoTo(w, "mark")
  /\ UNCHANGED <<log, attempt, groupVars, storeVars, dlqVars, feed, ghostVars>>

(* MarkProcessed: SET NX, whose failure, or whose finding the key set by   *)
(* another worker, is only logged.  retry.Do then starts its first attempt, *)
(* or fails at once when it has none.                                      *)
MarkProcessed(w) ==
  /\ pc[w] = "mark"
  /\ \E effect \in Effects(w[1], "redis") :
       keys' = IF effect THEN keys \cup {Msg(w).pid} ELSE keys
  /\ GoTo(w, IF MaxAttempts = 0 THEN "dlq" ELSE "status")
  /\ attempt' = [attempt EXCEPT ![w] = IF MaxAttempts = 0 THEN 0 ELSE 1]
  /\ attempted' = attempted \cup {Cur(w)}
  /\ UNCHANGED <<log, groupVars, status, hist, dlqVars, feed, tried, succ, skipped>>

\* MUTANT: one attempt too many.
AttemptFailedLate(w) == GoTo(w, IF attempt[w] <= MaxAttempts THEN "backoff" ELSE "dlq")

\* MUTANT: retry.Do loses the error of the last attempt.
AttemptFailedNil(w) == GoTo(w, IF attempt[w] < MaxAttempts THEN "backoff" ELSE "publish")

(* The attempt failed: wait for the next one, or give up after the last.   *)
AttemptFailed(w) == GoTo(w, IF attempt[w] < MaxAttempts THEN "backoff" ELSE "dlq")

UpdateStatus(w) ==
  /\ pc[w] = "status"
  /\ \/ /\ ~Cancelled(w[1])
        /\ status' = [status EXCEPT ![Msg(w).pid] = Msg(w).status]
        /\ GoTo(w, "history")
     \/ /\ MayFail(w[1], "redis")
        /\ \E effect \in FailureEffects("redis") :
             status' = IF effect THEN [status EXCEPT ![Msg(w).pid] = Msg(w).status]
                                 ELSE status
        /\ AttemptFailed(w)
  /\ UNCHANGED <<log, attempt, groupVars, keys, hist, dlqVars, feed, ghostVars>>

(* The conditional PutItem: a row that exists is left as it is.            *)
Put(e) == IF hist[RowOf(e)] = None THEN [hist EXCEPT ![RowOf(e)] = e.status] ELSE hist

RecordHistory(w) ==
  /\ pc[w] = "history"
  /\ \/ /\ ~Cancelled(w[1])
        /\ hist' = Put(Msg(w))
        /\ GoTo(w, "publish")
     \/ /\ MayFail(w[1], "dynamo")
        /\ \E effect \in FailureEffects("dynamo") :
             hist' = IF effect THEN Put(Msg(w)) ELSE hist
        /\ AttemptFailed(w)
  /\ UNCHANGED <<log, attempt, groupVars, keys, status, dlqVars, feed, ghostVars>>

(* The select of retry.Do: the delay is over, or the context is done.      *)
Backoff(w) ==
  /\ pc[w] = "backoff"
  /\ \/ /\ GoTo(w, "status")
        /\ attempt' = [attempt EXCEPT ![w] = @ + 1]
     \/ /\ Cancelled(w[1])
        /\ GoTo(w, "dlq")
        /\ UNCHANGED attempt
  /\ UNCHANGED <<log, groupVars, storeVars, dlqVars, feed, ghostVars>>

\* MUTANT: the failed message is not sent to the DLQ.
PublishDLQNothing(w) ==
  /\ pc[w] = "dlq"
  /\ GoTo(w, "incr")
  /\ UNCHANGED <<log, attempt, groupVars, storeVars, dlqVars, feed, ghostVars>>

(* dlq.Publish: the goroutine's send succeeds, fails, or is abandoned by   *)
(* a caller whose context is done.  The result is only logged.             *)
PublishDLQ(w) ==
  /\ pc[w] = "dlq"
  /\ \/ /\ \E effect \in Effects(w[1], "kafka") :
             dlq' = [dlq EXCEPT ![Cur(w)] = IF effect THEN @ + 1 ELSE @]
        /\ ~Cancelled(w[1])
        /\ UNCHANGED late
     \/ /\ Cancelled(w[1])
        /\ late' = late \cup {<<w[1], Cur(w)>>}
        /\ UNCHANGED dlq
  /\ GoTo(w, "incr")
  /\ UNCHANGED <<log, attempt, groupVars, storeVars, dlqCount, feed, ghostVars>>

(* The abandoned send reaches the broker after all, or is lost with a      *)
(* failing broker or with its process.                                     *)
LateSend(c, pos) ==
  /\ <<c, pos>> \in late
  /\ late' = late \ {<<c, pos>>}
  /\ \/ dlq' = [dlq EXCEPT ![pos] = @ + 1]
     \/ ("kafka" \in Faults \/ phase[c] = "down") /\ UNCHANGED dlq
  /\ UNCHANGED <<log, workerVars, groupVars, storeVars, dlqCount, feed, ghostVars>>

\* MUTANT: only the exhausted messages are counted.
IncrDLQCountExhausted(w) ==
  /\ pc[w] = "incr"
  /\ \E effect \in Effects(w[1], "redis") :
       dlqCount' = IF effect /\ Msg(w) # Malformed THEN dlqCount + 1 ELSE dlqCount
  /\ ReturnErr(w)
  /\ UNCHANGED <<log, groupVars, storeVars, dlq, late, feed>>

(* INCR dlq:count, whatever dlq.Publish returned; then the error return.   *)
IncrDLQCount(w) ==
  /\ pc[w] = "incr"
  /\ \E effect \in Effects(w[1], "redis") :
       dlqCount' = IF effect THEN dlqCount + 1 ELSE dlqCount
  /\ ReturnErr(w)
  /\ UNCHANGED <<log, groupVars, storeVars, dlq, late, feed>>

(* The best-effort publish to the UI channel; then the nil return.         *)
PublishEvent(w) ==
  /\ pc[w] = "publish"
  /\ \E effect \in Effects(w[1], "redis") :
       feed' = IF effect THEN feed \cup {<<"consumer", Msg(w)>>} ELSE feed
  /\ ReturnNil(w)
  /\ UNCHANGED <<log, groupVars, storeVars, dlqVars, skipped>>

(* The other writer of that channel: the UI announces a payment as soon as *)
(* the producer's server has answered that it is in the topic, under a     *)
(* timestamp of its own.                                                   *)
Announce(pos, t) ==
  /\ Delivered(pos)
  /\ MessageAt(pos) \in FromUI
  /\ feed' = feed \cup {<<"ui", [MessageAt(pos) EXCEPT !.ts = t]>>}
  /\ UNCHANGED <<log, workerVars, groupVars, storeVars, dlqVars, ghostVars>>

(* Redis drops a key at the end of its time to live.                       *)
Expire(i) ==
  /\ "expire" \in Faults
  /\ \/ keys' = keys \ {i} /\ UNCHANGED status
     \/ status' = [status EXCEPT ![i] = None] /\ UNCHANGED keys
  /\ UNCHANGED <<log, workerVars, groupVars, hist, dlqVars, feed, ghostVars>>

-----------------------------------------------------------------------------
HandlerStep(w) ==
  \/ FinishClaim(w) \/ AcquireCancelled(w) \/ SkipProcessed(w) \/ Proceed(w)
  \/ MarkProcessed(w) \/ UpdateStatus(w) \/ RecordHistory(w) \/ Backoff(w)
  \/ PublishDLQ(w) \/ IncrDLQCount(w) \/ PublishEvent(w)

Next ==
  \/ \E p \in Partitions, m \in Messages : Arrive(p, m)
  \/ \E c \in Consumers :
       \/ Start(c) \/ CancelSession(c) \/ Sigterm(c) \/ Evict(c) \/ Crash(c)
       \/ EndSession(c)
       \/ \E P \in SUBSET Partitions \ {{}} : Join(c, P)
       \/ \E pos \in Positions : LateSend(c, pos)
  \/ \E w \in Workers :
       Receive(w) \/ AcquireSlot(w) \/ CommitOffset(w) \/ HandlerStep(w)
  \/ \E i \in Payments : Expire(i)
  \/ \E pos \in Positions, t \in Times : Announce(pos, t)

Spec == Init /\ [][Next]_vars

(* Goroutines are scheduled, calls and timers return (each call has a      *)
(* deadline), and the senders blocked on a Go channel are served in order. *)
Fairness ==
  /\ \A w \in Workers : WF_vars(HandlerStep(w)) /\ SF_vars(AcquireSlot(w))
  /\ \A c \in Consumers : WF_vars(EndSession(c))

FairSpec == Spec /\ Fairness

-----------------------------------------------------------------------------
(* Properties.                                                             *)

TypeOK ==
  /\ log \in [Partitions -> Seq(Messages)]
  /\ \A p \in Partitions : Len(log[p]) <= MaxLog
  /\ owner \in [Partitions -> Consumers \cup {None}]
  /\ committed \in [Partitions -> Nat]
  /\ phase \in [Consumers -> Phases]
  /\ sessions \in 0 .. MaxSessions
  /\ pc \in [Workers -> Labels]
  /\ next \in [Workers -> Nat]
  /\ marked \in [Workers -> Nat]
  /\ dirty \in [Workers -> BOOLEAN]
  /\ attempt \in [Workers -> 0 .. MaxAttempts]
  /\ slots \in [Consumers -> 0 .. WorkerCount]
  /\ keys \subseteq Payments
  /\ status \in [Payments -> Statuses \cup {None}]
  /\ hist \in [Rows -> Statuses \cup {None}]
  /\ dlq \in [Positions -> Nat]
  /\ late \subseteq Consumers \X Positions
  /\ dlqCount \in Nat
  /\ feed \subseteq {"consumer", "ui"} \X [pid: Payments, status: Statuses, ts: Times]
  /\ tried \subseteq Positions
  /\ succ \subseteq tried
  /\ attempted \subseteq Positions
  /\ skipped \subseteq succ

(* Commits never pass a message nobody has handled: sequential claims and  *)
(* the mark after processMessage keep every offset below the committed one *)
(* delivered and returned from (handler.go ConsumeClaim), whatever crashes, *)
(* rebalances and expulsions do in between.                                *)
NoSkip == \A p \in Partitions : \A o \in 0 .. committed[p] - 1 : <<p, o>> \in tried

(* The message just below a committed offset returned nil: an error return *)
(* by itself never moves the group's offset (handler.go, the else of the   *)
(* error check in ConsumeClaim).                                           *)
FrontierSucceeded == \A p \in Partitions : committed[p] > 0 => <<p, committed[p] - 1>> \in succ

Recorded(pos) ==
  MessageAt(pos) # Malformed /\ hist[RowOf(MessageAt(pos))] # None

(* A nil return stands for a row in the history: the message's own writes  *)
(* went through, in one attempt or after lost replies, or it was skipped,  *)
(* and then an earlier delivery of the payment had claimed the key.  This  *)
(* is all it stands for (handler.go, the two nil returns of               *)
(* processMessage): the claim may have come to nothing since.              *)
SuccessBacked ==
  \A pos \in succ :
    /\ MessageAt(pos) # Malformed
    /\ \/ Recorded(pos)
       \/ /\ pos \in skipped
          /\ \E prior \in attempted : MessageAt(prior).pid = MessageAt(pos).pid

(* Every token in the semaphore belongs to a message in processMessage of  *)
(* that process, no path leaks or returns one twice, over sessions that    *)
(* end and restart, and no more than worker.count are out at a time.       *)
SlotsHeld ==
  \A c \in Consumers :
    slots[c] = Cardinality({p \in Partitions : pc[<<c, p>>] \in Processing})

(* What the consumer sends to the UI feed has its row in the history,      *)
(* although status, history and feed are written one after the other and   *)
(* by several attempts; what the UI itself sends there has a message of    *)
(* that payment and status in the topic, and no row is promised.           *)
FeedBacked ==
  \A entry \in feed :
    LET e == entry[2] IN
      \/ entry[1] = "consumer" /\ hist[RowOf(e)] # None
      \/ entry[1] = "ui" /\ \E pos \in Positions :
           /\ Delivered(pos) /\ MessageAt(pos) \in FromUI
           /\ MessageAt(pos).pid = e.pid /\ MessageAt(pos).status = e.status

(* The group's offset never moves back, although an expelled process goes  *)
(* on marking messages and tries to commit them.                           *)
OffsetMonotone == [][\A p \in Partitions : committed'[p] >= committed[p]]_vars

InHand(pos) == \E w \in Workers : pc[w] \in Processing /\ Cur(w) = pos
InDLQ(pos) == dlq[pos] > 0 \/ \E c \in Consumers : <<c, pos>> \in late

(* An earlier message of the same payment: the code skips the later one.   *)
Shadowed(pos) ==
  \E o \in 0 .. pos[2] - 1 :
    LET prior == MessageAt(<<pos[1], o>>) IN
      /\ prior # Malformed /\ MessageAt(pos) # Malformed
      /\ prior.pid = MessageAt(pos).pid

(* While Redis answers and no event is dated ahead, the first event of a  *)
(* payment in the topic is the only one ever applied, to the status or to  *)
(* the history, whoever writes: IsProcessed and MarkProcessed are two      *)
(* calls, the outcome of the second is ignored, and a process that was     *)
(* expelled may be between them while the next owner is at the same, or at *)
(* a later, message of the payment (handler.go, steps 2 to 4).             *)
First(pos) == Delivered(pos) /\ MessageAt(pos) # Malformed /\ ~Shadowed(pos)

OneEventApplied ==
  /\ \A i \in Payments : status[i] # None =>
       \E pos \in Positions :
         First(pos) /\ MessageAt(pos).pid = i /\ MessageAt(pos).status = status[i]
  /\ \A r \in Rows : hist[r] # None =>
       \E pos \in Positions :
         First(pos) /\ RowOf(MessageAt(pos)) = r /\ MessageAt(pos).status = hist[r]

(* Once the group's offset is past a message it is in the history, in the  *)
(* DLQ, shadowed by the idempotency key of its payment, or still being     *)
(* processed by a process that has lost the partition.                     *)
CommittedIsAccounted ==
  \A p \in Partitions : \A o \in 0 .. committed[p] - 1 :
    LET pos == <<p, o>> IN Recorded(pos) \/ InDLQ(pos) \/ Shadowed(pos) \/ InHand(pos)

(* A status in Redis always has its message accounted for: the history row *)
(* exists, or the message is in the DLQ, or it is being processed.  When   *)
(* history writes fail for good, the DLQ tells which status has no row.    *)
DivergenceVisible ==
  \A i \in Payments : status[i] # None =>
    \E pos \in Positions :
      /\ Delivered(pos) /\ MessageAt(pos) # Malformed
      /\ MessageAt(pos).pid = i /\ MessageAt(pos).status = status[i]
      /\ Recorded(pos) \/ InDLQ(pos) \/ InHand(pos)

(* The messages in the DLQ topic, one by one.                              *)
Copies == UNION {{pos} \X (1 .. dlq[pos]) : pos \in Positions}

(* While Redis and Kafka answer, dlq:count never shows more than the DLQ    *)
(* holds, although a cancelled session abandons sends and loses            *)
(* increments; in a first session it lags by the workers in between only.  *)
CountTracksDLQ ==
  /\ dlqCount <= Cardinality(Copies)
  /\ sessions = 1 /\ (\E c \in Consumers : phase[c] = "live") =>
       dlqCount + Cardinality({w \in Workers : pc[w] = "incr"}) = Cardinality(Copies)

(* A message that waits for the semaphore is eventually handled and given  *)
(* back: no failing call, retry or cancellation leaves it stuck.           *)
MessageSettles == \A w \in Workers : pc[w] = "acquire" ~> pc[w] \in {"idle", "off"}

(* A cancelled session ends: every claim returns, so that a rebalance or   *)
(* a shutdown is never held up by a message in processing.                 *)
CancelledSessionEnds == \A c \in Consumers : Cancelled(c) ~> phase[c] \in {"down", "between"}

(* What the group does with a partition, without how.                      *)
Contract == INSTANCE OffsetContract

(* The consumer group implements the at-least-once contract of a log.      *)
RefinesContract == Contract!Spec

-----------------------------------------------------------------------------
(* What holds between two steps of a worker, and makes the properties      *)
(* above inductive.                                                        *)

HasMessage == Processing \cup {"acquire"}
HasEvent   == {"check", "mark", "status", "history", "backoff", "publish"}

WorkersOK ==
  \A w \in Workers :
    /\ phase[w[1]] \notin InSession => pc[w] = "off"
    /\ pc[w] \in HasMessage => next[w] \in 1 .. Len(log[w[2]])
    /\ pc[w] \in HasEvent => Msg(w) # Malformed
    /\ pc[w] = "backoff" => attempt[w] < MaxAttempts

IInv == TypeOK /\ SlotsHeld /\ WorkersOK

(* The offsets below which worker w has nothing left to handle.            *)
Handled(w) == IF pc[w] \in HasMessage THEN next[w] - 1 ELSE next[w]

OffsetsOK ==
  \A w \in Workers :
    /\ \A o \in 0 .. Handled(w) - 1 : <<w[2], o>> \in tried
    /\ marked[w] <= Handled(w)
    /\ marked[w] > 0 => <<w[2], marked[w] - 1>> \in succ

OffsetInv == NoSkip /\ FrontierSucceeded /\ OffsetsOK

(* Only a process in a session owns a partition, and what it would commit  *)
(* is not behind what is committed.                                        *)
FenceInv ==
  \A p \in Partitions : owner[p] # None =>
    /\ phase[owner[p]] \in InSession
    /\ marked[<<owner[p], p>>] >= committed[p]

(* What is written down is about messages that have been delivered, and    *)
(* each key has an attempt behind it.                                      *)
BackingOK ==
  /\ \A pos \in tried \cup attempted : Delivered(pos)
  /\ \A pos \in attempted : MessageAt(pos) # Malformed
  /\ \A i \in keys : \E pos \in attempted : MessageAt(pos).pid = i
  /\ \A w \in Workers : pc[w] = "publish" => hist[RowOf(Msg(w))] # None

BackingInv == SuccessBacked /\ FeedBacked /\ BackingOK

-----------------------------------------------------------------------------
(* What the documents say of the consumer, and the code does not do.       *)

(* ADR-003: every payment event is registered with all its metadata.       *)
EveryEventRecorded ==
  \A pos \in succ : hist[RowOf(MessageAt(pos))] = MessageAt(pos).status
=============================================================================
