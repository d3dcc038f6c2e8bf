------------------------------ MODULE Publisher ------------------------------
(***************************************************************************)
(* service.Publish (internal/producer): the events of a batch are checked, *)
(* validated and sent to the topic one after the other, by any number of   *)
(* goroutines that share one Sarama SyncProducer.                          *)
(*                                                                         *)
(* The producer waits for the leader only and is not idempotent: a send    *)
(* reported as failed may have reached the topic, or reach it later.  The  *)
(* copies that Sarama's own retries may leave are not counted here.        *)
(***************************************************************************)
EXTENDS Naturals, Sequences

CONSTANTS
  Batches,    \* the calls of Publish
  Size,       \* the number of events of each
  Rated,      \* the batches sent at a rate
  Given       \* the batches whose events come from a caller and may be invalid

ASSUME PublisherAssumption ==
  /\ Size \in [Batches -> Nat \ {0}]
  /\ Rated \subseteq Batches
  /\ Given \subseteq Batches

VARIABLES
  ppc,       \* the goroutine of each batch inside Publish
  next,      \* the event it is at
  results,   \* the slice it builds
  ended,     \* its context is done
  late,      \* history: messages it began to send with its context done
  topic,     \* the events in the topic, as pairs of batch and index
  client     \* the SyncProducer

batchVars == <<ppc, next, results, late>>
publisherVars == <<batchVars, ended, topic, client>>

Outcomes == {"ok", "failed", "invalid", "shutdown", "cancelled"}

PublisherInit ==
  /\ ppc = [b \in Batches |-> "idle"]
  /\ next = [b \in Batches |-> 1]
  /\ results = [b \in Batches |-> << >>]
  /\ ended = [b \in Batches |-> FALSE]
  /\ late = [b \in Batches |-> 0]
  /\ topic = {}
  /\ client = "none"

GoTo(b, l) == ppc' = [ppc EXCEPT ![b] = l]

\* MUTANT: the loop goes past the last event of the batch.
ResultPastEnd(b, res) ==
  /\ results' = [results EXCEPT ![b] = Append(@, res)]
  /\ next' = [next EXCEPT ![b] = @ + 1]
  /\ GoTo(b, IF res = "cancelled" \/ next[b] > Size[b] THEN "returned" ELSE "check")

(* A result is appended and the loop goes on, or ends.                     *)
Result(b, res) ==
  /\ results' = [results EXCEPT ![b] = Append(@, res)]
  /\ next' = [next EXCEPT ![b] = @ + 1]
  /\ GoTo(b, IF res = "cancelled" \/ next[b] = Size[b] THEN "returned" ELSE "check")

Call(b) ==
  /\ ppc[b] = "idle"
  /\ GoTo(b, "check")
  /\ UNCHANGED <<next, results, late, topic, client>>

\* MUTANT: an invalid event is skipped without a result.
PrepareSkip(b) ==
  \/ GoTo(b, "send") /\ UNCHANGED <<next, results>>
  \/ /\ b \in Given
     /\ next' = [next EXCEPT ![b] = @ + 1]
     /\ GoTo(b, IF next[b] = Size[b] THEN "returned" ELSE "check")
     /\ UNCHANGED results

(* Marshalling and validation; neither looks at the context.               *)
Prepare(b) ==
  \/ GoTo(b, "send") /\ UNCHANGED <<next, results>>
  \/ b \in Given /\ Result(b, "invalid")

\* MUTANT: the context is looked at only before the first event.
CheckOnce(b) ==
  /\ ppc[b] = "check"
  /\ IF ended[b] /\ next[b] = 1 THEN Result(b, "cancelled")
     ELSE IF b \in Rated /\ next[b] > 1 THEN GoTo(b, "tick") /\ UNCHANGED <<next, results>>
     ELSE Prepare(b)
  /\ UNCHANGED <<late, ended, topic, client>>

(* The top of the loop: no event is started once the context is done.      *)
Check(b) ==
  /\ ppc[b] = "check"
  /\ IF ended[b] THEN Result(b, "cancelled")
     ELSE IF b \in Rated /\ next[b] > 1 THEN GoTo(b, "tick") /\ UNCHANGED <<next, results>>
     ELSE Prepare(b)
  /\ UNCHANGED <<late, ended, topic, client>>

\* MUTANT: a cancelled wait returns without a result for the event.
TickSilent(b) ==
  /\ ppc[b] = "tick"
  /\ \/ Prepare(b)
     \/ ended[b] /\ GoTo(b, "returned") /\ UNCHANGED <<next, results>>
  /\ UNCHANGED <<late, ended, topic, client>>

(* The select between the ticker and the context takes either when both    *)
(* are ready.                                                              *)
Tick(b) ==
  /\ ppc[b] = "tick"
  /\ Prepare(b) \/ (ended[b] /\ Result(b, "cancelled"))
  /\ UNCHANGED <<late, ended, topic, client>>

(* SendMessage takes no context.  A producer that is closing refuses the   *)
(* message; one that is closed panics (action Panic of the program).       *)
BeginSend(b) ==
  /\ ppc[b] = "send" /\ client \in {"open", "draining"}
  /\ late' = [late EXCEPT ![b] = IF ended[b] THEN @ + 1 ELSE @]
  /\ IF client = "open"
       THEN GoTo(b, "sending") /\ UNCHANGED <<next, results>>
       ELSE Result(b, "shutdown")
  /\ UNCHANGED <<ended, topic, client>>

(* A message reaches the topic: while it is being sent, or after *)
(* its send was reported as failed.                                        *)
Deliver(b, i) ==
  /\ \/ ppc[b] = "sending" /\ i = next[b]
     \/ i \in DOMAIN results[b] /\ results[b][i] = "failed"
  /\ topic' = topic \cup {<<b, i>>}
  /\ UNCHANGED <<batchVars, ended, client>>

\* MUTANT: a send that was not confirmed is reported as a success.
EndSendUnchecked(b) ==
  /\ ppc[b] = "sending"
  /\ \E res \in {"ok", "failed"} : Result(b, res)
  /\ UNCHANGED <<late, ended, topic, client>>

\* MUTANT: a send is retried until it succeeds.
EndSendForever(b) ==
  /\ ppc[b] = "sending"
  /\ <<b, next[b]>> \in topic
  /\ Result(b, "ok")
  /\ UNCHANGED <<late, ended, topic, client>>

(* SendMessage returns, with an error if the message was not confirmed.    *)
EndSend(b) ==
  /\ ppc[b] = "sending"
  /\ \/ <<b, next[b]>> \in topic /\ Result(b, "ok")
     \/ Result(b, "failed")
  /\ UNCHANGED <<late, ended, topic, client>>

(* The goroutine of b runs.                                                *)
PublishStep(b) ==
  \/ Check(b) \/ Tick(b) \/ BeginSend(b) \/ EndSend(b)

(* Close waits for the messages in flight; the process then goes on.       *)
Drained == \A b \in Batches : ppc[b] # "sending"

PublisherTypeOK ==
  /\ ppc \in [Batches -> {"idle", "check", "tick", "send", "sending", "returned"}]
  /\ next \in [Batches -> Nat \ {0}]
  /\ \A b \in Batches : ppc[b] \in {"check", "tick", "send", "sending"} => next[b] <= Size[b]
  /\ results \in [Batches -> Seq(Outcomes)]
  /\ ended \in [Batches -> BOOLEAN]
  /\ late \in [Batches -> Nat]
  /\ topic \subseteq {e \in Batches \X Nat : e[2] \in 1 .. Size[e[1]]}
  /\ client \in {"none", "open", "draining", "closed"}

(* Results are about the events they stand for: what reached the topic is  *)
(* the event being sent or one whose own result, at its own place, says it *)
(* was published or may have been (Publish appends one result per event).  *)
ResultsAligned ==
  \A b \in Batches : \A i \in 1 .. Size[b] :
    <<b, i>> \in topic =>
      \/ ppc[b] = "sending" /\ i = next[b]
      \/ i \in DOMAIN results[b] /\ results[b][i] \in {"ok", "failed"}

(* Once the context of a batch is done (a deadline, a client that left, a  *)
(* signal), Publish starts at most the message it had already checked.     *)
CancelStopsSends == \A b \in Batches : late[b] <= 1
=============================================================================
