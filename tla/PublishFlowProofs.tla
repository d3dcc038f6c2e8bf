-------------------------- MODULE PublishFlowProofs --------------------------
(***************************************************************************)
(* Proofs about PublishFlow: for any requests, batch sizes and rates, what *)
(* the program and the UI report of each event is true.                    *)
(***************************************************************************)
EXTENDS PublishFlow, TLAPS

InLoop == {"check", "tick", "send", "sending"}

Unstarted == \A b \in Batches : ppc[b] = "idle" => next[b] = 1

LEMMA BatchFacts ==
  /\ Requests \subseteq Batches /\ "startup" \in Batches /\ "cli" \in Batches
  /\ "startup" \notin Requests /\ "cli" \notin Requests
  /\ \A b \in Batches : b \in Requests \/ b = "startup" \/ b = "cli"
  /\ \A b \in Batches : Size[b] \in Nat /\ Size[b] >= 1
BY FlowAssumption, PublisherAssumption DEF Requests

-----------------------------------------------------------------------------
(* The steps of PublishFlow as the publisher sees them.                    *)

Begun(b) ==
  /\ ppc[b] = "idle" /\ GoTo(b, "check")
  /\ UNCHANGED <<next, results, late, ended, topic>>

Aloof ==
  /\ UNCHANGED <<batchVars, topic>>
  /\ ended' \in [Batches -> BOOLEAN] /\ (\A b \in Batches : ended[b] => ended'[b])

Idle == main \in {"reading", "connecting"} => ppc["startup"] = "idle" /\ ppc["cli"] = "idle"

LEMMA StepKinds ==
  ASSUME TypeOK, Idle, [Next]_vars
  PROVE  \/ \E b \in Batches : Begun(b)
         \/ Aloof
         \/ \E b \in Batches : PublishStep(b)
         \/ \E b \in Batches : \E i \in 1 .. Size[b] : Deliver(b, i)
<1>1. CASE Connect
  BY <1>1, BatchFacts DEF Connect, Begun, Idle, GoTo
<1>2. CASE \E r \in Requests : Accept(r)
  <2>1. PICK r \in Requests : Accept(r)
    BY <1>2
  <2>2. CASE hpc' = [hpc EXCEPT ![r] = "publishing"] /\ Call(r)
    BY <2>1, <2>2, BatchFacts DEF Accept, Call, Begun
  <2>3. CASE UNCHANGED <<ppc, next, results, late, topic, client>>
    BY <2>1, <2>3 DEF Accept, Aloof, batchVars, TypeOK, PublisherTypeOK
  <2> QED
    BY <2>1, <2>2, <2>3 DEF Accept
<1>3. CASE Signal
  BY <1>3 DEF Signal, Aloof, batchVars, TypeOK, PublisherTypeOK
<1>4. CASE \E b \in Batches : Expire(b)
  BY <1>4 DEF Expire, Aloof, batchVars, TypeOK, PublisherTypeOK
<1>5. CASE \E b \in Batches : Run(b) \/ Arrive(b)
  BY <1>5 DEF Run, Arrive
<1>6. CASE UNCHANGED <<batchVars, ended, topic>>
  BY <1>6 DEF Aloof, TypeOK, PublisherTypeOK
<1>7. CASE ReadEvents \/ GiveUp \/ DryRun \/ StopServing \/ Closed \/ Exit \/ Finish \/ ListenFails
  BY <1>7, <1>6 DEF ReadEvents, GiveUp, DryRun, StopServing, Closed, Exit, Finish, ListenFails, publisherVars, batchVars
<1>8. CASE \E b \in Batches : Panic(b)
  BY <1>8, <1>6 DEF Panic, publisherVars
<1>9. CASE \E r \in Requests : Answer(r) \/ Abort(r) \/ UIHandler(r)
  BY <1>9, <1>6 DEF Answer, Abort, UIHandler, UIRefuse, UIGiveUp, UIReceive, UIFeed, publisherVars
<1>10. CASE UNCHANGED vars
  BY <1>10, <1>6 DEF vars, publisherVars
<1> QED
  BY <1>1, <1>2, <1>3, <1>4, <1>5, <1>7, <1>8, <1>9, <1>10 DEF Next, Process, Handler

-----------------------------------------------------------------------------
(* Types.                                                                  *)

(* What appending a result does to the slice, for each batch.              *)
LEMMA ResultFacts ==
  ASSUME TypeOK, NEW b \in Batches, NEW res \in Outcomes, Result(b, res)
  PROVE  /\ results' \in [Batches -> Seq(Outcomes)] /\ next' \in [Batches -> Nat \ {0}]
         /\ Len(results'[b]) = Len(results[b]) + 1
         /\ results'[b][Len(results[b]) + 1] = res
         /\ \A i \in 1 .. Len(results[b]) : results'[b][i] = results[b][i]
         /\ next'[b] = next[b] + 1
         /\ ppc'[b] = IF res = "cancelled" \/ next[b] = Size[b] THEN "returned" ELSE "check"
         /\ \A c \in Batches \ {b} :
              results'[c] = results[c] /\ next'[c] = next[c] /\ ppc'[c] = ppc[c]
<1>1. results[b] \in Seq(Outcomes) /\ results' = [results EXCEPT ![b] = Append(results[b], res)]
  BY DEF TypeOK, PublisherTypeOK, Result
<1>2. Append(results[b], res) \in Seq(Outcomes) /\ results'[b] = Append(results[b], res)
  BY <1>1 DEF TypeOK, PublisherTypeOK
<1>3. results' \in [Batches -> Seq(Outcomes)] /\ (\A c \in Batches \ {b} : results'[c] = results[c])
  BY <1>1, <1>2 DEF TypeOK, PublisherTypeOK
<1>4. /\ Len(Append(results[b], res)) = Len(results[b]) + 1
      /\ Append(results[b], res)[Len(results[b]) + 1] = res
      /\ \A i \in 1 .. Len(results[b]) : Append(results[b], res)[i] = results[b][i]
  BY <1>1
<1> QED
  BY <1>2, <1>3, <1>4 DEF Result, GoTo, TypeOK, PublisherTypeOK

(* A step of a goroutine leaves the batch where it was, moves it on inside *)
(* the loop, or appends a result.                                          *)
LEMMA PublishStepKinds ==
  ASSUME TypeOK, NEW b \in Batches, PublishStep(b)
  PROVE  /\ UNCHANGED <<ended, topic, client>>
         /\ ppc[b] \in InLoop
         /\ late' = [late EXCEPT ![b] = IF ppc[b] = "send" /\ ended[b] THEN @ + 1 ELSE @]
         /\ \/ /\ UNCHANGED <<next, results>>
               /\ \/ ppc[b] = "check" /\ ~ended[b] /\ ppc' = [ppc EXCEPT ![b] = "tick"]
                  \/ ppc[b] = "check" /\ ~ended[b] /\ ppc' = [ppc EXCEPT ![b] = "send"]
                  \/ ppc[b] = "tick" /\ ppc' = [ppc EXCEPT ![b] = "send"]
                  \/ ppc[b] = "send" /\ ppc' = [ppc EXCEPT ![b] = "sending"]
            \/ \E res \in Outcomes :
                 /\ Result(b, res)
                 /\ res = "ok" => ppc[b] = "sending" /\ <<b, next[b]>> \in topic
                 /\ ppc[b] = "sending" => res \in {"ok", "failed"}
                 /\ ppc[b] = "check" /\ ended[b] => res = "cancelled"
<1>1. late = [late EXCEPT ![b] = @]
  BY DEF TypeOK, PublisherTypeOK
<1>2. CASE Check(b)
  BY <1>1, <1>2 DEF Check, Prepare, GoTo, InLoop, Outcomes
<1>3. CASE Tick(b)
  BY <1>1, <1>3 DEF Tick, Prepare, GoTo, InLoop, Outcomes
<1>4. CASE BeginSend(b)
  BY <1>1, <1>4 DEF BeginSend, GoTo, InLoop, Outcomes
<1>5. CASE EndSend(b)
  BY <1>1, <1>5 DEF EndSend, InLoop, Outcomes
<1> QED
  BY <1>2, <1>3, <1>4, <1>5 DEF PublishStep

LoopTypes ==
  /\ ppc \in [Batches -> {"idle", "returned"} \cup InLoop]
  /\ next \in [Batches -> Nat \ {0}]
  /\ \A b \in Batches : ppc[b] \in InLoop => next[b] <= Size[b]
  /\ results \in [Batches -> Seq(Outcomes)]
  /\ late \in [Batches -> Nat]

LEMMA PublishStepTypes ==
  ASSUME TypeOK, NEW b \in Batches, PublishStep(b)
  PROVE  LoopTypes'
<1>0. late' = [late EXCEPT ![b] = IF ppc[b] = "send" /\ ended[b] THEN @ + 1 ELSE @] /\ ppc[b] \in InLoop
  BY PublishStepKinds
<1>1. late' \in [Batches -> Nat]
  BY <1>0 DEF TypeOK, PublisherTypeOK
<1>2. CASE UNCHANGED <<next, results>>
  <2>1. ppc' \in [Batches -> {"idle", "returned"} \cup InLoop]
    <3>1. CASE ppc' = [ppc EXCEPT ![b] = "tick"] \/ ppc' = [ppc EXCEPT ![b] = "send"] \/ ppc' = [ppc EXCEPT ![b] = "sending"]
      BY <3>1 DEF TypeOK, PublisherTypeOK, InLoop
    <3>2. CASE \E res \in Outcomes : Result(b, res)
      BY <1>2, <3>2, ResultFacts DEF TypeOK, PublisherTypeOK
    <3> QED
      BY <3>1, <3>2, PublishStepKinds
  <2>2. ASSUME NEW c \in Batches, ppc'[c] \in InLoop PROVE next'[c] <= Size[c]
    <3>1. ppc[c] \in InLoop
      <4>1. CASE c = b
        BY <1>0, <4>1
      <4>2. CASE c # b /\ \E res \in Outcomes : Result(b, res)
        BY <2>2, <4>2, ResultFacts
      <4>3. CASE c # b /\ (ppc' = [ppc EXCEPT ![b] = "tick"] \/ ppc' = [ppc EXCEPT ![b] = "send"] \/ ppc' = [ppc EXCEPT ![b] = "sending"])
        BY <2>2, <4>3 DEF TypeOK, PublisherTypeOK
      <4> QED
        BY <4>1, <4>2, <4>3, PublishStepKinds
    <3> QED
      BY <1>2, <3>1 DEF TypeOK, PublisherTypeOK, InLoop
  <2> QED
    BY <1>1, <1>2, <2>1, <2>2 DEF LoopTypes, TypeOK, PublisherTypeOK
<1>3. CASE \E res \in Outcomes : Result(b, res)
  <2>1. PICK res \in Outcomes : Result(b, res)
    BY <1>3
  <2>2. ppc' \in [Batches -> {"idle", "returned"} \cup InLoop]
    BY <2>1 DEF TypeOK, PublisherTypeOK, InLoop, Result, GoTo
  <2>3. next[b] <= Size[b]
    BY <1>0 DEF TypeOK, PublisherTypeOK, InLoop
  <2>4. ASSUME NEW c \in Batches, ppc'[c] \in InLoop PROVE next'[c] <= Size[c]
    <3>1. CASE c = b
      <4>1. next'[b] = next[b] + 1 /\ next[b] # Size[b]
        BY <2>1, <2>4, <3>1, ResultFacts DEF InLoop
      <4> QED
        BY <2>3, <3>1, <4>1, BatchFacts DEF TypeOK, PublisherTypeOK
    <3>2. CASE c # b
      BY <2>1, <2>4, <3>2, ResultFacts DEF TypeOK, PublisherTypeOK, InLoop
    <3> QED
      BY <3>1, <3>2
  <2> QED
    BY <1>1, <2>1, <2>2, <2>4, ResultFacts DEF LoopTypes
<1> QED
  BY <1>2, <1>3, PublishStepKinds

LEMMA DeliverFacts ==
  ASSUME TypeOK, NEW b \in Batches, NEW i \in 1 .. Size[b], Deliver(b, i)
  PROVE  topic' = topic \cup {<<b, i>>} /\ UNCHANGED <<ppc, next, results, late, ended, client>>
BY DEF Deliver, batchVars

LEMMA Started ==
  ASSUME TypeOK, Unstarted, NEW b \in Batches, Begun(b)
  PROVE  \A c \in Batches : ppc'[c] \in InLoop => next'[c] <= Size[c]
<1> SUFFICES ASSUME NEW c \in Batches, ppc'[c] \in InLoop PROVE next'[c] <= Size[c]
  OBVIOUS
<1>1. CASE c = b
  BY <1>1, BatchFacts DEF Begun, Unstarted
<1>2. CASE c # b
  BY <1>2 DEF Begun, GoTo, TypeOK, PublisherTypeOK, InLoop
<1> QED
  BY <1>1, <1>2

(* The part of TypeOK that belongs to the goroutines of Publish.           *)
LEMMA LoopTypesStep ==
  ASSUME TypeOK, Idle, Unstarted, [Next]_vars
  PROVE  /\ LoopTypes'
         /\ ended' \in [Batches -> BOOLEAN]
         /\ topic' \subseteq {e \in Batches \X Nat : e[2] \in 1 .. Size[e[1]]}
<1>1. CASE \E b \in Batches : Begun(b)
  <2>1. PICK b \in Batches : Begun(b)
    BY <1>1
  <2>2. ppc' \in [Batches -> {"idle", "returned"} \cup InLoop]
    BY <2>1 DEF Begun, GoTo, TypeOK, PublisherTypeOK, InLoop
  <2>3. \A c \in Batches : ppc'[c] \in InLoop => next'[c] <= Size[c]
    BY <2>1, Started
  <2> QED
    BY <2>1, <2>2, <2>3 DEF Begun, LoopTypes, TypeOK, PublisherTypeOK
<1>2. CASE Aloof
  BY <1>2 DEF Aloof, batchVars, LoopTypes, TypeOK, PublisherTypeOK, InLoop
<1>3. CASE \E b \in Batches : PublishStep(b)
  BY <1>3, PublishStepTypes, PublishStepKinds DEF TypeOK, PublisherTypeOK
<1>4. CASE \E b \in Batches : \E i \in 1 .. Size[b] : Deliver(b, i)
  <2>0. PICK b \in Batches : \E i \in 1 .. Size[b] : Deliver(b, i)
    BY <1>4
  <2>1. PICK i \in 1 .. Size[b] : Deliver(b, i)
    BY <2>0
  <2>2. <<b, i>> \in {e \in Batches \X Nat : e[2] \in 1 .. Size[e[1]]}
    BY BatchFacts
  <2>3. topic' \subseteq {e \in Batches \X Nat : e[2] \in 1 .. Size[e[1]]}
    BY <2>1, <2>2, DeliverFacts DEF TypeOK, PublisherTypeOK
  <2> QED
    BY <2>1, <2>3, DeliverFacts DEF LoopTypes, TypeOK, PublisherTypeOK, InLoop
<1> QED
  BY <1>1, <1>2, <1>3, <1>4, StepKinds

ProcessTypes ==
  /\ client \in {"none", "open", "draining", "closed"}
  /\ sub \in {"serve", "publish", "dry"}
  /\ main \in {"reading", "connecting", "serving", "publishing", "closing", "flushing", "exited"}
  /\ signalled \in BOOLEAN /\ crashed \in BOOLEAN
  /\ code \in {"none", "0", "1", "2"}

HandlerTypes ==
  /\ hpc \in [Requests -> {"none", "publishing", "written", "aborted"}]
  /\ answer \in [Requests -> {"none", "200", "4xx", "5xx"}]
  /\ upc \in [Requests -> {"calling", "feeding", "done"}]
  /\ reply \in [Requests -> {"none", "ok", "refused", "unknown"}]
  /\ feed \subseteq Singles

ProcessStep ==
  \/ ReadEvents \/ Process \/ ListenFails \/ Signal
  \/ \E b \in Batches : Panic(b) \/ Expire(b)

RequestStep == \E r \in Requests : Handler(r) \/ UIHandler(r)

LEMMA NextSplit ==
  ASSUME [Next]_vars
  PROVE  \/ ProcessStep /\ UNCHANGED <<handlerVars, uiVars>>
         \/ RequestStep /\ UNCHANGED <<client, processVars>>
         \/ \E b \in Batches : (Run(b) \/ Arrive(b)) /\ UNCHANGED <<processVars, handlerVars, uiVars>>
         \/ UNCHANGED vars
<1>1. CASE Process
  BY <1>1 DEF ProcessStep, Process, Connect, GiveUp, DryRun, StopServing, Closed, Exit, Finish
<1>2. CASE ReadEvents \/ ListenFails \/ Signal
  BY <1>2 DEF ProcessStep, ReadEvents, ListenFails, Signal
<1>3. CASE \E b \in Batches : Panic(b) \/ Expire(b)
  BY <1>3 DEF ProcessStep, Panic, Expire
<1>4. CASE \E r \in Requests : Handler(r)
  BY <1>4 DEF RequestStep, Handler, Accept, Answer, Abort, Call, publisherVars, processVars
<1>5. CASE \E r \in Requests : UIHandler(r)
  BY <1>5 DEF RequestStep, UIHandler, UIRefuse, UIGiveUp, UIReceive, UIFeed, publisherVars, processVars
<1>6. CASE \E b \in Batches : Run(b) \/ Arrive(b)
  BY <1>6 DEF Run, Arrive
<1> QED
  BY <1>1, <1>2, <1>3, <1>4, <1>5, <1>6 DEF Next

LEMMA ProcessTypesStep ==
  ASSUME TypeOK, [Next]_vars
  PROVE  ProcessTypes'
<1>1. CASE ProcessStep
  <2>1. CASE Process
    BY <1>1, <2>1 DEF Process, Connect, GiveUp, DryRun, StopServing, Closed, Exit, Finish,
       publisherVars, ProcessTypes, TypeOK, PublisherTypeOK
  <2>2. CASE ReadEvents \/ ListenFails
    BY <2>2 DEF ReadEvents, publisherVars, ListenFails, ProcessTypes, TypeOK, PublisherTypeOK
  <2>3. CASE Signal
    BY <2>3 DEF Signal, ProcessTypes, TypeOK, PublisherTypeOK
  <2>4. CASE \E b \in Batches : Panic(b)
    BY <2>4 DEF Panic, publisherVars, ProcessTypes, TypeOK, PublisherTypeOK
  <2>5. CASE \E b \in Batches : Expire(b)
    BY <2>5 DEF Expire, processVars, ProcessTypes, TypeOK, PublisherTypeOK
  <2> QED
    BY <1>1, <2>1, <2>2, <2>3, <2>4, <2>5 DEF ProcessStep
<1>2. CASE UNCHANGED <<client, processVars>>
  BY <1>2 DEF processVars, ProcessTypes, TypeOK, PublisherTypeOK
<1>3. CASE \E b \in Batches : (Run(b) \/ Arrive(b)) /\ UNCHANGED processVars
  <2>1. UNCHANGED client
    <3>1. CASE \E b \in Batches : PublishStep(b)
      BY <3>1, PublishStepKinds
    <3>2. CASE \E b \in Batches : \E i \in 1 .. Size[b] : Deliver(b, i)
      BY <3>2 DEF Deliver
    <3> QED
      BY <1>3, <3>1, <3>2 DEF Run, Arrive
  <2> QED
    BY <1>2, <1>3, <2>1
<1>4. CASE UNCHANGED vars
  BY <1>2, <1>4 DEF vars, publisherVars
<1> QED
  BY <1>1, <1>2, <1>3, <1>4, NextSplit

LEMMA HandlerTypesStep ==
  ASSUME TypeOK, \A r \in Requests : upc[r] = "feeding" => r \in Singles, [Next]_vars
  PROVE  HandlerTypes'
<1>1. CASE UNCHANGED <<handlerVars, uiVars>>
  BY <1>1 DEF handlerVars, uiVars, HandlerTypes, TypeOK
<1>2. CASE \E r \in Requests : Handler(r)
  BY <1>2 DEF Handler, Accept, Answer, Abort, uiVars, HandlerTypes, TypeOK
<1>3. CASE \E r \in Requests : UIHandler(r)
  BY <1>3 DEF UIHandler, UIRefuse, UIGiveUp, UIReceive, UIFeed, Reply, handlerVars, HandlerTypes, TypeOK
<1>4. CASE UNCHANGED vars
  BY <1>1, <1>4 DEF vars
<1> QED
  BY <1>1, <1>2, <1>3, <1>4, NextSplit DEF RequestStep

LEMMA TypeStep ==
  ASSUME TypeOK, Idle, Unstarted, \A r \in Requests : upc[r] = "feeding" => r \in Singles, [Next]_vars
  PROVE  TypeOK'
<1>1. LoopTypes' /\ ended' \in [Batches -> BOOLEAN]
      /\ topic' \subseteq {e \in Batches \X Nat : e[2] \in 1 .. Size[e[1]]}
  BY LoopTypesStep
<1>2. ProcessTypes'
  BY ProcessTypesStep
<1>3. HandlerTypes'
  BY HandlerTypesStep
<1>4. PublisherTypeOK'
  BY <1>1, <1>2 DEF PublisherTypeOK, LoopTypes, ProcessTypes, InLoop
<1> QED
  BY <1>2, <1>3, <1>4 DEF TypeOK, ProcessTypes, HandlerTypes

-----------------------------------------------------------------------------
(* The main goroutine and the handlers of the requests.                    *)

ControlInv ==
  /\ Idle
  /\ main \in {"serving", "closing", "flushing"} => sub = "serve"
  /\ main = "publishing" => sub = "publish"
  /\ ppc["cli"] # "idle" => sub = "publish"
  /\ client \in {"draining", "closed"} /\ Alive => main \in {"closing", "flushing"}
  /\ code # "none" /\ sub = "publish" => main = "exited"

RequestInv(r) ==
  /\ hpc[r] = "none" => ppc[r] = "idle"
  /\ answer[r] # "none" => hpc[r] = "written"
  /\ answer[r] = "200" => ppc[r] = "returned"
  /\ answer[r] = "4xx" => ppc[r] = "idle"
  /\ answer[r] = "200" /\ r \in Singles => results[r] # << >> /\ results[r][1] = "ok"
  /\ upc[r] = "feeding" => r \in Singles /\ answer[r] = "200"
  /\ reply[r] = "none" <=> upc[r] # "done"
  /\ reply[r] = "ok" => answer[r] = "200"
  /\ reply[r] = "refused" => hpc[r] # "publishing" /\ ppc[r] = "idle"
  /\ r \in feed => answer[r] = "200"

(* A goroutine that is not in the loop of Publish is left alone by Run.    *)
LEMMA RunLeaves ==
  ASSUME TypeOK, NEW b \in Batches, PublishStep(b), NEW c \in Batches
  PROVE  /\ ppc[c] \notin InLoop => ppc'[c] = ppc[c] /\ results'[c] = results[c] /\ next'[c] = next[c]
         /\ ppc'[c] = "idle" => ppc[c] = "idle"
         /\ c # b => ppc'[c] = ppc[c] /\ results'[c] = results[c] /\ next'[c] = next[c]
<1>1. ppc[b] \in InLoop
  BY PublishStepKinds
<1>2. CASE \E res \in Outcomes : Result(b, res)
  BY <1>1, <1>2, ResultFacts
<1>3. CASE UNCHANGED <<next, results>> /\ (ppc' = [ppc EXCEPT ![b] = "tick"] \/ ppc' = [ppc EXCEPT ![b] = "send"] \/ ppc' = [ppc EXCEPT ![b] = "sending"])
  BY <1>1, <1>3 DEF TypeOK, PublisherTypeOK
<1> QED
  BY <1>2, <1>3, PublishStepKinds

LEMMA ControlStep ==
  ASSUME TypeOK, ControlInv, [Next]_vars
  PROVE  ControlInv'
<1>1. CASE ProcessStep
  <2>1. CASE Connect
    BY <2>1, BatchFacts DEF Connect, GoTo, ControlInv, Idle, Alive, TypeOK, PublisherTypeOK
  <2>2. CASE ReadEvents \/ GiveUp \/ DryRun \/ StopServing \/ Closed \/ Exit \/ Finish
    BY <2>2 DEF ReadEvents, GiveUp, DryRun, StopServing, Closed, Exit, Finish, publisherVars, batchVars, ControlInv, Idle, Alive
  <2>3. CASE ListenFails \/ Signal
    BY <2>3 DEF ListenFails, Signal, batchVars, ControlInv, Idle, Alive
  <2>4. CASE \E b \in Batches : Panic(b)
    BY <2>4 DEF Panic, publisherVars, batchVars, ControlInv, Idle, Alive
  <2>5. CASE \E b \in Batches : Expire(b)
    BY <2>5 DEF Expire, processVars, batchVars, ControlInv, Idle, Alive
  <2> QED
    BY <1>1, <2>1, <2>2, <2>3, <2>4, <2>5 DEF ProcessStep, Process
<1>2. CASE \E r \in Requests : Accept(r)
  BY <1>2, BatchFacts DEF Accept, Call, GoTo, processVars, ControlInv, Idle, Alive, TypeOK, PublisherTypeOK
<1>3. CASE UNCHANGED <<publisherVars, processVars>>
  BY <1>3 DEF publisherVars, batchVars, processVars, ControlInv, Idle, Alive
<1>4. CASE \E r \in Requests : Answer(r) \/ Abort(r) \/ UIHandler(r)
  BY <1>4, <1>3 DEF Answer, Abort, UIHandler, UIRefuse, UIGiveUp, UIReceive, UIFeed
<1>5. CASE \E b \in Batches : Run(b)
  <2>1. PICK b \in Batches : Run(b)
    BY <1>5
  <2>2. UNCHANGED client /\ ppc[b] \in InLoop
    BY <2>1, PublishStepKinds DEF Run
  <2>3. /\ ppc["cli"] = "idle" => ppc'["cli"] = "idle"
        /\ ppc["startup"] = "idle" => ppc'["startup"] = "idle"
    BY <2>1, RunLeaves, BatchFacts DEF Run, InLoop
  <2> QED
    BY <2>1, <2>2, <2>3 DEF Run, processVars, ControlInv, Idle, Alive
<1>6. CASE \E b \in Batches : Arrive(b)
  BY <1>6 DEF Arrive, Deliver, batchVars, processVars, ControlInv, Idle, Alive
<1>7. CASE UNCHANGED vars
  BY <1>3, <1>7 DEF vars
<1> QED
  BY <1>1, <1>2, <1>4, <1>5, <1>6, <1>7, NextSplit DEF RequestStep, Handler

LEMMA RequestStepInv ==
  ASSUME TypeOK, ControlInv, NEW r \in Requests, RequestInv(r), [Next]_vars
  PROVE  RequestInv(r)'
<1>0. r \in Batches /\ r # "startup" /\ r # "cli"
  BY BatchFacts
<1>1. CASE UNCHANGED <<ppc, results, handlerVars, uiVars>>
  BY <1>1 DEF handlerVars, uiVars, RequestInv
<1>2. CASE ProcessStep /\ UNCHANGED <<handlerVars, uiVars>>
  <2>1. CASE Connect
    <3>1. ppc'[r] = ppc[r] /\ results' = results
      BY <1>0, <2>1 DEF Connect, GoTo, TypeOK, PublisherTypeOK
    <3> QED
      BY <1>2, <3>1 DEF handlerVars, uiVars, RequestInv
  <2>2. CASE UNCHANGED batchVars
    BY <1>1, <1>2, <2>2 DEF batchVars
  <2>3. CASE ReadEvents \/ GiveUp \/ DryRun \/ StopServing \/ Closed \/ Exit \/ Finish
    BY <2>2, <2>3 DEF ReadEvents, GiveUp, DryRun, StopServing, Closed, Exit, Finish, publisherVars
  <2>4. CASE ListenFails \/ Signal \/ \E b \in Batches : Panic(b) \/ Expire(b)
    BY <2>2, <2>4 DEF ListenFails, Signal, Panic, Expire, publisherVars
  <2> QED
    BY <1>2, <2>1, <2>3, <2>4 DEF ProcessStep, Process
<1>3. CASE \E q \in Requests : Accept(q)
  <2>1. PICK q \in Requests : Accept(q)
    BY <1>3
  <2>2. CASE q = r
    BY <2>1, <2>2, <1>0 DEF Accept, Call, GoTo, uiVars, RequestInv, TypeOK, PublisherTypeOK
  <2>3. CASE q # r
    <3>1. ppc'[r] = ppc[r] /\ hpc'[r] = hpc[r] /\ answer'[r] = answer[r] /\ results' = results
      BY <2>1, <2>3, <1>0 DEF Accept, Call, GoTo, TypeOK, PublisherTypeOK
    <3> QED
      BY <2>1, <3>1 DEF Accept, uiVars, RequestInv
  <2> QED
    BY <2>2, <2>3
<1>4. CASE \E q \in Requests : Answer(q) \/ Abort(q)
  <2>1. PICK q \in Requests : Answer(q) \/ Abort(q)
    BY <1>4
  <2>2. CASE q = r
    BY <2>1, <2>2, FlowAssumption DEF Answer, Abort, publisherVars, batchVars, uiVars, RequestInv, TypeOK, Requests
  <2>3. CASE q # r
    BY <2>1, <2>3 DEF Answer, Abort, publisherVars, batchVars, uiVars, RequestInv, TypeOK
  <2> QED
    BY <2>2, <2>3
<1>5. CASE \E q \in Requests : UIHandler(q)
  <2>1. PICK q \in Requests : UIHandler(q)
    BY <1>5
  <2>2. CASE UIRefuse(q) \/ UIGiveUp(q)
    BY <2>2 DEF UIRefuse, UIGiveUp, Reply, publisherVars, batchVars, handlerVars, RequestInv, TypeOK
  <2>3. CASE UIReceive(q)
    BY <2>3 DEF UIReceive, Reply, publisherVars, batchVars, handlerVars, RequestInv, TypeOK
  <2>4. CASE UIFeed(q)
    BY <2>4 DEF UIFeed, Reply, publisherVars, batchVars, handlerVars, RequestInv, TypeOK
  <2> QED
    BY <2>1, <2>2, <2>3, <2>4 DEF UIHandler
<1>6. CASE \E b \in Batches : Run(b) /\ UNCHANGED <<handlerVars, uiVars>>
  <2>1. PICK b \in Batches : PublishStep(b)
    BY <1>6 DEF Run
  <2>2. CASE ppc[r] \notin InLoop
    <3>1. ppc'[r] = ppc[r] /\ results'[r] = results[r]
      BY <1>0, <2>1, <2>2, RunLeaves
    <3> QED
      BY <1>6, <3>1 DEF handlerVars, uiVars, RequestInv
  <2>3. CASE ppc[r] \in InLoop
    BY <1>6, <2>3 DEF handlerVars, uiVars, RequestInv, InLoop, TypeOK
  <2> QED
    BY <2>2, <2>3
<1>7. CASE \E b \in Batches : Arrive(b)
  BY <1>1, <1>7 DEF Arrive, Deliver, batchVars
<1>8. CASE UNCHANGED vars
  BY <1>1, <1>8 DEF vars, publisherVars, batchVars
<1> QED
  BY <1>2, <1>3, <1>4, <1>5, <1>6, <1>7, <1>8, NextSplit DEF RequestStep, Handler

-----------------------------------------------------------------------------
(* The loop of Publish: one result per event, each at the place of its     *)
(* event and true of it.                                                   *)

Aligned(b) ==
  \A i \in 1 .. Size[b] :
    <<b, i>> \in topic =>
      \/ ppc[b] = "sending" /\ i = next[b]
      \/ i \in DOMAIN results[b] /\ results[b][i] \in {"ok", "failed"}

BatchInv(b) ==
  /\ Len(results[b]) = next[b] - 1
  /\ ppc[b] = "idle" => next[b] = 1
  /\ ppc[b] = "returned" =>
       next[b] = Size[b] + 1 \/ \E i \in 1 .. Len(results[b]) : results[b][i] = "cancelled"
  /\ late[b] <= 1
  /\ late[b] = 1 => ended[b] /\ ppc[b] \in {"sending", "check", "returned"}
  /\ \A i \in 1 .. Len(results[b]) : results[b][i] = "ok" => <<b, i>> \in topic
  /\ Aligned(b)

LEMMA SameBatch ==
  ASSUME TypeOK, NEW b \in Batches, BatchInv(b),
         ppc'[b] = ppc[b], next'[b] = next[b], results'[b] = results[b],
         late'[b] = late[b], ended[b] => ended'[b], topic' = topic
  PROVE  BatchInv(b)'
BY DEF BatchInv, Aligned, TypeOK, PublisherTypeOK

LEMMA ResultStep ==
  ASSUME TypeOK, NEW b \in Batches, BatchInv(b), PublishStep(b), NEW res \in Outcomes,
         Result(b, res),
         res = "ok" => ppc[b] = "sending" /\ <<b, next[b]>> \in topic,
         ppc[b] = "sending" => res \in {"ok", "failed"},
         ppc[b] = "check" /\ ended[b] => res = "cancelled"
  PROVE  BatchInv(b)'
<1> DEFINE n == Len(results[b])
<1>1. /\ UNCHANGED <<ended, topic>> /\ ppc[b] \in InLoop
      /\ late' = [late EXCEPT ![b] = IF ppc[b] = "send" /\ ended[b] THEN @ + 1 ELSE @]
  BY PublishStepKinds
<1>2. /\ Len(results'[b]) = n + 1 /\ results'[b][n + 1] = res /\ next'[b] = next[b] + 1
      /\ \A i \in 1 .. n : results'[b][i] = results[b][i]
      /\ ppc'[b] = IF res = "cancelled" \/ next[b] = Size[b] THEN "returned" ELSE "check"
      /\ results' \in [Batches -> Seq(Outcomes)]
  BY ResultFacts
<1>3. n \in Nat /\ n = next[b] - 1 /\ next[b] \in Nat /\ next[b] <= Size[b] /\ Size[b] \in Nat
      /\ DOMAIN results[b] = 1 .. n /\ DOMAIN results'[b] = 1 .. n + 1
  BY <1>1, <1>2, BatchFacts DEF TypeOK, PublisherTypeOK, BatchInv, InLoop
<1>4. Len(results'[b]) = next'[b] - 1 /\ ppc'[b] # "idle"
  BY <1>2, <1>3
<1>5. ppc'[b] = "returned" =>
        next'[b] = Size[b] + 1 \/ \E i \in 1 .. Len(results'[b]) : results'[b][i] = "cancelled"
  BY <1>2, <1>3
<1>6. late'[b] <= 1 /\ (late'[b] = 1 => ended'[b] /\ ppc'[b] \in {"sending", "check", "returned"})
  BY <1>1, <1>2 DEF BatchInv, TypeOK, PublisherTypeOK
<1>7. ASSUME NEW i \in 1 .. n + 1, results'[b][i] = "ok" PROVE <<b, i>> \in topic'
  <2>1. CASE i = n + 1
    <3>1. res = "ok" /\ i = next[b]
      BY <1>2, <1>3, <1>7, <2>1
    <3> QED
      BY <1>1, <3>1
  <2>2. CASE i # n + 1
    <3>1. i \in 1 .. n
      BY <1>3, <2>2
    <3>2. results[b][i] = "ok"
      BY <1>2, <1>7, <3>1
    <3> QED
      BY <1>1, <3>1, <3>2 DEF BatchInv
  <2> QED
    BY <2>1, <2>2
<1>8. ASSUME NEW i \in 1 .. Size[b], <<b, i>> \in topic'
      PROVE  i \in DOMAIN results'[b] /\ results'[b][i] \in {"ok", "failed"}
  <2>1. CASE ppc[b] = "sending" /\ i = next[b]
    <3>1. i = n + 1 /\ res \in {"ok", "failed"}
      BY <1>3, <2>1
    <3> QED
      BY <1>2, <1>3, <3>1
  <2>2. CASE i \in 1 .. n /\ results[b][i] \in {"ok", "failed"}
    <3>1. i \in 1 .. n + 1 /\ results'[b][i] = results[b][i]
      BY <1>2, <1>3, <2>2
    <3> QED
      BY <1>3, <2>2, <3>1
  <2>3. <<b, i>> \in topic
    BY <1>1, <1>8
  <2> QED
    BY <1>3, <2>1, <2>2, <2>3 DEF BatchInv, Aligned
<1> QED
  BY <1>2, <1>4, <1>5, <1>6, <1>7, <1>8 DEF BatchInv, Aligned

LEMMA PublishStepInv ==
  ASSUME TypeOK, NEW b \in Batches, BatchInv(b), PublishStep(b)
  PROVE  BatchInv(b)'
<1>1. CASE \E res \in Outcomes :
             /\ Result(b, res)
             /\ res = "ok" => ppc[b] = "sending" /\ <<b, next[b]>> \in topic
             /\ ppc[b] = "sending" => res \in {"ok", "failed"}
             /\ ppc[b] = "check" /\ ended[b] => res = "cancelled"
  BY <1>1, ResultStep
<1>2. ASSUME UNCHANGED <<next, results>>, NEW l \in InLoop, ppc' = [ppc EXCEPT ![b] = l],
             UNCHANGED <<ended, topic>>, ppc[b] \in {"check", "tick", "send"},
             ppc[b] = "check" => ~ended[b],
             ppc[b] = "send" => l = "sending",
             late' = [late EXCEPT ![b] = IF ppc[b] = "send" /\ ended[b] THEN @ + 1 ELSE @]
      PROVE  BatchInv(b)'
  <2>1. late'[b] <= 1 /\ (late'[b] = 1 => ended'[b] /\ ppc'[b] \in {"sending", "check", "returned"})
    <3>1. late[b] = 0 /\ ppc'[b] = l
      BY <1>2 DEF BatchInv, TypeOK, PublisherTypeOK
    <3> QED
      BY <1>2, <3>1 DEF TypeOK, PublisherTypeOK
  <2>2. Aligned(b)'
    BY <1>2 DEF BatchInv, Aligned
  <2> QED
    BY <1>2, <2>1, <2>2 DEF BatchInv, InLoop, TypeOK, PublisherTypeOK
<1> QED
  BY <1>1, <1>2, PublishStepKinds DEF InLoop

LEMMA BatchStep ==
  ASSUME TypeOK, Idle, NEW b \in Batches, BatchInv(b), [Next]_vars
  PROVE  BatchInv(b)'
<1>1. CASE \E c \in Batches : Begun(c)
  <2>1. PICK c \in Batches : Begun(c)
    BY <1>1
  <2>2. CASE c = b
    BY <2>1, <2>2 DEF Begun, GoTo, BatchInv, Aligned, TypeOK, PublisherTypeOK
  <2>3. CASE c # b
    BY <2>1, <2>3, SameBatch DEF Begun, GoTo, TypeOK, PublisherTypeOK
  <2> QED
    BY <2>2, <2>3
<1>2. CASE Aloof
  BY <1>2, SameBatch DEF Aloof, batchVars
<1>3. CASE \E c \in Batches : PublishStep(c)
  <2>1. PICK c \in Batches : PublishStep(c)
    BY <1>3
  <2>2. CASE c = b
    BY <2>1, <2>2, PublishStepInv
  <2>3. CASE c # b
    <3>1. ppc'[b] = ppc[b] /\ results'[b] = results[b] /\ next'[b] = next[b]
      BY <2>1, <2>3, RunLeaves
    <3>2. UNCHANGED <<ended, topic>> /\ late'[b] = late[b]
      <4>1. UNCHANGED <<ended, topic>> /\ late' = [late EXCEPT ![c] = IF ppc[c] = "send" /\ ended[c] THEN @ + 1 ELSE @]
        BY <2>1, PublishStepKinds
      <4> QED
        BY <2>3, <4>1 DEF TypeOK, PublisherTypeOK
    <3> QED
      BY <3>1, <3>2, SameBatch DEF BatchInv
  <2> QED
    BY <2>2, <2>3
<1>4. CASE \E c \in Batches : \E i \in 1 .. Size[c] : Deliver(c, i)
  <2>1. PICK c \in Batches : \E i \in 1 .. Size[c] : Deliver(c, i)
    BY <1>4
  <2>2. PICK i \in 1 .. Size[c] : Deliver(c, i)
    BY <2>1
  <2>3. topic' = topic \cup {<<c, i>>} /\ UNCHANGED <<ppc, next, results, late, ended>>
    BY <2>1, <2>2, DeliverFacts
  <2>4. Aligned(b)'
    BY <2>2, <2>3 DEF Deliver, BatchInv, Aligned
  <2> QED
    BY <2>3, <2>4 DEF BatchInv
<1> QED
  BY <1>1, <1>2, <1>3, <1>4, StepKinds

-----------------------------------------------------------------------------
(* The inductive invariant.                                                *)

IInv ==
  /\ TypeOK
  /\ ControlInv
  /\ \A r \in Requests : RequestInv(r)
  /\ \A b \in Batches : BatchInv(b)
  /\ ExitCodeTrue

LEMMA InitInv == Init => IInv
<1> SUFFICES ASSUME Init PROVE IInv
  OBVIOUS
<1> USE DEF Init, PublisherInit
<1>1. TypeOK
  <2>1. PublisherTypeOK
    BY DEF PublisherTypeOK, Outcomes
  <2> QED
    BY <2>1 DEF TypeOK
<1>2. ControlInv
  BY BatchFacts DEF ControlInv, Idle, Alive
<1>3. ASSUME NEW r \in Requests PROVE RequestInv(r)
  BY BatchFacts DEF RequestInv
<1>4. ASSUME NEW b \in Batches PROVE BatchInv(b)
  BY DEF BatchInv, Aligned
<1>5. ExitCodeTrue
  BY DEF ExitCodeTrue
<1> QED
  BY <1>1, <1>2, <1>3, <1>4, <1>5 DEF IInv

LEMMA TopicGrows ==
  ASSUME TypeOK, Idle, [Next]_vars
  PROVE  topic \subseteq topic'
<1>1. CASE \E b \in Batches : Begun(b)
  BY <1>1 DEF Begun
<1>2. CASE Aloof
  BY <1>2 DEF Aloof
<1>3. CASE \E b \in Batches : PublishStep(b)
  BY <1>3, PublishStepKinds
<1>4. CASE \E b \in Batches : \E i \in 1 .. Size[b] : Deliver(b, i)
  BY <1>4 DEF Deliver
<1> QED
  BY <1>1, <1>2, <1>3, <1>4, StepKinds

LEMMA ExitCodeStep ==
  ASSUME IInv, [Next]_vars
  PROVE  ExitCodeTrue'
<1>1. topic \subseteq topic'
  BY TopicGrows DEF IInv, ControlInv
<1>2. CASE UNCHANGED <<sub, code>>
  BY <1>1, <1>2 DEF IInv, ExitCodeTrue
<1>3. CASE code' # "0" \/ sub' # "publish"
  BY <1>3 DEF ExitCodeTrue
<1>4. CASE Finish
  <2> SUFFICES ASSUME code' = "0", NEW i \in 1 .. Size["cli"] PROVE <<"cli", i>> \in topic'
    BY DEF ExitCodeTrue
  <2>1. \A j \in DOMAIN results["cli"] : results["cli"][j] = "ok"
    BY <1>4 DEF Finish
  <2>2. BatchInv("cli") /\ ppc["cli"] = "returned" /\ results["cli"] \in Seq(Outcomes) /\ next["cli"] \in Nat
    BY <1>4, BatchFacts DEF Finish, IInv, TypeOK, PublisherTypeOK
  <2>3. Len(results["cli"]) = Size["cli"]
    BY <2>1, <2>2, BatchFacts DEF BatchInv
  <2> QED
    BY <1>1, <2>1, <2>2, <2>3, BatchFacts DEF BatchInv
<1>5. CASE GiveUp \/ DryRun \/ ListenFails \/ \E b \in Batches : Panic(b)
  BY <1>3, <1>5 DEF GiveUp, DryRun, ListenFails, Panic
<1>6. CASE Exit
  BY <1>3, <1>6 DEF Exit, IInv, ControlInv
<1>7. CASE Connect \/ StopServing \/ Closed \/ Signal \/ \E b \in Batches : Expire(b) \/ Run(b) \/ Arrive(b)
  BY <1>2, <1>7 DEF Connect, StopServing, Closed, Signal, Expire, Run, Arrive, processVars
<1>8. CASE RequestStep \/ UNCHANGED vars
  BY <1>2, <1>8, NextSplit DEF RequestStep, Handler, UIHandler, Accept, Answer, Abort, UIRefuse, UIGiveUp,
     UIReceive, UIFeed, vars, processVars
<1>9. CASE ReadEvents
  BY <1>2, <1>3, <1>9 DEF ReadEvents
<1> QED
  BY <1>4, <1>5, <1>6, <1>7, <1>8, <1>9 DEF Next, Process, RequestStep

LEMMA StepInv == IInv /\ [Next]_vars => IInv'
<1> SUFFICES ASSUME IInv, [Next]_vars PROVE IInv'
  OBVIOUS
<1>1. TypeOK'
  BY TypeStep DEF IInv, ControlInv, Unstarted, RequestInv, BatchInv
<1>2. ControlInv'
  BY ControlStep DEF IInv
<1>3. \A r \in Requests : RequestInv(r)'
  BY RequestStepInv DEF IInv
<1>4. \A b \in Batches : BatchInv(b)'
  BY BatchStep DEF IInv, ControlInv
<1> QED
  BY <1>1, <1>2, <1>3, <1>4, ExitCodeStep DEF IInv

LEMMA Invariance == Spec => []IInv
BY InitInv, StepInv, PTL DEF Spec

(* TypeOK: every reachable state of the producer program and of the UI's   *)
(* publish handlers is well typed, and Publish never runs past a batch.    *)
THEOREM TypeCorrect == Spec => []TypeOK
<1>1. IInv => TypeOK
  BY DEF IInv
<1> QED
  BY <1>1, Invariance, PTL

(* ResultsAligned: the results of Publish are about the events they stand  *)
(* for, in batches of any size, with any mixture of failures.              *)
THEOREM ResultsAlignedCorrect == Spec => []ResultsAligned
<1>1. IInv => ResultsAligned
  BY DEF IInv, BatchInv, Aligned, ResultsAligned
<1> QED
  BY <1>1, Invariance, PTL

(* CancelStopsSends: after its context is done, Publish starts at most the *)
(* one message it had already checked.                                     *)
THEOREM CancelStopsSendsCorrect == Spec => []CancelStopsSends
<1>1. IInv => CancelStopsSends
  BY DEF IInv, BatchInv, CancelStopsSends
<1> QED
  BY <1>1, Invariance, PTL

(* ExitCodeTrue: exit status 0 of the command publish means that all of    *)
(* its events are in the topic.                                            *)
THEOREM ExitCodeCorrect == Spec => []ExitCodeTrue
<1>1. IInv => ExitCodeTrue
  BY DEF IInv
<1> QED
  BY <1>1, Invariance, PTL

(* FeedMeansPublished: the UI feeds an event only once it is in the topic. *)
THEOREM FeedMeansPublishedCorrect == Spec => []FeedMeansPublished
<1>1. IInv => FeedMeansPublished
  <2> SUFFICES ASSUME IInv, NEW r \in feed PROVE <<r, 1>> \in topic
    BY DEF FeedMeansPublished
  <2>1. r \in Requests /\ r \in Singles /\ r \in Batches
    BY BatchFacts DEF IInv, TypeOK, Requests
  <2>2. results[r] # << >> /\ results[r][1] = "ok" /\ results[r] \in Seq(Outcomes)
    BY <2>1 DEF IInv, RequestInv, TypeOK, PublisherTypeOK
  <2>3. 1 \in 1 .. Len(results[r])
    BY <2>2
  <2> QED
    BY <2>1, <2>2, <2>3 DEF IInv, BatchInv
<1> QED
  BY <1>1, Invariance, PTL

-----------------------------------------------------------------------------
(* The refinement of PublishContract.                                      *)

Verdicts == {"published", "absent", "unknown"}
Untold(b) == [i \in 1 .. Size[b] |-> "nothing"]

(* Has anything been reported of the batch?                                *)
Reported(b) ==
  IF b \in Requests THEN reply[b] # "none" ELSE ppc[b] = "returned" /\ (b = "cli" => code # "none")

ToldTrue ==
  \A b \in Batches :
    /\ ~Reported(b) => Told(b) = Untold(b)
    /\ Reported(b) => Told(b) \in [1 .. Size[b] -> Verdicts]
    /\ \A i \in 1 .. Size[b] :
         /\ Told(b)[i] = "published" => <<b, i>> \in topic
         /\ Told(b)[i] = "absent" =>
              /\ <<b, i>> \notin topic
              /\ ~(ppc[b] = "sending" /\ i = next[b])
              /\ ~(i \in DOMAIN results[b] /\ results[b][i] = "failed")

LEMMA VerdictTrue ==
  ASSUME IInv, NEW b \in Batches, NEW i \in 1 .. Size[b], ppc[b] # "sending"
  PROVE  /\ Verdict(b, i) \in Verdicts
         /\ Verdict(b, i) = "published" => <<b, i>> \in topic
         /\ Verdict(b, i) = "absent" =>
              <<b, i>> \notin topic /\ ~(i \in DOMAIN results[b] /\ results[b][i] = "failed")
<1>1. BatchInv(b) /\ results[b] \in Seq(Outcomes) /\ DOMAIN results[b] = 1 .. Len(results[b])
  BY DEF IInv, TypeOK, PublisherTypeOK
<1>2. Verdict(b, i) \in Verdicts
  BY DEF Verdict, Verdicts
<1>3. ASSUME Verdict(b, i) = "published" PROVE <<b, i>> \in topic
  <2>1. i \in DOMAIN results[b] /\ results[b][i] = "ok"
    BY <1>3 DEF Verdict
  <2> QED
    BY <1>1, <2>1 DEF BatchInv
<1>4. ASSUME Verdict(b, i) = "absent"
      PROVE  <<b, i>> \notin topic /\ ~(i \in DOMAIN results[b] /\ results[b][i] = "failed")
  <2>1. ~(i \in DOMAIN results[b] /\ results[b][i] \in {"ok", "failed"})
    BY <1>4 DEF Verdict
  <2> QED
    BY <1>1, <2>1 DEF BatchInv, Aligned
<1> QED
  BY <1>2, <1>3, <1>4

(* Nothing of a request that the UI calls refused was ever sent.           *)
LEMMA RefusedAbsent ==
  ASSUME IInv, NEW r \in Requests, NEW i \in 1 .. Size[r], reply[r] = "refused"
  PROVE  /\ <<r, i>> \notin topic /\ ppc[r] # "sending"
         /\ i \notin DOMAIN results[r]
<1>1. r \in Batches /\ ppc[r] = "idle"
  BY BatchFacts DEF IInv, RequestInv
<1>2. BatchInv(r) /\ results[r] \in Seq(Outcomes)
  BY <1>1 DEF IInv, TypeOK, PublisherTypeOK
<1>3. Len(results[r]) = 0
  BY <1>1, <1>2 DEF BatchInv
<1> QED
  BY <1>1, <1>2, <1>3 DEF BatchInv, Aligned

LEMMA ReportsTrue == IInv => ToldTrue
<1> SUFFICES ASSUME IInv, NEW b \in Batches
             PROVE  /\ ~Reported(b) => Told(b) = Untold(b)
                    /\ Reported(b) => Told(b) \in [1 .. Size[b] -> Verdicts]
                    /\ \A i \in 1 .. Size[b] :
                         /\ Told(b)[i] = "published" => <<b, i>> \in topic
                         /\ Told(b)[i] = "absent" =>
                              /\ <<b, i>> \notin topic
                              /\ ~(ppc[b] = "sending" /\ i = next[b])
                              /\ ~(i \in DOMAIN results[b] /\ results[b][i] = "failed")
  BY DEF ToldTrue
<1>1. CASE ~Reported(b)
  BY <1>1 DEF Reported, Told, Untold
<1>2. CASE b \in Requests /\ reply[b] = "ok"
  <2>1. ppc[b] # "sending" /\ \A i \in 1 .. Size[b] : Told(b)[i] = Verdict(b, i)
    BY <1>2 DEF IInv, RequestInv, Told
  <2> QED
    BY <1>2, <2>1, VerdictTrue DEF Told, Reported
<1>3. CASE b \in Requests /\ reply[b] = "refused"
  BY <1>3, RefusedAbsent DEF Told, Reported, Verdicts
<1>4. CASE b \in Requests /\ reply[b] = "unknown"
  BY <1>4 DEF Told, Reported, Verdicts
<1>5. CASE b \notin Requests /\ Reported(b)
  <2>1. ppc[b] # "sending" /\ \A i \in 1 .. Size[b] : Told(b)[i] = Verdict(b, i)
    BY <1>5 DEF Reported, Told
  <2> QED
    BY <1>5, <2>1, VerdictTrue DEF Told, Reported
<1> QED
  BY <1>1, <1>2, <1>3, <1>4, <1>5 DEF Reported, IInv, TypeOK

(* A batch whose reports rest on what did not change is told the same.     *)
LEMMA ToldSame ==
  ASSUME IInv, NEW b \in Batches,
         Reported(b) => results'[b] = results[b],
         b \in Requests => reply'[b] = reply[b],
         Reported(b)' <=> Reported(b)
  PROVE  Told(b)' = Told(b)
BY DEF Told, Verdict, Reported

OnlyTells(b) ==
  /\ UNCHANGED topic
  /\ \A c \in Batches \ {b} : Told(c)' = Told(c)
  /\ ~Reported(b) /\ Reported(b)'

Same == UNCHANGED topic /\ \A b \in Batches : Told(b)' = Told(b)

LEMMA RunTells ==
  ASSUME IInv, NEW b \in Batches, Run(b)
  PROVE  Same \/ OnlyTells(b)
<1>1. PublishStep(b) /\ UNCHANGED <<processVars, handlerVars, uiVars>> /\ Alive
  BY DEF Run
<1>2. ppc[b] \in InLoop /\ UNCHANGED topic
  BY <1>1, PublishStepKinds DEF IInv
<1>3. ASSUME NEW c \in Batches, c # b PROVE Told(c)' = Told(c)
  <2>1. ppc'[c] = ppc[c] /\ results'[c] = results[c]
    BY <1>1, <1>3, RunLeaves DEF IInv
  <2> QED
    BY <1>1, <2>1, ToldSame DEF Reported, processVars, uiVars
<1>4. CASE b \in Requests
  <2>1. Told(b)' = Told(b)
    <3>1. CASE reply[b] = "ok"
      BY <1>2, <1>4, <3>1 DEF IInv, RequestInv, InLoop
    <3>2. CASE reply[b] # "ok"
      BY <1>1, <1>4, <3>2 DEF Told, uiVars
    <3> QED
      BY <3>1, <3>2
  <2> QED
    BY <1>2, <1>3, <2>1 DEF Same
<1>5. CASE b \notin Requests
  <2>1. ~Reported(b)
    BY <1>2, <1>5 DEF Reported, InLoop
  <2>2. CASE Reported(b)'
    BY <1>2, <1>3, <2>1, <2>2 DEF OnlyTells
  <2>3. CASE ~Reported(b)'
    BY <1>2, <1>3, <1>5, <2>1, <2>3, ToldSame DEF Same
  <2> QED
    BY <2>2, <2>3
<1> QED
  BY <1>4, <1>5

LEMMA ProcessTells ==
  ASSUME IInv, ProcessStep, UNCHANGED <<handlerVars, uiVars>>
  PROVE  Same \/ OnlyTells("cli")
<1>1. ASSUME UNCHANGED <<results, topic>>, \A b \in Batches \ {"cli"} : Reported(b)' <=> Reported(b),
             Reported("cli") => Reported("cli")'
      PROVE  Same \/ OnlyTells("cli")
  <2>1. \A b \in Batches \ {"cli"} : Told(b)' = Told(b)
    BY <1>1, ToldSame DEF uiVars
  <2>2. CASE Reported("cli")' <=> Reported("cli")
    BY <1>1, <2>1, <2>2, ToldSame, BatchFacts DEF Same, uiVars
  <2>3. CASE ~Reported("cli") /\ Reported("cli")'
    BY <1>1, <2>1, <2>3 DEF OnlyTells
  <2> QED
    BY <1>1, <2>2, <2>3
<1>2. CASE Connect
  <2>1. ppc["startup"] = "idle" /\ ppc["cli"] = "idle" /\ UNCHANGED <<results, topic, code>>
    BY <1>2 DEF Connect, IInv, ControlInv, Idle
  <2>2. ppc'["startup"] \in {"idle", "check"} /\ ppc'["cli"] \in {"idle", "check"}
    BY <1>2, <2>1, BatchFacts DEF Connect, GoTo, IInv, TypeOK, PublisherTypeOK
  <2>3. \A b \in Batches : Reported(b)' <=> Reported(b)
    BY <2>1, <2>2, BatchFacts DEF Reported, uiVars
  <2> QED
    BY <1>1, <2>1, <2>3, BatchFacts
<1>3. CASE UNCHANGED <<batchVars, topic>> /\ (code' # "none" \/ code' = code)
  <2>1. \A b \in Batches \ {"cli"} : Reported(b)' <=> Reported(b)
    BY <1>3 DEF Reported, batchVars, uiVars
  <2>2. Reported("cli") => Reported("cli")'
    BY <1>3, BatchFacts DEF Reported, batchVars
  <2> QED
    BY <1>1, <1>3, <2>1, <2>2 DEF batchVars
<1>4. CASE ReadEvents \/ GiveUp \/ DryRun \/ StopServing \/ Closed \/ Exit \/ Finish \/ ListenFails \/ Signal
  BY <1>3, <1>4 DEF ReadEvents, GiveUp, DryRun, StopServing, Closed, Exit, Finish, ListenFails, Signal, publisherVars
<1>5. CASE \E b \in Batches : Panic(b) \/ Expire(b)
  BY <1>3, <1>5 DEF Panic, Expire, publisherVars, processVars
<1> QED
  BY <1>2, <1>4, <1>5 DEF ProcessStep, Process

LEMMA RequestTells ==
  ASSUME IInv, NEW r \in Requests, Handler(r) \/ UIHandler(r)
  PROVE  Same \/ OnlyTells(r)
<1>0. UNCHANGED <<results, topic, processVars>> /\ r \in Batches
  BY BatchFacts DEF Handler, Accept, Call, Answer, Abort, UIHandler, UIRefuse, UIGiveUp, UIReceive, UIFeed, publisherVars, batchVars
<1>1. \A b \in Batches \ Requests : ppc'[b] = ppc[b]
  BY DEF Handler, Accept, Call, GoTo, Answer, Abort, UIHandler, UIRefuse, UIGiveUp, UIReceive, UIFeed, publisherVars, batchVars, IInv, TypeOK, PublisherTypeOK
<1>2. \A b \in Batches \ Requests : Told(b)' = Told(b)
  BY <1>0, <1>1, ToldSame DEF Reported, processVars
<1>3. CASE UNCHANGED reply
  BY <1>0, <1>2, <1>3, ToldSame, BatchFacts DEF Same, Reported
<1>4. ASSUME NEW what \in {"ok", "refused", "unknown"}, Reply(r, what), upc[r] # "done"
      PROVE  OnlyTells(r)
  <2>1. reply[r] = "none" /\ reply'[r] = what /\ \A q \in Requests \ {r} : reply'[q] = reply[q]
    BY <1>4 DEF Reply, IInv, RequestInv, TypeOK
  <2>2. \A q \in Requests \ {r} : Told(q)' = Told(q)
    BY <1>0, <2>1, ToldSame, BatchFacts DEF Reported
  <2> QED
    BY <1>0, <1>2, <2>1, <2>2 DEF OnlyTells, Reported
<1>5. CASE Handler(r)
  BY <1>3, <1>5 DEF Handler, Accept, Answer, Abort, uiVars
<1>6. CASE UIRefuse(r) \/ UIGiveUp(r) \/ UIFeed(r)
  BY <1>4, <1>6 DEF UIRefuse, UIGiveUp, UIFeed
<1>7. CASE UIReceive(r)
  BY <1>3, <1>4, <1>7 DEF UIReceive
<1> QED
  BY <1>5, <1>6, <1>7 DEF UIHandler

-----------------------------------------------------------------------------
AllTold == [b \in Batches |-> Told(b)]

LEMMA TellStep ==
  ASSUME IInv, ToldTrue, ToldTrue', NEW b \in Batches, OnlyTells(b)
  PROVE  Contract!Next
<1>1. AllTold' = [AllTold EXCEPT ![b] = AllTold'[b]]
  BY DEF AllTold, OnlyTells
<1>2. AllTold[b] = Untold(b)
  BY DEF AllTold, OnlyTells, ToldTrue
<1>3. AllTold'[b] \in [1 .. Size[b] -> Verdicts]
  BY DEF AllTold, OnlyTells, ToldTrue
<1>4. \A i \in 1 .. Size[b] :
        /\ AllTold'[b][i] = "published" => <<b, i>> \in topic
        /\ AllTold'[b][i] = "absent" => <<b, i>> \notin topic
  BY DEF AllTold, OnlyTells, ToldTrue
<1>5. Contract!Tell(b)
  BY <1>1, <1>2, <1>3, <1>4 DEF Contract!Tell, Contract!Untold, Contract!Verdicts, AllTold, Untold, Verdicts, OnlyTells
<1> QED
  BY <1>5 DEF Contract!Next

LEMMA ArriveStep ==
  ASSUME IInv, ToldTrue, NEW b \in Batches, Arrive(b)
  PROVE  Contract!Next
<1>1. PICK i \in 1 .. Size[b] : Deliver(b, i)
  BY DEF Arrive
<1>2. topic' = topic \cup {<<b, i>>} /\ UNCHANGED <<ppc, results, code, reply>>
  BY <1>1 DEF Arrive, Deliver, batchVars, processVars, uiVars
<1>3. \A c \in Batches : Told(c)' = Told(c)
  BY <1>2, ToldSame DEF Reported
<1>4. Told(b)[i] # "absent"
  BY <1>1 DEF Deliver, ToldTrue
<1>5. Contract!Arrive(b, i)
  BY <1>2, <1>3, <1>4 DEF Contract!Arrive
<1> QED
  BY <1>5 DEF Contract!Next

LEMMA ContractStep ==
  ASSUME IInv, ToldTrue, ToldTrue', [Next]_vars
  PROVE  [Contract!Next]_Contract!contractVars
<1>1. CASE Same
  BY <1>1 DEF Same, Contract!contractVars
<1>2. CASE \E b \in Batches : OnlyTells(b)
  BY <1>2, TellStep
<1>3. CASE \E b \in Batches : Arrive(b)
  BY <1>3, ArriveStep
<1>4. CASE UNCHANGED vars
  <2>1. UNCHANGED <<topic, results, ppc, code, reply>>
    BY <1>4 DEF vars, publisherVars, batchVars, processVars, uiVars
  <2> QED
    BY <1>1, <2>1, ToldSame DEF Same, Reported
<1>5. CASE ProcessStep /\ UNCHANGED <<handlerVars, uiVars>>
  BY <1>1, <1>2, <1>5, ProcessTells, BatchFacts
<1>6. CASE RequestStep
  BY <1>1, <1>2, <1>6, RequestTells, BatchFacts DEF RequestStep
<1>7. CASE \E b \in Batches : Run(b)
  BY <1>1, <1>2, <1>7, RunTells
<1> QED
  BY <1>3, <1>4, <1>5, <1>6, <1>7, NextSplit

(* RefinesContract: whatever fails, what the program and the UI report of  *)
(* an event is true of the topic, as PublishContract promises.             *)
THEOREM ContractImplemented == Spec => RefinesContract
<1>1. Init => Contract!Init
  BY DEF Init, PublisherInit, Contract!Init, Contract!Untold, Told
<1>2. IInv /\ IInv' /\ [Next]_vars => [Contract!Next]_Contract!contractVars
  BY ReportsTrue, ContractStep, PTL
<1> QED
  BY <1>1, <1>2, Invariance, PTL DEF Spec, RefinesContract, Contract!Spec
=============================================================================
