----------------------------- MODULE PublishFlow -----------------------------
(***************************************************************************)
(* The program cmd/producer, as the command "publish" (one batch, then     *)
(* exit) or as the server "serve" (a batch at start-up and HTTP requests), *)
(* and the handlers of the UI that forward requests to the server.         *)
(*                                                                         *)
(* A request is one batch: of one given event (POST /publish) or of a      *)
(* number of generated ones (POST /publish/bulk).  Deadlines are steps     *)
(* that may happen whenever the clock may have reached them.               *)
(***************************************************************************)
EXTENDS Publisher, FiniteSets

CONSTANTS
  Singles, Bulks,  \* the HTTP requests, of one event and of several
  MaxAccepted      \* bound: requests that reach the server

Requests == Singles \cup Bulks

ASSUME FlowAssumption ==
  /\ Singles \cap Bulks = {} /\ {"startup", "cli"} \cap Requests = {}
  /\ Batches = Requests \cup {"startup", "cli"}
  /\ \A r \in Singles : Size[r] = 1
  /\ MaxAccepted \in Nat

VARIABLES
  sub,       \* the subcommand
  main,      \* the main goroutine
  signalled, \* SIGINT or SIGTERM was received
  crashed,   \* the process ended in a panic
  code,      \* exit status
  hpc,       \* the server's handler of each request
  answer,    \* what it wrote
  upc,       \* the UI's handler of each request
  reply,     \* what it told its client
  feed       \* requests the UI has published to the event bus

processVars == <<sub, main, signalled, crashed, code>>
handlerVars == <<hpc, answer>>
uiVars == <<upc, reply, feed>>
vars == <<publisherVars, processVars, handlerVars, uiVars>>

Alive == main # "exited"

Init ==
  /\ PublisherInit
  /\ sub \in {"serve", "publish", "dry"}
  /\ main = IF sub = "serve" THEN "connecting" ELSE "reading"
  /\ signalled = FALSE /\ crashed = FALSE /\ code = "none"
  /\ hpc = [r \in Requests |-> "none"]
  /\ answer = [r \in Requests |-> "none"]
  /\ upc = [r \in Requests |-> "calling"]
  /\ reply = [r \in Requests |-> "none"]
  /\ feed = {}

-----------------------------------------------------------------------------
(* The process.                                                            *)

(* getEvents returns the events of the flags, the file or standard input,  *)
(* or an error.  ReadAll looks at no context: it returns when the writer   *)
(* of the pipe closes it, which nothing makes it do.                       *)
ReadEvents ==
  /\ main = "reading"
  /\ \/ main' = "connecting" /\ UNCHANGED code
     \/ main' = "exited" /\ code' = "1"
  /\ UNCHANGED <<publisherVars, sub, signalled, crashed, handlerVars, uiVars>>

(* NewSyncProducerWithRetry returns a producer; the server starts its      *)
(* background batch before it listens.                                     *)
Connect ==
  /\ main = "connecting" /\ sub # "dry"
  /\ client' = "open"
  /\ main' = IF sub = "serve" THEN "serving" ELSE "publishing"
  /\ GoTo(IF sub = "serve" THEN "startup" ELSE "cli", "check")
  /\ UNCHANGED <<next, results, late, ended, topic, sub, signalled, crashed, code, handlerVars, uiVars>>

(* No connection before the deadline or the signal, or, in the server, no  *)
(* telemetry provider.                                                     *)
GiveUp ==
  /\ main = "connecting" /\ sub # "dry"
  /\ main' = "exited" /\ code' = "1"
  /\ UNCHANGED <<publisherVars, sub, signalled, crashed, handlerVars, uiVars>>

DryRun ==
  /\ main = "connecting" /\ sub = "dry"
  /\ main' = "exited" /\ code' = "0"
  /\ UNCHANGED <<publisherVars, sub, signalled, crashed, handlerVars, uiVars>>

(* The root context is cancelled, and with it that of the start-up batch   *)
(* and of the command's; those of HTTP requests do not derive from it.     *)
Signal ==
  /\ Alive /\ ~signalled
  /\ signalled' = TRUE
  /\ ended' = [b \in Batches |-> ended[b] \/ b \in {"startup", "cli"}]
  /\ UNCHANGED <<batchVars, topic, client, sub, main, crashed, code, handlerVars, uiVars>>

(* Shutdown closes the listener and ListenAndServe returns: main goes to   *)
(* its deferred calls without waiting for Shutdown.                        *)
StopServing ==
  /\ main = "serving" /\ signalled
  /\ main' = "closing" /\ client' = "draining"
  /\ UNCHANGED <<batchVars, ended, topic, sub, signalled, crashed, code, handlerVars, uiVars>>

(* The address is in use; the root context is not cancelled.               *)
ListenFails ==
  /\ main = "serving" /\ \A r \in Requests : hpc[r] = "none"
  /\ main' = "closing" /\ client' = "draining" /\ code' = "1"
  /\ UNCHANGED <<batchVars, ended, topic, sub, signalled, crashed, handlerVars, uiVars>>

(* syncProducer.Close returns.                                             *)
Closed ==
  /\ main = "closing" /\ Drained
  /\ main' = "flushing" /\ client' = "closed"
  /\ UNCHANGED <<batchVars, ended, topic, sub, signalled, crashed, code, handlerVars, uiVars>>

(* The telemetry providers are shut down, and the process ends.            *)
Exit ==
  /\ main = "flushing"
  /\ main' = "exited"
  /\ code' = IF code = "none" THEN "0" ELSE code
  /\ UNCHANGED <<publisherVars, sub, signalled, crashed, handlerVars, uiVars>>

(* The start-up goroutine sends to the closed producer: nothing recovers   *)
(* the panic.                                                              *)
Panic(b) ==
  /\ Alive /\ b \notin Requests /\ ppc[b] = "send" /\ client = "closed"
  /\ main' = "exited" /\ crashed' = TRUE /\ code' = "2"
  /\ UNCHANGED <<publisherVars, sub, signalled, handlerVars, uiVars>>

(* runPublish prints the results and exits.                                *)
Finish ==
  /\ main = "publishing" /\ ppc["cli"] = "returned"
  /\ main' = "exited" /\ client' = "closed"
  /\ code' = IF \A i \in DOMAIN results["cli"] : results["cli"][i] = "ok" THEN "0" ELSE "1"
  /\ UNCHANGED <<batchVars, ended, topic, sub, signalled, crashed, handlerVars, uiVars>>

(* A deadline passes, or the client of a request closes its connection.    *)
Expire(b) ==
  /\ Alive /\ b # "cli" /\ ppc[b] \notin {"idle", "returned"} /\ ~ended[b]
  /\ ended' = [ended EXCEPT ![b] = TRUE]
  /\ UNCHANGED <<batchVars, topic, client, processVars, handlerVars, uiVars>>

Run(b) == Alive /\ PublishStep(b) /\ UNCHANGED <<processVars, handlerVars, uiVars>>

Arrive(b) ==
  /\ \E i \in 1 .. Size[b] : Deliver(b, i)
  /\ UNCHANGED <<processVars, handlerVars, uiVars>>

-----------------------------------------------------------------------------
(* The HTTP handlers of the server.                                        *)

(* Connections are read while the process serves, and those that it had    *)
(* accepted before a signal also while main is in its deferred calls.      *)
Reading == main = "serving" \/ (main \in {"closing", "flushing"} /\ code = "none")

(* Content type, body, fields and count are checked first.  A request may  *)
(* still be read from its connection when the UI has given up on it.       *)
Accept(r) ==
  /\ Reading /\ hpc[r] = "none" /\ (upc[r] = "calling" \/ reply[r] = "unknown")
  /\ Cardinality({q \in Requests : hpc[q] # "none"}) < MaxAccepted
  /\ \/ /\ hpc' = [hpc EXCEPT ![r] = "written"]
        /\ answer' = [answer EXCEPT ![r] = "4xx"]
        /\ UNCHANGED <<ppc, next, results, late, topic, client>>
     \/ /\ hpc' = [hpc EXCEPT ![r] = "publishing"]
        /\ Call(r)
        /\ UNCHANGED answer
  /\ UNCHANGED <<ended, processVars, uiVars>>

Answer(r) ==
  /\ Alive /\ hpc[r] = "publishing" /\ ppc[r] = "returned"
  /\ hpc' = [hpc EXCEPT ![r] = "written"]
  /\ answer' = [answer EXCEPT ![r] = IF r \in Bulks \/ (results[r] # << >> /\ results[r][1] = "ok") THEN "200" ELSE "5xx"]
  /\ UNCHANGED <<publisherVars, processVars, uiVars>>

(* A handler sends to the closed producer: net/http recovers the panic and *)
(* closes the connection without an answer.                                *)
Abort(r) ==
  /\ Alive /\ hpc[r] = "publishing" /\ ppc[r] = "send" /\ client = "closed"
  /\ hpc' = [hpc EXCEPT ![r] = "aborted"]
  /\ UNCHANGED <<publisherVars, processVars, answer, uiVars>>

-----------------------------------------------------------------------------
(* The handlers of the UI.                                                 *)

Reply(r, what) ==
  /\ upc' = [upc EXCEPT ![r] = "done"]
  /\ reply' = [reply EXCEPT ![r] = what]

UIRefuse(r) ==
  /\ upc[r] = "calling" /\ hpc[r] = "none" /\ Reply(r, "refused")
  /\ UNCHANGED <<publisherVars, processVars, handlerVars, feed>>

(* No connection, or no complete answer within ten seconds.                *)
UIGiveUp(r) ==
  /\ upc[r] = "calling" /\ Reply(r, "unknown")
  /\ UNCHANGED <<publisherVars, processVars, handlerVars, feed>>

\* MUTANT: the event goes to the feed whatever the producer answered.
UIReceiveAny(r) ==
  /\ upc[r] = "calling" /\ answer[r] # "none"
  /\ IF r \in Singles
       THEN upc' = [upc EXCEPT ![r] = "feeding"] /\ UNCHANGED reply
       ELSE Reply(r, CASE answer[r] = "200" -> "ok" [] answer[r] = "4xx" -> "refused" [] OTHER -> "unknown")
  /\ UNCHANGED <<publisherVars, processVars, handlerVars, feed>>

(* Status codes other than 200 are passed on.                              *)
UIReceive(r) ==
  /\ upc[r] = "calling" /\ answer[r] # "none"
  /\ IF r \in Singles /\ answer[r] = "200"
       THEN upc' = [upc EXCEPT ![r] = "feeding"] /\ UNCHANGED reply
       ELSE Reply(r, CASE answer[r] = "200" -> "ok" [] answer[r] = "4xx" -> "refused" [] OTHER -> "unknown")
  /\ UNCHANGED <<publisherVars, processVars, handlerVars, feed>>

(* The event is published to the bus, with success or not.                 *)
UIFeed(r) ==
  /\ upc[r] = "feeding" /\ Reply(r, "ok")
  /\ feed' \in {feed, feed \cup {r}}
  /\ UNCHANGED <<publisherVars, processVars, handlerVars>>

-----------------------------------------------------------------------------
Process == Connect \/ GiveUp \/ DryRun \/ StopServing \/ Closed \/ Exit \/ Finish
Handler(r) == Accept(r) \/ Answer(r) \/ Abort(r)
UIHandler(r) == UIRefuse(r) \/ UIGiveUp(r) \/ UIReceive(r) \/ UIFeed(r)

Next ==
  \/ ReadEvents \/ Process \/ ListenFails \/ Signal
  \/ \E b \in Batches : Run(b) \/ Arrive(b) \/ Panic(b) \/ Expire(b)
  \/ \E r \in Requests : Handler(r) \/ UIHandler(r)

(* Goroutines run; a send is given up after a bounded number of retries,   *)
(* and connecting after its deadline.  Reading the events is not fair: the *)
(* pipe may stay open.                                                     *)
Fairness ==
  /\ WF_vars(Process)
  /\ \A b \in Batches : WF_vars(Run(b))

Spec == Init /\ [][Next]_vars /\ Fairness

-----------------------------------------------------------------------------
(* Properties.                                                             *)

TypeOK ==
  /\ PublisherTypeOK
  /\ sub \in {"serve", "publish", "dry"}
  /\ main \in {"reading", "connecting", "serving", "publishing", "closing", "flushing", "exited"}
  /\ signalled \in BOOLEAN /\ crashed \in BOOLEAN
  /\ code \in {"none", "0", "1", "2"}
  /\ hpc \in [Requests -> {"none", "publishing", "written", "aborted"}]
  /\ answer \in [Requests -> {"none", "200", "4xx", "5xx"}]
  /\ upc \in [Requests -> {"calling", "feeding", "done"}]
  /\ reply \in [Requests -> {"none", "ok", "refused", "unknown"}]
  /\ feed \subseteq Singles

(* Exit status 0 of the command means that every event it was given is in  *)
(* the topic, also when it was interrupted in the middle of a batch.       *)
ExitCodeTrue ==
  sub = "publish" /\ code = "0" => \A i \in 1 .. Size["cli"] : <<"cli", i>> \in topic

(* The live feed shows a payment on behalf of the UI only when its event   *)
(* is in the topic, whatever failed between the UI, the server and Kafka.  *)
FeedMeansPublished == \A r \in feed : <<r, 1>> \in topic

(* SIGINT or SIGTERM ends the program, while it connects and with batches  *)
(* and requests in progress; but not while it reads its events, a call no  *)
(* context ends with the signal already taken over: then it ends only once *)
(* the input has.                                                          *)
SignalEnds == signalled /\ main # "reading" ~> main = "exited"

(* FINDING: after a signal, nothing is sent to the producer that main has  *)
(* begun to close (comment at cmd/producer/main.go:502).                   *)
NoSendAfterClose ==
  signalled /\ code # "1" =>
    /\ ~crashed
    /\ \A b \in Batches : \A i \in DOMAIN results[b] : results[b][i] # "shutdown"

(* What a caller has learnt of event i of b: from the reply of the UI, the *)
(* output of the command or the log of the server.                         *)
Verdict(b, i) ==
  IF i \notin DOMAIN results[b] THEN "absent"
  ELSE CASE results[b][i] = "ok" -> "published"
         [] results[b][i] = "failed" -> "unknown"
         [] OTHER -> "absent"

Told(b) ==
  [i \in 1 .. Size[b] |->
    IF b \in Requests
      THEN CASE reply[b] = "none" -> "nothing"
             [] reply[b] = "ok" -> Verdict(b, i)
             [] reply[b] = "refused" -> "absent"
             [] OTHER -> "unknown"
      ELSE IF ppc[b] = "returned" /\ (b = "cli" => code # "none") THEN Verdict(b, i) ELSE "nothing"]

Contract == INSTANCE PublishContract WITH
  told <- [b \in Batches |-> Told(b)]

(* Every report of the program and of the UI is true: published means in   *)
(* the topic, refused or not attempted means never in it.                  *)
RefinesContract == Contract!Spec
=============================================================================
