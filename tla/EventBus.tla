------------------------------ MODULE EventBus ------------------------------
(***************************************************************************)
(* The live feed of the UI process (internal/ui and cmd/ui): a listener    *)
(* goroutine copies the events of a Redis channel to the buffered channels *)
(* of its subscribers, one per SSE request, while requests come and go and *)
(* a signal shuts the process down.                                        *)
(*                                                                         *)
(* Events are numbered in the order of their publication.  The listener    *)
(* holds the read lock of the bus while lpc is "send"; every step that     *)
(* needs the write lock waits for it and is itself one step.               *)
(***************************************************************************)
EXTENDS Naturals, Sequences, FiniteSets, Functions

CONSTANTS
  Clients,    \* browser connections, one request each at a time
  MaxEvents,  \* bound: events published in a run
  BufSize,    \* UI_EVENT_BUS_BUFFER, capacity of a subscriber's channel
  MaxConns,   \* capacity of sseSemaphore, 100 in the code
  RedisFails  \* may the connection to Redis break?

ASSUME BusAssumption ==
  /\ IsFiniteSet(Clients)
  /\ MaxEvents \in Nat
  /\ BufSize \in Nat \ {0}
  /\ MaxConns \in Nat
  /\ RedisFails \in BOOLEAN

VARIABLES
  published,  \* events published to the Redis channel
  linked,     \* the listener's subscription at Redis is up
  inbox,      \* events received from Redis, not yet taken by the listener
  lost,       \* history: events published while the subscription was down
  lpc,        \* the listener
  event,      \* the event it distributes
  todo,       \* the subscribers it has not offered it to
  dropped,    \* history: events each client's full buffer did not take
  subs,       \* the subscribers of the bus
  chan, buf,  \* state and contents of each subscriber's channel
  pc,         \* the handler of each client's request
  gone,       \* clients that have closed their connection
  got,        \* what has been written to each client
  slots,      \* tokens in sseSemaphore
  spc,        \* the shutdown goroutine
  main,       \* the main goroutine
  panicked    \* a send to, or a close of, a closed channel

feedVars == <<published, linked, inbox, lost>>
loopVars == <<lpc, event, todo, dropped>>
connVars == <<pc, gone, got, slots>>
stopVars == <<spc, main>>
vars == <<feedVars, loopVars, subs, chan, buf, connVars, stopVars, panicked>>

Numbers  == 1 .. MaxEvents
Holding  == {"slot", "stream", "leaving", "unsubscribed"}
Idle     == {"off", "refused"}
Stopping == {"signalled", "closing", "closed", "draining", "done"}

Locked == lpc = "send"                           \* read lock taken
Cancelled == spc \in Stopping \ {"signalled"}    \* eb.ctx is done
Accepting == spc \notin {"draining", "done"}     \* the listening socket is open

Init ==
  /\ published = 0 /\ linked = FALSE /\ inbox = << >> /\ lost = {}
  /\ lpc = "wait" /\ event = 0 /\ todo = {}
  /\ dropped = [k \in Clients |-> {}]
  /\ subs = {}
  /\ chan = [k \in Clients |-> "none"]
  /\ buf = [k \in Clients |-> << >>]
  /\ pc = [k \in Clients |-> "off"]
  /\ gone = [k \in Clients |-> FALSE]
  /\ got = [k \in Clients |-> << >>]
  /\ slots = 0
  /\ spc = "run" /\ main = "serving"
  /\ panicked = FALSE

-----------------------------------------------------------------------------
(* Redis.  What is published while the subscription is down is lost.       *)

Publish ==
  /\ published < MaxEvents
  /\ published' = published + 1
  /\ IF linked
       THEN inbox' = Append(inbox, published + 1) /\ lost' = lost
       ELSE lost' = lost \cup {published + 1} /\ inbox' = inbox
  /\ UNCHANGED <<linked, loopVars, subs, chan, buf, connVars, stopVars, panicked>>

Link ==
  /\ ~linked /\ lpc # "stopped"
  /\ linked' = TRUE
  /\ UNCHANGED <<published, inbox, lost, loopVars, subs, chan, buf, connVars, stopVars, panicked>>

Unlink ==
  /\ RedisFails /\ linked
  /\ linked' = FALSE
  /\ UNCHANGED <<published, inbox, lost, loopVars, subs, chan, buf, connVars, stopVars, panicked>>

-----------------------------------------------------------------------------
(* The listener goroutine.                                                 *)

\* MUTANT: only the last of the waiting events is distributed.
TakeNewest ==
  /\ lpc = "wait" /\ inbox # << >>
  /\ lpc' = "send" /\ event' = inbox[Len(inbox)] /\ todo' = subs
  /\ inbox' = << >>
  /\ UNCHANGED <<published, linked, lost, dropped, subs, chan, buf, connVars, stopVars, panicked>>

\* MUTANT: the last event received is distributed first.
TakeLast ==
  /\ lpc = "wait" /\ inbox # << >>
  /\ lpc' = "send" /\ event' = inbox[Len(inbox)] /\ todo' = subs
  /\ inbox' = SubSeq(inbox, 1, Len(inbox) - 1)
  /\ UNCHANGED <<published, linked, lost, dropped, subs, chan, buf, connVars, stopVars, panicked>>

(* The select picks a message, also when the context is done; then the     *)
(* read lock.                                                              *)
Take ==
  /\ lpc = "wait" /\ inbox # << >>
  /\ lpc' = "send" /\ event' = Head(inbox) /\ todo' = subs
  /\ inbox' = Tail(inbox)
  /\ UNCHANGED <<published, linked, lost, dropped, subs, chan, buf, connVars, stopVars, panicked>>

\* MUTANT: a send without the default branch.
OfferBlocking(k) ==
  /\ Locked /\ k \in todo
  /\ Len(buf[k]) < BufSize
  /\ todo' = todo \ {k}
  /\ buf' = [buf EXCEPT ![k] = Append(@, event)]
  /\ UNCHANGED <<feedVars, lpc, event, dropped, subs, chan, connVars, stopVars, panicked>>

\* MUTANT: a full buffer loses its oldest event instead.
OfferNewest(k) ==
  /\ Locked /\ k \in todo
  /\ todo' = todo \ {k}
  /\ panicked' = (panicked \/ chan[k] = "closed")
  /\ IF Len(buf[k]) < BufSize
       THEN buf' = [buf EXCEPT ![k] = Append(@, event)] /\ dropped' = dropped
       ELSE /\ buf' = [buf EXCEPT ![k] = Append(Tail(@), event)]
            /\ dropped' = [dropped EXCEPT ![k] = @ \cup {Head(buf[k])}]
  /\ UNCHANGED <<feedVars, lpc, event, subs, chan, connVars, stopVars>>

(* A full buffer drops the event for this subscriber.                      *)
Offer(k) ==
  /\ Locked /\ k \in todo
  /\ todo' = todo \ {k}
  /\ panicked' = (panicked \/ chan[k] = "closed")
  /\ IF chan[k] = "open" /\ Len(buf[k]) < BufSize
       THEN buf' = [buf EXCEPT ![k] = Append(@, event)] /\ dropped' = dropped
       ELSE dropped' = [dropped EXCEPT ![k] = @ \cup {event}] /\ buf' = buf
  /\ UNCHANGED <<feedVars, lpc, event, subs, chan, connVars, stopVars>>

Unlock ==
  /\ Locked /\ todo = {}
  /\ lpc' = "wait"
  /\ UNCHANGED <<feedVars, event, todo, dropped, subs, chan, buf, connVars, stopVars, panicked>>

(* The other branch of the select; pubsub.Close.                           *)
StopListener ==
  /\ lpc = "wait" /\ Cancelled
  /\ lpc' = "stopped"
  /\ linked' = FALSE
  /\ UNCHANGED <<published, inbox, lost, event, todo, dropped, subs, chan, buf, connVars, stopVars, panicked>>

-----------------------------------------------------------------------------
(* HandleSSE.                                                              *)

\* MUTANT: the limit is not tested.
RequestUnlimited(k) ==
  /\ Accepting
  /\ pc[k] \in Idle
  /\ pc' = [pc EXCEPT ![k] = "slot"]
  /\ slots' = slots + 1
  /\ got' = [got EXCEPT ![k] = << >>]
  /\ UNCHANGED <<feedVars, loopVars, subs, chan, buf, gone, stopVars, panicked>>

(* A request takes a slot of the semaphore or is refused with a 503.       *)
Request(k) ==
  /\ Accepting
  /\ pc[k] \in Idle
  /\ pc' = [pc EXCEPT ![k] = IF slots < MaxConns THEN "slot" ELSE "refused"]
  /\ slots' = IF slots < MaxConns THEN slots + 1 ELSE slots
  /\ got' = [got EXCEPT ![k] = << >>]
  /\ UNCHANGED <<feedVars, loopVars, subs, chan, buf, gone, stopVars, panicked>>

Subscribe(k) ==
  /\ pc[k] = "slot" /\ ~Locked
  /\ pc' = [pc EXCEPT ![k] = "stream"]
  /\ subs' = subs \cup {k}
  /\ chan' = [chan EXCEPT ![k] = "open"]
  /\ UNCHANGED <<feedVars, loopVars, buf, gone, got, slots, stopVars, panicked>>

(* The select of the handler: an event is written, ...                     *)
Send(k) ==
  /\ pc[k] = "stream" /\ buf[k] # << >>
  /\ got' = [got EXCEPT ![k] = Append(@, Head(buf[k]))]
  /\ buf' = [buf EXCEPT ![k] = Tail(@)]
  /\ UNCHANGED <<feedVars, loopVars, subs, chan, pc, gone, slots, stopVars, panicked>>

\* MUTANT: the handler does not look at the request's context.
LeaveClosedOnly(k) ==
  /\ pc[k] = "stream"
  /\ chan[k] = "closed" /\ buf[k] = << >>
  /\ pc' = [pc EXCEPT ![k] = "leaving"]
  /\ UNCHANGED <<feedVars, loopVars, subs, chan, buf, gone, got, slots, stopVars, panicked>>

(* ... the client has gone, or the channel is closed and empty.            *)
Leave(k) ==
  /\ pc[k] = "stream"
  /\ gone[k] \/ (chan[k] = "closed" /\ buf[k] = << >>)
  /\ pc' = [pc EXCEPT ![k] = "leaving"]
  /\ UNCHANGED <<feedVars, loopVars, subs, chan, buf, gone, got, slots, stopVars, panicked>>

\* MUTANT: the channel is closed whether or not it is still in the map.
UnsubscribeAlways(k) ==
  /\ pc[k] = "leaving" /\ ~Locked
  /\ pc' = [pc EXCEPT ![k] = "unsubscribed"]
  /\ subs' = subs \ {k}
  /\ chan' = [chan EXCEPT ![k] = "closed"]
  /\ panicked' = (panicked \/ chan[k] = "closed")
  /\ UNCHANGED <<feedVars, loopVars, buf, gone, got, slots, stopVars>>

(* The deferred unsubscribe closes the channel unless Close already has.   *)
Unsubscribe(k) ==
  /\ pc[k] = "leaving" /\ ~Locked
  /\ pc' = [pc EXCEPT ![k] = "unsubscribed"]
  /\ subs' = subs \ {k}
  /\ chan' = [chan EXCEPT ![k] = IF k \in subs THEN "closed" ELSE @]
  /\ panicked' = (panicked \/ (k \in subs /\ chan[k] = "closed"))
  /\ UNCHANGED <<feedVars, loopVars, buf, gone, got, slots, stopVars>>

\* MUTANT: the slot of a client that has gone is not given back.
ReturnSlotUnlessGone(k) ==
  /\ pc[k] = "unsubscribed"
  /\ pc' = [pc EXCEPT ![k] = "off"]
  /\ slots' = IF gone[k] THEN slots ELSE slots - 1
  /\ gone' = [gone EXCEPT ![k] = FALSE]
  /\ chan' = [chan EXCEPT ![k] = "none"]
  /\ buf' = [buf EXCEPT ![k] = << >>]
  /\ UNCHANGED <<feedVars, loopVars, subs, got, stopVars, panicked>>

(* The deferred release of the semaphore; the channel is garbage.          *)
ReturnSlot(k) ==
  /\ pc[k] = "unsubscribed"
  /\ pc' = [pc EXCEPT ![k] = "off"]
  /\ slots' = slots - 1
  /\ gone' = [gone EXCEPT ![k] = FALSE]
  /\ chan' = [chan EXCEPT ![k] = "none"]
  /\ buf' = [buf EXCEPT ![k] = << >>]
  /\ UNCHANGED <<feedVars, loopVars, subs, got, stopVars, panicked>>

GoAway(k) ==
  /\ pc[k] \in {"slot", "stream"} /\ ~gone[k]
  /\ gone' = [gone EXCEPT ![k] = TRUE]
  /\ UNCHANGED <<feedVars, loopVars, subs, chan, buf, pc, got, slots, stopVars, panicked>>

-----------------------------------------------------------------------------
(* The signal goroutine of main and Server.Shutdown.                       *)

Signal ==
  /\ spc = "run"
  /\ spc' = "signalled"
  /\ UNCHANGED <<feedVars, loopVars, subs, chan, buf, connVars, main, panicked>>

(* EventBus.Close: the context first, ...                                  *)
CancelBus ==
  /\ spc = "signalled"
  /\ spc' = "closing"
  /\ UNCHANGED <<feedVars, loopVars, subs, chan, buf, connVars, main, panicked>>

(* ... then, with the write lock, every channel of the map.                *)
CloseAll ==
  /\ spc = "closing" /\ ~Locked
  /\ spc' = "closed"
  /\ chan' = [k \in Clients |-> IF k \in subs THEN "closed" ELSE chan[k]]
  /\ panicked' = (panicked \/ \E k \in subs : chan[k] = "closed")
  /\ subs' = {}
  /\ UNCHANGED <<feedVars, loopVars, buf, connVars, main>>

(* http.Server.Shutdown closes the listening socket and waits for the      *)
(* requests in progress, or for its deadline of 15 seconds.                *)
StopAccepting ==
  /\ spc = "closed"
  /\ spc' = "draining"
  /\ UNCHANGED <<feedVars, loopVars, subs, chan, buf, connVars, main, panicked>>

Drained == \A k \in Clients : pc[k] \in Idle

FinishShutdown ==
  /\ spc = "draining" /\ Drained
  /\ spc' = "done"
  /\ UNCHANGED <<feedVars, loopVars, subs, chan, buf, connVars, main, panicked>>

ShutdownTimeout ==
  /\ spc = "draining" /\ ~Drained
  /\ spc' = "done"
  /\ UNCHANGED <<feedVars, loopVars, subs, chan, buf, connVars, main, panicked>>

(* ListenAndServe returns ErrServerClosed as soon as the socket is closed, *)
(* and main with it.                                                       *)
MainExit ==
  /\ ~Accepting
  /\ main' = "exited"
  /\ UNCHANGED <<feedVars, loopVars, subs, chan, buf, connVars, spc, panicked>>

(* ListenAndServe fails: the address is taken, or Accept returns an error  *)
(* that is not temporary.  main exits with status 1.                       *)
ServeFails ==
  /\ Accepting
  /\ main' = "exited"
  /\ UNCHANGED <<feedVars, loopVars, subs, chan, buf, connVars, spc, panicked>>

-----------------------------------------------------------------------------
Listener == Take \/ (\E k \in Clients : Offer(k)) \/ Unlock \/ StopListener
Handler(k) == Subscribe(k) \/ Send(k) \/ Leave(k) \/ Unsubscribe(k) \/ ReturnSlot(k)
Shutdown == CancelBus \/ CloseAll \/ StopAccepting \/ FinishShutdown \/ ShutdownTimeout

(* When main has returned nothing runs any more.                           *)
Next ==
  /\ main = "serving"
  /\ \/ Publish \/ Link \/ Unlink
     \/ Listener
     \/ \E k \in Clients : Request(k) \/ Handler(k) \/ GoAway(k)
     \/ Signal \/ Shutdown \/ MainExit \/ ServeFails

Spec == Init /\ [][Next]_vars

(* Goroutines are scheduled, and a goroutine that waits for the write lock *)
(* is not overtaken by readers for ever (sync.RWMutex).  A handler whose   *)
(* client is still there may be stuck writing to it: there is no write     *)
(* timeout, so that only the steps of a handler whose client has gone, or  *)
(* that are behind it, are assumed to be taken.  The main goroutine leaves *)
(* ListenAndServe once the socket is closed; nothing makes the server fail. *)
Running == main = "serving"
Fairness ==
  /\ WF_vars(Running /\ Listener)
  /\ \A k \in Clients :
       /\ WF_vars(Running /\ gone[k] /\ Leave(k))
       /\ SF_vars(Running /\ Subscribe(k))
       /\ SF_vars(Running /\ Unsubscribe(k))
       /\ WF_vars(Running /\ ReturnSlot(k))
  /\ WF_vars(Running /\ (CancelBus \/ StopAccepting))
  /\ SF_vars(Running /\ CloseAll)
  /\ WF_vars(Running /\ MainExit)

FairSpec == Spec /\ Fairness

-----------------------------------------------------------------------------
(* Properties.                                                             *)

TypeOK ==
  /\ published \in 0 .. MaxEvents
  /\ linked \in BOOLEAN
  /\ inbox \in Seq(Numbers)
  /\ lost \subseteq Numbers
  /\ lpc \in {"wait", "send", "stopped"}
  /\ event \in 0 .. MaxEvents
  /\ todo \subseteq Clients
  /\ dropped \in [Clients -> SUBSET Numbers]
  /\ subs \subseteq Clients
  /\ chan \in [Clients -> {"none", "open", "closed"}]
  /\ buf \in [Clients -> Seq(Numbers)]
  /\ \A k \in Clients : Len(buf[k]) <= BufSize
  /\ pc \in [Clients -> Holding \cup Idle]
  /\ gone \in [Clients -> BOOLEAN]
  /\ got \in [Clients -> Seq(Numbers)]
  /\ slots \in 0 .. MaxConns
  /\ spc \in {"run"} \cup Stopping
  /\ main \in {"serving", "exited"}
  /\ panicked \in BOOLEAN

(* No goroutine sends to a closed channel or closes one twice, whichever   *)
(* of the listener, an unsubscribe and Close comes first: a panic in the   *)
(* listener would end the process (events.go, the map under the lock).     *)
NoPanic == ~panicked

(* A token in sseSemaphore is a request in HandleSSE: every way out gives  *)
(* its slot back once, so that clients that come and go cannot use up the  *)
(* 100 connections.                                                        *)
SlotsMatchRequests == slots = Cardinality({k \in Clients : pc[k] \in Holding})

Increasing(s) == \A i, j \in 1 .. Len(s) : i < j => s[i] < s[j]

(* A client sees events in the order of their publication and none twice,  *)
(* over lost links, full buffers and subscribers that come and go.         *)
FeedInOrder == \A k \in Clients : Increasing(got[k] \o buf[k])

(* While a request is subscribed, every event from the first one it is     *)
(* given on is given to it too, was published while the link to Redis was  *)
(* down, or met its full buffer: the bus loses nothing for other reasons,  *)
(* whoever else comes, goes, is slow, or whatever the shutdown does.       *)
FeedGapless ==
  \A k \in Clients :
    LET s == got[k] \o buf[k] IN
      s # << >> => s[1] .. s[Len(s)] \subseteq Range(s) \cup lost \cup dropped[k]

Streaming == {"stream", "leaving"}
Feed == INSTANCE FeedContract WITH
  phase <- [k \in Clients |-> IF pc[k] \notin Streaming THEN "off"
                              ELSE IF k \in subs THEN "open" ELSE "closing"],
  queue <- [k \in Clients |-> IF pc[k] \in Streaming THEN buf[k] ELSE << >>],
  given <- [k \in Clients |-> IF pc[k] \in Streaming THEN got[k] ELSE << >>],
  missed <- dropped

(* The bus, its channels and the handlers are a bounded queue per client:  *)
(* events enter in the order of their publication, only a full buffer or   *)
(* the link to Redis keeps one out, whoever else subscribes, leaves or is  *)
(* slow, and Close leaves what is buffered to be written.                  *)
RefinesFeed == Feed!Spec

Pending(n) == (\E i \in 1 .. Len(inbox) : inbox[i] = n) \/ (Locked /\ event = n)

(* A slow or stuck subscriber holds nobody up: every event received from   *)
(* Redis is offered to all subscribers although no client reads.           *)
FeedDrains ==
  \A n \in Numbers : Pending(n) ~> (~Pending(n) \/ lpc = "stopped" \/ main = "exited")

(* A client that goes away gives its slot back.                            *)
GoneReleases == \A k \in Clients : gone[k] ~> (pc[k] = "off" \/ main = "exited")

(* A signal ends the process, whatever clients do and however many events  *)
(* arrive: Close gets the write lock although the listener goes on taking  *)
(* events, the socket is closed after it, and main returns without waiting *)
(* for the clients that never leave.                                       *)
SignalStops == (spc = "signalled") ~> (main = "exited")

-----------------------------------------------------------------------------
(* What makes these inductive: the map holds the open channels, each of    *)
(* which belongs to a request, and the listener offers to the map only.    *)

MapOK ==
  /\ todo \subseteq subs
  /\ IF Locked THEN event \in Numbers ELSE todo = {}
  /\ \A k \in Clients : k \in subs <=> chan[k] = "open"
  /\ \A k \in Clients : chan[k] = "open" => pc[k] \in {"stream", "leaving"}
  /\ \A k \in Clients : pc[k] \in Idle \cup {"slot"} => buf[k] = << >>

BusInv == TypeOK /\ NoPanic /\ SlotsMatchRequests /\ MapOK

(* Events wait in the order of their publication, and a subscriber has     *)
(* seen none newer than the one being distributed, nor that one before it  *)
(* is offered.                                                             *)
QueueOK ==
  /\ Increasing(inbox)
  /\ \A i \in 1 .. Len(inbox) : event < inbox[i] /\ inbox[i] <= published
  /\ event <= published

Seen(k, n) ==
  \/ \E i \in 1 .. Len(got[k]) : got[k][i] = n
  \/ \E i \in 1 .. Len(buf[k]) : buf[k][i] = n

StreamOK(k) ==
  /\ Increasing(got[k]) /\ Increasing(buf[k])
  /\ \A i \in 1 .. Len(got[k]), j \in 1 .. Len(buf[k]) : got[k][i] < buf[k][j]
  /\ \A n \in Numbers : Seen(k, n) => n <= event /\ (k \in todo => n # event)

OrderInv == QueueOK /\ \A k \in Clients : StreamOK(k)

(* What the listener distributes or still has to take is not lost.         *)
LostApart ==
  /\ lost \subseteq 1 .. published
  /\ event \notin lost
  /\ \A i \in 1 .. Len(inbox) : inbox[i] \notin lost
=============================================================================
