------------------------- MODULE EventBusRefinement -------------------------
(***************************************************************************)
(* EventBus implements FeedContract: for any clients, buffer, connection   *)
(* limit and number of events, whatever the listener, the handlers and the *)
(* shutdown do is a step of a bounded queue per client, or none.           *)
(***************************************************************************)
EXTENDS EventBusProofs

-----------------------------------------------------------------------------
(* LostApart is invariant: what Redis has delivered is never lost later.   *)

LEMMA LostApartStep == BusInv /\ OrderInv /\ LostApart /\ [Next]_vars => LostApart'
<1> SUFFICES ASSUME BusInv, OrderInv, LostApart, [Next]_vars PROVE LostApart'
  OBVIOUS
<1>1. ASSUME UNCHANGED <<published, lost, event, inbox>> PROVE LostApart'
  BY <1>1 DEF LostApart
<1>2. published \in Nat /\ event \in Nat /\ inbox \in Seq(Numbers) /\ event <= published
      /\ Len(inbox) \in Nat /\ \A i \in 1 .. Len(inbox) : inbox[i] \in Numbers /\ inbox[i] \in Nat /\ inbox[i] <= published
  BY Elements DEF BusInv, TypeOK, OrderInv, QueueOK
<1>3. CASE Publish
  <2>1. published' = published + 1 /\ event' = event
    BY <1>3 DEF Publish, loopVars
  <2>2. lost' \subseteq 1 .. published'
    <3>1. lost' \subseteq lost \cup {published + 1} /\ lost \subseteq 1 .. published
      BY <1>3 DEF LostApart, Publish
    <3>2. (1 .. published) \cup {published + 1} \subseteq 1 .. published + 1
      BY <1>2
    <3> QED
      BY <2>1, <3>1, <3>2
  <2>3. CASE linked
    <3>1. inbox' = Append(inbox, published + 1) /\ lost' = lost
      BY <1>3, <2>3 DEF Publish
    <3>2. \A i \in 1 .. Len(inbox') : inbox'[i] = published + 1 \/ \E j \in 1 .. Len(inbox) : inbox'[i] = inbox[j]
      BY <1>2, <3>1
    <3>3. published + 1 \notin lost
      BY <1>2 DEF LostApart
    <3> QED
      BY <2>1, <2>2, <3>1, <3>2, <3>3 DEF LostApart
  <2>4. CASE ~linked
    <3>1. inbox' = inbox /\ lost' = lost \cup {published + 1}
      BY <1>3, <2>4 DEF Publish
    <3>2. event # published + 1 /\ \A i \in 1 .. Len(inbox) : inbox[i] # published + 1
      BY <1>2
    <3> QED
      BY <2>1, <2>2, <3>1, <3>2 DEF LostApart
  <2> QED
    BY <2>3, <2>4
<1>4. CASE Take
  <2>1. inbox # << >> /\ event' = inbox[1] /\ inbox' = Tail(inbox) /\ UNCHANGED <<published, lost>>
    BY <1>2, <1>4 DEF Take
  <2>2. Len(inbox') = Len(inbox) - 1 /\ 1 \in 1 .. Len(inbox)
        /\ \A i \in 1 .. Len(inbox') : i + 1 \in 1 .. Len(inbox) /\ inbox'[i] = inbox[i + 1]
    BY <1>2, <2>1
  <2> QED
    BY <2>1, <2>2 DEF LostApart
<1>5. CASE Link \/ Unlink \/ Signal \/ Shutdown \/ MainExit \/ ServeFails \/ UNCHANGED vars
  BY <1>1, <1>5 DEF Link, Unlink, Signal, Shutdown, CancelBus, CloseAll, StopAccepting,
     FinishShutdown, ShutdownTimeout, MainExit, ServeFails, vars, feedVars, loopVars
<1>6. CASE Listener
  <2>1. ASSUME NEW k \in Clients, Offer(k) PROVE LostApart'
    BY <1>1, <2>1 DEF Offer, feedVars
  <2>2. CASE Unlock \/ StopListener
    BY <1>1, <2>2 DEF Unlock, StopListener, feedVars
  <2> QED
    BY <1>4, <1>6, <2>1, <2>2 DEF Listener
<1>7. ASSUME NEW k \in Clients, Request(k) \/ Handler(k) \/ GoAway(k) PROVE LostApart'
  BY <1>1, <1>7 DEF Handler, Request, Subscribe, Send, Leave, Unsubscribe, ReturnSlot, GoAway,
     feedVars, loopVars
<1> QED
  BY <1>3, <1>5, <1>6, <1>7 DEF Next

LEMMA LostApartCorrect == Spec => []LostApart
<1>1. Init => LostApart
  BY DEF Init, LostApart
<1>2. BusInv /\ OrderInv /\ LostApart /\ [Next]_vars => LostApart'
  BY LostApartStep
<1> QED
  BY <1>1, <1>2, BusInvCorrect, OrderInvCorrect, PTL DEF Spec

FeedInv == BusInv /\ OrderInv /\ GapInv /\ LostApart

LEMMA FeedInvCorrect == Spec => []FeedInv
  BY BusInvCorrect, OrderInvCorrect, GapInvCorrect, LostApartCorrect, PTL DEF FeedInv

-----------------------------------------------------------------------------
(* What the contract calls phase, queue and given.                         *)

PhaseOf(k) == IF pc[k] \notin Streaming THEN "off" ELSE IF k \in subs THEN "open" ELSE "closing"
QueueOf(k) == IF pc[k] \in Streaming THEN buf[k] ELSE << >>
GivenOf(k) == IF pc[k] \in Streaming THEN got[k] ELSE << >>


(* A step that changes no client in a way the contract sees.               *)
Unseen ==
  /\ dropped' = dropped
  /\ \A k \in Clients : PhaseOf(k)' = PhaseOf(k) /\ QueueOf(k)' = QueueOf(k) /\ GivenOf(k)' = GivenOf(k)

LEMMA UnseenStep ==
  ASSUME Unseen, UNCHANGED <<published, lost>>
  PROVE  UNCHANGED Feed!feedVars
BY DEF Unseen, PhaseOf, QueueOf, GivenOf, Feed!feedVars

LEMMA PublishEmits == ASSUME Publish PROVE Feed!Emit
<1>1. UNCHANGED <<pc, subs, buf, got, dropped>>
  BY DEF Publish, loopVars, connVars
<1> QED
  BY <1>1 DEF Publish, Feed!Emit, Feed!clientVars

LEMMA SubscribeComes == ASSUME FeedInv, NEW k \in Clients, Subscribe(k) PROVE Feed!Come(k)
<1>1. /\ pc[k] = "slot" /\ pc' = [pc EXCEPT ![k] = "stream"] /\ subs' = subs \cup {k}
      /\ UNCHANGED <<published, lost, buf, got, dropped>>
  BY DEF Subscribe, feedVars, loopVars
<1>2. buf[k] = << >> /\ got[k] = << >> /\ pc \in [Clients -> Holding \cup Idle]
  BY <1>1 DEF FeedInv, BusInv, TypeOK, MapOK, GapInv, GapOK
<1>3. /\ pc[k] \notin Streaming /\ pc'[k] \in Streaming /\ k \in subs'
      /\ \A c \in Clients \ {k} : pc'[c] = pc[c] /\ (c \in subs' <=> c \in subs)
  BY <1>1, <1>2 DEF Streaming
<1> QED
  BY <1>1, <1>2, <1>3 DEF Feed!Come

LEMMA SendGives == ASSUME FeedInv, NEW k \in Clients, Send(k) PROVE Feed!Give(k)
<1>1. /\ pc[k] \in Streaming /\ buf[k] # << >>
      /\ got' = [got EXCEPT ![k] = Append(@, Head(buf[k]))]
      /\ buf' = [buf EXCEPT ![k] = Tail(@)]
      /\ UNCHANGED <<published, lost, pc, subs, dropped>>
  BY DEF Send, Streaming, feedVars, loopVars
<1>2. got \in [Clients -> Seq(Numbers)] /\ buf \in [Clients -> Seq(Numbers)]
  BY DEF FeedInv, BusInv, TypeOK
<1> QED
  BY <1>1, <1>2 DEF Feed!Give

LEMMA UnsubscribeGoes == ASSUME FeedInv, NEW k \in Clients, Unsubscribe(k) PROVE Feed!Go(k)
<1>1. /\ pc[k] = "leaving" /\ pc' = [pc EXCEPT ![k] = "unsubscribed"] /\ subs' = subs \ {k}
      /\ UNCHANGED <<published, lost, buf, got, dropped>>
  BY DEF Unsubscribe, feedVars, loopVars
<1>2. pc \in [Clients -> Holding \cup Idle]
  BY DEF FeedInv, BusInv, TypeOK
<1>3. /\ pc[k] \in Streaming /\ pc'[k] \notin Streaming
      /\ \A c \in Clients \ {k} : pc'[c] = pc[c] /\ (c \in subs' <=> c \in subs)
  BY <1>1, <1>2 DEF Streaming
<1> QED
  BY <1>1, <1>3 DEF Feed!Go

LEMMA CloseAllCuts == ASSUME FeedInv, CloseAll PROVE Feed!CutOff
<1>1. subs' = {} /\ UNCHANGED <<published, lost, pc, buf, got, dropped>>
  BY DEF CloseAll, feedVars, loopVars, connVars
<1> QED
  BY <1>1 DEF Feed!CutOff

-----------------------------------------------------------------------------
(* An offer: the event is the next one for its subscriber.                 *)

LEMMA LastSeen ==
  ASSUME FeedInv, NEW k \in Clients, got[k] \o buf[k] # << >>
  PROVE  LET s == got[k] \o buf[k] IN
           /\ s[Len(s)] \in Numbers /\ Seen(k, s[Len(s)])
           /\ \A x \in Numbers : Seen(k, x) => x <= s[Len(s)]
<1> DEFINE s == got[k] \o buf[k]
<1>1. got[k] \in Seq(Numbers) /\ buf[k] \in Seq(Numbers) /\ s \in Seq(Numbers)
  BY DEF FeedInv, BusInv, TypeOK
<1>2. Len(s) \in Nat /\ Len(s) \in 1 .. Len(s)
  <2>1. s # << >>
    OBVIOUS
  <2> HIDE DEF s
  <2> QED
    BY <1>1, <2>1
<1>3. \A i \in 1 .. Len(s) : s[i] \in Numbers
  <2> HIDE DEF s
  <2> QED
    BY <1>1
<1>4. \A i \in 1 .. Len(s) : Seen(k, s[i])
  BY <1>1, Concatenation DEF Seen
<1>5. Increasing(s)
  BY <1>1, IncreasingConcat DEF FeedInv, OrderInv, StreamOK
<1>6. ASSUME NEW x \in Numbers, Seen(k, x) PROVE \E i \in 1 .. Len(s) : s[i] = x
  <2>1. ASSUME NEW i \in 1 .. Len(got[k]), got[k][i] = x PROVE \E j \in 1 .. Len(s) : s[j] = x
    <3>1. i \in 1 .. Len(s) /\ s[i] = x
      BY <1>1, <2>1, Concatenation
    <3> QED
      BY <3>1
  <2>2. ASSUME NEW i \in 1 .. Len(buf[k]), buf[k][i] = x PROVE \E j \in 1 .. Len(s) : s[j] = x
    <3>1. Len(got[k]) + i \in 1 .. Len(s) /\ s[Len(got[k]) + i] = x
      BY <1>1, <2>2, Concatenation
    <3> QED
      BY <3>1
  <2> QED
    BY <1>6, <2>1, <2>2 DEF Seen
<1> HIDE DEF s
<1>7. \A i \in 1 .. Len(s) : s[i] <= s[Len(s)]
  BY <1>2, <1>3, <1>5 DEF Increasing, Numbers
<1>8. /\ s[Len(s)] \in Numbers /\ Seen(k, s[Len(s)])
      /\ \A x \in Numbers : Seen(k, x) => x <= s[Len(s)]
  BY <1>2, <1>3, <1>4, <1>6, <1>7
<1> QED
  BY <1>8 DEF s

LEMMA NextEvent ==
  ASSUME FeedInv, NEW k \in Clients, Offer(k), NEW last \in Numbers, Seen(k, last),
         \A x \in Numbers : Seen(k, x) => x <= last
  PROVE  last < event /\ (last + 1) .. (event - 1) \subseteq lost \cup dropped[k]
<1>1. k \in todo /\ k \in subs /\ event \in Numbers
  BY DEF Offer, FeedInv, BusInv, MapOK
<1>2. last < event
  BY <1>1 DEF FeedInv, OrderInv, StreamOK, Numbers
<1>3. ASSUME NEW x \in (last + 1) .. (event - 1) PROVE x \in lost \cup dropped[k]
  <2>1. x \in Numbers /\ last < x /\ x < event
    BY <1>1, <1>3, BusAssumption DEF Numbers
  <2>2. Covered(k, x)
    BY <1>1, <2>1 DEF FeedInv, GapInv, GapOK, Numbers
  <2>3. ~Seen(k, x)
    BY <2>1 DEF Numbers
  <2> QED
    BY <2>2, <2>3 DEF Covered
<1> QED
  BY <1>2, <1>3

LEMMA OfferFeeds ==
  ASSUME FeedInv, NEW k \in Clients, Offer(k), NEW n, n = event
  PROVE  n \in 1 .. published /\ (Feed!Enqueue(k, n) \/ Feed!Miss(k, n))
<1>1. /\ k \in subs /\ pc[k] \in Streaming /\ chan[k] = "open" /\ event \in Numbers
      /\ UNCHANGED <<published, lost, pc, subs, got>>
  BY DEF Offer, FeedInv, BusInv, MapOK, Streaming, feedVars, connVars
<1>2. event \in (1 .. published) \ lost
  BY <1>1 DEF FeedInv, BusInv, TypeOK, OrderInv, QueueOK, LostApart, Numbers
<1>3. Feed!NextFor(k, n)
  <2>1. LET s == got[k] \o buf[k] IN
          s # << >> => s[Len(s)] < event
                       /\ (s[Len(s)] + 1) .. (event - 1) \subseteq lost \cup dropped[k]
    BY LastSeen, NextEvent
  <2> QED
    BY <1>1, <1>2, <2>1 DEF Feed!NextFor
<1>4. /\ buf \in [Clients -> Seq(Numbers)] /\ dropped \in [Clients -> SUBSET Numbers]
      /\ Len(buf[k]) \in Nat /\ Len(buf[k]) <= BufSize /\ BufSize \in Nat
  BY BusAssumption DEF FeedInv, BusInv, TypeOK
<1>5. CASE Len(buf[k]) < BufSize
  <2>1. buf' = [buf EXCEPT ![k] = Append(@, event)] /\ dropped' = dropped
    BY <1>1, <1>5 DEF Offer
  <2>2. Feed!Enqueue(k, n)
    BY <1>1, <1>3, <1>4, <1>5, <2>1 DEF Feed!Enqueue
  <2> QED
    BY <1>2, <2>2
<1>6. CASE ~(Len(buf[k]) < BufSize)
  <2>1. dropped' = [dropped EXCEPT ![k] = @ \cup {event}] /\ buf' = buf /\ Len(buf[k]) = BufSize
    BY <1>4, <1>6 DEF Offer
  <2>2. Feed!Miss(k, n)
    BY <1>1, <1>3, <1>4, <2>1 DEF Feed!Miss
  <2> QED
    BY <1>2, <2>2
<1> QED
  BY <1>5, <1>6

-----------------------------------------------------------------------------
LEMMA FeedStep == FeedInv /\ [Next]_vars => [Feed!Next]_Feed!feedVars
<1> SUFFICES ASSUME FeedInv, [Next]_vars PROVE Feed!Next \/ UNCHANGED Feed!feedVars
  OBVIOUS
<1>0. pc \in [Clients -> Holding \cup Idle]
  BY DEF FeedInv, BusInv, TypeOK
<1>1. ASSUME UNCHANGED <<published, lost, dropped, pc, subs, buf, got>>
      PROVE  UNCHANGED Feed!feedVars
  BY <1>1, UnseenStep DEF Unseen, PhaseOf, QueueOf, GivenOf
<1>2. CASE Publish
  BY <1>2, PublishEmits DEF Feed!Next
<1>3. CASE Link \/ Unlink \/ Signal \/ MainExit \/ ServeFails \/ UNCHANGED vars
  BY <1>1, <1>3 DEF Link, Unlink, Signal, MainExit, ServeFails, vars, feedVars, loopVars, connVars
<1>4. CASE Shutdown
  <2>1. CASE CloseAll
    BY <2>1, CloseAllCuts DEF Feed!Next
  <2>2. CASE CancelBus \/ StopAccepting \/ FinishShutdown \/ ShutdownTimeout
    BY <1>1, <2>2 DEF CancelBus, StopAccepting, FinishShutdown, ShutdownTimeout,
       feedVars, loopVars, connVars
  <2> QED
    BY <1>4, <2>1, <2>2 DEF Shutdown
<1>5. CASE Listener
  <2>1. ASSUME NEW k \in Clients, Offer(k) PROVE Feed!Next
    <3>1. PICK n : n = event
      OBVIOUS
    <3>2. n \in 1 .. published /\ (Feed!Enqueue(k, n) \/ Feed!Miss(k, n))
      BY <2>1, <3>1, OfferFeeds
    <3> QED
      BY <3>2 DEF Feed!Next
  <2>2. CASE Take \/ Unlock \/ StopListener
    BY <1>1, <2>2 DEF Take, Unlock, StopListener, feedVars, connVars
  <2> QED
    BY <1>5, <2>1, <2>2 DEF Listener
<1>6. ASSUME NEW k \in Clients, Request(k) \/ Handler(k) \/ GoAway(k)
      PROVE  Feed!Next \/ UNCHANGED Feed!feedVars
  <2>1. CASE Subscribe(k) \/ Send(k) \/ Unsubscribe(k)
    BY <2>1, SubscribeComes, SendGives, UnsubscribeGoes DEF Feed!Next
  <2>2. CASE Request(k) \/ Leave(k) \/ ReturnSlot(k)
    <3>1. /\ UNCHANGED <<published, lost, dropped, subs>>
          /\ pc'[k] \in Streaming <=> pc[k] \in Streaming
          /\ pc[k] \in Streaming => buf'[k] = buf[k] /\ got'[k] = got[k]
          /\ \A c \in Clients \ {k} : pc'[c] = pc[c] /\ buf'[c] = buf[c] /\ got'[c] = got[c]
      BY <1>0, <2>2 DEF Request, Leave, ReturnSlot, Streaming, Idle, feedVars, loopVars,
         FeedInv, BusInv, TypeOK
    <3>2. Unseen
      BY <3>1 DEF Unseen, PhaseOf, QueueOf, GivenOf
    <3> QED
      BY <3>1, <3>2, UnseenStep
  <2>3. CASE GoAway(k)
    BY <1>1, <2>3 DEF GoAway, feedVars, loopVars
  <2> QED
    BY <1>6, <2>1, <2>2, <2>3 DEF Handler
<1> QED
  BY <1>2, <1>3, <1>4, <1>5, <1>6 DEF Next

(* RefinesFeed: whoever subscribes, leaves, is slow or is cut off, and     *)
(* however the link to Redis fails, the bus and its handlers are bounded   *)
(* queues that are filled in order and lose events for two reasons only.   *)
THEOREM FeedImplemented == Spec => RefinesFeed
<1>1. Init => Feed!Init
  BY DEF Init, Feed!Init, Streaming
<1>2. FeedInv /\ [Next]_vars => [Feed!Next]_Feed!feedVars
  BY FeedStep
<1> QED
  BY <1>1, <1>2, FeedInvCorrect, PTL DEF Spec, RefinesFeed, Feed!Spec
=============================================================================
