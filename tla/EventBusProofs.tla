--------------------------- MODULE EventBusProofs ---------------------------
(***************************************************************************)
(* Proofs about EventBus: for any clients, buffer, connection limit and    *)
(* number of events, nobody sends to or closes a closed channel, the       *)
(* semaphore counts the requests in progress, and clients see events in    *)
(* the order of their publication, without gaps the model does not name.   *)
(***************************************************************************)
EXTENDS EventBus, FiniteSetTheorems, TLAPS

Holders == {k \in Clients : pc[k] \in Holding}

-----------------------------------------------------------------------------
(* Counting the requests in progress.                                      *)

LEMMA HoldersFinite == IsFiniteSet(Holders) /\ Cardinality(Holders) \in Nat
<1>1. Holders \subseteq Clients
  BY DEF Holders
<1> QED
  BY <1>1, FS_Subset, FS_CardinalityType, BusAssumption

LEMMA SameSlots ==
  ASSUME BusInv, slots' = slots,
         \A k \in Clients : pc'[k] \in Holding <=> pc[k] \in Holding
  PROVE  SlotsMatchRequests'
<1>1. Holders' = Holders
  BY DEF Holders
<1> QED
  BY <1>1 DEF BusInv, SlotsMatchRequests, Holders

LEMMA TakeSlot ==
  ASSUME BusInv, NEW k \in Clients, pc[k] \notin Holding,
         pc' = [pc EXCEPT ![k] = "slot"], slots' = slots + 1
  PROVE  SlotsMatchRequests'
<1>1. k \notin Holders /\ Holders' = Holders \cup {k}
  BY DEF Holders, Holding, BusInv, TypeOK
<1>2. Cardinality(Holders \cup {k}) = Cardinality(Holders) + 1
  BY <1>1, HoldersFinite, FS_AddElement
<1> QED
  BY <1>1, <1>2 DEF BusInv, SlotsMatchRequests, Holders

LEMMA GiveSlot ==
  ASSUME BusInv, NEW k \in Clients, pc[k] \in Holding,
         pc' = [pc EXCEPT ![k] = "off"], slots' = slots - 1
  PROVE  SlotsMatchRequests' /\ slots' \in 0 .. MaxConns
<1>1. k \in Holders /\ Holders' = Holders \ {k}
  BY DEF Holders, Holding, BusInv, TypeOK
<1>2. Cardinality(Holders \ {k}) = Cardinality(Holders) - 1
  BY <1>1, HoldersFinite, FS_RemoveElement
<1>3. slots = Cardinality(Holders) /\ slots \in 0 .. MaxConns
  BY DEF BusInv, TypeOK, SlotsMatchRequests, Holders
<1>4. slots # 0
  BY <1>1, <1>3, HoldersFinite, FS_EmptySet
<1> QED
  BY <1>1, <1>2, <1>3, <1>4, BusAssumption DEF SlotsMatchRequests, Holders

-----------------------------------------------------------------------------
(* BusInv is inductive.  Steps of Redis and of the shutdown goroutine that *)
(* leave the bus and the requests alone:                                   *)

Aloof ==
  /\ UNCHANGED <<subs, chan, buf, connVars, panicked, event, todo>>
  /\ Locked' => Locked
  /\ ~Locked' => todo = {}

LEMMA AloofStep == ASSUME BusInv, Aloof PROVE NoPanic' /\ SlotsMatchRequests' /\ MapOK'
<1>1. SlotsMatchRequests'
  BY SameSlots DEF Aloof, connVars
<1>2. NoPanic' /\ MapOK'
  BY DEF BusInv, Aloof, connVars, NoPanic, MapOK
<1> QED
  BY <1>1, <1>2

LEMMA PublishInv == ASSUME BusInv, Publish PROVE BusInv'
<1>1. TypeOK'
  <2>1. published' \in 0 .. MaxEvents /\ inbox' \in Seq(Numbers) /\ lost' \subseteq Numbers
    <3>1. published' \in 0 .. MaxEvents /\ published + 1 \in Numbers
      BY BusAssumption DEF BusInv, TypeOK, Publish, Numbers
    <3>2. inbox \in Seq(Numbers) /\ lost \subseteq Numbers
      BY DEF BusInv, TypeOK
    <3>3. Append(inbox, published + 1) \in Seq(Numbers)
      BY <3>1, <3>2
    <3> QED
      BY <3>1, <3>2, <3>3 DEF Publish
  <2> QED
    BY <2>1 DEF BusInv, TypeOK, Publish, loopVars, connVars, stopVars
<1> QED
  BY <1>1, AloofStep DEF BusInv, MapOK, Publish, Aloof, Locked, loopVars, connVars

LEMMA LinkInv == ASSUME BusInv, Link \/ Unlink PROVE BusInv'
<1>1. TypeOK'
  BY DEF BusInv, TypeOK, Link, Unlink, loopVars, connVars, stopVars
<1> QED
  BY <1>1, AloofStep DEF BusInv, MapOK, Link, Unlink, Aloof, Locked, loopVars, connVars

LEMMA TakeInv == ASSUME BusInv, Take PROVE BusInv'
<1>1. event' \in Numbers /\ inbox' \in Seq(Numbers)
  BY DEF BusInv, TypeOK, Take
<1>2. TypeOK'
  BY <1>1, BusAssumption DEF BusInv, TypeOK, Take, Numbers, connVars, stopVars
<1>3. SlotsMatchRequests'
  BY SameSlots DEF Take, connVars
<1>4. NoPanic' /\ MapOK'
  BY <1>1 DEF BusInv, Take, Locked, connVars, NoPanic, MapOK
<1> QED
  BY <1>2, <1>3, <1>4 DEF BusInv

LEMMA OfferInv == ASSUME BusInv, NEW k \in Clients, Offer(k) PROVE BusInv'
<1>1. chan[k] = "open" /\ pc[k] \in {"stream", "leaving"} /\ event \in Numbers
  BY DEF BusInv, MapOK, Offer
<1>2. TypeOK'
  <2>1. buf' \in [Clients -> Seq(Numbers)] /\ \A c \in Clients : Len(buf'[c]) <= BufSize
    <3>1. Append(buf[k], event) \in Seq(Numbers) /\ Len(Append(buf[k], event)) = Len(buf[k]) + 1
      BY <1>1 DEF BusInv, TypeOK
    <3>2. CASE Len(buf[k]) < BufSize
      <4>1. buf' = [buf EXCEPT ![k] = Append(@, event)]
        BY <1>1, <3>2 DEF Offer
      <4> QED
        BY <3>1, <3>2, <4>1, BusAssumption DEF BusInv, TypeOK
    <3>3. CASE ~(Len(buf[k]) < BufSize)
      BY <1>1, <3>3 DEF BusInv, TypeOK, Offer
    <3> QED
      BY <3>2, <3>3
  <2>2. dropped' \in [Clients -> SUBSET Numbers]
    <3>1. dropped \in [Clients -> SUBSET Numbers] /\ dropped[k] \cup {event} \in SUBSET Numbers
      BY <1>1 DEF BusInv, TypeOK
    <3> QED
      BY <3>1 DEF Offer
  <2>3. todo' \subseteq Clients /\ panicked' \in BOOLEAN
    BY DEF BusInv, TypeOK, Offer
  <2> QED
    BY <2>1, <2>2, <2>3 DEF BusInv, TypeOK, Offer, feedVars, connVars, stopVars
<1>3. SlotsMatchRequests'
  BY SameSlots DEF Offer, connVars
<1>4. NoPanic'
  BY <1>1 DEF BusInv, NoPanic, Offer
<1>5. MapOK'
  BY <1>1 DEF BusInv, TypeOK, MapOK, Offer, Locked, Idle, connVars
<1> QED
  BY <1>2, <1>3, <1>4, <1>5 DEF BusInv

LEMMA StopListenerInv == ASSUME BusInv, Unlock \/ StopListener PROVE BusInv'
<1>1. TypeOK'
  BY DEF BusInv, TypeOK, Unlock, StopListener, feedVars, connVars, stopVars
<1> QED
  BY <1>1, AloofStep DEF BusInv, MapOK, Unlock, StopListener, Aloof, Locked, connVars

LEMMA ShutdownInv ==
  ASSUME BusInv, Signal \/ CancelBus \/ StopAccepting \/ FinishShutdown \/ ShutdownTimeout
                 \/ MainExit \/ ServeFails
  PROVE  BusInv'
<1>1. TypeOK'
  BY DEF BusInv, TypeOK, Signal, CancelBus, StopAccepting, FinishShutdown, ShutdownTimeout,
         MainExit, ServeFails, Stopping, feedVars, loopVars, connVars
<1> QED
  BY <1>1, AloofStep DEF BusInv, MapOK, Signal, CancelBus, StopAccepting, FinishShutdown,
         ShutdownTimeout, MainExit, ServeFails, Aloof, Locked, loopVars, connVars

-----------------------------------------------------------------------------
(* Steps of the requests, and the closing of the bus.                      *)

LEMMA RequestInv == ASSUME BusInv, NEW k \in Clients, Request(k) PROVE BusInv'
<1>1. pc[k] \notin Holding /\ chan[k] # "open" /\ buf[k] = << >>
  BY DEF BusInv, MapOK, Request, Idle, Holding
<1>2. TypeOK'
  <2>1. got' \in [Clients -> Seq(Numbers)] /\ slots' \in 0 .. MaxConns
    BY BusAssumption DEF BusInv, TypeOK, Request
  <2> QED
    BY <2>1 DEF BusInv, TypeOK, Request, Holding, Idle, feedVars, loopVars, stopVars
<1>3. SlotsMatchRequests'
  <2>1. CASE slots < MaxConns
    BY <1>1, <2>1, TakeSlot DEF Request
  <2>2. CASE ~(slots < MaxConns)
    <3>1. \A c \in Clients : pc'[c] \in Holding <=> pc[c] \in Holding
      BY <1>1, <2>2 DEF BusInv, TypeOK, Request, Holding
    <3> QED
      BY <2>2, <3>1, SameSlots DEF Request
  <2> QED
    BY <2>1, <2>2
<1>4. NoPanic' /\ MapOK'
  BY <1>1 DEF BusInv, TypeOK, NoPanic, MapOK, Request, Locked, Idle, loopVars
<1> QED
  BY <1>2, <1>3, <1>4 DEF BusInv

LEMMA SubscribeInv == ASSUME BusInv, NEW k \in Clients, Subscribe(k) PROVE BusInv'
<1>1. TypeOK'
  BY DEF BusInv, TypeOK, Subscribe, Holding, feedVars, loopVars, stopVars
<1>2. SlotsMatchRequests'
  BY SameSlots DEF BusInv, TypeOK, Subscribe, Holding
<1>3. NoPanic' /\ MapOK'
  BY DEF BusInv, TypeOK, NoPanic, MapOK, Subscribe, Locked, Idle, loopVars
<1> QED
  BY <1>1, <1>2, <1>3 DEF BusInv

LEMMA SendInv == ASSUME BusInv, NEW k \in Clients, Send(k) PROVE BusInv'
<1>1. TypeOK'
  <2>1. /\ buf' \in [Clients -> Seq(Numbers)] /\ got' \in [Clients -> Seq(Numbers)]
        /\ \A c \in Clients : Len(buf'[c]) <= BufSize
    <3>1. /\ Head(buf[k]) \in Numbers /\ Tail(buf[k]) \in Seq(Numbers)
          /\ Len(Tail(buf[k])) = Len(buf[k]) - 1 /\ Len(buf[k]) \in Nat
      BY DEF BusInv, TypeOK, Send
    <3>2. Append(got[k], Head(buf[k])) \in Seq(Numbers)
      BY <3>1 DEF BusInv, TypeOK
    <3> QED
      BY <3>1, <3>2, BusAssumption DEF BusInv, TypeOK, Send
  <2> QED
    BY <2>1 DEF BusInv, TypeOK, Send, feedVars, loopVars, stopVars
<1>2. SlotsMatchRequests'
  BY SameSlots DEF Send
<1>3. NoPanic' /\ MapOK'
  BY DEF BusInv, TypeOK, NoPanic, MapOK, Send, Locked, Idle, loopVars
<1> QED
  BY <1>1, <1>2, <1>3 DEF BusInv

LEMMA LeaveInv == ASSUME BusInv, NEW k \in Clients, Leave(k) PROVE BusInv'
<1>1. TypeOK'
  BY DEF BusInv, TypeOK, Leave, Holding, feedVars, loopVars, stopVars
<1>2. SlotsMatchRequests'
  BY SameSlots DEF BusInv, TypeOK, Leave, Holding
<1>3. NoPanic' /\ MapOK'
  BY DEF BusInv, TypeOK, NoPanic, MapOK, Leave, Locked, Idle, loopVars
<1> QED
  BY <1>1, <1>2, <1>3 DEF BusInv

LEMMA UnsubscribeInv == ASSUME BusInv, NEW k \in Clients, Unsubscribe(k) PROVE BusInv'
<1>1. panicked' = panicked
  BY DEF BusInv, MapOK, TypeOK, Unsubscribe
<1>2. TypeOK'
  BY <1>1 DEF BusInv, TypeOK, Unsubscribe, Holding, feedVars, loopVars, stopVars
<1>3. SlotsMatchRequests'
  BY SameSlots DEF BusInv, TypeOK, Unsubscribe, Holding
<1>4. todo = {}
  BY DEF BusInv, MapOK, Unsubscribe
<1>5. NoPanic' /\ MapOK'
  BY <1>1, <1>4 DEF BusInv, TypeOK, NoPanic, MapOK, Unsubscribe, Locked, Idle, loopVars
<1> QED
  BY <1>2, <1>3, <1>5 DEF BusInv

LEMMA ReturnSlotInv == ASSUME BusInv, NEW k \in Clients, ReturnSlot(k) PROVE BusInv'
<1>1. pc[k] \in Holding /\ chan[k] # "open" /\ k \notin subs
  BY DEF BusInv, MapOK, ReturnSlot, Holding
<1>2. SlotsMatchRequests' /\ slots' \in 0 .. MaxConns
  BY <1>1, GiveSlot DEF ReturnSlot
<1>3. TypeOK'
  BY <1>2, BusAssumption DEF BusInv, TypeOK, ReturnSlot, Idle, feedVars, loopVars, stopVars
<1>4. NoPanic' /\ MapOK'
  BY <1>1 DEF BusInv, TypeOK, NoPanic, MapOK, ReturnSlot, Locked, Idle, loopVars
<1> QED
  BY <1>2, <1>3, <1>4 DEF BusInv

LEMMA GoAwayInv == ASSUME BusInv, NEW k \in Clients, GoAway(k) PROVE BusInv'
<1>1. TypeOK'
  BY DEF BusInv, TypeOK, GoAway, feedVars, loopVars, stopVars
<1>2. SlotsMatchRequests'
  BY SameSlots DEF GoAway
<1>3. NoPanic' /\ MapOK'
  BY DEF BusInv, NoPanic, MapOK, GoAway, Locked, loopVars
<1> QED
  BY <1>1, <1>2, <1>3 DEF BusInv

LEMMA CloseAllInv == ASSUME BusInv, CloseAll PROVE BusInv'
<1>1. panicked' = panicked /\ \A k \in Clients : chan'[k] # "open"
  BY DEF BusInv, MapOK, TypeOK, CloseAll
<1>2. TypeOK'
  BY <1>1 DEF BusInv, TypeOK, CloseAll, Stopping, feedVars, loopVars, connVars
<1>3. SlotsMatchRequests'
  BY SameSlots DEF CloseAll, connVars
<1>4. todo' = {}
  BY DEF BusInv, MapOK, CloseAll, loopVars
<1>5. NoPanic' /\ MapOK'
  BY <1>1, <1>4 DEF BusInv, NoPanic, MapOK, CloseAll, Locked, connVars, loopVars
<1> QED
  BY <1>2, <1>3, <1>5 DEF BusInv

LEMMA BusInvStep == BusInv /\ [Next]_vars => BusInv'
<1> SUFFICES ASSUME BusInv, [Next]_vars PROVE BusInv'
  OBVIOUS
<1>1. CASE Publish \/ Link \/ Unlink
  BY <1>1, PublishInv, LinkInv
<1>2. CASE Listener
  BY <1>2, TakeInv, OfferInv, StopListenerInv DEF Listener
<1>3. ASSUME NEW k \in Clients, Request(k) \/ Handler(k) \/ GoAway(k)
      PROVE  BusInv'
  BY <1>3, RequestInv, SubscribeInv, SendInv, LeaveInv, UnsubscribeInv, ReturnSlotInv,
     GoAwayInv DEF Handler
<1>4. CASE Signal \/ Shutdown \/ MainExit \/ ServeFails
  BY <1>4, ShutdownInv, CloseAllInv DEF Shutdown
<1>5. CASE UNCHANGED vars
  <2>1. TypeOK'
    BY <1>5 DEF BusInv, TypeOK, vars, feedVars, loopVars, connVars, stopVars
  <2> QED
    BY <1>5, <2>1, AloofStep DEF BusInv, MapOK, Aloof, Locked, vars, loopVars
<1> QED
  BY <1>1, <1>2, <1>3, <1>4, <1>5 DEF Next

LEMMA BusInvInit == Init => BusInv
<1> SUFFICES ASSUME Init PROVE BusInv
  OBVIOUS
<1>1. Holders = {}
  BY DEF Init, Holders, Holding
<1>2. SlotsMatchRequests
  BY <1>1, FS_EmptySet DEF Init, SlotsMatchRequests, Holders
<1>3. TypeOK
  <2>1. << >> \in Seq(Numbers) /\ Len(<< >>) = 0
    OBVIOUS
  <2>2. /\ \A k \in Clients : buf[k] = << >>
        /\ buf \in [Clients -> Seq(Numbers)] /\ got \in [Clients -> Seq(Numbers)]
    BY <2>1 DEF Init
  <2>3. \A k \in Clients : Len(buf[k]) <= BufSize
    BY <2>1, <2>2, BusAssumption
  <2>4. published \in 0 .. MaxEvents /\ event \in 0 .. MaxEvents /\ slots \in 0 .. MaxConns
    BY BusAssumption DEF Init
  <2> QED
    BY <2>1, <2>2, <2>3, <2>4 DEF Init, TypeOK, Holding, Idle
<1> QED
  BY <1>2, <1>3 DEF BusInv, Init, NoPanic, MapOK, Locked

LEMMA BusInvCorrect == Spec => []BusInv
  BY BusInvInit, BusInvStep, PTL DEF Spec

(* Every reachable state is well typed; in particular no buffer exceeds    *)
(* its capacity and no more requests are in progress than the semaphore    *)
(* allows.                                                                 *)
THEOREM TypeCorrect == Spec => []TypeOK
<1>1. BusInv => TypeOK
  BY DEF BusInv
<1> QED
  BY <1>1, BusInvCorrect, PTL

(* No send to, and no second close of, a closed channel, in any order of   *)
(* the listener, subscriptions, departures and Close.                      *)
THEOREM NoPanicCorrect == Spec => []NoPanic
<1>1. BusInv => NoPanic
  BY DEF BusInv
<1> QED
  BY <1>1, BusInvCorrect, PTL

(* The semaphore counts the requests in HandleSSE.                         *)
THEOREM SlotsCorrect == Spec => []SlotsMatchRequests
<1>1. BusInv => SlotsMatchRequests
  BY DEF BusInv
<1> QED
  BY <1>1, BusInvCorrect, PTL

-----------------------------------------------------------------------------
(* The order of the feed.  Sequences of events first.                      *)

LEMMA NumbersNat == \A n \in Numbers : n \in Nat
  BY BusAssumption DEF Numbers

LEMMA Elements ==
  ASSUME NEW s \in Seq(Numbers)
  PROVE  Len(s) \in Nat /\ \A i \in 1 .. Len(s) : s[i] \in Numbers /\ s[i] \in Nat
  BY NumbersNat

LEMMA IncreasingAppend ==
  ASSUME NEW s \in Seq(Numbers), NEW n \in Numbers, Increasing(s),
         \A i \in 1 .. Len(s) : s[i] < n
  PROVE  Increasing(Append(s, n))
<1>1. /\ Len(Append(s, n)) = Len(s) + 1 /\ Append(s, n)[Len(s) + 1] = n
      /\ \A i \in 1 .. Len(s) : Append(s, n)[i] = s[i]
  OBVIOUS
<1> QED
  BY <1>1, Elements DEF Increasing

LEMMA IncreasingTail ==
  ASSUME NEW s \in Seq(Numbers), s # << >>, Increasing(s)
  PROVE  /\ Increasing(Tail(s))
         /\ \A i \in 1 .. Len(Tail(s)) : s[1] < Tail(s)[i]
<1>1. /\ Len(Tail(s)) = Len(s) - 1 /\ Len(s) \in Nat \ {0}
      /\ \A i \in 1 .. Len(Tail(s)) : Tail(s)[i] = s[i + 1]
  OBVIOUS
<1> QED
  BY <1>1 DEF Increasing

LEMMA StreamKept ==
  ASSUME NEW k \in Clients, StreamOK(k), got'[k] = got[k], buf'[k] = buf[k],
         event' = event, k \in todo' => k \in todo
  PROVE  StreamOK(k)'
  BY DEF StreamOK, Seen, Increasing

LEMMA AllStreamsKept ==
  ASSUME OrderInv, got' = got, buf' = buf, event' = event, todo' \subseteq todo
  PROVE  \A k \in Clients : StreamOK(k)'
  BY StreamKept DEF OrderInv

LEMMA QueueKept ==
  ASSUME QueueOK, inbox' = inbox, event' = event, published' = published
  PROVE  QueueOK'
  BY DEF QueueOK, Increasing

LEMMA PublishOrder == ASSUME BusInv, OrderInv, Publish PROVE OrderInv'
<1>1. \A k \in Clients : StreamOK(k)'
  BY AllStreamsKept DEF Publish, loopVars, connVars
<1>2. QueueOK'
  <2>1. /\ inbox \in Seq(Numbers) /\ published \in Nat /\ event \in Nat
        /\ published' = published + 1 /\ published + 1 \in Numbers /\ event' = event
    BY BusAssumption DEF BusInv, TypeOK, Publish, Numbers, loopVars
  <2>2. event' <= published'
    BY <2>1 DEF OrderInv, QueueOK
  <2>3. \A i \in 1 .. Len(inbox) :
          inbox[i] \in Nat /\ event < inbox[i] /\ inbox[i] < published + 1
    BY <2>1, Elements DEF OrderInv, QueueOK
  <2>4. CASE inbox' = inbox
    BY <2>1, <2>2, <2>3, <2>4 DEF OrderInv, QueueOK, Increasing
  <2>5. CASE inbox' = Append(inbox, published + 1)
    <3>1. Increasing(inbox')
      BY <2>1, <2>3, <2>5, IncreasingAppend DEF OrderInv, QueueOK
    <3>2. \A i \in 1 .. Len(inbox') : inbox'[i] = published + 1 \/ \E j \in 1 .. Len(inbox) : inbox'[i] = inbox[j]
      BY <2>1, <2>5
    <3>3. \A i \in 1 .. Len(inbox') : event' < inbox'[i] /\ inbox'[i] <= published'
      BY <2>1, <2>2, <2>3, <3>2 DEF OrderInv, QueueOK
    <3> QED
      BY <2>2, <3>1, <3>3 DEF QueueOK, Increasing
  <2> QED
    BY <2>4, <2>5 DEF Publish
<1> QED
  BY <1>1, <1>2 DEF OrderInv

LEMMA TakeOrder == ASSUME BusInv, OrderInv, Take PROVE OrderInv'
<1>1. /\ inbox \in Seq(Numbers) /\ inbox # << >> /\ event \in Nat /\ published \in Nat
      /\ event' = inbox[1] /\ inbox' = Tail(inbox) /\ published' = published
  BY BusAssumption DEF BusInv, TypeOK, Take
<1>2. event' > event /\ event' \in Numbers /\ event' \in Nat /\ event' <= published
  <2>1. 1 \in 1 .. Len(inbox)
    BY <1>1
  <2> QED
    BY <1>1, <2>1, Elements DEF OrderInv, QueueOK
<1>3. QueueOK'
  <2>1. \A i \in 1 .. Len(inbox') : \E j \in 1 .. Len(inbox) : inbox'[i] = inbox[j]
    BY <1>1
  <2>2. Increasing(inbox') /\ \A i \in 1 .. Len(inbox') : event' < inbox'[i]
    BY <1>1, IncreasingTail DEF OrderInv, QueueOK
  <2> QED
    BY <1>1, <1>2, <2>1, <2>2 DEF OrderInv, QueueOK, Increasing
<1>4. ASSUME NEW k \in Clients PROVE StreamOK(k)'
  <2>1. got' = got /\ buf' = buf
    BY DEF Take, connVars
  <2>2. \A n \in Numbers : Seen(k, n) => n < event'
    BY <1>1, <1>2 DEF OrderInv, StreamOK, Numbers
  <2>3. \A n \in Numbers : Seen(k, n)' <=> Seen(k, n)
    BY <2>1 DEF Seen
  <2> QED
    BY <1>2, <2>1, <2>2, <2>3 DEF OrderInv, StreamOK, Increasing, Numbers
<1> QED
  BY <1>3, <1>4 DEF OrderInv

LEMMA OfferOrder == ASSUME BusInv, OrderInv, NEW k \in Clients, Offer(k) PROVE OrderInv'
<1>1. QueueOK'
  BY QueueKept DEF OrderInv, Offer, feedVars
<1>2. got' = got /\ event' = event /\ todo' = todo \ {k}
  BY DEF Offer, connVars
<1>3. ASSUME NEW c \in Clients PROVE StreamOK(c)'
  <2>1. CASE buf'[c] = buf[c]
    BY <1>2, <2>1, StreamKept DEF OrderInv
  <2>2. CASE buf'[c] # buf[c]
    <3>1. c = k /\ buf'[k] = Append(buf[k], event) /\ event \in Numbers /\ k \in todo
      BY <2>2 DEF BusInv, TypeOK, MapOK, Offer
    <3>2. buf[k] \in Seq(Numbers) /\ got[k] \in Seq(Numbers)
      BY DEF BusInv, TypeOK
    <3>3. /\ Len(buf'[k]) = Len(buf[k]) + 1 /\ Len(buf[k]) \in Nat
          /\ buf'[k][Len(buf[k]) + 1] = event
          /\ \A i \in 1 .. Len(buf[k]) : buf'[k][i] = buf[k][i] /\ buf[k][i] \in Numbers
          /\ \A i \in 1 .. Len(got[k]) : got[k][i] \in Numbers
      BY <3>1, <3>2
    <3>4. \A n \in Numbers : Seen(k, n) => n < event
      BY <3>1 DEF OrderInv, StreamOK, Numbers
    <3>5. /\ \A i \in 1 .. Len(buf[k]) : buf[k][i] < event
          /\ \A i \in 1 .. Len(got[k]) : got[k][i] < event
      BY <3>3, <3>4 DEF Seen
    <3>6. Increasing(buf[k])' /\ Increasing(got[k])'
      BY <1>2, <3>3, <3>5 DEF OrderInv, StreamOK, Increasing
    <3>7. (\A i \in 1 .. Len(got[k]), j \in 1 .. Len(buf[k]) : got[k][i] < buf[k][j])'
      <4>1. ASSUME NEW i \in 1 .. Len(got[k]), NEW j \in 1 .. Len(buf'[k])
            PROVE  got[k][i] < buf'[k][j]
        <5>1. CASE j \in 1 .. Len(buf[k])
          BY <3>3, <5>1 DEF OrderInv, StreamOK
        <5>2. CASE j = Len(buf[k]) + 1
          BY <3>3, <3>5, <5>2
        <5> QED
          BY <3>3, <5>1, <5>2
      <4> QED
        BY <1>2, <4>1
    <3>8. \A n \in Numbers : Seen(k, n)' => n <= event
      BY <1>2, <3>1, <3>3, <3>5 DEF Seen, Numbers
    <3> QED
      BY <1>2, <3>1, <3>6, <3>7, <3>8 DEF StreamOK
  <2> QED
    BY <2>1, <2>2
<1> QED
  BY <1>1, <1>3 DEF OrderInv

LEMMA SendOrder == ASSUME BusInv, OrderInv, NEW k \in Clients, Send(k) PROVE OrderInv'
<1>1. QueueOK'
  BY QueueKept DEF OrderInv, Send, feedVars, loopVars
<1>2. event' = event /\ todo' = todo
  BY DEF Send, loopVars
<1>3. ASSUME NEW c \in Clients PROVE StreamOK(c)'
  <2>1. CASE c # k
    <3>1. got'[c] = got[c] /\ buf'[c] = buf[c]
      BY <2>1 DEF Send, BusInv, TypeOK
    <3> QED
      BY <1>2, <3>1, StreamKept DEF OrderInv
  <2>2. CASE c = k
    <3>1. /\ buf[k] \in Seq(Numbers) /\ got[k] \in Seq(Numbers) /\ buf[k] # << >>
          /\ got'[k] = Append(got[k], buf[k][1]) /\ buf'[k] = Tail(buf[k])
      BY DEF Send, BusInv, TypeOK
    <3>2. /\ Len(buf[k]) \in Nat \ {0} /\ Len(buf'[k]) = Len(buf[k]) - 1
          /\ \A i \in 1 .. Len(buf'[k]) : buf'[k][i] = buf[k][i + 1]
          /\ \A i \in 1 .. Len(buf[k]) : buf[k][i] \in Numbers
      BY <3>1
    <3>3. /\ Len(got[k]) \in Nat /\ Len(got'[k]) = Len(got[k]) + 1
          /\ got'[k][Len(got[k]) + 1] = buf[k][1]
          /\ \A i \in 1 .. Len(got[k]) : got'[k][i] = got[k][i] /\ got[k][i] \in Numbers
      BY <3>1, <3>2
    <3>4. Increasing(buf[k])' /\ \A i \in 1 .. Len(buf'[k]) : buf[k][1] < buf'[k][i]
      BY <3>1, IncreasingTail DEF OrderInv, StreamOK
    <3>0. 1 \in 1 .. Len(buf[k]) /\ buf[k][1] \in Numbers
      BY <3>2
    <3>5. Increasing(got[k])'
      <4>1. \A i \in 1 .. Len(got[k]) : got[k][i] < buf[k][1]
        BY <3>0 DEF OrderInv, StreamOK
      <4> QED
        BY <3>0, <3>1, <4>1, IncreasingAppend DEF OrderInv, StreamOK
    <3>6. (\A i \in 1 .. Len(got[k]), j \in 1 .. Len(buf[k]) : got[k][i] < buf[k][j])'
      <4>1. ASSUME NEW i \in 1 .. Len(got'[k]), NEW j \in 1 .. Len(buf'[k])
            PROVE  got'[k][i] < buf'[k][j]
        <5>1. CASE i \in 1 .. Len(got[k])
          BY <3>2, <3>3, <5>1 DEF OrderInv, StreamOK
        <5>2. CASE i = Len(got[k]) + 1
          BY <3>3, <3>4, <5>2
        <5> QED
          BY <3>3, <5>1, <5>2
      <4> QED
        BY <4>1
    <3>7. ASSUME NEW n \in Numbers, Seen(k, n)' PROVE Seen(k, n)
      <4>1. ASSUME NEW i \in 1 .. Len(got'[k]), got'[k][i] = n PROVE Seen(k, n)
        <5>1. CASE i \in 1 .. Len(got[k])
          BY <3>3, <4>1, <5>1 DEF Seen
        <5>2. CASE i = Len(got[k]) + 1
          BY <3>0, <3>3, <4>1, <5>2 DEF Seen
        <5> QED
          BY <3>3, <5>1, <5>2
      <4>2. ASSUME NEW i \in 1 .. Len(buf'[k]), buf'[k][i] = n PROVE Seen(k, n)
        <5>1. i + 1 \in 1 .. Len(buf[k]) /\ buf[k][i + 1] = n
          BY <3>2, <4>2
        <5> QED
          BY <5>1 DEF Seen
      <4> QED
        BY <3>7, <4>1, <4>2 DEF Seen
    <3> QED
      BY <1>2, <2>2, <3>4, <3>5, <3>6, <3>7 DEF OrderInv, StreamOK
  <2> QED
    BY <2>1, <2>2
<1> QED
  BY <1>1, <1>3 DEF OrderInv

(* A request whose buffer is empty, or emptied, and that has been sent     *)
(* what it had, or nothing.                                                *)
LEMMA StreamReset ==
  ASSUME BusInv, NEW k \in Clients, StreamOK(k), buf'[k] = << >>,
         got'[k] = got[k] \/ got'[k] = << >>, event' = event, todo' = todo
  PROVE  StreamOK(k)'
<1>1. got[k] \in Seq(Numbers)
  BY DEF BusInv, TypeOK
<1>2. \A n \in Numbers : Seen(k, n)' => Seen(k, n)
  BY <1>1 DEF Seen
<1>3. Increasing(got[k])' /\ Increasing(buf[k])'
  BY DEF StreamOK, Increasing
<1> QED
  BY <1>2, <1>3 DEF StreamOK

LEMMA ResetOrder ==
  ASSUME BusInv, OrderInv, NEW k \in Clients, Request(k) \/ ReturnSlot(k)
  PROVE  OrderInv'
<1>1. QueueOK'
  BY QueueKept DEF OrderInv, Request, ReturnSlot, feedVars, loopVars
<1>2. event' = event /\ todo' = todo
  BY DEF Request, ReturnSlot, loopVars
<1>3. buf'[k] = << >> /\ (got'[k] = got[k] \/ got'[k] = << >>)
  BY DEF BusInv, TypeOK, MapOK, Request, ReturnSlot
<1>4. \A c \in Clients \ {k} : buf'[c] = buf[c] /\ got'[c] = got[c]
  BY DEF BusInv, TypeOK, Request, ReturnSlot
<1>5. ASSUME NEW c \in Clients PROVE StreamOK(c)'
  <2>1. CASE c = k
    BY <1>2, <1>3, <2>1, StreamReset DEF OrderInv
  <2>2. CASE c # k
    BY <1>2, <1>4, <2>2, StreamKept DEF OrderInv
  <2> QED
    BY <2>1, <2>2
<1> QED
  BY <1>1, <1>5 DEF OrderInv

LEMMA OrderStep == BusInv /\ OrderInv /\ [Next]_vars => OrderInv'
<1> SUFFICES ASSUME BusInv, OrderInv, [Next]_vars PROVE OrderInv'
  OBVIOUS
<1>1. ASSUME got' = got, buf' = buf, event' = event, todo' = todo, inbox' = inbox,
             published' = published
      PROVE  OrderInv'
  BY <1>1, AllStreamsKept, QueueKept DEF OrderInv
<1>2. CASE Publish
  BY <1>2, PublishOrder
<1>3. CASE Link \/ Unlink \/ Signal \/ Shutdown \/ MainExit \/ ServeFails \/ UNCHANGED vars
  BY <1>1, <1>3 DEF Link, Unlink, Signal, Shutdown, CancelBus, CloseAll, StopAccepting,
     FinishShutdown, ShutdownTimeout, MainExit, ServeFails, vars, feedVars, loopVars, connVars
<1>4. CASE Listener
  <2>1. CASE Take
    BY <2>1, TakeOrder
  <2>2. ASSUME NEW k \in Clients, Offer(k) PROVE OrderInv'
    BY <2>2, OfferOrder
  <2>3. CASE Unlock \/ StopListener
    BY <1>1, <2>3 DEF Unlock, StopListener, feedVars, connVars
  <2> QED
    BY <1>4, <2>1, <2>2, <2>3 DEF Listener
<1>5. ASSUME NEW k \in Clients, Request(k) \/ Handler(k) \/ GoAway(k) PROVE OrderInv'
  <2>1. CASE Request(k) \/ ReturnSlot(k)
    BY <2>1, ResetOrder
  <2>2. CASE Send(k)
    BY <2>2, SendOrder
  <2>3. CASE Subscribe(k) \/ Leave(k) \/ Unsubscribe(k) \/ GoAway(k)
    BY <1>1, <2>3 DEF Subscribe, Leave, Unsubscribe, GoAway, feedVars, loopVars
  <2> QED
    BY <1>5, <2>1, <2>2, <2>3 DEF Handler
<1> QED
  BY <1>2, <1>3, <1>4, <1>5 DEF Next

LEMMA OrderInit == Init => OrderInv
  BY BusAssumption DEF Init, OrderInv, QueueOK, StreamOK, Seen, Increasing

LEMMA OrderInvCorrect == Spec => []OrderInv
<1>1. BusInv /\ OrderInv /\ [Next]_vars => OrderInv'
  BY OrderStep
<1> QED
  BY <1>1, OrderInit, BusInvCorrect, PTL DEF Spec

LEMMA IncreasingConcat ==
  ASSUME NEW s \in Seq(Numbers), NEW t \in Seq(Numbers), Increasing(s), Increasing(t),
         \A i \in 1 .. Len(s), j \in 1 .. Len(t) : s[i] < t[j]
  PROVE  Increasing(s \o t)
<1>1. /\ Len(s \o t) = Len(s) + Len(t) /\ Len(s) \in Nat /\ Len(t) \in Nat
      /\ \A i \in 1 .. Len(s) + Len(t) :
           (s \o t)[i] = IF i <= Len(s) THEN s[i] ELSE t[i - Len(s)]
  OBVIOUS
<1> SUFFICES ASSUME NEW i \in 1 .. Len(s \o t), NEW j \in 1 .. Len(s \o t), i < j
             PROVE  (s \o t)[i] < (s \o t)[j]
  BY DEF Increasing
<1>2. CASE j <= Len(s)
  BY <1>1, <1>2 DEF Increasing
<1>3. CASE i <= Len(s) /\ j > Len(s)
  BY <1>1, <1>3
<1>4. CASE i > Len(s)
  BY <1>1, <1>4 DEF Increasing
<1> QED
  BY <1>1, <1>2, <1>3, <1>4

(* A client sees events in the order of their publication, none twice.     *)
THEOREM FeedInOrderCorrect == Spec => []FeedInOrder
<1>1. BusInv /\ OrderInv => FeedInOrder
  BY IncreasingConcat DEF BusInv, TypeOK, OrderInv, StreamOK, FeedInOrder
<1> QED
  BY <1>1, BusInvCorrect, OrderInvCorrect, PTL

-----------------------------------------------------------------------------
(* The gaps of the feed.  Everything published is distributed, waiting or  *)
(* lost, and a subscriber that has seen an event has seen every later one  *)
(* that was offered to it, or that one was lost or dropped.                *)

QueueComplete ==
  \A n \in Numbers : n <= published =>
    n <= event \/ n \in lost \/ (\E i \in 1 .. Len(inbox) : inbox[i] = n)

Covered(k, n) == Seen(k, n) \/ n \in lost \/ n \in dropped[k]

GapOK(k) ==
  /\ pc[k] = "slot" => got[k] = << >>
  /\ \A m, n, x \in Numbers : Seen(k, m) /\ Seen(k, n) /\ m <= x /\ x <= n => Covered(k, x)
  /\ k \in subs =>
       \A m, x \in Numbers :
         Seen(k, m) /\ m <= x /\ x <= event /\ (x = event => k \notin todo) => Covered(k, x)

GapInv == QueueComplete /\ \A k \in Clients : GapOK(k)

LEMMA GapStable ==
  ASSUME NEW k \in Clients, GapOK(k), got'[k] = got[k], buf'[k] = buf[k], event' = event,
         k \in todo => k \in todo', lost \subseteq lost', dropped[k] \subseteq dropped'[k],
         k \in subs' => k \in subs, pc'[k] = "slot" => pc[k] = "slot"
  PROVE  GapOK(k)'
<1>1. \A n \in Numbers : (Seen(k, n)' <=> Seen(k, n)) /\ (Covered(k, n) => Covered(k, n)')
  BY DEF Seen, Covered
<1> QED
  BY <1>1 DEF GapOK

LEMMA AllGapsStable ==
  ASSUME GapInv, got' = got, buf' = buf, event' = event, todo' = todo, subs' \subseteq subs,
         lost \subseteq lost', dropped' = dropped,
         \A k \in Clients : pc'[k] = "slot" => pc[k] = "slot"
  PROVE  \A k \in Clients : GapOK(k)'
  BY GapStable DEF GapInv

LEMMA QueueStable ==
  ASSUME QueueComplete, UNCHANGED <<published, event, lost, inbox>>
  PROVE  QueueComplete'
  BY DEF QueueComplete

LEMMA PublishGaps == ASSUME BusInv, GapInv, Publish PROVE GapInv'
<1>1. /\ published \in Nat /\ published' = published + 1 /\ event' = event
      /\ inbox \in Seq(Numbers) /\ lost \subseteq lost'
  BY DEF BusInv, TypeOK, Publish, loopVars
<1>2. QueueComplete'
  <2>1. CASE linked
    <3>1. inbox' = Append(inbox, published + 1) /\ lost' = lost
      BY <2>1 DEF Publish
    <3>2. /\ Len(inbox) \in Nat /\ Len(inbox') = Len(inbox) + 1
          /\ inbox'[Len(inbox) + 1] = published + 1
          /\ \A i \in 1 .. Len(inbox) : inbox'[i] = inbox[i]
      BY <1>1, <3>1
    <3>3. \A n \in Numbers : n <= published + 1 => n <= published \/ n = published + 1
      BY <1>1 DEF Numbers
    <3> QED
      BY <1>1, <3>1, <3>2, <3>3 DEF GapInv, QueueComplete
  <2>2. CASE ~linked
    <3>1. inbox' = inbox /\ lost' = lost \cup {published + 1}
      BY <2>2 DEF Publish
    <3>2. \A n \in Numbers : n <= published + 1 => n <= published \/ n = published + 1
      BY <1>1 DEF Numbers
    <3> QED
      BY <1>1, <3>1, <3>2 DEF GapInv, QueueComplete
  <2> QED
    BY <2>1, <2>2
<1>3. \A k \in Clients : GapOK(k)'
  BY <1>1, AllGapsStable DEF Publish, loopVars, connVars
<1> QED
  BY <1>2, <1>3 DEF GapInv

LEMMA TakeGaps == ASSUME BusInv, OrderInv, GapInv, Take PROVE GapInv'
<1>1. /\ inbox \in Seq(Numbers) /\ inbox # << >> /\ event' = inbox[1] /\ inbox' = Tail(inbox)
      /\ event \in Nat /\ published \in Nat /\ todo = {} /\ todo' = subs /\ subs' = subs
      /\ published' = published /\ lost' = lost /\ dropped' = dropped /\ got' = got /\ buf' = buf
      /\ pc' = pc
  BY DEF BusInv, TypeOK, MapOK, Take, Locked, connVars
<1>2. /\ Len(inbox) \in Nat \ {0} /\ Len(inbox') = Len(inbox) - 1
      /\ \A i \in 1 .. Len(inbox') : inbox'[i] = inbox[i + 1]
      /\ \A i \in 1 .. Len(inbox) : inbox[i] \in Numbers
  BY <1>1
<1>3. inbox[1] \in Numbers /\ event < inbox[1] /\ inbox[1] <= published
  BY <1>2 DEF OrderInv, QueueOK
<1>4. \A n \in Numbers : (\E i \in 1 .. Len(inbox) : inbox[i] = n) =>
                           n = inbox[1] \/ \E i \in 1 .. Len(inbox') : inbox'[i] = n
  <2> SUFFICES ASSUME NEW i \in 1 .. Len(inbox), i # 1
               PROVE  \E j \in 1 .. Len(inbox') : inbox'[j] = inbox[i]
    OBVIOUS
  <2>1. i - 1 \in 1 .. Len(inbox') /\ inbox'[i - 1] = inbox[i]
    BY <1>2
  <2> QED
    BY <2>1
<1>5. QueueComplete'
  BY <1>1, <1>3, <1>4 DEF GapInv, QueueComplete, Numbers
<1>6. \A i \in 1 .. Len(inbox) : inbox[1] <= inbox[i]
  BY <1>2 DEF OrderInv, QueueOK, Increasing, Numbers
<1>7. \A x \in Numbers : event < x /\ x < inbox[1] => x \in lost
  BY <1>1, <1>2, <1>3, <1>6 DEF GapInv, QueueComplete, Numbers
<1>8. ASSUME NEW k \in Clients PROVE GapOK(k)'
  <2>1. \A n \in Numbers : (Seen(k, n)' <=> Seen(k, n)) /\ (Covered(k, n)' <=> Covered(k, n))
    BY <1>1 DEF Seen, Covered
  <2>2. ASSUME k \in subs, NEW m \in Numbers, NEW x \in Numbers,
               Seen(k, m), m <= x, x <= inbox[1], x = inbox[1] => k \notin todo'
        PROVE  Covered(k, x)
    <3>1. CASE x <= event
      BY <1>1, <2>2, <3>1 DEF GapInv, GapOK
    <3>2. CASE event < x
      BY <1>1, <1>3, <1>7, <2>2, <3>2 DEF Covered, Numbers
    <3> QED
      BY <1>1, <3>1, <3>2 DEF Numbers
  <2> QED
    BY <1>1, <2>1, <2>2 DEF GapInv, GapOK
<1> QED
  BY <1>5, <1>8 DEF GapInv

LEMMA OfferGaps == ASSUME BusInv, OrderInv, GapInv, NEW k \in Clients, Offer(k) PROVE GapInv'
<1>1. /\ got' = got /\ event' = event /\ todo' = todo \ {k} /\ subs' = subs /\ pc' = pc
      /\ lost' = lost /\ published' = published /\ inbox' = inbox
  BY DEF Offer, connVars, feedVars
<1>2. QueueComplete'
  BY <1>1, QueueStable DEF GapInv
<1>3. k \in subs /\ k \in todo /\ event \in Numbers /\ buf[k] \in Seq(Numbers) /\ dropped \in [Clients -> SUBSET Numbers]
      /\ buf \in [Clients -> Seq(Numbers)]
  BY DEF BusInv, TypeOK, MapOK, Offer
<1>4. ASSUME NEW c \in Clients, c # k PROVE GapOK(c)'
  <2>1. buf'[c] = buf[c] /\ dropped'[c] = dropped[c]
    BY <1>3, <1>4 DEF Offer
  <2> QED
    BY <1>1, <1>4, <2>1, GapStable DEF GapInv
<1>5. \A n \in Numbers : (Seen(k, n) => n < event)
  BY <1>3 DEF OrderInv, StreamOK, Numbers
<1>6. GapOK(k)'
  <2>1. /\ \A n \in Numbers : Seen(k, n)' => Seen(k, n) \/ n = event
        /\ \A n \in Numbers : Covered(k, n) => Covered(k, n)'
        /\ Covered(k, event)'
    <3>1. CASE buf' = [buf EXCEPT ![k] = Append(@, event)] /\ dropped' = dropped
      <4>1. buf'[k] = Append(buf[k], event)
        BY <1>3, <3>1
      <4>2. /\ Len(buf[k]) \in Nat /\ Len(buf'[k]) = Len(buf[k]) + 1
            /\ buf'[k][Len(buf[k]) + 1] = event
            /\ \A i \in 1 .. Len(buf[k]) : buf'[k][i] = buf[k][i]
        BY <1>3, <4>1
      <4>3. \A n \in Numbers : Seen(k, n)' <=> Seen(k, n) \/ n = event
        BY <1>1, <4>2 DEF Seen
      <4> QED
        BY <1>1, <1>3, <3>1, <4>3 DEF Covered
    <3>2. CASE dropped' = [dropped EXCEPT ![k] = @ \cup {event}] /\ buf' = buf
      <4>1. dropped'[k] = dropped[k] \cup {event}
        BY <1>3, <3>2
      <4>2. \A n \in Numbers : Seen(k, n)' <=> Seen(k, n)
        BY <1>1, <3>2 DEF Seen
      <4> QED
        BY <1>1, <1>3, <4>1, <4>2 DEF Covered
    <3> QED
      BY <3>1, <3>2 DEF Offer
  <2>2. ASSUME NEW m \in Numbers, NEW x \in Numbers, Seen(k, m)', m <= x, x <= event
        PROVE  Covered(k, x)'
    <3>1. CASE x = event
      BY <1>1, <2>1, <3>1 DEF Covered, Seen
    <3>2. CASE x # event
      <4>1. Seen(k, m)
        BY <1>3, <2>1, <2>2, <3>2 DEF Numbers
      <4>2. Covered(k, x)
        BY <1>3, <2>2, <3>2, <4>1 DEF GapInv, GapOK
      <4> QED
        BY <2>1, <4>2
    <3> QED
      BY <3>1, <3>2
  <2>3. \A n \in Numbers : Seen(k, n)' => n <= event
    BY <1>3, <1>5, <2>1 DEF Numbers
  <2>4. \A m, n, x \in Numbers : Seen(k, m)' /\ Seen(k, n)' /\ m <= x /\ x <= n => Covered(k, x)'
    BY <1>3, <2>2, <2>3 DEF Numbers
  <2>5. (pc[k] = "slot" => got[k] = << >>)'
    BY <1>1 DEF GapInv, GapOK
  <2> QED
    BY <1>1, <2>2, <2>4, <2>5 DEF GapOK
<1> QED
  BY <1>2, <1>4, <1>6 DEF GapInv

LEMMA SendGaps == ASSUME BusInv, GapInv, NEW k \in Clients, Send(k) PROVE GapInv'
<1>1. /\ event' = event /\ todo' = todo /\ subs' = subs /\ pc' = pc /\ dropped' = dropped
      /\ lost' = lost /\ published' = published /\ inbox' = inbox
  BY DEF Send, loopVars, feedVars
<1>2. QueueComplete'
  BY <1>1, QueueStable DEF GapInv
<1>3. ASSUME NEW c \in Clients, c # k PROVE GapOK(c)'
  <2>1. got'[c] = got[c] /\ buf'[c] = buf[c]
    BY <1>3 DEF Send, BusInv, TypeOK
  <2> QED
    BY <1>1, <2>1, GapStable DEF GapInv
<1>4. GapOK(k)'
  <2>1. /\ buf[k] \in Seq(Numbers) /\ got[k] \in Seq(Numbers) /\ buf[k] # << >>
        /\ got'[k] = Append(got[k], buf[k][1]) /\ buf'[k] = Tail(buf[k]) /\ pc[k] = "stream"
    BY DEF Send, BusInv, TypeOK
  <2>2. /\ Len(buf[k]) \in Nat \ {0} /\ Len(buf'[k]) = Len(buf[k]) - 1
        /\ \A i \in 1 .. Len(buf'[k]) : buf'[k][i] = buf[k][i + 1]
    BY <2>1
  <2>3. /\ Len(got[k]) \in Nat /\ Len(got'[k]) = Len(got[k]) + 1
        /\ got'[k][Len(got[k]) + 1] = buf[k][1]
        /\ \A i \in 1 .. Len(got[k]) : got'[k][i] = got[k][i]
    BY <2>1, <2>2
  <2>4. ASSUME NEW n \in Numbers, Seen(k, n)' PROVE Seen(k, n)
    <3>1. ASSUME NEW i \in 1 .. Len(got'[k]), got'[k][i] = n PROVE Seen(k, n)
      <4>1. CASE i \in 1 .. Len(got[k])
        BY <2>3, <3>1, <4>1 DEF Seen
      <4>2. CASE i = Len(got[k]) + 1
        BY <2>2, <2>3, <3>1, <4>2 DEF Seen
      <4> QED
        BY <2>3, <4>1, <4>2
    <3>2. ASSUME NEW i \in 1 .. Len(buf'[k]), buf'[k][i] = n PROVE Seen(k, n)
      <4>1. i + 1 \in 1 .. Len(buf[k]) /\ buf[k][i + 1] = n
        BY <2>2, <3>2
      <4> QED
        BY <4>1 DEF Seen
    <3> QED
      BY <2>4, <3>1, <3>2 DEF Seen
  <2>5. ASSUME NEW n \in Numbers, Seen(k, n) PROVE Seen(k, n)'
    <3>1. ASSUME NEW i \in 1 .. Len(got[k]), got[k][i] = n PROVE Seen(k, n)'
      <4>1. i \in 1 .. Len(got'[k]) /\ got'[k][i] = n
        BY <2>3, <3>1
      <4> QED
        BY <4>1 DEF Seen
    <3>2. ASSUME NEW i \in 1 .. Len(buf[k]), buf[k][i] = n PROVE Seen(k, n)'
      <4>1. CASE i = 1
        <5>1. Len(got[k]) + 1 \in 1 .. Len(got'[k]) /\ got'[k][Len(got[k]) + 1] = n
          BY <2>3, <3>2, <4>1
        <5> QED
          BY <5>1 DEF Seen
      <4>2. CASE i # 1
        <5>1. i - 1 \in 1 .. Len(buf'[k]) /\ buf'[k][i - 1] = n
          BY <2>2, <3>2, <4>2
        <5> QED
          BY <5>1 DEF Seen
      <4> QED
        BY <4>1, <4>2
    <3> QED
      BY <2>5, <3>1, <3>2 DEF Seen
  <2>6. \A n \in Numbers : Covered(k, n)' <=> Covered(k, n)
    BY <1>1, <2>4, <2>5 DEF Covered
  <2> QED
    BY <1>1, <2>1, <2>4, <2>6 DEF GapInv, GapOK
<1> QED
  BY <1>2, <1>3, <1>4 DEF GapInv

LEMMA ResetGaps ==
  ASSUME BusInv, OrderInv, GapInv, NEW k \in Clients, Request(k) \/ Subscribe(k) \/ ReturnSlot(k)
  PROVE  GapInv'
<1>1. /\ event' = event /\ todo' = todo /\ dropped' = dropped
      /\ lost' = lost /\ published' = published /\ inbox' = inbox
  BY DEF Request, Subscribe, ReturnSlot, loopVars, feedVars
<1>2. QueueComplete'
  BY <1>1, QueueStable DEF GapInv
<1>3. ASSUME NEW c \in Clients, c # k PROVE GapOK(c)'
  <2>1. got'[c] = got[c] /\ buf'[c] = buf[c] /\ pc'[c] = pc[c] /\ (c \in subs' => c \in subs)
    BY <1>3 DEF Request, Subscribe, ReturnSlot, BusInv, TypeOK
  <2> QED
    BY <1>1, <2>1, GapStable DEF GapInv
<1>4. CASE Request(k) \/ Subscribe(k)
  <2>1. buf'[k] = << >> /\ got'[k] = << >>
    BY <1>4 DEF Request, Subscribe, BusInv, TypeOK, MapOK, GapInv, GapOK, Idle
  <2>2. \A n \in Numbers : ~Seen(k, n)'
    BY <2>1 DEF Seen
  <2> QED
    BY <1>2, <1>3, <2>1, <2>2 DEF GapInv, GapOK
<1>5. CASE ReturnSlot(k)
  <2>1. /\ buf'[k] = << >> /\ got'[k] = got[k] /\ pc'[k] = "off" /\ k \notin subs'
        /\ buf[k] \in Seq(Numbers) /\ got[k] \in Seq(Numbers)
    BY <1>5 DEF ReturnSlot, BusInv, TypeOK, MapOK
  <2>2. ASSUME NEW m \in Numbers, NEW n \in Numbers, NEW x \in Numbers,
               Seen(k, m)', Seen(k, n)', m <= x, x <= n
        PROVE  Covered(k, x)'
    <3>1. PICK i \in 1 .. Len(got[k]) : got[k][i] = n
      BY <2>1, <2>2 DEF Seen
    <3>2. Seen(k, m) /\ Seen(k, n)
      BY <2>1, <2>2 DEF Seen
    <3>3. Covered(k, x)
      BY <2>2, <3>2 DEF GapInv, GapOK
    <3>4. \A j \in 1 .. Len(buf[k]) : n < buf[k][j]
      BY <3>1 DEF OrderInv, StreamOK
    <3>5. ASSUME NEW j \in 1 .. Len(buf[k]) PROVE buf[k][j] # x
      <4>1. buf[k][j] \in Numbers
        BY <2>1
      <4> QED
        BY <2>2, <3>4, <4>1 DEF Numbers
    <3> QED
      BY <1>1, <2>1, <3>3, <3>5 DEF Covered, Seen
  <2>3. GapOK(k)'
    BY <2>1, <2>2 DEF GapOK
  <2> QED
    BY <1>2, <1>3, <2>3 DEF GapInv
<1> QED
  BY <1>4, <1>5

LEMMA GapStep == BusInv /\ OrderInv /\ GapInv /\ [Next]_vars => GapInv'
<1> SUFFICES ASSUME BusInv, OrderInv, GapInv, [Next]_vars PROVE GapInv'
  OBVIOUS
<1>1. ASSUME UNCHANGED <<published, inbox, lost, event, todo, dropped, buf, got>>,
             subs' \subseteq subs, \A k \in Clients : pc'[k] = "slot" => pc[k] = "slot"
      PROVE  GapInv'
  BY <1>1, AllGapsStable, QueueStable DEF GapInv
<1>2. CASE Publish
  BY <1>2, PublishGaps
<1>3. CASE Link \/ Unlink \/ Signal \/ Shutdown \/ MainExit \/ ServeFails \/ UNCHANGED vars
  BY <1>1, <1>3 DEF Link, Unlink, Signal, Shutdown, CancelBus, CloseAll, StopAccepting,
     FinishShutdown, ShutdownTimeout, MainExit, ServeFails, vars, feedVars, loopVars, connVars
<1>4. CASE Listener
  <2>1. CASE Take
    BY <2>1, TakeGaps
  <2>2. ASSUME NEW k \in Clients, Offer(k) PROVE GapInv'
    BY <2>2, OfferGaps
  <2>3. CASE Unlock \/ StopListener
    BY <1>1, <2>3 DEF Unlock, StopListener, feedVars, connVars
  <2> QED
    BY <1>4, <2>1, <2>2, <2>3 DEF Listener
<1>5. ASSUME NEW k \in Clients, Request(k) \/ Handler(k) \/ GoAway(k) PROVE GapInv'
  <2>1. CASE Request(k) \/ Subscribe(k) \/ ReturnSlot(k)
    BY <2>1, ResetGaps
  <2>2. CASE Send(k)
    BY <2>2, SendGaps
  <2>3. CASE Leave(k) \/ Unsubscribe(k) \/ GoAway(k)
    <3>1. \A c \in Clients : pc'[c] = "slot" => pc[c] = "slot"
      BY <2>3 DEF Leave, Unsubscribe, GoAway, BusInv, TypeOK
    <3> QED
      BY <1>1, <2>3, <3>1 DEF Leave, Unsubscribe, GoAway, feedVars, loopVars
  <2> QED
    BY <1>5, <2>1, <2>2, <2>3 DEF Handler
<1> QED
  BY <1>2, <1>3, <1>4, <1>5 DEF Next

LEMMA GapInit == Init => GapInv
  BY DEF Init, GapInv, QueueComplete, GapOK, Seen, Numbers

LEMMA GapInvCorrect == Spec => []GapInv
<1>1. BusInv /\ OrderInv /\ GapInv /\ [Next]_vars => GapInv'
  BY GapStep
<1> QED
  BY <1>1, GapInit, BusInvCorrect, OrderInvCorrect, PTL DEF Spec

LEMMA Concatenation ==
  ASSUME NEW s \in Seq(Numbers), NEW t \in Seq(Numbers)
  PROVE  /\ DOMAIN (s \o t) = 1 .. Len(s \o t) /\ Len(s \o t) = Len(s) + Len(t)
         /\ \A i \in 1 .. Len(s) : i \in 1 .. Len(s \o t) /\ (s \o t)[i] = s[i]
         /\ \A i \in 1 .. Len(t) : Len(s) + i \in 1 .. Len(s \o t) /\ (s \o t)[Len(s) + i] = t[i]
         /\ \A i \in 1 .. Len(s \o t) :
              (\E j \in 1 .. Len(s) : (s \o t)[i] = s[j]) \/ (\E j \in 1 .. Len(t) : (s \o t)[i] = t[j])
<1>1. /\ Len(s \o t) = Len(s) + Len(t) /\ Len(s) \in Nat /\ Len(t) \in Nat
      /\ \A i \in 1 .. Len(s) + Len(t) :
           (s \o t)[i] = IF i <= Len(s) THEN s[i] ELSE t[i - Len(s)]
  OBVIOUS
<1>2. DOMAIN (s \o t) = 1 .. Len(s \o t)
  OBVIOUS
<1>3. \A i \in 1 .. Len(s) : i \in 1 .. Len(s \o t) /\ (s \o t)[i] = s[i]
  BY <1>1
<1>4. ASSUME NEW i \in 1 .. Len(t)
      PROVE  Len(s) + i \in 1 .. Len(s \o t) /\ (s \o t)[Len(s) + i] = t[i]
  <2>1. Len(s) + i \in 1 .. Len(s) + Len(t) /\ ~(Len(s) + i <= Len(s)) /\ Len(s) + i - Len(s) = i
    BY <1>1
  <2> QED
    BY <1>1, <2>1
<1>5. ASSUME NEW i \in 1 .. Len(s \o t)
      PROVE  (\E j \in 1 .. Len(s) : (s \o t)[i] = s[j]) \/ (\E j \in 1 .. Len(t) : (s \o t)[i] = t[j])
  <2>1. CASE i <= Len(s)
    BY <1>1, <2>1
  <2>2. CASE i > Len(s)
    <3>1. i - Len(s) \in 1 .. Len(t) /\ (s \o t)[i] = t[i - Len(s)]
      BY <1>1, <2>2
    <3> QED
      BY <3>1
  <2> QED
    BY <1>1, <2>1, <2>2
<1> QED
  BY <1>1, <1>2, <1>3, <1>4, <1>5

LEMMA GapsAreCovered ==
  ASSUME BusInv, GapInv, NEW k \in Clients, got[k] \o buf[k] # << >>
  PROVE  LET s == got[k] \o buf[k] IN
           s[1] .. s[Len(s)] \subseteq Range(s) \cup lost \cup dropped[k]
<1> DEFINE s == got[k] \o buf[k]
<1>1. got[k] \in Seq(Numbers) /\ buf[k] \in Seq(Numbers) /\ s \in Seq(Numbers)
  BY DEF BusInv, TypeOK
<1>2. \A i \in 1 .. Len(s) : s[i] \in Numbers /\ Seen(k, s[i])
  <2>1. \A i \in 1 .. Len(s) : s[i] \in Numbers
    <3> HIDE DEF s
    <3> QED
      BY <1>1
  <2> QED
    BY <1>1, <2>1, Concatenation DEF Seen
<1>3. ASSUME NEW n \in Numbers, Seen(k, n) PROVE n \in Range(s)
  <2>1. \E i \in 1 .. Len(s) : s[i] = n
    <3>1. ASSUME NEW i \in 1 .. Len(got[k]), got[k][i] = n PROVE \E j \in 1 .. Len(s) : s[j] = n
      <4>1. i \in 1 .. Len(s) /\ s[i] = n
        BY <1>1, <3>1, Concatenation
      <4> QED
        BY <4>1
    <3>2. ASSUME NEW i \in 1 .. Len(buf[k]), buf[k][i] = n PROVE \E j \in 1 .. Len(s) : s[j] = n
      <4>1. Len(got[k]) + i \in 1 .. Len(s) /\ s[Len(got[k]) + i] = n
        BY <1>1, <3>2, Concatenation
      <4> QED
        BY <4>1
    <3> QED
      BY <1>3, <3>1, <3>2 DEF Seen
  <2>2. DOMAIN s = 1 .. Len(s)
    BY <1>1, Concatenation
  <2> QED
    BY <2>1, <2>2 DEF Range
<1>4. Len(s) \in Nat \ {0}
  <2>1. s # << >>
    OBVIOUS
  <2> HIDE DEF s
  <2> QED
    BY <1>1, <2>1
<1>5. 1 \in 1 .. Len(s) /\ Len(s) \in 1 .. Len(s)
  <2> HIDE DEF s
  <2> QED
    BY <1>4
<1> SUFFICES ASSUME NEW x \in s[1] .. s[Len(s)] PROVE x \in Range(s) \cup lost \cup dropped[k]
  OBVIOUS
<1> HIDE DEF s
<1>6. /\ s[1] \in Numbers /\ Seen(k, s[1]) /\ s[Len(s)] \in Numbers /\ Seen(k, s[Len(s)])
  BY <1>2, <1>5
<1>7. x \in Numbers /\ s[1] <= x /\ x <= s[Len(s)]
  BY <1>6, BusAssumption DEF Numbers
<1>8. Covered(k, x)
  BY <1>6, <1>7 DEF GapInv, GapOK
<1> QED
  BY <1>3, <1>7, <1>8 DEF Covered

(* Between the first and the last event a client is given, each is given   *)
(* to it too, was lost with the link or met its full buffer.               *)
THEOREM FeedGaplessCorrect == Spec => []FeedGapless
<1>1. BusInv /\ GapInv => FeedGapless
  BY GapsAreCovered DEF FeedGapless
<1> QED
  BY <1>1, BusInvCorrect, GapInvCorrect, PTL
=============================================================================
