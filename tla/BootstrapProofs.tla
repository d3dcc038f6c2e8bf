--------------------------- MODULE BootstrapProofs ---------------------------
(***************************************************************************)
(* Proofs about Bootstrap: for any processes, delays, faults and losses,   *)
(* the connection loop ends in time and nobody passes EnsureTable without  *)
(* a table.                                                                *)
(***************************************************************************)
EXTENDS Bootstrap, TLAPS

(* Only the loop itself advances its clock.                                *)
ClockInv ==
  \A p \in Procs :
    /\ pc[p] = "sleep" => elapsed[p] <= MaxElapsed
    /\ pc[p] = "dial" => elapsed[p] <= MaxElapsed + MaxBackoff
    /\ pc[p] \in {"describe", "create", "wait", "group", "ready"} => elapsed[p] = 0

BootInv == TypeOK /\ ClockInv /\ ConnectBounded /\ PassedMeansTable

LEMMA Places ==
  \A p \in Procs :
    /\ First(p) \in {"describe", "dial"} /\ (p \in TableUsers => First(p) = "describe")
    /\ AfterTable(p) \in {"group", "dial", "ready"}
BY DEF First, AfterTable

LEMMA InitInv == Init => BootInv
<1> SUFFICES ASSUME Init PROVE BootInv
  OBVIOUS
<1>1. TypeOK
  <2>1. pc \in [Procs -> {"describe", "create", "wait", "exited"} \cup Passed]
    <3>1. \A p \in Procs : First(p) \in {"describe", "create", "wait", "exited"} \cup Passed
      BY Places DEF Passed
    <3>2. pc = [p \in Procs |-> First(p)]
      BY DEF Init
    <3> QED
      BY <3>1, <3>2
  <2>2. backoff \in [Procs -> 1 .. MaxBackoff] /\ elapsed \in [Procs -> Nat]
    <3>1. 1 \in 1 .. MaxBackoff
      BY BootAssumption
    <3>2. backoff = [p \in Procs |-> 1] /\ elapsed = [p \in Procs |-> 0]
      BY DEF Init
    <3> QED
      BY <3>1, <3>2
  <2>3. kafka \in BOOLEAN /\ dynamo \in BOOLEAN /\ flaps \in 0 .. MaxFlaps /\ losses \in 0 .. MaxLosses
    <3>1. 0 \in 0 .. MaxFlaps /\ 0 \in 0 .. MaxLosses
      BY BootAssumption
    <3>2. kafka = FALSE /\ dynamo = FALSE /\ flaps = 0 /\ losses = 0
      BY DEF Init
    <3> QED
      BY <3>1, <3>2
  <2>4. stopping \subseteq Procs /\ table \in {"none", "creating", "active"}
    BY DEF Init
  <2> QED
    BY <2>1, <2>2, <2>3, <2>4 DEF TypeOK
<1>2. ClockInv
  BY BootAssumption DEF Init, ClockInv
<1>3. ConnectBounded
  <2>1. \A p \in Procs : elapsed[p] <= MaxElapsed + MaxBackoff + 0
    BY BootAssumption DEF Init
  <2> QED
    BY <2>1 DEF ConnectBounded
<1>4. PassedMeansTable
  <2>1. \A p \in TableUsers : pc[p] = "describe"
    BY Places, BootAssumption DEF Init
  <2> QED
    BY <2>1 DEF PassedMeansTable, Passed
<1> QED
  BY <1>1, <1>2, <1>3, <1>4 DEF BootInv

-----------------------------------------------------------------------------
(* The processes.                                                          *)

(* A step that moves p and leaves its clock and its delay alone.           *)
Moves(p, l) ==
  /\ pc' = [pc EXCEPT ![p] = l] /\ UNCHANGED <<backoff, elapsed>>

LEMMA MoveStep ==
  ASSUME BootInv, NEW p \in Procs, NEW l \in {"describe", "create", "wait", "exited"} \cup Passed,
         Moves(p, l),
         elapsed[p] = 0 \/ l = "exited"
  PROVE  /\ pc' \in [Procs -> {"describe", "create", "wait", "exited"} \cup Passed]
         /\ ClockInv' /\ ConnectBounded'
<1>1. pc' \in [Procs -> {"describe", "create", "wait", "exited"} \cup Passed]
  BY DEF BootInv, TypeOK, Moves
<1>2. ClockInv'
  BY BootAssumption DEF BootInv, TypeOK, ClockInv, Moves
<1>3. ConnectBounded'
  BY DEF BootInv, ConnectBounded, Moves
<1> QED
  BY <1>1, <1>2, <1>3

LEMMA TableStep ==
  ASSUME BootInv, NEW p \in Procs, Describe(p) \/ Create(p) \/ Wait(p) \/ Group(p)
  PROVE  BootInv'
<1>1. PICK l \in {"create", "wait", "exited"} \cup Passed :
        /\ pc' = [pc EXCEPT ![p] = l]
        /\ l \in Passed => pc[p] \in Passed \/ table # "none"
  BY Places DEF Describe, Create, Wait, Group, Goes, Passed
<1>2. UNCHANGED <<backoff, elapsed, stopping, kafka, dynamo, flaps, losses>> /\ elapsed[p] = 0
  BY DEF Describe, Create, Wait, Group, serviceVars, BootInv, ClockInv
<1>3. table' \in {"none", "creating", "active"} /\ (table # "none" => table' # "none")
  BY DEF Describe, Create, Wait, Group, serviceVars, BootInv, TypeOK
<1>4. ClockInv' /\ ConnectBounded' /\ pc' \in [Procs -> {"describe", "create", "wait", "exited"} \cup Passed]
  BY <1>1, <1>2, MoveStep DEF Moves
<1>5. TypeOK'
  BY <1>2, <1>3, <1>4 DEF BootInv, TypeOK
<1>6. PassedMeansTable'
  BY <1>1, <1>2, <1>3 DEF BootInv, TypeOK, PassedMeansTable
<1> QED
  BY <1>4, <1>5, <1>6 DEF BootInv

LEMMA DialStep ==
  ASSUME BootInv, NEW p \in Procs, NEW d \in DialTimes, Dial(p, d)
  PROVE  BootInv'
<1>0. d \in Nat /\ MaxElapsed \in Nat /\ MaxBackoff \in Nat \ {0} /\ elapsed[p] \in Nat
      /\ elapsed[p] <= MaxElapsed + MaxBackoff
  BY BootAssumption DEF BootInv, TypeOK, ClockInv, Dial
<1>1. UNCHANGED <<stopping, table, kafka, dynamo, flaps, losses>>
  BY DEF Dial, serviceVars
<1>2. PICK l \in {"ready", "exited", "sleep"} : pc' = [pc EXCEPT ![p] = l]
  BY DEF Dial, Goes
<1>3. PassedMeansTable'
  BY <1>1, <1>2 DEF BootInv, TypeOK, PassedMeansTable, Passed, Dial
<1>4. CASE kafka
  <2>1. TypeOK'
    BY <1>0, <1>1, <1>4 DEF BootInv, TypeOK, Dial, Goes, Fresh, Passed
  <2>2. ClockInv'
    BY <1>4, BootAssumption DEF BootInv, TypeOK, ClockInv, Dial, Goes, Fresh
  <2>3. ConnectBounded'
    <3>1. ASSUME NEW q \in Procs PROVE \E e \in DialTimes \cup {0} : elapsed'[q] <= MaxElapsed + MaxBackoff + e
      <4>1. CASE q = p
        <5>1. elapsed'[q] <= MaxElapsed + MaxBackoff + 0
          BY <1>0, <1>4, <4>1 DEF Dial, Fresh, BootInv, TypeOK
        <5> QED
          BY <5>1
      <4>2. CASE q # p
        BY <1>4, <4>2 DEF Dial, Fresh, BootInv, TypeOK, ConnectBounded
      <4> QED
        BY <4>1, <4>2
    <3> QED
      BY <3>1 DEF ConnectBounded
  <2> QED
    BY <1>3, <2>1, <2>2, <2>3 DEF BootInv
<1>5. CASE ~kafka
  <2>0. elapsed' = [elapsed EXCEPT ![p] = @ + d] /\ elapsed'[p] = elapsed[p] + d /\ UNCHANGED backoff
        /\ pc' = [pc EXCEPT ![p] = IF p \in stopping \/ elapsed'[p] > MaxElapsed THEN "exited" ELSE "sleep"]
    BY <1>5 DEF Dial, Goes, BootInv, TypeOK
  <2>1. TypeOK'
    BY <1>0, <1>1, <2>0 DEF BootInv, TypeOK, Passed
  <2>2. ClockInv'
    BY <1>0, <2>0 DEF BootInv, TypeOK, ClockInv
  <2>3. ConnectBounded'
    <3>1. ASSUME NEW q \in Procs PROVE \E e \in DialTimes \cup {0} : elapsed'[q] <= MaxElapsed + MaxBackoff + e
      <4>1. CASE q = p
        BY <1>0, <2>0, <4>1
      <4>2. CASE q # p
        BY <2>0, <4>2 DEF BootInv, TypeOK, ConnectBounded
      <4> QED
        BY <4>1, <4>2
    <3> QED
      BY <3>1 DEF ConnectBounded
  <2> QED
    BY <1>3, <2>1, <2>2, <2>3 DEF BootInv
<1> QED
  BY <1>4, <1>5

LEMMA SleepStep ==
  ASSUME BootInv, NEW p \in Procs, Sleep(p)
  PROVE  BootInv'
<1>0. MaxElapsed \in Nat /\ MaxBackoff \in Nat \ {0} /\ elapsed[p] \in Nat
      /\ elapsed[p] <= MaxElapsed /\ backoff[p] \in 1 .. MaxBackoff /\ pc[p] = "sleep"
  BY BootAssumption DEF BootInv, TypeOK, ClockInv, Sleep
<1>1. UNCHANGED <<stopping, table, kafka, dynamo, flaps, losses>>
  BY DEF Sleep, serviceVars
<1>2. PICK l \in {"dial", "exited"} : pc' = [pc EXCEPT ![p] = l]
  BY DEF Sleep, Goes
<1>3. PassedMeansTable'
  BY <1>0, <1>1, <1>2 DEF BootInv, TypeOK, PassedMeansTable, Passed
<1>4. CASE pc' = [pc EXCEPT ![p] = "exited"] /\ UNCHANGED <<backoff, elapsed>>
  <2>1. ClockInv' /\ ConnectBounded' /\ pc' \in [Procs -> {"describe", "create", "wait", "exited"} \cup Passed]
    BY <1>4, MoveStep DEF Moves
  <2> QED
    BY <1>1, <1>3, <1>4, <2>1 DEF BootInv, TypeOK
<1>5. CASE /\ pc' = [pc EXCEPT ![p] = "dial"]
           /\ elapsed' = [elapsed EXCEPT ![p] = @ + backoff[p]]
           /\ backoff' = [backoff EXCEPT ![p] = Smaller(2 * @, MaxBackoff)]
  <2>1. Smaller(2 * backoff[p], MaxBackoff) \in 1 .. MaxBackoff
    BY <1>0 DEF Smaller
  <2>2. TypeOK'
    BY <1>0, <1>1, <1>5, <2>1 DEF BootInv, TypeOK, Passed
  <2>3. ClockInv'
    BY <1>0, <1>5 DEF BootInv, TypeOK, ClockInv
  <2>4. ASSUME NEW q \in Procs PROVE \E e \in DialTimes \cup {0} : elapsed'[q] <= MaxElapsed + MaxBackoff + e
    <3>1. CASE q = p
      <4>1. elapsed'[q] <= MaxElapsed + MaxBackoff + 0
        BY <1>0, <1>5, <3>1 DEF BootInv, TypeOK
      <4> QED
        BY <4>1
    <3>2. CASE q # p
      BY <1>5, <3>2 DEF BootInv, TypeOK, ConnectBounded
    <3> QED
      BY <3>1, <3>2
  <2> QED
    BY <1>3, <2>2, <2>3, <2>4 DEF BootInv, ConnectBounded
<1> QED
  BY <1>4, <1>5 DEF Sleep, Goes

-----------------------------------------------------------------------------
(* The environment.                                                        *)

LEMMA RestartStep ==
  ASSUME BootInv, NEW p \in Procs, Restart(p)
  PROVE  BootInv'
<1>1. /\ pc' = [pc EXCEPT ![p] = First(p)]
      /\ backoff' = [backoff EXCEPT ![p] = 1] /\ elapsed' = [elapsed EXCEPT ![p] = 0]
      /\ UNCHANGED <<stopping, table, kafka, dynamo, flaps, losses>>
  BY DEF Restart, Goes, Fresh, serviceVars
<1>2. TypeOK'
  BY <1>1, Places, BootAssumption DEF BootInv, TypeOK, Passed
<1>3. ClockInv'
  BY <1>1, Places, BootAssumption DEF BootInv, TypeOK, ClockInv
<1>4. ASSUME NEW q \in Procs PROVE \E e \in DialTimes \cup {0} : elapsed'[q] <= MaxElapsed + MaxBackoff + e
  <2>1. CASE q = p
    <3>1. elapsed'[q] <= MaxElapsed + MaxBackoff + 0
      BY <1>1, <2>1, BootAssumption DEF BootInv, TypeOK
    <3> QED
      BY <3>1
  <2>2. CASE q # p
    BY <1>1, <2>2 DEF BootInv, TypeOK, ConnectBounded
  <2> QED
    BY <2>1, <2>2
<1>5. PassedMeansTable'
  BY <1>1, Places DEF BootInv, TypeOK, PassedMeansTable, Passed
<1> QED
  BY <1>2, <1>3, <1>4, <1>5 DEF BootInv, ConnectBounded

LEMMA StopStep ==
  ASSUME BootInv, NEW p \in Procs, Stop(p)
  PROVE  BootInv'
<1>1. UNCHANGED <<backoff, elapsed, table, kafka, dynamo, flaps, losses>> /\ stopping' = stopping \cup {p}
  BY DEF Stop, serviceVars
<1>2. CASE UNCHANGED pc
  BY <1>1, <1>2 DEF BootInv, TypeOK, ClockInv, ConnectBounded, PassedMeansTable
<1>3. CASE pc' = [pc EXCEPT ![p] = "exited"]
  <2>1. ClockInv' /\ ConnectBounded' /\ pc' \in [Procs -> {"describe", "create", "wait", "exited"} \cup Passed]
    BY <1>1, <1>3, MoveStep DEF Moves
  <2>2. PassedMeansTable'
    BY <1>1, <1>3 DEF BootInv, TypeOK, PassedMeansTable, Passed
  <2> QED
    BY <1>1, <2>1, <2>2 DEF BootInv, TypeOK
<1> QED
  BY <1>2, <1>3 DEF Stop, Goes

LEMMA ServiceStep ==
  ASSUME BootInv, Activate \/ KafkaUp \/ DynamoUp \/ ServiceDown \/ Lose
  PROVE  BootInv'
<1>1. UNCHANGED <<pc, backoff, elapsed, stopping>>
  BY DEF Activate, KafkaUp, DynamoUp, ServiceDown, Lose, procVars
<1>2. ClockInv' /\ ConnectBounded'
  BY <1>1 DEF BootInv, ClockInv, ConnectBounded
<1>3. CASE Activate
  BY <1>1, <1>2, <1>3 DEF Activate, BootInv, TypeOK, PassedMeansTable
<1>4. CASE KafkaUp \/ DynamoUp
  BY <1>1, <1>2, <1>4 DEF KafkaUp, DynamoUp, BootInv, TypeOK, PassedMeansTable
<1>5. CASE ServiceDown
  <2>1. flaps' \in 0 .. MaxFlaps /\ UNCHANGED <<table, losses>>
    BY <1>5, BootAssumption DEF ServiceDown, procVars, BootInv, TypeOK
  <2>2. kafka' \in BOOLEAN /\ dynamo' \in BOOLEAN
    <3>1. CASE kafka' = FALSE /\ UNCHANGED dynamo
      BY <3>1 DEF BootInv, TypeOK
    <3>2. CASE dynamo' = FALSE /\ UNCHANGED kafka
      BY <3>2 DEF BootInv, TypeOK
    <3> QED
      BY <1>5, <3>1, <3>2 DEF ServiceDown
  <2> QED
    BY <1>1, <1>2, <2>1, <2>2 DEF BootInv, TypeOK, PassedMeansTable
<1>6. CASE Lose
  <2>1. losses' \in 0 .. MaxLosses /\ losses' # 0
    BY <1>6, BootAssumption DEF Lose, BootInv, TypeOK
  <2> QED
    BY <1>1, <1>2, <1>6, <2>1 DEF Lose, BootInv, TypeOK, PassedMeansTable
<1> QED
  BY <1>3, <1>4, <1>5, <1>6

LEMMA StepInv == BootInv /\ [Next]_vars => BootInv'
<1> SUFFICES ASSUME BootInv, [Next]_vars PROVE BootInv'
  OBVIOUS
<1>1. CASE \E p \in Procs : Boot(p)
  BY <1>1, TableStep, DialStep, SleepStep DEF Boot
<1>2. CASE \E p \in Procs : Restart(p) \/ Stop(p)
  BY <1>2, RestartStep, StopStep
<1>3. CASE Activate \/ KafkaUp \/ DynamoUp \/ ServiceDown \/ Lose
  BY <1>3, ServiceStep
<1>4. CASE UNCHANGED vars
  BY <1>4 DEF vars, procVars, serviceVars, BootInv, TypeOK, ClockInv, ConnectBounded, PassedMeansTable
<1> QED
  BY <1>1, <1>2, <1>3, <1>4 DEF Next

LEMMA Invariance == Spec => []BootInv
BY InitInv, StepInv, PTL DEF Spec

(* TypeOK: every reachable state of the start-up is well typed; in         *)
(* particular the delay of the connection loop stays within its limit.     *)
THEOREM TypeCorrect == Spec => []TypeOK
BY Invariance, PTL DEF BootInv

(* ConnectBounded: NewSyncProducerWithRetry ends within its deadline, one  *)
(* delay and one attempt, for any limits and any length of an attempt.     *)
THEOREM ConnectBoundedCorrect == Spec => []ConnectBounded
BY Invariance, PTL DEF BootInv

(* PassedMeansTable: whoever wins the race to create the table, no process *)
(* goes past EnsureTable without one.                                      *)
THEOREM PassedMeansTableCorrect == Spec => []PassedMeansTable
BY Invariance, PTL DEF BootInv
=============================================================================
