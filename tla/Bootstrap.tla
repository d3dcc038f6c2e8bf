------------------------------ MODULE Bootstrap ------------------------------
(***************************************************************************)
(* The start of the processes: the DynamoDB table that consumer and UI     *)
(* both ensure (history.EnsureTable), the connection to Kafka with backoff *)
(* (kafka.NewSyncProducerWithRetry), and the container runtime that starts *)
(* again what exits (docker-compose, restart: unless-stopped).             *)
(*                                                                         *)
(* Time is that of the connection loop, per process, in half seconds.      *)
(***************************************************************************)
EXTENDS Naturals, FiniteSets

CONSTANTS
  Procs,        \* the processes
  TableUsers,   \* those that ensure the table (consumer, UI)
  GroupUsers,   \* those that create a consumer group (consumer)
  KafkaUsers,   \* those that connect a producer (consumer, producer)
  Interruptible,\* those whose connection loop has a context to cancel
  MaxBackoff,   \* 16 half seconds in the code
  MaxElapsed,   \* 60 half seconds in the code
  DialTimes,    \* how long a failed attempt may take
  MaxFlaps,     \* bound: times Kafka or DynamoDB becomes unavailable
  MaxLosses     \* bound: times the in-memory emulator loses the table

ASSUME BootAssumption ==
  /\ TableUsers \subseteq Procs /\ KafkaUsers \subseteq Procs
  /\ GroupUsers \subseteq KafkaUsers /\ Interruptible \subseteq KafkaUsers
  /\ MaxBackoff \in Nat \ {0} /\ MaxElapsed \in Nat
  /\ DialTimes \subseteq Nat
  /\ MaxFlaps \in Nat /\ MaxLosses \in Nat

VARIABLES
  pc,       \* each process
  backoff,  \* its next delay
  elapsed,  \* time since its first attempt to connect
  stopping, \* processes that have received a signal
  table,    \* the table: "none", "creating" or "active"
  kafka, dynamo,  \* is the service available?
  flaps, losses   \* faults so far

procVars == <<pc, backoff, elapsed>>
serviceVars == <<table, kafka, dynamo, flaps, losses>>
vars == <<procVars, stopping, serviceVars>>

First(p) == IF p \in TableUsers THEN "describe" ELSE "dial"
AfterTable(p) ==
  IF p \in GroupUsers THEN "group" ELSE IF p \in KafkaUsers THEN "dial" ELSE "ready"

Init ==
  /\ pc = [p \in Procs |-> First(p)]
  /\ backoff = [p \in Procs |-> 1]
  /\ elapsed = [p \in Procs |-> 0]
  /\ stopping = {}
  /\ table = "none"
  /\ kafka = FALSE /\ dynamo = FALSE /\ flaps = 0 /\ losses = 0

Goes(p, l) == pc' = [pc EXCEPT ![p] = l]

-----------------------------------------------------------------------------
(* EnsureTable.                                                            *)

\* MUTANT: an error other than "not found" is taken for a table.
DescribeAnyError(p) ==
  /\ pc[p] = "describe"
  /\ Goes(p, IF dynamo /\ table = "none" THEN "create" ELSE AfterTable(p))
  /\ UNCHANGED <<backoff, elapsed, stopping, serviceVars>>

(* A table in any state ends the search; an error other than "not found"   *)
(* ends the process.                                                       *)
Describe(p) ==
  /\ pc[p] = "describe"
  /\ Goes(p, IF ~dynamo THEN "exited" ELSE IF table = "none" THEN "create" ELSE AfterTable(p))
  /\ UNCHANGED <<backoff, elapsed, stopping, serviceVars>>

(* Of two that found no table, the second gets ResourceInUseException.     *)
Create(p) ==
  /\ pc[p] = "create"
  /\ IF dynamo /\ table = "none"
       THEN Goes(p, "wait") /\ table' = "creating"
       ELSE Goes(p, "exited") /\ UNCHANGED table
  /\ UNCHANGED <<backoff, elapsed, stopping, kafka, dynamo, flaps, losses>>

\* MUTANT: the wait has no deadline.
WaitForever(p) ==
  /\ pc[p] = "wait"
  /\ dynamo /\ table = "active" /\ Goes(p, AfterTable(p))
  /\ UNCHANGED <<backoff, elapsed, stopping, serviceVars>>

(* The waiter polls until the table is active; an error or its thirty      *)
(* seconds end the process.                                                *)
Wait(p) ==
  /\ pc[p] = "wait"
  /\ \/ dynamo /\ table = "active" /\ Goes(p, AfterTable(p))
     \/ Goes(p, "exited")
  /\ UNCHANGED <<backoff, elapsed, stopping, serviceVars>>

-----------------------------------------------------------------------------
(* Kafka.                                                                  *)

(* The consumer group is created without a retry.                          *)
Group(p) ==
  /\ pc[p] = "group"
  /\ Goes(p, IF kafka THEN "dial" ELSE "exited")
  /\ UNCHANGED <<backoff, elapsed, stopping, serviceVars>>

(* The locals of the connection loop at its start, and when it is over.    *)
Fresh(p) ==
  /\ backoff' = [backoff EXCEPT ![p] = 1]
  /\ elapsed' = [elapsed EXCEPT ![p] = 0]

Smaller(a, b) == IF a < b THEN a ELSE b

\* MUTANT: only a cancelled context ends the loop.
DialEndless(p, d) ==
  /\ pc[p] = "dial"
  /\ IF kafka THEN Goes(p, "ready") /\ Fresh(p)
     ELSE /\ elapsed' = [elapsed EXCEPT ![p] = @ + d]
          /\ UNCHANGED backoff
          /\ Goes(p, IF p \in stopping THEN "exited" ELSE "sleep")
  /\ UNCHANGED <<stopping, serviceVars>>

(* One attempt.  When it fails, a cancelled context or the deadline ends   *)
(* the loop.                                                               *)
Dial(p, d) ==
  /\ pc[p] = "dial"
  /\ IF kafka THEN Goes(p, "ready") /\ Fresh(p)
     ELSE /\ elapsed' = [elapsed EXCEPT ![p] = @ + d]
          /\ UNCHANGED backoff
          /\ Goes(p, IF p \in stopping \/ elapsed'[p] > MaxElapsed THEN "exited" ELSE "sleep")
  /\ UNCHANGED <<stopping, serviceVars>>

\* MUTANT: the delay is doubled without a limit.
SleepUncapped(p) ==
  /\ pc[p] = "sleep"
  /\ \/ /\ Goes(p, "dial")
        /\ elapsed' = [elapsed EXCEPT ![p] = @ + backoff[p]]
        /\ backoff' = [backoff EXCEPT ![p] = 2 * @]
     \/ p \in stopping /\ Goes(p, "exited") /\ UNCHANGED <<backoff, elapsed>>
  /\ UNCHANGED <<stopping, serviceVars>>

Sleep(p) ==
  /\ pc[p] = "sleep"
  /\ \/ /\ Goes(p, "dial")
        /\ elapsed' = [elapsed EXCEPT ![p] = @ + backoff[p]]
        /\ backoff' = [backoff EXCEPT ![p] = Smaller(2 * @, MaxBackoff)]
     \/ p \in stopping /\ Goes(p, "exited") /\ UNCHANGED <<backoff, elapsed>>
  /\ UNCHANGED <<stopping, serviceVars>>

-----------------------------------------------------------------------------
(* The environment.                                                        *)

(* docker-compose starts an exited container again, unless it was stopped. *)
Restart(p) ==
  /\ pc[p] = "exited" /\ p \notin stopping
  /\ Goes(p, First(p))
  /\ Fresh(p)
  /\ UNCHANGED <<stopping, serviceVars>>

(* Only the server of cmd/producer handles a signal while it connects; any *)
(* other process that is not serving yet dies of it.                       *)
Stop(p) ==
  /\ p \notin stopping /\ pc[p] \notin {"ready", "exited"}
  /\ stopping' = stopping \cup {p}
  /\ IF p \in Interruptible THEN UNCHANGED pc ELSE Goes(p, "exited")
  /\ UNCHANGED <<backoff, elapsed, serviceVars>>

Activate ==
  /\ table = "creating" /\ table' = "active"
  /\ UNCHANGED <<procVars, stopping, kafka, dynamo, flaps, losses>>

KafkaUp ==
  /\ ~kafka /\ kafka' = TRUE
  /\ UNCHANGED <<procVars, stopping, table, dynamo, flaps, losses>>

DynamoUp ==
  /\ ~dynamo /\ dynamo' = TRUE
  /\ UNCHANGED <<procVars, stopping, table, kafka, flaps, losses>>

ServiceDown ==
  /\ flaps < MaxFlaps /\ flaps' = flaps + 1
  /\ \/ kafka /\ kafka' = FALSE /\ UNCHANGED dynamo
     \/ dynamo /\ dynamo' = FALSE /\ UNCHANGED kafka
  /\ UNCHANGED <<procVars, stopping, table, losses>>

(* The emulator keeps its tables in memory (FLOCI_STORAGE_MODE) and starts *)
(* again.                                                                  *)
Lose ==
  /\ losses < MaxLosses /\ losses' = losses + 1
  /\ table' = "none"
  /\ UNCHANGED <<procVars, stopping, kafka, dynamo, flaps>>

Boot(p) ==
  \/ Describe(p) \/ Create(p) \/ Wait(p) \/ Group(p) \/ Sleep(p)
  \/ \E d \in DialTimes : Dial(p, d)

Next ==
  \/ \E p \in Procs : Boot(p) \/ Restart(p) \/ Stop(p)
  \/ Activate \/ KafkaUp \/ DynamoUp \/ ServiceDown \/ Lose

(* Processes run and are started again, and the services come back.        *)
Fairness ==
  /\ \A p \in Procs : WF_vars(Boot(p)) /\ WF_vars(Restart(p))
  /\ WF_vars(Activate) /\ WF_vars(KafkaUp) /\ WF_vars(DynamoUp)

Spec == Init /\ [][Next]_vars /\ Fairness

-----------------------------------------------------------------------------
(* Properties.                                                             *)

Passed == {"group", "dial", "sleep", "ready"}   \* EnsureTable has returned

TypeOK ==
  /\ pc \in [Procs -> {"describe", "create", "wait", "exited"} \cup Passed]
  /\ backoff \in [Procs -> 1 .. MaxBackoff]
  /\ elapsed \in [Procs -> Nat]
  /\ stopping \subseteq Procs
  /\ table \in {"none", "creating", "active"}
  /\ kafka \in BOOLEAN /\ dynamo \in BOOLEAN
  /\ flaps \in 0 .. MaxFlaps /\ losses \in 0 .. MaxLosses

(* NewSyncProducerWithRetry ends within its thirty seconds, one more delay *)
(* and one more attempt: the deadline is looked at once per attempt.       *)
ConnectBounded ==
  \A p \in Procs : \E d \in DialTimes \cup {0} :
    elapsed[p] <= MaxElapsed + MaxBackoff + d

(* Whichever of consumer and UI was first, and whatever failed, a process  *)
(* that has gone past EnsureTable has a table to write to (or to wait for) *)
(* unless the emulator lost it.                                            *)
PassedMeansTable ==
  losses = 0 /\ (\E p \in TableUsers : pc[p] \in Passed) => table # "none"

(* Every process becomes ready, although the loser of the race to create   *)
(* the table and those that find a service unavailable exit.               *)
AllReady == <>[](\A p \in Procs : pc[p] = "ready" \/ p \in stopping)

(* After the last loss of the table, the restart of any process that uses  *)
(* it brings it back.                                                      *)
TableReturns ==
  \A p \in TableUsers :
    (losses = MaxLosses /\ pc[p] = "exited") ~> (table = "active" \/ p \in stopping)
=============================================================================
