------------------------------ MODULE UIQueries ------------------------------
(***************************************************************************)
(* HandleListPayments and HandleMetrics of the UI: a SCAN of the keys      *)
(* payment:* page by page, and one read per key, while the consumer sets   *)
(* statuses and keys expire.                                               *)
(*                                                                         *)
(* SCAN promises only that a key that exists from the first call to the    *)
(* last is returned at least once; pages may be empty, repeat keys, and    *)
(* hold keys that come or go meanwhile.                                    *)
(***************************************************************************)
EXTENDS Naturals, Sequences, FiniteSets, FiniteSetsExt

CONSTANTS
  Payments,   \* payment ids
  Statuses,   \* the values of the field status
  MaxReturns, \* bound: times a SCAN returns one key
  MaxNew      \* bound: new values that payments take during a request

ASSUME QueriesAssumption ==
  /\ IsFiniteSet(Payments)
  /\ MaxReturns \in Nat \ {0} /\ MaxNew \in Nat
  /\ {"absent", "error", "any"} \cap Statuses = {}

VARIABLES
  store,    \* the field status of each key, or "absent"
  pc,       \* the handler
  kind,     \* "list" or "metrics"
  wanted,   \* the payments that match the filter payment_id
  status,   \* the filter status, or "any"
  page,     \* the keys of the page still to be read
  last,     \* the cursor came back 0
  expired,  \* the five seconds of the request are over
  reads,    \* what was read of each payment, in order: a status, "absent" or "error"
  answer,   \* what the client got
  owed,     \* ghost: keys that have existed throughout and were not returned yet
  returned, \* ghost: how often each key was returned
  values    \* ghost: the values of each key since the request began

requestVars == <<kind, wanted, status>>
handlerVars == <<pc, page, last, reads, answer>>
ghostVars == <<owed, returned, values>>
vars == <<store, requestVars, handlerVars, expired, ghostVars>>

Values == Statuses \cup {"absent"}
Existing == {p \in Payments : store[p] # "absent"}

Init ==
  /\ store \in [Payments -> Values]
  /\ pc = "idle" /\ kind = "list" /\ wanted = {} /\ status = "any"
  /\ page = {} /\ last = FALSE /\ expired = FALSE /\ answer = "none"
  /\ reads = [p \in Payments |-> << >>]
  /\ owed = {} /\ returned = [p \in Payments |-> 0]
  /\ values = [p \in Payments |-> {store[p]}]

(* A request with valid parameters; the previous one has been answered.    *)
Begin ==
  /\ pc = "idle"
  /\ \/ /\ kind' = "list"
        /\ wanted' \in SUBSET Payments
        /\ status' \in Statuses \cup {"any"}
     \/ kind' = "metrics" /\ wanted' = Payments /\ status' = "any"
  /\ pc' = "scan"
  /\ page' = {} /\ last' = FALSE /\ expired' = FALSE /\ answer' = "none"
  /\ reads' = [p \in Payments |-> << >>]
  /\ owed' = Existing /\ returned' = [p \in Payments |-> 0]
  /\ values' = [p \in Payments |-> {store[p]}]
  /\ UNCHANGED store

(* What SCAN may return: some keys, and whether this was the last page.    *)
ScanReply(keys, done) ==
  /\ keys \subseteq {p \in Existing : returned[p] < MaxReturns}
  /\ done \in BOOLEAN /\ (done => owed \subseteq keys)

\* MUTANT: an empty page is taken for the last one.
ScanUntilEmpty(keys, done) ==
  /\ pc = "scan" /\ ~expired
  /\ ScanReply(keys, done)
  /\ returned' = [p \in Payments |-> returned[p] + (IF p \in keys THEN 1 ELSE 0)]
  /\ owed' = owed \ keys
  /\ page' = keys \cap wanted /\ last' = (done \/ keys = {}) /\ pc' = "read"
  /\ UNCHANGED <<store, requestVars, reads, answer, expired, values>>

\* MUTANT: the filter payment_id is forgotten.
ScanUnfiltered(keys, done) ==
  /\ pc = "scan" /\ ~expired
  /\ ScanReply(keys, done)
  /\ returned' = [p \in Payments |-> returned[p] + (IF p \in keys THEN 1 ELSE 0)]
  /\ owed' = owed \ keys
  /\ page' = keys /\ last' = done /\ pc' = "read"
  /\ UNCHANGED <<store, requestVars, reads, answer, expired, values>>

(* One page.  Keys that do not match the filter payment_id are not read.   *)
Scan(keys, done) ==
  /\ pc = "scan" /\ ~expired
  /\ ScanReply(keys, done)
  /\ returned' = [p \in Payments |-> returned[p] + (IF p \in keys THEN 1 ELSE 0)]
  /\ owed' = owed \ keys
  /\ page' = keys \cap wanted /\ last' = done /\ pc' = "read"
  /\ UNCHANGED <<store, requestVars, reads, answer, expired, values>>

\* MUTANT: a SCAN that fails is tried again.
ScanFailsAgain ==
  /\ pc = "scan"
  /\ IF kind = "metrics" THEN pc' = "idle" /\ answer' = "partial" ELSE UNCHANGED <<pc, answer>>
  /\ UNCHANGED <<store, requestVars, page, last, reads, expired, ghostVars>>

(* A SCAN that fails, as it does when the deadline has passed, is status   *)
(* 500 for the list and the counts so far, with status 200, for metrics.   *)
ScanFails ==
  /\ pc = "scan"
  /\ pc' = "idle"
  /\ answer' = IF kind = "metrics" THEN "partial" ELSE "500"
  /\ UNCHANGED <<store, requestVars, page, last, reads, expired, ghostVars>>

\* MUTANT: a read that fails is tried again, and counted again.
ReadRetry(p) ==
  /\ pc = "read" /\ p \in page
  /\ \/ ~expired /\ reads' = [reads EXCEPT ![p] = Append(@, store[p])] /\ page' = page \ {p}
     \/ reads' = [reads EXCEPT ![p] = Append(@, "error")] /\ UNCHANGED page
  /\ UNCHANGED <<store, requestVars, pc, last, answer, expired, ghostVars>>

\* MUTANT: a read that fails is taken for an empty hash.
ReadUnchecked(p) ==
  /\ pc = "read" /\ p \in page
  /\ \/ ~expired /\ reads' = [reads EXCEPT ![p] = Append(@, store[p])]
     \/ reads' = [reads EXCEPT ![p] = Append(@, "absent")]
  /\ page' = page \ {p}
  /\ UNCHANGED <<store, requestVars, pc, last, answer, expired, ghostVars>>

(* HGETALL or HGET of a key of the page; a read that fails is only logged. *)
Read(p) ==
  /\ pc = "read" /\ p \in page
  /\ \/ ~expired /\ reads' = [reads EXCEPT ![p] = Append(@, store[p])]
     \/ reads' = [reads EXCEPT ![p] = Append(@, "error")]
  /\ page' = page \ {p}
  /\ UNCHANGED <<store, requestVars, pc, last, answer, expired, ghostVars>>

(* The page is read: the next one, or the answer.                          *)
Turn ==
  /\ pc = "read" /\ page = {}
  /\ IF last THEN pc' = "idle" /\ answer' = "ok" ELSE pc' = "scan" /\ UNCHANGED answer
  /\ UNCHANGED <<store, requestVars, page, last, reads, expired, ghostVars>>

-----------------------------------------------------------------------------
(* The environment.                                                        *)

Deadline ==
  /\ pc # "idle" /\ ~expired /\ expired' = TRUE
  /\ UNCHANGED <<store, requestVars, handlerVars, ghostVars>>

NewValues == MapThenSumSet(LAMBDA p : Cardinality(values[p]) - 1, Payments)

(* The consumer sets a status, or a key expires.                           *)
Set(p, v) ==
  /\ v # store[p]
  /\ v \in values[p] \/ NewValues < MaxNew
  /\ store' = [store EXCEPT ![p] = v]
  /\ IF pc = "idle" THEN UNCHANGED <<values, owed>>
     ELSE /\ values' = [values EXCEPT ![p] = @ \cup {v}]
          /\ owed' = IF v = "absent" THEN owed \ {p} ELSE owed
  /\ UNCHANGED <<requestVars, handlerVars, expired, returned>>

Handler ==
  \/ \E keys \in SUBSET Payments : \E done \in BOOLEAN : Scan(keys, done)
  \/ ScanFails \/ Turn
  \/ \E p \in Payments : Read(p)

Next ==
  \/ Begin \/ Handler \/ Deadline
  \/ \E p \in Payments : \E v \in Values : Set(p, v)

(* The handler runs and its timer fires.                                   *)
Fairness == WF_vars(Handler) /\ WF_vars(Deadline)

Spec == Init /\ [][Next]_vars /\ Fairness

-----------------------------------------------------------------------------
(* Properties.                                                             *)

TypeOK ==
  /\ store \in [Payments -> Values]
  /\ pc \in {"idle", "scan", "read"} /\ kind \in {"list", "metrics"}
  /\ wanted \subseteq Payments /\ status \in Statuses \cup {"any"}
  /\ page \subseteq wanted /\ last \in BOOLEAN /\ expired \in BOOLEAN
  /\ reads \in [Payments -> Seq(Values \cup {"error"})]
  /\ answer \in {"none", "ok", "500", "partial"}
  /\ owed \subseteq Payments
  /\ returned \in [Payments -> 0 .. MaxReturns]
  /\ values \in [Payments -> SUBSET Values]

Answered(k) == pc = "idle" /\ answer = "ok" /\ kind = k
Always(p) == "absent" \notin values[p]   \* the key existed throughout
Ever(p) == values[p] # {"absent"}        \* the key existed at some time

(* What the list tells of p, one row per read that the filter lets pass.   *)
Rows(p) ==
  {i \in DOMAIN reads[p] : reads[p][i] \in Values /\ status \in {"any", reads[p][i]}}
Failed(p) == \E i \in DOMAIN reads[p] : reads[p][i] = "error"

(* A list answered with status 200 shows each matching payment that was    *)
(* there, and had the status asked for, during the whole request, unless   *)
(* its own read failed.                                                    *)
ListComplete ==
  Answered("list") =>
    \A p \in wanted :
      Always(p) /\ (status = "any" \/ values[p] = {status}) => Rows(p) # {} \/ Failed(p)

(* A row shows a status its payment had during the request, and no row is  *)
(* empty unless the key did expire.                                        *)
RowsTrue ==
  \A p \in Payments : \A i \in Rows(p) : reads[p][i] \in values[p]

(* The counters of the metrics, as the number of reads they stand for, and *)
(* the reads that SCAN caused by returning a key again.                    *)
Counted(s) == UNION {{p} \X {i \in DOMAIN reads[p] : reads[p][i] = s} : p \in Payments}
AllReads == UNION {{p} \X DOMAIN reads[p] : p \in Payments}
Total == Cardinality(AllReads)
ByStatus(s) == Cardinality(Counted(s))
Errors == Cardinality(Counted("error"))
Repeated == UNION {{p} \X (2 .. returned[p]) : p \in Payments}
Repeats == Cardinality(Repeated)

(* total_processed and by_status are off by no more than the repeats of    *)
(* SCAN, the payments that changed meanwhile and the reads that failed;    *)
(* partial metrics never exceed that either.                               *)
MetricsBounds ==
  /\ kind = "metrics" =>
       /\ Total <= Cardinality({p \in Payments : Ever(p)}) + Repeats
       /\ \A s \in Statuses :
            ByStatus(s) <= Cardinality({p \in Payments : s \in values[p]}) + Repeats
  /\ Answered("metrics") =>
       /\ Total >= Cardinality({p \in Payments : Always(p)})
       /\ \A s \in Statuses :
            ByStatus(s) + Errors >= Cardinality({p \in Payments : values[p] = {s}})

(* Every request ends, its list or metrics complete or not, although the   *)
(* handlers set no limit to the number of pages.                           *)
RequestEnds == (pc # "idle") ~> (pc = "idle")
=============================================================================
