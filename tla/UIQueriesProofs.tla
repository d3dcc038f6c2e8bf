--------------------------- MODULE UIQueriesProofs ---------------------------
(***************************************************************************)
(* Proofs about UIQueries: for any payments, statuses, pages and repeats,  *)
(* a list answered with status 200 misses no payment that was there        *)
(* throughout, and shows no status that its payment never had; the         *)
(* counters of the metrics are off by the repeats, the changes and the     *)
(* failed reads at most.                                                   *)
(***************************************************************************)
EXTENDS UIQueries, FiniteSetTheorems, TLAPS

(* What was read of p are its values during the request, or errors.        *)
Honest(p) == \A i \in DOMAIN reads[p] : reads[p][i] \in values[p] \cup {"error"}

(* A key that has existed throughout is still owed by SCAN, is in the page *)
(* or was read; the last page leaves nothing owed.                         *)
Accounted(p) ==
  /\ pc # "idle" => store[p] \in values[p]
  /\ pc # "idle" /\ Always(p) /\ p \in wanted => p \in owed \/ p \in page \/ reads[p] # << >>
  /\ pc = "idle" /\ answer = "ok" /\ Always(p) /\ p \in wanted => reads[p] # << >>

QueryInv ==
  /\ TypeOK
  /\ pc # "idle" => answer = "none"
  /\ pc # "read" => page = {}
  /\ pc = "read" /\ last => owed = {}
  /\ \A p \in Payments : Honest(p) /\ Accounted(p)

LEMMA InitInv == Init => QueryInv
<1> SUFFICES ASSUME Init PROVE QueryInv
  OBVIOUS
<1>1. TypeOK
  <2>1. 0 \in 0 .. MaxReturns
    BY QueriesAssumption
  <2>2. returned \in [Payments -> 0 .. MaxReturns] /\ values \in [Payments -> SUBSET Values]
        /\ reads \in [Payments -> Seq(Values \cup {"error"})]
    BY <2>1 DEF Init
  <2> QED
    BY <2>2 DEF Init, TypeOK
<1>2. \A p \in Payments : Honest(p) /\ Accounted(p)
  BY DEF Init, Honest, Accounted
<1> QED
  BY <1>1, <1>2 DEF Init, QueryInv

LEMMA BeginStep == ASSUME QueryInv, Begin PROVE QueryInv'
<1>1. TypeOK'
  <2>1. 0 \in 0 .. MaxReturns
    BY QueriesAssumption
  <2>2. /\ returned' \in [Payments -> 0 .. MaxReturns]
        /\ values' \in [Payments -> SUBSET Values]
        /\ reads' \in [Payments -> Seq(Values \cup {"error"})]
    BY <2>1 DEF Begin, QueryInv, TypeOK
  <2>3. wanted' \subseteq Payments /\ status' \in Statuses \cup {"any"} /\ kind' \in {"list", "metrics"}
    BY DEF Begin
  <2>4. owed' \subseteq Payments
    BY DEF Begin, Existing
  <2> QED
    BY <2>2, <2>3, <2>4 DEF Begin, QueryInv, TypeOK
<1>2. \A p \in Payments : Honest(p)' /\ Accounted(p)'
  BY DEF Begin, Honest, Accounted, Always, Existing
<1> QED
  BY <1>1, <1>2 DEF Begin, QueryInv

LEMMA ScanStep ==
  ASSUME QueryInv, NEW keys \in SUBSET Payments, NEW done \in BOOLEAN, Scan(keys, done)
  PROVE  QueryInv'
<1>1. /\ pc = "scan" /\ pc' = "read" /\ page' = keys \cap wanted /\ owed' = owed \ keys /\ last' = done
      /\ UNCHANGED <<store, kind, wanted, status, reads, answer, expired, values>>
      /\ done => owed \subseteq keys
  BY DEF Scan, ScanReply, requestVars
<1>2. returned' \in [Payments -> 0 .. MaxReturns]
  <2>1. \A p \in keys : returned[p] < MaxReturns
    BY DEF Scan, ScanReply
  <2>2. \A p \in Payments : returned[p] + (IF p \in keys THEN 1 ELSE 0) \in 0 .. MaxReturns
    BY <2>1, QueriesAssumption DEF QueryInv, TypeOK
  <2> QED
    BY <2>2 DEF Scan
<1>3. TypeOK'
  BY <1>1, <1>2 DEF QueryInv, TypeOK
<1>4. \A p \in Payments : Honest(p)' /\ Accounted(p)'
  BY <1>1 DEF QueryInv, Honest, Accounted, Always
<1> QED
  BY <1>1, <1>3, <1>4 DEF QueryInv

LEMMA ReadStep == ASSUME QueryInv, NEW p \in Payments, Read(p) PROVE QueryInv'
<1>1. /\ pc = "read" /\ page' = page \ {p}
      /\ UNCHANGED <<store, kind, wanted, status, pc, last, answer, expired, owed, returned, values>>
  BY DEF Read, requestVars, ghostVars
<1>2. PICK v \in {store[p], "error"} : reads' = [reads EXCEPT ![p] = Append(reads[p], v)]
  BY DEF Read, QueryInv, TypeOK
<1>3. reads[p] \in Seq(Values \cup {"error"}) /\ v \in Values \cup {"error"} /\ v \in values[p] \cup {"error"}
  BY <1>1 DEF QueryInv, TypeOK, Accounted
<1>4. reads'[p] = Append(reads[p], v) /\ reads' \in [Payments -> Seq(Values \cup {"error"})]
  BY <1>2, <1>3 DEF QueryInv, TypeOK
<1>5. TypeOK'
  BY <1>1, <1>4 DEF QueryInv, TypeOK
<1>6. reads'[p] # << >> /\ \A i \in DOMAIN reads'[p] : reads'[p][i] \in values[p] \cup {"error"}
  BY <1>3, <1>4 DEF QueryInv, Honest
<1>7. \A q \in Payments \ {p} : reads'[q] = reads[q]
  BY <1>2 DEF QueryInv, TypeOK
<1>8. ASSUME NEW q \in Payments PROVE Honest(q)' /\ Accounted(q)'
  <2>1. CASE q = p
    BY <1>1, <1>6, <2>1 DEF QueryInv, Honest, Accounted
  <2>2. CASE q # p
    BY <1>1, <1>7, <2>2 DEF QueryInv, Honest, Accounted, Always
  <2> QED
    BY <2>1, <2>2
<1> QED
  BY <1>1, <1>5, <1>8 DEF QueryInv

LEMMA EndStep == ASSUME QueryInv, ScanFails \/ Turn \/ Deadline PROVE QueryInv'
<1>1. UNCHANGED <<store, kind, wanted, status, page, reads, owed, returned, values>>
  BY DEF ScanFails, Turn, Deadline, requestVars, handlerVars, ghostVars
<1>3. CASE ScanFails
  BY <1>1, <1>3 DEF ScanFails, QueryInv, TypeOK, Honest, Accounted, Always
<1>4. CASE Turn
  BY <1>1, <1>4 DEF Turn, QueryInv, TypeOK, Honest, Accounted, Always
<1>5. CASE Deadline
  BY <1>1, <1>5 DEF Deadline, handlerVars, QueryInv, TypeOK, Honest, Accounted, Always
<1> QED
  BY <1>3, <1>4, <1>5

LEMMA SetStep ==
  ASSUME QueryInv, NEW p \in Payments, NEW v \in Values, Set(p, v)
  PROVE  QueryInv'
<1>1. /\ store' = [store EXCEPT ![p] = v]
      /\ UNCHANGED <<kind, wanted, status, pc, page, last, reads, answer, expired, returned>>
  BY DEF Set, requestVars, handlerVars
<1>2. CASE pc = "idle"
  <2>1. UNCHANGED <<values, owed>>
    BY <1>2 DEF Set
  <2> QED
    BY <1>1, <1>2, <2>1 DEF QueryInv, TypeOK, Honest, Accounted, Always
<1>3. CASE pc # "idle"
  <2>1. values' = [values EXCEPT ![p] = @ \cup {v}] /\ owed' = IF v = "absent" THEN owed \ {p} ELSE owed
    BY <1>3 DEF Set
  <2>2. TypeOK'
    BY <1>1, <2>1 DEF QueryInv, TypeOK
  <2>3. ASSUME NEW q \in Payments PROVE Honest(q)' /\ Accounted(q)'
    BY <1>1, <1>3, <2>1 DEF QueryInv, TypeOK, Honest, Accounted, Always
  <2> QED
    BY <1>1, <1>3, <2>1, <2>2, <2>3 DEF QueryInv
<1> QED
  BY <1>2, <1>3

LEMMA StepInv == QueryInv /\ [Next]_vars => QueryInv'
<1> SUFFICES ASSUME QueryInv, [Next]_vars PROVE QueryInv'
  OBVIOUS
<1>1. CASE Handler
  BY <1>1, ScanStep, EndStep, ReadStep DEF Handler
<1>2. CASE UNCHANGED vars
  BY <1>2 DEF vars, requestVars, handlerVars, ghostVars, QueryInv, TypeOK, Honest, Accounted, Always
<1> QED
  BY <1>1, <1>2, BeginStep, EndStep, SetStep DEF Next

LEMMA Invariance == Spec => []QueryInv
BY InitInv, StepInv, PTL DEF Spec

(* TypeOK: every reachable state of a query handler is well typed.         *)
THEOREM TypeCorrect == Spec => []TypeOK
BY Invariance, PTL DEF QueryInv

(* RowsTrue: no row shows a status that its payment did not have during    *)
(* the request.                                                            *)
THEOREM RowsTrueCorrect == Spec => []RowsTrue
<1>1. QueryInv => RowsTrue
  BY QueriesAssumption DEF QueryInv, Honest, RowsTrue, Rows, Values
<1> QED
  BY <1>1, Invariance, PTL

(* ListComplete: whatever the pages of SCAN, a list with status 200 shows  *)
(* every matching payment that was there all along or whose read failed.   *)
THEOREM ListCompleteCorrect == Spec => []ListComplete
<1>1. QueryInv => ListComplete
  <2> SUFFICES ASSUME QueryInv, Answered("list"), NEW p \in wanted, Always(p),
                      status = "any" \/ values[p] = {status}
               PROVE  Rows(p) # {} \/ Failed(p)
    BY DEF ListComplete
  <2>1. p \in Payments /\ reads[p] # << >>
    BY DEF QueryInv, TypeOK, Accounted, Answered
  <2>2. 1 \in DOMAIN reads[p] /\ reads[p][1] \in values[p] \cup {"error"}
    BY <2>1 DEF QueryInv, TypeOK, Honest
  <2>3. CASE reads[p][1] = "error"
    BY <2>2, <2>3 DEF Failed
  <2>4. CASE reads[p][1] \in values[p]
    BY <2>1, <2>2, <2>4 DEF Rows, QueryInv, TypeOK
  <2> QED
    BY <2>2, <2>3, <2>4
<1> QED
  BY <1>1, Invariance, PTL

-----------------------------------------------------------------------------
(* The counters of the metrics.                                            *)

(* A key is read once for each time SCAN returns it, at most, and SCAN     *)
(* returns keys that exist.                                                *)
ReadOnce(p) ==
  /\ Len(reads[p]) <= returned[p]
  /\ p \in page => Len(reads[p]) < returned[p]
  /\ returned[p] > 0 => Ever(p)

MetricsInv == QueryInv /\ \A p \in Payments : ReadOnce(p)

LEMMA InitMetrics == Init => MetricsInv
BY InitInv DEF Init, MetricsInv, ReadOnce

LEMMA BeginMetrics == ASSUME QueryInv, Begin PROVE \A p \in Payments : ReadOnce(p)'
BY DEF Begin, ReadOnce

LEMMA ScanMetrics ==
  ASSUME MetricsInv, NEW keys \in SUBSET Payments, NEW done \in BOOLEAN, Scan(keys, done),
         NEW p \in Payments
  PROVE  ReadOnce(p)'
<1>1. /\ returned'[p] = returned[p] + (IF p \in keys THEN 1 ELSE 0)
      /\ page' = keys \cap wanted /\ UNCHANGED <<reads, values>>
  BY DEF Scan
<1>2. page = {} /\ store[p] \in values[p] /\ keys \subseteq Existing
  BY DEF Scan, ScanReply, MetricsInv, QueryInv, Accounted
<1>3. returned[p] \in Nat /\ Len(reads[p]) \in Nat /\ Len(reads[p]) <= returned[p]
  BY <1>2 DEF MetricsInv, QueryInv, TypeOK, ReadOnce
<1>4. p \in keys => Ever(p)
  BY <1>2 DEF Existing, Ever
<1>5. returned[p] > 0 => Ever(p)
  BY DEF MetricsInv, ReadOnce
<1>6. Len(reads'[p]) <= returned'[p] /\ (p \in page' => Len(reads'[p]) < returned'[p])
  <2>1. CASE p \in keys
    BY <1>1, <1>3, <2>1
  <2>2. CASE p \notin keys
    BY <1>1, <1>3, <2>2
  <2> QED
    BY <2>1, <2>2
<1>7. returned'[p] > 0 => values'[p] # {"absent"}
  BY <1>1, <1>3, <1>4, <1>5 DEF Ever
<1> QED
  BY <1>6, <1>7 DEF ReadOnce, Ever

LEMMA ReadMetrics ==
  ASSUME MetricsInv, NEW q \in Payments, Read(q), NEW p \in Payments
  PROVE  ReadOnce(p)'
<1>1. page' = page \ {q} /\ q \in page /\ UNCHANGED <<returned, values>>
  BY DEF Read, ghostVars
<1>2. reads' \in [Payments -> Seq(Values \cup {"error"})]
  BY ReadStep DEF MetricsInv, QueryInv, TypeOK
<1>3. Len(reads'[p]) = Len(reads[p]) + (IF p = q THEN 1 ELSE 0)
  BY DEF Read, MetricsInv, QueryInv, TypeOK
<1>4. Len(reads[p]) \in Nat /\ returned[p] \in Nat
  BY DEF MetricsInv, QueryInv, TypeOK
<1>5. Len(reads[p]) <= returned[p] /\ (p \in page => Len(reads[p]) < returned[p])
  BY DEF MetricsInv, ReadOnce
<1>6. Len(reads'[p]) <= returned[p] /\ (p \in page' => Len(reads'[p]) < returned[p])
  <2>1. CASE p = q
    BY <1>1, <1>3, <1>4, <1>5, <2>1
  <2>2. CASE p # q
    BY <1>1, <1>3, <1>4, <1>5, <2>2
  <2> QED
    BY <2>1, <2>2
<1>7. returned'[p] > 0 => values'[p] # {"absent"}
  BY <1>1 DEF MetricsInv, ReadOnce, Ever
<1> QED
  BY <1>1, <1>6, <1>7 DEF ReadOnce, Ever

LEMMA EndMetrics ==
  ASSUME MetricsInv, ScanFails \/ Turn \/ Deadline, NEW p \in Payments
  PROVE  ReadOnce(p)'
<1>1. UNCHANGED <<page, reads, returned, values>>
  BY DEF ScanFails, Turn, Deadline, handlerVars, ghostVars
<1> QED
  BY <1>1 DEF MetricsInv, ReadOnce, Ever

LEMMA SetMetrics ==
  ASSUME MetricsInv, NEW q \in Payments, NEW v \in Values, Set(q, v), NEW p \in Payments
  PROVE  ReadOnce(p)'
<1>1. UNCHANGED <<page, reads, returned>>
  BY DEF Set, handlerVars
<1>2. values[p] \subseteq values'[p] /\ (pc = "idle" => values' = values)
  BY DEF Set, MetricsInv, QueryInv, TypeOK
<1>3. returned[p] > 0 /\ pc # "idle" => values[p] # {}
  BY DEF MetricsInv, QueryInv, Accounted
<1>4. ReadOnce(p)
  BY DEF MetricsInv
<1>5. CASE pc = "idle"
  BY <1>1, <1>2, <1>4, <1>5 DEF ReadOnce, Ever
<1>6. CASE pc # "idle"
  BY <1>1, <1>2, <1>3, <1>4, <1>6 DEF ReadOnce, Ever
<1> QED
  BY <1>5, <1>6

LEMMA StepMetrics == MetricsInv /\ [Next]_vars => MetricsInv'
<1> SUFFICES ASSUME MetricsInv, [Next]_vars PROVE MetricsInv'
  OBVIOUS
<1>1. QueryInv'
  BY StepInv DEF MetricsInv
<1>2. CASE Begin
  BY <1>1, <1>2, BeginMetrics DEF MetricsInv
<1>3. CASE Handler
  BY <1>1, <1>3, ScanMetrics, ReadMetrics, EndMetrics DEF Handler, MetricsInv
<1>4. CASE Deadline
  BY <1>1, <1>4, EndMetrics DEF MetricsInv
<1>5. CASE \E p \in Payments : \E v \in Values : Set(p, v)
  BY <1>1, <1>5, SetMetrics DEF MetricsInv
<1>6. CASE UNCHANGED vars
  BY <1>1, <1>6 DEF vars, requestVars, handlerVars, ghostVars, MetricsInv, ReadOnce, Ever
<1> QED
  BY <1>2, <1>3, <1>4, <1>5, <1>6 DEF Next

LEMMA MetricsInvariance == Spec => []MetricsInv
BY InitMetrics, StepMetrics, PTL DEF Spec

-----------------------------------------------------------------------------
(* From the counts per key to the bounds.                                  *)

(* What is counted is finite.                                              *)
LEMMA CountsFinite ==
  ASSUME MetricsInv
  PROVE  /\ IsFiniteSet(AllReads) /\ IsFiniteSet(Repeated)
         /\ \A s \in Statuses \cup {"error"} : IsFiniteSet(Counted(s))
         /\ \A S \in SUBSET Payments : IsFiniteSet(S) /\ IsFiniteSet(S \X {1})
         /\ \A S \in SUBSET Payments : Cardinality(S \X {1}) = Cardinality(S)
<1> DEFINE All == Payments \X (1 .. MaxReturns)
<1>1. IsFiniteSet(All)
  <2>1. IsFiniteSet(1 .. MaxReturns)
    BY QueriesAssumption, FS_Interval
  <2> QED
    BY <2>1, QueriesAssumption, FS_Product
<1>2. \A p \in Payments : DOMAIN reads[p] = 1 .. Len(reads[p]) /\ Len(reads[p]) \in Nat
                          /\ Len(reads[p]) <= returned[p] /\ returned[p] \in 0 .. MaxReturns
  BY DEF MetricsInv, QueryInv, TypeOK, ReadOnce
<1>3. \A p \in Payments : DOMAIN reads[p] \subseteq 1 .. MaxReturns /\ 2 .. returned[p] \subseteq 1 .. MaxReturns
  BY <1>2, QueriesAssumption
<1>4. AllReads \subseteq All /\ Repeated \subseteq All
      /\ \A s \in Statuses \cup {"error"} : Counted(s) \subseteq All
  BY <1>3 DEF AllReads, Repeated, Counted
<1>5. ASSUME NEW S \in SUBSET Payments
      PROVE  IsFiniteSet(S) /\ IsFiniteSet(S \X {1}) /\ Cardinality(S \X {1}) = Cardinality(S)
  <2>1. IsFiniteSet(S)
    BY QueriesAssumption, FS_Subset
  <2>2. IsFiniteSet({1}) /\ Cardinality({1}) = 1
    BY FS_Singleton
  <2>3. IsFiniteSet(S \X {1}) /\ Cardinality(S \X {1}) = Cardinality(S) * Cardinality({1})
    BY <2>1, <2>2, FS_Product
  <2> QED
    BY <2>1, <2>2, <2>3, FS_CardinalityType
<1> QED
  BY <1>1, <1>4, <1>5, FS_Subset

(* A set covered by two finite ones is no larger than both together.       *)
LEMMA Covered ==
  ASSUME NEW A, NEW B, NEW C, IsFiniteSet(A), IsFiniteSet(B), C \subseteq A \cup B
  PROVE  IsFiniteSet(C) /\ Cardinality(C) <= Cardinality(A) + Cardinality(B)
<1>1. IsFiniteSet(A \cup B) /\ IsFiniteSet(A \cap B)
      /\ Cardinality(A \cup B) = Cardinality(A) + Cardinality(B) - Cardinality(A \cap B)
  BY FS_Union, FS_Intersection
<1>2. IsFiniteSet(C) /\ Cardinality(C) <= Cardinality(A \cup B)
  BY <1>1, FS_Subset
<1> QED
  BY <1>1, <1>2, FS_CardinalityType

(* A first read needs a key that existed; the others are repeats.          *)
LEMMA TotalBound ==
  ASSUME MetricsInv
  PROVE  Total <= Cardinality({p \in Payments : Ever(p)}) + Repeats
<1> DEFINE E == {p \in Payments : Ever(p)}
<1>1. AllReads \subseteq (E \X {1}) \cup Repeated
  <2> SUFFICES ASSUME NEW p \in Payments, NEW i \in DOMAIN reads[p]
               PROVE  <<p, i>> \in (E \X {1}) \cup Repeated
    BY DEF AllReads
  <2>1. i \in 1 .. Len(reads[p]) /\ Len(reads[p]) <= returned[p] /\ Len(reads[p]) \in Nat
        /\ returned[p] \in Nat /\ (returned[p] > 0 => p \in E)
    BY DEF MetricsInv, QueryInv, TypeOK, ReadOnce
  <2>2. CASE i = 1
    BY <2>1, <2>2
  <2>3. CASE i # 1
    <3>1. i \in 2 .. returned[p]
      BY <2>1, <2>3
    <3> QED
      BY <3>1 DEF Repeated
  <2> QED
    BY <2>2, <2>3
<1>2. E \in SUBSET Payments
  OBVIOUS
<1>3. IsFiniteSet(Repeated) /\ IsFiniteSet(E \X {1}) /\ Cardinality(E \X {1}) = Cardinality(E)
  BY <1>2, CountsFinite
<1> HIDE DEF E
<1>4. Cardinality(AllReads) <= Cardinality(E \X {1}) + Cardinality(Repeated)
  BY <1>1, <1>3, Covered
<1> QED
  BY <1>3, <1>4 DEF Total, Repeats, E

(* Of the reads of a key that show s, the first needs a key that had s;    *)
(* the others are repeats.                                                 *)
LEMMA StatusBound ==
  ASSUME MetricsInv, NEW s \in Statuses
  PROVE  ByStatus(s) <= Cardinality({p \in Payments : s \in values[p]}) + Repeats
<1> DEFINE H == {p \in Payments : s \in values[p]}
           At(p) == {i \in DOMAIN reads[p] : reads[p][i] = s}
           First == {r \in Counted(s) : \A i \in At(r[1]) : r[2] <= i}
<1>1. \A r \in Counted(s) : r[1] \in Payments /\ r[2] \in At(r[1]) /\ r = <<r[1], r[2]>>
  BY DEF Counted
<1>2. ASSUME NEW p \in Payments
      PROVE  At(p) \subseteq 1 .. returned[p] /\ returned[p] \in Nat /\ (At(p) # {} => p \in H)
  <2>1. DOMAIN reads[p] = 1 .. Len(reads[p]) /\ Len(reads[p]) <= returned[p]
        /\ Len(reads[p]) \in Nat /\ returned[p] \in Nat
    BY DEF MetricsInv, QueryInv, TypeOK, ReadOnce
  <2>2. \A i \in At(p) : s \in values[p]
    BY QueriesAssumption DEF MetricsInv, QueryInv, Honest
  <2> QED
    BY <2>1, <2>2
<1>3. Counted(s) \subseteq First \cup Repeated
  <2> SUFFICES ASSUME NEW r \in Counted(s), r \notin First PROVE r \in Repeated
    OBVIOUS
  <2>1. PICK i \in At(r[1]) : ~(r[2] <= i)
    OBVIOUS
  <2>2. r[2] \in 2 .. returned[r[1]]
    BY <1>1, <1>2, <2>1
  <2> QED
    BY <1>1, <2>2 DEF Repeated
<1>4. IsFiniteSet(First) /\ Cardinality(First) <= Cardinality(H)
  <2> DEFINE f == [r \in First |-> r[1]]
  <2>1. f \in [First -> H]
    BY <1>1, <1>2
  <2>2. ASSUME NEW r \in First, NEW t \in First, r[1] = t[1] PROVE r = t
    <3>1. r[2] \in At(r[1]) /\ t[2] \in At(r[1]) /\ r[1] \in Payments
      BY <1>1, <2>2
    <3>2. r[2] <= t[2] /\ t[2] <= r[2]
      BY <3>1, <2>2
    <3>3. r[2] \in Nat /\ t[2] \in Nat
      BY <1>2, <3>1
    <3> QED
      BY <1>1, <2>2, <3>2, <3>3
  <2>3. f \in Injection(First, H)
    BY <2>1, <2>2 DEF Injection, IsInjective
  <2>4. IsFiniteSet(H)
    BY QueriesAssumption, FS_Subset
  <2> HIDE DEF f, H, First
  <2> QED
    BY <2>3, <2>4, FS_Injection
<1>5. IsFiniteSet(Repeated)
  BY CountsFinite
<1>6. H \in SUBSET Payments
  OBVIOUS
<1>7. IsFiniteSet(H)
  BY <1>6, CountsFinite
<1> HIDE DEF H, First
<1>8. Cardinality(Counted(s)) <= Cardinality(First) + Cardinality(Repeated)
  BY <1>3, <1>4, <1>5, Covered
<1>9. Cardinality(First) \in Nat /\ Cardinality(H) \in Nat /\ Cardinality(Repeated) \in Nat
      /\ Cardinality(Counted(s)) \in Nat
  BY <1>4, <1>5, <1>7, FS_CardinalityType, CountsFinite
<1>10. Cardinality(Counted(s)) <= Cardinality(H) + Cardinality(Repeated)
  BY <1>4, <1>8, <1>9
<1> QED
  BY <1>10 DEF ByStatus, Repeats, H

(* When the last page was read, each key that was there all along has been *)
(* read, and shows its status unless the read failed.                      *)
LEMMA AnswerBounds ==
  ASSUME MetricsInv, Answered("metrics"), wanted = Payments
  PROVE  /\ Total >= Cardinality({p \in Payments : Always(p)})
         /\ \A s \in Statuses :
              ByStatus(s) + Errors >= Cardinality({p \in Payments : values[p] = {s}})
<1>1. ASSUME NEW p \in Payments, Always(p)
      PROVE  1 \in DOMAIN reads[p] /\ reads[p][1] \in values[p] \cup {"error"}
  <2>1. reads[p] # << >>
    BY <1>1 DEF MetricsInv, QueryInv, Accounted, Answered
  <2>2. 1 \in DOMAIN reads[p]
    BY <2>1 DEF MetricsInv, QueryInv, TypeOK
  <2> QED
    BY <2>2 DEF MetricsInv, QueryInv, Honest
<1>2. Total >= Cardinality({p \in Payments : Always(p)})
  <2> DEFINE A == {p \in Payments : Always(p)}
  <2>1. A \X {1} \subseteq AllReads
    BY <1>1 DEF AllReads
  <2>2. A \in SUBSET Payments
    OBVIOUS
  <2>3. Cardinality(A \X {1}) = Cardinality(A) /\ IsFiniteSet(AllReads)
    BY <2>2, CountsFinite
  <2> HIDE DEF A
  <2>4. Cardinality(A \X {1}) <= Cardinality(AllReads)
    BY <2>1, <2>3, FS_Subset
  <2>5. Cardinality(A) \in Nat /\ Cardinality(AllReads) \in Nat
    BY <2>2, <2>3, CountsFinite, FS_CardinalityType
  <2> QED
    BY <2>3, <2>4, <2>5 DEF Total, A
<1>3. ASSUME NEW s \in Statuses
      PROVE  ByStatus(s) + Errors >= Cardinality({p \in Payments : values[p] = {s}})
  <2> DEFINE B == {p \in Payments : values[p] = {s}}
  <2>1. \A p \in B : 1 \in DOMAIN reads[p] /\ reads[p][1] \in {s, "error"}
    BY <1>1, QueriesAssumption DEF Always
  <2>2. B \X {1} \subseteq Counted(s) \cup Counted("error")
    BY <2>1 DEF Counted
  <2>3. B \in SUBSET Payments
    OBVIOUS
  <2>4. Cardinality(B \X {1}) = Cardinality(B) /\ IsFiniteSet(B)
        /\ IsFiniteSet(Counted(s)) /\ IsFiniteSet(Counted("error"))
    BY <2>3, CountsFinite
  <2> HIDE DEF B
  <2>5. Cardinality(B \X {1}) <= Cardinality(Counted(s)) + Cardinality(Counted("error"))
    BY <2>2, <2>4, Covered
  <2>6. Cardinality(B) \in Nat /\ Cardinality(Counted(s)) \in Nat /\ Cardinality(Counted("error")) \in Nat
    BY <2>4, FS_CardinalityType
  <2> QED
    BY <2>4, <2>5, <2>6 DEF ByStatus, Errors, B
<1> QED
  BY <1>2, <1>3

(* The metrics count every payment.                                        *)
AllWanted == kind = "metrics" => wanted = Payments

LEMMA AllWantedInvariance == Spec => []AllWanted
<1>1. Init => AllWanted
  BY DEF Init, AllWanted
<1>2. AllWanted /\ [Next]_vars => AllWanted'
  BY DEF AllWanted, Next, Begin, Handler, Scan, ScanFails, Turn, Read, Deadline, Set, vars, requestVars
<1> QED
  BY <1>1, <1>2, PTL DEF Spec

(* MetricsBounds: whatever the pages and repeats of SCAN, the metrics are  *)
(* off by no more than the repeats, the payments that changed meanwhile    *)
(* and the reads that failed.                                              *)
THEOREM MetricsBoundsCorrect == Spec => []MetricsBounds
<1>1. MetricsInv /\ AllWanted => MetricsBounds
  <2> SUFFICES ASSUME MetricsInv, AllWanted PROVE MetricsBounds
    OBVIOUS
  <2>1. Answered("metrics") => wanted = Payments
    BY DEF Answered, AllWanted
  <2> QED
    BY <2>1, TotalBound, StatusBound, AnswerBounds DEF MetricsBounds
<1> QED
  BY <1>1, MetricsInvariance, AllWantedInvariance, PTL
=============================================================================
