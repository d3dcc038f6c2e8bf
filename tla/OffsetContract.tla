--------------------------- MODULE OffsetContract ---------------------------
(***************************************************************************)
(* What a consumer group promises about each partition of a topic, without *)
(* processes, sessions or stores: messages are appended, handled (with     *)
(* success or not) at least once, and the committed offset only moves      *)
(* forward, past messages that have all been handled and to the one after  *)
(* a success.                                                              *)
(***************************************************************************)
EXTENDS Naturals, Sequences

CONSTANTS Partitions, Messages

VARIABLES log, tried, succ, committed

cvars == <<log, tried, succ, committed>>

Init ==
  /\ log = [p \in Partitions |-> << >>]
  /\ tried = {}
  /\ succ = {}
  /\ committed = [p \in Partitions |-> 0]

Extend(p, m) ==
  /\ log' = [log EXCEPT ![p] = Append(@, m)]
  /\ UNCHANGED <<tried, succ, committed>>

(* A delivery of offset o of p is handled; a later failure does not undo   *)
(* an earlier success.                                                     *)
Handle(p, o, ok) ==
  /\ o < Len(log[p])
  /\ tried' = tried \cup {<<p, o>>}
  /\ succ' = IF ok THEN succ \cup {<<p, o>>} ELSE succ
  /\ UNCHANGED <<log, committed>>

(* Offsets are committed, those of several partitions at once when a       *)
(* session ends.                                                           *)
Commit ==
  /\ committed' \in [Partitions -> Nat]
  /\ \A p \in Partitions : committed'[p] # committed[p] =>
       /\ committed'[p] > committed[p]
       /\ \A o \in 0 .. committed'[p] - 1 : <<p, o>> \in tried
       /\ <<p, committed'[p] - 1>> \in succ
  /\ UNCHANGED <<log, tried, succ>>

Next ==
  \/ \E p \in Partitions, m \in Messages : Extend(p, m)
  \/ \E p \in Partitions : \E o \in 0 .. Len(log[p]) - 1, ok \in BOOLEAN : Handle(p, o, ok)
  \/ Commit

Spec == Init /\ [][Next]_cvars
=============================================================================
