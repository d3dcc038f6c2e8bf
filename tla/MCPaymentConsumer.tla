-------------------------- MODULE MCPaymentConsumer --------------------------
(***************************************************************************)
(* Small instances of PaymentConsumer for TLC: the events producers may    *)
(* send and the partition of each payment.                                 *)
(***************************************************************************)
EXTENDS PaymentConsumer

CONSTANTS c1, c2, p1, p2, a, b, created, settled, t1, t2

Event(i, s, t) == [pid |-> i, status |-> s, ts |-> t]

\* two events of one payment that fall on the same history row
SameRow == {Event(a, created, t1), Event(a, settled, t1)}
\* two events of one payment with rows of their own
Updates == {Event(a, created, t1), Event(a, settled, t2)}
\* one event of each of two payments
Distinct == {Event(a, created, t1), Event(b, created, t1)}
\* an update of one payment and an event of another
Mixed == Updates \cup {Event(b, created, t1)}

\* events dated ahead of the consumer's clock
Updated == {e \in Events : e.status = settled}

\* events sent through the form of the UI
Opened == {e \in Events : e.status = created}

OnePartition == [i \in Payments |-> p1]
ByPayment == [i \in Payments |-> IF i = a THEN p1 ELSE p2]
=============================================================================
