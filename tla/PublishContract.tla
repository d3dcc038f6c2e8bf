--------------------------- MODULE PublishContract ---------------------------
(***************************************************************************)
(* What a publisher of batches promises to whoever asked for them, without *)
(* processes, connections or retries: each event of a batch is reported    *)
(* once as published, as absent or as unknown, one that is reported as     *)
(* published is in the topic by then, and one reported as absent never is. *)
(***************************************************************************)
EXTENDS Naturals

CONSTANTS Batches, Size

VARIABLES
  topic,  \* the events in the topic, as pairs of batch and index
  told    \* what has been reported of each event

contractVars == <<topic, told>>

Verdicts == {"published", "absent", "unknown"}
Untold(b) == [i \in 1 .. Size[b] |-> "nothing"]

Init ==
  /\ topic = {}
  /\ told = [b \in Batches |-> Untold(b)]

Arrive(b, i) ==
  /\ told[b][i] # "absent"
  /\ topic' = topic \cup {<<b, i>>}
  /\ UNCHANGED told

Tell(b) ==
  /\ told[b] = Untold(b)
  /\ told' = [told EXCEPT ![b] = told'[b]]
  /\ told'[b] \in [1 .. Size[b] -> Verdicts]
  /\ \A i \in 1 .. Size[b] :
       /\ told'[b][i] = "published" => <<b, i>> \in topic
       /\ told'[b][i] = "absent" => <<b, i>> \notin topic
  /\ UNCHANGED topic

Next ==
  \E b \in Batches :
    \/ \E i \in 1 .. Size[b] : Arrive(b, i)
    \/ Tell(b)

Spec == Init /\ [][Next]_contractVars
=============================================================================
