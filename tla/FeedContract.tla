---------------------------- MODULE FeedContract ----------------------------
(***************************************************************************)
(* What a live feed promises to each of its clients, without goroutines,   *)
(* locks, connections or shutdown: a queue of bounded length, filled in    *)
(* the order of publication and emptied from its head.  An event passes a  *)
(* client by for two reasons only: it was lost to all, or it found the     *)
(* queue full.  A client that is cut off is still given what is queued,    *)
(* and nothing else.                                                       *)
(***************************************************************************)
EXTENDS Naturals, Sequences

CONSTANTS Clients, BufSize

VARIABLES
  published,  \* events published, numbered from 1
  lost,       \* those that reach no client
  phase,      \* of each client: "off", "open" or "closing"
  queue,      \* events it will be given
  given,      \* events it has been given since it came
  missed      \* events that found its queue full

feedVars == <<published, lost, phase, queue, given, missed>>
clientVars == <<phase, queue, given, missed>>

Init ==
  /\ published = 0 /\ lost = {}
  /\ phase = [k \in Clients |-> "off"]
  /\ queue = [k \in Clients |-> << >>]
  /\ given = [k \in Clients |-> << >>]
  /\ missed = [k \in Clients |-> {}]

Emit ==
  /\ published' = published + 1
  /\ lost' \in {lost, lost \cup {published + 1}}
  /\ UNCHANGED clientVars

Come(k) ==
  /\ phase[k] = "off"
  /\ phase' = [phase EXCEPT ![k] = "open"]
  /\ UNCHANGED <<published, lost, queue, given, missed>>

(* The next event for k: nothing is skipped that k was not bound to miss.  *)
NextFor(k, n) ==
  /\ n \in (1 .. published) \ lost
  /\ LET s == given[k] \o queue[k] IN
       s # << >> => s[Len(s)] < n /\ (s[Len(s)] + 1) .. (n - 1) \subseteq lost \cup missed[k]

Enqueue(k, n) ==
  /\ phase[k] = "open" /\ NextFor(k, n)
  /\ Len(queue[k]) < BufSize
  /\ queue' = [queue EXCEPT ![k] = Append(@, n)]
  /\ UNCHANGED <<published, lost, phase, given, missed>>

Miss(k, n) ==
  /\ phase[k] = "open" /\ NextFor(k, n)
  /\ Len(queue[k]) = BufSize
  /\ missed' = [missed EXCEPT ![k] = @ \cup {n}]
  /\ UNCHANGED <<published, lost, phase, queue, given>>

Give(k) ==
  /\ phase[k] # "off" /\ queue[k] # << >>
  /\ given' = [given EXCEPT ![k] = Append(@, Head(queue[k]))]
  /\ queue' = [queue EXCEPT ![k] = Tail(@)]
  /\ UNCHANGED <<published, lost, phase, missed>>

(* All clients are cut off; one that comes later is not.                   *)
CutOff ==
  /\ phase' = [k \in Clients |-> IF phase[k] = "open" THEN "closing" ELSE phase[k]]
  /\ UNCHANGED <<published, lost, queue, given, missed>>

Go(k) ==
  /\ phase[k] # "off"
  /\ phase' = [phase EXCEPT ![k] = "off"]
  /\ queue' = [queue EXCEPT ![k] = << >>]
  /\ given' = [given EXCEPT ![k] = << >>]
  /\ UNCHANGED <<published, lost, missed>>

Next ==
  \/ Emit \/ CutOff
  \/ \E k \in Clients :
       \/ Come(k) \/ Give(k) \/ Go(k)
       \/ \E n \in 1 .. published : Enqueue(k, n) \/ Miss(k, n)

Spec == Init /\ [][Next]_feedVars
=============================================================================
