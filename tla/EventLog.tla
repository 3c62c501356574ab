------------------------------- MODULE EventLog -------------------------------
(***************************************************************************)
(* What the raw log and its parsing promise, without processes, snapshots  *)
(* or connections.  An event is accepted once, in order; it may be copied  *)
(* into the detail table several times, but only while it is open; it is   *)
(* closed at most once, and only when a copy of it exists.                 *)
(***************************************************************************)
EXTENDS Naturals

CONSTANTS
  Events,   \* the numbers of the events, in the order of their arrival
  Workers   \* who makes copies

VARIABLES
  status,   \* status[e]: "absent", "open" or "closed"
  copies    \* copies[e][w]: how many copies of e worker w has made

eventVars == <<status, copies>>

Init ==
  /\ status = [e \in Events |-> "absent"]
  /\ copies = [e \in Events |-> [w \in Workers |-> 0]]

Accept(e) ==
  /\ status[e] = "absent"
  /\ \A d \in Events : d < e => status[d] # "absent"
  /\ status' = [status EXCEPT ![e] = "open"]
  /\ UNCHANGED copies

Copy(e, w) ==
  /\ status[e] = "open"
  /\ copies' = [copies EXCEPT ![e][w] = @ + 1]
  /\ UNCHANGED status

Close(e) ==
  /\ status[e] = "open"
  /\ \E w \in Workers : copies[e][w] > 0
  /\ status' = [status EXCEPT ![e] = "closed"]
  /\ UNCHANGED copies

Next ==
  \E e \in Events :
    \/ Accept(e)
    \/ \E w \in Workers : Copy(e, w)
    \/ Close(e)

Spec == Init /\ [][Next]_eventVars

=============================================================================
