---------------------------- MODULE ClientInstances ----------------------------
(***************************************************************************)
(* Which of several started clients may run: func_chk_psname of            *)
(* bxr_eraser.c counts the processes called /usr/bin/bxr_eraser in the     *)
(* output of ps and goes on when it finds exactly one.                     *)
(*                                                                         *)
(* ps does not take a snapshot: it reads /proc entry by entry while other  *)
(* clients start and end.                                                  *)
(***************************************************************************)
EXTENDS ProcessState

vars == <<clientPc, left, seen>>

Init ==
  /\ clientPc = [p \in Procs |-> "down"]
  /\ left = [p \in Procs |-> {}]
  /\ seen = [p \in Procs |-> {}]

(* main() up to func_chk_psname.                                           *)
Start(p) ==
  /\ clientPc[p] = "down"
  /\ clientPc' = [clientPc EXCEPT ![p] = "started"]
  /\ UNCHANGED <<left, seen>>

(* popen: ps begins to read.                                               *)
Look(p) ==
  /\ clientPc[p] = "started"
  /\ clientPc' = [clientPc EXCEPT ![p] = "looking"]
  /\ left' = [left EXCEPT ![p] = Procs]
  /\ seen' = [seen EXCEPT ![p] = {}]

(* The lines memcmp() counts.  A client in its dialog is still a process.  *)
Counted(q) == q \in Installed /\ clientPc[q] # "down"

See(p, q) ==
  /\ clientPc[p] = "looking"
  /\ q \in left[p]
  /\ left' = [left EXCEPT ![p] = @ \ {q}]
  /\ seen' = [seen EXCEPT ![p] = IF Counted(q) THEN @ \cup {q} ELSE @]
  /\ UNCHANGED clientPc

(* Mutant: a client does not count itself.                                 *)
Decide_Zero(p) ==
  /\ clientPc[p] = "looking"
  /\ left[p] = {}
  /\ clientPc' = [clientPc EXCEPT ![p] = IF Cardinality(seen[p]) = 0 THEN "main" ELSE "refused"]
  /\ UNCHANGED <<left, seen>>

(* Mutant: the line of the grep itself is allowed for.                     *)
Decide_Two(p) ==
  /\ clientPc[p] = "looking"
  /\ left[p] = {}
  /\ clientPc' = [clientPc EXCEPT
                     ![p] = IF Cardinality(seen[p]) \in 1..2 THEN "main" ELSE "refused"]
  /\ UNCHANGED <<left, seen>>

(* Exactly one: run.  More: "already running".  None: "wrong path".        *)
Decide(p) ==
  /\ clientPc[p] = "looking"
  /\ left[p] = {}
  /\ clientPc' = [clientPc EXCEPT ![p] = IF Cardinality(seen[p]) = 1 THEN "main" ELSE "refused"]
  /\ UNCHANGED <<left, seen>>

(* The main loop ends, the dialog is answered, or the process dies, and    *)
(* with it what it has seen.                                               *)
End(p) ==
  /\ clientPc[p] # "down"
  /\ clientPc' = [clientPc EXCEPT ![p] = "down"]
  /\ left' = [left EXCEPT ![p] = {}]
  /\ seen' = [seen EXCEPT ![p] = {}]

Checking(p) == Look(p) \/ (\E q \in Procs : See(p, q)) \/ Decide(p)

Next == \E p \in Procs : Start(p) \/ Checking(p) \/ End(p)

Spec == Init /\ [][Next]_vars

(* A process runs; no other is obliged to end.                             *)
Fairness == \A p \in Procs : WF_vars(Checking(p))

FairSpec == Spec /\ Fairness

-----------------------------------------------------------------------------
(* Properties, beside those of ProcessState.                                *)

(* A client started at a quiet moment runs: if no other is ever started,   *)
(* it is not refused by the traces of those that have ended.               *)
AloneRuns ==
  \A p \in Installed :
    []( (clientPc[p] = "started" /\ \A q \in Procs \ {p} : clientPc[q] = "down")
        => <>(\/ clientPc[p] \in {"main", "down"}
              \/ \E q \in Procs \ {p} : clientPc[q] # "down") )

(* "The program was run from a wrong path" (line 209): such a client does  *)
(* not get to its main loop.                                               *)
WrongPathRefused == \A p \in Procs \ Installed : clientPc[p] # "main"

===============================================================================
