------------------------------- MODULE Daemons -------------------------------
(***************************************************************************)
(* How the processes of the server host come and go: the start and stop    *)
(* scripts of bxr_server and bxr_parser, BXR_Init, BXR_LoadConf and        *)
(* BXR_Daemonize of bxr_utils.c, and the first lines of both main().       *)
(*                                                                         *)
(* A script takes one look at the process list and acts on it later.  The  *)
(* program it starts reads the configuration, forks and leaves the script  *)
(* waiting until the parent has gone.  A process number is not used again. *)
(***************************************************************************)
EXTENDS ProcessState

DaemonAssumption ==
  /\ MaxPid \in Nat \ {0}
  /\ MaxEdits \in Nat
  /\ IsFiniteSet(Scripts)

vars == <<script, process, conf, edits, raced, ended>>

NoPid == [name |-> "none", st |-> "free", serv |-> "unset", dbms |-> "unset", by |-> "none"]

Init ==
  /\ script = [s \in Scripts |-> [op |-> "none", name |-> "none", pc |-> "idle", pids |-> {}]]
  /\ process = [p \in Pids |-> NoPid]
  /\ conf \in Configs
  /\ edits = 0
  /\ raced = {}
  /\ ended = [s \in Scripts |-> {}]

(* ps -ef | grep ${BXRG_NAME}                                              *)
Listed(n) == {p \in Pids : Alive(p) /\ process[p].name = n}

Goto(s, l) == script' = [script EXCEPT ![s].pc = l]
Becomes(p, l) == process' = [process EXCEPT ![p].st = l]

-----------------------------------------------------------------------------
(* The scripts.                                                            *)

Call(s, op, n) ==
  /\ script[s].pc = "idle"
  /\ script' = [script EXCEPT ![s].op = op, ![s].name = n, ![s].pc = "look"]
  /\ UNCHANGED <<process, conf, edits, raced, ended>>

Look(s) ==
  /\ script[s].pc = "look"
  /\ LET n == script[s].name
         found == Listed(n)
         others == {t \in Scripts \ {s} : script[t].pc = "exec" /\ script[t].name = n}
     IN  /\ script' = [script EXCEPT
              ![s].pids = found,
              ![s].pc = IF script[s].op = "start"
                        THEN IF found = {} THEN "exec" ELSE "done"
                        ELSE IF found = {} THEN "done" ELSE "kill"]
         /\ raced' = IF script[s].op = "start" /\ found = {} /\ others # {}
                     THEN raced \cup {n} ELSE raced
  /\ ended' = [ended EXCEPT ![s] =
       {t \in Scripts : script[t].op = "start" /\ script[t].pc = "done"}]
  /\ UNCHANGED <<process, conf, edits>>

Fresh(p) == process[p].st = "free" /\ \A q \in Pids : q < p => process[q].st # "free"

Exec(s) ==
  /\ script[s].pc = "exec"
  /\ \E p \in Pids :
       /\ Fresh(p)
       /\ process' = [process EXCEPT ![p] = [NoPid EXCEPT !.name = script[s].name,
                                                    !.st = "init", !.by = s]]
       /\ script' = [script EXCEPT ![s].pc = "wait", ![s].pids = {p}]
  /\ UNCHANGED <<conf, edits, raced, ended>>

(* Mutant: the script goes on at once (the program run in the background).  *)
Waited_Not(s) ==
  /\ script[s].pc = "wait"
  /\ script' = [script EXCEPT ![s].pc = "done", ![s].pids = Listed("server")]
  /\ UNCHANGED <<process, conf, edits, raced, ended>>

(* The program's first process has ended; both scripts then look for the   *)
(* process number to print under the name bxr_server.                      *)
Waited(s) ==
  /\ script[s].pc = "wait"
  /\ \A p \in script[s].pids : ~Alive(p)
  /\ script' = [script EXCEPT ![s].pc = "done", ![s].pids = Listed("server")]
  /\ UNCHANGED <<process, conf, edits, raced, ended>>

(* kill -9, one process after the other; one that has ended is skipped.    *)
KillNext(s, p) ==
  /\ script[s].pc = "kill"
  /\ p \in script[s].pids
  /\ script' = [script EXCEPT ![s].pids = @ \ {p},
                              ![s].pc = IF script[s].pids = {p} THEN "done" ELSE "kill"]
  /\ IF Alive(p) THEN Becomes(p, "dead") ELSE UNCHANGED process
  /\ UNCHANGED <<conf, edits, raced, ended>>

-----------------------------------------------------------------------------
(* The programs.                                                           *)

(* iniparser_getstring with a default.                                     *)
Key(k, default) == IF k \in DOMAIN conf THEN conf[k] ELSE default

(* BXR_Init: without the file everything stays as the process image has it, *)
(* and main() does not look at the result.                                 *)
LoadConf(p) ==
  /\ process[p].st = "init"
  /\ process' = [process EXCEPT
       ![p].st = "ready",
       ![p].serv = IF conf = Missing THEN "unset" ELSE Key("config:bxrgip", "any"),
       ![p].dbms = IF conf = Missing THEN "unset" ELSE Key("config:bxrgip", "home")]
  /\ UNCHANGED <<script, conf, edits, raced, ended>>

(* BXR_Daemonize: the child goes on, the parent is about to exit.          *)
Fork(p) ==
  /\ process[p].st = "ready"
  /\ \E q \in Pids :
       /\ Fresh(q)
       /\ process' = [process EXCEPT ![p].st = "parent", ![q] = [process[p] EXCEPT !.st = "daemon"]]
  /\ UNCHANGED <<script, conf, edits, raced, ended>>

(* BXRG_HOME is not set, fork() fails, or the parent's part is over.       *)
Exit(p) ==
  /\ process[p].st \in {"init", "ready", "parent"}
  /\ Becomes(p, "dead")
  /\ UNCHANGED <<script, conf, edits, raced, ended>>

(* Servers that listen where a server of address a would.                  *)
Bound(a) ==
  {q \in Pids : process[q].st = "up" /\ process[q].name = "server" /\ Overlap(a, process[q].serv)}

(* nng_listen, mysql_real_connect: the process is in its main loop.        *)
Serve(p) ==
  /\ process[p].st = "daemon"
  /\ process[p].name = "server" => Bound(process[p].serv) = {}
  /\ Becomes(p, "up")
  /\ UNCHANGED <<script, conf, edits, raced, ended>>

(* Mutant: a server that does not get the port waits for it.               *)
GiveUp_Waits(p) ==
  /\ process[p].st = "daemon"
  /\ process[p].name = "parser"
  /\ Becomes(p, "dead")
  /\ UNCHANGED <<script, conf, edits, raced, ended>>

(* The address is taken, or the database does not answer: main() returns.  *)
GiveUp(p) ==
  /\ process[p].st = "daemon"
  /\ process[p].name = "server" => Bound(process[p].serv) # {}
  /\ Becomes(p, "dead")
  /\ UNCHANGED <<script, conf, edits, raced, ended>>

(* A parser or server that was running ends by itself.                     *)
Die(p) ==
  /\ process[p].st = "up"
  /\ Becomes(p, "dead")
  /\ UNCHANGED <<script, conf, edits, raced, ended>>

EditConf ==
  /\ edits < MaxEdits
  /\ edits' = edits + 1
  /\ conf' \in Configs \ {conf}
  /\ UNCHANGED <<script, process, raced, ended>>

-----------------------------------------------------------------------------
ScriptStep(s) ==
  Look(s) \/ Exec(s) \/ Waited(s) \/ \E p \in Pids : KillNext(s, p)

ProcStep(p) == LoadConf(p) \/ Fork(p) \/ Exit(p) \/ Serve(p) \/ GiveUp(p)

Next ==
  \/ \E s \in Scripts, op \in {"start", "stop"}, n \in Names : Call(s, op, n)
  \/ \E s \in Scripts : ScriptStep(s)
  \/ \E p \in Pids : ProcStep(p) \/ Die(p)
  \/ EditConf

Spec == Init /\ [][Next]_vars

(* Processes are scheduled.                                                *)
Fairness ==
  /\ \A s \in Scripts : WF_vars(ScriptStep(s))
  /\ \A p \in Pids : WF_vars(ProcStep(p))

FairSpec == Spec /\ Fairness

-----------------------------------------------------------------------------
(* Properties.                                                             *)

(* A start script always comes back, and a process it started either       *)
(* serves or ends: the loser of the race for the port does not linger.     *)
Back(s) == script[s].pc \in {"idle", "done"}
Settled(p) == process[p].st \in {"free", "up", "dead"}

StartsSettle ==
  /\ \A s \in Scripts : []<>Back(s)
  /\ \A p \in Pids : []<>Settled(p)

(* "Blue X-ray G Parser UP E n d...  pid:[ $BXRG_PID ]" (start_bxrgp.sh    *)
(* line 22): what a start script prints are processes of its own program.  *)
ReportsOwnPid ==
  \A s \in Scripts :
    script[s].op = "start" /\ script[s].pc = "done" =>
      \A p \in script[s].pids : process[p].name = script[s].name

(* "SERVERIP = 127.0.0.1 ; blue X-ray G Server IP" (conf/BlueXrayG.conf):  *)
(* while the file was not changed, a server listens where the file says.   *)
ListensWhereConfigured ==
  \A p \in Pids :
    (/\ process[p].st = "up" /\ process[p].name = "server" /\ edits = 0
     /\ conf # Missing /\ "server:serverip" \in DOMAIN conf)
    => process[p].serv = conf["server:serverip"]

(* "Blue X-ray G DBMS IP, PORT" (bxr_utils.c line 163): the database of a  *)
(* parser is not looked for at the address the server was given.           *)
DbmsHasItsOwnKey ==
  \A p \in Pids :
    (/\ process[p].st = "up" /\ process[p].name = "parser" /\ edits = 0
     /\ conf # Missing /\ "config:bxrgip" \in DOMAIN conf /\ "config:dbmsip" \notin DOMAIN conf)
    => process[p].dbms = "home"

-----------------------------------------------------------------------------
(* Parts of the inductive invariants, for the proofs.                      *)

(* A script that was called knows its program; only a start script starts  *)
(* something.                                                              *)
ScriptShape ==
  \A s \in Scripts :
    /\ script[s].pc # "idle" => script[s].name \in Names
    /\ script[s].op # "start" => script[s].pc \notin {"exec", "wait"}

(* As long as a program has not got as far as its daemon, the script that  *)
(* started it waits for it.                                                *)
StartersWait ==
  \A p \in Pids :
    /\ Alive(p) => process[p].by \in Scripts
    /\ process[p].st \in {"init", "ready", "parent"} =>
         script[process[p].by].pc = "wait" /\ script[process[p].by].pids = {p}

(* What a stop script is to stop is on its list until it is stopped; those *)
(* who started it start nothing more.                                      *)
KillsAll ==
  \A s \in Scripts :
    /\ \A t \in ended[s] : script[t].pc = "done"
    /\ script[s].op = "stop" /\ script[s].pc \in {"kill", "done"} =>
         \A p \in Pids :
           Alive(p) /\ process[p].name = script[s].name /\ process[p].by \in ended[s] =>
             script[s].pc = "kill" /\ p \in script[s].pids

(* Of a program whose start was not raced, one script at most is about to  *)
(* start it, and only while it does not run.                               *)
ExecAlone ==
  \A s \in Scripts :
    script[s].pc = "exec" /\ script[s].name \notin raced =>
      /\ Listed(script[s].name) = {}
      /\ \A t \in Scripts : script[t].pc = "exec" /\ script[t].name = script[s].name => t = s

=============================================================================
