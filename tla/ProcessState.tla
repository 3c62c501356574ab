------------------------------ MODULE ProcessState ------------------------------
(***************************************************************************)
(* The processes of the system, and what is promised about which of them   *)
(* run: on the host of bxr_server and bxr_parser its scripts, processes    *)
(* and configuration file (Daemons says how scripts and programs keep it), *)
(* on a desktop the clients (ClientInstances says how func_chk_psname of   *)
(* bxr_eraser.c keeps it).                                                 *)
(***************************************************************************)
EXTENDS Integers, FiniteSets

(* The host of the server.                                                 *)
CONSTANTS
  Scripts,   \* invocations of a script
  MaxPid,    \* bound: processes there are ever
  Configs,   \* what BlueXrayG.conf may contain: functions from its keys
  Missing,   \* in Configs, if the file may not be there
  MaxEdits   \* bound: changes of the file

Names == {"server", "parser"}
Pids == 1..MaxPid

VARIABLES
  script,   \* script[s]: program, place and process numbers of a script
  process,  \* process[p]: program, life and addresses of a process
  conf,     \* BlueXrayG.conf
  edits,    \* history: changes of the file
  raced,    \* history: programs two scripts started without seeing the other's
  ended     \* ended[s]: history: the start scripts that had ended when s looked

(* The clients of a desktop.                                               *)
CONSTANTS
  Procs,      \* client processes
  Installed   \* those started under the path func_chk_psname looks for

ASSUME InstancesAssumption == Installed \subseteq Procs /\ IsFiniteSet(Procs)

VARIABLES
  clientPc,  \* "down", "started", "looking", "main" (gtk_main) or "refused" (dialog)
  left,      \* the processes ps has still to look at
  seen       \* those it listed under the path

-----------------------------------------------------------------------------
(* Properties.                                                             *)

Alive(p) == process[p].st \notin {"free", "dead"}

(* Two listeners cannot have one port of one address; "any" is all of them, *)
(* and without a configuration the port is 0, which is any free one.       *)
Overlap(a, b) == "unset" \notin {a, b} /\ (a = b \/ "any" \in {a, b})

Addresses ==
  {"unset", "any", "home"} \cup UNION {{c[k] : k \in DOMAIN c} : c \in Configs \ {Missing}}

(* The types of the variables; addresses are those of the file or the      *)
(* defaults of BXR_LoadConf.                                               *)
HostTypeOK ==
  /\ script \in [Scripts -> [op : {"none", "start", "stop"}, name : Names \cup {"none"},
                             pc : {"idle", "look", "exec", "wait", "kill", "done"},
                             pids : SUBSET Pids]]
  /\ process \in [Pids -> [name : Names \cup {"none"},
                           st : {"free", "init", "ready", "parent", "daemon", "up", "dead"},
                           serv : Addresses, dbms : Addresses, by : Scripts \cup {"none"}]]
  /\ conf \in Configs /\ edits \in 0..MaxEdits
  /\ raced \subseteq Names
  /\ ended \in [Scripts -> SUBSET Scripts]

(* Two instances of a program run beside each other only if two start      *)
(* scripts both looked before either had started it (lines 10 and 15).     *)
OneUnlessRaced ==
  \A p, q \in Pids :
    Alive(p) /\ Alive(q) /\ process[p].name = process[q].name /\ process[p].by # process[q].by
      => process[p].name \in raced

(* When the stop script has ended, nothing runs that was started by a      *)
(* start script which had ended when the stop script looked: the start     *)
(* script waits for the parent, and the parent for the fork.               *)
StopStops ==
  \A s \in Scripts :
    script[s].op = "stop" /\ script[s].pc = "done" =>
      \A p \in Pids : Alive(p) /\ process[p].name = script[s].name => process[p].by \notin ended[s]

(* No request is split between servers: two that run never listen on the   *)
(* same port.                                                              *)
ListenApart ==
  \A p, q \in Pids :
    (/\ p # q /\ process[p].st = "up" /\ process[q].st = "up"
     /\ process[p].name = "server" /\ process[q].name = "server")
    => ~Overlap(process[p].serv, process[q].serv)

(* What runs on the server host is what its scripts are in charge of:      *)
(* these together (start_bxrgs.sh, stop_bxrgs.sh, BXR_Daemonize).          *)
HostSound == HostTypeOK /\ OneUnlessRaced /\ StopStops /\ ListenApart

(* The types of the variables.                                             *)
ClientsTypeOK ==
  /\ clientPc \in [Procs -> {"down", "started", "looking", "main", "refused"}]
  /\ left \in [Procs -> SUBSET Procs]
  /\ seen \in [Procs -> SUBSET Installed]

(* p has looked at q, which was not there.                                 *)
Missed(p, q) ==
  /\ clientPc[p] \in {"looking", "main"}
  /\ q \notin left[p]
  /\ q \notin seen[p]

(* Of two clients at most one can have missed the other: every client is   *)
(* in the process list before it looks at it.                              *)
NotBothMissed ==
  \A p, q \in Installed : p # q => ~(Missed(p, q) /\ Missed(q, p))

(* Two installed clients never run side by side on the one local log, in   *)
(* whatever order they start, look and end, although a look takes time.    *)
OneRuns ==
  \A p, q \in Installed : (clientPc[p] = "main" /\ clientPc[q] = "main") => p = q

=================================================================================
