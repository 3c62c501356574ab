------------------------------- MODULE MCProcesses -------------------------------
(***************************************************************************)
(* Small instances for TLC of how processes come and go: the clients of a  *)
(* desktop (ClientInstances), the scripts and daemons of the server host   *)
(* (Daemons) and the handlers of a client until it ends (EraserClient),    *)
(* side by side.  part says which one a behaviour is about, the others     *)
(* stay as they begin, where none of what is fair is enabled.              *)
(***************************************************************************)
EXTENDS ClientInstances, Sequences, TLC

VARIABLES
  part,
  \* EraserClient
  proc, closed, quit, stack, dBl, colcnt, chk_method, auth_result, auth_cnt, Client_Log,
  fileState, clicks, faults, expiries, dbFaults, leaving, intruded, mixed

handlerVars == <<proc, closed, quit, stack, dBl, colcnt, chk_method, auth_result, auth_cnt,
                 Client_Log, fileState, clicks, faults, expiries, dbFaults, leaving, intruded,
                 mixed>>
hostVars == <<script, process, conf, edits, raced, ended>>
processVars == <<part, vars, handlerVars, hostVars>>

Handlers == INSTANCE EraserClient WITH
  Files <- {"file", "temp"}, TempFiles <- {"temp"}, Locked <- {}, MAX_CNT <- 12,
  MaxClicks <- 3, MaxFaults <- 0, MaxExpire <- 1

(* No file, the one of the repository, which has no section CONFIG with an *)
(* address, and one that has.                                              *)
Shipped == "config:confpath" :> "path" @@ "server:serverip" :> "home"
Written == "config:bxrgip" :> "there"
AnyConf == {Missing, Shipped, Written}

Host == INSTANCE Daemons

(* Bound: either the file stays, or one process less is ever started.      *)
HostNext(p) ==
  /\ Host!Next
  /\ IF p = "edited" THEN process'[MaxPid].st = "free" ELSE edits' = 0

ASSUME Handlers!ClientAssumption /\ Host!DaemonAssumption

ProcessInit ==
  /\ part \in {"clients", "handlers", "host", "edited"}
  /\ Init /\ Handlers!Init /\ Host!Init
  /\ (part \notin {"host", "edited"} => conf = Missing)

ProcessNext ==
  \/ part = "clients" /\ Next /\ UNCHANGED <<part, handlerVars, hostVars>>
  \/ /\ UNCHANGED vars
     /\ \/ part = "handlers" /\ Handlers!Next /\ UNCHANGED <<part, hostVars>>
        \/ part \in {"host", "edited"} /\ HostNext(part) /\ UNCHANGED <<part, handlerVars>>

(* What is fair on the host, see Daemons.                                  *)
Scheduled(step) ==
  part \in {"host", "edited"} /\ step /\ (part = "edited" => process'[MaxPid].st = "free")

ProcessSpec ==
  /\ ProcessInit /\ [][ProcessNext]_processVars
  /\ Fairness /\ Handlers!Fairness
  /\ \A s \in Scripts : WF_hostVars(Scheduled(Host!ScriptStep(s)))
  /\ \A p \in Pids : WF_hostVars(Scheduled(Host!ProcStep(p)))

-----------------------------------------------------------------------------
(* Properties, beside those of ClientInstances and ProcessState.           *)

(* A handler returns, whatever is clicked inside it.                       *)
HandlersReturn == Handlers!HandlersReturn

(* A quit ends the process, however deep in other handlers it was asked    *)
(* for.                                                                    *)
OrderlyClose == Handlers!OrderlyClose

(* A start script comes back, and what it started serves or ends.          *)
StartsSettle == Host!StartsSettle
===============================================================================
