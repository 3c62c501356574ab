-------------------------------- MODULE MCClient --------------------------------
(***************************************************************************)
(* Small instances of the desktop client for TLC, safety: the data of a    *)
(* file (FileEraser), the handlers (EraserClient) and the log viewer       *)
(* (LogViewer), side by side.  part says which one a behaviour is about,   *)
(* the others stay as they begin.                                          *)
(***************************************************************************)
EXTENDS FileEraser, LocalLog

VARIABLES
  part,
  \* LogViewer
  viewDBl, viewColcnt, viewLog, shown, overrun, work, viewFaults

handlerVars == <<proc, closed, quit, stack, dBl, colcnt, chk_method, auth_result, auth_cnt,
                 Client_Log, fileState, clicks, faults, expiries, dbFaults, leaving, intruded,
                 mixed>>
viewerVars == <<viewDBl, viewColcnt, viewLog, shown, overrun, work, viewFaults>>
clientVars == <<part, vars, handlerVars, viewerVars>>

(* A file and a temporary file: three clicks with one failure and one      *)
(* expiry, four without.                                                   *)
Handlers == INSTANCE EraserClient WITH
  Locked <- {}, MaxClicks <- 3, MaxFaults <- 1, MaxExpire <- 1
Nested == INSTANCE EraserClient WITH
  Locked <- {}, MaxClicks <- 4, MaxFaults <- 0, MaxExpire <- 0

(* Numbers to the base 2 in two bytes: from row 2 on they run into the     *)
(* name, from row 4 on with a digit.                                       *)
Viewer == INSTANCE LogViewer WITH
  Names <- {"file"}, MAX_CNT <- 7, Base <- 2, NumBytes <- 2, MaxFaults <- 1,
  dBl <- viewDBl, colcnt <- viewColcnt, Client_Log <- viewLog, faults <- viewFaults

(* Bound: rows ever inserted.                                              *)
MaxRows == 6

ASSUME Handlers!ClientAssumption /\ Nested!ClientAssumption /\ Viewer!ViewerAssumption

ClientInit ==
  /\ part \in {"data", "handlers", "nested", "viewer"}
  /\ Init /\ (part # "data" => st_size = 0 /\ type = 3)
  /\ Handlers!Init /\ Viewer!Init

ClientNext ==
  \/ part = "data" /\ Next /\ UNCHANGED <<part, handlerVars, viewerVars>>
  \/ /\ UNCHANGED vars
     /\ \/ part = "handlers" /\ Handlers!Next /\ UNCHANGED <<part, viewerVars>>
        \/ part = "nested" /\ Nested!Next /\ UNCHANGED <<part, viewerVars>>
        \/ /\ part = "viewer" /\ Viewer!Next /\ UNCHANGED <<part, handlerVars>>
           /\ Len(viewLog') <= MaxRows

ClientSpec == ClientInit /\ [][ClientNext]_clientVars

-----------------------------------------------------------------------------
(* Properties, beside FileEraser's ErasureSafe and those of LocalLog.      *)

(* The viewer shows the entries since the last clearing, newest first,     *)
(* each file under its name and each row under its own number.             *)
ViewSound == [](part = "viewer" => Viewer!RowsSound) /\ Viewer!NewestFirst
===============================================================================
