------------------------------- MODULE LocalLog -------------------------------
(***************************************************************************)
(* The state of the desktop client's handlers and of its local log, and    *)
(* what is promised about them: about the globals the handlers share and   *)
(* about the files they erased.  EraserClient says how the program keeps   *)
(* it.                                                                     *)
(***************************************************************************)
EXTENDS Integers, Sequences, FiniteSets

CONSTANTS
  Files,     \* the files a user may pick
  TempFiles, \* those of them below the temporary directories
  MAX_CNT    \* entries of dBl[]

VARIABLES
  proc,         \* "down", "starting" (before gtk_main) or "running"
  closed,       \* the main window is gone
  quit,         \* gtk_main was told to return
  stack,        \* the handlers in progress, the running one first
  dBl,          \* the log entries in memory
  colcnt,       \* the number of the entry being prepared
  chk_method,   \* 0: temporary files, 1: a file
  auth_result,  \* 0, or 1 for the error codes 1 to 4
  auth_cnt,     \* authentication retries
  Client_Log,   \* the table: entries with a flag, "N" or "D"
  fileState,    \* "intact", "cut" (truncated), "renamed" or "gone"
  \* history
  clicks, faults, expiries,
  dbFaults,     \* failures of SQLite among the faults
  leaving,      \* the user closed the window or confirmed the menu's quit
  intruded,     \* a click came while an entry waited for authentication
  mixed         \* temp and file erasing were started inside each other

NoName == "none"
Codes == {"", "J100", "J000", "J001", "J003", "J004"}
Works == {"", "pass", "temp", "trim", "start", "end"}
Entry == [name : Files \cup {NoName}, work : Works, code : Codes]

Frames ==
  [op : {"start", "quit", "pass", "temp", "trim"}, file : Files \cup {NoName},
   pc : {"push", "send", "auth", "authed", "erase", "chunk", "scan", "trim", "trimming",
         "done", "quit"},
   next : {"erase", "scan", "trim", "done", "quit"},
   todo : SUBSET TempFiles, deep : BOOLEAN]

ClientTypeOK ==
  /\ proc \in {"down", "starting", "running"}
  /\ {closed, quit, leaving, intruded, mixed} \subseteq BOOLEAN
  /\ stack \in Seq(Frames)
  /\ dBl \in [0..MAX_CNT -> Entry]
  /\ colcnt \in 1..MAX_CNT
  /\ chk_method \in {0, 1}
  /\ auth_result \in {0, 1}
  /\ auth_cnt \in 0..3
  /\ \A k \in DOMAIN Client_Log : Client_Log[k] \in [entry : Entry, flag : {"N", "D"},
                                                        by : {"pass", "temp", "trim"}]
  /\ fileState \in [Files -> {"intact", "cut", "renamed", "gone"}]

-----------------------------------------------------------------------------
(* The globals that nested handlers share.                                 *)

(* The rows the log viewer shows.                                          *)
VisibleRows == {k \in DOMAIN Client_Log : Client_Log[k].flag # "D"}

(* As long as SQLite does not fail, colcnt is one more than the visible    *)
(* rows of the table, in every state of every nesting of handlers: the     *)
(* two are only ever changed together.                                     *)
CountMatchesTable ==
  (dbFaults = 0 /\ proc # "down") => colcnt = Cardinality(VisibleRows) + 1

(* No nesting of authentications uses up the retries of a later one.       *)
RetriesRestored == stack = <<>> => auth_cnt = 0

(* The globals that nested handlers share stay what each of them takes     *)
(* them for (colcnt, auth_cnt).                                            *)
GlobalsSound == ClientTypeOK /\ CountMatchesTable /\ RetriesRestored

-----------------------------------------------------------------------------
(* The files.                                                              *)

(* What the handlers of 3pass and 7pass have logged of file f.  Entries of *)
(* trim and temp can carry the name of a file whose erasing was cancelled  *)
(* meanwhile: they take whatever dBl[colcnt] holds.                        *)
Rows(f, codes) ==
  {k \in DOMAIN Client_Log :
     /\ Client_Log[k].by = "pass"
     /\ Client_Log[k].entry.name = f
     /\ Client_Log[k].entry.code \in codes}

(* No file is destroyed without a trace: from the moment a file that is no *)
(* temporary file is truncated, the local log holds its J100 entry.        *)
ErasedIsLogged ==
  (dbFaults = 0 /\ ~intruded) =>
    \A f \in Files \ TempFiles :
      fileState[f] # "intact" => Rows(f, {"J100"}) # {}

(* An entry "complete" is about a file that is really gone.                *)
CompleteIsGone ==
  ~intruded => \A f \in Files : Rows(f, {"J000"}) # {} => fileState[f] = "gone"

(* Every erasing that was logged as started is logged as ended, once, when *)
(* all handlers have returned.                                             *)
StartsAreEnded ==
  (proc = "running" /\ stack = <<>> /\ faults = 0 /\ ~intruded /\ ~mixed) =>
    \A f \in Files :
      Cardinality(Rows(f, {"J100"})) = Cardinality(Rows(f, {"J000", "J001", "J004"}))

=============================================================================
