------------------------------- MODULE LogViewer -------------------------------
(***************************************************************************)
(* The local log of the client as its user sees it: the array dBl[] of     *)
(* MAX_CNT entries, the table Client_Log it is written to and read from,   *)
(* and the rows of the log viewer.  The handlers are atomic here; how they *)
(* interleave is in EraserClient.                                          *)
(*                                                                         *)
(* db_num has NumBytes bytes and db_name follows it in the packed struct.  *)
(* A number of NumBytes digits leaves its terminator in the first byte of  *)
(* db_name, so that whoever reads db_num afterwards reads on in db_name.   *)
(***************************************************************************)
EXTENDS Integers, Sequences, SequencesExt

CONSTANTS
  Names,      \* file names
  MAX_CNT,    \* entries of dBl[]
  Base,       \* 10, the base of the numbers
  NumBytes,   \* bytes of db_num, 3
  MaxFaults   \* bound: failures of SQLite

ViewerAssumption ==
  /\ {Base, NumBytes} \subseteq Nat \ {0, 1}
  /\ MAX_CNT \in 2..(Base ^ (NumBytes + 1))
  /\ MaxFaults \in Nat

VARIABLES
  dBl,         \* db_num and db_name of every entry
  colcnt,      \* the entry being prepared
  Client_Log,  \* the table: what db_num and db_name read as, and the flag
  shown,       \* the rows of the viewer
  overrun,     \* dBl[MAX_CNT] was written to: anything may happen
  \* history
  work,        \* the names logged since the log was cleared, in order
  faults

vars == <<dBl, colcnt, Client_Log, shown, overrun, work, faults>>

NoName == "none"
Empty == [num |-> 0, name |-> NoName]
NoEntries == [k \in 0..(MAX_CNT - 1) |-> Empty]

(* The number fits with its terminator, or at least its digits do.         *)
Fits(n) == n < Base ^ (NumBytes - 1)
Fills(n) == n < Base ^ NumBytes

(* Stands for the last digit of a number that reaches into db_name.        *)
Digit == "digit"

(* db_num read as a string: digits, and the name it runs on into.  A name  *)
(* written after a number that reaches into db_name covers its last digit. *)
NumText(e) ==
  IF Fits(e.num) \/ e.name = Digit THEN [digits |-> e.num, tail |-> NoName]
  ELSE [digits |-> IF Fills(e.num) THEN e.num ELSE e.num \div Base, tail |-> e.name]

(* sprintf of the number: its terminator, or its last digit and then the   *)
(* terminator, falls into db_name.                                         *)
Printed(d, k, n) ==
  [d EXCEPT ![k] = [num  |-> n,
                    name |-> IF Fits(n) THEN d[k].name ELSE IF Fills(n) THEN NoName ELSE Digit]]

(* func_get_num_work: first db_num is wiped, and what it runs on into.     *)
Numbered(d, k) == Printed([d EXCEPT ![k] = IF Fits(@.num) THEN @ ELSE Empty], k, k)

Named(d, k, f) == [d EXCEPT ![k].name = f]

Visible(log) == SelectSeq(log, LAMBDA r : r.flag # "D")

Init ==
  /\ dBl = NoEntries
  /\ colcnt = 1
  /\ Client_Log = <<>>
  /\ shown = <<>>
  /\ overrun = FALSE
  /\ work = <<>>
  /\ faults = 0

Fault == faults < MaxFaults /\ faults' = faults + 1
NoFault == UNCHANGED faults

(* The entry at colcnt of the array, which is not there at the end of it.  *)
Room == colcnt < MAX_CNT

Row(e) == [num |-> NumText(e), name |-> e.name, flag |-> "N"]

Counted == colcnt' = colcnt + 1

(* One entry of a handler.  That of a file gets its number, then its name; *)
(* trim and temp (NoName) clear the name, then number the entry; INSERT.   *)
(* BXDB_Push counts it even when the INSERT fails.                         *)
Log(f) ==
  /\ ~overrun
  /\ Room
  /\ LET d == IF f = NoName THEN Numbered(Named(dBl, colcnt, f), colcnt)
                          ELSE Named(Numbered(dBl, colcnt), colcnt, f)
     IN  /\ dBl' = d
         /\ \/ /\ NoFault
               /\ Client_Log' = Append(Client_Log, Row(d[colcnt]))
               /\ work' = Append(work, f)
            \/ /\ Fault
               /\ UNCHANGED <<Client_Log, work>>
  /\ Counted
  /\ UNCHANGED <<shown, overrun>>

Overrun ==
  /\ ~overrun
  /\ ~Room
  /\ overrun' = TRUE
  /\ UNCHANGED <<dBl, colcnt, Client_Log, shown, work, faults>>

(* Mutant: the names are listed in the order of the array.                 *)
Filled_Forward(d, n) ==
  [i \in 1..(n - 1) |-> [num |-> NumText(d[i]), name |-> d[i].name]]

(* create_and_fill_model: numbers from the front, names from the back.     *)
Filled(d, n) ==
  [i \in 1..(n - 1) |-> [num |-> NumText(d[i]), name |-> d[n - i].name]]

Read(log) == Visible(log)

(* A row is copied back; its db_num may again run on into db_name.         *)
Reread(r) == [num |-> r.num.digits, name |-> r.name]

(* on_smn_log_activate or the start of the program: BXDB_Pop reads the     *)
(* table into the array, numbers the entry after it, and the viewer is     *)
(* filled.  The rows are not counted before they are written.              *)
View ==
  /\ ~overrun
  /\ NoFault
  /\ LET rows == Read(Client_Log)
         n == Len(rows) + 1
         d == [k \in DOMAIN dBl |-> IF k \in DOMAIN rows THEN Reread(rows[k]) ELSE dBl[k]]
     IN  IF n < MAX_CNT
         THEN /\ dBl' = IF rows = <<>> THEN d ELSE Printed(d, n, n)
              /\ colcnt' = n
              /\ shown' = Filled(dBl', n)
              /\ UNCHANGED overrun
         ELSE /\ overrun' = TRUE
              /\ UNCHANGED <<dBl, colcnt, shown>>
  /\ UNCHANGED <<Client_Log, work>>

(* BXDB_Pop fails: an empty viewer, and the array is written anew from its *)
(* first entry on.                                                         *)
ViewFails ==
  /\ ~overrun
  /\ Fault
  /\ colcnt' = 1
  /\ shown' = <<>>
  /\ UNCHANGED <<dBl, Client_Log, overrun, work>>

(* on_logviewer_clear_clicked: the array is emptied whether the UPDATE     *)
(* succeeds or not; colcnt is reset once the database is open.             *)
Clear ==
  /\ ~overrun
  /\ \/ /\ NoFault
        /\ Client_Log' = [k \in DOMAIN Client_Log |-> [Client_Log[k] EXCEPT !.flag = "D"]]
        /\ work' = <<>>
        /\ colcnt' = 1
     \/ /\ Fault
        /\ colcnt' \in {1, colcnt}
        /\ UNCHANGED <<Client_Log, work>>
  /\ dBl' = NoEntries
  /\ shown' = Filled(dBl', colcnt')
  /\ UNCHANGED overrun

(* The process ends and is started again: main() reads the table.          *)
Restart ==
  /\ ~overrun
  /\ NoFault
  /\ LET rows == Read(Client_Log)
         n == Len(rows) + 1
         d == [k \in DOMAIN dBl |-> IF k \in DOMAIN rows THEN Reread(rows[k]) ELSE Empty]
     IN  IF n < MAX_CNT
         THEN /\ dBl' = IF rows = <<>> THEN d ELSE Printed(d, n, n)
              /\ colcnt' = n
              /\ UNCHANGED overrun
         ELSE /\ overrun' = TRUE
              /\ UNCHANGED <<dBl, colcnt>>
  /\ shown' = <<>>
  /\ UNCHANGED <<Client_Log, work>>

Next ==
  \/ \E f \in Names \cup {NoName} : Log(f)
  \/ Overrun \/ View \/ ViewFails \/ Clear \/ Restart

Spec == Init /\ [][Next]_vars

-----------------------------------------------------------------------------
(* Properties.                                                             *)

Texts == Names \cup {NoName, Digit}
Strings == [digits : 0..MAX_CNT, tail : Texts]
Shown == [num : Strings, name : Texts]

TypeOK ==
  /\ dBl \in [0..(MAX_CNT - 1) -> [num : 0..MAX_CNT, name : Texts]]
  /\ colcnt \in 1..MAX_CNT
  /\ \A k \in DOMAIN Client_Log :
       Client_Log[k] \in [num : Strings, name : Texts, flag : {"N", "D"}]
  /\ \A k \in DOMAIN shown : shown[k] \in Shown
  /\ overrun \in BOOLEAN
  /\ faults \in 0..MaxFaults

(* The viewer lists the newest entry first, each file under its own name,  *)
(* and leaves out none of those logged since the last clearing - although  *)
(* a failed INSERT leaves a gap in dBl and wide numbers run into names.    *)
NewestFirst ==
  [][View /\ ~overrun' =>
       /\ Len(shown') = Len(work)
       /\ \A i \in DOMAIN work :
            work[i] \in Names => shown'[Len(work) + 1 - i].name = work[i]]_vars

(* Up to the widest number that fits, and as long as SQLite does not fail, *)
(* row i of the viewer has the number i, across clearing and restarts.     *)
NumberedInOrder ==
  faults = 0 =>
    \A i \in DOMAIN shown : Fits(i) => shown[i].num = [digits |-> i, tail |-> NoName]

(* Of two rows no number is shown twice, as long as the digits themselves  *)
(* have room, even where a name is read behind them.                       *)
NumbersDiffer ==
  faults = 0 =>
    \A i, j \in DOMAIN shown :
      (i # j /\ Fills(i) /\ Fills(j)) => shown[i].num.digits # shown[j].num.digits

(* The rows are numbered one after the other in every state the entries,   *)
(* clearings and restarts lead to (create_and_fill_model, BXDB_Pop).       *)
RowsSound == TypeOK /\ NumberedInOrder /\ NumbersDiffer

(* "Maximum number of rows of the log viewer" (line 47): the array is      *)
(* never written behind its end.                                           *)
RowsFit == ~overrun

===============================================================================
