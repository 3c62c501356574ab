------------------------------ MODULE LogParser ------------------------------
(***************************************************************************)
(* The log parser of the server, bxr_parser.c: a daemon that moves every   *)
(* new row of tb_log_event_law (the raw log) into tb_log_event_detail.     *)
(*                                                                         *)
(* One round of main()'s loop is a SELECT of the rows still in state 'N'   *)
(* (action Poll), then for every row of that snapshot Log_Task_Trans():    *)
(* an INSERT into the detail table (InsertDetail) followed by an UPDATE    *)
(* that closes the raw row (MarkRow).  The two statements are autocommitted *)
(* one by one: between them the parser can be killed, the connection can   *)
(* drop and another parser can run.                                        *)
(*                                                                         *)
(* The content of a row is abstracted to what the parser does with it:     *)
(*   plain     the INSERT built from it is accepted by the detail table    *)
(*   rejected  valid JSON, but the detail table refuses the INSERT (a value *)
(*             longer than its column, a quote that ends the SQL string)   *)
(*   poison    JSON without a usable "from": strcmp(NULL, ...) at line 140 *)
(*             kills the process                                           *)
(***************************************************************************)
EXTENDS Integers, Sequences, FiniteSets

CONSTANTS
  Parsers,        \* the parser processes running beside each other
  Kinds,          \* the kinds of raw row that occur
  DetailColumns,  \* the columns tb_log_event_detail has in the database
  MaxRows,        \* bound: rows of the raw log
  MaxDisturb,     \* bound: kills, dropped connections, failed statements
  AttemptCap      \* the attempts at a row are counted up to this number

ASSUME ParserAssumption ==
  /\ Kinds \subseteq {"plain", "rejected", "poison"}
  /\ MaxRows \in Nat
  /\ MaxDisturb \in Nat
  /\ AttemptCap \in Nat

(* The column list of the INSERT that Log_Task_Trans builds.               *)
InsertColumns ==
  {"cDate", "pIdx", "appTo", "trFunction", "accessToken", "appFrom",
   "clientId", "logType", "fileName", "fileSize", "filePath", "logWork",
   "eCode", "logStat", "pDate", "Code", "Mesg"}

(* The columns of tb_log_event_detail as the repository's DDL creates it.  *)
ShippedColumns ==
  {"idx", "cDate", "appFrom", "appTo", "trFunction", "accessToken",
   "clientId", "logType", "fileName", "fileSize", "filePath", "logWork",
   "eCode", "logStat", "pDate", "lsfCode", "lsfMesg", "pIdx"}

VARIABLES
  law,        \* tb_log_event_law: law[i] is the row with idx i
  detail,     \* tb_log_event_detail: detail[i][p] rows with pIdx i, by p
  pc,         \* pc[p]: where parser p is in main() and Log_Task_Trans()
  batch,      \* batch[p]: rows of the stored result not yet worked off
  conn,       \* conn[p]: the one MySQL connection of p still works
  attempts,   \* history: attempts[i] failed attempts at row i
  disturbed   \* history: disturbed[p] kills, drops and faults p suffered

vars == <<law, detail, pc, batch, conn, attempts, disturbed>>

Rows == 1..MaxRows
Stored == 1..Len(law)

Row == [kind : Kinds, state : {"N", "C"}, cDate : Nat, rCount : {0}]

(* tb_log_event_law.rCount is NULL in every row the server inserts; the    *)
(* parser reads it through IFNULL(rCount,0) and compares it with 5.        *)
RetryLimit == 5

Open == {i \in Stored : law[i].state = "N"}

(* Mutant: the SELECT forgets state = 'N'.                                 *)
Selected_AnyState == {i \in Stored : law[i].rCount < RetryLimit}

(* WHERE state = 'N' AND IFNULL(rCount,0) < 5                              *)
Selected == {i \in Open : law[i].rCount < RetryLimit}

(* Mutant: the SELECT without ORDER BY.                                    *)
Results_Unordered ==
  {s \in [1..Cardinality(Selected) -> Selected] :
     \A j, k \in DOMAIN s : j < k => s[j] # s[k]}

(* ORDER BY cDate: rows created in the same millisecond come in any order. *)
Results ==
  {s \in [1..Cardinality(Selected) -> Selected] :
     \A j, k \in DOMAIN s : j < k => /\ s[j] # s[k]
                                     /\ law[s[j]].cDate <= law[s[k]].cDate}

Current(p) == Head(batch[p])

NoRows == [p \in Parsers |-> 0]

Init ==
  /\ law = <<>>
  /\ detail = [i \in Rows |-> NoRows]
  /\ pc = [p \in Parsers |-> "down"]
  /\ batch = [p \in Parsers |-> <<>>]
  /\ conn = [p \in Parsers |-> FALSE]
  /\ attempts = [i \in Rows |-> 0]
  /\ disturbed = [p \in Parsers |-> 0]

-----------------------------------------------------------------------------
(* The writer of the raw log, Log_DBMS_Insert of the server: one autocom-  *)
(* mitted row in state 'N' stamped now(3); rCount is left NULL.            *)

LastDate == IF law = <<>> THEN 0 ELSE law[Len(law)].cDate

Accept(k) ==
  /\ Len(law) < MaxRows
  /\ \E t \in {LastDate, LastDate + 1} :
       law' = Append(law, [kind |-> k, state |-> "N", cDate |-> t, rCount |-> 0])

ServerInsert ==
  /\ \E k \in Kinds : Accept(k)
  /\ UNCHANGED <<detail, pc, batch, conn, attempts, disturbed>>

-----------------------------------------------------------------------------
(* The parser.                                                             *)

Goto(p, l) == pc' = [pc EXCEPT ![p] = l]

(* The process is gone: its result set and its connection go with it.      *)
Exit(p) ==
  /\ Goto(p, "down")
  /\ batch' = [batch EXCEPT ![p] = <<>>]
  /\ conn' = [conn EXCEPT ![p] = FALSE]

(* main() fetches the next row of the snapshot, or frees the result and    *)
(* sleeps before the next SELECT.                                          *)
NextRow(p) ==
  /\ batch' = [batch EXCEPT ![p] = Tail(@)]
  /\ Goto(p, IF Len(batch[p]) = 1 THEN "poll" ELSE "insert")

(* Mutant: a failed row is tried again before the next one is fetched.     *)
GiveUpRow_Again(p) == UNCHANGED <<pc, batch, attempts>>

(* Log_Task_Trans returned FALSE: main() logs it and goes on.  Nothing     *)
(* writes rCount.                                                          *)
GiveUpRow(p) ==
  /\ NextRow(p)
  /\ attempts' = [attempts EXCEPT ![Current(p)] =
                    IF @ < AttemptCap THEN @ + 1 ELSE @]

CanDisturb(p) == disturbed[p] < MaxDisturb
Disturb(p) ==
  /\ CanDisturb(p)
  /\ disturbed' = [disturbed EXCEPT ![p] = @ + 1]

AddDetail(p) == detail' = [detail EXCEPT ![Current(p)][p] = @ + 1]

(* start_bxrgp.sh, BXR_Daemonize and the one mysql_real_connect.  A start  *)
(* whose connect fails leaves the parser down and changes nothing.         *)
Start(p) ==
  /\ pc[p] = "down"
  /\ Goto(p, "poll")
  /\ conn' = [conn EXCEPT ![p] = TRUE]
  /\ UNCHANGED <<law, detail, batch, attempts, disturbed>>

(* SELECT and mysql_store_result; a failed SELECT ends main().             *)
Poll(p) ==
  /\ pc[p] = "poll"
  /\ IF conn[p]
     THEN /\ \E s \in Results :
               /\ batch' = [batch EXCEPT ![p] = s]
               /\ Goto(p, IF Len(s) = 0 THEN "poll" ELSE "insert")
          /\ UNCHANGED conn
     ELSE Exit(p)
  /\ UNCHANGED <<law, detail, attempts, disturbed>>

Accepted(p) ==
  /\ conn[p]
  /\ InsertColumns \subseteq DetailColumns
  /\ law[Current(p)].kind = "plain"

(* A row without "from": the process dies before it has sent any SQL.      *)
DieOfRow(p) ==
  /\ pc[p] = "insert"
  /\ law[Current(p)].kind = "poison"
  /\ Exit(p)
  /\ UNCHANGED <<law, detail, attempts, disturbed>>

(* The INSERT succeeds and is committed.                                   *)
InsertDetail(p) ==
  /\ pc[p] = "insert"
  /\ Accepted(p)
  /\ AddDetail(p)
  /\ Goto(p, "mark")
  /\ UNCHANGED <<law, batch, conn, attempts, disturbed>>

(* Mutant: the return after a failed INSERT (line 170) is missing.         *)
InsertRefused_GoesOn(p) ==
  /\ pc[p] = "insert"
  /\ law[Current(p)].kind # "poison"
  /\ ~Accepted(p)
  /\ Goto(p, "mark")
  /\ UNCHANGED <<law, detail, batch, conn, attempts, disturbed>>

(* The database refuses the INSERT, or the connection is gone.             *)
InsertRefused(p) ==
  /\ pc[p] = "insert"
  /\ law[Current(p)].kind # "poison"
  /\ ~Accepted(p)
  /\ GiveUpRow(p)
  /\ UNCHANGED <<law, detail, conn, disturbed>>

(* UPDATE ... WHERE idx AND state = 'N' AND cDate.  When another parser    *)
(* has closed the row meanwhile it matches nothing and still succeeds.     *)
MarkRow(p) ==
  /\ pc[p] = "mark"
  /\ conn[p]
  /\ law' = [law EXCEPT ![Current(p)].state = "C"]
  /\ NextRow(p)
  /\ UNCHANGED <<detail, conn, attempts, disturbed>>

(* The UPDATE fails: the detail row stays, the raw row stays open.         *)
MarkRefused(p) ==
  /\ pc[p] = "mark"
  /\ ~conn[p]
  /\ GiveUpRow(p)
  /\ UNCHANGED <<law, detail, conn, disturbed>>

ParserStep(p) ==
  \/ Poll(p)
  \/ DieOfRow(p)
  \/ InsertDetail(p)
  \/ InsertRefused(p)
  \/ MarkRow(p)
  \/ MarkRefused(p)

-----------------------------------------------------------------------------
(* What can go wrong around the parser.                                    *)

(* kill -9 of stop_bxrgp.sh, or a crash of the host.                       *)
Kill(p) ==
  /\ pc[p] # "down"
  /\ Disturb(p)
  /\ Exit(p)
  /\ UNCHANGED <<law, detail, attempts>>

(* The connection drops; the parser never reconnects.                      *)
ConnLost(p) ==
  /\ conn[p]
  /\ Disturb(p)
  /\ conn' = [conn EXCEPT ![p] = FALSE]
  /\ UNCHANGED <<law, detail, pc, batch, attempts>>

(* The INSERT is committed but its answer is lost with the connection:     *)
(* Log_Task_Trans sees a failure and does not try the UPDATE.              *)
InsertAnswerLost(p) ==
  /\ pc[p] = "insert"
  /\ Accepted(p)
  /\ Disturb(p)
  /\ AddDetail(p)
  /\ GiveUpRow(p)
  /\ conn' = [conn EXCEPT ![p] = FALSE]
  /\ UNCHANGED law

(* One statement fails (lock wait timeout, deadlock victim) while the      *)
(* connection survives.                                                    *)
StatementFails(p) ==
  /\ pc[p] = "mark" \/ (pc[p] = "insert" /\ Accepted(p))
  /\ conn[p]
  /\ Disturb(p)
  /\ GiveUpRow(p)
  /\ UNCHANGED <<law, detail, conn>>

Trouble(p) ==
  \/ Kill(p)
  \/ ConnLost(p)
  \/ InsertAnswerLost(p)
  \/ StatementFails(p)

Next ==
  \/ ServerInsert
  \/ \E p \in Parsers : Start(p) \/ ParserStep(p) \/ Trouble(p)

Spec == Init /\ [][Next]_vars

(* A parser that is running is scheduled.  Nothing restarts one that is    *)
(* down: there is no supervisor in the repository.                         *)
FairSpec == Spec /\ \A p \in Parsers : WF_vars(ParserStep(p))

-----------------------------------------------------------------------------
(* Properties.                                                             *)

(* Types of all variables (one type invariant for the module).             *)
TypeOK ==
  /\ law \in Seq(Row)
  /\ Len(law) <= MaxRows
  /\ detail \in [Rows -> [Parsers -> Nat]]
  /\ pc \in [Parsers -> {"down", "poll", "insert", "mark"}]
  /\ batch \in [Parsers -> Seq(Rows)]
  /\ conn \in [Parsers -> BOOLEAN]
  /\ attempts \in [Rows -> 0..AttemptCap]
  /\ disturbed \in [Parsers -> 0..MaxDisturb]

(* A raw row is closed only when a detail row made from it is already in   *)
(* the database: no order of kills, drops, failed statements and parsers   *)
(* loses an event between the INSERT (line 167) and the UPDATE (line 181). *)
ClosedHasDetail ==
  \A i \in Stored : law[i].state = "C" => \E p \in Parsers : detail[i][p] > 0

(* At-least-once, and how much more than once: one parser copies one row   *)
(* at most once more than it was killed, cut off or refused.               *)
DuplicatesBounded ==
  \A i \in Rows, p \in Parsers : detail[i][p] <= disturbed[p] + 1

(* The copies that parser p made of rows it had copied before.             *)
SurplusCopies(p) == UNION {{i} \X (2..detail[i][p]) : i \in Rows}

(* Over the whole table: one disturbance costs at most one surplus detail  *)
(* row, however many rows were in the batch it hit.                        *)
OneSurplusPerDisturbance ==
  \A p \in Parsers : Cardinality(SurplusCopies(p)) <= disturbed[p]

(* Head-of-line blocking: a row that kills the parser is never closed, and *)
(* because of ORDER BY cDate no row created after it is ever copied.       *)
NothingPassesPoison ==
  \A j \in Stored : law[j].kind = "poison" =>
    /\ law[j].state = "N"
    /\ \A i \in Stored, p \in Parsers :
         law[j].cDate < law[i].cDate => law[i].state = "N" /\ detail[i][p] = 0

(* The parser implements the abstract event log.  With one parser a copy   *)
(* is only ever made of an open row: a batch that was read before the row  *)
(* was closed is the hazard, since Log_Task_Trans never reads it again.    *)
EventStatus ==
  [i \in Rows |-> CASE i \notin Stored -> "absent"
                    [] i \in Open -> "open"
                    [] OTHER -> "closed"]

Abstract == INSTANCE EventLog WITH
  Events <- Rows, Workers <- Parsers, status <- EventStatus, copies <- detail

ImplementsEventLog == Abstract!Spec

(* A row that no poison row precedes is closed, provided the parser is     *)
(* always started again.  Disturbances are finitely many (MaxDisturb).     *)
RestartedForever(p) == []<>(pc[p] # "down")

Behind(i) == \E j \in Stored : law[j].kind = "poison" /\ law[j].cDate <= law[i].cDate

Waiting(i) == i \in Stored /\ law[i].kind = "plain" /\ law[i].state = "N" /\ ~Behind(i)

PlainRowsClosed ==
  (\E p \in Parsers : RestartedForever(p)) =>
    \A i \in Rows : Waiting(i) ~> ~Waiting(i)

(* What the schema says of a raw row: rCount is the 'Parser Retry Count'   *)
(* (DDL line 174) and the SELECT drops rows with five retries (line 51).   *)
RetriesBounded == \A i \in Rows : attempts[i] <= RetryLimit

-----------------------------------------------------------------------------
(* The inductive invariant behind ClosedHasDetail, DuplicatesBounded and   *)
(* NothingPassesPoison; proved in LogParserProofs.                         *)

(* A batch is non-empty exactly while a row of it is worked on, and holds  *)
(* every row at most once.                                                 *)
WellFormed(s) ==
  /\ \A k \in 1..Len(s) : s[k] \in Stored
  /\ \A j, k \in 1..Len(s) : j < k => s[j] # s[k]

BatchShape ==
  \A p \in Parsers :
    /\ pc[p] \in {"insert", "mark"} <=> batch[p] # <<>>
    /\ WellFormed(batch[p])

(* Rows that do not exist have no copies, and the row whose UPDATE is due  *)
(* has one.                                                                *)
CopiesOfStored ==
  /\ \A i \in Rows, p \in Parsers : i \notin Stored => detail[i][p] = 0
  /\ \A p \in Parsers : pc[p] = "mark" => detail[Current(p)][p] > 0

(* The one copy of row i by p that no disturbance has to account for.      *)
Settled(i, p) ==
  \/ law[i].state = "C"
  \/ pc[p] = "mark" /\ conn[p] /\ Current(p) = i

CopiesAccounted ==
  /\ \A i \in Stored, p \in Parsers :
       detail[i][p] <= disturbed[p] + (IF Settled(i, p) THEN 1 ELSE 0)
  /\ \A p \in Parsers : \A k \in 1..Len(batch[p]) :
       (pc[p] = "insert" \/ k > 1) => detail[batch[p][k]][p] <= disturbed[p]

(* The rows p has copied and may copy again, open ones and those still in  *)
(* its batch; each of them has cost a disturbance, as has each surplus     *)
(* copy.  The row whose UPDATE is due is none of them while it can be made. *)
Remaining(p) == {batch[p][k] : k \in {j \in 1..Len(batch[p]) : pc[p] = "insert" \/ j > 1}}

Recopyable(p) ==
  {i \in Stored : /\ detail[i][p] > 0
                  /\ law[i].state = "N" \/ i \in Remaining(p)
                  /\ ~(pc[p] = "mark" /\ conn[p] /\ Current(p) = i)}

SurplusPaidFor ==
  \A p \in Parsers :
    Cardinality(SurplusCopies(p)) + Cardinality(Recopyable(p)) <= disturbed[p]

(* Rows are dated in the order of their numbers, a batch that holds a row  *)
(* holds every older poison row before it, and the row whose UPDATE is due *)
(* is none: so what comes first in a batch is older than every poison row. *)
DatesAscend == \A i, j \in Stored : i < j => law[i].cDate <= law[j].cDate

OlderPoisonFirst(s) ==
  \A k \in 1..Len(s) : \A j \in Stored :
    law[j].kind = "poison" /\ law[j].cDate < law[s[k]].cDate
      => \E m \in 1..(k - 1) : s[m] = j

PoisonFirst ==
  \A p \in Parsers :
    /\ OlderPoisonFirst(batch[p])
    /\ pc[p] = "mark" => law[Current(p)].kind # "poison"

(* With one parser nothing in a batch is closed before its turn comes: the *)
(* snapshot is stale about new rows only.  Proved in LogParserProofs.      *)
SingleParser == \A p, q \in Parsers : p = q

BatchOpen ==
  \A p \in Parsers : \A k \in 1..Len(batch[p]) : law[batch[p][k]].state = "N"

=============================================================================
