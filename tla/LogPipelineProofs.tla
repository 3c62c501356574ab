--------------------------- MODULE LogPipelineProofs ---------------------------
(***************************************************************************)
(* Theorems about LogPipeline, from the theorems about its halves: the     *)
(* pipeline is a LogDelivery and a LogParser at once, so that what each of *)
(* them promises holds of it, and the table they share joins the promises. *)
(* And about the processes at its ends, how they come and go: Daemons, for *)
(* any number of scripts and processes, any configurations and any         *)
(* interleaving, and ClientInstances, for any number of clients.           *)
(***************************************************************************)
EXTENDS LogPipeline, ProcessState, SequenceTheorems, FiniteSetTheorems, TLAPS

Host == INSTANCE Daemons
Clients == INSTANCE ClientInstances

DP == INSTANCE LogDeliveryProofs
PP == INSTANCE LogParserProofs WITH pc <- parserPc

-----------------------------------------------------------------------------
(* The halves the pipeline is made of (D and P) are the halves the         *)
(* theorems are about (DP and PP): they differ in name only.               *)

(* The initial states.                                                     *)
LEMMA SameInit == Init => DP!Init /\ PP!Init
  BY DEF Init, D!Init, DP!Init, D!NoEvent, DP!NoEvent, D!Epochs, DP!Epochs,
         P!Init, PP!Init, P!NoRows, PP!NoRows, P!Rows, PP!Rows

(* The steps of the delivery.                                              *)
LEMMA SameDelivery ==
  /\ D!NextNoRow => DP!NextNoRow
  /\ D!Storing => DP!Storing
  BY DEF D!NextNoRow, DP!NextNoRow, D!Receive, DP!Receive, D!Finish, DP!Finish,
         D!TracerCrash, DP!TracerCrash, D!Dial, DP!Dial, D!DialFails, DP!DialFails,
         D!Send, DP!Send, D!Reconnect, DP!Reconnect, D!Resend, DP!Resend,
         D!ConnectionLost, DP!ConnectionLost, D!HoldRequest, DP!HoldRequest,
         D!NoticeHangUp, DP!NoticeHangUp, D!ServerStart, DP!ServerStart,
         D!TakeRequest, DP!TakeRequest, D!InsertRefused, DP!InsertRefused, D!Reply,
         DP!Reply, D!ServerCrash, DP!ServerCrash, D!DbStop, DP!DbStop, D!DbStart,
         DP!DbStart, D!Step, DP!Step, D!Connect, DP!Connect, D!Transmit,
         DP!Transmit, D!HangUp, DP!HangUp, D!InsertReturns, DP!InsertReturns,
         D!CanConnect, DP!CanConnect, D!Fault, DP!Fault, D!RemoveAt, DP!RemoveAt,
         D!ToSet, DP!ToSet, D!NoEvent, DP!NoEvent, D!Epochs, DP!Epochs,
         D!tracerVars, DP!tracerVars, D!wireVars, DP!wireVars, D!serverVars,
         DP!serverVars, D!Storing, DP!Storing, D!InsertRow, DP!InsertRow,
         D!InsertAnswerLost, DP!InsertAnswerLost

(* The steps of a parser.                                                  *)
LEMMA SameParser ==
  ASSUME NEW p \in Parsers, P!Start(p) \/ P!ParserStep(p) \/ P!Trouble(p)
  PROVE  PP!Start(p) \/ PP!ParserStep(p) \/ PP!Trouble(p)
  BY DEF P!Start, PP!Start, P!ParserStep, PP!ParserStep, P!Trouble, PP!Trouble,
         P!Poll, PP!Poll, P!DieOfRow, PP!DieOfRow, P!InsertDetail, PP!InsertDetail,
         P!InsertRefused, PP!InsertRefused, P!MarkRow, PP!MarkRow, P!MarkRefused,
         PP!MarkRefused, P!Kill, PP!Kill, P!ConnLost, PP!ConnLost,
         P!InsertAnswerLost, PP!InsertAnswerLost, P!StatementFails,
         PP!StatementFails, P!Goto, PP!Goto, P!Exit, PP!Exit, P!NextRow, PP!NextRow,
         P!GiveUpRow, PP!GiveUpRow, P!CanDisturb, PP!CanDisturb, P!Disturb,
         PP!Disturb, P!AddDetail, PP!AddDetail, P!Accepted, PP!Accepted,
         P!InsertColumns, PP!InsertColumns, P!Current, PP!Current, P!Results,
         PP!Results, P!Selected, PP!Selected, P!Open, PP!Open, P!Stored, PP!Stored,
         P!RetryLimit, PP!RetryLimit, P!Cardinality, PP!Cardinality

(* A row that is added to the raw log.                                     *)
LEMMA SameAccept == \A k : P!Accept(k) => PP!Accept(k)
  BY DEF P!Accept, PP!Accept, P!LastDate, PP!LastDate

-----------------------------------------------------------------------------
(* Every step of the pipeline is a step of the delivery or none.           *)
LEMMA DeliveryStep == [Next]_vars => [DP!Next]_(DP!vars)
<1> SUFFICES ASSUME [Next]_vars PROVE DP!Next \/ UNCHANGED DP!vars
  OBVIOUS
<1>1. CASE Delivers
  BY <1>1, SameDelivery DEF Delivers, DP!Next
<1>2. CASE ServerStores
  BY <1>2, SameDelivery DEF ServerStores, DP!Next
<1>3. CASE UNCHANGED deliveryVars
  BY <1>3 DEF deliveryVars, DP!vars, DP!tracerVars, DP!wireVars, DP!serverVars
<1> QED
  BY <1>1, <1>2, <1>3 DEF Next, Parses, vars

(* ... and a step of the parser or none, when the server works on an event *)
(* of the delivery.                                                        *)
LEMMA ParserStep == DP!DeliveryTypes /\ [Next]_vars => [PP!Next]_(PP!vars)
<1> SUFFICES ASSUME DP!DeliveryTypes, [Next]_vars PROVE PP!Next \/ UNCHANGED PP!vars
  OBVIOUS
<1>1. CASE UNCHANGED <<law, parserVars>>
  BY <1>1 DEF parserVars, PP!vars
<1>2. CASE ServerStores
  <2>1. srv = "insert"
    BY <1>2 DEF ServerStores, D!Storing, D!InsertRow, D!InsertAnswerLost
  <2>2. cur[1] \in Events
    BY <2>1 DEF DP!DeliveryTypes, DP!WorkedOn, DP!Links
  <2>3. KindOf[cur[1]] \in Kinds
    BY <2>2, PipelineAssumption
  <2>4. PP!Accept(KindOf[cur[1]]) /\ UNCHANGED parserVars
    BY <1>2, SameAccept DEF ServerStores
  <2>5. PP!ServerInsert
    BY <2>3, <2>4 DEF PP!ServerInsert, parserVars
  <2> QED
    BY <2>5 DEF PP!Next
<1>3. CASE Parses
  BY <1>3, SameParser DEF Parses, PP!Next
<1> QED
  BY <1>1, <1>2, <1>3 DEF Next, Delivers, vars

(* The types of the delivery, which its steps need to be the parser's.     *)
LEMMA TypesKept == Spec => [](DP!DeliveryTypes)
<1>1. Init => DP!DeliveryTypes
  BY SameInit, DP!DeliveryInit, PipelineAssumption
<1>2. DP!DeliveryTypes /\ [Next]_vars => DP!DeliveryTypes'
  BY DeliveryStep, DP!DeliveryTypesNext, PipelineAssumption
<1> QED
  BY <1>1, <1>2, PTL DEF Spec

(* The pipeline implements both of its halves: parser and server, put to   *)
(* work on one table, do nothing that either could not do alone.           *)
THEOREM PipelineImplementsHalves == Spec => DP!Spec /\ PP!Spec
<1>1. Init => DP!Init /\ PP!Init
  BY SameInit
<1>2. [Next]_vars => [DP!Next]_(DP!vars)
  BY DeliveryStep
<1>3. DP!DeliveryTypes /\ [Next]_vars => [PP!Next]_(PP!vars)
  BY ParserStep
<1> QED
  BY <1>1, <1>2, <1>3, TypesKept, PTL DEF Spec, DP!Spec, PP!Spec

-----------------------------------------------------------------------------
(* What both halves know of the raw log.                                   *)

Types == DP!DeliveryTypes /\ PP!Types

(* ... and of both halves.                                                 *)
LEMMA BothTypes == Spec => []Types
<1>1. PP!Init => PP!Types
  BY PP!TypesInit, PipelineAssumption
<1>2. PP!Types /\ [PP!Next]_(PP!vars) => PP!Types'
  BY PP!TypesNext, PipelineAssumption
<1> QED
  BY <1>1, <1>2, TypesKept, PipelineImplementsHalves, PTL DEF PP!Spec, Types

(* A step that stores nothing leaves kinds and number of the rows alone.   *)
LEMMA ParserKeepsTable ==
  ASSUME Types, TableShared, Parses
  PROVE  TableShared'
<1>1. PICK p \in Parsers : PP!Start(p) \/ PP!ParserStep(p) \/ PP!Trouble(p)
  BY SameParser DEF Parses
<1>2. rows' = rows
  BY DEF Parses, deliveryVars
<1>3. CASE law' = law
  BY <1>2, <1>3 DEF TableShared
<1>4. CASE PP!MarkRow(p)
  <2>1. /\ PP!Stored' = PP!Stored
        /\ \A i \in PP!Stored : law'[i].kind = law[i].kind
    BY <1>4, PP!MarkFacts, PipelineAssumption DEF Types
  <2>2. law \in Seq(PP!Row) /\ law' \in Seq(PP!Row)
    <3>1. [PP!Next]_(PP!vars)
      BY <1>1 DEF PP!Next
    <3>2. PP!Types'
      BY <3>1, PP!TypesNext, PipelineAssumption DEF Types
    <3> QED
      BY <3>2 DEF Types, PP!Types, PP!TypeOK
  <2>3. Len(law') = Len(law)
    <3>1. Len(law) \in Nat /\ Len(law') \in Nat
      BY <2>2, LenProperties
    <3>2. 1..Len(law') = 1..Len(law)
      BY <2>1 DEF PP!Stored
    <3> QED
      BY <3>1, <3>2
  <2>4. rows \in Seq(Events)
    BY DEF Types, DP!DeliveryTypes, DP!TypeOK, DP!ServerTypes
  <2>5. DOMAIN rows = PP!Stored
    BY <2>4, LenProperties DEF TableShared, PP!Stored
  <2> QED
    BY <1>2, <2>1, <2>3, <2>5 DEF TableShared
<1>5. CASE ~PP!MarkRow(p)
  <2>1. law' = law
    BY <1>1, <1>5 DEF PP!Start, PP!ParserStep, PP!Trouble, PP!Poll, PP!DieOfRow,
       PP!InsertDetail, PP!InsertRefused, PP!MarkRefused, PP!Kill, PP!ConnLost,
       PP!InsertAnswerLost, PP!StatementFails
  <2> QED
    BY <1>3, <2>1
<1> QED
  BY <1>4, <1>5

(* The server's INSERT adds one row to both views of the table.            *)
LEMMA ServerKeepsTable ==
  ASSUME Types, TableShared, ServerStores
  PROVE  TableShared'
<1>1. /\ DP!Storing /\ PP!Accept(KindOf[cur[1]])
      /\ srv = "insert" /\ rows' = Append(rows, cur[1])
  BY SameDelivery, SameAccept DEF ServerStores, D!Storing, D!InsertRow, D!InsertAnswerLost
<1>2. /\ rows \in Seq(Events) /\ cur[1] \in Events
  BY <1>1 DEF Types, DP!DeliveryTypes, DP!TypeOK, DP!ServerTypes, DP!WorkedOn, DP!Links
<1>3. KindOf[cur[1]] \in Kinds
  BY <1>2, PipelineAssumption
<1>4. /\ Len(law') = Len(law) + 1 /\ Len(law) \in Nat
      /\ \A i \in 1..Len(law) : law'[i] = law[i]
      /\ law'[Len(law')].kind = KindOf[cur[1]]
  BY <1>1, <1>3, PP!AcceptFacts, PipelineAssumption DEF Types, PP!Types
<1>5. /\ rows' \in Seq(Events) /\ Len(rows') = Len(rows) + 1 /\ Len(rows) \in Nat
      /\ \A i \in 1..Len(rows) : rows'[i] = rows[i]
      /\ rows'[Len(rows) + 1] = cur[1]
  BY <1>1, <1>2, AppendProperties, LenProperties
<1>6. /\ DOMAIN rows = 1..Len(rows) /\ DOMAIN rows' = 1..(Len(rows) + 1)
  BY <1>2, <1>5, LenProperties
<1>7. /\ Len(law) = Len(rows)
      /\ \A i \in 1..Len(rows) : law[i].kind = KindOf[rows[i]]
  BY <1>6 DEF TableShared
<1>8. ASSUME NEW i \in 1..(Len(rows) + 1) PROVE law'[i].kind = KindOf[rows'[i]]
  <2>1. CASE i \in 1..Len(rows)
    BY <1>4, <1>5, <1>7, <2>1
  <2>2. CASE i = Len(rows) + 1
    BY <1>4, <1>5, <1>7, <2>2
  <2> QED
    BY <1>5, <2>1, <2>2
<1> QED
  BY <1>4, <1>5, <1>6, <1>7, <1>8 DEF TableShared

(* The two views of the table stay the same in every step.                 *)
LEMMA TableNext == Types /\ TableShared /\ [Next]_vars => TableShared'
<1> SUFFICES ASSUME Types, TableShared, [Next]_vars PROVE TableShared'
  OBVIOUS
<1>1. CASE Delivers
  <2>1. law' = law /\ rows' = rows
    BY <1>1 DEF Delivers, D!NextNoRow, D!Receive, D!Finish, D!TracerCrash, D!Dial, D!DialFails,
       D!Send, D!Reconnect, D!Resend, D!ConnectionLost, D!HoldRequest, D!NoticeHangUp,
       D!ServerStart, D!TakeRequest, D!InsertRefused, D!Reply, D!ServerCrash, D!DbStop, D!DbStart
  <2> QED
    BY <2>1 DEF TableShared
<1>2. CASE UNCHANGED vars
  BY <1>2 DEF TableShared, vars, deliveryVars
<1> QED
  BY <1>1, <1>2, ParserKeepsTable, ServerKeepsTable DEF Next

(* What an acknowledgement and a closed row are worth, put together.       *)
LEMMA KeptFacts ==
  ASSUME Types, TableShared, DP!AckedIsStored, PP!ClosedHasDetail
  PROVE  AckedIsKept
<1> SUFFICES ASSUME NEW m \in Events, answer[m] = "S"
             PROVE  \E i \in RowsOf(m) : law[i].state = "N" \/ HasDetail(i)
  BY DEF AckedIsKept
<1>1. PICK i \in DOMAIN rows : rows[i] = m
  BY DEF DP!AckedIsStored, DP!Stored, DP!ToSet
<1>2. rows \in Seq(Events) /\ law \in Seq(PP!Row)
  BY DEF Types, DP!DeliveryTypes, DP!TypeOK, DP!ServerTypes, PP!Types, PP!TypeOK
<1>3. i \in 1..Len(law)
  BY <1>1, <1>2, LenProperties DEF TableShared
<1>4. law[i] \in PP!Row
  BY <1>2, <1>3, ElementOfSeq
<1>5. law[i].state \in {"N", "C"}
  BY <1>4 DEF PP!Row
<1>6. law[i].state = "C" => HasDetail(i)
  BY <1>3 DEF PP!ClosedHasDetail, PP!Stored, HasDetail
<1> QED
  BY <1>1, <1>5, <1>6 DEF RowsOf

(* The raw log is one table: server and parser see the same rows, in the   *)
(* same order and of the kinds the events are of.                          *)
THEOREM TableIsShared == Spec => []TableShared
<1>1. Init => TableShared
  <2>1. ASSUME Init PROVE law = <<>> /\ rows = <<>>
    BY <2>1 DEF Init, D!Init, P!Init
  <2>2. DOMAIN <<>> = {} /\ Len(<<>>) = 0
    BY EmptySeq
  <2> QED
    BY <2>1, <2>2 DEF TableShared
<1> QED
  BY <1>1, BothTypes, TableNext, PTL DEF Spec

(* End to end, an acknowledged event is waiting in the raw log or has been *)
(* parsed into the detail table: neither the parser's two statements nor   *)
(* anything the delivery repeats or loses can drop it in between.          *)
THEOREM AckedEventsAreKept == Spec => []AckedIsKept
<1>1. Spec => [](DP!AckedIsStored)
  BY PipelineImplementsHalves, DP!AckedEventsAreStored, PipelineAssumption, PTL
<1>2. Spec => [](PP!ClosedHasDetail)
  BY PipelineImplementsHalves, PP!ClosedRowsHaveDetail, PipelineAssumption, PTL
<1>3. Types /\ TableShared /\ DP!AckedIsStored /\ PP!ClosedHasDetail => AckedIsKept
  BY KeptFacts
<1> QED
  BY <1>1, <1>2, <1>3, BothTypes, TableIsShared, PTL

-----------------------------------------------------------------------------
(* The copies of an event and what paid for them.                          *)

(* The parser's invariant holds of the pipeline.                           *)
LEMMA PipelineCopies == Spec => [](PP!CopyInv)
<1>1. PP!Init => PP!Types /\ PP!CopyInv
  BY PP!TypesInit, PP!CopyInit, PipelineAssumption
<1>2. PP!Types /\ PP!CopyInv /\ [PP!Next]_(PP!vars) => PP!Types' /\ PP!CopyInv'
  BY PP!TypesNext, PP!CopyNext, PipelineAssumption
<1> QED
  BY <1>1, <1>2, PipelineImplementsHalves, PTL DEF PP!Spec

(* The first copies of an event's rows cost a transmission each, the rest  *)
(* are the parser's surplus copies.                                        *)
LEMMA PaidFacts ==
  ASSUME Types, TableShared, PP!CopyInv, DP!CopiesConserved, PP!OneSurplusPerDisturbance,
         NEW m \in Events, NEW p \in Parsers
  PROVE  Cardinality(DetailsOf(m, p)) <= sent[m] + disturbed[p]
<1> DEFINE first == RowsOf(m) \X {1}
           more == PP!SurplusCopies(p)
<1>1. /\ rows \in Seq(Events) /\ law \in Seq(PP!Row) /\ Len(law) <= MaxRows
      /\ disturbed[p] \in Nat /\ sent[m] \in Nat
      /\ \A i \in PP!Rows : detail[i][p] \in Nat
  BY PipelineAssumption DEF Types, DP!DeliveryTypes, DP!TypeOK, DP!ServerTypes, DP!TracerTypes,
         PP!Types, PP!TypeOK
<1>2. RowsOf(m) \in SUBSET (DOMAIN rows) /\ RowsOf(m) \subseteq PP!Rows
  <2>1. DOMAIN rows = 1..Len(law) /\ Len(law) \in Nat
    BY <1>1, LenProperties DEF TableShared
  <2> QED
    BY <1>1, <2>1, PipelineAssumption DEF RowsOf, PP!Rows
<1>3. IsFiniteSet(RowsOf(m)) /\ Cardinality(RowsOf(m)) \in Nat
  <2>1. DOMAIN rows = 1..Len(rows) /\ Len(rows) \in Nat
    BY <1>1, LenProperties
  <2>2. IsFiniteSet(DOMAIN rows)
    BY <2>1, FS_Interval
  <2> QED
    BY <1>2, <2>2, FS_Subset, FS_CardinalityType
<1>4. Cardinality(RowsOf(m)) <= sent[m]
  <2>1. /\ DP!Count(rows, m) \in Nat /\ Cardinality(DP!OnWire(m)) \in Nat
        /\ Cardinality(DP!Held(m)) \in Nat
    BY DP!AccountTypes, PipelineAssumption DEF Types, DP!Cardinality, Cardinality
  <2>2. DP!Count(rows, m) + DP!CopiesUnderWay(m) <= sent[m]
    BY DEF DP!CopiesConserved
  <2>3. DP!CopiesUnderWay(m) \in Nat
    BY <2>1 DEF DP!CopiesUnderWay, DP!Cardinality, Cardinality
  <2>4. DP!Count(rows, m) = Cardinality(RowsOf(m))
    BY DEF DP!Count, RowsOf, DP!Cardinality, Cardinality
  <2> QED
    BY <1>1, <1>3, <2>1, <2>2, <2>3, <2>4
<1>5. /\ IsFiniteSet(first) /\ Cardinality(first) = Cardinality(RowsOf(m))
  <2>1. IsFiniteSet({1}) /\ Cardinality({1}) = 1
    BY FS_Singleton
  <2> DEFINE r == RowsOf(m)
             u == {1}
  <2>2. IsFiniteSet(r) /\ Cardinality(r) \in Nat /\ IsFiniteSet(u) /\ Cardinality(u) = 1
    BY <1>3, <2>1
  <2> HIDE DEF r, u
  <2>3. IsFiniteSet(r \X u) /\ Cardinality(r \X u) = Cardinality(r) * Cardinality(u)
    BY <2>2, FS_Product
  <2>4. IsFiniteSet(r \X u) /\ Cardinality(r \X u) = Cardinality(r)
    BY <2>2, <2>3
  <2> QED
    BY <2>4 DEF r, u
<1>6. IsFiniteSet(more) /\ Cardinality(more) \in Nat /\ Cardinality(more) <= disturbed[p]
  <2>1. Cardinality(more) <= disturbed[p]
    BY DEF PP!OneSurplusPerDisturbance, PP!Cardinality, Cardinality
  <2>2. IsFiniteSet(more) /\ Cardinality(more) \in Nat
    BY PP!SurplusFinite, PipelineAssumption
       DEF Types, PP!Cardinality, Cardinality, PP!IsFiniteSet, IsFiniteSet
  <2> QED
    BY <2>1, <2>2
<1>7. DetailsOf(m, p) \subseteq first \cup more
  <2> SUFFICES ASSUME NEW x \in DetailsOf(m, p) PROVE x \in first \cup more
    OBVIOUS
  <2>1. PICK i \in RowsOf(m) : x \in {i} \X (1..detail[i][p])
    BY DEF DetailsOf
  <2>2. i \in PP!Rows /\ detail[i][p] \in Nat
    BY <1>1, <1>2
  <2>3. x \in {i} \X {1} \/ x \in {i} \X (2..detail[i][p])
    BY <2>1, <2>2
  <2> QED
    BY <2>2, <2>3 DEF PP!SurplusCopies
<1> HIDE DEF first, more
<1>8. /\ IsFiniteSet(first \cup more)
      /\ Cardinality(first \cup more) =
           Cardinality(first) + Cardinality(more) - Cardinality(first \cap more)
  BY <1>5, <1>6, FS_Union
<1>9. Cardinality(first \cap more) \in Nat
  BY <1>5, FS_Subset, FS_CardinalityType
<1>10. /\ Cardinality(DetailsOf(m, p)) \in Nat
       /\ Cardinality(DetailsOf(m, p)) <= Cardinality(first \cup more)
  BY <1>7, <1>8, FS_Subset, FS_CardinalityType
<1> QED
  BY <1>1, <1>3, <1>4, <1>5, <1>6, <1>8, <1>9, <1>10

(* End to end, the detail rows of one event are paid for: at most one for  *)
(* every transmission of its request and one for every disturbance of the  *)
(* parser, whatever both halves repeat.                                    *)
THEOREM DetailsArePaidFor == Spec => []DetailsPaidFor
<1>1. Spec => [](DP!CopiesConserved)
  BY PipelineImplementsHalves, DP!RowsCostTransmissions, PipelineAssumption, PTL
<1>2. Spec => [](PP!OneSurplusPerDisturbance)
  BY PipelineImplementsHalves, PP!SurplusBounded, PipelineAssumption, PTL
<1>3. Types /\ TableShared /\ PP!CopyInv /\ DP!CopiesConserved /\ PP!OneSurplusPerDisturbance
        => DetailsPaidFor
  BY PaidFacts DEF DetailsPaidFor
<1> QED
  BY <1>1, <1>2, <1>3, BothTypes, PipelineCopies, TableIsShared, PTL

-----------------------------------------------------------------------------
(* The scripts and daemons of the server host.                             *)

ScriptType ==
  [op : {"none", "start", "stop"}, name : Host!Names \cup {"none"},
   pc : {"idle", "look", "exec", "wait", "kill", "done"}, pids : SUBSET Host!Pids]

ProcessType ==
  [name : Host!Names \cup {"none"},
   st : {"free", "init", "ready", "parent", "daemon", "up", "dead"},
   serv : Host!Addresses, dbms : Host!Addresses, by : Scripts \cup {"none"}]

-----------------------------------------------------------------------------
(* What the steps do to a script and to a process.                         *)

(* Script s goes on to x; the others stay.                                 *)
ScriptTo(s, x) ==
  /\ s \in Scripts /\ x \in ScriptType
  /\ script'[s] = x
  /\ \A t \in Scripts : t # s => script'[t] = script[t]

LEMMA ScriptSet ==
  ASSUME Host!HostTypeOK, NEW s \in Scripts, NEW x \in ScriptType,
       script' = [script EXCEPT ![s] = x]
  PROVE  ScriptTo(s, x) /\ script' \in [Scripts -> ScriptType]
  BY DEF Host!HostTypeOK, ScriptTo, ScriptType

(* Process p goes on to x; the others stay.                                *)
ProcessTo(p, x) ==
  /\ p \in Host!Pids /\ x \in ProcessType
  /\ process'[p] = x
  /\ \A q \in Host!Pids : q # p => process'[q] = process[q]

LEMMA ProcessSet ==
  ASSUME Host!HostTypeOK, NEW p \in Host!Pids, NEW x \in ProcessType,
       process' = [process EXCEPT ![p] = x]
  PROVE  ProcessTo(p, x) /\ process' \in [Host!Pids -> ProcessType]
  BY DEF Host!HostTypeOK, ProcessTo, ProcessType

LEMMA CallFacts ==
  ASSUME Host!HostTypeOK, NEW s \in Scripts, NEW op \in {"start", "stop"}, NEW n \in Host!Names,
       Host!Call(s, op, n)
  PROVE  /\ \E x : /\ ScriptTo(s, x) /\ x.op = op /\ x.name = n /\ x.pc = "look"
         /\ script' \in [Scripts -> ScriptType]
<1> DEFINE x == [script[s] EXCEPT !.op = op, !.name = n, !.pc = "look"]
<1>1. script \in [Scripts -> ScriptType]
  BY DEF Host!HostTypeOK, ScriptType
<1>2. x \in ScriptType /\ x.op = op /\ x.name = n /\ x.pc = "look"
  BY <1>1 DEF ScriptType
<1>3. script' = [script EXCEPT ![s] = x]
  BY <1>1 DEF Host!Call
<1> HIDE DEF x
<1> QED
  BY <1>2, <1>3, ScriptSet

LEMMA LookFacts ==
  ASSUME Host!HostTypeOK, NEW s \in Scripts, Host!Look(s)
  PROVE  /\ \E x : /\ ScriptTo(s, x) /\ x.op = script[s].op /\ x.name = script[s].name
                   /\ x.pids = Host!Listed(x.name)
                   /\ x.pc = IF x.op = "start"
                             THEN IF x.pids = {} THEN "exec" ELSE "done"
                             ELSE IF x.pids = {} THEN "done" ELSE "kill"
         /\ script' \in [Scripts -> ScriptType]
<1> DEFINE x == [script[s] EXCEPT
                   !.pids = Host!Listed(script[s].name),
                   !.pc = IF script[s].op = "start"
                          THEN IF Host!Listed(script[s].name) = {} THEN "exec" ELSE "done"
                          ELSE IF Host!Listed(script[s].name) = {} THEN "done" ELSE "kill"]
<1>1. script \in [Scripts -> ScriptType] /\ Host!Listed(script[s].name) \in SUBSET Host!Pids
  BY DEF Host!HostTypeOK, ScriptType, Host!Listed
<1>2. /\ x \in ScriptType /\ x.op = script[s].op /\ x.name = script[s].name
      /\ x.pids = Host!Listed(x.name)
      /\ x.pc = IF x.op = "start"
                THEN IF x.pids = {} THEN "exec" ELSE "done"
                ELSE IF x.pids = {} THEN "done" ELSE "kill"
  BY <1>1 DEF ScriptType
<1>3. script' = [script EXCEPT ![s] = x]
  BY <1>1 DEF Host!Look
<1> HIDE DEF x
<1> QED
  BY <1>2, <1>3, ScriptSet

LEMMA ExecFacts ==
  ASSUME Host!HostTypeOK, NEW s \in Scripts, Host!Exec(s)
  PROVE  \E p \in Host!Pids :
           /\ process[p].st = "free"
           /\ \E x : /\ ScriptTo(s, x) /\ x.op = script[s].op /\ x.name = script[s].name
                     /\ x.pc = "wait" /\ x.pids = {p}
           /\ \E y : /\ ProcessTo(p, y) /\ y.name = script[s].name /\ y.st = "init" /\ y.by = s
           /\ script' \in [Scripts -> ScriptType] /\ process' \in [Host!Pids -> ProcessType]
<1>1. PICK p \in Host!Pids :
        /\ Host!Fresh(p)
        /\ process' = [process EXCEPT ![p] = [Host!NoPid EXCEPT !.name = script[s].name,
                                                     !.st = "init", !.by = s]]
        /\ script' = [script EXCEPT ![s].pc = "wait", ![s].pids = {p}]
  BY DEF Host!Exec
<1> DEFINE x == [script[s] EXCEPT !.pc = "wait", !.pids = {p}]
           y == [Host!NoPid EXCEPT !.name = script[s].name, !.st = "init", !.by = s]
<1>2. script \in [Scripts -> ScriptType]
  BY DEF Host!HostTypeOK, ScriptType
<1>3. /\ x \in ScriptType /\ x.op = script[s].op /\ x.name = script[s].name
      /\ x.pc = "wait" /\ x.pids = {p}
  BY <1>2 DEF ScriptType
<1>4. y \in ProcessType /\ y.name = script[s].name /\ y.st = "init" /\ y.by = s
  BY <1>2 DEF ScriptType, ProcessType, Host!NoPid, Host!Addresses
<1>5. script' = [script EXCEPT ![s] = x] /\ process' = [process EXCEPT ![p] = y]
  BY <1>1, <1>2
<1>6. process[p].st = "free"
  BY <1>1 DEF Host!Fresh
<1> HIDE DEF x, y
<1> QED
  BY <1>3, <1>4, <1>5, <1>6, ScriptSet, ProcessSet

LEMMA WaitedFacts ==
  ASSUME Host!HostTypeOK, NEW s \in Scripts, Host!Waited(s)
  PROVE  /\ \E x : /\ ScriptTo(s, x) /\ x.op = script[s].op /\ x.name = script[s].name
                   /\ x.pc = "done"
         /\ script' \in [Scripts -> ScriptType]
<1> DEFINE x == [script[s] EXCEPT !.pc = "done", !.pids = Host!Listed("server")]
<1>1. script \in [Scripts -> ScriptType] /\ Host!Listed("server") \in SUBSET Host!Pids
  BY DEF Host!HostTypeOK, ScriptType, Host!Listed
<1>2. x \in ScriptType /\ x.op = script[s].op /\ x.name = script[s].name /\ x.pc = "done"
  BY <1>1 DEF ScriptType
<1>3. script' = [script EXCEPT ![s] = x]
  BY <1>1 DEF Host!Waited
<1> HIDE DEF x
<1> QED
  BY <1>2, <1>3, ScriptSet

LEMMA KillFacts ==
  ASSUME Host!HostTypeOK, NEW s \in Scripts, NEW p \in Host!Pids, Host!KillNext(s, p)
  PROVE  /\ \E x : /\ ScriptTo(s, x) /\ x.op = script[s].op /\ x.name = script[s].name
                   /\ x.pids = script[s].pids \ {p}
                   /\ x.pc = IF script[s].pids = {p} THEN "done" ELSE "kill"
         /\ script' \in [Scripts -> ScriptType]
<1> DEFINE x == [script[s] EXCEPT !.pids = @ \ {p},
                                  !.pc = IF script[s].pids = {p} THEN "done" ELSE "kill"]
<1>1. script \in [Scripts -> ScriptType]
  BY DEF Host!HostTypeOK, ScriptType
<1>2. /\ x \in ScriptType /\ x.op = script[s].op /\ x.name = script[s].name
      /\ x.pids = script[s].pids \ {p}
      /\ x.pc = IF script[s].pids = {p} THEN "done" ELSE "kill"
  BY <1>1 DEF ScriptType
<1>3. script' = [script EXCEPT ![s] = x]
  BY <1>1 DEF Host!KillNext
<1> HIDE DEF x
<1> QED
  BY <1>2, <1>3, ScriptSet

(* A process that only goes on, to l.                                      *)
LEMMA BecomesFacts ==
  ASSUME Host!HostTypeOK, NEW p \in Host!Pids, NEW l \in {"dead", "up"}, Host!Becomes(p, l)
  PROVE  /\ \E y : /\ ProcessTo(p, y) /\ y.name = process[p].name /\ y.by = process[p].by
                   /\ y.serv = process[p].serv /\ y.st = l
         /\ process' \in [Host!Pids -> ProcessType]
<1> DEFINE y == [process[p] EXCEPT !.st = l]
<1>1. process \in [Host!Pids -> ProcessType]
  BY DEF Host!HostTypeOK, ProcessType
<1>2. /\ y \in ProcessType /\ y.name = process[p].name /\ y.by = process[p].by
      /\ y.serv = process[p].serv /\ y.st = l
  BY <1>1 DEF ProcessType
<1>3. process' = [process EXCEPT ![p] = y]
  BY <1>1 DEF Host!Becomes
<1> HIDE DEF y
<1> QED
  BY <1>2, <1>3, ProcessSet

LEMMA LoadFacts ==
  ASSUME Host!HostTypeOK, NEW p \in Host!Pids, Host!LoadConf(p)
  PROVE  /\ \E y : /\ ProcessTo(p, y) /\ y.name = process[p].name /\ y.by = process[p].by
                   /\ y.st = "ready"
         /\ process' \in [Host!Pids -> ProcessType]
<1> DEFINE a(d) == IF conf = Missing THEN "unset" ELSE Host!Key("config:bxrgip", d)
           y == [process[p] EXCEPT !.st = "ready", !.serv = a("any"), !.dbms = a("home")]
<1>1. process \in [Host!Pids -> ProcessType] /\ conf \in Configs
  BY DEF Host!HostTypeOK, ProcessType
<1>2. a("any") \in Host!Addresses /\ a("home") \in Host!Addresses
  <2>1. ASSUME conf # Missing, NEW k \in DOMAIN conf PROVE conf[k] \in Host!Addresses
    <3>1. conf \in Configs \ {Missing} /\ conf[k] \in {conf[j] : j \in DOMAIN conf}
      BY <1>1, <2>1, Zenon
    <3>2. conf[k] \in UNION {{c[j] : j \in DOMAIN c} : c \in Configs \ {Missing}}
      BY <3>1, Zenon
    <3> QED
      BY <3>2, Zenon DEF Host!Addresses
  <2>2. "unset" \in Host!Addresses
    BY DEF Host!Addresses
  <2>3. "any" \in Host!Addresses
    BY DEF Host!Addresses
  <2>4. "home" \in Host!Addresses
    BY DEF Host!Addresses
  <2> QED
    BY <2>1, <2>2, <2>3, <2>4 DEF Host!Key
<1> HIDE DEF a
<1>3. y \in ProcessType /\ y.name = process[p].name /\ y.by = process[p].by /\ y.st = "ready"
  BY <1>1, <1>2 DEF ProcessType
<1>4. process' = [process EXCEPT ![p] = y]
  BY <1>1 DEF Host!LoadConf, a
<1> HIDE DEF y
<1> QED
  BY <1>3, <1>4, ProcessSet

(* The child is what the parent was.                                       *)
LEMMA ForkFacts ==
  ASSUME Host!HostTypeOK, NEW p \in Host!Pids, Host!Fork(p)
  PROVE  \E q \in Host!Pids :
           /\ q # p /\ process[q].st = "free"
           /\ process'[p] \in ProcessType /\ process'[q] \in ProcessType
           /\ process'[p].st = "parent" /\ process'[q].st = "daemon"
           /\ \A r \in {p, q} : process'[r].name = process[p].name /\ process'[r].by = process[p].by
           /\ \A r \in Host!Pids \ {p, q} : process'[r] = process[r]
           /\ process' \in [Host!Pids -> ProcessType]
<1>1. PICK q \in Host!Pids :
        /\ Host!Fresh(q)
        /\ process' = [process EXCEPT ![p].st = "parent",
             ![q] = [process[p] EXCEPT !.st = "daemon"]]
  BY DEF Host!Fork
<1>2. process \in [Host!Pids -> ProcessType] /\ process[p].st = "ready" /\ process[q].st = "free"
  BY <1>1 DEF Host!HostTypeOK, ProcessType, Host!Fork, Host!Fresh
<1>3. q # p
  BY <1>2
<1>4. /\ process'[p] = [process[p] EXCEPT !.st = "parent"]
      /\ process'[q] = [process[p] EXCEPT !.st = "daemon"]
      /\ \A r \in Host!Pids \ {p, q} : process'[r] = process[r]
  BY <1>1, <1>2, <1>3
<1>5. process'[p] \in ProcessType /\ process'[q] \in ProcessType
  BY <1>2, <1>4 DEF ProcessType
<1>6. /\ process'[p].st = "parent" /\ process'[q].st = "daemon"
      /\ \A r \in {p, q} : process'[r].name = process[p].name /\ process'[r].by = process[p].by
  BY <1>2, <1>3, <1>4 DEF ProcessType
<1>7. DOMAIN process' = Host!Pids /\ process' = [r \in Host!Pids |-> process'[r]]
  BY <1>1, <1>2
<1>8. process' \in [Host!Pids -> ProcessType]
  BY <1>2, <1>4, <1>5, <1>7
<1> QED
  BY <1>2, <1>3, <1>4, <1>5, <1>6, <1>8

(* A program takes a step of its own, other than fork().                   *)
Alone(p) == Host!LoadConf(p) \/ Host!Exit(p) \/ Host!Serve(p) \/ Host!GiveUp(p) \/ Host!Die(p)

Early == {"init", "ready", "parent"}

LEMMA AloneFacts ==
  ASSUME Host!HostTypeOK, NEW p \in Host!Pids, Alone(p)
  PROVE  /\ script' = script /\ raced' = raced /\ ended' = ended
         /\ Host!Alive(p)
         /\ \E y : /\ ProcessTo(p, y) /\ y.name = process[p].name /\ y.by = process[p].by
                   /\ y.st \in Early => process[p].st \in Early
         /\ process' \in [Host!Pids -> ProcessType]
<1>1. script' = script /\ raced' = raced /\ ended' = ended /\ Host!Alive(p)
  BY DEF Alone, Host!LoadConf, Host!Exit, Host!Serve, Host!GiveUp, Host!Die, Host!Alive
<1>2. CASE Host!LoadConf(p)
  <2>1. process[p].st \in Early
    BY <1>2 DEF Host!LoadConf, Early
  <2> QED
    BY <1>1, <1>2, <2>1, LoadFacts
<1>3. CASE ~Host!LoadConf(p)
  <2>1. Host!Becomes(p, "dead") \/ Host!Becomes(p, "up")
    BY <1>3 DEF Alone, Host!Exit, Host!Serve, Host!GiveUp, Host!Die
  <2>2. PICK l \in {"dead", "up"} : Host!Becomes(p, l)
    BY <2>1
  <2>3. l \notin Early
    BY DEF Early
  <2> QED
    BY <1>1, <2>2, <2>3, BecomesFacts
<1> QED
  BY <1>2, <1>3

(* The steps there are.                                                    *)
LEMMA StepCases ==
  ASSUME [Host!Next]_(Host!vars)
  PROVE  \/ \E s \in Scripts, op \in {"start", "stop"}, n \in Host!Names : Host!Call(s, op, n)
         \/ \E s \in Scripts : Host!Look(s) \/ Host!Exec(s) \/ Host!Waited(s)
         \/ \E s \in Scripts, p \in Host!Pids : Host!KillNext(s, p)
         \/ \E p \in Host!Pids : Alone(p) \/ Host!Fork(p)
         \/ /\ UNCHANGED <<script, process, raced, ended>>
            /\ Host!EditConf \/ UNCHANGED <<conf, edits>>
  BY DEF Host!Next, Host!ScriptStep, Host!ProcStep, Alone, Host!EditConf, Host!vars

-----------------------------------------------------------------------------
(* Types.                                                                  *)

LEMMA TypesInit == ASSUME Host!DaemonAssumption, Host!Init PROVE Host!HostTypeOK
  BY DEF Host!DaemonAssumption, Host!Init, Host!HostTypeOK, Host!NoPid, Host!Addresses

LEMMA TypesNext ==
  Host!DaemonAssumption /\ Host!HostTypeOK /\ Host!ScriptShape /\ [Host!Next]_(Host!vars)
     => Host!HostTypeOK'
<1> SUFFICES ASSUME Host!DaemonAssumption, Host!HostTypeOK, Host!ScriptShape,
         [Host!Next]_(Host!vars)
             PROVE  Host!HostTypeOK'
  OBVIOUS
<1>1. /\ script \in [Scripts -> ScriptType] /\ process \in [Host!Pids -> ProcessType]
      /\ conf \in Configs /\ edits \in 0..MaxEdits /\ raced \subseteq Host!Names
      /\ ended \in [Scripts -> SUBSET Scripts]
  BY DEF Host!HostTypeOK, ScriptType, ProcessType
<1> SUFFICES /\ script' \in [Scripts -> ScriptType] /\ process' \in [Host!Pids -> ProcessType]
             /\ conf' \in Configs /\ edits' \in 0..MaxEdits /\ raced' \subseteq Host!Names
             /\ ended' \in [Scripts -> SUBSET Scripts]
  BY DEF Host!HostTypeOK, ScriptType, ProcessType
<1>2. ASSUME NEW s \in Scripts, NEW op \in {"start", "stop"}, NEW n \in Host!Names, Host!Call(s,
           op, n)
      PROVE  /\ script' \in [Scripts -> ScriptType]
             /\ UNCHANGED <<process, conf, edits, raced, ended>>
  BY <1>2, CallFacts DEF Host!Call
<1>3. ASSUME NEW s \in Scripts, Host!Look(s)
      PROVE  /\ script' \in [Scripts -> ScriptType] /\ UNCHANGED <<process, conf, edits>>
             /\ raced' \subseteq Host!Names /\ ended' \in [Scripts -> SUBSET Scripts]
  <2>1. script' \in [Scripts -> ScriptType]
    BY <1>3, LookFacts
  <2>2. script[s].name \in Host!Names
    BY <1>3 DEF Host!Look, Host!ScriptShape
  <2>3. ended' \in [Scripts -> SUBSET Scripts] /\ UNCHANGED <<process, conf, edits>>
    BY <1>1, <1>3 DEF Host!Look
  <2>4. raced' \subseteq Host!Names
    BY <1>1, <1>3, <2>2 DEF Host!Look
  <2> QED
    BY <2>1, <2>3, <2>4
<1>4. ASSUME NEW s \in Scripts, Host!Exec(s)
      PROVE  /\ script' \in [Scripts -> ScriptType] /\ process' \in [Host!Pids -> ProcessType]
             /\ UNCHANGED <<conf, edits, raced, ended>>
  BY <1>4, ExecFacts DEF Host!Exec
<1>5. ASSUME NEW s \in Scripts, Host!Waited(s)
      PROVE  /\ script' \in [Scripts -> ScriptType]
             /\ UNCHANGED <<process, conf, edits, raced, ended>>
  BY <1>5, WaitedFacts DEF Host!Waited
<1>6. ASSUME NEW s \in Scripts, NEW p \in Host!Pids, Host!KillNext(s, p)
      PROVE  /\ script' \in [Scripts -> ScriptType] /\ process' \in [Host!Pids -> ProcessType]
             /\ UNCHANGED <<conf, edits, raced, ended>>
  BY <1>1, <1>6, KillFacts, BecomesFacts DEF Host!KillNext
<1>7. ASSUME NEW p \in Host!Pids, Alone(p) \/ Host!Fork(p)
      PROVE  /\ process' \in [Host!Pids -> ProcessType] /\ UNCHANGED <<script, conf, edits,
                  raced, ended>>
  BY <1>7, AloneFacts, ForkFacts DEF Alone, Host!LoadConf, Host!Exit, Host!Serve, Host!GiveUp,
       Host!Die, Host!Fork
<1>8. CASE UNCHANGED <<script, process, raced, ended>> /\ (Host!EditConf \/ UNCHANGED <<conf,
           edits>>)
  BY <1>1, <1>8 DEF Host!EditConf, Host!DaemonAssumption
<1> QED
  BY <1>1, <1>2, <1>3, <1>4, <1>5, <1>6, <1>7, <1>8, StepCases

-----------------------------------------------------------------------------
(* What scripts have left to do.                                           *)

LEMMA ScriptShapeNext == Host!HostTypeOK /\ Host!ScriptShape /\ [Host!Next]_(Host!vars)
   => Host!ScriptShape'
<1> SUFFICES ASSUME Host!HostTypeOK, Host!ScriptShape, [Host!Next]_(Host!vars)
             PROVE  Host!ScriptShape'
  OBVIOUS
<1> DEFINE Fits(x) == /\ x.pc # "idle" => x.name \in Host!Names
                      /\ x.op # "start" => x.pc \notin {"exec", "wait"}
<1>1. \A s \in Scripts : Fits(script[s])
  BY DEF Host!ScriptShape
<1>2. ASSUME NEW s \in Scripts, NEW x, ScriptTo(s, x), Fits(x) PROVE Host!ScriptShape'
  <2>1. \A t \in Scripts : Fits(script'[t])
    BY <1>1, <1>2 DEF ScriptTo
  <2> QED
    BY <2>1 DEF Host!ScriptShape
<1>3. ASSUME script' = script PROVE Host!ScriptShape'
  BY <1>1, <1>3 DEF Host!ScriptShape
<1>4. ASSUME NEW s \in Scripts, NEW op \in {"start", "stop"}, NEW n \in Host!Names, Host!Call(s,
           op, n)
      PROVE  Host!ScriptShape'
  BY <1>2, <1>4, CallFacts
<1>5. ASSUME NEW s \in Scripts, Host!Look(s) \/ Host!Exec(s) \/ Host!Waited(s)
      PROVE  Host!ScriptShape'
  <2>1. script[s].name \in Host!Names
    BY <1>1, <1>5 DEF Host!Look, Host!Exec, Host!Waited
  <2>2. Host!Exec(s) => script[s].op = "start"
    BY <1>1 DEF Host!Exec
  <2> QED
    BY <1>2, <1>5, <2>1, <2>2, LookFacts, ExecFacts, WaitedFacts
<1>6. ASSUME NEW s \in Scripts, NEW p \in Host!Pids, Host!KillNext(s, p) PROVE Host!ScriptShape'
  <2>1. script[s].name \in Host!Names
    BY <1>1, <1>6 DEF Host!KillNext
  <2> QED
    BY <1>2, <1>6, <2>1, KillFacts
<1>7. ASSUME NEW p \in Host!Pids, Alone(p) \/ Host!Fork(p) PROVE Host!ScriptShape'
  BY <1>3, <1>7, AloneFacts DEF Host!Fork
<1> QED
  BY <1>3, <1>4, <1>5, <1>6, <1>7, StepCases

LEMMA StartersNext ==
  Host!HostTypeOK /\ Host!StartersWait /\ [Host!Next]_(Host!vars) => Host!StartersWait'
<1> SUFFICES ASSUME Host!HostTypeOK, Host!StartersWait, [Host!Next]_(Host!vars)
             PROVE  Host!StartersWait'
  OBVIOUS
<1> DEFINE Waits(p, y, sc) == /\ y.st \notin {"free", "dead"} => y.by \in Scripts
                              /\ y.st \in Early => sc[y.by].pc = "wait" /\ sc[y.by].pids = {p}
<1>1. \A p \in Host!Pids : Waits(p, process[p], script)
  BY DEF Host!StartersWait, Host!Alive, Early
<1> SUFFICES \A p \in Host!Pids : Waits(p, process'[p], script')
  BY DEF Host!StartersWait, Host!Alive, Early
<1>2. \A l \in Early : l \notin {"free", "dead"}
  BY DEF Early
(* A script that is not waiting has nobody to wait for.                    *)
<1>3. ASSUME NEW s \in Scripts, NEW x, ScriptTo(s, x), script[s].pc # "wait", NEW p \in Host!Pids
      PROVE  Waits(p, process[p], script')
  BY <1>1, <1>2, <1>3 DEF ScriptTo
<1>4. ASSUME NEW s \in Scripts, NEW op \in {"start", "stop"}, NEW n \in Host!Names, Host!Call(s,
           op, n)
      PROVE  \A p \in Host!Pids : Waits(p, process'[p], script')
  <2>1. PICK x : ScriptTo(s, x)
    BY <1>4, CallFacts
  <2>2. script[s].pc # "wait" /\ process' = process
    BY <1>4 DEF Host!Call
  <2> QED
    BY <1>3, <2>1, <2>2
<1>5. ASSUME NEW s \in Scripts, Host!Look(s)
      PROVE  \A p \in Host!Pids : Waits(p, process'[p], script')
  <2>1. PICK x : ScriptTo(s, x)
    BY <1>5, LookFacts
  <2>2. script[s].pc # "wait" /\ process' = process
    BY <1>5 DEF Host!Look
  <2> QED
    BY <1>3, <2>1, <2>2
<1>6. ASSUME NEW s \in Scripts, Host!Exec(s)
      PROVE  \A p \in Host!Pids : Waits(p, process'[p], script')
  <2>1. PICK p \in Host!Pids :
          /\ \E x : ScriptTo(s, x) /\ x.pc = "wait" /\ x.pids = {p}
          /\ \E y : ProcessTo(p, y) /\ y.st = "init" /\ y.by = s
    BY <1>6, ExecFacts
  <2>2. Waits(p, process'[p], script')
    BY <2>1 DEF ScriptTo, ProcessTo
  <2>3. script[s].pc # "wait"
    BY <1>6 DEF Host!Exec
  <2>4. \A q \in Host!Pids \ {p} : Waits(q, process'[q], script')
    BY <1>3, <2>1, <2>3 DEF ProcessTo
  <2> QED
    BY <2>2, <2>4
<1>7. ASSUME NEW s \in Scripts, Host!Waited(s)
      PROVE  \A p \in Host!Pids : Waits(p, process'[p], script')
  <2>1. PICK x : ScriptTo(s, x)
    BY <1>7, WaitedFacts
  <2>2. process' = process /\ \A p \in script[s].pids : ~Host!Alive(p)
    BY <1>7 DEF Host!Waited
  <2>3. ASSUME NEW p \in Host!Pids, process[p].st \in Early PROVE process[p].by # s
    <3>1. Host!Alive(p)
      BY <2>3, <1>2 DEF Host!Alive
    <3>2. process[p].by = s => p \in script[s].pids
      BY <1>1, <2>3
    <3> QED
      BY <2>2, <3>1, <3>2
  <2> QED
    BY <1>1, <1>2, <2>1, <2>2, <2>3 DEF ScriptTo
<1>8. ASSUME NEW s \in Scripts, NEW p \in Host!Pids, Host!KillNext(s, p)
      PROVE  \A q \in Host!Pids : Waits(q, process'[q], script')
  <2>1. PICK x : ScriptTo(s, x)
    BY <1>8, KillFacts
  <2>2. script[s].pc # "wait"
    BY <1>8 DEF Host!KillNext
  <2>3. \A q \in Host!Pids : Waits(q, process[q], script')
    BY <1>3, <2>1, <2>2
  <2>4. process' = process \/ \E y : ProcessTo(p, y) /\ y.st = "dead"
    BY <1>8, BecomesFacts DEF Host!KillNext
  <2> QED
    BY <1>2, <2>3, <2>4 DEF ProcessTo
<1>9. ASSUME NEW p \in Host!Pids, Alone(p)
      PROVE  \A q \in Host!Pids : Waits(q, process'[q], script')
  <2>1. PICK y : /\ ProcessTo(p, y) /\ y.by = process[p].by
                 /\ y.st \in Early => process[p].st \in Early
    BY <1>9, AloneFacts
  <2>2. script' = script /\ process[p].st \notin {"free", "dead"}
    BY <1>9, AloneFacts DEF Host!Alive
  <2>3. Waits(p, process'[p], script')
    BY <1>1, <2>1, <2>2 DEF ProcessTo
  <2> QED
    BY <1>1, <2>1, <2>2, <2>3 DEF ProcessTo
<1>10. ASSUME NEW p \in Host!Pids, Host!Fork(p)
      PROVE  \A q \in Host!Pids : Waits(q, process'[q], script')
  <2>1. PICK q \in Host!Pids : /\ process'[p].st = "parent" /\ process'[q].st = "daemon"
                               /\ \A r \in {p, q} : process'[r].by = process[p].by
                               /\ \A r \in Host!Pids \ {p, q} : process'[r] = process[r]
    BY <1>10, ForkFacts
  <2>2. script' = script /\ process[p].st \in Early
    BY <1>10 DEF Host!Fork, Early
  <2>3. Waits(p, process'[p], script') /\ "daemon" \notin Early
    BY <1>1, <1>2, <2>1, <2>2 DEF Early
  <2>4. Waits(q, process'[q], script')
    BY <1>1, <1>2, <2>1, <2>2, <2>3
  <2> QED
    BY <1>1, <2>1, <2>2, <2>3, <2>4
<1>11. CASE UNCHANGED <<script, process>>
  BY <1>1, <1>11
<1> QED
  BY <1>4, <1>5, <1>6, <1>7, <1>8, <1>9, <1>10, <1>11, StepCases

(* A script that has ended is not called again.                            *)
LEMMA DoneStays ==
  ASSUME Host!HostTypeOK, [Host!Next]_(Host!vars)
  PROVE  /\ script' = script \/ \E s \in Scripts : (\E x : ScriptTo(s,
              x)) /\ script[s].pc # "done"
         /\ \A t \in Scripts : script[t].pc = "done" => script'[t] = script[t]
<1>1. ASSUME NEW s \in Scripts, NEW op \in {"start", "stop"}, NEW n \in Host!Names, Host!Call(s,
           op, n)
      PROVE  \E x : ScriptTo(s, x) /\ script[s].pc # "done"
  BY <1>1, CallFacts DEF Host!Call
<1>2. ASSUME NEW s \in Scripts, Host!Look(s) \/ Host!Exec(s) \/ Host!Waited(s)
      PROVE  \E x : ScriptTo(s, x) /\ script[s].pc # "done"
  BY <1>2, LookFacts, ExecFacts, WaitedFacts DEF Host!Look, Host!Exec, Host!Waited
<1>3. ASSUME NEW s \in Scripts, NEW p \in Host!Pids, Host!KillNext(s, p)
      PROVE  \E x : ScriptTo(s, x) /\ script[s].pc # "done"
  BY <1>3, KillFacts DEF Host!KillNext
<1>4. ASSUME NEW p \in Host!Pids, Alone(p) \/ Host!Fork(p) PROVE script' = script
  BY <1>4, AloneFacts DEF Host!Fork
<1>5. script' = script \/ \E s \in Scripts : (\E x : ScriptTo(s, x)) /\ script[s].pc # "done"
  BY <1>1, <1>2, <1>3, <1>4, StepCases
<1> QED
  BY <1>5 DEF ScriptTo

(* Who lives after a step lived before it, or was just started: by a       *)
(* script that is about to, or by a program whose script waits.            *)
Born(p) ==
  /\ ~Host!Alive(p)
  /\ \E s \in Scripts : /\ process'[p].by = s /\ script[s].pc \in {"exec", "wait"}
                        /\ \/ Host!Exec(s) /\ process'[p].name = script[s].name
                           \/ \E q \in Host!Pids : /\ Host!Alive(q) /\ process[q].by = s
                                                   /\ process[q].name = process'[p].name

Kept(p) == Host!Alive(p) /\ process'[p].name = process[p].name /\ process'[p].by = process[p].by

LEMMA LivesOn ==
  ASSUME Host!HostTypeOK, Host!StartersWait, [Host!Next]_(Host!vars), NEW p \in Host!Pids,
       Host!Alive(p)'
  PROVE  Kept(p) \/ Born(p)
<1>1. CASE process' = process
  BY <1>1 DEF Kept, Host!Alive
<1>2. ASSUME NEW s \in Scripts, Host!Exec(s) PROVE Kept(p) \/ Born(p)
  <2>0. PICK r \in Host!Pids : /\ process[r].st = "free"
                               /\ \E y : ProcessTo(r, y) /\ y.name = script[s].name /\ y.by = s
    BY <1>2, ExecFacts
  <2>1. PICK y : ProcessTo(r, y) /\ y.name = script[s].name /\ y.by = s
    BY <2>0
  <2>2. CASE p = r
    BY <1>2, <2>0, <2>1, <2>2 DEF Born, ProcessTo, Host!Exec, Host!Alive
  <2>3. CASE p # r
    BY <2>1, <2>3 DEF Kept, ProcessTo, Host!Alive
  <2> QED
    BY <2>2, <2>3
<1>3. ASSUME NEW s \in Scripts, NEW q \in Host!Pids, Host!KillNext(s, q) PROVE Kept(p) \/ Born(p)
  <2>1. process' = process \/ \E y : ProcessTo(q, y) /\ y.st = "dead"
    BY <1>3, BecomesFacts DEF Host!KillNext
  <2> QED
    BY <1>1, <2>1 DEF ProcessTo, Kept, Host!Alive
<1>4. ASSUME NEW q \in Host!Pids, Alone(q) PROVE Kept(p) \/ Born(p)
  <2>1. Host!Alive(q) /\ \E y : ProcessTo(q,
                           y) /\ y.name = process[q].name /\ y.by = process[q].by
    BY <1>4, AloneFacts
  <2> QED
    BY <2>1 DEF ProcessTo, Kept, Host!Alive
<1>5. ASSUME NEW q \in Host!Pids, Host!Fork(q) PROVE Kept(p) \/ Born(p)
  <2>1. PICK r \in Host!Pids :
          /\ r # q /\ process[r].st = "free"
          /\ \A t \in {q, r} : process'[t].name = process[q].name /\ process'[t].by = process[q].by
          /\ \A t \in Host!Pids \ {q, r} : process'[t] = process[t]
    BY <1>5, ForkFacts
  <2>2. Host!Alive(q) /\ process[q].st \in Early
    BY <1>5 DEF Host!Fork, Host!Alive, Early
  <2>3. process[q].by \in Scripts /\ script[process[q].by].pc = "wait"
    BY <2>2 DEF Host!StartersWait, Early
  <2>4. CASE p = r
    BY <2>1, <2>2, <2>3, <2>4 DEF Born, Host!Alive
  <2>5. CASE p # r
    BY <2>1, <2>2, <2>5 DEF Kept, Host!Alive
  <2> QED
    BY <2>4, <2>5
<1> QED
  BY <1>1, <1>2, <1>3, <1>4, <1>5, StepCases DEF Host!Call, Host!Look, Host!Waited

(* The steps of script s.                                                  *)
LEMMA ScriptCases ==
  ASSUME Host!HostTypeOK, [Host!Next]_(Host!vars), NEW s \in Scripts, script'[s] # script[s]
  PROVE  \/ \E op \in {"start", "stop"}, n \in Host!Names : Host!Call(s, op, n)
         \/ Host!Look(s) \/ Host!Exec(s) \/ Host!Waited(s)
         \/ \E p \in Host!Pids : Host!KillNext(s, p)
<1>1. ASSUME NEW t \in Scripts, NEW x, ScriptTo(t, x) PROVE t = s
  BY <1>1 DEF ScriptTo
<1>2. ASSUME NEW t \in Scripts, NEW op \in {"start", "stop"}, NEW n \in Host!Names, Host!Call(t,
           op, n)
      PROVE  t = s
  BY <1>1, <1>2, CallFacts
<1>3. ASSUME NEW t \in Scripts, Host!Look(t) \/ Host!Exec(t) \/ Host!Waited(t) PROVE t = s
  BY <1>1, <1>3, LookFacts, ExecFacts, WaitedFacts
<1>4. ASSUME NEW t \in Scripts, NEW p \in Host!Pids, Host!KillNext(t, p) PROVE t = s
  BY <1>1, <1>4, KillFacts
<1>5. ~\E p \in Host!Pids : Alone(p) \/ Host!Fork(p)
  BY AloneFacts DEF Host!Fork
<1> QED
  BY <1>2, <1>3, <1>4, <1>5, StepCases

LEMMA HistorySteps ==
  ASSUME Host!HostTypeOK, [Host!Next]_(Host!vars)
  PROVE  /\ raced \subseteq raced'
         /\ \A s \in Scripts :
              \/ ended'[s] = ended[s]
              \/ Host!Look(s) /\ ended'[s] =
                   {t \in Scripts : script[t].op = "start" /\ script[t].pc = "done"}
<1>1. ASSUME NEW s \in Scripts, Host!Look(s)
      PROVE  /\ raced \subseteq raced'
             /\ ended'[s] =
                   {t \in Scripts : script[t].op = "start" /\ script[t].pc = "done"}
             /\ \A t \in Scripts \ {s} : ended'[t] = ended[t]
  BY <1>1 DEF Host!Look, Host!HostTypeOK
<1>2. CASE UNCHANGED <<raced, ended>>
  BY <1>2
<1>3. CASE \E p \in Host!Pids : Alone(p)
  BY <1>2, <1>3, AloneFacts
<1> QED
  BY <1>1, <1>2, <1>3, StepCases DEF Host!Call, Host!Exec, Host!Waited, Host!KillNext, Host!Fork

-----------------------------------------------------------------------------
(* A stop script stops what it found.                                      *)

LEMMA KillsAllNext ==
  Host!HostTypeOK /\ Host!ScriptShape /\ Host!StartersWait /\ Host!KillsAll /\ [Host!Next]_(Host!vars)
     => Host!KillsAll'
<1> SUFFICES ASSUME Host!HostTypeOK, Host!ScriptShape, Host!StartersWait, Host!KillsAll,
         [Host!Next]_(Host!vars),
                    NEW s \in Scripts
             PROVE  /\ \A t \in ended'[s] : script'[t].pc = "done"
                    /\ script'[s].op = "stop" /\ script'[s].pc \in {"kill", "done"} =>
                         \A p \in Host!Pids :
                           Host!Alive(p)' /\ process'[p].name = script'[s].name
                             /\ process'[p].by \in ended'[s] =>
                           script'[s].pc = "kill" /\ p \in script'[s].pids
  BY DEF Host!KillsAll
<1>1. \A t \in ended'[s] : t \in Scripts /\ script[t].pc = "done"
  <2>1. \A t \in ended[s] : t \in Scripts /\ script[t].pc = "done"
    BY DEF Host!KillsAll, Host!HostTypeOK
  <2> QED
    BY <2>1, HistorySteps
<1>2. \A t \in ended'[s] : script'[t].pc = "done"
  BY <1>1, DoneStays
<1> SUFFICES ASSUME script'[s].op = "stop", script'[s].pc \in {"kill", "done"},
         NEW p \in Host!Pids,
                    Host!Alive(p)', process'[p].name = script'[s].name,
                         process'[p].by \in ended'[s]
             PROVE  script'[s].pc = "kill" /\ p \in script'[s].pids
  BY <1>2
<1>3. CASE Host!Look(s)
  <2>1. PICK x : /\ ScriptTo(s, x) /\ x.pids = Host!Listed(x.name)
                 /\ x.op = "stop" /\ x.pids # {} => x.pc = "kill"
    BY <1>3, LookFacts
  <2>2. p \in Host!Listed(x.name)
    BY <1>3, <2>1 DEF Host!Look, Host!Listed, Host!Alive, ScriptTo
  <2> QED
    BY <2>1, <2>2 DEF ScriptTo
<1>4. CASE ~Host!Look(s)
  <2>1. ended'[s] = ended[s]
    BY <1>4, HistorySteps
  <2>2. Kept(p)
    BY <1>1, LivesOn DEF Born
  <2>3. /\ Host!Alive(p) /\ process[p].name = script'[s].name /\ process[p].by \in ended[s]
    BY <2>1, <2>2 DEF Kept
  <2>4. ASSUME script[s].op = "stop", script[s].name = script'[s].name,
             script[s].pc \in {"kill", "done"}
        PROVE  script[s].pc = "kill" /\ p \in script[s].pids
    BY <2>3, <2>4 DEF Host!KillsAll
  <2>5. CASE script'[s] = script[s]
    BY <2>4, <2>5
  <2>6. ASSUME NEW q \in Host!Pids, Host!KillNext(s, q)
        PROVE  script'[s].pc = "kill" /\ p \in script'[s].pids
    <3>1. PICK x : /\ ScriptTo(s, x) /\ x.op = script[s].op /\ x.name = script[s].name
                   /\ x.pids = script[s].pids \ {q}
                   /\ x.pc = IF script[s].pids = {q} THEN "done" ELSE "kill"
      BY <2>6, KillFacts
    <3>2. p \in script[s].pids
      BY <2>4, <2>6, <3>1 DEF Host!KillNext, ScriptTo
    <3>3. p # q
      <4>1. Host!Alive(q) => \E y : ProcessTo(q, y) /\ y.st = "dead"
        BY <2>6, BecomesFacts DEF Host!KillNext
      <4>2. ~Host!Alive(q) => process' = process
        BY <2>6 DEF Host!KillNext
      <4> QED
        BY <2>3, <4>1, <4>2 DEF ProcessTo, Host!Alive
    <3> QED
      BY <3>1, <3>2, <3>3 DEF ScriptTo
  <2>7. ~(\E op \in {"start", "stop"}, n \in Host!Names : Host!Call(s, op, n))
    BY CallFacts DEF ScriptTo
  <2>8. ~Host!Exec(s) /\ ~Host!Waited(s)
    <3>1. Host!Exec(s) \/ Host!Waited(s) => script'[s].op = script[s].op
      BY ExecFacts, WaitedFacts DEF ScriptTo
    <3>2. Host!Exec(s) \/ Host!Waited(s) => script[s].op = "start"
      BY DEF Host!Exec, Host!Waited, Host!ScriptShape
    <3> QED
      BY <3>1, <3>2
  <2> QED
    BY <1>4, <2>5, <2>6, <2>7, <2>8, ScriptCases
<1> QED
  BY <1>3, <1>4

-----------------------------------------------------------------------------
(* Without a race there is one.                                            *)

LEMMA ExecAloneNext ==
  Host!HostTypeOK /\ Host!StartersWait /\ Host!ExecAlone /\ [Host!Next]_(Host!vars)
     => Host!ExecAlone'
<1> SUFFICES ASSUME Host!HostTypeOK, Host!StartersWait, Host!ExecAlone, [Host!Next]_(Host!vars),
                    NEW s \in Scripts, script'[s].pc = "exec", script'[s].name \notin raced'
             PROVE  /\ \A p \in Host!Pids : ~(Host!Alive(p)' /\ process'[p].name = script'[s].name)
                    /\ \A t \in Scripts :
                         script'[t].pc = "exec" /\ script'[t].name = script'[s].name => t = s
  BY DEF Host!ExecAlone, Host!Listed
<1> DEFINE n == script'[s].name
<1>1. n \notin raced
  BY HistorySteps
(* Only a look makes a script one that is about to start something.        *)
<1>2. ASSUME NEW t \in Scripts, script'[t].pc = "exec"
      PROVE  script'[t] = script[t] \/ Host!Look(t)
  <2>1. ~(\E op \in {"start", "stop"}, m \in Host!Names : Host!Call(t, op, m))
    BY <1>2, CallFacts DEF ScriptTo
  <2>2. ~Host!Exec(t) /\ ~Host!Waited(t)
    BY <1>2, ExecFacts, WaitedFacts DEF ScriptTo
  <2>3. ~(\E p \in Host!Pids : Host!KillNext(t, p))
    BY <1>2, KillFacts DEF ScriptTo
  <2> QED
    BY <2>1, <2>2, <2>3, ScriptCases
(* Who looks and is about to start n sees nothing of it; were another one  *)
(* about to, this would be a race.                                         *)
<1>3. ASSUME NEW t \in Scripts, Host!Look(t), script'[t].pc = "exec", script'[t].name = n
      PROVE  /\ Host!Listed(n) = {} /\ process' = process
             /\ \A u \in Scripts \ {t} : script'[u] = script[u]
             /\ \A u \in Scripts \ {t} : ~(script[u].pc = "exec" /\ script[u].name = n)
  <2>1. PICK x : /\ ScriptTo(t, x) /\ x.op = script[t].op /\ x.name = script[t].name
                 /\ x.pids = Host!Listed(x.name)
                 /\ x.pc = IF x.op = "start"
                           THEN IF x.pids = {} THEN "exec" ELSE "done"
                           ELSE IF x.pids = {} THEN "done" ELSE "kill"
    BY <1>3, LookFacts
  <2>2. script'[t] = x /\ x.name = n /\ x.pc = "exec"
    BY <1>3, <2>1 DEF ScriptTo
  <2>3. x.op = "start" /\ Host!Listed(n) = {} /\ script[t].op = "start" /\ script[t].name = n
    BY <2>1, <2>2
  <2>4. ASSUME NEW u \in Scripts \ {t}, script[u].pc = "exec", script[u].name = n
        PROVE  n \in raced'
    <3> DEFINE others ==
                 {v \in Scripts \ {t} : script[v].pc = "exec" /\ script[v].name = script[t].name}
    <3>1. u \in others
      BY <2>3, <2>4
    <3>2. raced' = IF script[t].op = "start" /\ Host!Listed(script[t].name) = {} /\ others # {}
                   THEN raced \cup {script[t].name} ELSE raced
      BY <1>3 DEF Host!Look
    <3> QED
      BY <2>3, <3>1, <3>2
  <2> QED
    BY <1>3, <2>1, <2>3, <2>4 DEF ScriptTo, Host!Look
<1>4. CASE Host!Look(s)
  <2>1. \A p \in Host!Pids : ~(Host!Alive(p)' /\ process'[p].name = n)
    BY <1>3, <1>4 DEF Host!Listed, Host!Alive
  <2>2. \A t \in Scripts : script'[t].pc = "exec" /\ script'[t].name = n => t = s
    BY <1>3, <1>4
  <2> QED
    BY <2>1, <2>2
<1>5. CASE ~Host!Look(s)
  <2>1. script'[s] = script[s]
    BY <1>2, <1>5
  <2>2. /\ Host!Listed(n) = {}
        /\ \A t \in Scripts : script[t].pc = "exec" /\ script[t].name = n => t = s
    BY <1>1, <2>1 DEF Host!ExecAlone
  <2>3. ASSUME NEW p \in Host!Pids, Host!Alive(p)', process'[p].name = n PROVE FALSE
    <3>1. ~Kept(p)
      BY <2>2, <2>3 DEF Kept, Host!Listed
    <3>2. PICK t \in Scripts : Host!Exec(t) /\ script[t].name = n
      BY <2>2, <2>3, <3>1, LivesOn DEF Born, Host!Listed
    <3>3. t = s
      BY <2>2, <3>2 DEF Host!Exec
    <3>4. PICK x : ScriptTo(t, x) /\ x.pc = "wait"
      BY <3>2, ExecFacts
    <3> QED
      BY <3>3, <3>4 DEF ScriptTo
  <2>4. ASSUME NEW t \in Scripts, script'[t].pc = "exec", script'[t].name = n PROVE t = s
    <3>1. CASE script'[t] = script[t]
      BY <2>2, <2>4, <3>1
    <3>2. CASE Host!Look(t)
      BY <1>3, <2>1, <2>4, <3>2
    <3> QED
      BY <1>2, <2>4, <3>1, <3>2
  <2> QED
    BY <2>3, <2>4
<1> QED
  BY <1>4, <1>5

(* Two of a program that run were started by one script, unless raced.     *)
LEMMA OneNext ==
  Host!HostTypeOK /\ Host!StartersWait /\ Host!ExecAlone /\ Host!OneUnlessRaced /\ [Host!Next]_(Host!vars)
     => Host!OneUnlessRaced'
<1> SUFFICES ASSUME Host!HostTypeOK, Host!StartersWait, Host!ExecAlone, Host!OneUnlessRaced,
         [Host!Next]_(Host!vars),
                    NEW p \in Host!Pids, NEW q \in Host!Pids, Host!Alive(p)', Host!Alive(q)',
                    process'[p].name = process'[q].name, process'[p].name \notin raced'
             PROVE  process'[p].by = process'[q].by
  BY DEF Host!OneUnlessRaced
<1> DEFINE n == process'[p].name
           Running(r) == \E t \in Host!Pids : /\ Host!Alive(t) /\ process[t].name = n
                                              /\ process[t].by = process'[r].by
           Started(r) == \E s \in Scripts : /\ script[s].pc = "exec" /\ script[s].name = n
                                            /\ process'[r].by = s
<1>1. n \notin raced
  BY HistorySteps
<1>2. ASSUME NEW r \in {p, q} PROVE Running(r) \/ Started(r)
  <2>1. Host!Alive(r)' /\ process'[r].name = n /\ r \in Host!Pids
    BY <1>2
  <2>2. CASE Kept(r)
    BY <2>1, <2>2 DEF Kept
  <2>3. CASE Born(r)
    BY <2>1, <2>3 DEF Born, Host!Exec
  <2> QED
    BY <2>1, <2>2, <2>3, LivesOn
<1>3. ASSUME NEW s \in Scripts, script[s].pc = "exec", script[s].name = n
      PROVE  /\ \A t \in Host!Pids : ~(Host!Alive(t) /\ process[t].name = n)
             /\ \A t \in Scripts : script[t].pc = "exec" /\ script[t].name = n => t = s
  BY <1>1, <1>3 DEF Host!ExecAlone, Host!Listed
<1>4. CASE Running(p) /\ Running(q)
  BY <1>1, <1>4 DEF Host!OneUnlessRaced
<1>5. CASE Started(p) \/ Started(q)
  BY <1>2, <1>3, <1>5
<1> QED
  BY <1>2, <1>4, <1>5

-----------------------------------------------------------------------------
(* Listeners stay apart.                                                   *)

LEMMA ListenApartNext == Host!HostTypeOK /\ Host!ListenApart /\ [Host!Next]_(Host!vars)
   => Host!ListenApart'
<1> SUFFICES ASSUME Host!HostTypeOK, Host!ListenApart, [Host!Next]_(Host!vars)
             PROVE  Host!ListenApart'
  OBVIOUS
(* Only the step Serve makes a process one that listens.                   *)
<1>1. ASSUME NEW p \in Host!Pids, process'[p].st = "up", process'[p] # process[p]
      PROVE  Host!Serve(p)
  <2>1. ASSUME NEW s \in Scripts, Host!Exec(s) PROVE FALSE
    <3>1. PICK r \in Host!Pids : \E y : ProcessTo(r, y) /\ y.st = "init"
      BY <2>1, ExecFacts
    <3> QED
      BY <1>1, <3>1 DEF ProcessTo
  <2>2. ASSUME NEW s \in Scripts, NEW r \in Host!Pids, Host!KillNext(s, r) PROVE FALSE
    <3>1. process' = process \/ \E y : ProcessTo(r, y) /\ y.st = "dead"
      BY <2>2, BecomesFacts DEF Host!KillNext
    <3> QED
      BY <1>1, <3>1 DEF ProcessTo
  <2>3. ASSUME NEW r \in Host!Pids, Host!Fork(r) PROVE FALSE
    BY <1>1, <2>3, ForkFacts
  <2>4. ASSUME NEW r \in Host!Pids, Alone(r) PROVE Host!Serve(p)
    <3>1. PICK y : ProcessTo(r, y)
      BY <2>4, AloneFacts
    <3>2. p = r /\ y.st = "up"
      BY <1>1, <3>1 DEF ProcessTo
    <3>3. ~Host!LoadConf(r)
      <4>1. Host!LoadConf(r) => \E z : ProcessTo(r, z) /\ z.st = "ready"
        BY LoadFacts
      <4> QED
        BY <3>1, <3>2, <4>1 DEF ProcessTo
    <3>4. ~Host!Becomes(r, "dead")
      <4>1. Host!Becomes(r, "dead") => \E z : ProcessTo(r, z) /\ z.st = "dead"
        BY BecomesFacts
      <4> QED
        BY <3>1, <3>2, <4>1 DEF ProcessTo
    <3> QED
      BY <2>4, <3>2, <3>3, <3>4 DEF Alone, Host!Exit, Host!GiveUp, Host!Die
  <2>5. process' # process
    BY <1>1
  <2> QED
    BY <2>1, <2>2, <2>3, <2>4, <2>5, StepCases DEF Host!Call, Host!Look, Host!Waited
<1>2. ASSUME NEW p \in Host!Pids, Host!Serve(p)
      PROVE  /\ process'[p].name = process[p].name /\ process'[p].serv = process[p].serv
             /\ \A q \in Host!Pids : q # p => process'[q] = process[q]
             /\ process[p].name = "server" => Host!Bound(process[p].serv) = {}
  BY <1>2, BecomesFacts DEF Host!Serve, ProcessTo
<1>3. ASSUME NEW p \in Host!Pids, NEW q \in Host!Pids, Host!Serve(p), p # q,
             process'[p].name = "server", process'[q].st = "up", process'[q].name = "server"
      PROVE  ~Host!Overlap(process'[p].serv,
           process'[q].serv) /\ ~Host!Overlap(process'[q].serv, process'[p].serv)
  <2>1. Host!Bound(process[p].serv) = {} /\ process'[p].serv = process[p].serv /\ process'[q] = process[q]
    BY <1>2, <1>3
  <2>2. ~Host!Overlap(process'[p].serv, process'[q].serv)
    BY <1>3, <2>1 DEF Host!Bound
  <2> QED
    BY <2>2 DEF Host!Overlap
<1> QED
  BY <1>1, <1>3 DEF Host!ListenApart

-----------------------------------------------------------------------------

(* Whatever starts, stops, fails, is edited and runs in between: two of a  *)
(* program beside each other come from a race of two start scripts; after  *)
(* a stop script nothing it should have stopped is left; and no two        *)
(* servers listen on one port.                                             *)
THEOREM HostIsSound == ASSUME Host!DaemonAssumption PROVE Host!Spec => []HostSound
<1>1. Host!Init => Host!HostTypeOK
  BY TypesInit
<1>2. Host!Init => Host!ScriptShape /\ Host!StartersWait /\ Host!KillsAll /\ Host!ExecAlone
                  /\ Host!OneUnlessRaced /\ Host!ListenApart
  BY DEF Host!Init, Host!NoPid, Host!Alive, Host!ScriptShape, Host!StartersWait, Host!KillsAll,
       Host!ExecAlone, Host!OneUnlessRaced,
         Host!ListenApart
<1>3. Host!HostTypeOK /\ Host!ScriptShape /\ [Host!Next]_(Host!vars) => Host!HostTypeOK'
  BY TypesNext
<1>4. Host!HostTypeOK /\ Host!ScriptShape /\ [Host!Next]_(Host!vars) => Host!ScriptShape'
  BY ScriptShapeNext
<1>5. Host!HostTypeOK /\ Host!StartersWait /\ [Host!Next]_(Host!vars) => Host!StartersWait'
  BY StartersNext
<1>6. Host!HostTypeOK /\ Host!ScriptShape /\ Host!StartersWait /\ Host!KillsAll /\ [Host!Next]_(Host!vars)
         => Host!KillsAll'
  BY KillsAllNext
<1>7. Host!HostTypeOK /\ Host!StartersWait /\ Host!ExecAlone /\ [Host!Next]_(Host!vars)
         => Host!ExecAlone'
  BY ExecAloneNext
<1>8. Host!HostTypeOK /\ Host!StartersWait /\ Host!ExecAlone /\ Host!OneUnlessRaced /\ [Host!Next]_(Host!vars)
         => Host!OneUnlessRaced'
  BY OneNext
<1>9. Host!HostTypeOK /\ Host!ListenApart /\ [Host!Next]_(Host!vars) => Host!ListenApart'
  BY ListenApartNext
<1>10. Host!HostTypeOK /\ Host!OneUnlessRaced /\ Host!KillsAll /\ Host!ListenApart
          => HostSound
  BY DEF HostSound, HostTypeOK, OneUnlessRaced, StopStops, ListenApart, Alive, Overlap,
         Addresses, Names, Pids, Host!KillsAll, Host!HostTypeOK, Host!OneUnlessRaced,
         Host!ListenApart, Host!Alive, Host!Overlap, Host!Addresses, Host!Names, Host!Pids
<1> QED
  BY <1>1, <1>2, <1>3, <1>4, <1>5, <1>6, <1>7, <1>8, <1>9, <1>10, PTL DEF Host!Spec

-----------------------------------------------------------------------------
(* Of the installed clients one runs at a time.                            *)

(* InstancesAssumption, as the proofs use it.                              *)
ClientsAssumption == Installed \subseteq Procs /\ IsFiniteSet(Procs)

(* A client that looks, or has looked and runs, counts itself.             *)
CountsItself ==
  \A p \in Installed :
    clientPc[p] \in {"looking", "main"} => p \in left[p] \cup seen[p]

(* What Decide found when it let a client run.                             *)
SawOne ==
  \A p \in Procs : clientPc[p] = "main" => left[p] = {} /\ Cardinality(seen[p]) = 1

ClientsInv == Clients!ClientsTypeOK /\ Clients!NotBothMissed /\ CountsItself /\ SawOne

LEMMA ClientsInit == ClientsAssumption => (Clients!Init => ClientsInv)
  BY DEF ClientsAssumption, Clients!Init, ClientsInv, Clients!ClientsTypeOK,
       Clients!NotBothMissed, Clients!Missed, CountsItself, SawOne

(* The count of the instance is the library's.                             *)
LEMMA SameCount == ASSUME NEW S PROVE Clients!Cardinality(S) = Cardinality(S)
  BY DEF Cardinality, Clients!Cardinality

(* Start, Look, Decide and End miss nobody new; the client in question     *)
(* starts a new look, or keeps what it has seen, or stops running.         *)
LEMMA ClientOwnStep ==
  ASSUME ClientsAssumption, ClientsInv, NEW p \in Procs,
         Clients!Start(p) \/ Clients!Look(p) \/ Clients!Decide(p) \/ Clients!End(p)
  PROVE  ClientsInv'
<1> USE DEF ClientsInv, ClientsAssumption
<1>1. CASE Clients!Start(p)
  BY <1>1 DEF Clients!Start, Clients!ClientsTypeOK, Clients!NotBothMissed, Clients!Missed,
       CountsItself, SawOne
<1>2. CASE Clients!Look(p)
  BY <1>2 DEF Clients!Look, Clients!ClientsTypeOK, Clients!NotBothMissed, Clients!Missed,
       CountsItself, SawOne
<1>3. CASE Clients!Decide(p)
  <2> DEFINE to == IF Cardinality(seen[p]) = 1 THEN "main" ELSE "refused"
  <2>1. /\ clientPc[p] = "looking" /\ left[p] = {} /\ left' = left /\ seen' = seen
        /\ clientPc' = [clientPc EXCEPT ![p] = to]
        /\ to \in {"main", "refused"} /\ (to = "main" => Cardinality(seen[p]) = 1)
    BY <1>3, SameCount DEF Clients!Decide
  <2> HIDE DEF to
  <2>2. Clients!ClientsTypeOK'
    BY <2>1 DEF Clients!ClientsTypeOK
  <2>3. \A a, b \in Installed : Clients!Missed(a, b)' => Clients!Missed(a, b)
    BY <2>1 DEF Clients!ClientsTypeOK, Clients!Missed
  <2>4. Clients!NotBothMissed'
    BY <2>3 DEF Clients!NotBothMissed
  <2>5. CountsItself'
    BY <2>1 DEF Clients!ClientsTypeOK, CountsItself
  <2>6. SawOne'
    BY <2>1 DEF Clients!ClientsTypeOK, SawOne
  <2> QED
    BY <2>2, <2>4, <2>5, <2>6
<1>4. CASE Clients!End(p)
  <2>1. /\ clientPc' = [clientPc EXCEPT ![p] = "down"]
        /\ left' = [left EXCEPT ![p] = {}] /\ seen' = [seen EXCEPT ![p] = {}]
    BY <1>4 DEF Clients!End
  <2>2. Clients!ClientsTypeOK'
    BY <2>1 DEF Clients!ClientsTypeOK
  <2>3. \A a, b \in Installed : Clients!Missed(a, b)' => Clients!Missed(a, b)
    BY <2>1 DEF Clients!ClientsTypeOK, Clients!Missed
  <2>4. Clients!NotBothMissed'
    BY <2>3 DEF Clients!NotBothMissed
  <2>5. CountsItself'
    BY <2>1 DEF Clients!ClientsTypeOK, CountsItself
  <2>6. SawOne'
    BY <2>1 DEF Clients!ClientsTypeOK, SawOne
  <2> QED
    BY <2>2, <2>4, <2>5, <2>6
<1> QED BY <1>1, <1>2, <1>3, <1>4

(* A client that misses another looks at a process that is not there, so   *)
(* the other cannot have missed it.                                        *)
LEMMA ClientSeeStep ==
  ASSUME ClientsAssumption, ClientsInv, NEW p \in Procs, NEW q \in Procs, Clients!See(p, q)
  PROVE  ClientsInv'
<1> USE DEF ClientsInv, ClientsAssumption
<1>1. Clients!ClientsTypeOK'
  BY DEF Clients!See, Clients!Counted, Clients!ClientsTypeOK
<1>2. Clients!NotBothMissed'
  <2> SUFFICES ASSUME NEW a \in Installed, NEW b \in Installed, a # b,
                      Clients!Missed(a, b)', Clients!Missed(b, a)'
               PROVE  FALSE
    BY DEF Clients!NotBothMissed
  <2>1. clientPc' = clientPc /\ clientPc[a] # "down" /\ clientPc[b] # "down"
    BY DEF Clients!See, Clients!Missed
  <2>2. ASSUME NEW x \in Installed, NEW y \in Installed, Clients!Missed(x, y)',
             clientPc[y] # "down"
        PROVE  Clients!Missed(x, y)
    BY <2>2 DEF Clients!See, Clients!Counted, Clients!Missed, Clients!ClientsTypeOK
  <2>3. Clients!Missed(a, b) /\ Clients!Missed(b, a)
    BY <2>1, <2>2
  <2> QED BY <2>3 DEF Clients!NotBothMissed
<1>3. CountsItself'
  BY DEF Clients!See, Clients!Counted, Clients!ClientsTypeOK, CountsItself
<1>4. SawOne'
  BY DEF Clients!See, Clients!ClientsTypeOK, SawOne
<1> QED BY <1>1, <1>2, <1>3, <1>4

LEMMA ClientsNext ==
  ASSUME ClientsAssumption PROVE ClientsInv /\ [Clients!Next]_(Clients!vars) => ClientsInv'
<1> SUFFICES ASSUME ClientsInv, [Clients!Next]_(Clients!vars) PROVE ClientsInv'
  OBVIOUS
<1>1. CASE UNCHANGED Clients!vars
  BY <1>1 DEF Clients!vars, ClientsInv, Clients!ClientsTypeOK, Clients!NotBothMissed,
       Clients!Missed, CountsItself, SawOne
<1>2. CASE Clients!Next
  <2>1. PICK p \in Procs : Clients!Start(p) \/ Clients!Checking(p) \/ Clients!End(p)
    BY <1>2 DEF Clients!Next
  <2>2. CASE \E q \in Procs : Clients!See(p, q)
    BY <2>2, ClientSeeStep
  <2>3. CASE Clients!Start(p) \/ Clients!Look(p) \/ Clients!Decide(p) \/ Clients!End(p)
    BY <2>3, ClientOwnStep
  <2> QED BY <2>1, <2>2, <2>3 DEF Clients!Checking
<1> QED BY <1>1, <1>2

(* Two that run have both counted one, each itself, and so missed each     *)
(* other.                                                                  *)
LEMMA ClientsOneRuns == ClientsAssumption /\ ClientsInv => Clients!OneRuns
<1> SUFFICES ASSUME ClientsAssumption, ClientsInv, NEW p \in Installed, NEW q \in Installed,
                    clientPc[p] = "main", clientPc[q] = "main", p # q
             PROVE  FALSE
  BY DEF Clients!OneRuns
<1> USE DEF ClientsInv, ClientsAssumption
<1>1. ASSUME NEW x \in Installed, NEW y \in Installed, x # y, clientPc[x] = "main"
      PROVE  Clients!Missed(x, y)
  <2>1. left[x] = {} /\ Cardinality(seen[x]) = 1 /\ x \in seen[x]
    BY <1>1 DEF SawOne, CountsItself
  <2>2. seen[x] \subseteq Procs /\ IsFiniteSet(Procs)
    BY DEF Clients!ClientsTypeOK
  <2>3. IsFiniteSet(seen[x])
    BY <2>2, FS_Subset
  <2>4. PICK z : seen[x] = {z}
    BY <2>1, <2>3, FS_Singleton
  <2> QED BY <1>1, <2>1, <2>4 DEF Clients!Missed
<1>2. Clients!Missed(p, q) /\ Clients!Missed(q, p)
  BY <1>1
<1> QED BY <1>2 DEF Clients!NotBothMissed

(* At most one installed client runs, in every behaviour and for every     *)
(* number of clients.                                                      *)
THEOREM OneClientRuns == Clients!Spec => []OneRuns
<1>1. ClientsAssumption
  BY InstancesAssumption DEF ClientsAssumption
<1>2. ClientsInv => OneRuns
  BY <1>1, ClientsOneRuns DEF OneRuns, Clients!OneRuns
<1>3. Clients!Init => ClientsInv
  BY <1>1, ClientsInit
<1>4. ClientsInv /\ [Clients!Next]_(Clients!vars) => ClientsInv'
  BY <1>1, ClientsNext
<1> QED
  BY <1>2, <1>3, <1>4, PTL DEF Clients!Spec

(* Of two clients at most one has missed the other (the reason for it).    *)
THEOREM AtMostOneMisses == Clients!Spec => [](ClientsTypeOK /\ NotBothMissed)
<1>1. ClientsAssumption
  BY InstancesAssumption DEF ClientsAssumption
<1>2. ClientsInv => ClientsTypeOK /\ NotBothMissed
  BY DEF ClientsInv, ClientsTypeOK, NotBothMissed, Missed, Clients!ClientsTypeOK,
         Clients!NotBothMissed, Clients!Missed
<1>3. Clients!Init => ClientsInv
  BY <1>1, ClientsInit
<1>4. ClientsInv /\ [Clients!Next]_(Clients!vars) => ClientsInv'
  BY <1>1, ClientsNext
<1> QED
  BY <1>2, <1>3, <1>4, PTL DEF Clients!Spec

=============================================================================
