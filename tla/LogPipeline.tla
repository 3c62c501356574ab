----------------------------- MODULE LogPipeline -----------------------------
(***************************************************************************)
(* The whole way of an event: from the tracer over the network into the    *)
(* raw log (LogDelivery) and from there into the detail table (LogParser). *)
(* The two halves share nothing but tb_log_event_law: the server's INSERT  *)
(* is one step of both, every other step belongs to one of them.           *)
(***************************************************************************)
EXTENDS Integers, Sequences, FiniteSets

CONSTANTS
  Tracers, Events, Quoted, MaxConn, MaxFaults, MaxSend,
  Parsers, Kinds, DetailColumns, MaxRows, MaxDisturb, AttemptCap,
  KindOf    \* KindOf[m]: what the row stored for event m is to the parser

ASSUME PipelineAssumption ==
  /\ KindOf \in [Events -> Kinds]
  /\ Quoted \subseteq Events
  /\ MaxConn \in Nat \ {0} /\ MaxFaults \in Nat /\ MaxSend \in Nat \ {0}
  /\ Kinds \subseteq {"plain", "rejected", "poison"}
  /\ MaxRows \in Nat /\ MaxDisturb \in Nat /\ AttemptCap \in Nat

VARIABLES
  busy, pc, dialed, epoch, up, sent, answer, inbox, replies,
  conns, ready, srv, cur, result, leaked, dbUp, rows, faults,
  law, detail, parserPc, batch, conn, attempts, disturbed

D == INSTANCE LogDelivery
P == INSTANCE LogParser WITH pc <- parserPc

deliveryVars == <<busy, pc, dialed, epoch, up, sent, answer, inbox, replies,
                  conns, ready, srv, cur, result, leaked, dbUp, rows, faults>>
parserVars == <<detail, parserPc, batch, conn, attempts, disturbed>>
vars == <<deliveryVars, law, parserVars>>

Init == D!Init /\ P!Init

(* Log_DBMS_Insert commits: the event the server works on becomes a row.   *)
ServerStores ==
  /\ D!Storing
  /\ P!Accept(KindOf[cur[1]])
  /\ UNCHANGED parserVars

(* A step of the delivery that stores nothing.                             *)
Delivers == D!NextNoRow /\ UNCHANGED <<law, parserVars>>

(* A parser starts, works or is disturbed.                                 *)
Parses ==
  /\ \E p \in Parsers : P!Start(p) \/ P!ParserStep(p) \/ P!Trouble(p)
  /\ UNCHANGED deliveryVars

Next == Delivers \/ ServerStores \/ Parses

Spec == Init /\ [][Next]_vars

(* The fairness of the two halves; each holds of its own steps.            *)
Fairness ==
  /\ \A m \in Events : WF_vars(D!TracerStep(m) /\ UNCHANGED <<law, parserVars>>)
  /\ \A m \in Events :
       WF_vars(<<m, epoch[m]>> \notin conns /\ D!ConnectionLost(m) /\ UNCHANGED <<law, parserVars>>)
  /\ \A m \in Events, e \in D!Epochs : WF_vars(D!HoldRequest(m, e) /\ UNCHANGED <<law, parserVars>>)
  /\ WF_vars(D!ServerStep /\ (ServerStores \/ UNCHANGED <<law, parserVars>>))
  /\ \A p \in Parsers : WF_vars(P!ParserStep(p) /\ UNCHANGED deliveryVars)

FairSpec == Spec /\ Fairness

-----------------------------------------------------------------------------
(* Properties.                                                             *)

RowsOf(m) == {i \in DOMAIN rows : rows[i] = m}
DetailsOf(m, p) == UNION {{i} \X (1..detail[i][p]) : i \in RowsOf(m)}
HasDetail(i) == \E p \in Parsers : detail[i][p] > 0

(* Both halves see the same table: a row for every event stored, of its    *)
(* kind, in the same order.                                                *)
TableShared ==
  /\ Len(law) = Len(rows)
  /\ \A i \in DOMAIN rows : law[i].kind = KindOf[rows[i]]

(* End to end, an acknowledged event is never lost: it is waiting in the   *)
(* raw log, which both halves see, or parsed into the detail table.        *)
AckedIsKept == TableShared /\
  \A m \in Events : answer[m] = "S" =>
    \E i \in RowsOf(m) : law[i].state = "N" \/ HasDetail(i)

(* End to end, the detail rows of one event are paid for: one for every    *)
(* transmission of its request, and one for every disturbance of a parser. *)
DetailsPaidFor ==
  \A m \in Events, p \in Parsers : Cardinality(DetailsOf(m, p)) <= sent[m] + disturbed[p]

(* An event that got through to its first connection is answered or given  *)
(* up with its tracer, whatever the parser does meanwhile.                 *)
DialedIsAnswered == D!DialedIsAnswered

(* A plain event that got through to its first connection ends up in the   *)
(* detail table, is refused by the server, lost with its tracer, or stands *)
(* behind a poison row - if server and parser are always started again.    *)
KeptRunning ==
  D!ServerRestarted /\ \E p \in Parsers : []<>(parserPc[p] # "down")

Settled(m) ==
  \/ answer[m] = "E"
  \/ pc[m] = "lost"
  \/ \E i \in RowsOf(m) : HasDetail(i) \/ P!Behind(i)

PlainEventsParsed ==
  KeptRunning =>
    \A m \in Events :
      (KindOf[m] = "plain" /\ dialed[m]) ~> Settled(m)

=============================================================================
