----------------------------- MODULE LogDelivery -----------------------------
(***************************************************************************)
(* How an event gets from a desktop into the raw log: bxr_tracer.c, the    *)
(* request/reply sockets of nng, and bxr_server.c.                         *)
(*                                                                         *)
(* The tracer handles one bus event at a time (bus_recv_handler).  For     *)
(* every event BXR_NNG_REQ opens a REQ socket of its own, dials, sends,    *)
(* waits for the reply and closes; it goes on after every error.  nng      *)
(* redials a connection that was lost and sends the unanswered request     *)
(* again.  The server takes requests one by one from a REP socket, inserts *)
(* a row into tb_log_event_law over a new database connection and answers  *)
(* "S" or "E".  A request that was sent twice is inserted twice.           *)
(*                                                                         *)
(* A connection is a pair <<m, e>>: the e-th connection of the socket of   *)
(* event m.  The client's and the server's view of it end independently.   *)
(***************************************************************************)
EXTENDS Integers, Sequences, FiniteSets, SequencesExt

CONSTANTS
  Tracers,    \* the tracer processes, one per desktop
  Events,     \* the events the bus delivers
  Quoted,     \* events whose text ends the SQL string of the INSERT
  MaxConn,    \* connections the database grants the server
  MaxFaults,  \* bound: crashes, lost connections, database outages
  MaxSend     \* bound: copies of one request put on the wire by the timer

ASSUME DeliveryAssumption ==
  /\ Quoted \subseteq Events
  /\ MaxConn \in Nat \ {0}
  /\ MaxFaults \in Nat
  /\ MaxSend \in Nat \ {0}

VARIABLES
  \* the tracers and their REQ sockets
  busy,     \* busy[t]: the event tracer t is handling, or NoEvent
  pc,       \* pc[m]: where BXR_NNG_REQ is for event m
  dialed,   \* dialed[m]: nng_dial succeeded, so the socket has a dialer
  epoch,    \* epoch[m]: connections the socket of m has had
  up,       \* up[m]: the latest connection of m is up on the client's side
  sent,     \* sent[m]: history: copies of the request handed to a connection
  answer,   \* answer[m]: the reply nng_recv returned
  \* the wire
  inbox,    \* inbox[m][e]: request copies on their way to the server
  replies,  \* replies[m][e]: replies on their way back, in order
  \* the server and its REP socket
  conns,    \* the connections that are up on the server's side
  ready,    \* connections holding a request rep0 has not handed out yet
  srv,      \* where main() of bxr_server is
  cur,      \* the connection the request being worked on came from
  result,   \* what Log_DBMS_Insert returned
  leaked,   \* database connections opened and never closed
  \* the database
  dbUp,     \* it accepts connections
  rows,     \* tb_log_event_law: the events stored, in order of idx
  faults    \* history: faults so far

tracerVars == <<busy, pc, dialed, epoch, up, sent, answer>>
wireVars == <<inbox, replies>>
serverVars == <<conns, ready, srv, cur, result, leaked>>
vars == <<tracerVars, wireVars, serverVars, dbUp, rows, faults>>

NoEvent == "none"
Epochs == 1..(MaxFaults + 1)
Links == Events \X Epochs

InFlight == {"dial", "send", "queued", "recv"}

Stored(m) == m \in ToSet(rows)

Init ==
  /\ busy = [t \in Tracers |-> NoEvent]
  /\ pc = [m \in Events |-> "new"]
  /\ dialed = [m \in Events |-> FALSE]
  /\ epoch = [m \in Events |-> 0]
  /\ up = [m \in Events |-> FALSE]
  /\ sent = [m \in Events |-> 0]
  /\ answer = [m \in Events |-> "none"]
  /\ inbox = [m \in Events |-> [e \in Epochs |-> 0]]
  /\ replies = [m \in Events |-> [e \in Epochs |-> <<>>]]
  /\ conns = {}
  /\ ready = <<>>
  /\ srv = "down"
  /\ cur = <<>>
  /\ result = FALSE
  /\ leaked = 0
  /\ dbUp = TRUE
  /\ rows = <<>>
  /\ faults = 0

Fault == faults < MaxFaults /\ faults' = faults + 1

-----------------------------------------------------------------------------
(* The tracer.                                                             *)

Step(m, l) == pc' = [pc EXCEPT ![m] = l]

(* The bus calls the handler with the next event.                          *)
Receive(t, m) ==
  /\ busy[t] = NoEvent
  /\ pc[m] = "new"
  /\ busy' = [busy EXCEPT ![t] = m]
  /\ Step(m, "dial")
  /\ UNCHANGED <<dialed, epoch, up, sent, answer, wireVars, serverVars, dbUp, rows, faults>>

(* A new connection on both sides.                                         *)
Connect(m) ==
  /\ srv # "down"
  /\ epoch' = [epoch EXCEPT ![m] = @ + 1]
  /\ up' = [up EXCEPT ![m] = TRUE]
  /\ conns' = conns \cup {<<m, epoch[m] + 1>>}

(* req0 hands the request to the connection; on one the server has lost it *)
(* goes nowhere.                                                           *)
Transmit(m, e, alive) ==
  /\ sent' = [sent EXCEPT ![m] = @ + 1]
  /\ inbox' = IF alive THEN [inbox EXCEPT ![m][e] = @ + 1] ELSE inbox

Dial(m) ==
  /\ pc[m] = "dial"
  /\ Connect(m)
  /\ dialed' = [dialed EXCEPT ![m] = TRUE]
  /\ Step(m, "send")
  /\ UNCHANGED <<busy, sent, answer, wireVars, ready, srv, cur, result, leaked, dbUp, rows, faults>>

(* The first dial fails: nng drops the dialer, the tracer logs and goes on. *)
DialFails(m) ==
  /\ pc[m] = "dial"
  /\ \/ srv = "down" /\ UNCHANGED faults
     \/ srv # "down" /\ Fault
  /\ Step(m, "send")
  /\ UNCHANGED <<busy, dialed, epoch, up, sent, answer, wireVars, serverVars, dbUp, rows>>

(* nng_send: without a connection it waits, by default for ever.           *)
Send(m) ==
  /\ pc[m] = "send"
  /\ IF up[m]
     THEN Transmit(m, epoch[m], <<m, epoch[m]>> \in conns) /\ Step(m, "recv")
     ELSE Step(m, "queued") /\ UNCHANGED <<sent, inbox>>
  /\ UNCHANGED <<busy, dialed, epoch, up, answer, replies, serverVars, dbUp, rows, faults>>

(* Mutant: a failed first dial is repeated in the background too.          *)
Reconnect_Undialed(m) ==
  /\ pc[m] \in {"send", "queued"}
  /\ ~up[m]
  /\ epoch[m] <= MaxFaults
  /\ Connect(m)
  /\ IF pc[m] = "queued"
     THEN Transmit(m, epoch[m] + 1, TRUE) /\ Step(m, "recv")
     ELSE UNCHANGED <<sent, inbox, pc>>
  /\ UNCHANGED <<busy, dialed, answer, replies, ready, srv, cur, result, leaked, dbUp, rows, faults>>

(* The dialer's background redial; what waits in the send queue goes out   *)
(* on the new connection.                                                  *)
Reconnect(m) ==
  /\ pc[m] \in {"send", "queued"}
  /\ dialed[m]
  /\ ~up[m]
  /\ Connect(m)
  /\ IF pc[m] = "queued"
     THEN Transmit(m, epoch[m] + 1, TRUE) /\ Step(m, "recv")
     ELSE UNCHANGED <<sent, inbox, pc>>
  /\ UNCHANGED <<busy, dialed, answer, replies, ready, srv, cur, result, leaked, dbUp, rows, faults>>

(* req0's retry timer: the unanswered request is sent again.               *)
Resend(m) ==
  /\ pc[m] = "recv"
  /\ up[m]
  /\ sent[m] < MaxSend
  /\ Transmit(m, epoch[m], <<m, epoch[m]>> \in conns)
  /\ UNCHANGED <<busy, pc, dialed, epoch, up, answer, replies, serverVars, dbUp, rows, faults>>

(* The client's side of the connection ends: replies on it are lost, an    *)
(* unanswered request goes back to the send queue at once.                 *)
HangUp(m) ==
  /\ up' = [up EXCEPT ![m] = FALSE]
  /\ replies' = [replies EXCEPT ![m] = [e \in Epochs |-> <<>>]]

(* Mutant: a request that was sent is not sent again (retry switched off).  *)
ConnectionLost_NoRetry(m) ==
  /\ pc[m] \in {"send", "recv"}
  /\ up[m]
  /\ IF <<m, epoch[m]>> \in conns THEN Fault ELSE UNCHANGED faults
  /\ HangUp(m)
  /\ UNCHANGED <<busy, pc, dialed, epoch, sent, answer, inbox, serverVars, dbUp, rows>>

ConnectionLost(m) ==
  /\ pc[m] \in {"send", "recv"}
  /\ up[m]
  /\ IF <<m, epoch[m]>> \in conns THEN Fault ELSE UNCHANGED faults
  /\ HangUp(m)
  /\ IF pc[m] = "recv" THEN Step(m, "queued") ELSE UNCHANGED pc
  /\ UNCHANGED <<busy, dialed, epoch, sent, answer, inbox, serverVars, dbUp, rows>>

(* nng_recv returns the first reply, the socket is closed and the handler  *)
(* reports success to the bus, whatever the reply says.                    *)
Finish(t, m) ==
  /\ busy[t] = m
  /\ pc[m] = "recv"
  /\ up[m]
  /\ replies[m][epoch[m]] # <<>>
  /\ answer' = [answer EXCEPT ![m] = Head(replies[m][epoch[m]])]
  /\ HangUp(m)
  /\ Step(m, "done")
  /\ busy' = [busy EXCEPT ![t] = NoEvent]
  /\ UNCHANGED <<dialed, epoch, sent, inbox, serverVars, dbUp, rows, faults>>

(* The tracer process ends; the event it was handling is forgotten.        *)
TracerCrash(t) ==
  /\ busy[t] # NoEvent
  /\ Fault
  /\ Step(busy[t], "lost")
  /\ HangUp(busy[t])
  /\ busy' = [busy EXCEPT ![t] = NoEvent]
  /\ UNCHANGED <<dialed, epoch, sent, answer, inbox, serverVars, dbUp, rows>>

-----------------------------------------------------------------------------
(* The server.                                                             *)

ServerStart ==
  /\ srv = "down"
  /\ srv' = "recv"
  /\ UNCHANGED <<tracerVars, wireVars, conns, ready, cur, result, leaked, dbUp, rows, faults>>

(* Mutant: rep0 goes on reading while it holds a request.                   *)
HoldRequest_Again(m, e) ==
  /\ <<m, e>> \in conns
  /\ inbox[m][e] > 0
  /\ inbox' = [inbox EXCEPT ![m][e] = @ - 1]
  /\ ready' = Append(ready, <<m, e>>)
  /\ UNCHANGED <<tracerVars, replies, conns, srv, cur, result, leaked, dbUp, rows, faults>>

(* rep0 reads one request from a connection and holds it there until the   *)
(* server asks for one; the next is read only after that.                  *)
HoldRequest(m, e) ==
  /\ <<m, e>> \in conns
  /\ <<m, e>> \notin ToSet(ready)
  /\ inbox[m][e] > 0
  /\ inbox' = [inbox EXCEPT ![m][e] = @ - 1]
  /\ ready' = Append(ready, <<m, e>>)
  /\ UNCHANGED <<tracerVars, replies, conns, srv, cur, result, leaked, dbUp, rows, faults>>

(* The server's side of a connection ends once the client's has; a held    *)
(* request goes with it.                                                   *)
NoticeHangUp(m, e) ==
  /\ <<m, e>> \in conns
  /\ ~(up[m] /\ epoch[m] = e)
  /\ conns' = conns \ {<<m, e>>}
  /\ IF <<m, e>> \in ToSet(ready)
     THEN \E k \in DOMAIN ready : ready[k] = <<m, e>> /\ ready' = RemoveAt(ready, k)
     ELSE UNCHANGED ready
  /\ inbox' = [inbox EXCEPT ![m][e] = 0]
  /\ UNCHANGED <<tracerVars, replies, srv, cur, result, leaked, dbUp, rows, faults>>

(* Mutant: the request stays in the list of held requests.                  *)
TakeRequest_Kept ==
  /\ srv = "recv"
  /\ ready # <<>>
  /\ cur' = Head(ready)
  /\ srv' = "insert"
  /\ UNCHANGED <<tracerVars, wireVars, conns, ready, result, leaked, dbUp, rows, faults>>

(* nng_recv of main().                                                     *)
TakeRequest ==
  /\ srv = "recv"
  /\ ready # <<>>
  /\ cur' = Head(ready)
  /\ ready' = Tail(ready)
  /\ srv' = "insert"
  /\ UNCHANGED <<tracerVars, wireVars, conns, result, leaked, dbUp, rows, faults>>

InsertReturns(r) == result' = r /\ srv' = "reply"

CanConnect == dbUp /\ leaked < MaxConn

(* Log_DBMS_Insert.  The connection is closed only on the success path.    *)
InsertRow ==
  /\ srv = "insert"
  /\ CanConnect
  /\ cur[1] \notin Quoted
  /\ rows' = Append(rows, cur[1])
  /\ InsertReturns(TRUE)
  /\ UNCHANGED <<tracerVars, wireVars, conns, ready, cur, leaked, dbUp, faults>>

(* Mutant: the result of mysql_query is not looked at (lines 122-126).     *)
InsertRefused_Ignored ==
  /\ srv = "insert"
  /\ ~CanConnect \/ cur[1] \in Quoted
  /\ InsertReturns(TRUE)
  /\ UNCHANGED <<tracerVars, wireVars, conns, ready, cur, leaked, dbUp, rows, faults>>

InsertRefused ==
  /\ srv = "insert"
  /\ \/ ~CanConnect /\ UNCHANGED leaked
     \/ CanConnect /\ cur[1] \in Quoted /\ leaked' = leaked + 1
  /\ InsertReturns(FALSE)
  /\ UNCHANGED <<tracerVars, wireVars, conns, ready, cur, dbUp, rows, faults>>

(* The row is committed but the answer of the database is lost.            *)
InsertAnswerLost ==
  /\ srv = "insert"
  /\ CanConnect
  /\ cur[1] \notin Quoted
  /\ Fault
  /\ rows' = Append(rows, cur[1])
  /\ InsertReturns(FALSE)
  /\ UNCHANGED <<tracerVars, wireVars, conns, ready, cur, leaked, dbUp>>

(* Mutant: the two answers are swapped (lines 72 and 74).                   *)
Reply_Swapped ==
  /\ srv = "reply"
  /\ srv' = "recv"
  /\ replies' = IF cur \in conns /\ up[cur[1]] /\ epoch[cur[1]] = cur[2]
                THEN [replies EXCEPT ![cur[1]][cur[2]] =
                        Append(@, IF result THEN "E" ELSE "S")]
                ELSE replies
  /\ cur' = <<>>
  /\ result' = FALSE
  /\ UNCHANGED <<tracerVars, inbox, conns, ready, leaked, dbUp, rows, faults>>

(* nng_send of main(): a reply to a connection that is gone is dropped.    *)
Reply ==
  /\ srv = "reply"
  /\ srv' = "recv"
  /\ replies' = IF cur \in conns /\ up[cur[1]] /\ epoch[cur[1]] = cur[2]
                THEN [replies EXCEPT ![cur[1]][cur[2]] =
                        Append(@, IF result THEN "S" ELSE "E")]
                ELSE replies
  /\ cur' = <<>>
  /\ result' = FALSE
  /\ UNCHANGED <<tracerVars, inbox, conns, ready, leaked, dbUp, rows, faults>>

(* The server process ends: its connections and what rep0 held are gone.   *)
ServerCrash ==
  /\ srv # "down"
  /\ Fault
  /\ srv' = "down"
  /\ conns' = {}
  /\ ready' = <<>>
  /\ inbox' = [m \in Events |-> [e \in Epochs |-> 0]]
  /\ leaked' = 0
  /\ cur' = <<>>
  /\ result' = FALSE
  /\ UNCHANGED <<tracerVars, replies, dbUp, rows>>

DbStop == dbUp /\ Fault /\ dbUp' = FALSE
          /\ UNCHANGED <<tracerVars, wireVars, serverVars, rows>>
DbStart == ~dbUp /\ dbUp' = TRUE
           /\ UNCHANGED <<tracerVars, wireVars, serverVars, rows, faults>>

-----------------------------------------------------------------------------
TracerStep(m) ==
  \/ Dial(m) \/ DialFails(m) \/ Send(m) \/ Reconnect(m)
  \/ \E t \in Tracers : Finish(t, m)

Storing == InsertRow \/ InsertAnswerLost

ServerStep == TakeRequest \/ InsertRow \/ InsertRefused \/ Reply

(* Every step but the two that add a row to the raw log.                   *)
NextNoRow ==
  \/ \E t \in Tracers, m \in Events : Receive(t, m) \/ Finish(t, m)
  \/ \E t \in Tracers : TracerCrash(t)
  \/ \E m \in Events :
       \/ Dial(m) \/ DialFails(m) \/ Send(m) \/ Reconnect(m)
       \/ Resend(m) \/ ConnectionLost(m)
  \/ \E m \in Events, e \in Epochs : HoldRequest(m, e) \/ NoticeHangUp(m, e)
  \/ ServerStart \/ TakeRequest \/ InsertRefused \/ Reply \/ ServerCrash
  \/ DbStop \/ DbStart

Next == NextNoRow \/ Storing

Spec == Init /\ [][Next]_vars

(* Threads that can run do run, redials are timers, and TCP reports a peer *)
(* that is gone.  Nothing restarts the server, and the bus need not call.  *)
Fairness ==
  /\ \A m \in Events : WF_vars(TracerStep(m))
  /\ \A m \in Events : WF_vars(<<m, epoch[m]>> \notin conns /\ ConnectionLost(m))
  /\ \A m \in Events, e \in Epochs : WF_vars(HoldRequest(m, e))
  /\ WF_vars(ServerStep)

FairSpec == Spec /\ Fairness

-----------------------------------------------------------------------------
(* Properties.                                                             *)

TracerTypes ==
  /\ busy \in [Tracers -> Events \cup {NoEvent}]
  /\ pc \in [Events -> InFlight \cup {"new", "done", "lost"}]
  /\ dialed \in [Events -> BOOLEAN]
  /\ epoch \in [Events -> 0..(MaxFaults + 1)]
  /\ up \in [Events -> BOOLEAN]
  /\ sent \in [Events -> Nat]
  /\ answer \in [Events -> {"none", "S", "E"}]

WireTypes ==
  /\ inbox \in [Events -> [Epochs -> Nat]]
  /\ replies \in [Events -> [Epochs -> Seq({"S", "E"})]]

ServerTypes ==
  /\ conns \subseteq Links
  /\ ready \in Seq(Links)
  /\ srv \in {"down", "recv", "insert", "reply"}
  /\ cur \in Links \cup {<<>>}
  /\ result \in BOOLEAN
  /\ leaked \in 0..MaxConn
  /\ dbUp \in BOOLEAN
  /\ rows \in Seq(Events)
  /\ faults \in 0..MaxFaults

TypeOK == TracerTypes /\ WireTypes /\ ServerTypes

(* A reply "S 000" is only ever received for an event that is in the raw   *)
(* log, whatever is resent, lost, restarted or answered late.              *)
AckedIsStored == \A m \in Events : answer[m] = "S" => Stored(m)

Count(s, x) == Cardinality({k \in DOMAIN s : s[k] = x})

(* The request copies of event m on their way to the server, those rep0    *)
(* holds, and the one main() has not inserted yet.                         *)
OnWire(m) == UNION {{e} \X (1..inbox[m][e]) : e \in Epochs}
Held(m) == {k \in DOMAIN ready : ready[k][1] = m}
BeingInserted(m) == srv = "insert" /\ cur[1] = m

CopiesUnderWay(m) ==
  Cardinality(OnWire(m)) + Cardinality(Held(m)) + (IF BeingInserted(m) THEN 1 ELSE 0)

(* Every row costs one transmission: an event has no more rows than its    *)
(* request was sent, and copies still under way count against that too.    *)
CopiesConserved ==
  \A m \in Events : Count(rows, m) + CopiesUnderWay(m) <= sent[m]

(* An event whose first dial failed is never sent, stored or answered:     *)
(* nng_dial without NNG_FLAG_NONBLOCK keeps no dialer to try again.        *)
UndialedIsStuck ==
  \A m \in Events : ~dialed[m] => /\ pc[m] \notin {"recv", "done"}
                                  /\ ~Stored(m) /\ sent[m] = 0

(* The connections leaked by refused events are the only reason why, with  *)
(* nothing failing, a well-formed event is refused.                        *)
InnocentRefusedOnlyByLeaks ==
  \A m \in Events \ Quoted :
    answer[m] = "E" /\ faults = 0 => leaked = MaxConn

(* rep0 holds at most one request of a connection, and none of a           *)
(* connection it knows to be gone.                                         *)
HeldOnce ==
  /\ ToSet(ready) \subseteq conns
  /\ \A j, k \in DOMAIN ready : ready[j] = ready[k] => j = k

(* An event that got through to its first connection is answered or given  *)
(* up with its tracer, as long as the server is started again each time.   *)
ServerRestarted == []<>(srv # "down")

DialedIsAnswered ==
  ServerRestarted =>
    \A m \in Events :
      (dialed[m] /\ pc[m] \in InFlight) ~> pc[m] \in {"done", "lost"}

(* What the handler reports to the bus: etype "S", ecode "000", emesg      *)
(* "Success" (bxr_tracer.c lines 100-102).                                 *)
SuccessIsStored == \A m \in Events : pc[m] = "done" => Stored(m)

-----------------------------------------------------------------------------
(* The inductive invariant behind TypeOK, AckedIsStored, HeldOnce,         *)
(* UndialedIsStuck and InnocentRefusedOnlyByLeaks; proved in               *)
(* LogDeliveryProofs.  CopiesConserved is inductive as it stands.          *)

(* A socket has had one connection more than there were faults at most,    *)
(* and only while that connection is up or after it brought the answer.    *)
EpochBound ==
  \A m \in Events :
    /\ pc[m] \in {"new", "dial"} => ~up[m]
    /\ up[m] => epoch[m] > 0
    /\ epoch[m] <= faults + (IF pc[m] = "done" \/ (up[m] /\ <<m, epoch[m]>> \in conns)
                             THEN 1 ELSE 0)

(* The server knows where the request it is working on came from.          *)
WorkedOn == srv \in {"insert", "reply"} => cur \in Links

(* "S" is only under way for what is stored.                               *)
SuccessUnderWay ==
  /\ \A m \in Events, e \in Epochs : "S" \in ToSet(replies[m][e]) => Stored(m)
  /\ srv = "reply" /\ result => Stored(cur[1])

(* Without faults a refusal of a well-formed event that is under way was   *)
(* made when every connection to the database had been leaked.             *)
RefusalUnderWay ==
  faults = 0 =>
    /\ dbUp
    /\ \A m \in Events \ Quoted, e \in Epochs :
         "E" \in ToSet(replies[m][e]) => leaked = MaxConn
    /\ srv = "reply" /\ ~result /\ cur[1] \notin Quoted => leaked = MaxConn

=============================================================================
