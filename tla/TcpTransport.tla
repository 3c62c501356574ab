---------------------------- MODULE TcpTransport ----------------------------
(***************************************************************************)
(* An endpoint of nng's TCP transport: sp/transport/tcp/tcp.c up to the    *)
(* pipe it hands to the socket, with the callback of core/listener.c or    *)
(* core/dialer.c that asks for one pipe after the other.                   *)
(*                                                                         *)
(* A connection that was accepted or made is negotiated in steps of its    *)
(* own: eight bytes are sent, eight are received and compared.  Only then  *)
(* it waits to be matched with the one operation (useraio) of the socket.  *)
(* All steps hold ep->mtx; between them the endpoint is closed, clients    *)
(* connect, fail, and go away.                                             *)
(***************************************************************************)
EXTENDS Integers, FiniteSets, Sequences

CONSTANTS Conns,      \* bound: connections at the same time
          Listening,  \* a listener, or a dialer
          Errors      \* how a handshake can fail: of {"reset", "closed"}

TransportAssumption == Listening \in BOOLEAN /\ Errors \subseteq {"reset", "closed"}

VARIABLES ep,      \* the fields of tcptran_ep
          useraio, \* the operation of the socket, and what became of it
          connaio, timeaio,
          pipe,    \* the pipes of the three lists
          waitpipes, \* the order of those that wait
          core     \* the close of the endpoint: "open", "closed", "fini"

vars == <<ep, useraio, connaio, timeaio, pipe, waitpipes, core>>

NoPipe == [st |-> "free", stage |-> 0, nego |-> "idle", stopped |-> FALSE,
           reaped |-> FALSE]

Init == /\ ep = [started |-> FALSE, closed |-> FALSE, fini |-> FALSE,
                 refcnt |-> 0, freed |-> FALSE]
        /\ useraio = "idle"
        /\ connaio = "idle" /\ timeaio = "idle"
        /\ pipe = [c \in Conns |-> NoPipe]
        /\ waitpipes = <<>>
        /\ core = "open"

Of(st) == {c \in Conns : pipe[c].st = st}
-----------------------------------------------------------------------------
(* tcptran_ep_match: the pipes and the operation after it. *)

Matching == useraio = "pending"

\* the operation of the socket ends with a pipe or with an error
FailUser(rv) == useraio' = IF Matching THEN rv ELSE useraio

\* nni_aio_begin and the submission of an operation of a connection
Begun(p, stage) == [p EXCEPT !.stage = stage,
                             !.nego = IF p.stopped THEN "idle" ELSE "pending"]

\* tcptran_pipe_start
Started(c) == pipe' = [pipe EXCEPT ![c] = Begun([NoPipe EXCEPT !.st = "nego"], 0)]
-----------------------------------------------------------------------------
(* The socket asks for a pipe: tcptran_ep_accept, tcptran_ep_connect. *)

EpAccept ==
  /\ Listening /\ useraio = "idle" /\ core = "open"
  /\ ep' = [ep EXCEPT !.started = TRUE]
  /\ connaio' = IF ep.started THEN connaio ELSE "pending"
  /\ IF waitpipes = <<>>
     THEN /\ useraio' = "pending"
          /\ UNCHANGED <<pipe, waitpipes>>
     ELSE /\ pipe' = [pipe EXCEPT ![Head(waitpipes)].st = "busy"]
          /\ waitpipes' = Tail(waitpipes)
          /\ useraio' = "ok"
  /\ UNCHANGED <<timeaio, core>>

\* a dialer asks when its last pipe is gone
EpConnect ==
  /\ ~Listening /\ useraio = "idle" /\ core = "open" /\ Of("busy") = {}
  /\ connaio' = "pending"
  /\ useraio' = "pending"
  /\ UNCHANGED <<ep, timeaio, pipe, waitpipes, core>>

\* listener_accept_cb, dialer_connect_cb: after NNG_ECLOSED, "no further action"
UserCb ==
  /\ useraio \in {"ok", "reset", "closed"}
  /\ useraio' = IF useraio = "closed" THEN "off" ELSE "idle"
  /\ UNCHANGED <<ep, connaio, timeaio, pipe, waitpipes, core>>
-----------------------------------------------------------------------------
(* Connections. *)

\* a client connects, accept or connect fails
ConnDone ==
  /\ connaio = "pending"
  /\ connaio' \in {"ok", "error"}
  /\ UNCHANGED <<ep, useraio, timeaio, pipe, waitpipes, core>>

\* tcptran_accept_cb: the connection is negotiated, the next one is accepted
Accepted(c) ==
  /\ Listening /\ connaio = "ok" /\ ~ep.closed /\ pipe[c].st = "free"
  /\ Started(c)
  /\ ep' = [ep EXCEPT !.refcnt = @ + 1]
  /\ connaio' = "pending"
  /\ UNCHANGED <<useraio, timeaio, waitpipes, core>>

\* its error path: an endpoint that is open accepts again
AcceptFails ==
  /\ Listening /\ \/ connaio \in {"error", "closed"}
                  \/ connaio = "ok" /\ ep.closed
  /\ FailUser(IF ep.closed THEN "closed" ELSE "reset")
  /\ connaio' = IF ep.closed THEN "idle" ELSE "pending"
  /\ UNCHANGED <<ep, timeaio, pipe, waitpipes, core>>

\* NNG_ENOMEM and NNG_ENOFILES: it waits for ten milliseconds first
AcceptNoMemory ==
  /\ Listening /\ connaio \in {"ok", "error"}
  /\ FailUser("reset")
  /\ connaio' = "idle"
  /\ timeaio' = IF ep.closed THEN "idle" ELSE "pending"
  /\ UNCHANGED <<ep, pipe, waitpipes, core>>

\* tcptran_timer_cb
TimerCb ==
  /\ timeaio # "idle"
  /\ timeaio' = "idle"
  /\ connaio' = IF timeaio = "pending" THEN "pending" ELSE connaio
  /\ UNCHANGED <<ep, useraio, pipe, waitpipes, core>>

\* tcptran_dial_cb
Dialed(c) ==
  /\ ~Listening /\ connaio = "ok" /\ ~ep.closed /\ pipe[c].st = "free"
  /\ Started(c)
  /\ ep' = [ep EXCEPT !.refcnt = @ + 1]
  /\ connaio' = "idle"
  /\ UNCHANGED <<useraio, timeaio, waitpipes, core>>

DialFails ==
  /\ ~Listening /\ \/ connaio \in {"error", "closed"}
                   \/ connaio = "ok" /\ ep.closed
  /\ FailUser(IF ep.closed THEN "closed" ELSE "reset")
  /\ connaio' = "idle"
  /\ UNCHANGED <<ep, timeaio, pipe, waitpipes, core>>
-----------------------------------------------------------------------------
(* The handshake: tcptran_pipe_nego_cb. *)

\* bytes were sent or received, or not: "closed" is what EPIPE is translated to
NegoDone(c) ==
  /\ pipe[c].nego = "pending"
  /\ \E r \in {"some"} \cup Errors : pipe' = [pipe EXCEPT ![c].nego = r]
  /\ UNCHANGED <<ep, useraio, connaio, timeaio, waitpipes, core>>

\* the header is not complete, or the other one is next: a header is sent (0, 1) and
\* received (2, 3) in one or, the bound, two pieces
NegoMore(c) ==
  /\ pipe[c].nego = "some" /\ pipe[c].stage < 3
  /\ \E stage \in {pipe[c].stage + 1, IF pipe[c].stage = 0 THEN 2 ELSE pipe[c].stage + 1} :
       pipe' = [pipe EXCEPT ![c] = Begun(@, stage)]
  /\ UNCHANGED <<ep, useraio, connaio, timeaio, waitpipes, core>>

\* Mutant: the matcher is not run.
NegoEnds_Unmatched(c) ==
  /\ pipe[c].nego = "some" /\ pipe[c].stage >= 2
  /\ pipe' = [pipe EXCEPT ![c].nego = "idle", ![c].st = "wait"]
  /\ waitpipes' = Append(waitpipes, c)
  /\ UNCHANGED <<ep, useraio, connaio, timeaio, core>>

\* the header is the right one: the pipe waits, and is matched if it can be
NegoEnds(c) ==
  /\ pipe[c].nego = "some" /\ pipe[c].stage >= 2
  /\ pipe' = [pipe EXCEPT ![c].nego = "idle",
                          ![c].st = IF Matching THEN "busy" ELSE "wait"]
  /\ waitpipes' = IF Matching THEN waitpipes ELSE Append(waitpipes, c)
  /\ FailUser("ok")
  /\ UNCHANGED <<ep, connaio, timeaio, core>>

\* an error, or another header: the socket is told, and the pipe given to the reaper
NegoFails(c) ==
  /\ \/ pipe[c].nego \in {"reset", "closed"}
     \/ pipe[c].nego = "some" /\ pipe[c].stage >= 2
  /\ FailUser(IF pipe[c].nego = "some" THEN "reset" ELSE pipe[c].nego)
  /\ pipe' = [pipe EXCEPT ![c].nego = "idle", ![c].reaped = TRUE]
  /\ UNCHANGED <<ep, connaio, timeaio, waitpipes, core>>
-----------------------------------------------------------------------------
(* The end of pipes and of the endpoint. *)

\* tcptran_pipe_fini, by the reaper or by the socket, which has the pipe it was given;
\* the last one of an endpoint that is done has it freed
FiniPipe(c) ==
  /\ \/ pipe[c].st = "nego" /\ pipe[c].reaped
     \/ pipe[c].st = "busy" /\ useraio # "ok"
  /\ pipe' = [pipe EXCEPT ![c] = NoPipe]
  /\ ep' = [ep EXCEPT !.refcnt = @ - 1, !.freed = ep.fini /\ ep.refcnt = 1]
  /\ UNCHANGED <<useraio, connaio, timeaio, waitpipes, core>>

Aborted(x) == IF x = "pending" THEN "closed" ELSE x

\* the socket stops its operation (tcptran_ep_cancel) and closes the endpoint
EpClose ==
  /\ core = "open"
  /\ core' = "closed"
  /\ ep' = [ep EXCEPT !.closed = TRUE]
  /\ useraio' = IF useraio = "idle" THEN "off" ELSE Aborted(useraio)
  /\ connaio' = Aborted(connaio) /\ timeaio' = Aborted(timeaio)
  /\ pipe' = [c \in Conns |->
                IF pipe[c].st = "free" THEN pipe[c]
                ELSE [pipe[c] EXCEPT !.stopped = TRUE, !.nego = Aborted(@)]]
  /\ UNCHANGED waitpipes

\* after the close nothing of it is asked again
UserOff ==
  /\ core = "closed" /\ useraio = "idle"
  /\ useraio' = "off"
  /\ UNCHANGED <<ep, connaio, timeaio, pipe, waitpipes, core>>

\* tcptran_ep_fini, when the socket is done with endpoint and pipes
EpFini ==
  /\ core = "closed" /\ useraio = "off"
  /\ connaio = "idle" /\ timeaio = "idle"
  /\ core' = "fini"
  /\ ep' = [ep EXCEPT !.fini = TRUE, !.freed = ep.refcnt = 0]
  /\ UNCHANGED <<useraio, connaio, timeaio, pipe, waitpipes>>
-----------------------------------------------------------------------------
Submit == EpAccept \/ EpConnect
ConnFails == AcceptFails \/ AcceptNoMemory \/ DialFails
Nego(c) == NegoMore(c) \/ NegoEnds(c) \/ NegoFails(c)

Next == \/ Submit \/ UserCb \/ UserOff \/ TimerCb \/ ConnFails \/ ConnDone
        \/ EpClose \/ EpFini
        \/ \E c \in Conns : \/ Accepted(c) \/ Dialed(c) \/ NegoDone(c) \/ Nego(c)
                            \/ FiniPipe(c)

Spec == Init /\ [][Next]_vars

\* the threads go on; a handshake gets its bytes or ends by its timeout of ten seconds,
\* a connect ends; a listener may wait for clients, and a pipe be used, for ever
EndpointKinds == {"submits", "user", "off", "timer", "fails", "fini", "connects"}
FairEndpoint(k) == \/ k = "submits" /\ Submit
                   \/ k = "user" /\ UserCb
                   \/ k = "off" /\ UserOff
                   \/ k = "timer" /\ TimerCb
                   \/ k = "fails" /\ ConnFails
                   \/ k = "fini" /\ EpFini
                   \/ k = "connects" /\ ~Listening /\ ConnDone
ConnKinds == {"accepted", "dialed", "moves", "goes on", "reaped"}
FairConn(k, c) == \/ k = "accepted" /\ Accepted(c)
                  \/ k = "dialed" /\ Dialed(c)
                  \/ k = "moves" /\ NegoDone(c)
                  \/ k = "goes on" /\ Nego(c)
                  \/ k = "reaped" /\ (ep.closed \/ pipe[c].st = "nego") /\ FiniPipe(c)

FairSpec == /\ Spec
            /\ \A k \in EndpointKinds : WF_vars(FairEndpoint(k))
            /\ \A k \in ConnKinds, c \in Conns : WF_vars(FairConn(k, c))

-----------------------------------------------------------------------------
(* Properties. *)

\* Every field has one of its values.
TypeOK ==
  /\ ep \in [started : BOOLEAN, closed : BOOLEAN, fini : BOOLEAN, freed : BOOLEAN,
             refcnt : Nat]
  /\ useraio \in {"idle", "pending", "ok", "reset", "closed", "off"}
  /\ connaio \in {"idle", "pending", "ok", "error", "closed"}
  /\ timeaio \in {"idle", "pending", "closed"}
  /\ pipe \in [Conns -> [st : {"free", "nego", "wait", "busy"}, stage : 0 .. 3,
                         nego : {"idle", "pending", "some", "reset", "closed"},
                         stopped : BOOLEAN, reaped : BOOLEAN]]
  /\ waitpipes \in Seq(Conns)

\* Neither side of a match waits for the other: the socket has no operation pending
\* while a negotiated pipe waits for one.
NoMissedMatch == Matching => waitpipes = <<>>

\* refcnt ("active pipes") counts the pipes, and the endpoint is freed after all of
\* them (a pipe locks ep->mtx in tcptran_pipe_fini), its operations at rest.
EndpointOutlives ==
  /\ ep.refcnt = Cardinality(Conns \ Of("free"))
  /\ ep.freed => ep.refcnt = 0 /\ ep.fini /\ connaio = "idle" /\ timeaio = "idle"

\* A listener that was started accepts connections until it is closed, whatever
\* becomes of single connections.
KeepsAccepting ==
  Listening /\ ep.started /\ ~ep.closed => connaio # "idle" \/ timeaio # "idle"

\* ... and the socket goes on asking for pipes.
KeepsAsking == core = "open" => useraio # "off"

\* Every attempt of a dialer ends with a pipe or an error.
AttemptEnds == ~Listening => []<>(useraio # "pending")

\* A client whose handshake was right is handed to the socket.
ClientServed ==
  \A c \in Conns : []<>(pipe[c].st # "wait" \/ ep.closed)

Stranded(c) == /\ pipe[c].st \in {"nego", "wait"}
               /\ pipe[c].nego = "idle" /\ pipe[c].stopped /\ ~pipe[c].reaped

\* nni_sock_close "releases any resources associated with it" (core/socket.c): an
\* endpoint the socket is done with is freed.
EndpointFreed == []<>(ep.fini => ep.freed)

\* Nothing else keeps it than a pipe between handshake and match.
FreedUnlessStranded ==
  []<>(ep.fini => ep.freed \/ \E c \in Conns : Stranded(c) \/ pipe[c].st = "wait")

\* Whatever the order of accepts, handshakes, matches and the close, no ready pipe and
\* waiting socket miss each other, the endpoint outlives its pipes and a listener
\* goes on accepting; a dialer goes on asking for connections (tcp.c).
TransportSound ==
  /\ TypeOK /\ NoMissedMatch /\ EndpointOutlives /\ KeepsAccepting
  /\ Errors \subseteq {"reset"} => KeepsAsking

=============================================================================
