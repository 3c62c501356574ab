----------------------------- MODULE Endpoints -----------------------------
(***************************************************************************)
(* One nng socket with its dialers, listeners and pipes, from nng_dial and *)
(* nng_listen to the end of nng_close: core/socket.c, core/dialer.c,       *)
(* core/listener.c, core/pipe.c and core/reap.c.                           *)
(*                                                                         *)
(* Everything here is held by counts and lists under different locks: a    *)
(* socket by s_ref (sock_lk), an endpoint by d_ref (dialers_lk), a pipe by *)
(* p_ref (pipes_lk), all of them by the lists of the socket (s_mx), and    *)
(* one thread, the reaper, takes endpoints and pipes apart.  A step is a   *)
(* section under one of these locks.  The asynchronous operations of an    *)
(* endpoint, its connect or accept (con) and its back-off (tmo), follow    *)
(* core/aio.c: what is begun after it was stopped never calls back.        *)
(***************************************************************************)
EXTENDS EndpointState, SequencesExt

CONSTANTS Dialers, Listeners,   \* one per thread in nng_dial or nng_listen
          Closers,              \* threads in nng_close or nng_closeall
          Pipes,                \* bound: pipes allocated at the same time
          Blocking,             \* the flags of nng_dial: a subset of BOOLEAN
          Faults,               \* a subset of {"alloc", "id", "init", "peer"}
          None

Eps == Dialers \cup Listeners

\* of every endpoint, the thread that creates it and one that closes it by its id
Users == Eps \X {"dial", "close"}
Dial(e) == <<e, "dial">>

EndpointsAssumption ==
  /\ Dialers \cap Listeners = {} /\ Eps \cap Pipes = {} /\ None \notin Eps \cup Pipes
  /\ IsFiniteSet(Eps) /\ IsFiniteSet(Pipes)
  /\ Faults \subseteq {"alloc", "id", "init", "peer"}
  /\ Blocking \subseteq BOOLEAN

vars == <<sock, ep, pipe, cb, reap, user, closer, holder>>

NoEp == [alive |-> FALSE, listed |-> FALSE, ref |-> 0, closed |-> FALSE,
         closing |-> FALSE, pipe |-> None, con |-> "idle", tmo |-> "idle",
         stopped |-> FALSE, waiter |-> FALSE, result |-> "none"]

NoPipe == [live |-> FALSE, ref |-> 0, closed |-> FALSE, listed |-> FALSE,
           known |-> FALSE, ep |-> None]

NoCb == [p |-> None, step |-> "none", waiter |-> FALSE]

Init == /\ sock = [closing |-> FALSE, closed |-> FALSE, ref |-> 0,
                   node |-> TRUE, gone |-> FALSE, failed |-> FALSE]
        /\ ep = [e \in Eps |-> NoEp]
        /\ pipe = [p \in Pipes |-> NoPipe]
        /\ cb = [e \in Eps |-> NoCb]
        /\ reap = [pipes |-> <<>>, eps |-> <<>>, hand |-> <<>>, at |-> "pipes",
                   cur |-> None, step |-> "none"]
        /\ user = [u \in Users |-> [pc |-> IF u = Dial(u[1]) THEN "find" ELSE "none",
                                 sock |-> FALSE]]
        /\ closer = [c \in Closers |-> "idle"]
        /\ holder = None
-----------------------------------------------------------------------------
(* Operations on one of the objects. *)

\* nni_aio_begin on the operation f of an endpoint record, and its submission
Begun(d, f) == IF d.stopped THEN d ELSE [d EXCEPT ![f] = "pending"]

\* dialer_timer_start_locked
TimerStarted(d) == IF d.closing \/ sock.closed THEN d ELSE Begun(d, "tmo")

\* what nni_aio_close does to an operation
Aborted(x) == IF x = "pending" THEN "closed" ELSE x

Stopped(d) == [d EXCEPT !.stopped = TRUE, !.con = Aborted(@), !.tmo = Aborted(@)]

PipesOf(e) == {p \in Pipes : pipe[p].listed /\ pipe[p].ep = e}

\* nni_pipe_close of every pipe of ps: the pipes afterwards, and the reap list
PipesClosed(ps) == [p \in Pipes |-> IF p \in ps THEN [pipe[p] EXCEPT !.closed = TRUE]
                                                ELSE pipe[p]]

Queued(q, ps) == SetToSeq(ps) \o q
ToReap(ps) == [reap EXCEPT !.pipes = Queued(@, {p \in ps : ~pipe[p].closed})]

\* d_ref-- of nni_dialer_rele; the last one of a closed endpoint has it reaped
Reled(d) == [d EXCEPT !.ref = @ - 1]
RepFor(e, d, r) == IF d.ref = 0 /\ d.closed THEN [r EXCEPT !.eps = <<e>> \o @] ELSE r
-----------------------------------------------------------------------------
(* The thread in nng_dial or nng_listen, and in nng_dialer_close later. *)

SockFind(e) ==
  /\ user[Dial(e)].pc = "find"
  /\ IF sock.closed
     THEN /\ user' = [user EXCEPT ![Dial(e)].pc = "end"]
          /\ UNCHANGED sock
     ELSE /\ sock' = [sock EXCEPT !.ref = @ + 1]
          /\ user' = [user EXCEPT ![Dial(e)] = [pc |-> "create", sock |-> TRUE]]
  /\ UNCHANGED <<ep, pipe, cb, reap, closer, holder>>

\* nni_dialer_create up to nni_sock_add_dialer
Create(e) ==
  /\ user[Dial(e)].pc = "create"
  /\ IF sock.closing
     THEN /\ user' = [user EXCEPT ![Dial(e)].pc = "srele"]
          /\ UNCHANGED ep
     ELSE /\ ep' = [ep EXCEPT ![e] = [NoEp EXCEPT !.alive = TRUE, !.listed = TRUE,
                                                  !.ref = 1]]
          /\ user' = [user EXCEPT ![Dial(e)].pc = "start"]
  /\ UNCHANGED <<sock, pipe, cb, reap, closer, holder>>

\* nni_dialer_start
DialerStart(e) ==
  /\ e \in Dialers /\ user[Dial(e)].pc = "start"
  /\ \E block \in Blocking :
       /\ ep' = [ep EXCEPT ![e] = Begun([@ EXCEPT !.waiter = block], "con")]
       /\ user' = [user EXCEPT ![Dial(e)].pc = IF block THEN "wait" ELSE "rele"]
  /\ UNCHANGED <<sock, pipe, cb, reap, closer, holder>>

DialerStarted(e) ==
  /\ user[Dial(e)].pc = "wait" /\ ep[e].result # "none"
  /\ user' = [user EXCEPT ![Dial(e)].pc = IF ep[e].result = "ok" THEN "rele" ELSE "close"]
  /\ UNCHANGED <<sock, ep, pipe, cb, reap, closer, holder>>

\* nni_listener_start: the address is free or it is not
ListenerStart(e) ==
  /\ e \in Listeners /\ user[Dial(e)].pc = "start"
  /\ \/ /\ ep' = [ep EXCEPT ![e] = Begun(@, "con")]
        /\ user' = [user EXCEPT ![Dial(e)].pc = "rele"]
     \/ /\ user' = [user EXCEPT ![Dial(e)].pc = "close"]
        /\ UNCHANGED ep
  /\ UNCHANGED <<sock, pipe, cb, reap, closer, holder>>

\* nni_dialer_close, nni_listener_close: the section under dialers_lk
EpClose(u) ==
  /\ user[u].pc = "close"
  /\ ep' = [ep EXCEPT ![u[1]].closed = TRUE]
  /\ user' = [user EXCEPT ![u].pc = IF ep[u[1]].closed THEN "rele" ELSE "shut"]
  /\ UNCHANGED <<sock, pipe, cb, reap, closer, holder>>

\* nni_dialer_shutdown
EpShutdown(u) ==
  /\ user[u].pc = "shut"
  /\ user' = [user EXCEPT ![u].pc = "rele"]
  /\ IF ep[u[1]].closing
     THEN UNCHANGED <<ep, pipe, reap>>
     ELSE /\ ep' = [ep EXCEPT ![u[1]] = Stopped([@ EXCEPT !.closing = TRUE])]
          /\ pipe' = PipesClosed(PipesOf(u[1]))
          /\ reap' = ToReap(PipesOf(u[1]))
  /\ UNCHANGED <<sock, cb, closer, holder>>

\* nni_dialer_rele
EpRele(u) ==
  /\ user[u].pc = "rele"
  /\ ep' = [ep EXCEPT ![u[1]] = Reled(@)]
  /\ reap' = RepFor(u[1], ep'[u[1]], reap)
  /\ user' = [user EXCEPT ![u].pc = IF user[u].sock THEN "srele" ELSE "end"]
  /\ UNCHANGED <<sock, pipe, cb, closer, holder>>

\* nni_sock_rele
SockRele(e) ==
  /\ user[Dial(e)].pc = "srele"
  /\ sock' = [sock EXCEPT !.ref = @ - 1]
  /\ user' = [user EXCEPT ![Dial(e)] = [pc |-> "end", sock |-> FALSE]]
  /\ UNCHANGED <<ep, pipe, cb, reap, closer, holder>>

\* nng_dialer_close, by the id nng_dial has given out: nni_dialer_find knows an
\* endpoint until it is closed
EpFind(u) ==
  /\ user[u].pc = "none" /\ user[Dial(u[1])].pc \in {"rele", "srele", "end"}
  /\ IF ep[u[1]].alive /\ ~ep[u[1]].closed
     THEN /\ ep' = [ep EXCEPT ![u[1]].ref = @ + 1]
          /\ user' = [user EXCEPT ![u].pc = "close"]
     ELSE /\ user' = [user EXCEPT ![u].pc = "end"]
          /\ UNCHANGED ep
  /\ UNCHANGED <<sock, pipe, cb, reap, closer, holder>>
-----------------------------------------------------------------------------
(* The transport, the timer, and the callbacks they lead to. *)

\* a connection is made or refused, a client is accepted, accept fails
ConDone(e) ==
  /\ ep[e].con = "pending"
  /\ \E r \in {"ok", "error"} : ep' = [ep EXCEPT ![e].con = r]
  /\ UNCHANGED <<sock, pipe, cb, reap, user, closer, holder>>

\* dialer_timer_cb, listener_timer_cb
TimerCb(e) ==
  /\ ep[e].tmo # "idle"
  /\ ep' = [ep EXCEPT ![e] = LET d == [@ EXCEPT !.tmo = "idle"]
                             IN  IF @.tmo = "pending" THEN Begun(d, "con") ELSE d]
  /\ UNCHANGED <<sock, pipe, cb, reap, user, closer, holder>>

\* the end of a callback after nni_dialer_add_pipe: the user of nng_dial is told,
\* a listener accepts the next client
CbEnded(e, d, w) == IF e \in Listeners THEN Begun(d, "con")
                    ELSE IF w THEN [d EXCEPT !.result = "ok"] ELSE d

\* dialer_connect_cb and listener_accept_cb with an error
CbError(e) ==
  /\ ep[e].con \in {"error", "closed"} /\ cb[e] = NoCb
  /\ LET d == [ep[e] EXCEPT !.con = "idle", !.waiter = FALSE,
                            !.result = IF ep[e].waiter THEN "fail" ELSE @]
     IN  IF ep[e].con = "closed" THEN ep' = [ep EXCEPT ![e] = d]
         ELSE IF e \in Dialers
         THEN ep' = [ep EXCEPT ![e] = IF @.waiter THEN d ELSE TimerStarted(d)]
         ELSE \E f \in {"con", "tmo"} : ep' = [ep EXCEPT ![e] = Begun(d, f)]
  /\ UNCHANGED <<sock, pipe, cb, reap, user, closer, holder>>

\* nni_dialer_add_pipe, nni_listener_add_pipe: the first section under s_mx
Dropped(e) ==
  /\ ep' = [ep EXCEPT ![e] = CbEnded(e, [@ EXCEPT !.con = "idle", !.waiter = FALSE],
                                     @.waiter)]
  /\ UNCHANGED <<cb, user, closer, holder>>

CbRefuse(e) ==
  /\ ep[e].con = "ok" /\ cb[e] = NoCb
  /\ sock.closed \/ ep[e].closing \/ "alloc" \in Faults
  /\ Dropped(e)
  /\ sock' = [sock EXCEPT !.failed = @ \/ ~(sock.closed \/ ep[e].closing)]
  /\ UNCHANGED <<pipe, reap>>

\* pipe_create gets as far as closing the pipe it cannot finish
CbPipeFails(e) ==
  /\ ep[e].con = "ok" /\ cb[e] = NoCb
  /\ ~sock.closed /\ ~ep[e].closing
  /\ \E p \in Pipes, f \in Faults \cap {"id", "init"} :
       /\ ~pipe[p].live
       /\ pipe' = [pipe EXCEPT ![p] = [NoPipe EXCEPT !.live = TRUE, !.closed = TRUE,
                                         !.known = f = "init",
                                         !.ref = IF f = "id" THEN -1 ELSE 0]]
       /\ reap' = [reap EXCEPT !.pipes = <<p>> \o @]
  /\ Dropped(e)
  /\ sock' = [sock EXCEPT !.failed = TRUE]

CbAddPipe(e) ==
  /\ ep[e].con = "ok" /\ cb[e] = NoCb
  /\ ~sock.closed /\ ~ep[e].closing
  /\ \E p \in Pipes :
       /\ ~pipe[p].live
       /\ pipe' = [pipe EXCEPT ![p] = [live |-> TRUE, ref |-> 1, closed |-> FALSE,
                                       listed |-> TRUE, known |-> TRUE, ep |-> e]]
       /\ cb' = [cb EXCEPT ![e] = [p |-> p, step |-> "pre", waiter |-> ep[e].waiter]]
       /\ ep' = [ep EXCEPT ![e].con = "idle", ![e].waiter = FALSE,
                           ![e].pipe = IF e \in Dialers THEN p ELSE None]
  /\ UNCHANGED <<sock, reap, user, closer, holder>>

\* its last step: nni_pipe_rele, and the end of the callback
CbRele(e, pp) ==
  LET p == cb[e].p
  IN  /\ pipe' = [pp EXCEPT ![p].ref = @ - 1]
      /\ ep' = [ep EXCEPT ![e] = CbEnded(e, @, cb[e].waiter)]
      /\ cb' = [cb EXCEPT ![e] = NoCb]

\* its second section under s_mx: the pipe may be closed by now, the protocol may
\* refuse it
CbStartPipe(e) ==
  /\ cb[e].step = "pre"
  /\ LET p == cb[e].p
     IN  \/ /\ pipe[p].closed
            /\ CbRele(e, pipe)
            /\ UNCHANGED reap
         \/ /\ ~pipe[p].closed
            /\ cb' = [cb EXCEPT ![e].step = "post"]
            /\ UNCHANGED <<pipe, ep, reap>>
         \/ /\ ~pipe[p].closed /\ "peer" \in Faults
            /\ CbRele(e, PipesClosed({p}))
            /\ reap' = ToReap({p})
  /\ UNCHANGED <<sock, user, closer, holder>>

CbPosted(e) ==
  /\ cb[e].step = "post"
  /\ CbRele(e, pipe)
  /\ UNCHANGED <<sock, reap, user, closer, holder>>

\* the connection ends: the protocol closes the pipe it has started
Lost(p) ==
  /\ pipe[p].listed /\ ~pipe[p].closed
  /\ \A e \in Eps : cb[e] # NoCb => cb[e].p # p \/ cb[e].step = "post"
  /\ pipe' = PipesClosed({p})
  /\ reap' = ToReap({p})
  /\ UNCHANGED <<sock, ep, cb, user, closer, holder>>

\* nng_pipe_close: nni_pipe_find, and nni_pipe_close with nni_pipe_rele
PipeFind(p) ==
  /\ holder = None /\ pipe[p].known
  /\ pipe' = [pipe EXCEPT ![p].ref = @ + 1]
  /\ holder' = p
  /\ UNCHANGED <<sock, ep, cb, reap, user, closer>>

PipeClose ==
  /\ holder # None
  /\ pipe' = [PipesClosed({holder}) EXCEPT ![holder].ref = @ - 1]
  /\ reap' = ToReap({holder})
  /\ holder' = None
  /\ UNCHANGED <<sock, ep, cb, user, closer>>
-----------------------------------------------------------------------------
(* The reaper. *)

\* reap_worker takes the nodes of the next list that has any
ReapTake ==
  /\ reap.hand = <<>> /\ reap.cur = None
  /\ \E k \in {"pipes", "eps"} :
       /\ reap[k] # <<>>
       /\ k = reap.at \/ reap[reap.at] = <<>>
       /\ reap' = [reap EXCEPT !.hand = reap[k], ![k] = <<>>,
                               !.at = IF k = "pipes" THEN "eps" ELSE "pipes"]
  /\ UNCHANGED <<sock, ep, pipe, cb, user, closer, holder>>

ReapNext ==
  /\ reap.hand # <<>> /\ reap.cur = None
  /\ reap' = [reap EXCEPT !.cur = Head(reap.hand), !.hand = Tail(@),
                          !.step = IF Head(reap.hand) \in Pipes THEN "id" ELSE "stop"]
  /\ UNCHANGED <<sock, ep, pipe, cb, user, closer, holder>>

\* pipe_destroy: nobody finds the pipe any more
PipeUnknown ==
  /\ reap.step = "id"
  /\ pipe' = [pipe EXCEPT ![reap.cur].known = FALSE]
  /\ reap' = [reap EXCEPT !.step = "wait"]
  /\ UNCHANGED <<sock, ep, cb, user, closer, holder>>

\* Mutant: does not kick the timer.
PipeRemove_NoTimer ==
  /\ reap.step = "wait" /\ pipe[reap.cur].ref = 0
  /\ pipe' = [pipe EXCEPT ![reap.cur].listed = FALSE, ![reap.cur].ep = None]
  /\ ep' = [e \in Eps |-> IF ep[e].pipe = reap.cur THEN [ep[e] EXCEPT !.pipe = None]
                                                 ELSE ep[e]]
  /\ reap' = [reap EXCEPT !.step = "fini"]
  /\ UNCHANGED <<sock, cb, user, closer, holder>>

\* nobody holds it any more: protocol and transport are stopped; nni_pipe_remove
PipeRemove ==
  /\ reap.step = "wait" /\ pipe[reap.cur].ref = 0
  /\ LET p == reap.cur
         d == pipe[p].ep
     IN  /\ pipe' = [pipe EXCEPT ![p].listed = FALSE, ![p].ep = None]
         /\ IF p \in {ep[e].pipe : e \in {d} \cap Eps}
            THEN ep' = [ep EXCEPT ![d] = TimerStarted([@ EXCEPT !.pipe = None])]
            ELSE UNCHANGED ep
  /\ reap' = [reap EXCEPT !.step = "fini"]
  /\ UNCHANGED <<sock, cb, user, closer, holder>>

PipeFini ==
  /\ reap.step = "fini" /\ reap.cur \in Pipes
  /\ pipe' = [pipe EXCEPT ![reap.cur] = NoPipe]
  /\ reap' = [reap EXCEPT !.cur = None, !.step = "none"]
  /\ UNCHANGED <<sock, ep, cb, user, closer, holder>>

\* dialer_reap: nni_aio_stop of both operations
EpStop ==
  /\ reap.step = "stop"
  /\ ep' = [ep EXCEPT ![reap.cur] = Stopped(@)]
  /\ reap' = [reap EXCEPT !.step = "reap"]
  /\ UNCHANGED <<sock, pipe, cb, user, closer, holder>>

\* the operations have called back; its section under s_mx
EpReap ==
  /\ reap.step = "reap"
  /\ LET e == reap.cur
     IN  /\ ep[e].con = "idle" /\ ep[e].tmo = "idle" /\ cb[e] = NoCb
         /\ IF PipesOf(e) # {}
            THEN /\ pipe' = PipesClosed(PipesOf(e))
                 /\ reap' = [ToReap(PipesOf(e)) EXCEPT !.eps = <<e>> \o @,
                                                       !.cur = None, !.step = "none"]
                 /\ UNCHANGED ep
            ELSE /\ ep' = [ep EXCEPT ![e].listed = FALSE]
                 /\ reap' = [reap EXCEPT !.step = "fini"]
                 /\ UNCHANGED pipe
  /\ UNCHANGED <<sock, cb, user, closer, holder>>

EpFini ==
  /\ reap.step = "fini" /\ reap.cur \in Eps
  /\ ep' = [ep EXCEPT ![reap.cur].alive = FALSE]
  /\ reap' = [reap EXCEPT !.cur = None, !.step = "none"]
  /\ UNCHANGED <<sock, pipe, cb, user, closer, holder>>
-----------------------------------------------------------------------------
(* nng_close. *)

CloseFind(c) ==
  /\ closer[c] = "idle" /\ ~sock.closed
  /\ sock' = [sock EXCEPT !.ref = @ + 1]
  /\ closer' = [closer EXCEPT ![c] = "shut"]
  /\ UNCHANGED <<ep, pipe, cb, reap, user, holder>>

\* nni_sock_closeall takes the socket from the list instead
CloseAll(c) ==
  /\ closer[c] = "idle" /\ sock.node
  /\ sock' = [sock EXCEPT !.ref = @ + 1, !.node = FALSE]
  /\ closer' = [closer EXCEPT ![c] = "shut"]
  /\ UNCHANGED <<ep, pipe, cb, reap, user, holder>>

\* nni_sock_shutdown, the first section under s_mx
Shutdown(c) ==
  /\ closer[c] = "shut"
  /\ closer' = [closer EXCEPT ![c] = IF sock.closing THEN "close" ELSE "insist"]
  /\ sock' = [sock EXCEPT !.closing = TRUE]
  /\ LET down == {e \in Eps : ep[e].listed /\ ~ep[e].closing /\ ~sock.closing}
         ps == UNION {PipesOf(e) : e \in down}
     IN  /\ ep' = [e \in Eps |-> IF e \in down
                                 THEN Stopped([ep[e] EXCEPT !.closing = TRUE])
                                 ELSE ep[e]]
         /\ pipe' = PipesClosed(ps)
         /\ reap' = ToReap(ps)
  /\ UNCHANGED <<cb, user, holder>>

\* Mutant: forgets to release what it holds.
Insist_Held(c) ==
  /\ closer[c] = "insist"
  /\ closer' = [closer EXCEPT ![c] = "drain"]
  /\ ep' = [e \in Eps |-> [ep[e] EXCEPT !.closed = @ \/ ep[e].listed,
                            !.ref = IF ep[e].listed /\ ~ep[e].closed THEN @ + 1 ELSE @]]
  /\ pipe' = PipesClosed({p \in Pipes : pipe[p].listed})
  /\ reap' = ToReap({p \in Pipes : pipe[p].listed})
  /\ UNCHANGED <<sock, cb, user, holder>>

\* its second section: nni_dialer_hold and nni_dialer_close_rele of every endpoint
\* nobody else is closing, nni_pipe_close of every pipe
Insist(c) ==
  /\ closer[c] = "insist"
  /\ closer' = [closer EXCEPT ![c] = "drain"]
  /\ LET open == {e \in Eps : ep[e].listed /\ ~ep[e].closed}
         ps == {p \in Pipes : pipe[p].listed}
     IN  /\ ep' = [e \in Eps |-> [ep[e] EXCEPT !.closed = @ \/ e \in open]]
         /\ pipe' = PipesClosed(ps)
         /\ reap' = [ToReap(ps) EXCEPT
                       !.eps = SetToSeq({e \in open : ep[e].ref = 0}) \o @]
  /\ UNCHANGED <<sock, cb, user, holder>>

Drained(c) ==
  /\ closer[c] = "drain"
  /\ \A p \in Pipes : ~pipe[p].listed
  /\ \A e \in Eps : ~ep[e].listed
  /\ closer' = [closer EXCEPT ![c] = "close"]
  /\ UNCHANGED <<sock, ep, pipe, cb, reap, user, holder>>

\* nni_sock_close after the shutdown
CloseSock(c) ==
  /\ closer[c] = "close"
  /\ IF sock.closed
     THEN /\ sock' = [sock EXCEPT !.ref = @ - 1]
          /\ closer' = [closer EXCEPT ![c] = "done"]
     ELSE /\ sock' = [sock EXCEPT !.closed = TRUE, !.node = FALSE]
          /\ closer' = [closer EXCEPT ![c] = "last"]
  /\ UNCHANGED <<ep, pipe, cb, reap, user, holder>>

\* sock_destroy, when the caller has the only reference
Destroy(c) ==
  /\ closer[c] = "last" /\ sock.ref <= 1
  /\ sock' = [sock EXCEPT !.gone = TRUE]
  /\ closer' = [closer EXCEPT ![c] = "done"]
  /\ UNCHANGED <<ep, pipe, cb, reap, user, holder>>
-----------------------------------------------------------------------------
Caller(e) == \/ SockFind(e) \/ Create(e) \/ DialerStart(e) \/ DialerStarted(e)
             \/ ListenerStart(e) \/ SockRele(e)

Holder(u) == EpClose(u) \/ EpShutdown(u) \/ EpRele(u)

Callback(e) == \/ TimerCb(e) \/ CbError(e) \/ CbRefuse(e) \/ CbPipeFails(e)
               \/ CbAddPipe(e) \/ CbStartPipe(e) \/ CbPosted(e)

Reaper == \/ ReapTake \/ ReapNext \/ PipeUnknown \/ PipeRemove \/ PipeFini
          \/ EpStop \/ EpReap \/ EpFini

Closing(c) == \/ Shutdown(c) \/ Insist(c) \/ Drained(c) \/ CloseSock(c) \/ Destroy(c)

Next == \/ \E e \in Eps : Caller(e) \/ ConDone(e) \/ Callback(e)
        \/ \E u \in Users : EpFind(u) \/ Holder(u)
        \/ \E p \in Pipes : Lost(p) \/ PipeFind(p)
        \/ PipeClose \/ Reaper
        \/ \E c \in Closers : CloseFind(c) \/ CloseAll(c) \/ Closing(c)

Spec == Init /\ [][Next]_vars

\* every thread goes on, a connection attempt ends
FairKinds == {"caller", "callback", "connects", "closes", "reaps"}
Fair(k, e) == \/ k = "caller" /\ Caller(e)
              \/ k = "callback" /\ Callback(e)
              \/ k = "connects" /\ ConDone(e)
              \/ k = "closes" /\ PipeClose
              \/ k = "reaps" /\ Reaper

FairSpec == /\ Spec
            /\ \A k \in FairKinds, e \in Eps : WF_vars(Fair(k, e))
            /\ \A u \in Users : WF_vars(Holder(u))
            /\ \A c \in Closers : WF_vars(Closing(c))

-----------------------------------------------------------------------------
(* Properties, beside those of EndpointState. *)

\* nng_close returns.
CloseReturns ==
  \A c \in Closers : []<>(closer[c] \in {"idle", "done"})

Returned(u) == user[u].pc \in {"none", "find", "end"}

\* "any threads blocked in entry points will be woken" (socket.c): nng_dial and
\* nng_listen return.
CallersReturn ==
  \A u \in Users : []<>Returned(u)

=============================================================================
