----------------------------- MODULE PollQueue -----------------------------
(***************************************************************************)
(* nng's sockets on Linux: the thread that polls them                      *)
(* (platform/posix/posix_pollq_epoll.c), connections (posix_tcpconn.c),    *)
(* the dialer (posix_tcpdial.c) and the listener (posix_tcplisten.c) that  *)
(* make them, and the reaper that frees them.                              *)
(*                                                                         *)
(* Descriptors are polled one shot: an event disarms all of them, and the  *)
(* callback has to arm what is still waited for.  The poller takes events  *)
(* in batches and runs callbacks without the lock of the descriptor, while *)
(* other threads submit, cancel, close and free.  The kernel reports a     *)
(* hang-up for a socket that is not connected, armed or not.               *)
(***************************************************************************)
EXTENDS PollState, SequencesExt

PollAssumption ==
  /\ DialConns \cap AcceptConns = {} /\ Conns \cap Listener = {}
  /\ IsFiniteSet(Fds) /\ \A l, m \in Listener : l = m
  /\ {"evfd", "none"} \cap Fds = {}
  /\ Ops \subseteq Kinds /\ HangUp \in BOOLEAN /\ Shortage \in BOOLEAN

Quiet == [events |-> {}, armed |-> {}, cb |-> "none", closing |-> FALSE, closed |-> FALSE]
NoConn == [st |-> "none", closed |-> FALSE, in |-> "idle", out |-> "idle"]
NoFd == [fd |-> "none", mask |-> {}, cb |-> "none"]

Init ==
  /\ link = [c \in Fds |-> IF c \in Listener THEN "up" ELSE "none"]
  /\ data = [c \in Fds |-> {}]
  /\ pfd = [c \in Fds |-> IF c \in Listener THEN [Quiet EXCEPT !.cb = "listen"] ELSE Quiet]
  /\ conn = [c \in Conns |-> NoConn]
  /\ dialaio = [c \in DialConns |-> "idle"] /\ acceptaio = "idle"
  /\ dialer = [closed |-> FALSE, fini |-> FALSE, ref |-> 1, freed |-> FALSE]
  /\ reaper = [list |-> <<>>, waits |-> FALSE]
  /\ pollq = [reapq |-> {}, evfd |-> FALSE]
  /\ poller = [batch |-> <<>>, cur |-> NoFd, reap |-> FALSE]
  /\ panicked = FALSE
-----------------------------------------------------------------------------
(* The kernel. *)

Level(c) == CASE link[c] = "new" -> {"hup"}
              [] link[c] = "up" -> data[c]
              [] link[c] = "failed" -> {"err", "in", "out"}
              [] OTHER -> {}

Always == {"err"} \cup (IF HangUp THEN {"hup"} ELSE {})

Signalled == {c \in Fds : ~pfd[c].closing /\ pfd[c].armed \cap Level(c) # {}}

ConnectDone(c) ==
  /\ link[c] = "connecting"
  /\ \E l \in {"up", "failed"} : link' = [link EXCEPT ![c] = l]
  /\ data' = [data EXCEPT ![c] = {"out"} \cap Ops]
  /\ UNCHANGED <<pfd, conn, dialaio, acceptaio, dialer, reaper, pollq, poller, panicked>>

\* the peer sends, reads, goes away; a client connects
Peer(c) ==
  /\ link[c] = "up" /\ ~pfd[c].closing
  /\ \/ \E k \in (IF c \in Listener THEN {"in"} ELSE Ops) \ data[c] :
          data' = [data EXCEPT ![c] = @ \cup {k}] /\ UNCHANGED link
     \/ c \notin Listener /\ link' = [link EXCEPT ![c] = "failed"] /\ UNCHANGED data
  /\ UNCHANGED <<pfd, conn, dialaio, acceptaio, dialer, reaper, pollq, poller, panicked>>
-----------------------------------------------------------------------------
(* Descriptors: nni_posix_pfd. *)

\* nni_posix_pfd_init
PfdInit(p, cb) == [Quiet EXCEPT !.armed = Always, !.cb = cb]

\* Mutant: forgets what was armed.
Arm_Only(p, ks) == IF p.closing THEN p
                   ELSE [p EXCEPT !.events = ks, !.armed = ks \cup Always]

\* nni_posix_pfd_arm
Arm(p, ks) == IF p.closing THEN p
              ELSE [p EXCEPT !.events = @ \cup ks, !.armed = p.events \cup ks \cup Always]

\* nni_posix_pfd_close
PfdClose(p) == [p EXCEPT !.closing = TRUE, !.armed = {}]

\* nni_reap(&tcp_reap_list, c)
ToReaper(c) == reaper' = [reaper EXCEPT !.list = Append(@, c)]
-----------------------------------------------------------------------------
(* Operations of a connection. *)

\* read and write return something (data, the end, an error) and do not say EAGAIN
Able(c, k) == k \in Level(c) \/ pfd[c].closing

\* every pending operation ends
Ended(r) == [r EXCEPT !.in = "idle", !.out = "idle"]

\* tcp_doread, tcp_dowrite for the operations ks
Tried(c, ks) ==
  [conn[c] EXCEPT !.in = IF "in" \in ks /\ @ = "pending" /\ Able(c, "in") THEN "idle" ELSE @,
                  !.out = IF "out" \in ks /\ @ = "pending" /\ Able(c, "out") THEN "idle" ELSE @]

\* what was there may be used up by it
UsesUp(c, ks) == \E left \in {data[c], data[c] \ ks} : data' = [data EXCEPT ![c] = left]

\* tcp_recv, tcp_send: tried at once, armed if it has to wait
Submit(c, k) ==
  /\ conn[c].st = "up" /\ ~conn[c].closed /\ conn[c][k] = "idle"
  /\ IF Able(c, k)
     THEN /\ UNCHANGED conn
          /\ UsesUp(c, {k})
          /\ UNCHANGED pfd
     ELSE /\ conn' = [conn EXCEPT ![c][k] = "pending"]
          /\ pfd' = [pfd EXCEPT ![c] = Arm(@, {k})]
          /\ UNCHANGED data
  /\ UNCHANGED <<link, dialaio, acceptaio, dialer, reaper, pollq, poller, panicked>>

\* tcp_cancel
Cancel(c, k) ==
  /\ conn[c][k] = "pending"
  /\ conn' = [conn EXCEPT ![c][k] = "idle"]
  /\ UNCHANGED <<link, data, pfd, dialaio, acceptaio, dialer, reaper, pollq, poller, panicked>>

\* tcp_close
Close(c) ==
  /\ conn[c].st = "up" /\ ~conn[c].closed
  /\ conn' = [conn EXCEPT ![c] = [Ended(@) EXCEPT !.closed = TRUE]]
  /\ pfd' = [pfd EXCEPT ![c] = PfdClose(@)]
  /\ UNCHANGED <<link, data, dialaio, acceptaio, dialer, reaper, pollq, poller, panicked>>

\* tcp_free, when the user has no operation on it any more
Free(c) ==
  /\ conn[c].st = "up" /\ conn[c].in = "idle" /\ conn[c].out = "idle"
  /\ conn' = [conn EXCEPT ![c].st = "dead"]
  /\ ToReaper(c)
  /\ UNCHANGED <<link, data, pfd, dialaio, acceptaio, dialer, pollq, poller, panicked>>
-----------------------------------------------------------------------------
(* The dialer. *)

Reled(d) == [d EXCEPT !.ref = @ - 1, !.freed = d.fini /\ d.ref = 1]

\* nni_tcp_dial up to its lock: a socket, in the poller already
DialOpen(c) ==
  /\ conn[c].st = "none" /\ ~dialer.fini
  /\ dialer' = [dialer EXCEPT !.ref = @ + 1]
  /\ conn' = [conn EXCEPT ![c].st = "open"]
  /\ dialaio' = [dialaio EXCEPT ![c] = "pending"]
  /\ link' = [link EXCEPT ![c] = "new"]
  /\ pfd' = [pfd EXCEPT ![c] = PfdInit(@, "dial")]
  /\ UNCHANGED <<data, acceptaio, reaper, pollq, poller, panicked>>

\* nni_posix_pfd_init fails: the error path unlocks a mutex that was not locked
DialNoFd(c) ==
  /\ Shortage /\ conn[c].st = "none" /\ ~dialer.fini
  /\ panicked' = TRUE
  /\ UNCHANGED <<link, data, pfd, conn, dialaio, acceptaio, dialer, reaper, pollq, poller>>

\* bind or connect fails, or the dialer is closed
DialFails(c) ==
  /\ conn[c].st = "open"
  /\ conn' = [conn EXCEPT ![c].st = "dead"]
  /\ dialaio' = [dialaio EXCEPT ![c] = "error"]
  /\ ToReaper(c)
  /\ UNCHANGED <<link, data, pfd, acceptaio, dialer, pollq, poller, panicked>>

\* the connection is on its way
DialStart(c) ==
  /\ conn[c].st = "open" /\ ~dialer.closed
  /\ conn' = [conn EXCEPT ![c].st = "dialing"]
  /\ link' = [link EXCEPT ![c] = "connecting"]
  /\ pfd' = [pfd EXCEPT ![c] = Arm(@, {"out"})]
  /\ UNCHANGED <<data, dialaio, acceptaio, dialer, reaper, pollq, poller, panicked>>

\* "Immediate connect, cool!"
DialAtOnce(c) ==
  /\ conn[c].st = "open" /\ ~dialer.closed
  /\ conn' = [conn EXCEPT ![c].st = "up"]
  /\ link' = [link EXCEPT ![c] = "up"]
  /\ data' = [data EXCEPT ![c] = {"out"} \cap Ops]
  /\ pfd' = [pfd EXCEPT ![c].cb = "conn"]
  /\ dialaio' = [dialaio EXCEPT ![c] = "ok"]
  /\ UNCHANGED <<acceptaio, dialer, reaper, pollq, poller, panicked>>

\* tcp_dialer_cancel: the connection is freed, not closed before
DialCancel(c) ==
  /\ conn[c].st = "dialing"
  /\ conn' = [conn EXCEPT ![c].st = "dead"]
  /\ dialaio' = [dialaio EXCEPT ![c] = "error"]
  /\ ToReaper(c)
  /\ UNCHANGED <<link, data, pfd, acceptaio, dialer, pollq, poller, panicked>>

\* nni_tcp_dialer_close
DialerClose ==
  LET dialing == {c \in DialConns : conn[c].st = "dialing"}
  IN /\ ~dialer.closed
     /\ dialer' = [dialer EXCEPT !.closed = TRUE]
     /\ conn' = [c \in Conns |-> IF c \in dialing
                                 THEN [conn[c] EXCEPT !.st = "dead", !.closed = TRUE]
                                 ELSE conn[c]]
     /\ pfd' = [c \in Fds |-> IF c \in dialing THEN PfdClose(pfd[c]) ELSE pfd[c]]
     /\ dialaio' = [c \in DialConns |-> IF c \in dialing THEN "error" ELSE dialaio[c]]
     /\ reaper' = [reaper EXCEPT !.list = @ \o SetToSeq(dialing)]
     /\ UNCHANGED <<link, data, acceptaio, pollq, poller, panicked>>

\* nni_tcp_dialer_fini: no dial is in progress
DialerFini ==
  /\ dialer.closed /\ ~dialer.fini
  /\ \A c \in DialConns : conn[c].st \notin {"open", "dialing"}
  /\ dialer' = Reled([dialer EXCEPT !.fini = TRUE])
  /\ UNCHANGED <<link, data, pfd, conn, dialaio, acceptaio, reaper, pollq, poller, panicked>>
-----------------------------------------------------------------------------
(* The listener. *)

\* tcp_listener_doaccept: a connection, an error, or the listener is armed
DoAccept(l) ==
  \/ /\ "in" \in data[l]
     /\ \E c \in AcceptConns :
          /\ conn[c].st = "none"
          /\ conn' = [conn EXCEPT ![c].st = "up"]
          /\ link' = [link EXCEPT ![c] = "up"]
          /\ \E left \in {{}, {"in"}} : data' = [data EXCEPT ![l] = left, ![c] = {"out"} \cap Ops]
          /\ pfd' = [pfd EXCEPT ![c] = PfdInit(@, "conn")]
     /\ acceptaio' = "idle"
  \/ /\ "in" \in data[l] /\ (Shortage \/ \A c \in AcceptConns : conn[c].st # "none")
     /\ acceptaio' = "idle"
     /\ \E left \in {{}, {"in"}} : data' = [data EXCEPT ![l] = left]
     /\ UNCHANGED <<link, pfd, conn>>
  \/ /\ data[l] = {}
     /\ pfd' = [pfd EXCEPT ![l] = Arm(@, {"in"})]
     /\ acceptaio' = "pending"
     /\ UNCHANGED <<link, data, conn>>

\* nni_tcp_listener_accept
Accept(l) ==
  /\ acceptaio = "idle" /\ ~pfd[l].closing
  /\ DoAccept(l)
  /\ UNCHANGED <<dialaio, dialer, reaper, pollq, poller, panicked>>

\* nni_tcp_listener_close, tcp_listener_doclose
ListenerClose(l) ==
  /\ ~pfd[l].closing
  /\ pfd' = [pfd EXCEPT ![l] = PfdClose(@)]
  /\ acceptaio' = IF acceptaio = "pending" THEN "idle" ELSE acceptaio
  /\ UNCHANGED <<link, data, conn, dialaio, dialer, reaper, pollq, poller, panicked>>
-----------------------------------------------------------------------------
(* The poller: nni_posix_poll_thr. *)

Idle == poller.batch = <<>> /\ poller.cur = NoFd /\ ~poller.reap

\* one shot, but for a descriptor that was never armed
Shot(p) == [p EXCEPT !.armed = IF p.armed \subseteq Always THEN @ ELSE {}]

Event(c) == [fd |-> c, mask |-> pfd[c].armed \cap Level(c) \cap {"in", "out", "err"}]

\* epoll_wait: all events there are, in some order
Poll ==
  /\ Idle /\ (Signalled # {} \/ pollq.evfd)
  /\ \E order \in SetToSeqs(Signalled \cup (IF pollq.evfd THEN {"evfd"} ELSE {})) :
       poller' = [poller EXCEPT !.batch =
         [i \in DOMAIN order |-> IF order[i] = "evfd" THEN [fd |-> "evfd", mask |-> {}]
                                 ELSE Event(order[i])]]
  /\ pfd' = [c \in Fds |-> IF c \in Signalled THEN Shot(pfd[c]) ELSE pfd[c]]
  /\ UNCHANGED <<link, data, conn, dialaio, acceptaio, dialer, reaper, pollq, panicked>>

\* the waker: to be reaped when the batch is done
TakeWaker ==
  /\ poller.cur = NoFd /\ poller.batch # <<>> /\ Head(poller.batch).fd = "evfd"
  /\ pollq' = [pollq EXCEPT !.evfd = FALSE]
  /\ poller' = [poller EXCEPT !.batch = Tail(@), !.reap = TRUE]
  /\ UNCHANGED <<link, data, pfd, conn, dialaio, acceptaio, dialer, reaper, panicked>>

\* under the lock of the descriptor: its callback and its events
Take ==
  /\ poller.cur = NoFd /\ poller.batch # <<>> /\ Head(poller.batch).fd # "evfd"
  /\ LET e == Head(poller.batch)
     IN /\ pfd' = [pfd EXCEPT ![e.fd].events = @ \ e.mask]
        /\ poller' = [poller EXCEPT !.batch = Tail(@),
                                    !.cur = [fd |-> e.fd, mask |-> e.mask,
                                             cb |-> pfd[e.fd].cb]]
  /\ UNCHANGED <<link, data, conn, dialaio, acceptaio, dialer, reaper, pollq, panicked>>

Returned == poller' = [poller EXCEPT !.cur = NoFd]

\* tcp_cb
ConnCb(c, mask) ==
  /\ IF "err" \in mask
     THEN /\ conn' = [conn EXCEPT ![c] = Ended(@)]
          /\ pfd' = [pfd EXCEPT ![c] = PfdClose(@)]
          /\ UNCHANGED data
     ELSE IF conn[c].closed THEN UNCHANGED <<conn, pfd, data>>
     ELSE /\ conn' = [conn EXCEPT ![c] = Tried(c, mask)]
          /\ UsesUp(c, {k \in mask : conn[c][k] = "pending"})
          /\ LET rest == Pending(Tried(c, mask))
             IN pfd' = IF rest = {} THEN pfd ELSE [pfd EXCEPT ![c] = Arm(@, rest)]
  /\ UNCHANGED <<link, dialaio, acceptaio, reaper>>

\* tcp_dialer_cb: nobody waits any more; an error; or what is taken for success, that
\* SO_ERROR is zero
DialCb(c) ==
  \/ /\ conn[c].st # "dialing"
     /\ UNCHANGED <<link, data, pfd, conn, dialaio, acceptaio, reaper>>
  \/ /\ conn[c].st = "dialing" /\ link[c] = "failed"
     /\ conn' = [conn EXCEPT ![c].st = "dead", ![c].closed = TRUE]
     /\ pfd' = [pfd EXCEPT ![c] = PfdClose(@)]
     /\ dialaio' = [dialaio EXCEPT ![c] = "error"]
     /\ ToReaper(c)
     /\ UNCHANGED <<link, data, acceptaio>>
  \/ /\ conn[c].st = "dialing" /\ link[c] # "failed"
     /\ conn' = [conn EXCEPT ![c].st = "up"]
     /\ pfd' = [pfd EXCEPT ![c].cb = "conn"]
     /\ dialaio' = [dialaio EXCEPT ![c] = "ok"]
     /\ UNCHANGED <<link, data, acceptaio, reaper>>

\* tcp_listener_cb
ListenCb(l) ==
  /\ IF acceptaio = "pending" THEN DoAccept(l)
     ELSE UNCHANGED <<link, data, pfd, conn, acceptaio>>
  /\ UNCHANGED <<dialaio, reaper>>

Callback ==
  LET e == poller.cur
  IN /\ e # NoFd
     /\ CASE e.cb = "conn" -> ConnCb(e.fd, e.mask)
          [] e.cb = "dial" -> DialCb(e.fd)
          [] e.cb = "listen" -> ListenCb(e.fd)
     /\ Returned
     /\ UNCHANGED <<dialer, pollq, panicked>>

\* nni_posix_pollq_reap
PollReap ==
  /\ poller.cur = NoFd /\ poller.batch = <<>> /\ poller.reap
  /\ pfd' = [c \in Fds |-> IF c \in pollq.reapq THEN [pfd[c] EXCEPT !.closed = TRUE] ELSE pfd[c]]
  /\ pollq' = [pollq EXCEPT !.reapq = {}]
  /\ poller' = [poller EXCEPT !.reap = FALSE]
  /\ UNCHANGED <<link, data, conn, dialaio, acceptaio, dialer, reaper, panicked>>
-----------------------------------------------------------------------------
(* The reaper: tcp_fini. *)

\* tcp_close, nni_posix_pfd_fini up to the wait
FiniBegin ==
  /\ reaper.list # <<>> /\ ~reaper.waits
  /\ LET c == Head(reaper.list)
     IN /\ conn' = [conn EXCEPT ![c].closed = TRUE]
        /\ pfd' = [pfd EXCEPT ![c] = PfdClose(@)]
        /\ pollq' = [reapq |-> pollq.reapq \cup {c}, evfd |-> TRUE]
  /\ reaper' = [reaper EXCEPT !.waits = TRUE]
  /\ UNCHANGED <<link, data, dialaio, acceptaio, dialer, poller, panicked>>

\* Mutant: does not wait for the poller.
FiniEnd_NoWait ==
  /\ reaper.waits
  /\ LET c == Head(reaper.list)
     IN /\ conn' = [conn EXCEPT ![c].st = "gone"]
        /\ dialer' = IF c \in DialConns THEN Reled(dialer) ELSE dialer
  /\ reaper' = [list |-> Tail(reaper.list), waits |-> FALSE]
  /\ UNCHANGED <<link, data, pfd, dialaio, acceptaio, pollq, poller, panicked>>

\* the poller is done with it; a connection holds its dialer
FiniEnd ==
  /\ reaper.waits
  /\ LET c == Head(reaper.list)
     IN /\ pfd[c].closed
        /\ conn' = [conn EXCEPT ![c].st = "gone"]
        /\ dialer' = IF c \in DialConns THEN Reled(dialer) ELSE dialer
  /\ reaper' = [list |-> Tail(reaper.list), waits |-> FALSE]
  /\ UNCHANGED <<link, data, pfd, dialaio, acceptaio, pollq, poller, panicked>>
-----------------------------------------------------------------------------
Users == \/ \E c \in Conns : \/ \E k \in Ops : Submit(c, k) \/ Cancel(c, k)
                             \/ Close(c) \/ Free(c)
         \/ \E c \in DialConns : \/ DialOpen(c) \/ DialNoFd(c) \/ DialFails(c)
                                 \/ DialStart(c) \/ DialAtOnce(c) \/ DialCancel(c)
         \/ DialerClose \/ DialerFini
         \/ \E l \in Listener : Accept(l) \/ ListenerClose(l)

PollThread == Poll \/ TakeWaker \/ Take \/ Callback \/ PollReap
Reaper == FiniBegin \/ FiniEnd

Next == \/ Users \/ PollThread \/ Reaper
        \/ \E c \in Conns : ConnectDone(c)
        \/ \E c \in Fds : Peer(c)

Spec == Init /\ [][Next]_pollVars

\* the poller and the reaper run on
FairSpec == Spec /\ WF_pollVars(PollThread) /\ WF_pollVars(Reaper)

-----------------------------------------------------------------------------
(* Properties. *)

\* nni_tcp_dial: "On success, the first (and only) output will be an nni_tcp_conn *
\* associated with the remote server" (core/platform.h).
OkIsConnected == \A c \in DialConns : dialaio[c] = "ok" => link[c] # "connecting"

\* A failure of memory is returned (nng_dial.3.adoc lists NNG_ENOMEM), not a panic.
NeverPanics == ~panicked

\* The reaper never waits for the poller for ever.
FiniReturns == []<>~reaper.waits

\* An operation that could go on does.
Served ==
  \A c \in Conns : \A k \in Kinds :
    []<>(conn[c][k] # "pending" \/ k \notin Level(c))
=============================================================================
