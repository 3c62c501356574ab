------------------------------ MODULE EndpointState ------------------------------
(***************************************************************************)
(* The state of one nng socket with its dialers, listeners and pipes, and  *)
(* what is promised about what frees what.  Endpoints says which there are *)
(* and how core/socket.c, dialer.c, listener.c, pipe.c and reap.c keep it. *)
(***************************************************************************)
EXTENDS Integers, Sequences

VARIABLES
  sock,    \* nni_sock; failed: history, pipe_create had no memory or failed half way
  ep,      \* nni_dialer and nni_listener, with their operations con and tmo
  pipe,    \* nni_pipe
  cb,      \* the callback that adds a pipe to each endpoint: pipe and place
  reap,    \* the reap lists, what the reaper took, the one in work
  user,    \* the thread that makes each endpoint, and one that closes it
  closer,  \* the threads in nng_close
  holder   \* the pipe nng_pipe_close has found

-----------------------------------------------------------------------------
(* Properties.                                                             *)

(* The types of the fields; a pipe is listed with its endpoint only.       *)
EndpointTypeOK ==
  /\ sock \in [closing : BOOLEAN, closed : BOOLEAN, ref : Nat, node : BOOLEAN,
               gone : BOOLEAN, failed : BOOLEAN]
  /\ \A e \in DOMAIN ep : /\ ep[e].ref \in Nat
                          /\ ep[e].con \in {"idle", "pending", "ok", "error", "closed"}
                          /\ ep[e].tmo \in {"idle", "pending", "closed"}
  /\ \A p \in DOMAIN pipe : pipe[p].ref \in Int /\ (pipe[p].listed <=> pipe[p].ep \in DOMAIN ep)

\* the reaper is about to free x
Fined(x) == reap.cur = x /\ reap.step = "fini"

\* No thread is left inside a socket that was freed (socket.c: "there are no threads
\* blocked inside of us that are referencing socket state"): no endpoint or pipe of
\* it that still has to lock it, no caller with a reference, no callback.
SocketOutlives ==
  sock.gone => /\ \A e \in DOMAIN ep : /\ ep[e].alive => Fined(e)
                                       /\ ~user[<<e, "dial">>].sock /\ cb[e].step = "none"
               /\ \A p \in DOMAIN pipe : pipe[p].live => Fined(p)
               /\ \A c \in DOMAIN closer : closer[c] \in {"idle", "done"}

ListedWith(p, e) == pipe[p].listed /\ pipe[p].ep = e

\* "The guarantees on pipes ensure that the pipe will not outlive its creating
\* endpoint" (pipe.c): the endpoint of a listed pipe is there, what a dialer or a
\* callback points to is a pipe that is there, and a callback holds its pipe.
EndpointOutlives ==
  /\ \A p \in DOMAIN pipe : pipe[p].listed => ep[pipe[p].ep].alive /\ ep[pipe[p].ep].listed
  /\ \A e \in DOMAIN ep :
       /\ ep[e].pipe \in DOMAIN pipe => ListedWith(ep[e].pipe, e)
       /\ cb[e].step # "none" => /\ ep[e].alive /\ cb[e].p \in DOMAIN pipe
                                 /\ ListedWith(cb[e].p, e) /\ pipe[cb[e].p].ref >= 1

InReap == reap.pipes \o reap.eps \o reap.hand \o
          (IF reap.step = "none" THEN <<>> ELSE <<reap.cur>>)

\* Nothing is given to the reaper twice, and only what is closed; an endpoint only
\* when nobody holds it and it was shut down before.
ReapedOnce ==
  /\ \A i, j \in DOMAIN InReap : InReap[i] = InReap[j] => i = j
  /\ \A i \in DOMAIN InReap :
       LET x == InReap[i]
       IN  /\ x \in DOMAIN ep => ep[x].closed /\ ep[x].closing /\ ep[x].ref = 0
           /\ x \in DOMAIN pipe => pipe[x].closed

\* "Dialers will also periodically retry a connection automatically" (nng_dial): as
\* long as it is open, a dialer that was started has a connection, is making one,
\* or waits to make one; a listener accepts, or is about to.
NeverIdle ==
  \A e \in DOMAIN ep :
    /\ ep[e].listed /\ ~ep[e].closing /\ ~ep[e].closed
    /\ user[<<e, "dial">>].pc \in {"srele", "end"}
    => \/ ep[e].con # "idle" \/ ep[e].tmo # "idle" \/ cb[e].step # "none"
       \/ ep[e].pipe \in DOMAIN pipe

\* Whatever the order in which callers, callbacks, closers and the reaper take a
\* socket apart, nothing is freed under one of them and no dialer falls silent. The
\* last two only hold as long as pipe_create has had memory and has not failed half
\* way.
EndpointsSound ==
  /\ EndpointTypeOK /\ EndpointOutlives /\ ReapedOnce
  /\ ~sock.failed => SocketOutlives /\ NeverIdle

==================================================================================
