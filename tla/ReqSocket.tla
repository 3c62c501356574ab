-------------------------------- MODULE ReqSocket --------------------------------
(***************************************************************************)
(* The requesting side of nng's request/reply protocol                     *)
(* (sp/protocol/reqrep0/req.c), through which every log entry is sent.     *)
(*                                                                         *)
(* Contexts, the socket itself among them (Master), each have at most one  *)
(* request outstanding.  Requests wait in send_queue for a pipe that can   *)
(* send; a pipe carries one message at a time.  A request is sent again    *)
(* when its timer runs out or its pipe closes, and the first reply with    *)
(* its identifier ends it.  Users, pipes and the one timer thread take the *)
(* socket's lock in any order: an action is what is done under it.         *)
(* A message is its request identifier.  Identifiers are drawn from a      *)
(* space of 2^31 (core/idhash.c) and not used twice within the bounds.     *)
(***************************************************************************)
EXTENDS ReqRep, SequencesExt

ReqAssumption ==
  /\ Master \in Contexts /\ NoRetry \subseteq Contexts
  /\ Nobody \notin Contexts \cup Pipes
  /\ MaxSends \in Nat /\ MaxLosses \in Nat

Position(s, x) == CHOOSE i \in DOMAIN s : s[i] = x
Without(s, x) == IF x \in Members(s) THEN RemoveAt(s, Position(s, x)) ELSE s

(* req0_ctx: request_id, whether req_msg, send_aio and recv_aio are there, *)
(* rep_msg, whether the timer runs, the pipe on whose list it is,          *)
(* conn_reset.                                                             *)
Blank == [request_id |-> 0, req_msg |-> FALSE, send_aio |-> FALSE, recv_aio |-> FALSE,
          rep_msg |-> 0, timer |-> FALSE, pipe |-> Nobody, conn_reset |-> FALSE]

Init ==
  /\ reqCtx = [c \in Contexts |-> Blank] /\ reqOpen = Contexts /\ closed = FALSE
  /\ requests = [i \in RequestIds |-> Nobody] /\ send_queue = <<>>
  /\ ready_pipes = <<>> /\ busy_pipes = {} /\ reqUp = [p \in Pipes |-> "new"]
  /\ aio_send = [p \in Pipes |-> 0] /\ written = {}
  /\ reqReadable = FALSE /\ reqWritable = FALSE /\ firing = Nobody
  /\ heard = {} /\ inbound = {}
  /\ sends = 0 /\ losses = 0 /\ latest = [c \in Contexts |-> 0] /\ given = <<>>

-----------------------------------------------------------------------------
(* Steps that several operations share.                                    *)

Unlisted(id) == IF id = 0 THEN requests ELSE [requests EXCEPT ![id] = Nobody]

(* Mutant: the reset leaves a stashed reply behind.                        *)
ResetCtx_KeepsReply(c) == [Blank EXCEPT !.recv_aio = reqCtx[c].recv_aio,
                                        !.send_aio = reqCtx[c].send_aio,
                                        !.rep_msg = reqCtx[c].rep_msg]

(* req0_ctx_reset: all but the two aios.  (Together with Unlisted and      *)
(* Without it takes the context off the socket's map and queue.)           *)
ResetCtx(c) == [Blank EXCEPT !.recv_aio = reqCtx[c].recv_aio, !.send_aio = reqCtx[c].send_aio]

(* Mutant: sending starts no timer.                                        *)
Sent_NoTimer(k, c, p) == [k EXCEPT !.send_aio = FALSE, !.pipe = p]

(* Context c once pipe p has its request: the sender is told, the timer    *)
(* starts if it is wanted, and p's end is c's business.                    *)
Sent(k, c, p) == [k EXCEPT !.send_aio = FALSE, !.pipe = p, !.timer = @ \/ Retries(c)]

StillWritable(n, w, ready) == w /\ ~(n > 0 /\ n = Len(ready))

(* req0_run_send_queue on the given contexts, queue, ready pipes and       *)
(* writable, after the pipes in done have sent: as many requests as there  *)
(* are pipes, in their order.                                              *)
RunSendQueue(cs, queue, ready, w, done) ==
  LET n == IF Len(queue) < Len(ready) THEN Len(queue) ELSE Len(ready)
      At(c) == CHOOSE i \in 1..n : queue[i] = c
      Taker(p) == CHOOSE i \in 1..n : ready[i] = p
  IN /\ reqCtx' = [c \in Contexts |-> IF c \in Members(SubSeq(queue, 1, n))
                                   THEN Sent(cs[c], c, ready[At(c)]) ELSE cs[c]]
     /\ aio_send' = [p \in Pipes |-> IF p \in Members(SubSeq(ready, 1, n))
                                     THEN cs[queue[Taker(p)]].request_id
                                     ELSE IF p \in done THEN 0 ELSE aio_send[p]]
     /\ written' = written \ (done \cup Members(SubSeq(ready, 1, n)))
     /\ send_queue' = SubSeq(queue, n + 1, Len(queue))
     /\ ready_pipes' = SubSeq(ready, n + 1, Len(ready))
     /\ busy_pipes' = (busy_pipes \ done) \cup Members(SubSeq(ready, 1, n))
     /\ reqWritable' = StillWritable(n, w, ready)

-----------------------------------------------------------------------------
(* The user.                                                               *)

(* req0_ctx_send.  A new request cancels the old one with whatever waits   *)
(* for it.  nni_aio_schedule refuses an aio that may not wait: then the    *)
(* request is only accepted if a pipe is ready.  (A send that waits and    *)
(* has lost its message cannot be cancelled, by this or by CancelSend: the *)
(* program stops at a null pointer.)                                       *)
Send(c, mayWait) ==
  /\ c \in reqOpen /\ ~closed /\ sends < MaxSends
  /\ reqCtx[c].send_aio => reqCtx[c].req_msg
  /\ sends' = sends + 1
  /\ LET id == sends + 1
         cleared == [Unlisted(reqCtx[c].request_id) EXCEPT ![id] = Nobody]
     IN \/ /\ ~mayWait /\ ready_pipes = <<>>
           /\ requests' = cleared
           /\ send_queue' = Without(send_queue, c)
           /\ reqCtx' = [reqCtx EXCEPT ![c] = [ResetCtx(c) EXCEPT !.request_id = id,
                                           !.recv_aio = FALSE, !.send_aio = FALSE]]
           /\ latest' = [latest EXCEPT ![c] = 0]
           /\ UNCHANGED <<ready_pipes, busy_pipes, aio_send, written, reqWritable>>
        \/ /\ mayWait \/ ready_pipes # <<>>
           /\ requests' = [cleared EXCEPT ![id] = c]
           /\ RunSendQueue([reqCtx EXCEPT ![c] = [ResetCtx(c) EXCEPT !.request_id = id,
                                !.req_msg = TRUE, !.recv_aio = FALSE, !.send_aio = TRUE]],
                           Append(Without(send_queue, c), c), ready_pipes, reqWritable, {})
           /\ latest' = [latest EXCEPT ![c] = id]
  /\ UNCHANGED <<reqOpen, closed, reqUp, reqReadable, firing, peers, given>>

(* req0_ctx_recv: a stashed reply is handed over; otherwise the aio waits  *)
(* if there is a request to wait for.                                      *)
Recv(c) ==
  /\ c \in reqOpen
  /\ LET k == reqCtx[c] IN
       \/ /\ k.recv_aio \/ (~k.req_msg /\ k.rep_msg = 0)      \* NNG_ESTATE
          /\ reqCtx' = [reqCtx EXCEPT ![c].conn_reset = FALSE]
          /\ reqCtx' # reqCtx
          /\ UNCHANGED <<reqReadable, given>>
       \/ /\ ~k.recv_aio /\ k.req_msg /\ k.rep_msg = 0
          /\ reqCtx' = [reqCtx EXCEPT ![c].recv_aio = TRUE]
          /\ UNCHANGED <<reqReadable, given>>
       \/ /\ ~k.recv_aio /\ k.rep_msg # 0
          /\ reqCtx' = [reqCtx EXCEPT ![c].rep_msg = 0]
          /\ reqReadable' = (reqReadable /\ c # Master)
          /\ given' = Append(given, <<c, k.rep_msg>>)
  /\ UNCHANGED <<reqOpen, closed, queues, reqPipes, firing, peers, sends, latest>>

(* The end of c's request for req0_ctx_cancel_send, req0_ctx_cancel_recv   *)
(* and req0_ctx_fini.                                                      *)
Abandon(c, k) ==
  /\ reqCtx' = [reqCtx EXCEPT ![c] = k]
  /\ requests' = Unlisted(reqCtx[c].request_id)
  /\ send_queue' = Without(send_queue, c)
  /\ latest' = [latest EXCEPT ![c] = 0]
  /\ UNCHANGED <<reqPipes, reqReadable, firing, peers, sends, given>>

CancelSend(c) ==
  /\ c \in reqOpen /\ reqCtx[c].send_aio /\ reqCtx[c].req_msg
  /\ Abandon(c, [ResetCtx(c) EXCEPT !.send_aio = FALSE])
  /\ UNCHANGED <<reqOpen, closed>>

CancelRecv(c) ==
  /\ c \in reqOpen /\ reqCtx[c].recv_aio
  /\ Abandon(c, [ResetCtx(c) EXCEPT !.recv_aio = FALSE])
  /\ UNCHANGED <<reqOpen, closed>>

(* req0_ctx_fini; for the master it is the end of the socket.              *)
CtxFini(c) ==
  /\ c \in reqOpen
  /\ c = Master => closed /\ \A p \in Pipes : reqUp[p] # "up"
  /\ reqOpen' = reqOpen \ {c}
  /\ Abandon(c, Blank)
  /\ UNCHANGED closed

SockClose ==
  /\ ~closed /\ closed' = TRUE
  /\ UNCHANGED <<reqCtx, reqOpen, queues, reqPipes, reqReadable, firing, peers, sends, latest,
                 given>>

-----------------------------------------------------------------------------
(* The pipes.                                                              *)

PipeStart(p) ==
  /\ reqUp[p] = "new" /\ ~closed
  /\ reqUp' = [reqUp EXCEPT ![p] = "up"]
  /\ RunSendQueue(reqCtx, send_queue, Append(ready_pipes, p), TRUE, {})
  /\ UNCHANGED <<reqOpen, closed, requests, reqReadable, firing, peers, sends, latest, given>>

(* What req0_pipe_close does to a context on the pipe's list: without      *)
(* retries its request ends, otherwise its timer is made to run out.       *)
PipeGone(c, p) ==
  IF reqCtx[c].pipe # p THEN reqCtx[c]
  ELSE IF Retries(c) THEN [reqCtx[c] EXCEPT !.timer = TRUE, !.pipe = Nobody]
  ELSE IF reqCtx[c].recv_aio THEN [ResetCtx(c) EXCEPT !.recv_aio = FALSE]
  ELSE [ResetCtx(c) EXCEPT !.conn_reset = TRUE]

(* req0_pipe_close, with the end of what the pipe was sending.             *)
PipeClose(p) ==
  /\ reqUp[p] = "up"
  /\ \/ closed /\ UNCHANGED losses
     \/ ~closed /\ losses < MaxLosses /\ losses' = losses + 1
  /\ reqUp' = [reqUp EXCEPT ![p] = "down"]
  /\ ready_pipes' = Without(ready_pipes, p)
  /\ busy_pipes' = busy_pipes \ {p}
  /\ aio_send' = [aio_send EXCEPT ![p] = 0] /\ written' = written \ {p}
  /\ reqWritable' = (reqWritable /\ Without(ready_pipes, p) # <<>>)
  /\ LET ended == {c \in NoRetry : reqCtx[c].pipe = p}
     IN /\ reqCtx' = [c \in Contexts |-> PipeGone(c, p)]
        /\ requests' = [i \in RequestIds |-> IF requests[i] \in ended THEN Nobody ELSE requests[i]]
        /\ send_queue' = IF Members(send_queue) \cap ended = {} THEN send_queue
                         ELSE SelectSeq(send_queue, LAMBDA c : c \notin ended)
  /\ heard' = {m \in heard : m[1] # p} /\ inbound' = {m \in inbound : m[1] # p}
  /\ UNCHANGED <<reqOpen, closed, reqReadable, firing, sends, latest, given>>

(* The message is on the wire; the pipe's callback comes later.            *)
Transmit(p) ==
  /\ aio_send[p] # 0 /\ p \notin written
  /\ written' = written \cup {p}
  /\ heard' = heard \cup {<<p, aio_send[p]>>}
  /\ UNCHANGED <<reqCtx, reqOpen, closed, queues, ready_pipes, busy_pipes, reqUp, aio_send,
                 reqWritable, reqReadable, firing, inbound, losses, sends, latest, given>>

Rerun(p) ==
  RunSendQueue(reqCtx, send_queue, Append(ready_pipes, p), reqWritable \/ send_queue = <<>>, {p})

(* req0_send_cb after a success.  With the socket closed the pipe stays    *)
(* busy.                                                                   *)
SendCb(p) ==
  /\ p \in written /\ reqUp[p] = "up"
  /\ \/ ~closed /\ Rerun(p)
     \/ /\ closed
        /\ aio_send' = [aio_send EXCEPT ![p] = 0] /\ written' = written \ {p}
        /\ UNCHANGED <<reqCtx, send_queue, ready_pipes, busy_pipes, reqWritable>>
  /\ UNCHANGED <<reqOpen, closed, requests, reqUp, reqReadable, firing, peers, sends, latest,
                 given>>

(* The peer replies to a request it has; it may do so again.               *)
Answer(m) ==
  /\ m \in heard \ inbound
  /\ inbound' = inbound \cup {m}
  /\ UNCHANGED <<reqCtx, reqOpen, closed, queues, reqPipes, reqReadable, firing, heard, losses,
                 sends, latest, given>>

(* The peer has lost a request, or will not answer it.                     *)
Lose(m) ==
  /\ m \in heard /\ losses < MaxLosses
  /\ heard' = heard \ {m} /\ losses' = losses + 1
  /\ UNCHANGED <<reqCtx, reqOpen, closed, queues, reqPipes, reqReadable, firing, inbound,
                 sends, latest, given>>

Matched(id) == [requests EXCEPT ![id] = Nobody]

Unqueued(c) == Without(send_queue, c)

(* req0_recv_cb with the reply m = <<pipe, identifier>>.                   *)
RecvCb(m) ==
  /\ m \in inbound
  /\ inbound' = inbound \ {m}
  /\ LET id == m[2]
         c == requests[id]
     IN \/ /\ c = Nobody \/ (c # Nobody /\ (reqCtx[c].send_aio \/ reqCtx[c].rep_msg # 0))
           /\ UNCHANGED <<reqCtx, queues, reqReadable, given>>
        \/ /\ c # Nobody /\ ~reqCtx[c].send_aio /\ reqCtx[c].rep_msg = 0
           /\ send_queue' = Unqueued(c)
           /\ requests' = Matched(id)
           /\ LET k == [reqCtx[c] EXCEPT !.request_id = 0, !.req_msg = FALSE]
              IN IF k.recv_aio
                 THEN /\ reqCtx' = [reqCtx EXCEPT ![c] = [k EXCEPT !.recv_aio = FALSE]]
                      /\ given' = Append(given, <<c, id>>)
                      /\ UNCHANGED reqReadable
                 ELSE /\ reqCtx' = [reqCtx EXCEPT ![c] = [k EXCEPT !.rep_msg = id]]
                      /\ reqReadable' = (reqReadable \/ c = Master)
                      /\ UNCHANGED given
  /\ UNCHANGED <<reqOpen, closed, reqPipes, firing, heard, losses, sends, latest>>

-----------------------------------------------------------------------------
(* The timer.                                                              *)

(* The timer thread (core/timer.c) has taken the node off its list and     *)
(* calls the timeout, which waits for the lock.                            *)
Fires(c) ==
  /\ firing = Nobody /\ reqCtx[c].timer
  /\ firing' = c
  /\ reqCtx' = [reqCtx EXCEPT ![c].timer = FALSE]
  /\ UNCHANGED <<reqOpen, closed, queues, reqPipes, reqReadable, peers, sends, latest, given>>

Requeued(c) == IF c \in Members(send_queue) THEN send_queue ELSE Append(send_queue, c)

(* req0_ctx_timeout.                                                       *)
Timeout(c) ==
  /\ firing = c
  /\ firing' = Nobody
  /\ \/ /\ reqCtx[c].req_msg /\ ~closed
        /\ RunSendQueue(reqCtx, Requeued(c), ready_pipes, reqWritable, {})
     \/ /\ ~reqCtx[c].req_msg \/ closed
        /\ UNCHANGED <<reqCtx, send_queue, ready_pipes, busy_pipes, aio_send, written, reqWritable>>
  /\ UNCHANGED <<reqOpen, closed, requests, reqUp, reqReadable, peers, sends, latest, given>>

Next ==
  \/ \E c \in Contexts : \/ \E mayWait \in BOOLEAN : Send(c, mayWait)
                         \/ Recv(c) \/ CancelSend(c) \/ CancelRecv(c) \/ CtxFini(c)
                         \/ Fires(c) \/ Timeout(c)
  \/ SockClose
  \/ \E p \in Pipes : PipeStart(p) \/ PipeClose(p) \/ Transmit(p) \/ SendCb(p)
  \/ \E m \in Pipes \X RequestIds : Answer(m) \/ Lose(m) \/ RecvCb(m)

Spec == Init /\ [][Next]_reqVars

(* Pipes are dialled again, the transport writes and calls back, peers     *)
(* answer what they do not lose, a closed socket closes its contexts.  The *)
(* timer thread takes the nodes in the order they run out, so each comes   *)
(* up in the end.                                                          *)
PipeKinds == {"starts", "transmits", "sent", "closed"}
FairPipe(k, p) == \/ k = "starts" /\ PipeStart(p)
                  \/ k = "transmits" /\ Transmit(p)
                  \/ k = "sent" /\ SendCb(p)
                  \/ k = "closed" /\ closed /\ PipeClose(p)
ReplyKinds == {"answers", "received"}
FairReply(k, m) == \/ k = "answers" /\ Answer(m)
                   \/ k = "received" /\ RecvCb(m)
ContextKinds == {"timeout", "fini"}
FairContext(k, c) == \/ k = "timeout" /\ Timeout(c)
                     \/ k = "fini" /\ closed /\ CtxFini(c)

LiveSpec ==
  /\ Spec
  /\ \A k \in PipeKinds, p \in Pipes : WF_reqVars(FairPipe(k, p))
  /\ \A k \in ReplyKinds, m \in Pipes \X RequestIds : WF_reqVars(FairReply(k, m))
  /\ \A k \in ContextKinds, c \in Contexts : WF_reqVars(FairContext(k, c))
  /\ \A c \in Contexts : SF_reqVars(Fires(c))

-----------------------------------------------------------------------------
(* Properties.                                                             *)

(* A receive that waits for a request that may be repeated ends: by the    *)
(* reply, or because the request is given up.                              *)
Receiving(c) == reqCtx[c].recv_aio /\ reqCtx[c].req_msg
ReceiveEnds == \A c \in Contexts \ NoRetry : []<>~Receiving(c)

(* A send whose request is not given up ends: contexts take their turns at *)
(* the pipes.                                                              *)
Sending(c) == reqCtx[c].send_aio /\ reqCtx[c].req_msg
SendEnds == \A c \in Contexts : []<>~Sending(c)

(* req_cancel_send asserts that no receive waits behind the send it        *)
(* cancels (NNI_ASSERT(ctx->recv_aio == NULL)).                            *)
NoRecvBehindSend == \A c \in Contexts : reqCtx[c].send_aio => ~reqCtx[c].recv_aio

(* The manual of nng_ctx_send: the message of a send that fails is the     *)
(* caller's again.  So while a send waits its message is kept.             *)
SenderKeepsMessage == \A c \in Contexts : reqCtx[c].send_aio => reqCtx[c].req_msg

(* The manual of NNG_OPT_RECVFD: "When no message is ready for receiving,  *)
(* then this file descriptor will not be readable."                        *)
ReadableIsReady == reqReadable /\ Master \in reqOpen => reqCtx[Master].rep_msg # 0

(* A comment of req0_pipe_close: "We should only be waiting for recv,      *)
(* because we will already have sent if we are here."  So no reply that    *)
(* has arrived is thrown away by a pipe's end.                             *)
ClosingKeepsReplies ==
  [][losses' # losses => \A c \in Contexts : reqCtx'[c].rep_msg = reqCtx[c].rep_msg]_reqVars

===============================================================================
