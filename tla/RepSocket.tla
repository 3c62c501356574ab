-------------------------------- MODULE RepSocket --------------------------------
(***************************************************************************)
(* The replying side of nng's request/reply protocol                       *)
(* (sp/protocol/reqrep0/rep.c), which the log server receives with.        *)
(*                                                                         *)
(* A pipe receives one request at a time; if no context waits in recvq the *)
(* request stays with the pipe, which joins recvpipes.  A context that     *)
(* receives remembers where the request came from, and its next send goes  *)
(* there: at once, or when the pipe has sent what others gave it (sendq).  *)
(* A request is a number; its reply carries the same one (the backtrace).  *)
(* An action is what is done under the socket's lock.                      *)
(***************************************************************************)
EXTENDS ReqRep, SequencesExt

RepAssumption ==
  /\ Master \in Contexts /\ Nobody \notin Pipes
  /\ MaxRequests \in Nat /\ MaxEnds \in Nat

lists == <<recvq, recvpipes>>
pipes == <<up, receiving, aio_recv, busy, sendq>>
polls == <<readable, writable>>
vars == <<ctx, open, lists, pipes, polls, arrived, replied>>

Position(s, x) == CHOOSE i \in DOMAIN s : s[i] = x
Without(s, x) == IF x \in Members(s) THEN RemoveAt(s, Position(s, x)) ELSE s

(* rep0_ctx: pipe_id, btrace (the request it answers), the reply of saio   *)
(* and the pipe it waits for, raio.                                        *)
Blank == [pipe_id |-> Nobody, btrace |-> 0, saio |-> 0, spipe |-> Nobody, raio |-> FALSE]

Init ==
  /\ ctx = [c \in Contexts |-> Blank] /\ open = Contexts
  /\ recvq = <<>> /\ recvpipes = <<>>
  /\ up = [p \in Pipes |-> "new"] /\ receiving = {} /\ aio_recv = [p \in Pipes |-> 0]
  /\ busy = {} /\ sendq = [p \in Pipes |-> <<>>]
  /\ readable = FALSE /\ writable = FALSE
  /\ arrived = <<>> /\ replied = <<>>

-----------------------------------------------------------------------------
(* The user.                                                               *)

(* Context c has the request that pipe p held.                             *)
Took(k, p) == [k EXCEPT !.btrace = aio_recv[p], !.pipe_id = p]

ReceivesOn(p) == receiving \cup {p}

StillReadable(rest) == readable /\ rest # <<>>

(* Mutant: the request stays with the pipe as well.                        *)
Emptied_Not(p) == aio_recv

Emptied(p) == [aio_recv EXCEPT ![p] = 0]

MustWait == recvpipes = <<>>

(* rep0_ctx_recv.                                                          *)
Recv(c) ==
  /\ c \in open
  /\ \/ /\ MustWait /\ ~ctx[c].raio   \* otherwise NNG_ESTATE
        /\ ctx' = [ctx EXCEPT ![c].raio = TRUE]
        /\ recvq' = Append(recvq, c)
        /\ UNCHANGED <<recvpipes, receiving, aio_recv, polls>>
     \/ /\ ~MustWait
        /\ LET p == Head(recvpipes)
           IN /\ ctx' = [ctx EXCEPT ![c] = Took(@, p)]
              /\ aio_recv' = Emptied(p)
              /\ recvpipes' = Tail(recvpipes)
              /\ readable' = StillReadable(Tail(recvpipes))
              /\ receiving' = ReceivesOn(p)
              /\ writable' = (writable \/ (c = Master /\ p \notin busy))
              /\ UNCHANGED recvq
  /\ UNCHANGED <<open, up, busy, sendq, arrived, replied>>

CancelRecv(c) ==
  /\ ctx[c].raio
  /\ ctx' = [ctx EXCEPT ![c].raio = FALSE]
  /\ recvq' = Without(recvq, c)
  /\ UNCHANGED <<open, recvpipes, pipes, polls, arrived, replied>>

(* "Exactly one send for one receive".                                     *)
Answered(k) == [k EXCEPT !.btrace = 0, !.pipe_id = Nobody]

(* rep0_ctx_send.  A reply to a pipe that is gone is dropped, as if it had *)
(* been sent.  Only the master clears writable.  nni_aio_schedule may      *)
(* refuse an aio that may not wait.  (A context that is on a sendq already *)
(* stops the program, nni_list_append.)                                    *)
Send(c, mayWait) ==
  /\ c \in open
  /\ LET p == ctx[c].pipe_id
         r == ctx[c].btrace
         there == r # 0 /\ p \in {q \in Pipes : up[q] = "up"}
     IN /\ writable' = (writable /\ c # Master)
        /\ \/ /\ ~there
              /\ ctx' = [ctx EXCEPT ![c] = Answered(@)]
              /\ UNCHANGED <<busy, sendq, replied>>
           \/ /\ there /\ p \notin busy
              /\ ctx' = [ctx EXCEPT ![c] = Answered(@)]
              /\ busy' = busy \cup {p}
              /\ replied' = Append(replied, <<p, r>>)
              /\ UNCHANGED sendq
           \/ /\ there /\ p \in busy
              /\ IF mayWait
                 THEN /\ ctx[c].saio = 0
                      /\ ctx' = [ctx EXCEPT ![c] = [Answered(@) EXCEPT !.saio = r, !.spipe = p]]
                      /\ sendq' = [sendq EXCEPT ![p] = Append(@, c)]
                 ELSE /\ ctx' = [ctx EXCEPT ![c] = Answered(@)]
                      /\ UNCHANGED sendq
              /\ UNCHANGED <<busy, replied>>
  /\ UNCHANGED <<open, lists, up, receiving, aio_recv, readable, arrived>>

Unqueued(c) == [p \in Pipes |-> Without(sendq[p], c)]

CancelSend(c) ==
  /\ ctx[c].saio # 0
  /\ ctx' = [ctx EXCEPT ![c].saio = 0]
  /\ sendq' = Unqueued(c)
  /\ UNCHANGED <<open, lists, up, receiving, aio_recv, busy, polls, arrived, replied>>

Closed(c) == IF ctx[c].saio # 0 THEN Unqueued(c) ELSE sendq

(* rep0_ctx_close.                                                         *)
CtxClose(c) ==
  /\ c \in open
  /\ open' = open \ {c}
  /\ ctx' = [ctx EXCEPT ![c].saio = 0, ![c].raio = FALSE,
                        ![c].spipe = IF ctx[c].saio # 0 THEN Nobody ELSE @]
  /\ sendq' = Closed(c)
  /\ recvq' = IF ctx[c].raio THEN Without(recvq, c) ELSE recvq
  /\ UNCHANGED <<recvpipes, up, receiving, aio_recv, busy, polls, arrived, replied>>

-----------------------------------------------------------------------------
(* The pipes.                                                              *)

PipeStart(p) ==
  /\ up[p] = "new"
  /\ up' = [up EXCEPT ![p] = "up"]
  /\ receiving' = receiving \cup {p}
  /\ UNCHANGED <<ctx, open, lists, aio_recv, busy, sendq, polls, arrived, replied>>

(* To a context that waits for the pipe its reply is as good as sent.      *)
Released(c, p) ==
  IF c \in Members(sendq[p]) THEN [ctx[c] EXCEPT !.saio = 0] ELSE ctx[c]

WritableAfter(p) == writable \/ ctx[Master].pipe_id = p

Unlisted(p) == Without(recvpipes, p)

(* rep0_pipe_close.  The request the pipe holds goes with it.              *)
PipeClose(p) ==
  /\ up[p] = "up"
  /\ Cardinality({q \in Pipes : up[q] = "down"}) < MaxEnds
  /\ up' = [up EXCEPT ![p] = "down"]
  /\ receiving' = receiving \ {p}
  /\ recvpipes' = Unlisted(p)
  /\ ctx' = [c \in Contexts |-> Released(c, p)]
  /\ sendq' = [sendq EXCEPT ![p] = <<>>]
  /\ writable' = WritableAfter(p)
  /\ UNCHANGED <<open, recvq, aio_recv, busy, readable, arrived, replied>>

(* A request has come; the callback will take the lock.                    *)
Arrives(p) ==
  /\ p \in receiving /\ Len(arrived) < MaxRequests
  /\ receiving' = receiving \ {p}
  /\ arrived' = Append(arrived, p)
  /\ aio_recv' = [aio_recv EXCEPT ![p] = Len(arrived) + 1]
  /\ UNCHANGED <<ctx, open, lists, up, busy, sendq, polls, replied>>

(* rep0_pipe_recv_cb.  A message of too many hops changes nothing; one     *)
(* without a request identifier closes the pipe.                           *)
RecvCb(p) ==
  /\ aio_recv[p] # 0 /\ p \notin Members(recvpipes)
  /\ \/ /\ up[p] = "down"
        /\ aio_recv' = [aio_recv EXCEPT ![p] = 0]
        /\ UNCHANGED <<ctx, lists, receiving, polls>>
     \/ /\ up[p] = "up" /\ recvq = <<>>
        /\ recvpipes' = Append(recvpipes, p)
        /\ readable' = TRUE
        /\ UNCHANGED <<ctx, recvq, receiving, aio_recv, writable>>
     \/ /\ up[p] = "up" /\ recvq # <<>>
        /\ LET c == Head(recvq)
           IN /\ recvq' = Tail(recvq)
              /\ ctx' = [ctx EXCEPT ![c] = [Took(@, p) EXCEPT !.raio = FALSE]]
              /\ writable' = (writable \/ (c = Master /\ p \notin busy))
        /\ aio_recv' = Emptied(p)
        /\ receiving' = ReceivesOn(p)
        /\ UNCHANGED <<recvpipes, readable>>
  /\ UNCHANGED <<open, up, busy, sendq, arrived, replied>>

(* rep0_pipe_send_cb, after a success (a failure closes the pipe).         *)
SendCb(p) ==
  /\ p \in busy
  /\ \/ /\ sendq[p] = <<>>
        /\ busy' = busy \ {p}
        /\ writable' = (writable \/ ctx[Master].pipe_id = p)
        /\ UNCHANGED <<ctx, sendq, replied>>
     \/ /\ sendq[p] # <<>>
        /\ LET c == Head(sendq[p])
           IN /\ sendq' = [sendq EXCEPT ![p] = Tail(@)]
              /\ ctx' = [ctx EXCEPT ![c].saio = 0, ![c].spipe = Nobody]
              /\ replied' = Append(replied, <<p, ctx[c].saio>>)
        /\ UNCHANGED <<busy, writable>>
  /\ UNCHANGED <<open, lists, up, receiving, aio_recv, readable, arrived>>

Next ==
  \/ \E c \in Contexts : \/ Recv(c) \/ CancelRecv(c) \/ CancelSend(c) \/ CtxClose(c)
                         \/ \E mayWait \in BOOLEAN : Send(c, mayWait)
  \/ \E p \in Pipes : PipeStart(p) \/ PipeClose(p) \/ Arrives(p) \/ RecvCb(p) \/ SendCb(p)

Spec == Init /\ [][Next]_vars

(* The transports call back, and a context that is open receives again     *)
(* when it has nothing to answer.                                          *)
Receives(c) == Recv(c) /\ ctx[c].btrace = 0 /\ ctx[c].saio = 0

Answers(c) == Send(c, TRUE) /\ ctx[c].btrace # 0

FairPipe(k, p) == \/ k = "received" /\ RecvCb(p)
                  \/ k = "sent" /\ SendCb(p)
FairContext(k, c) == \/ k = "receives" /\ Receives(c)
                     \/ k = "answers" /\ Answers(c)

LiveSpec ==
  /\ Spec
  /\ \A k \in {"received", "sent"}, p \in Pipes : WF_vars(FairPipe(k, p))
  /\ \A k \in {"receives", "answers"}, c \in Contexts : WF_vars(FairContext(k, c))

-----------------------------------------------------------------------------
(* Properties.                                                             *)

(* While a context listens no request waits for ever.                      *)
RequestIsTaken ==
  \A p \in Pipes : []<>(p \notin Members(recvpipes) \/ open = {})

(* A reply that waits for its pipe is sent, or given up.                   *)
ReplyEnds == \A c \in Contexts : []<>(ctx[c].saio = 0)

(* The manual of nng_rep: "Each context may have at most one outstanding   *)
(* request".                                                               *)
OneOutstanding == \A c \in Contexts : ctx[c].saio # 0 => ctx[c].btrace = 0

(* The manual of NNG_OPT_RECVFD: "When no message is ready for receiving,  *)
(* then this file descriptor will not be readable."                        *)
ReadableIsReady == readable => recvpipes # <<>>

(* The manual of NNG_OPT_SENDFD: "When the socket is no longer able to     *)
(* accept such messages without blocking, the descriptor will not be       *)
(* readable."                                                              *)
WritableIsReady ==
  LET p == ctx[Master].pipe_id IN writable /\ p # Nobody => up[p] # "up" \/ p \notin busy

=============================================================================
