---------------------------------- MODULE ReqRep ----------------------------------
(***************************************************************************)
(* The contexts and pipes of the sockets of nng that request and of those  *)
(* that reply (sp/protocol/reqrep0), and what is promised about them.      *)
(* ReqSocket says how req.c keeps it, RepSocket how rep.c does.  A request *)
(* is a number, and its reply carries the same one.                        *)
(***************************************************************************)
EXTENDS Integers, Sequences, FiniteSets

CONSTANTS
  Contexts,
  Master,      \* the context of the socket, the only one with pollables
  Pipes,
  Nobody,      \* no context and no pipe
  NoRetry,     \* requesting contexts whose NNG_OPT_REQ_RESENDTIME is not positive
  MaxSends,    \* bound: requests made
  MaxLosses,   \* bound: requesting pipes that close and messages their peers lose
  MaxRequests, \* bound: requests that arrive
  MaxEnds      \* bound: replying pipes that close

(* The requesting socket.                                                  *)
VARIABLES
  reqCtx,      \* the contexts
  reqOpen,     \* those that are not closed
  closed,      \* s->closed
  requests,    \* the contexts by request identifier
  send_queue,  \* contexts with a request that waits for a pipe
  ready_pipes,
  busy_pipes,
  reqUp,       \* "new", "up" or "down"
  aio_send,    \* the message a pipe sends, 0 for none
  written,     \* the pipes that have written it
  reqReadable,
  reqWritable,
  firing,      \* the context whose timeout has begun and waits for the lock
  heard,       \* what the peers have received, by pipe
  inbound,     \* replies on their way, by pipe
  \* history
  sends,       \* identifiers used
  losses,
  latest,      \* the latest request of each context
  given        \* the replies passed to the users, newest last

(* The replying socket.                                                    *)
VARIABLES
  ctx,        \* the contexts
  open,       \* those that are not closed
  recvq,      \* contexts that wait for a request
  recvpipes,  \* pipes with a request that nobody waits for
  up,         \* "new", "up" or "down"
  receiving,  \* the pipes' aio_recv is under way
  aio_recv,   \* the request it holds, 0 for none
  busy,
  sendq,      \* contexts that wait for the pipe
  readable,
  writable,
  \* history
  arrived,    \* the pipe each request came from
  replied     \* the replies given to pipes: <<pipe, request>>

queues == <<requests, send_queue>>
reqPipes == <<ready_pipes, busy_pipes, reqUp, aio_send, written, reqWritable>>
peers == <<heard, inbound, losses>>
reqVars == <<reqCtx, reqOpen, closed, queues, reqPipes, reqReadable, firing, peers, sends,
             latest, given>>

Members(s) == {s[i] : i \in DOMAIN s}

-----------------------------------------------------------------------------
(* The requesting socket.                                                  *)

RequestIds == 1..MaxSends
Retries(c) == c \notin NoRetry

(* The types of the variables.                                             *)
ReqTypeOK ==
  /\ reqCtx \in [Contexts -> [request_id : 0..MaxSends, req_msg : BOOLEAN, send_aio : BOOLEAN,
                              recv_aio : BOOLEAN, rep_msg : 0..MaxSends, timer : BOOLEAN,
                              pipe : Pipes \cup {Nobody}, conn_reset : BOOLEAN]]
  /\ reqOpen \subseteq Contexts /\ closed \in BOOLEAN
  /\ requests \in [RequestIds -> Contexts \cup {Nobody}]
  /\ send_queue \in Seq(Contexts) /\ reqUp \in [Pipes -> {"new", "up", "down"}]
  /\ ready_pipes \in Seq(Pipes) /\ busy_pipes \subseteq Pipes
  /\ aio_send \in [Pipes -> 0..MaxSends] /\ written \subseteq Pipes
  /\ reqReadable \in BOOLEAN /\ reqWritable \in BOOLEAN
  /\ firing \in Contexts \cup {Nobody}
  /\ heard \subseteq Pipes \X RequestIds /\ inbound \subseteq Pipes \X RequestIds
  /\ sends \in 0..MaxSends /\ losses \in 0..MaxLosses
  /\ latest \in [Contexts -> 0..MaxSends] /\ given \in Seq(Contexts \X RequestIds)

(* However requests are repeated and replies delayed, what a user receives *)
(* answers the request the context made last and did not give up, and no   *)
(* reply is received twice (req0_ctx_reset, req0_recv_cb).                 *)
OwnReplyOnce ==
  [][\A i \in DOMAIN given' \ DOMAIN given :
       /\ given'[i][2] = latest[given'[i][1]]
       /\ \A j \in DOMAIN given : given[j][2] # given'[i][2]]_reqVars

(* The context that is found by an identifier is waiting for its reply: it *)
(* has that identifier and still its message (req0_recv_cb frees it).      *)
FoundIsWaiting ==
  \A i \in RequestIds : requests[i] # Nobody =>
    /\ reqCtx[requests[i]].request_id = i
    /\ reqCtx[requests[i]].req_msg /\ reqCtx[requests[i]].rep_msg = 0

(* A request is never forgotten while its context may repeat it: it waits  *)
(* for a pipe, or the timer that will repeat it runs or has just run out.  *)
(* One that is not to be repeated is on the list of a pipe whose end it    *)
(* will hear of.  And its reply will be recognised.                        *)
NeverForgotten ==
  ~closed => \A c \in Contexts : reqCtx[c].req_msg =>
    /\ requests[reqCtx[c].request_id] = c
    /\ \/ c \in Members(send_queue)
       \/ Retries(c) /\ (reqCtx[c].timer \/ firing = c)
       \/ ~Retries(c) /\ reqCtx[c].pipe # Nobody /\ reqUp[reqCtx[c].pipe] = "up"

(* The queue holds contexts with a request, each once; a sender that was   *)
(* not told yet is in it, and it only waits while no pipe is ready.  A     *)
(* pipe is ready once or busy, and only a busy one sends a message         *)
(* (req0_run_send_queue takes all of this for granted).                    *)
QueueSound ==
  /\ \A i, j \in DOMAIN send_queue : send_queue[i] = send_queue[j] => i = j
  /\ \A c \in Members(send_queue) : reqCtx[c].req_msg
  /\ \A c \in Contexts : reqCtx[c].send_aio /\ reqCtx[c].req_msg => c \in Members(send_queue)
  /\ send_queue # <<>> => ready_pipes = <<>>
  /\ \A p \in Pipes : aio_send[p] # 0 => p \in busy_pipes
  /\ \A i, j \in DOMAIN ready_pipes : ready_pipes[i] = ready_pipes[j] => i = j
  /\ Members(ready_pipes) \cap busy_pipes = {}

(* The socket polls writable exactly while a request would be sent at once *)
(* (NNG_OPT_SENDFD).                                                       *)
PollsWritable == reqWritable <=> ready_pipes # <<>>

(* However pipes come and go, requests are repeated and replaced and the   *)
(* timer runs late, no request is forgotten, queued twice or found after   *)
(* its end, and no context is given a reply that is stale or given before  *)
(* (sp/protocol/reqrep0/req.c).                                            *)
ReqSound ==
  /\ [](ReqTypeOK /\ FoundIsWaiting /\ NeverForgotten /\ QueueSound /\ PollsWritable)
  /\ OwnReplyOnce

-----------------------------------------------------------------------------
(* The replying socket.                                                    *)

(* The types of the variables.                                             *)
RepTypeOK ==
  /\ ctx \in [Contexts -> [pipe_id : Pipes \cup {Nobody}, btrace : 0..MaxRequests,
                           saio : 0..MaxRequests, spipe : Pipes \cup {Nobody}, raio : BOOLEAN]]
  /\ open \subseteq Contexts
  /\ recvq \in Seq(Contexts) /\ recvpipes \in Seq(Pipes)
  /\ up \in [Pipes -> {"new", "up", "down"}] /\ receiving \subseteq Pipes
  /\ aio_recv \in [Pipes -> 0..MaxRequests]
  /\ busy \subseteq Pipes /\ sendq \in [Pipes -> Seq(Contexts)]
  /\ readable \in BOOLEAN /\ writable \in BOOLEAN
  /\ arrived \in Seq(Pipes) /\ Len(arrived) <= MaxRequests
  /\ replied \in Seq(Pipes \X (1..MaxRequests))

(* Every reply goes to the pipe its request came from, and no request is   *)
(* answered twice, whichever contexts share the pipe (rep0_ctx_send).      *)
RepliesGoBack ==
  /\ \A i \in DOMAIN replied : arrived[replied[i][2]] = replied[i][1]
  /\ \A i, j \in DOMAIN replied : replied[i][2] = replied[j][2] => i = j

(* No two places hold one request: a context to answer, a reply that       *)
(* waits, a pipe nobody received from.                                     *)
OneHolder ==
  \A r \in 1..MaxRequests :
    Cardinality({c \in Contexts : ctx[c].btrace = r})
      + Cardinality({c \in Contexts : ctx[c].saio = r})
      + Cardinality({p \in Pipes : aio_recv[p] = r})
      + Cardinality({i \in DOMAIN replied : replied[i][2] = r}) <= 1

(* A pipe never goes deaf: while it is up it receives, or holds a request  *)
(* that its callback or a receiver will take.                              *)
PipesListen ==
  /\ \A p \in Pipes : up[p] = "up" => (p \in receiving) # (aio_recv[p] # 0)
  /\ \A p \in Members(recvpipes) : up[p] = "up" /\ aio_recv[p] # 0

(* Requests and receivers do not wait for each other, nor replies for a    *)
(* pipe that is free or gone; and each waits in one place.                 *)
NobodyWaitsForNothing ==
  /\ recvq = <<>> \/ recvpipes = <<>>
  /\ \A p \in Pipes : sendq[p] # <<>> => p \in busy /\ up[p] = "up"
  /\ \A c \in Contexts : ctx[c].raio <=> c \in Members(recvq)
  /\ \A c \in Contexts : ctx[c].saio # 0 <=> \E p \in Pipes : c \in Members(sendq[p])

(* NNG_OPT_RECVFD and NNG_OPT_SENDFD do not miss anything: the socket      *)
(* polls readable while a pipe holds a request, and writable while a reply *)
(* of its own would be taken at once.                                      *)
PollsMissNothing ==
  /\ recvpipes # <<>> => readable
  /\ LET p == ctx[Master].pipe_id
     IN p # Nobody /\ (up[p] # "up" \/ p \notin busy) => writable

(* However contexts and pipes come and go, replies go back where their     *)
(* requests came from, once, and nothing that could go on waits            *)
(* (sp/protocol/reqrep0/rep.c).                                            *)
RepSound ==
  /\ RepTypeOK /\ RepliesGoBack /\ OneHolder /\ PipesListen
  /\ NobodyWaitsForNothing /\ PollsMissNothing

=============================================================================
