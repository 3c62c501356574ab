------------------------------- MODULE MCNngLive -------------------------------
(***************************************************************************)
(* Small instances of the parts of nng for TLC, liveness: see NngState.    *)
(* The fairness of a component holds of the behaviours that are about it;  *)
(* what is fair and why is said in its module (Fair).                      *)
(***************************************************************************)
EXTENDS NngState, Integers, Sequences, FiniteSets

CONSTANT None

Aio == INSTANCE NniAio

(* A request that is repeated on two pipes; two contexts that take turns   *)
(* at one.                                                                 *)
Repeats == INSTANCE ReqSocket WITH
  Contexts <- {"m"}, Master <- "m", NoRetry <- {}, Pipes <- {"x", "y"}, MaxSends <- 1,
  MaxLosses <- 1
Turns == INSTANCE ReqSocket WITH
  Contexts <- {"m", "c"}, Master <- "m", NoRetry <- {"c"}, Pipes <- {"x"}, MaxSends <- 2,
  MaxLosses <- 0

Rep == INSTANCE RepSocket

(* A thread that closes a dialer; one that dials and may block.            *)
Closes == INSTANCE Endpoints WITH
  Dialers <- {"d"}, Listeners <- {}, Closers <- {"c1"}, Pipes <- {"p1", "p2"},
  Blocking <- {FALSE}, Faults <- {"peer"}
Calls == INSTANCE Endpoints WITH
  Dialers <- {"d"}, Listeners <- {}, Closers <- {}, Pipes <- {"p1", "p2"},
  Blocking <- BOOLEAN, Faults <- {"peer"}

Accepting == INSTANCE TcpTransport WITH
  Conns <- {"x", "y"}, Listening <- TRUE, Errors <- {"reset"}, ep <- tranEp, pipe <- tranPipe
Dialing == INSTANCE TcpTransport WITH
  Conns <- {"x", "y"}, Listening <- FALSE, Errors <- {"reset"}, ep <- tranEp, pipe <- tranPipe

(* A message without a body and one beyond RCVMAXSZ; a close.              *)
Pipe == INSTANCE TcpPipe WITH
  Sizes <- <<2, 0, 3>>, LenBytes <- 2, Room <- 3, RcvMax <- 2, Faults <- FALSE, user <- pipeUser
Closed == INSTANCE TcpPipe WITH
  Sizes <- <<1>>, LenBytes <- 2, Room <- 3, RcvMax <- 2, Faults <- TRUE, user <- pipeUser

Poll == INSTANCE PollQueue

Parts == {"aio", "repeats", "turns", "rep", "closes", "calls", "accepting", "dialing",
          "pipe", "closed", "poll"}

Init ==
  /\ part \in Parts
  /\ IF part = "repeats" THEN Repeats!Init ELSE Turns!Init
  /\ Aio!Init /\ Rep!Init /\ Closes!Init /\ Accepting!Init
  /\ Pipe!Init /\ Poll!Init

Next ==
  \/ part = "aio" /\ Aio!Next /\ AioMoves
  \/ part = "repeats" /\ Repeats!Next /\ ReqMoves
  \/ part = "turns" /\ Turns!Next /\ ReqMoves
  \/ part = "rep" /\ Rep!Next /\ RepMoves
  \/ part = "closes" /\ Closes!Next /\ EndpointsMove
  \/ part = "calls" /\ Calls!Next /\ EndpointsMove
  \/ part = "accepting" /\ Accepting!Next /\ TranMoves
  \/ part = "dialing" /\ Dialing!Next /\ TranMoves
  \/ part = "pipe" /\ Pipe!Next /\ PipeMoves
  \/ part = "closed" /\ Closed!Next /\ PipeMoves
  \/ part = "poll" /\ Poll!Next /\ PollMoves

(* A step of the part named, as its module says it is fair.  A behaviour   *)
(* is about one part, so one fair action can stand for two parts' actions. *)
ReqPipe(k, p) ==
  \/ part = "repeats" /\ Repeats!FairPipe(k, p)
  \/ part = "turns" /\ p = "x" /\ Turns!FairPipe(k, p)
ReqReply(k, p, i) ==
  \/ part = "repeats" /\ i = 1 /\ Repeats!FairReply(k, <<p, i>>)
  \/ part = "turns" /\ p = "x" /\ Turns!FairReply(k, <<p, i>>)
ReqContext(k, c) ==
  \/ part = "repeats" /\ c = "m" /\ Repeats!FairContext(k, c)
  \/ part = "turns" /\ Turns!FairContext(k, c)
\* "c" never retries, so it has no timer
ReqFires ==
  \/ part = "repeats" /\ Repeats!Fires("m")
  \/ part = "turns" /\ Turns!Fires("m")
RepPipe(k, p) == part = "rep" /\ Rep!FairPipe(k, p)
RepContext(k, c) == part = "rep" /\ Rep!FairContext(k, c)
EndpointStep(k) ==
  \/ part = "closes" /\ Closes!Fair(k, "d")
  \/ part = "calls" /\ Calls!Fair(k, "d")
EndpointHolder(u) ==
  \/ part = "closes" /\ Closes!Holder(u)
  \/ part = "calls" /\ Calls!Holder(u)
TranStep(k) ==
  \/ part = "accepting" /\ Accepting!FairEndpoint(k)
  \/ part = "dialing" /\ Dialing!FairEndpoint(k)
TranConn(k, c) ==
  \/ part = "accepting" /\ Accepting!FairConn(k, c)
  \/ part = "dialing" /\ Dialing!FairConn(k, c)
PipeStep(k) ==
  \/ part = "pipe" /\ Pipe!FairMove(k)
  \/ part = "closed" /\ Closed!FairMove(k)
PipeEnd(k, e) ==
  \/ part = "pipe" /\ Pipe!FairEnd(k, e)
  \/ part = "closed" /\ Closed!FairEnd(k, e)

Fairness ==
  /\ \A k \in Aio!FairKinds : WF_aioVars(part = "aio" /\ Aio!Fair(k, "x"))
  /\ \A p \in {"x", "y"} :
       /\ \A k \in Repeats!PipeKinds : WF_reqVars(ReqPipe(k, p))
       /\ \A k \in Repeats!ReplyKinds, i \in {1, 2} : WF_reqVars(ReqReply(k, p, i))
  /\ \A k \in Repeats!ContextKinds, c \in {"m", "c"} : WF_reqVars(ReqContext(k, c))
  /\ SF_reqVars(ReqFires)
  /\ \A k \in {"received", "sent"}, p \in {"x", "y"} : WF_repVars(RepPipe(k, p))
  /\ \A k \in {"receives", "answers"}, c \in {"m", "c"} : WF_repVars(RepContext(k, c))
  /\ \A k \in Closes!FairKinds : WF_endpointVars(EndpointStep(k))
  /\ \A u \in Closes!Users : WF_endpointVars(EndpointHolder(u))
  /\ WF_endpointVars(part = "closes" /\ Closes!Closing("c1"))
  /\ \A k \in Dialing!EndpointKinds : WF_tranVars(TranStep(k))
  /\ \A k \in Dialing!ConnKinds, c \in {"x", "y"} : WF_tranVars(TranConn(k, c))
  /\ \A k \in Pipe!MoveKinds : WF_pipeVars(PipeStep(k))
  /\ \A k \in Pipe!EndKinds, e \in Pipe!Ends : WF_pipeVars(PipeEnd(k, e))
  /\ WF_pollVars(part = "poll" /\ Poll!PollThread)
  /\ WF_pollVars(part = "poll" /\ Poll!Reaper)

Spec == Init /\ [][Next]_nngVars /\ Fairness

-----------------------------------------------------------------------------
(* Properties.  A part that is at rest satisfies them, so only the         *)
(* properties of instances that share variables say which one they mean.   *)

(* Whatever the provider does: an operation with a deadline ends, and a    *)
(* stop and a free of an aio return (core/aio.c).                          *)
AioEnds == Aio!StopReturns /\ Aio!FiniReturns /\ Aio!DeadlineEnds

(* A request that may be repeated is answered or given up although pipes   *)
(* end and peers lose it, contexts get their turn at the pipes, and a      *)
(* server's contexts take every request and rid themselves of every reply. *)
SocketsGoOn ==
  /\ []<>(part = "repeats" => ~Repeats!Receiving("m"))
  /\ \A c \in {"m", "c"} : []<>(part = "turns" => ~Turns!Sending(c))
  /\ Rep!RequestIsTaken /\ Rep!ReplyEnds

(* nng_close returns however threads, callbacks and the reaper run; so do  *)
(* nng_dial and nng_listen while nobody closes the socket.                 *)
EndpointsReturn ==
  /\ Closes!CloseReturns
  /\ \A u \in Calls!Users : []<>(part = "calls" => Calls!Returned(u))

(* Every client whose handshake was right is served, every attempt to      *)
(* connect ends, what fits through the pipe arrives, and a close of        *)
(* endpoint or pipe ends unless it met one of the two named windows.       *)
TransportDelivers ==
  /\ Accepting!ClientServed /\ Accepting!FreedUnlessStranded
  /\ []<>(part = "dialing" => useraio # "pending")
  /\ []<>(part = "pipe" => Pipe!Arrived)
  /\ Closed!CloseEndsOrStrands

(* An operation that the kernel could do is done, and the reaper never     *)
(* waits for the poller for ever.                                          *)
PollServes == Poll!FiniReturns /\ Poll!Served
===============================================================================
