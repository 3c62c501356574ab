-------------------------------- MODULE NngState --------------------------------
(***************************************************************************)
(* The variables of the parts of nng, for the modules that check them side *)
(* by side: part says which one a behaviour is about, the others stay as   *)
(* they begin.  Names that two components use are told apart here and put  *)
(* together again by INSTANCE ... WITH.  Those of NniAio are AioState's,   *)
(* those of ReqSocket and RepSocket are ReqRep's, PollQueue's PollState's, *)
(* those of Endpoints EndpointState's.                                     *)
(***************************************************************************)
EXTENDS AioState, ReqRep, PollState, EndpointState

VARIABLES
  part,
  \* TcpTransport
  tranEp, useraio, connaio, timeaio, tranPipe, waitpipes, core,
  \* TcpPipe
  pipeUser, aio, phase, left, want, rxlen, rxmsg, stream, broken, sent, got

aioVars == <<a_stop, a_cancel_fn, a_expire, a_expiring, eq_list, batch, expirer,
             task_busy, task_prep, tq_tasks, running, owned, begun, listed, finishing,
             cancelling, stopper, freer, ops, calls, aborts, refused, ended>>
repVars == <<ctx, open, recvq, recvpipes, up, receiving, aio_recv, busy, sendq, readable,
             writable, arrived, replied>>
endpointVars == <<sock, ep, pipe, cb, reap, user, closer, holder>>
tranVars == <<tranEp, useraio, connaio, timeaio, tranPipe, waitpipes, core>>
pipeVars == <<pipeUser, aio, phase, left, want, rxlen, rxmsg, stream, broken, sent, got>>

nngVars == <<part, aioVars, reqVars, repVars, endpointVars, tranVars, pipeVars, pollVars>>

AioMoves == UNCHANGED <<part, reqVars, repVars, endpointVars, tranVars, pipeVars, pollVars>>
ReqMoves == UNCHANGED <<part, aioVars, repVars, endpointVars, tranVars, pipeVars, pollVars>>
RepMoves == UNCHANGED <<part, aioVars, reqVars, endpointVars, tranVars, pipeVars, pollVars>>
EndpointsMove == UNCHANGED <<part, aioVars, reqVars, repVars, tranVars, pipeVars, pollVars>>
TranMoves == UNCHANGED <<part, aioVars, reqVars, repVars, endpointVars, pipeVars, pollVars>>
PipeMoves == UNCHANGED <<part, aioVars, reqVars, repVars, endpointVars, tranVars, pollVars>>
PollMoves == UNCHANGED <<part, aioVars, reqVars, repVars, endpointVars, tranVars, pipeVars>>
===============================================================================
