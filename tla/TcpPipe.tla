------------------------------ MODULE TcpPipe ------------------------------
(***************************************************************************)
(* One direction of a pair of connected TCP pipes: the send side of one    *)
(* tcptran_pipe, the receive side of the other (sp/transport/tcp/tcp.c).   *)
(*                                                                         *)
(* A message is sent as its length and its bytes.  The connection takes    *)
(* and gives any part of what is asked (platform/posix/posix_tcpconn.c);   *)
(* the callback of the part submits the rest.  The receiver reads exactly  *)
(* one length, and then exactly as many bytes.  The protocol has one send  *)
(* and one receive operation on a pipe, as all of nng's protocols do.      *)
(*                                                                         *)
(* Either end is closed in the order of nni_pipe_close and pipe_destroy:   *)
(* the operations of the protocol, the flag, the operations on the         *)
(* connection and the connection itself; then the reaper waits for the     *)
(* operation of the protocol.  In between the callbacks run.               *)
(***************************************************************************)
EXTENDS Integers, Sequences, FiniteSets

CONSTANTS Sizes,     \* the bodies of the messages to send
          LenBytes,      \* bytes of a length (8 in the code)
          Room,      \* bound: bytes the connection holds
          RcvMax,    \* NNG_OPT_RECVMAXSZ; 0 is no limit
          Faults    \* whether the ends may be closed

PipeAssumption ==
  /\ Sizes \in Seq(Nat) /\ RcvMax \in Nat
  /\ {LenBytes, Room} \subseteq Nat \ {0}
  /\ Faults \in BOOLEAN

Ends == {"snd", "rcv"}

VARIABLES
  user,    \* the operation of the protocol: "idle", "queued", "ok", "error"
  aio,     \* txaio of the sender, rxaio of the receiver
  phase,   \* of the close: 0 open, 1 protocol, 2 flag, 3 aios and connection, 4 reaped
  left,    \* what txaio has still to write
  want,    \* how many bytes rxaio has still to read
  rxlen, rxmsg,  \* what the receiver has of the length, of the message
  stream,  \* bytes under way
  broken,  \* the connection has failed
  sent, got  \* history: messages given away, and received

vars == <<user, aio, phase, left, want, rxlen, rxmsg, stream, broken, sent, got>>

NoMsg == <<<<0, 0>>>>   \* no byte of any message

Init == /\ user = [e \in Ends |-> "idle"]
        /\ aio = [e \in Ends |-> "idle"]
        /\ phase = [e \in Ends |-> 0]
        /\ left = <<>> /\ want = 0 /\ rxlen = <<>> /\ rxmsg = NoMsg
        /\ stream = <<>> /\ broken = FALSE
        /\ sent = 0 /\ got = <<>>

\* a message as it is written: every byte knows its message and its place
Bytes(n) == [k \in 1 .. LenBytes + Sizes[n] |-> <<n, k>>]
Body(n) == SubSeq(Bytes(n), LenBytes + 1, LenBytes + Sizes[n])

First(s, n) == SubSeq(s, 1, n)
Rest(s, n) == SubSeq(s, n + 1, Len(s))
Until(n) == 1 .. n

\* nni_aio_begin on an operation that was closed fails, and nothing else happens
Begun(e) == IF phase[e] >= 3 THEN "idle" ELSE "pending"
-----------------------------------------------------------------------------
(* Sending. *)

\* nni_pipe_send: tcptran_pipe_send, tcptran_pipe_send_start
Send ==
  /\ user["snd"] = "idle" /\ phase["snd"] = 0 /\ sent < Len(Sizes)
  /\ user' = [user EXCEPT !["snd"] = "queued"]
  /\ left' = Bytes(sent + 1)
  /\ aio' = [aio EXCEPT !["snd"] = Begun("snd")]
  /\ sent' = sent + 1
  /\ UNCHANGED <<phase, want, rxlen, rxmsg, stream, broken, got>>

\* tcp_dowrite: some of it is written
Write ==
  /\ aio["snd"] = "pending" /\ ~broken
  /\ \E n \in Until(Len(left)) :
       /\ Len(stream) + n <= Room
       /\ stream' = stream \o First(left, n)
       /\ left' = Rest(left, n)
  /\ aio' = [aio EXCEPT !["snd"] = "part"]
  /\ UNCHANGED <<user, phase, want, rxlen, rxmsg, broken, sent, got>>

\* tcptran_pipe_send_cb: an error, the rest, the end
SendCb ==
  /\ aio["snd"] \in {"part", "error"}
  /\ IF aio["snd"] = "part" /\ left # <<>>
     THEN /\ aio' = [aio EXCEPT !["snd"] = Begun("snd")]
          /\ UNCHANGED user
     ELSE /\ aio' = [aio EXCEPT !["snd"] = "idle"]
          /\ user' = [user EXCEPT !["snd"] = IF aio["snd"] = "error" THEN "error" ELSE "ok"]
  /\ UNCHANGED <<phase, left, want, rxlen, rxmsg, stream, broken, sent, got>>
-----------------------------------------------------------------------------
(* Receiving. *)

\* nni_pipe_recv: tcptran_pipe_recv, tcptran_pipe_recv_start
Recv ==
  /\ user["rcv"] = "idle" /\ phase["rcv"] = 0
  /\ user' = [user EXCEPT !["rcv"] = "queued"]
  /\ aio' = [aio EXCEPT !["rcv"] = Begun("rcv")]
  /\ want' = LenBytes /\ rxlen' = <<>>
  /\ UNCHANGED <<phase, left, rxmsg, stream, broken, sent, got>>

\* tcp_doread: some of what is there is read, also after the other end has closed
Read ==
  /\ aio["rcv"] = "pending"
  /\ \E n \in Until(want) :
       /\ n <= Len(stream)
       /\ want' = want - n
       /\ stream' = Rest(stream, n)
       /\ IF rxmsg = NoMsg
          THEN rxlen' = rxlen \o First(stream, n) /\ UNCHANGED rxmsg
          ELSE rxmsg' = rxmsg \o First(stream, n) /\ UNCHANGED rxlen
  /\ aio' = [aio EXCEPT !["rcv"] = "part"]
  /\ UNCHANGED <<user, phase, left, broken, sent, got>>

\* tcptran_pipe_recv_cb at recv_error
RecvFailed ==
  /\ aio' = [aio EXCEPT !["rcv"] = "idle"]
  /\ user' = [user EXCEPT !["rcv"] = "error"]
  /\ rxmsg' = NoMsg
  /\ UNCHANGED <<want, got>>

RecvMore ==
  /\ aio' = [aio EXCEPT !["rcv"] = Begun("rcv")]
  /\ UNCHANGED <<user, want, rxmsg, got>>

\* the whole message is there
RecvDone(msg) ==
  /\ aio' = [aio EXCEPT !["rcv"] = "idle"]
  /\ user' = [user EXCEPT !["rcv"] = "ok"]
  /\ rxmsg' = NoMsg
  /\ got' = Append(got, msg)
  /\ UNCHANGED want

\* what the length says: the size of the message whose bytes it is made of
Length == Sizes[rxlen[1][1]]

TooBig(n) == RcvMax > 0 /\ n > RcvMax

RecvBody ==
  /\ aio' = [aio EXCEPT !["rcv"] = Begun("rcv")]
  /\ rxmsg' = <<>>
  /\ want' = Length
  /\ UNCHANGED <<user, got>>

\* Mutant: takes a part of the body for all of it.
RecvCb_Short ==
  /\ aio["rcv"] \in {"part", "error"}
  /\ IF aio["rcv"] = "error" THEN RecvFailed
     ELSE IF rxmsg # NoMsg THEN RecvDone(rxmsg)
     ELSE IF want > 0 THEN RecvMore
     ELSE IF TooBig(Length) THEN RecvFailed
     ELSE IF Length = 0 THEN RecvDone(<<>>)
     ELSE RecvBody
  /\ UNCHANGED <<phase, left, rxlen, stream, broken, sent>>

\* Mutant: an empty message is read like any other.
RecvCb_Empty ==
  /\ aio["rcv"] \in {"part", "error"}
  /\ IF aio["rcv"] = "error" THEN RecvFailed
     ELSE IF want > 0 THEN RecvMore
     ELSE IF rxmsg # NoMsg THEN RecvDone(rxmsg)
     ELSE IF TooBig(Length) THEN RecvFailed
     ELSE RecvBody
  /\ UNCHANGED <<phase, left, rxlen, stream, broken, sent>>

\* tcptran_pipe_recv_cb
RecvCb ==
  /\ aio["rcv"] \in {"part", "error"}
  /\ IF aio["rcv"] = "error" THEN RecvFailed
     ELSE IF want > 0 THEN RecvMore
     ELSE IF rxmsg # NoMsg THEN RecvDone(rxmsg)
     ELSE IF TooBig(Length) THEN RecvFailed
     ELSE \/ Length = 0 /\ RecvDone(<<>>)
          \/ Length > 0 /\ RecvBody
          \/ Faults /\ RecvFailed   \* nni_msg_alloc
  /\ UNCHANGED <<phase, left, rxlen, stream, broken, sent>>
-----------------------------------------------------------------------------
(* The protocol, and the end of the pipes. *)

\* the callback of the protocol, which goes on unless it failed
UserCb(e) ==
  /\ user[e] = "ok"
  /\ user' = [user EXCEPT ![e] = "idle"]
  /\ UNCHANGED <<aio, phase, left, want, rxlen, rxmsg, stream, broken, sent, got>>

\* the poller finds the connection gone, or the read or the write fails
Break ==
  /\ Faults /\ ~broken
  /\ broken' = TRUE
  /\ UNCHANGED <<user, aio, phase, left, want, rxlen, rxmsg, stream, sent, got>>

Fails(e) ==
  /\ broken /\ aio[e] = "pending"
  /\ aio' = [aio EXCEPT ![e] = "error"]
  /\ UNCHANGED <<user, phase, left, want, rxlen, rxmsg, stream, broken, sent, got>>

Aborted(x) == IF x = "pending" THEN "error" ELSE x

\* the protocol's pipe_close: nni_aio_close of its operation, whose cancel function
\* (tcptran_pipe_send_cancel, tcptran_pipe_recv_cancel) aborts the one on the connection
ProtoClose(e) ==
  /\ phase[e] = 0
  /\ Faults \/ user[e] = "error"
  /\ phase' = [phase EXCEPT ![e] = 1]
  /\ aio' = [aio EXCEPT ![e] = IF user[e] = "queued" THEN Aborted(@) ELSE @]
  /\ UNCHANGED <<user, left, want, rxlen, rxmsg, stream, broken, sent, got>>

\* tcptran_pipe_close: the flag
FlagClose(e) ==
  /\ phase[e] = 1
  /\ phase' = [phase EXCEPT ![e] = 2]
  /\ UNCHANGED <<user, aio, left, want, rxlen, rxmsg, stream, broken, sent, got>>

\* its operations on the connection, and the connection
ConnClose(e) ==
  /\ phase[e] = 2
  /\ phase' = [phase EXCEPT ![e] = 3]
  /\ aio' = [aio EXCEPT ![e] = Aborted(@)]
  /\ broken' = TRUE
  /\ UNCHANGED <<user, left, want, rxlen, rxmsg, stream, sent, got>>

\* pipe_destroy: nni_aio_stop in the protocol's pipe_stop waits for the operation
Reaped(e) ==
  /\ phase[e] = 3 /\ user[e] \in {"idle", "error"} /\ aio[e] = "idle"
  /\ phase' = [phase EXCEPT ![e] = 4]
  /\ UNCHANGED <<user, aio, left, want, rxlen, rxmsg, stream, broken, sent, got>>
-----------------------------------------------------------------------------
Tran(e) == ProtoClose(e) \/ FlagClose(e) \/ ConnClose(e) \/ Reaped(e)

Next == \/ Send \/ Write \/ SendCb \/ Recv \/ Read \/ RecvCb \/ Break
        \/ \E e \in Ends : UserCb(e) \/ Fails(e) \/ Tran(e)

Spec == Init /\ [][Next]_vars

\* callbacks are run, the connection moves bytes as long as it is there, the protocol
\* goes on and closes a pipe that failed, and a close that was begun is finished
MoveKinds == {"sends", "writes", "sent", "receives", "reads", "received"}
FairMove(k) == \/ k = "sends" /\ Send
               \/ k = "writes" /\ Write
               \/ k = "sent" /\ SendCb
               \/ k = "receives" /\ Recv
               \/ k = "reads" /\ Read
               \/ k = "received" /\ RecvCb
EndKinds == {"called back", "fails", "closes", "flagged", "closed", "reaped"}
FairEnd(k, e) == \/ k = "called back" /\ UserCb(e)
                 \/ k = "fails" /\ Fails(e)
                 \/ k = "closes" /\ user[e] = "error" /\ ProtoClose(e)
                 \/ k = "flagged" /\ FlagClose(e)
                 \/ k = "closed" /\ ConnClose(e)
                 \/ k = "reaped" /\ Reaped(e)

FairSpec == /\ Spec
            /\ \A k \in MoveKinds : WF_vars(FairMove(k))
            /\ \A k \in EndKinds, e \in Ends : WF_vars(FairEnd(k, e))

-----------------------------------------------------------------------------
(* Properties. *)

Byte == UNION {{n} \X (1 .. LenBytes + Sizes[n]) : n \in 1 .. Len(Sizes)}

\* Every variable has one of its values.
TypeOK ==
  /\ user \in [Ends -> {"idle", "queued", "ok", "error"}]
  /\ aio \in [Ends -> {"idle", "pending", "part", "error"}]
  /\ phase \in [Ends -> 0 .. 4]
  /\ want \in Nat /\ sent \in 0 .. Len(Sizes) /\ broken \in BOOLEAN
  /\ rxmsg \in {NoMsg} \cup Seq(Byte) /\ rxlen \in Seq(Byte)
  /\ left \in Seq(Byte) /\ stream \in Seq(Byte) /\ Len(stream) <= Room

\* The messages as the receiver should see them.
Whole == [n \in 1 .. Len(Sizes) |-> Body(n)]

Channel == INSTANCE MsgStream WITH
  Messages <- Whole, Fits <- LAMBDA msg : RcvMax = 0 \/ Len(msg) <= RcvMax

\* Whatever the pieces, the receiver is given whole messages, in order, each once, and
\* never one beyond RcvMax: the pipes are a MsgStream.
IsChannel == Channel!Spec

\* Between the parts of one message and the parts of the next no byte is lost: what the
\* receiver lacks of the message it reads is what comes first of the bytes under way.
Aligned ==
  user["rcv"] = "queued" /\ want > 0 /\ stream # <<>> /\ aio["rcv"] # "error" =>
    stream[1] = IF rxmsg = NoMsg THEN <<Len(got) + 1, Len(rxlen) + 1>>
                ELSE <<Len(got) + 1, LenBytes + Len(rxmsg) + 1>>

\* All that can be received is, when nobody closes and the connection holds: up to the
\* first message that is too big.
Arrived ==
  \/ Len(got) = Len(Sizes) \/ broken
  \/ TooBig(Sizes[Len(got) + 1]) /\ user["rcv"] = "error"

Arrives == []<>Arrived

\* "The callback on the rxaio will cause the user aio to be canceled too" (tcp.c): when a
\* pipe is closed the operation of the protocol ends, and the reaper goes on.
CloseEnds == \A e \in Ends : []<>(phase[e] \in {0, 4})

\* the operation of the protocol waits for a callback nobody will run
Stranded(e) == phase[e] = 3 /\ user[e] = "queued" /\ aio[e] = "idle"

\* ... unless the close came between two parts.
CloseEndsOrStrands == \A e \in Ends : []<>(phase[e] \in {0, 4} \/ Stranded(e))

\* No byte is lost between the parts of messages, and every field has its type.
BytesSound == TypeOK /\ Aligned

=============================================================================
