----------------------------- MODULE MsgStream -----------------------------
(***************************************************************************)
(* What a connected pair of nng pipes promises to the protocol (the pipe   *)
(* operations of sp/transport.h): whole messages, in order, each at most   *)
(* once, none that is larger than the receiver accepts; and nothing after  *)
(* a loss.                                                                 *)
(***************************************************************************)
EXTENDS Integers, Sequences

CONSTANTS Messages, Fits(_)   \* a sequence of messages; whether one is accepted

VARIABLES sent,  \* how many messages the sending protocol has given away
          got    \* the messages the receiving protocol was given

Init == sent = 0 /\ got = <<>>

Put == /\ sent < Len(Messages)
       /\ sent' = sent + 1
       /\ UNCHANGED got

Get == /\ Len(got) < sent
       /\ Fits(Messages[Len(got) + 1])
       /\ got' = Append(got, Messages[Len(got) + 1])
       /\ UNCHANGED sent

Spec == Init /\ [][Put \/ Get]_<<sent, got>>
=============================================================================
