----------------------------- MODULE RepSocketProofs -----------------------------
(***************************************************************************)
(* Theorems about RepSocket, for any number of contexts, pipes and         *)
(* requests and any order of what users and transports do; and about       *)
(* TcpTransport, the endpoint that makes its pipes, for any number of      *)
(* connections.                                                            *)
(***************************************************************************)
EXTENDS RepSocket, SequenceTheorems, FiniteSetTheorems, TLAPS

CONSTANTS TcpConns, Listening, Errors
VARIABLES tranEp, useraio, connaio, timeaio, tranPipe, waitpipes, core

Tran == INSTANCE TcpTransport WITH Conns <- TcpConns, ep <- tranEp, pipe <- tranPipe

-----------------------------------------------------------------------------
(* The parts of the inductive invariant.                                   *)

Once(s) == \A i, j \in DOMAIN s : s[i] = s[j] => i = j

(* The contexts of recvq are those that wait for a request.                *)
ReceiversListed ==
  /\ Once(recvq)
  /\ \A c \in Contexts : ctx[c].raio <=> c \in Members(recvq)

(* Nobody waits for a request while one waits.                             *)
RequestsListed ==
  /\ Once(recvpipes)
  /\ recvq = <<>> \/ recvpipes = <<>>

(* The contexts of a sendq are those whose reply waits for its pipe, which *)
(* is busy.                                                                *)
SendersListed ==
  /\ \A p \in Pipes : Once(sendq[p])
  /\ \A p \in Pipes, c \in Contexts :
       c \in Members(sendq[p]) <=> ctx[c].saio # 0 /\ ctx[c].spipe = p
  /\ \A c \in Contexts : ctx[c].saio # 0 => ctx[c].spipe \in Pipes
  /\ \A p \in Pipes : sendq[p] # <<>> => p \in busy /\ up[p] = "up"

(* A pipe that receives is up and holds nothing, one that is up and does   *)
(* not receive holds a request, and so does one of recvpipes.              *)
PipesHeld ==
  /\ \A p \in receiving : up[p] = "up" /\ aio_recv[p] = 0
  /\ \A p \in Pipes : up[p] = "up" /\ p \notin receiving => aio_recv[p] # 0
  /\ \A p \in Pipes : up[p] = "new" => aio_recv[p] = 0
  /\ \A p \in Members(recvpipes) : up[p] = "up" /\ aio_recv[p] # 0

(* The places a request can be in before it is answered, what each holds,  *)
(* and the pipe that its reply would go to.                                *)
Spots == ({"answer", "queued"} \X Contexts) \cup ({"pipe"} \X Pipes)

HeldAt(s) ==
  CASE s[1] = "answer" -> ctx[s[2]].btrace
    [] s[1] = "queued" -> ctx[s[2]].saio
    [] s[1] = "pipe"   -> aio_recv[s[2]]

Home(s) ==
  CASE s[1] = "answer" -> ctx[s[2]].pipe_id
    [] s[1] = "queued" -> ctx[s[2]].spipe
    [] s[1] = "pipe"   -> s[2]

(* What is held or was answered has arrived, from where the reply goes.    *)
Origins ==
  /\ \A s \in Spots : HeldAt(s) # 0 =>
       HeldAt(s) \in DOMAIN arrived /\ arrived[HeldAt(s)] = Home(s)
  /\ \A i \in DOMAIN replied :
       replied[i][2] \in DOMAIN arrived /\ arrived[replied[i][2]] = replied[i][1]

(* No request is in two places, or in one after it was answered.           *)
HeldApart ==
  /\ \A s, t \in Spots : HeldAt(s) = HeldAt(t) /\ HeldAt(s) # 0 => s = t
  /\ \A s \in Spots, i \in DOMAIN replied : HeldAt(s) # 0 => HeldAt(s) # replied[i][2]
  /\ \A i, j \in DOMAIN replied : replied[i][2] = replied[j][2] => i = j

-----------------------------------------------------------------------------
(* Lists.                                                                  *)

LEMMA AppendFacts ==
  ASSUME NEW S, NEW s \in Seq(S), NEW x \in S
  PROVE  /\ Append(s, x) \in Seq(S) /\ Append(s, x) # <<>>
         /\ Members(Append(s, x)) = Members(s) \cup {x}
         /\ Once(s) /\ x \notin Members(s) => Once(Append(s, x))
<1> DEFINE t == Append(s, x)
<1>1. /\ t \in Seq(S) /\ Len(s) \in Nat /\ DOMAIN s = 1..Len(s) /\ DOMAIN t = 1..(Len(s) + 1)
      /\ \A i \in 1..Len(s) : t[i] = s[i]
      /\ t[Len(s) + 1] = x
  BY AppendProperties, LenProperties
<1>2. t # <<>>
  BY <1>1
<1> HIDE DEF t
<1>3. Members(t) = Members(s) \cup {x}
  <2>1. ASSUME NEW y \in Members(t) PROVE y \in Members(s) \cup {x}
    <3>1. PICK i \in DOMAIN t : y = t[i]
      BY <2>1 DEF Members
    <3>2. CASE i = Len(s) + 1
      BY <1>1, <3>1, <3>2
    <3>3. CASE i # Len(s) + 1
      <4>1. i \in 1..Len(s)
        BY <1>1, <3>3
      <4> QED
        BY <1>1, <3>1, <4>1 DEF Members
    <3> QED
      BY <3>2, <3>3
  <2>2. ASSUME NEW y \in Members(s) PROVE y \in Members(t)
    <3>1. PICK i \in DOMAIN s : y = s[i]
      BY <2>2 DEF Members
    <3>2. i \in DOMAIN t /\ t[i] = y
      BY <1>1, <3>1
    <3> QED
      BY <3>2 DEF Members
  <2>3. x \in Members(t)
    <3>1. Len(s) + 1 \in DOMAIN t
      BY <1>1
    <3> QED
      BY <1>1, <3>1 DEF Members
  <2> QED
    BY <2>1, <2>2, <2>3
<1>4. ASSUME Once(s), x \notin Members(s) PROVE Once(t)
  <2>1. \A i \in 1..Len(s) : t[i] # x
    BY <1>1, <1>4 DEF Members
  <2>2. \A i, j \in 1..Len(s) : t[i] = t[j] => i = j
    BY <1>1, <1>4 DEF Once
  <2>3. \A i \in 1..(Len(s) + 1) : i \in 1..Len(s) \/ i = Len(s) + 1
    BY <1>1
  <2> QED
    BY <1>1, <2>1, <2>2, <2>3 DEF Once
<1> QED
  BY <1>1, <1>2, <1>3, <1>4 DEF t

LEMMA TailFacts ==
  ASSUME NEW S, NEW s \in Seq(S), s # <<>>
  PROVE  /\ Tail(s) \in Seq(S) /\ Head(s) \in S /\ Head(s) \in Members(s)
         /\ Members(Tail(s)) \subseteq Members(s)
         /\ Once(s) => Once(Tail(s)) /\ Members(Tail(s)) = Members(s) \ {Head(s)}
<1> DEFINE t == Tail(s)
<1>1. /\ t \in Seq(S) /\ Len(s) \in Nat \ {0} /\ DOMAIN s = 1..Len(s) /\ DOMAIN t = 1..(Len(s) - 1)
      /\ \A i \in 1..(Len(s) - 1) : t[i] = s[i + 1]
      /\ Head(s) = s[1]
  BY HeadTailProperties, LenProperties, EmptySeq
<1> HIDE DEF t
<1>2. Head(s) \in S /\ Head(s) \in Members(s)
  <2>1. 1 \in DOMAIN s
    BY <1>1
  <2>2. s[1] \in S
    BY <2>1, ElementOfSeq, <1>1
  <2> QED
    BY <1>1, <2>1, <2>2 DEF Members
<1>3. \A i \in 1..(Len(s) - 1) : i + 1 \in DOMAIN s
  BY <1>1
<1>4. Members(t) \subseteq Members(s)
  BY <1>1, <1>3 DEF Members
<1>5. ASSUME Once(s) PROVE Once(t) /\ Members(t) = Members(s) \ {Head(s)}
  <2>1. Once(t)
    <3>1. ASSUME NEW i \in DOMAIN t, NEW j \in DOMAIN t, t[i] = t[j] PROVE i = j
      <4>1. i + 1 \in DOMAIN s /\ j + 1 \in DOMAIN s /\ s[i + 1] = s[j + 1]
        BY <1>1, <1>3, <3>1
      <4>2. i + 1 = j + 1
        BY <1>5, <4>1 DEF Once
      <4> QED
        BY <1>1, <4>2
    <3> QED
      BY <3>1 DEF Once
  <2>2. Head(s) \notin Members(t)
    <3>1. \A i \in 1..(Len(s) - 1) : i + 1 # 1 /\ 1 \in DOMAIN s
      BY <1>1
    <3>2. \A i \in 1..(Len(s) - 1) : s[i + 1] # s[1]
      BY <1>3, <1>5, <3>1 DEF Once
    <3> QED
      BY <1>1, <3>2 DEF Members
  <2>3. ASSUME NEW y \in Members(s), y # Head(s) PROVE y \in Members(t)
    <3>1. PICK i \in DOMAIN s : y = s[i]
      BY <2>3 DEF Members
    <3>2. i # 1
      BY <1>1, <2>3, <3>1
    <3>3. i - 1 \in 1..(Len(s) - 1) /\ (i - 1) + 1 = i
      BY <1>1, <3>2
    <3>4. t[i - 1] = y
      BY <1>1, <3>1, <3>3
    <3> QED
      BY <1>1, <3>3, <3>4 DEF Members
  <2> QED
    BY <1>4, <2>1, <2>2, <2>3
<1> QED
  BY <1>1, <1>2, <1>4, <1>5 DEF t

LEMMA RemoveAtFacts ==
  ASSUME NEW S, NEW s \in Seq(S), NEW i \in DOMAIN s
  PROVE /\ RemoveAt(s, i) \in Seq(S) /\ Len(RemoveAt(s, i)) = Len(s) - 1
        /\ \A k \in 1..(i - 1) : RemoveAt(s, i)[k] = s[k]
        /\ \A k \in i..(Len(s) - 1) : RemoveAt(s, i)[k] = s[k + 1]
<1>1. i \in 1..Len(s) /\ Len(s) \in Nat
  BY LenProperties
<1>2. /\ SubSeq(s, 1, i-1) \in Seq(S) /\ Len(SubSeq(s, 1, i-1)) = i - 1
      /\ \A k \in 1..(i - 1) : SubSeq(s, 1, i-1)[k] = s[k]
  BY <1>1, SubSeqProperties
<1>3. /\ SubSeq(s, i+1, Len(s)) \in Seq(S) /\ Len(SubSeq(s, i+1, Len(s))) = Len(s) - i
      /\ \A k \in 1..(Len(s) - i) : SubSeq(s, i+1, Len(s))[k] = s[k + i]
  BY <1>1, SubSeqProperties
<1> DEFINE a == SubSeq(s, 1, i-1)
           b == SubSeq(s, i+1, Len(s))
<1>4. RemoveAt(s, i) = a \o b
  BY DEF RemoveAt
<1> HIDE DEF a, b
<1>5. a \in Seq(S) /\ Len(a) = i - 1 /\ \A k \in 1..(i - 1) : a[k] = s[k]
  BY <1>2 DEF a
<1>6. b \in Seq(S) /\ Len(b) = Len(s) - i /\ \A k \in 1..(Len(s) - i) : b[k] = s[k + i]
  BY <1>3 DEF b
<1>7. /\ a \o b \in Seq(S) /\ Len(a \o b) = Len(a) + Len(b)
      /\ \A k \in 1..(Len(a) + Len(b)) : (a \o b)[k] = IF k <= Len(a) THEN a[k] ELSE b[k - Len(a)]
  BY <1>5, <1>6, ConcatProperties
<1>8. Len(a \o b) = Len(s) - 1
  BY <1>1, <1>5, <1>6, <1>7
<1>9. ASSUME NEW k \in 1..(i - 1) PROVE (a \o b)[k] = s[k]
  <2>1. k \in 1..(Len(a) + Len(b)) /\ k <= Len(a)
    BY <1>1, <1>5, <1>6
  <2> QED
    BY <1>5, <1>7, <2>1
<1>10. ASSUME NEW k \in i..(Len(s) - 1) PROVE (a \o b)[k] = s[k + 1]
  <2>1. /\ k \in 1..(Len(a) + Len(b)) /\ ~(k <= Len(a)) /\ k - Len(a) = k - (i - 1)
        /\ k - (i - 1) \in 1..(Len(s) - i) /\ (k - (i - 1)) + i = k + 1
    BY <1>1, <1>5, <1>6
  <2>2. (a \o b)[k] = b[k - (i - 1)]
    BY <1>7, <2>1
  <2> QED
    BY <1>6, <2>1, <2>2
<1> QED
  BY <1>4, <1>7, <1>8, <1>9, <1>10

LEMMA WithoutFacts ==
  ASSUME NEW S, NEW s \in Seq(S), NEW x
  PROVE  /\ Without(s, x) \in Seq(S) /\ Members(Without(s, x)) \subseteq Members(s)
         /\ Once(s) => Once(Without(s, x)) /\ Members(Without(s, x)) = Members(s) \ {x}
<1>1. CASE x \notin Members(s)
  BY <1>1 DEF Without
<1>2. CASE x \in Members(s)
  <2> DEFINE i == Position(s, x)
             t == RemoveAt(s, i)
  <2>1. i \in DOMAIN s /\ s[i] = x
    BY <1>2 DEF Position, Members
  <2>2. Without(s, x) = t
    BY <1>2 DEF Without
  <2> HIDE DEF i
  <2>3. /\ t \in Seq(S) /\ Len(t) = Len(s) - 1
        /\ \A k \in 1..(i - 1) : t[k] = s[k]
        /\ \A k \in i..(Len(s) - 1) : t[k] = s[k + 1]
    BY <2>1, RemoveAtFacts
  <2>4. Len(s) \in Nat /\ DOMAIN s = 1..Len(s) /\ DOMAIN t = 1..(Len(s) - 1) /\ i \in 1..Len(s)
    BY <2>1, <2>3, LenProperties
  <2> HIDE DEF t
  (* Where an entry of what is left was.                                   *)
  <2> DEFINE was(k) == IF k < i THEN k ELSE k + 1
  <2>5. ASSUME NEW k \in DOMAIN t PROVE was(k) \in DOMAIN s /\ was(k) # i /\ t[k] = s[was(k)]
    <3>1. CASE k < i
      <4>1. k \in 1..(i - 1) /\ k \in 1..Len(s) /\ k # i
        BY <2>4, <2>5, <3>1
      <4> QED
        BY <2>3, <2>4, <3>1, <4>1
    <3>2. CASE ~(k < i)
      <4>1. k \in i..(Len(s) - 1) /\ k + 1 \in 1..Len(s) /\ k + 1 # i
        BY <2>4, <2>5, <3>2
      <4> QED
        BY <2>3, <2>4, <3>2, <4>1
    <3> QED
      BY <3>1, <3>2
  <2>6. \A k, l \in DOMAIN t : was(k) = was(l) => k = l
    BY <2>4
  <2>7. ASSUME NEW j \in DOMAIN s, j # i PROVE \E k \in DOMAIN t : was(k) = j
    <3>1. CASE j < i
      <4>1. j \in DOMAIN t
        BY <2>4, <2>7, <3>1
      <4> QED
        BY <3>1, <4>1
    <3>2. CASE ~(j < i)
      <4>1. j - 1 \in DOMAIN t /\ ~(j - 1 < i) /\ (j - 1) + 1 = j
        BY <2>4, <2>7, <3>2
      <4> QED
        BY <4>1
    <3> QED
      BY <3>1, <3>2
  <2> HIDE DEF was
  <2>8. Members(t) \subseteq Members(s)
    BY <2>5 DEF Members
  <2>9. ASSUME Once(s) PROVE Once(t) /\ Members(t) = Members(s) \ {x}
    <3>1. Once(t)
      BY <2>5, <2>6, <2>9 DEF Once
    <3>2. x \notin Members(t)
      BY <2>1, <2>5, <2>9 DEF Once, Members
    <3>3. ASSUME NEW y \in Members(s), y # x PROVE y \in Members(t)
      <4>1. PICK j \in DOMAIN s : y = s[j]
        BY <3>3 DEF Members
      <4>2. PICK k \in DOMAIN t : was(k) = j
        BY <2>1, <2>7, <3>3, <4>1
      <4>3. t[k] = y
        BY <2>5, <4>1, <4>2
      <4> QED
        BY <4>3 DEF Members
    <3> QED
      BY <2>8, <3>1, <3>2, <3>3
  <2> QED
    BY <2>2, <2>3, <2>8, <2>9
<1> QED
  BY <1>1, <1>2

-----------------------------------------------------------------------------
(* What each action does to the contexts.                                  *)

Context == [pipe_id : Pipes \cup {Nobody}, btrace : 0..MaxRequests, saio : 0..MaxRequests,
            spipe : Pipes \cup {Nobody}, raio : BOOLEAN]

Becomes(c, pipe_id, btrace, saio, spipe, raio) ==
  /\ ctx' \in [Contexts -> Context]
  /\ ctx'[c].pipe_id = pipe_id /\ ctx'[c].btrace = btrace
  /\ ctx'[c].saio = saio /\ ctx'[c].spipe = spipe /\ ctx'[c].raio = raio
  /\ \A d \in Contexts \ {c} : ctx'[d] = ctx[d]

LEMMA ContextTypes ==
  ASSUME RepAssumption, RepTypeOK, NEW c \in Contexts
  PROVE  /\ 0 \in 0..MaxRequests /\ ctx \in [Contexts -> Context] /\ ctx[c] \in Context
         /\ ctx[c].pipe_id \in Pipes \cup {Nobody} /\ ctx[c].btrace \in 0..MaxRequests
         /\ ctx[c].saio \in 0..MaxRequests /\ ctx[c].spipe \in Pipes \cup {Nobody}
         /\ ctx[c].raio \in BOOLEAN
  BY DEF RepAssumption, RepTypeOK, Context

LEMMA BecomesFacts ==
  ASSUME RepAssumption, RepTypeOK, NEW c \in Contexts, NEW k \in Context,
         ctx' = [ctx EXCEPT ![c] = k]
  PROVE  Becomes(c, k.pipe_id, k.btrace, k.saio, k.spipe, k.raio)
<1>1. ctx \in [Contexts -> Context]
  BY ContextTypes
<1> QED
  BY <1>1 DEF Becomes

(* Context c waits; it takes the request of a pipe.                        *)
Waits(c) ==
  /\ Becomes(c, ctx[c].pipe_id, ctx[c].btrace, ctx[c].saio, ctx[c].spipe, TRUE)
  /\ ~ctx[c].raio
  /\ recvpipes = <<>> /\ recvpipes' = <<>> /\ recvq' = Append(recvq, c)
  /\ receiving' = receiving /\ aio_recv' = aio_recv
  /\ readable' = readable /\ writable' = writable

Takes(c, p, raio) ==
  /\ Becomes(c, p, aio_recv[p], ctx[c].saio, ctx[c].spipe, raio)
  /\ aio_recv' = [aio_recv EXCEPT ![p] = 0] /\ receiving' = receiving \cup {p}
  /\ writable' = (writable \/ (c = Master /\ p \notin busy))

LEMMA RecvFacts ==
  ASSUME RepAssumption, RepTypeOK, NEW c \in Contexts, Recv(c)
  PROVE  /\ UNCHANGED <<open, up, busy, sendq, arrived, replied>>
         /\ \/ Waits(c)
            \/ /\ recvpipes # <<>> /\ Head(recvpipes) \in Pipes
               /\ recvq' = recvq /\ recvpipes' = Tail(recvpipes)
               /\ readable' = (readable /\ Tail(recvpipes) # <<>>)
               /\ Takes(c, Head(recvpipes), ctx[c].raio)
<1>1. UNCHANGED <<open, up, busy, sendq, arrived, replied>>
  BY DEF Recv
<1>2. CASE recvpipes = <<>>
  <2> DEFINE k == [ctx[c] EXCEPT !.raio = TRUE]
  <2>1. /\ ~ctx[c].raio /\ recvq' = Append(recvq, c) /\ recvpipes' = recvpipes
        /\ receiving' = receiving /\ aio_recv' = aio_recv
        /\ readable' = readable /\ writable' = writable
        /\ ctx' = [ctx EXCEPT ![c] = k]
    BY <1>2 DEF Recv, MustWait, polls
  <2>2. /\ k \in Context /\ k.pipe_id = ctx[c].pipe_id /\ k.btrace = ctx[c].btrace
        /\ k.saio = ctx[c].saio /\ k.spipe = ctx[c].spipe /\ k.raio = TRUE
    BY ContextTypes DEF Context
  <2> HIDE DEF k
  <2>3. Becomes(c, k.pipe_id, k.btrace, k.saio, k.spipe, k.raio)
    BY <2>1, <2>2, BecomesFacts
  <2> QED
    BY <1>1, <1>2, <2>1, <2>2, <2>3 DEF Waits
<1>3. CASE recvpipes # <<>>
  <2> DEFINE p == Head(recvpipes)
             k == [ctx[c] EXCEPT !.btrace = aio_recv[p], !.pipe_id = p]
  <2>1. /\ ctx' = [ctx EXCEPT ![c] = k]
        /\ aio_recv' = [aio_recv EXCEPT ![p] = 0]
        /\ recvpipes' = Tail(recvpipes) /\ recvq' = recvq
        /\ readable' = (readable /\ Tail(recvpipes) # <<>>)
        /\ receiving' = receiving \cup {p}
        /\ writable' = (writable \/ (c = Master /\ p \notin busy))
    BY <1>3 DEF Recv, MustWait, Took, Emptied, StillReadable, ReceivesOn
  <2>2. p \in Pipes
    BY <1>3, TailFacts DEF RepTypeOK
  <2>3. aio_recv[p] \in 0..MaxRequests
    BY <2>2 DEF RepTypeOK
  <2> HIDE DEF p
  <2>4. /\ k \in Context /\ k.pipe_id = p /\ k.btrace = aio_recv[p]
        /\ k.saio = ctx[c].saio /\ k.spipe = ctx[c].spipe /\ k.raio = ctx[c].raio
    BY <2>2, <2>3, ContextTypes DEF Context
  <2> HIDE DEF k
  <2>5. Becomes(c, k.pipe_id, k.btrace, k.saio, k.spipe, k.raio)
    BY <2>1, <2>4, BecomesFacts
  <2>6. Takes(c, p, ctx[c].raio)
    BY <2>1, <2>4, <2>5 DEF Takes
  <2> QED
    BY <1>1, <1>3, <2>1, <2>2, <2>6 DEF p
<1> QED
  BY <1>2, <1>3

LEMMA CancelRecvFacts ==
  ASSUME RepAssumption, RepTypeOK, NEW c \in Contexts, CancelRecv(c)
  PROVE  /\ Becomes(c, ctx[c].pipe_id, ctx[c].btrace, ctx[c].saio, ctx[c].spipe, FALSE)
         /\ recvq' = Without(recvq, c)
         /\ UNCHANGED <<open, recvpipes, up, receiving, aio_recv, busy, sendq, readable,
                        writable, arrived, replied>>
<1> DEFINE k == [ctx[c] EXCEPT !.raio = FALSE]
<1>1. /\ k \in Context /\ k.pipe_id = ctx[c].pipe_id /\ k.btrace = ctx[c].btrace
      /\ k.saio = ctx[c].saio /\ k.spipe = ctx[c].spipe /\ k.raio = FALSE
  BY ContextTypes DEF Context
<1>2. ctx' = [ctx EXCEPT ![c] = k]
  BY DEF CancelRecv
<1> HIDE DEF k
<1>3. Becomes(c, k.pipe_id, k.btrace, k.saio, k.spipe, k.raio)
  BY <1>1, <1>2, BecomesFacts
<1> QED
  BY <1>1, <1>3 DEF CancelRecv, pipes, polls

(* A send ends without a reply, or gives it to the pipe, or waits for it.  *)
Drops(c) ==
  /\ Becomes(c, Nobody, 0, ctx[c].saio, ctx[c].spipe, ctx[c].raio)
  /\ busy' = busy /\ sendq' = sendq /\ replied' = replied

SendsOn(c, p) ==
  /\ Becomes(c, Nobody, 0, ctx[c].saio, ctx[c].spipe, ctx[c].raio)
  /\ busy' = busy \cup {p} /\ sendq' = sendq
  /\ replied' = Append(replied, <<p, ctx[c].btrace>>)

QueuesOn(c, p) ==
  /\ Becomes(c, Nobody, 0, ctx[c].btrace, p, ctx[c].raio)
  /\ ctx[c].saio = 0 /\ p \in busy
  /\ busy' = busy /\ sendq' = [sendq EXCEPT ![p] = Append(sendq[p], c)]
  /\ replied' = replied

LEMMA SendFacts ==
  ASSUME RepAssumption, RepTypeOK, NEW c \in Contexts, NEW mayWait \in BOOLEAN, Send(c, mayWait)
  PROVE  /\ UNCHANGED <<open, recvq, recvpipes, up, receiving, aio_recv, readable, arrived>>
         /\ writable' = (writable /\ c # Master)
         /\ \/ Drops(c)
            \/ /\ ctx[c].btrace # 0 /\ ctx[c].pipe_id \in Pipes /\ up[ctx[c].pipe_id] = "up"
               /\ SendsOn(c, ctx[c].pipe_id) \/ QueuesOn(c, ctx[c].pipe_id)
<1> DEFINE p == ctx[c].pipe_id
           r == ctx[c].btrace
           k == [ctx[c] EXCEPT !.btrace = 0, !.pipe_id = Nobody]
           there == r # 0 /\ p \in Pipes /\ up[p] = "up"
<1>1. /\ UNCHANGED <<open, recvq, recvpipes, up, receiving, aio_recv, readable, arrived>>
      /\ writable' = (writable /\ c # Master)
  BY DEF Send, lists
<1>2. /\ k \in Context /\ k.pipe_id = Nobody /\ k.btrace = 0
      /\ k.saio = ctx[c].saio /\ k.spipe = ctx[c].spipe /\ k.raio = ctx[c].raio
  BY ContextTypes DEF Context, RepTypeOK
<1>3. ASSUME ctx' = [ctx EXCEPT ![c] = k]
      PROVE  Becomes(c, Nobody, 0, ctx[c].saio, ctx[c].spipe, ctx[c].raio)
  <2> HIDE DEF k
  <2>1. Becomes(c, k.pipe_id, k.btrace, k.saio, k.spipe, k.raio)
    BY <1>2, <1>3, BecomesFacts
  <2> QED
    BY <1>2, <2>1
<1>4. \/ /\ ctx' = [ctx EXCEPT ![c] = k]
         /\ UNCHANGED <<busy, sendq, replied>>
      \/ /\ there /\ ctx' = [ctx EXCEPT ![c] = k]
         /\ busy' = busy \cup {p}
         /\ replied' = Append(replied, <<p, r>>)
         /\ UNCHANGED sendq
      \/ /\ there /\ p \in busy /\ ctx[c].saio = 0
         /\ ctx' = [ctx EXCEPT ![c] = [k EXCEPT !.saio = r, !.spipe = p]]
         /\ sendq' = [sendq EXCEPT ![p] = Append(sendq[p], c)]
         /\ UNCHANGED <<busy, replied>>
  BY DEF Send, Answered
<1>5. CASE /\ ctx' = [ctx EXCEPT ![c] = k]
           /\ UNCHANGED <<busy, sendq, replied>>
  BY <1>1, <1>3, <1>5 DEF Drops
<1>6. CASE /\ there /\ ctx' = [ctx EXCEPT ![c] = k]
           /\ busy' = busy \cup {p}
           /\ replied' = Append(replied, <<p, r>>)
           /\ UNCHANGED sendq
  <2>1. SendsOn(c, p)
    BY <1>3, <1>6 DEF SendsOn
  <2> QED
    BY <1>1, <1>6, <2>1
<1>7. CASE /\ there /\ p \in busy /\ ctx[c].saio = 0
           /\ ctx' = [ctx EXCEPT ![c] = [k EXCEPT !.saio = r, !.spipe = p]]
           /\ sendq' = [sendq EXCEPT ![p] = Append(sendq[p], c)]
           /\ UNCHANGED <<busy, replied>>
  <2> DEFINE q == [k EXCEPT !.saio = r, !.spipe = p]
  <2>1. p \in Pipes /\ r \in 0..MaxRequests
    BY <1>7, ContextTypes
  <2>2. /\ q \in Context /\ q.pipe_id = Nobody /\ q.btrace = 0
        /\ q.saio = r /\ q.spipe = p /\ q.raio = ctx[c].raio
    <3> HIDE DEF k, p, r
    <3> QED
      BY <1>2, <2>1 DEF Context
  <2>3. ctx' = [ctx EXCEPT ![c] = q]
    BY <1>7
  <2> HIDE DEF q
  <2>4. Becomes(c, q.pipe_id, q.btrace, q.saio, q.spipe, q.raio)
    BY <2>2, <2>3, BecomesFacts
  <2>5. QueuesOn(c, p)
    BY <1>7, <2>2, <2>4 DEF QueuesOn
  <2> QED
    BY <1>1, <1>7, <2>5
<1> QED
  BY <1>4, <1>5, <1>6, <1>7

LEMMA CancelSendFacts ==
  ASSUME RepAssumption, RepTypeOK, NEW c \in Contexts, CancelSend(c)
  PROVE  /\ Becomes(c, ctx[c].pipe_id, ctx[c].btrace, 0, ctx[c].spipe, ctx[c].raio)
         /\ sendq' = [p \in Pipes |-> Without(sendq[p], c)]
         /\ UNCHANGED <<open, recvq, recvpipes, up, receiving, aio_recv, busy, readable,
                        writable, arrived, replied>>
<1> DEFINE k == [ctx[c] EXCEPT !.saio = 0]
<1>1. /\ k \in Context /\ k.pipe_id = ctx[c].pipe_id /\ k.btrace = ctx[c].btrace
      /\ k.saio = 0 /\ k.spipe = ctx[c].spipe /\ k.raio = ctx[c].raio
  BY ContextTypes DEF Context
<1>2. ctx' = [ctx EXCEPT ![c] = k]
  BY DEF CancelSend
<1> HIDE DEF k
<1>3. Becomes(c, k.pipe_id, k.btrace, k.saio, k.spipe, k.raio)
  BY <1>1, <1>2, BecomesFacts
<1> QED
  BY <1>1, <1>3 DEF CancelSend, Unqueued, lists, polls

LEMMA CtxCloseFacts ==
  ASSUME RepAssumption, RepTypeOK, NEW c \in Contexts, CtxClose(c)
  PROVE  /\ \E sp \in Pipes \cup {Nobody} :
              Becomes(c, ctx[c].pipe_id, ctx[c].btrace, 0, sp, FALSE)
         /\ sendq' = IF ctx[c].saio # 0 THEN [p \in Pipes |-> Without(sendq[p], c)] ELSE sendq
         /\ recvq' = IF ctx[c].raio THEN Without(recvq, c) ELSE recvq
         /\ open' \subseteq open
         /\ UNCHANGED <<recvpipes, up, receiving, aio_recv, busy, readable, writable,
                        arrived, replied>>
<1> DEFINE sp == IF ctx[c].saio # 0 THEN Nobody ELSE ctx[c].spipe
           k == [ctx[c] EXCEPT !.saio = 0, !.raio = FALSE, !.spipe = sp]
<1>1. sp \in Pipes \cup {Nobody}
  BY ContextTypes
<1>2. ctx' = [ctx EXCEPT ![c] = k]
  BY DEF CtxClose
<1> HIDE DEF sp
<1>3. /\ k \in Context /\ k.pipe_id = ctx[c].pipe_id /\ k.btrace = ctx[c].btrace
      /\ k.saio = 0 /\ k.spipe = sp /\ k.raio = FALSE
  BY <1>1, ContextTypes DEF Context
<1> HIDE DEF k
<1>4. Becomes(c, k.pipe_id, k.btrace, k.saio, k.spipe, k.raio)
  BY <1>2, <1>3, BecomesFacts
<1>5. Becomes(c, ctx[c].pipe_id, ctx[c].btrace, 0, sp, FALSE)
  BY <1>3, <1>4
<1>6. open' \subseteq open
  BY DEF CtxClose
<1> QED
  BY <1>1, <1>5, <1>6 DEF CtxClose, Closed, Unqueued, polls

(* What the pipes do.                                                      *)
LEMMA PipeStartFacts ==
  ASSUME NEW p \in Pipes, PipeStart(p)
  PROVE  /\ up[p] = "new" /\ up' = [up EXCEPT ![p] = "up"] /\ receiving' = receiving \cup {p}
         /\ UNCHANGED <<ctx, open, recvq, recvpipes, aio_recv, busy, sendq, readable, writable,
                        arrived, replied>>
  BY DEF PipeStart, lists, polls

LEMMA PipeCloseFacts ==
  ASSUME RepAssumption, RepTypeOK, NEW p \in Pipes, PipeClose(p)
  PROVE  /\ up[p] = "up" /\ up' = [up EXCEPT ![p] = "down"] /\ receiving' = receiving \ {p}
         /\ recvpipes' = Without(recvpipes, p) /\ sendq' = [sendq EXCEPT ![p] = <<>>]
         /\ writable' = (writable \/ ctx[Master].pipe_id = p)
         /\ ctx' \in [Contexts -> Context]
         /\ \A c \in Contexts :
              /\ ctx'[c].pipe_id = ctx[c].pipe_id /\ ctx'[c].btrace = ctx[c].btrace
              /\ ctx'[c].spipe = ctx[c].spipe /\ ctx'[c].raio = ctx[c].raio
              /\ ctx'[c].saio = IF c \in Members(sendq[p]) THEN 0 ELSE ctx[c].saio
         /\ UNCHANGED <<open, recvq, aio_recv, busy, readable, arrived, replied>>
<1>1. /\ up[p] = "up" /\ up' = [up EXCEPT ![p] = "down"] /\ receiving' = receiving \ {p}
      /\ recvpipes' = Without(recvpipes, p) /\ sendq' = [sendq EXCEPT ![p] = <<>>]
      /\ writable' = (writable \/ ctx[Master].pipe_id = p)
      /\ ctx' = [c \in Contexts |-> Released(c, p)]
      /\ UNCHANGED <<open, recvq, aio_recv, busy, readable, arrived, replied>>
  BY DEF PipeClose, Unlisted, WritableAfter
<1>2. ASSUME NEW c \in Contexts
      PROVE  /\ Released(c, p) \in Context
             /\ Released(c, p).pipe_id = ctx[c].pipe_id /\ Released(c, p).btrace = ctx[c].btrace
             /\ Released(c, p).spipe = ctx[c].spipe /\ Released(c, p).raio = ctx[c].raio
             /\ Released(c, p).saio = IF c \in Members(sendq[p]) THEN 0 ELSE ctx[c].saio
  BY ContextTypes DEF Context, Released
<1>3. ctx' \in [Contexts -> Context] /\ \A c \in Contexts : ctx'[c] = Released(c, p)
  BY <1>1, <1>2
<1> QED
  BY <1>1, <1>2, <1>3

LEMMA ArrivesFacts ==
  ASSUME NEW p \in Pipes, Arrives(p)
  PROVE  /\ p \in receiving /\ receiving' = receiving \ {p}
         /\ Len(arrived) < MaxRequests /\ arrived' = Append(arrived, p)
         /\ aio_recv' = [aio_recv EXCEPT ![p] = Len(arrived) + 1]
         /\ UNCHANGED <<ctx, open, recvq, recvpipes, up, busy, sendq, readable, writable, replied>>
  BY DEF Arrives, lists, polls

(* The request of a pipe is dropped, or waits.                             *)
Discards(p) ==
  /\ up[p] = "down" /\ aio_recv' = [aio_recv EXCEPT ![p] = 0]
  /\ UNCHANGED <<ctx, recvq, recvpipes, receiving, readable, writable>>

Offers(p) ==
  /\ up[p] = "up" /\ recvq = <<>> /\ recvpipes' = Append(recvpipes, p) /\ readable' = TRUE
  /\ UNCHANGED <<ctx, recvq, receiving, aio_recv, writable>>

LEMMA RecvCbFacts ==
  ASSUME RepAssumption, RepTypeOK, NEW p \in Pipes, RecvCb(p)
  PROVE  /\ aio_recv[p] # 0 /\ p \notin Members(recvpipes)
         /\ UNCHANGED <<open, up, busy, sendq, arrived, replied>>
         /\ \/ Discards(p) \/ Offers(p)
            \/ /\ up[p] = "up" /\ recvq # <<>> /\ Head(recvq) \in Contexts
               /\ recvq' = Tail(recvq) /\ recvpipes' = recvpipes /\ readable' = readable
               /\ Takes(Head(recvq), p, FALSE)
<1>1. /\ aio_recv[p] # 0 /\ p \notin Members(recvpipes)
      /\ UNCHANGED <<open, up, busy, sendq, arrived, replied>>
  BY DEF RecvCb
<1> DEFINE c == Head(recvq)
           k == [ctx[c] EXCEPT !.btrace = aio_recv[p], !.pipe_id = p, !.raio = FALSE]
<1>2. \/ Discards(p) \/ Offers(p)
      \/ /\ up[p] = "up" /\ recvq # <<>>
         /\ recvq' = Tail(recvq) /\ recvpipes' = recvpipes /\ readable' = readable
         /\ ctx' = [ctx EXCEPT ![c] = k]
         /\ writable' = (writable \/ (c = Master /\ p \notin busy))
         /\ aio_recv' = [aio_recv EXCEPT ![p] = 0] /\ receiving' = receiving \cup {p}
  BY DEF RecvCb, Discards, Offers, lists, polls, Took, Emptied, ReceivesOn
<1>3. CASE /\ up[p] = "up" /\ recvq # <<>>
           /\ recvq' = Tail(recvq) /\ recvpipes' = recvpipes /\ readable' = readable
           /\ ctx' = [ctx EXCEPT ![c] = k]
           /\ writable' = (writable \/ (c = Master /\ p \notin busy))
           /\ aio_recv' = [aio_recv EXCEPT ![p] = 0] /\ receiving' = receiving \cup {p}
  <2>1. c \in Contexts
    BY <1>3, TailFacts DEF RepTypeOK
  <2>2. aio_recv[p] \in 0..MaxRequests
    BY DEF RepTypeOK
  <2>3. recvq # <<>>
    BY <1>3
  <2> HIDE DEF c
  <2>4. /\ k \in Context /\ k.pipe_id = p /\ k.btrace = aio_recv[p]
        /\ k.saio = ctx[c].saio /\ k.spipe = ctx[c].spipe /\ k.raio = FALSE
    BY <2>1, <2>2, ContextTypes DEF Context
  <2> HIDE DEF k
  <2>5. Becomes(c, k.pipe_id, k.btrace, k.saio, k.spipe, k.raio)
    BY <1>3, <2>1, <2>4, BecomesFacts
  <2>6. Takes(c, p, FALSE)
    BY <1>3, <2>4, <2>5 DEF Takes
  <2> QED
    BY <1>1, <1>3, <2>1, <2>6 DEF c
<1> QED
  BY <1>1, <1>2, <1>3

(* A pipe that has sent is free, or sends for the next that waits.         *)
Frees(p) ==
  /\ sendq[p] = <<>> /\ busy' = busy \ {p}
  /\ writable' = (writable \/ ctx[Master].pipe_id = p)
  /\ UNCHANGED <<ctx, sendq, replied>>

SendsNext(p) ==
  /\ sendq[p] # <<>> /\ Head(sendq[p]) \in Contexts
  /\ sendq' = [sendq EXCEPT ![p] = Tail(sendq[p])]
  /\ LET c == Head(sendq[p])
     IN /\ Becomes(c, ctx[c].pipe_id, ctx[c].btrace, 0, Nobody, ctx[c].raio)
        /\ replied' = Append(replied, <<p, ctx[c].saio>>)
  /\ UNCHANGED <<busy, writable>>

LEMMA SendCbFacts ==
  ASSUME RepAssumption, RepTypeOK, NEW p \in Pipes, SendCb(p)
  PROVE  /\ p \in busy /\ (Frees(p) \/ SendsNext(p))
         /\ UNCHANGED <<open, recvq, recvpipes, up, receiving, aio_recv, readable, arrived>>
<1>1. p \in busy /\ UNCHANGED <<open, recvq, recvpipes, up, receiving, aio_recv, readable, arrived>>
  BY DEF SendCb, lists
<1> DEFINE c == Head(sendq[p])
           k == [ctx[c] EXCEPT !.saio = 0, !.spipe = Nobody]
<1>2. \/ Frees(p)
      \/ /\ sendq[p] # <<>> /\ sendq' = [sendq EXCEPT ![p] = Tail(sendq[p])]
         /\ ctx' = [ctx EXCEPT ![c] = k] /\ replied' = Append(replied, <<p, ctx[c].saio>>)
         /\ UNCHANGED <<busy, writable>>
  BY DEF SendCb, Frees
<1>3. CASE /\ sendq[p] # <<>> /\ sendq' = [sendq EXCEPT ![p] = Tail(sendq[p])]
           /\ ctx' = [ctx EXCEPT ![c] = k] /\ replied' = Append(replied, <<p, ctx[c].saio>>)
           /\ UNCHANGED <<busy, writable>>
  <2>1. sendq[p] \in Seq(Contexts)
    BY DEF RepTypeOK
  <2>2. c \in Contexts
    BY <1>3, <2>1, TailFacts
  <2> HIDE DEF c
  <2>3. /\ k \in Context /\ k.pipe_id = ctx[c].pipe_id /\ k.btrace = ctx[c].btrace
        /\ k.saio = 0 /\ k.spipe = Nobody /\ k.raio = ctx[c].raio
    BY <2>2, ContextTypes DEF Context
  <2> HIDE DEF k
  <2>4. Becomes(c, k.pipe_id, k.btrace, k.saio, k.spipe, k.raio)
    BY <1>3, <2>2, <2>3, BecomesFacts
  <2>5. Becomes(c, ctx[c].pipe_id, ctx[c].btrace, 0, Nobody, ctx[c].raio)
    BY <2>3, <2>4
  <2> QED
    BY <1>1, <1>3, <2>2, <2>5 DEF SendsNext, c
<1> QED
  BY <1>1, <1>2, <1>3

-----------------------------------------------------------------------------
(* The types.                                                              *)

LEMMA StepCases ==
  ASSUME [Next]_vars
  PROVE  \/ \E c \in Contexts :
              \/ Recv(c) \/ CancelRecv(c) \/ CancelSend(c) \/ CtxClose(c)
              \/ \E mayWait \in BOOLEAN : Send(c, mayWait)
         \/ \E p \in Pipes : PipeStart(p) \/ PipeClose(p) \/ Arrives(p) \/ RecvCb(p) \/ SendCb(p)
         \/ UNCHANGED <<ctx, open, recvq, recvpipes, up, receiving, aio_recv, busy, sendq,
                        readable, writable, arrived, replied>>
  BY DEF Next, vars, lists, pipes, polls

LEMMA TypesNext ==
  ASSUME RepAssumption, RepTypeOK, SendersListed, [Next]_vars
  PROVE  RepTypeOK'
<1> USE DEF RepAssumption
<1>1. /\ ctx \in [Contexts -> Context] /\ open \subseteq Contexts
      /\ recvq \in Seq(Contexts) /\ recvpipes \in Seq(Pipes)
      /\ up \in [Pipes -> {"new", "up", "down"}] /\ receiving \subseteq Pipes
      /\ aio_recv \in [Pipes -> 0..MaxRequests]
      /\ busy \subseteq Pipes /\ sendq \in [Pipes -> Seq(Contexts)]
      /\ readable \in BOOLEAN /\ writable \in BOOLEAN
      /\ arrived \in Seq(Pipes) /\ Len(arrived) <= MaxRequests
      /\ replied \in Seq(Pipes \X (1..MaxRequests))
  BY DEF RepTypeOK, Context
<1> DEFINE contexts == ctx' \in [Contexts -> Context] /\ open' \subseteq Contexts
           waiting == recvq' \in Seq(Contexts) /\ recvpipes' \in Seq(Pipes)
           states == up' \in [Pipes -> {"new", "up", "down"}] /\ receiving' \subseteq Pipes
                     /\ aio_recv' \in [Pipes -> 0..MaxRequests]
           sending == busy' \subseteq Pipes /\ sendq' \in [Pipes -> Seq(Contexts)]
           flags == readable' \in BOOLEAN /\ writable' \in BOOLEAN
           history == /\ arrived' \in Seq(Pipes) /\ Len(arrived') <= MaxRequests
                      /\ replied' \in Seq(Pipes \X (1..MaxRequests))
<1>2. SUFFICES contexts /\ waiting /\ states /\ sending /\ flags /\ history
  BY DEF RepTypeOK, Context
<1>3. ASSUME NEW p \in Pipes, NEW c \in Contexts, NEW raio, Takes(c, p, raio)
      PROVE  /\ ctx' \in [Contexts -> Context] /\ aio_recv' \in [Pipes -> 0..MaxRequests]
             /\ receiving' \subseteq Pipes /\ writable' \in BOOLEAN
  <2>1. aio_recv' = [aio_recv EXCEPT ![p] = 0] /\ receiving' = receiving \cup {p}
    BY <1>3 DEF Takes
  <2>2. aio_recv' \in [Pipes -> 0..MaxRequests] /\ receiving' \subseteq Pipes
    BY <1>1, <2>1
  <2>3. ctx' \in [Contexts -> Context] /\ writable' \in BOOLEAN
    BY <1>3 DEF Takes, Becomes
  <2> QED
    BY <2>2, <2>3
<1>4. ASSUME NEW c \in Contexts
      PROVE  [p \in Pipes |-> Without(sendq[p], c)] \in [Pipes -> Seq(Contexts)]
  BY <1>1, WithoutFacts
<1>5. ASSUME NEW p \in Pipes, NEW r \in 0..MaxRequests, r # 0, replied' = Append(replied, <<p, r>>)
      PROVE  replied' \in Seq(Pipes \X (1..MaxRequests))
  <2>1. <<p, r>> \in Pipes \X (1..MaxRequests)
    BY <1>5
  <2> QED
    BY <1>1, <1>5, <2>1, AppendFacts
<1>6. ASSUME NEW c \in Contexts, Recv(c)
      PROVE  contexts /\ waiting /\ states /\ sending /\ flags /\ history
  <2>1. /\ open' = open /\ up' = up /\ busy' = busy
        /\ sendq' = sendq /\ arrived' = arrived /\ replied' = replied
    BY <1>6, RecvFacts
  <2>2. CASE Waits(c)
    <3>1. recvq' \in Seq(Contexts)
      BY <1>1, <2>2, AppendFacts DEF Waits
    <3> QED
      BY <1>1, <2>1, <2>2, <3>1 DEF Waits, Becomes
  <2>3. CASE /\ recvpipes # <<>> /\ Head(recvpipes) \in Pipes
             /\ recvq' = recvq /\ recvpipes' = Tail(recvpipes)
             /\ readable' = (readable /\ Tail(recvpipes) # <<>>)
             /\ Takes(c, Head(recvpipes), ctx[c].raio)
    <3>1. recvpipes' \in Seq(Pipes)
      BY <1>1, <2>3, TailFacts
    <3>2. /\ ctx' \in [Contexts -> Context] /\ aio_recv' \in [Pipes -> 0..MaxRequests]
          /\ receiving' \subseteq Pipes /\ writable' \in BOOLEAN
      BY <1>3, <2>3
    <3> QED
      BY <1>1, <2>1, <2>3, <3>1, <3>2
  <2> QED
    BY <1>6, <2>2, <2>3, RecvFacts
<1>7. ASSUME NEW c \in Contexts, CancelRecv(c)
      PROVE  contexts /\ waiting /\ states /\ sending /\ flags /\ history
  <2>1. recvq' \in Seq(Contexts)
    <3>1. recvq' = Without(recvq, c)
      BY <1>7, CancelRecvFacts
    <3> QED
      BY <1>1, <3>1, WithoutFacts
  <2> QED
    BY <1>1, <1>7, <2>1, CancelRecvFacts DEF Becomes
<1>8. ASSUME NEW c \in Contexts, CancelSend(c)
      PROVE  contexts /\ waiting /\ states /\ sending /\ flags /\ history
  <2>1. sendq' = [p \in Pipes |-> Without(sendq[p], c)]
    BY <1>8, CancelSendFacts
  <2>2. sendq' \in [Pipes -> Seq(Contexts)]
    BY <1>4, <2>1
  <2> QED
    BY <1>1, <1>8, <2>2, CancelSendFacts DEF Becomes
<1>9. ASSUME NEW c \in Contexts, CtxClose(c)
      PROVE  contexts /\ waiting /\ states /\ sending /\ flags /\ history
  <2>1. sendq' \in [Pipes -> Seq(Contexts)]
    <3>1. sendq' = IF ctx[c].saio # 0 THEN [p \in Pipes |-> Without(sendq[p], c)] ELSE sendq
      BY <1>9, CtxCloseFacts
    <3> QED
      BY <1>1, <1>4, <3>1
  <2>2. recvq' \in Seq(Contexts)
    <3>1. recvq' = IF ctx[c].raio THEN Without(recvq, c) ELSE recvq
      BY <1>9, CtxCloseFacts
    <3> QED
      BY <1>1, <3>1, WithoutFacts
  <2> QED
    BY <1>1, <1>9, <2>1, <2>2, CtxCloseFacts DEF Becomes
<1>10. ASSUME NEW c \in Contexts, NEW mayWait \in BOOLEAN, Send(c, mayWait)
      PROVE  contexts /\ waiting /\ states /\ sending /\ flags /\ history
  <2> DEFINE p == ctx[c].pipe_id
  <2>1. /\ UNCHANGED <<open, recvq, recvpipes, up, receiving, aio_recv, readable, arrived>>
        /\ writable' \in BOOLEAN
    BY <1>10, SendFacts
  <2>2. CASE Drops(c)
    BY <1>1, <2>1, <2>2 DEF Drops, Becomes
  <2>3. CASE ctx[c].btrace # 0 /\ p \in Pipes /\ SendsOn(c, p)
    <3>1. replied' \in Seq(Pipes \X (1..MaxRequests))
      BY <1>5, <2>3, ContextTypes DEF SendsOn
    <3> QED
      BY <1>1, <2>1, <2>3, <3>1 DEF SendsOn, Becomes
  <2>4. CASE p \in Pipes /\ QueuesOn(c, p)
    <3>1. Append(sendq[p], c) \in Seq(Contexts)
      BY <1>1, <2>4, AppendFacts
    <3>2. sendq' \in [Pipes -> Seq(Contexts)]
      BY <1>1, <2>4, <3>1 DEF QueuesOn
    <3> QED
      BY <1>1, <2>1, <2>4, <3>2 DEF QueuesOn, Becomes
  <2> QED
    BY <1>10, <2>2, <2>3, <2>4, SendFacts
<1>11. ASSUME NEW p \in Pipes, PipeStart(p)
       PROVE  contexts /\ waiting /\ states /\ sending /\ flags /\ history
  BY <1>1, <1>11, PipeStartFacts
<1>12. ASSUME NEW p \in Pipes, PipeClose(p)
       PROVE  contexts /\ waiting /\ states /\ sending /\ flags /\ history
  <2>1. /\ up' = [up EXCEPT ![p] = "down"] /\ receiving' = receiving \ {p}
        /\ recvpipes' = Without(recvpipes, p) /\ sendq' = [sendq EXCEPT ![p] = <<>>]
        /\ ctx' \in [Contexts -> Context]
        /\ UNCHANGED <<open, recvq, aio_recv, busy, readable, arrived, replied>>
    BY <1>12, PipeCloseFacts
  <2>2. writable' \in BOOLEAN
    BY <1>12, PipeCloseFacts
  <2>3. waiting
    BY <1>1, <2>1, WithoutFacts
  <2>4. states
    BY <1>1, <2>1
  <2>5. <<>> \in Seq(Contexts)
    BY EmptySeq
  <2>6. sending
    BY <1>1, <2>1, <2>5
  <2> QED
    BY <1>1, <2>1, <2>2, <2>3, <2>4, <2>6
<1>13. ASSUME NEW p \in Pipes, Arrives(p)
       PROVE  contexts /\ waiting /\ states /\ sending /\ flags /\ history
  <2>1. arrived' \in Seq(Pipes) /\ Len(arrived') = Len(arrived) + 1
    <3>1. arrived' = Append(arrived, p)
      BY <1>13, ArrivesFacts
    <3> QED
      BY <1>1, <3>1, AppendProperties
  <2>2. Len(arrived) \in Nat /\ Len(arrived) < MaxRequests
    BY <1>1, <1>13, ArrivesFacts, LenProperties
  <2>3. Len(arrived) + 1 \in 0..MaxRequests
    BY <2>2
  <2>4. aio_recv' \in [Pipes -> 0..MaxRequests]
    BY <1>1, <1>13, <2>3, ArrivesFacts
  <2> QED
    BY <1>1, <1>13, <2>1, <2>2, <2>4, ArrivesFacts
<1>14. ASSUME NEW p \in Pipes, RecvCb(p)
       PROVE  contexts /\ waiting /\ states /\ sending /\ flags /\ history
  <2>1. /\ open' = open /\ up' = up /\ busy' = busy
        /\ sendq' = sendq /\ arrived' = arrived /\ replied' = replied
    BY <1>14, RecvCbFacts
  <2>2. CASE Discards(p)
    BY <1>1, <2>1, <2>2 DEF Discards
  <2>3. CASE Offers(p)
    <3>1. recvpipes' \in Seq(Pipes)
      BY <1>1, <2>3, AppendFacts DEF Offers
    <3> QED
      BY <1>1, <2>1, <2>3, <3>1 DEF Offers
  <2>4. CASE /\ recvq # <<>> /\ Head(recvq) \in Contexts
             /\ recvq' = Tail(recvq) /\ recvpipes' = recvpipes /\ readable' = readable
             /\ Takes(Head(recvq), p, FALSE)
    <3>1. recvq' \in Seq(Contexts)
      BY <1>1, <2>4, TailFacts
    <3>2. /\ ctx' \in [Contexts -> Context] /\ aio_recv' \in [Pipes -> 0..MaxRequests]
          /\ receiving' \subseteq Pipes /\ writable' \in BOOLEAN
      BY <1>3, <2>4
    <3> QED
      BY <1>1, <2>1, <2>4, <3>1, <3>2
  <2> QED
    BY <1>14, <2>2, <2>3, <2>4, RecvCbFacts
<1>15. ASSUME NEW p \in Pipes, SendCb(p)
       PROVE  contexts /\ waiting /\ states /\ sending /\ flags /\ history
  <2>1. UNCHANGED <<open, recvq, recvpipes, up, receiving, aio_recv, readable, arrived>>
    BY <1>15, SendCbFacts
  <2>2. CASE Frees(p)
    BY <1>1, <2>1, <2>2 DEF Frees
  <2>3. CASE SendsNext(p)
    <3> DEFINE c == Head(sendq[p])
    <3>1. sendq[p] \in Seq(Contexts) /\ sendq[p] # <<>>
      BY <1>1, <2>3 DEF SendsNext
    <3>2. c \in Contexts /\ c \in Members(sendq[p]) /\ Tail(sendq[p]) \in Seq(Contexts)
      BY <3>1, TailFacts
    <3>3. ctx[c].saio # 0 /\ ctx[c].saio \in 0..MaxRequests
      BY <3>2, ContextTypes DEF SendersListed
    <3>4. replied' = Append(replied, <<p, ctx[c].saio>>)
      BY <2>3 DEF SendsNext
    <3>5. replied' \in Seq(Pipes \X (1..MaxRequests))
      BY <1>5, <3>3, <3>4
    <3>6. sendq' = [sendq EXCEPT ![p] = Tail(sendq[p])]
      BY <2>3 DEF SendsNext
    <3>7. sendq' \in [Pipes -> Seq(Contexts)]
      BY <1>1, <3>2, <3>6
    <3> QED
      BY <1>1, <2>1, <2>3, <3>5, <3>7 DEF SendsNext, Becomes
  <2> QED
    BY <1>15, <2>2, <2>3, SendCbFacts
<1> HIDE DEF contexts, waiting, states, sending, flags, history
<1>16. CASE UNCHANGED <<ctx, open, recvq, recvpipes, up, receiving, aio_recv, busy, sendq,
                        readable, writable, arrived, replied>>
  BY <1>1, <1>16 DEF contexts, waiting, states, sending, flags, history
<1> QED
  BY <1>6, <1>7, <1>8, <1>9, <1>10, <1>11, <1>12, <1>13, <1>14, <1>15, <1>16, StepCases

-----------------------------------------------------------------------------
(* The lists.                                                              *)

LEMMA MembersFacts ==
  ASSUME NEW S, NEW s \in Seq(S)
  PROVE  s = <<>> <=> Members(s) = {}
<1>1. s # <<>> => 1 \in DOMAIN s
  BY EmptySeq, LenProperties
<1> QED
  BY <1>1, EmptySeq DEF Members

LEMMA ReceiversNext ==
  ASSUME RepAssumption, RepTypeOK, ReceiversListed, [Next]_vars
  PROVE  ReceiversListed'
<1>1. recvq \in Seq(Contexts)
  BY DEF RepTypeOK
<1>2. ASSUME recvq' = recvq, \A c \in Contexts : ctx'[c].raio = ctx[c].raio PROVE ReceiversListed'
  BY <1>2 DEF ReceiversListed, Once, Members
<1>3. ASSUME NEW c \in Contexts, NEW pipe_id, NEW btrace, NEW saio, NEW spipe,
             Becomes(c, pipe_id, btrace, saio, spipe, TRUE), ~ctx[c].raio,
             recvq' = Append(recvq, c)
      PROVE  ReceiversListed'
  <2>1. Members(recvq') = Members(recvq) \cup {c} /\ Once(recvq')
    BY <1>1, <1>3, AppendFacts DEF ReceiversListed
  <2>2. \A d \in Contexts : ctx'[d].raio <=> d = c \/ ctx[d].raio
    BY <1>3 DEF Becomes
  <2> QED
    BY <2>1, <2>2 DEF ReceiversListed, Once, Members
<1>4. ASSUME NEW c \in Contexts, NEW pipe_id, NEW btrace, NEW saio, NEW spipe,
             Becomes(c, pipe_id, btrace, saio, spipe, FALSE),
             Once(recvq'), Members(recvq') = Members(recvq) \ {c}
      PROVE  ReceiversListed'
  <2>1. \A d \in Contexts : ctx'[d].raio <=> d # c /\ ctx[d].raio
    BY <1>4 DEF Becomes
  <2>2. \A d \in Contexts : ctx'[d].raio <=> d \in Members(recvq')
    BY <1>4, <2>1 DEF ReceiversListed
  <2> QED
    BY <1>4, <2>2 DEF ReceiversListed, Once, Members
<1>5. ASSUME NEW c \in Contexts, NEW pipe_id, NEW btrace, NEW saio, NEW spipe,
             Becomes(c, pipe_id, btrace, saio, spipe, ctx[c].raio), recvq' = recvq
      PROVE  ReceiversListed'
  <2>1. \A d \in Contexts : ctx'[d].raio = ctx[d].raio
    BY <1>5 DEF Becomes
  <2> QED
    BY <1>2, <1>5, <2>1
<1>6. ASSUME NEW c \in Contexts
      PROVE  Once(Without(recvq, c)) /\ Members(Without(recvq, c)) = Members(recvq) \ {c}
  BY <1>1, WithoutFacts DEF ReceiversListed
<1>7. ASSUME NEW c \in Contexts, Recv(c) PROVE ReceiversListed'
  <2>1. CASE Waits(c)
    BY <1>3, <2>1 DEF Waits
  <2>2. CASE recvq' = recvq /\ Takes(c, Head(recvpipes), ctx[c].raio)
    BY <1>5, <2>2 DEF Takes
  <2> QED
    BY <1>7, <2>1, <2>2, RecvFacts
<1>8. ASSUME NEW c \in Contexts, CancelRecv(c) PROVE ReceiversListed'
  <2>1. /\ Becomes(c, ctx[c].pipe_id, ctx[c].btrace, ctx[c].saio, ctx[c].spipe, FALSE)
        /\ recvq' = Without(recvq, c)
    BY <1>8, CancelRecvFacts
  <2> QED
    BY <1>4, <1>6, <2>1
<1>9. ASSUME NEW c \in Contexts, CancelSend(c) PROVE ReceiversListed'
  <2>1. /\ Becomes(c, ctx[c].pipe_id, ctx[c].btrace, 0, ctx[c].spipe, ctx[c].raio)
        /\ recvq' = recvq
    BY <1>9, CancelSendFacts
  <2> QED
    BY <1>5, <2>1
<1>10. ASSUME NEW c \in Contexts, CtxClose(c) PROVE ReceiversListed'
  <2>1. PICK sp : Becomes(c, ctx[c].pipe_id, ctx[c].btrace, 0, sp, FALSE)
    BY <1>10, CtxCloseFacts
  <2>2. recvq' = IF ctx[c].raio THEN Without(recvq, c) ELSE recvq
    BY <1>10, CtxCloseFacts
  <2>3. Once(recvq') /\ Members(recvq') = Members(recvq) \ {c}
    <3>1. CASE ctx[c].raio
      BY <1>6, <2>2, <3>1
    <3>2. CASE ~ctx[c].raio
      <4>1. recvq' = recvq
        BY <2>2, <3>2
      <4>2. c \notin Members(recvq) /\ Once(recvq)
        BY <3>2 DEF ReceiversListed
      <4> QED
        BY <4>1, <4>2
    <3> QED
      BY <3>1, <3>2
  <2> QED
    BY <1>4, <2>1, <2>3
<1>11. ASSUME NEW c \in Contexts, NEW mayWait \in BOOLEAN, Send(c, mayWait) PROVE ReceiversListed'
  <2> DEFINE p == ctx[c].pipe_id
  <2>1. recvq' = recvq /\ (Drops(c) \/ SendsOn(c, p) \/ QueuesOn(c, p))
    BY <1>11, SendFacts
  <2> QED
    BY <1>5, <2>1 DEF Drops, SendsOn, QueuesOn
<1>12. ASSUME NEW p \in Pipes, PipeStart(p) \/ PipeClose(p) \/ Arrives(p) PROVE ReceiversListed'
  <2>1. PipeStart(p) \/ Arrives(p) => ctx' = ctx /\ recvq' = recvq
    BY PipeStartFacts, ArrivesFacts
  <2>2. PipeClose(p) => recvq' = recvq /\ \A c \in Contexts : ctx'[c].raio = ctx[c].raio
    BY PipeCloseFacts
  <2> QED
    BY <1>2, <1>12, <2>1, <2>2
<1>13. ASSUME NEW p \in Pipes, RecvCb(p) PROVE ReceiversListed'
  <2>1. CASE Discards(p) \/ Offers(p)
    BY <1>2, <2>1 DEF Discards, Offers
  <2>2. CASE /\ recvq # <<>> /\ Head(recvq) \in Contexts
             /\ recvq' = Tail(recvq) /\ Takes(Head(recvq), p, FALSE)
    <3>1. Once(Tail(recvq)) /\ Members(Tail(recvq)) = Members(recvq) \ {Head(recvq)}
      BY <1>1, <2>2, TailFacts DEF ReceiversListed
    <3> QED
      BY <1>4, <2>2, <3>1 DEF Takes
  <2> QED
    BY <1>13, <2>1, <2>2, RecvCbFacts
<1>14. ASSUME NEW p \in Pipes, SendCb(p) PROVE ReceiversListed'
  <2>1. recvq' = recvq /\ (Frees(p) \/ SendsNext(p))
    BY <1>14, SendCbFacts
  <2> QED
    BY <1>2, <1>5, <2>1 DEF Frees, SendsNext
<1>15. CASE UNCHANGED <<ctx, open, recvq, recvpipes, up, receiving, aio_recv, busy, sendq,
                        readable, writable, arrived, replied>>
  BY <1>2, <1>15
<1> QED
  BY <1>7, <1>8, <1>9, <1>10, <1>11, <1>12, <1>13, <1>14, <1>15, StepCases

LEMMA RequestsNext ==
  ASSUME RepAssumption, RepTypeOK, RequestsListed, [Next]_vars
  PROVE  RequestsListed'
<1>1. recvq \in Seq(Contexts) /\ recvpipes \in Seq(Pipes)
  BY DEF RepTypeOK
<1>2. ASSUME recvq' = recvq, recvpipes' = recvpipes PROVE RequestsListed'
  BY <1>2 DEF RequestsListed, Once
<1>3. ASSUME NEW s, NEW x, s = <<>> PROVE Without(s, x) = s
  BY <1>3 DEF Without, Members
<1>4. ASSUME NEW c \in Contexts, Recv(c) PROVE RequestsListed'
  <2>1. CASE Waits(c)
    BY <2>1 DEF Waits, RequestsListed, Once
  <2>2. CASE recvpipes # <<>> /\ recvq' = recvq /\ recvpipes' = Tail(recvpipes)
    <3>1. recvq = <<>> /\ Once(recvpipes)
      BY <2>2 DEF RequestsListed
    <3>2. Once(Tail(recvpipes))
      BY <1>1, <2>2, <3>1, TailFacts
    <3> QED
      BY <2>2, <3>1, <3>2 DEF RequestsListed, Once
  <2> QED
    BY <1>4, <2>1, <2>2, RecvFacts
<1>5. ASSUME NEW c \in Contexts, recvpipes' = recvpipes,
             recvq' = Without(recvq, c) \/ recvq' = recvq
      PROVE  RequestsListed'
  <2>1. Once(recvpipes) /\ (recvq' = <<>> \/ recvpipes = <<>>)
    BY <1>3, <1>5 DEF RequestsListed
  <2> QED
    BY <1>5, <2>1 DEF RequestsListed, Once
<1>6. ASSUME NEW c \in Contexts, CancelRecv(c) \/ CancelSend(c) \/ CtxClose(c) PROVE RequestsListed'
  <2>1. CancelRecv(c) => recvpipes' = recvpipes /\ recvq' = Without(recvq, c)
    BY CancelRecvFacts
  <2>2. CancelSend(c) => recvpipes' = recvpipes /\ recvq' = recvq
    BY CancelSendFacts
  <2>3. CtxClose(c) => recvpipes' = recvpipes /\ (recvq' = Without(recvq, c) \/ recvq' = recvq)
    BY CtxCloseFacts
  <2> QED
    BY <1>5, <1>6, <2>1, <2>2, <2>3
<1>7. ASSUME NEW c \in Contexts, NEW mayWait \in BOOLEAN, Send(c, mayWait) PROVE RequestsListed'
  BY <1>2, <1>7, SendFacts
<1>8. ASSUME NEW p \in Pipes, PipeStart(p) \/ Arrives(p) \/ SendCb(p) PROVE RequestsListed'
  BY <1>2, <1>8, PipeStartFacts, ArrivesFacts, SendCbFacts
<1>9. ASSUME NEW p \in Pipes, PipeClose(p) PROVE RequestsListed'
  <2>1. recvq' = recvq /\ recvpipes' = Without(recvpipes, p)
    BY <1>9, PipeCloseFacts
  <2>2. Once(Without(recvpipes, p))
    BY <1>1, WithoutFacts DEF RequestsListed
  <2>3. recvq' = <<>> \/ recvpipes' = <<>>
    BY <1>3, <2>1 DEF RequestsListed
  <2> QED
    BY <2>1, <2>2, <2>3 DEF RequestsListed, Once
<1>10. ASSUME NEW p \in Pipes, RecvCb(p) PROVE RequestsListed'
  <2>1. p \notin Members(recvpipes)
    BY <1>10, RecvCbFacts
  <2>2. CASE Discards(p)
    BY <1>2, <2>2 DEF Discards
  <2>3. CASE Offers(p)
    <3>1. Once(Append(recvpipes, p))
      BY <1>1, <2>1, AppendFacts DEF RequestsListed
    <3> QED
      BY <2>3, <3>1 DEF Offers, RequestsListed, Once
  <2>4. CASE recvq # <<>> /\ recvpipes' = recvpipes
    <3>1. recvpipes = <<>> /\ Once(recvpipes)
      BY <2>4 DEF RequestsListed
    <3> QED
      BY <2>4, <3>1 DEF RequestsListed, Once
  <2> QED
    BY <1>10, <2>2, <2>3, <2>4, RecvCbFacts
<1>11. CASE UNCHANGED <<ctx, open, recvq, recvpipes, up, receiving, aio_recv, busy, sendq,
                        readable, writable, arrived, replied>>
  BY <1>2, <1>11
<1> QED
  BY <1>4, <1>6, <1>7, <1>8, <1>9, <1>10, <1>11, StepCases

LEMMA SendersNext ==
  ASSUME RepAssumption, RepTypeOK, SendersListed, [Next]_vars
  PROVE  SendersListed'
<1>1. sendq \in [Pipes -> Seq(Contexts)] /\ up \in [Pipes -> {"new", "up", "down"}]
  BY DEF RepTypeOK
<1>2. \A p \in Pipes : sendq[p] \in Seq(Contexts)
  BY <1>1
(* A pipe that stays up and busy.                                          *)
<1>3. ASSUME \A c \in Contexts : ctx'[c].saio = ctx[c].saio /\ ctx'[c].spipe = ctx[c].spipe,
             sendq' = sendq, \A p \in Pipes : sendq[p] # <<>> => p \in busy' /\ up'[p] = "up"
      PROVE  SendersListed'
  BY <1>3 DEF SendersListed, Once, Members
<1>4. ASSUME NEW c \in Contexts, NEW pipe_id, NEW btrace, NEW raio,
             Becomes(c, pipe_id, btrace, ctx[c].saio, ctx[c].spipe, raio),
             sendq' = sendq, up' = up, busy \subseteq busy'
      PROVE  SendersListed'
  <2>1. \A d \in Contexts : ctx'[d].saio = ctx[d].saio /\ ctx'[d].spipe = ctx[d].spipe
    BY <1>4 DEF Becomes
  <2>2. \A p \in Pipes : sendq[p] # <<>> => p \in busy' /\ up'[p] = "up"
    BY <1>4 DEF SendersListed
  <2> QED
    BY <1>3, <1>4, <2>1, <2>2
(* A context that no longer waits.                                         *)
<1>5. ASSUME NEW c \in Contexts, NEW pipe_id, NEW btrace, NEW spipe, NEW raio,
             Becomes(c, pipe_id, btrace, 0, spipe, raio),
             \A p \in Pipes : /\ Once(sendq'[p]) /\ Members(sendq'[p]) = Members(sendq[p]) \ {c}
                              /\ sendq'[p] # <<>> => sendq[p] # <<>>,
             busy' = busy, up' = up
      PROVE  SendersListed'
  <2>1. ctx'[c].saio = 0 /\ \A d \in Contexts \ {c} : ctx'[d] = ctx[d]
    BY <1>5 DEF Becomes
  <2>2. \A p \in Pipes, d \in Contexts :
          d \in Members(sendq'[p]) <=> ctx'[d].saio # 0 /\ ctx'[d].spipe = p
    BY <1>5, <2>1 DEF SendersListed
  <2>3. \A d \in Contexts : ctx'[d].saio # 0 => ctx'[d].spipe \in Pipes
    BY <2>1 DEF SendersListed
  <2>4. \A p \in Pipes : sendq'[p] # <<>> => p \in busy' /\ up'[p] = "up"
    BY <1>5 DEF SendersListed
  <2> QED
    BY <1>5, <2>2, <2>3, <2>4 DEF SendersListed, Once, Members
<1>6. ASSUME NEW c \in Contexts, NEW p \in Pipes
      PROVE  /\ Once(Without(sendq[p], c))
             /\ Members(Without(sendq[p], c)) = Members(sendq[p]) \ {c}
             /\ Without(sendq[p], c) # <<>> => sendq[p] # <<>>
  <2>1. Once(sendq[p])
    BY DEF SendersListed
  <2>2. sendq[p] = <<>> => Without(sendq[p], c) = <<>>
    BY DEF Without, Members
  <2> QED
    BY <1>2, <2>1, <2>2, WithoutFacts
<1>7. ASSUME NEW c \in Contexts, Recv(c) PROVE SendersListed'
  <2>1. busy' = busy /\ up' = up /\ sendq' = sendq
    BY <1>7, RecvFacts
  <2> QED
    BY <1>4, <1>7, <2>1, RecvFacts DEF Waits, Takes
<1>8. ASSUME NEW c \in Contexts, CancelRecv(c) PROVE SendersListed'
  BY <1>4, <1>8, CancelRecvFacts
<1>9. ASSUME NEW c \in Contexts, CancelSend(c) PROVE SendersListed'
  <2>1. /\ Becomes(c, ctx[c].pipe_id, ctx[c].btrace, 0, ctx[c].spipe, ctx[c].raio)
        /\ busy' = busy /\ up' = up /\ sendq' = [p \in Pipes |-> Without(sendq[p], c)]
    BY <1>9, CancelSendFacts
  <2>2. \A p \in Pipes : sendq'[p] = Without(sendq[p], c)
    BY <2>1
  <2> QED
    BY <1>5, <1>6, <2>1, <2>2
<1>10. ASSUME NEW c \in Contexts, CtxClose(c) PROVE SendersListed'
  <2>1. PICK sp : Becomes(c, ctx[c].pipe_id, ctx[c].btrace, 0, sp, FALSE)
    BY <1>10, CtxCloseFacts
  <2>2. /\ busy' = busy /\ up' = up
        /\ sendq' = IF ctx[c].saio # 0 THEN [p \in Pipes |-> Without(sendq[p], c)] ELSE sendq
    BY <1>10, CtxCloseFacts
  <2>3. ASSUME NEW p \in Pipes
        PROVE  /\ Once(sendq'[p]) /\ Members(sendq'[p]) = Members(sendq[p]) \ {c}
               /\ sendq'[p] # <<>> => sendq[p] # <<>>
    <3>1. CASE ctx[c].saio # 0
      <4>1. sendq'[p] = Without(sendq[p], c)
        BY <2>2, <3>1
      <4> QED
        BY <1>6, <4>1
    <3>2. CASE ctx[c].saio = 0
      <4>1. sendq'[p] = sendq[p]
        BY <2>2, <3>2
      <4>2. c \notin Members(sendq[p]) /\ Once(sendq[p])
        BY <3>2 DEF SendersListed
      <4> QED
        BY <4>1, <4>2
    <3> QED
      BY <3>1, <3>2
  <2> QED
    BY <1>5, <2>1, <2>2, <2>3
<1>11. ASSUME NEW c \in Contexts, NEW mayWait \in BOOLEAN, Send(c, mayWait) PROVE SendersListed'
  <2> DEFINE p == ctx[c].pipe_id
  <2>1. up' = up
    BY <1>11, SendFacts
  <2>2. CASE Drops(c) \/ SendsOn(c, p)
    BY <1>4, <2>1, <2>2 DEF Drops, SendsOn
  <2>3. CASE ctx[c].btrace # 0 /\ p \in Pipes /\ up[p] = "up" /\ QueuesOn(c, p)
    <3>1. /\ ctx'[c].saio = ctx[c].btrace /\ ctx'[c].spipe = p /\ ctx[c].saio = 0
          /\ \A d \in Contexts \ {c} : ctx'[d] = ctx[d]
          /\ busy' = busy /\ p \in busy /\ sendq' = [sendq EXCEPT ![p] = Append(sendq[p], c)]
      BY <2>3 DEF QueuesOn, Becomes
    <3>2. \A q \in Pipes : c \notin Members(sendq[q])
      BY <3>1 DEF SendersListed
    <3> HIDE DEF p
    <3>3. /\ Once(Append(sendq[p], c)) /\ Members(Append(sendq[p], c)) = Members(sendq[p]) \cup {c}
      BY <1>2, <2>3, <3>2, AppendFacts DEF SendersListed
    <3>4. /\ sendq'[p] = Append(sendq[p], c)
          /\ \A q \in Pipes \ {p} : sendq'[q] = sendq[q]
      BY <1>1, <2>3, <3>1
    <3>5. \A q \in Pipes : Once(sendq'[q])
      BY <3>3, <3>4 DEF SendersListed
    <3>6. \A q \in Pipes, d \in Contexts :
            d \in Members(sendq'[q]) <=> ctx'[d].saio # 0 /\ ctx'[d].spipe = q
      BY <2>3, <3>1, <3>2, <3>3, <3>4 DEF SendersListed
    <3>7. \A d \in Contexts : ctx'[d].saio # 0 => ctx'[d].spipe \in Pipes
      BY <2>3, <3>1 DEF SendersListed
    <3>8. \A q \in Pipes : sendq'[q] # <<>> => q \in busy' /\ up'[q] = "up"
      BY <2>1, <2>3, <3>1, <3>4 DEF SendersListed
    <3> QED
      BY <3>5, <3>6, <3>7, <3>8 DEF SendersListed, Once, Members
  <2> QED
    BY <1>11, <2>2, <2>3, SendFacts
<1>12. ASSUME NEW p \in Pipes, PipeStart(p) PROVE SendersListed'
  <2>1. ctx' = ctx /\ sendq' = sendq /\ busy' = busy /\ up' = [up EXCEPT ![p] = "up"]
    BY <1>12, PipeStartFacts
  <2>2. \A q \in Pipes : sendq[q] # <<>> => q \in busy' /\ up'[q] = "up"
    BY <1>1, <2>1 DEF SendersListed
  <2> QED
    BY <1>3, <2>1, <2>2
<1>13. ASSUME NEW p \in Pipes, PipeClose(p) PROVE SendersListed'
  <2>1. /\ up' = [up EXCEPT ![p] = "down"] /\ sendq' = [sendq EXCEPT ![p] = <<>>] /\ busy' = busy
        /\ \A c \in Contexts :
             /\ ctx'[c].spipe = ctx[c].spipe
             /\ ctx'[c].saio = IF c \in Members(sendq[p]) THEN 0 ELSE ctx[c].saio
    BY <1>13, PipeCloseFacts
  <2>2. sendq'[p] = <<>> /\ \A q \in Pipes \ {p} : sendq'[q] = sendq[q] /\ up'[q] = up[q]
    BY <1>1, <2>1
  <2>3. Members(sendq'[p]) = {} /\ Once(sendq'[p])
    BY <2>2 DEF Members, Once
  <2>4. \A q \in Pipes : Once(sendq'[q])
    BY <2>2, <2>3 DEF SendersListed
  <2>5. ASSUME NEW q \in Pipes, NEW c \in Contexts
        PROVE  c \in Members(sendq'[q]) <=> ctx'[c].saio # 0 /\ ctx'[c].spipe = q
    <3>1. c \in Members(sendq[p]) <=> ctx[c].saio # 0 /\ ctx[c].spipe = p
      BY DEF SendersListed
    <3>2. c \in Members(sendq[q]) <=> ctx[c].saio # 0 /\ ctx[c].spipe = q
      BY DEF SendersListed
    <3> QED
      BY <2>1, <2>2, <2>3, <3>1, <3>2
  <2>6. \A c \in Contexts : ctx'[c].saio # 0 => ctx'[c].spipe \in Pipes
    BY <2>1 DEF SendersListed
  <2>7. \A q \in Pipes : sendq'[q] # <<>> => q \in busy' /\ up'[q] = "up"
    BY <2>1, <2>2 DEF SendersListed
  <2> QED
    BY <2>4, <2>5, <2>6, <2>7 DEF SendersListed, Once, Members
<1>14. ASSUME NEW p \in Pipes, Arrives(p) PROVE SendersListed'
  <2>1. ctx' = ctx /\ sendq' = sendq /\ busy' = busy /\ up' = up
    BY <1>14, ArrivesFacts
  <2> QED
    BY <1>3, <2>1 DEF SendersListed
<1>15. ASSUME NEW p \in Pipes, RecvCb(p) PROVE SendersListed'
  <2>1. sendq' = sendq /\ busy' = busy /\ up' = up
    BY <1>15, RecvCbFacts
  <2>2. CASE Discards(p) \/ Offers(p)
    <3>1. ctx' = ctx
      BY <2>2 DEF Discards, Offers
    <3> QED
      BY <1>3, <2>1, <3>1 DEF SendersListed
  <2>3. CASE Head(recvq) \in Contexts /\ Takes(Head(recvq), p, FALSE)
    BY <1>4, <2>1, <2>3 DEF Takes
  <2> QED
    BY <1>15, <2>2, <2>3, RecvCbFacts
<1>16. ASSUME NEW p \in Pipes, SendCb(p) PROVE SendersListed'
  <2>1. up' = up
    BY <1>16, SendCbFacts
  <2>2. CASE Frees(p)
    <3>1. ctx' = ctx /\ sendq' = sendq /\ busy' = busy \ {p} /\ sendq[p] = <<>>
      BY <2>2 DEF Frees
    <3>2. \A q \in Pipes : sendq[q] # <<>> => q \in busy' /\ up'[q] = "up"
      BY <2>1, <3>1 DEF SendersListed
    <3> QED
      BY <1>3, <3>1, <3>2
  <2>3. CASE SendsNext(p)
    <3> DEFINE c == Head(sendq[p])
    <3>1. /\ sendq[p] # <<>> /\ c \in Contexts /\ busy' = busy
          /\ sendq' = [sendq EXCEPT ![p] = Tail(sendq[p])]
          /\ Becomes(c, ctx[c].pipe_id, ctx[c].btrace, 0, Nobody, ctx[c].raio)
      BY <2>3 DEF SendsNext
    <3>2. Once(sendq[p])
      BY DEF SendersListed
    <3>3. /\ c \in Members(sendq[p]) /\ Once(Tail(sendq[p]))
          /\ Members(Tail(sendq[p])) = Members(sendq[p]) \ {c}
      BY <1>2, <3>1, <3>2, TailFacts
    <3> HIDE DEF c
    <3>4. sendq'[p] = Tail(sendq[p]) /\ \A q \in Pipes \ {p} : sendq'[q] = sendq[q]
      BY <1>1, <3>1
    <3>5. \A q \in Pipes \ {p} : c \notin Members(sendq[q]) /\ Once(sendq[q])
      BY <3>1, <3>3 DEF SendersListed
    <3>6. \A q \in Pipes : /\ Once(sendq'[q]) /\ Members(sendq'[q]) = Members(sendq[q]) \ {c}
                           /\ sendq'[q] # <<>> => sendq[q] # <<>>
      BY <3>1, <3>3, <3>4, <3>5
    <3> QED
      BY <1>5, <2>1, <3>1, <3>6
  <2> QED
    BY <1>16, <2>2, <2>3, SendCbFacts
<1>17. CASE UNCHANGED <<ctx, open, recvq, recvpipes, up, receiving, aio_recv, busy, sendq,
                        readable, writable, arrived, replied>>
  BY <1>3, <1>17 DEF SendersListed
<1> QED
  BY <1>7, <1>8, <1>9, <1>10, <1>11, <1>12, <1>13, <1>14, <1>15, <1>16, <1>17, StepCases

-----------------------------------------------------------------------------
(* The pipes and the pollables.                                            *)

LEMMA PipesNext ==
  ASSUME RepAssumption, RepTypeOK, RequestsListed, PipesHeld, [Next]_vars
  PROVE  PipesHeld'
<1>1. /\ up \in [Pipes -> {"new", "up", "down"}] /\ aio_recv \in [Pipes -> 0..MaxRequests]
      /\ recvpipes \in Seq(Pipes) /\ receiving \subseteq Pipes
  BY DEF RepTypeOK
<1>2. ASSUME up' = up, receiving' = receiving, aio_recv' = aio_recv, recvpipes' = recvpipes
      PROVE  PipesHeld'
  BY <1>2 DEF PipesHeld, Members
(* A pipe that is up lets go of its request and receives.                  *)
<1>3. ASSUME NEW p \in Pipes, up[p] = "up", up' = up, receiving' = receiving \cup {p},
             aio_recv' = [aio_recv EXCEPT ![p] = 0],
             Members(recvpipes') \subseteq Members(recvpipes) \ {p}
      PROVE  PipesHeld'
  <2>1. aio_recv'[p] = 0 /\ \A q \in Pipes \ {p} : aio_recv'[q] = aio_recv[q]
    BY <1>1, <1>3
  <2>2. \A q \in receiving' : up'[q] = "up" /\ aio_recv'[q] = 0
    BY <1>1, <1>3, <2>1 DEF PipesHeld
  <2>3. \A q \in Pipes : up'[q] = "up" /\ q \notin receiving' => aio_recv'[q] # 0
    BY <1>3, <2>1 DEF PipesHeld
  <2>4. \A q \in Pipes : up'[q] = "new" => aio_recv'[q] = 0
    BY <1>3, <2>1 DEF PipesHeld
  <2>5. Members(recvpipes) \subseteq Pipes
    BY <1>1, ElementOfSeq DEF Members
  <2>6. \A q \in Members(recvpipes') : up'[q] = "up" /\ aio_recv'[q] # 0
    BY <1>3, <2>1, <2>5 DEF PipesHeld
  <2> HIDE DEF Members
  <2> QED
    BY <2>2, <2>3, <2>4, <2>6 DEF PipesHeld, Members
<1>4. ASSUME NEW c \in Contexts, Recv(c) PROVE PipesHeld'
  <2>1. up' = up
    BY <1>4, RecvFacts
  <2>2. CASE Waits(c)
    BY <1>2, <2>1, <2>2 DEF Waits
  <2>3. CASE /\ recvpipes # <<>> /\ Head(recvpipes) \in Pipes /\ recvpipes' = Tail(recvpipes)
             /\ Takes(c, Head(recvpipes), ctx[c].raio)
    <3> DEFINE p == Head(recvpipes)
    <3>1. p \in Members(recvpipes) /\ Members(recvpipes') = Members(recvpipes) \ {p}
      BY <1>1, <2>3, TailFacts DEF RequestsListed
    <3>2. up[p] = "up"
      BY <3>1 DEF PipesHeld
    <3>3. p \in Pipes /\ aio_recv' = [aio_recv EXCEPT ![p] = 0] /\ receiving' = receiving \cup {p}
      BY <2>3 DEF Takes
    <3> HIDE DEF p
    <3> QED
      BY <1>3, <2>1, <3>1, <3>2, <3>3
  <2> QED
    BY <1>4, <2>2, <2>3, RecvFacts
<1>5. ASSUME NEW c \in Contexts, CancelRecv(c) \/ CancelSend(c) \/ CtxClose(c) PROVE PipesHeld'
  BY <1>2, <1>5, CancelRecvFacts, CancelSendFacts, CtxCloseFacts
<1>6. ASSUME NEW c \in Contexts, NEW mayWait \in BOOLEAN, Send(c, mayWait) PROVE PipesHeld'
  BY <1>2, <1>6, SendFacts
<1>7. ASSUME NEW p \in Pipes, PipeStart(p) PROVE PipesHeld'
  <2>1. /\ up[p] = "new" /\ up' = [up EXCEPT ![p] = "up"] /\ receiving' = receiving \cup {p}
        /\ aio_recv' = aio_recv /\ recvpipes' = recvpipes
    BY <1>7, PipeStartFacts
  <2>2. up'[p] = "up" /\ \A q \in Pipes \ {p} : up'[q] = up[q]
    BY <1>1, <2>1
  <2>3. aio_recv[p] = 0
    BY <2>1 DEF PipesHeld
  <2>4. Members(recvpipes) \subseteq Pipes
    BY <1>1, ElementOfSeq DEF Members
  <2> QED
    BY <1>1, <2>1, <2>2, <2>3, <2>4 DEF PipesHeld, Members
<1>8. ASSUME NEW p \in Pipes, PipeClose(p) PROVE PipesHeld'
  <2>1. /\ up[p] = "up" /\ up' = [up EXCEPT ![p] = "down"] /\ receiving' = receiving \ {p}
        /\ aio_recv' = aio_recv /\ recvpipes' = Without(recvpipes, p)
    BY <1>8, PipeCloseFacts
  <2>2. up'[p] = "down" /\ \A q \in Pipes \ {p} : up'[q] = up[q]
    BY <1>1, <2>1
  <2>3. Members(recvpipes') = Members(recvpipes) \ {p} /\ Members(recvpipes) \subseteq Pipes
    <3>1. Once(recvpipes)
      BY DEF RequestsListed
    <3>2. Members(recvpipes') = Members(recvpipes) \ {p}
      BY <1>1, <2>1, <3>1, WithoutFacts
    <3>3. Members(recvpipes) \subseteq Pipes
      BY <1>1, ElementOfSeq DEF Members
    <3> QED
      BY <3>2, <3>3
  <2>4. \A q \in Members(recvpipes') : up'[q] = "up" /\ aio_recv'[q] # 0
    BY <2>1, <2>2, <2>3 DEF PipesHeld
  <2>5. \A q \in receiving' : up'[q] = "up" /\ aio_recv'[q] = 0
    BY <1>1, <2>1, <2>2 DEF PipesHeld
  <2>6. \A q \in Pipes : /\ up'[q] = "up" /\ q \notin receiving' => aio_recv'[q] # 0
                         /\ up'[q] = "new" => aio_recv'[q] = 0
    BY <2>1, <2>2 DEF PipesHeld
  <2> QED
    BY <2>4, <2>5, <2>6 DEF PipesHeld, Members
<1>9. ASSUME NEW p \in Pipes, Arrives(p) PROVE PipesHeld'
  <2>1. /\ p \in receiving /\ receiving' = receiving \ {p} /\ up' = up
        /\ aio_recv' = [aio_recv EXCEPT ![p] = Len(arrived) + 1] /\ recvpipes' = recvpipes
    BY <1>9, ArrivesFacts
  <2>2. Len(arrived) + 1 # 0
    BY LenProperties DEF RepTypeOK
  <2>3. aio_recv'[p] # 0 /\ \A q \in Pipes \ {p} : aio_recv'[q] = aio_recv[q]
    BY <1>1, <2>1, <2>2
  <2>4. up[p] = "up" /\ Members(recvpipes) \subseteq Pipes
    BY <1>1, <2>1, ElementOfSeq DEF PipesHeld, Members
  <2> QED
    BY <1>1, <2>1, <2>3, <2>4 DEF PipesHeld, Members
<1>10. ASSUME NEW p \in Pipes, RecvCb(p) PROVE PipesHeld'
  <2>1. up' = up /\ aio_recv[p] # 0 /\ p \notin Members(recvpipes)
    BY <1>10, RecvCbFacts
  <2>2. CASE Discards(p)
    <3>1. /\ up[p] = "down" /\ aio_recv' = [aio_recv EXCEPT ![p] = 0]
          /\ receiving' = receiving /\ recvpipes' = recvpipes
      BY <2>2 DEF Discards
    <3>2. aio_recv'[p] = 0 /\ \A q \in Pipes \ {p} : aio_recv'[q] = aio_recv[q]
      BY <1>1, <3>1
    <3>3. Members(recvpipes) \subseteq Pipes
      BY <1>1, ElementOfSeq DEF Members
    <3> QED
      BY <1>1, <2>1, <3>1, <3>2, <3>3 DEF PipesHeld, Members
  <2>3. CASE Offers(p)
    <3>1. /\ up[p] = "up" /\ recvpipes' = Append(recvpipes, p)
          /\ receiving' = receiving /\ aio_recv' = aio_recv
      BY <2>3 DEF Offers
    <3>2. Members(recvpipes') = Members(recvpipes) \cup {p}
      BY <1>1, <3>1, AppendFacts
    <3>3. \A q \in Members(recvpipes') : up'[q] = "up" /\ aio_recv'[q] # 0
      BY <2>1, <3>1, <3>2 DEF PipesHeld
    <3> QED
      BY <2>1, <3>1, <3>3 DEF PipesHeld, Members
  <2>4. CASE up[p] = "up" /\ recvpipes' = recvpipes /\ Takes(Head(recvq), p, FALSE)
    <3>1. aio_recv' = [aio_recv EXCEPT ![p] = 0] /\ receiving' = receiving \cup {p}
      BY <2>4 DEF Takes
    <3>2. Members(recvpipes') \subseteq Members(recvpipes) \ {p}
      BY <2>1, <2>4
    <3> QED
      BY <1>3, <2>1, <2>4, <3>1, <3>2
  <2> QED
    BY <1>10, <2>2, <2>3, <2>4, RecvCbFacts
<1>11. ASSUME NEW p \in Pipes, SendCb(p) PROVE PipesHeld'
  BY <1>2, <1>11, SendCbFacts
<1>12. CASE UNCHANGED <<ctx, open, recvq, recvpipes, up, receiving, aio_recv, busy, sendq,
                        readable, writable, arrived, replied>>
  BY <1>2, <1>12
<1> QED
  BY <1>4, <1>5, <1>6, <1>7, <1>8, <1>9, <1>10, <1>11, <1>12, StepCases

LEMMA PollsNext ==
  ASSUME RepAssumption, RepTypeOK, PipesHeld, PollsMissNothing, [Next]_vars
  PROVE  PollsMissNothing'
<1> DEFINE would(p) == p # Nobody /\ (up[p] # "up" \/ p \notin busy)
           wouldNext(p) == p # Nobody /\ (up'[p] # "up" \/ p \notin busy')
           master == ctx[Master].pipe_id
<1>1. /\ up \in [Pipes -> {"new", "up", "down"}] /\ busy \subseteq Pipes
      /\ recvpipes \in Seq(Pipes) /\ Master \in Contexts /\ master \in Pipes \cup {Nobody}
  BY ContextTypes DEF RepTypeOK, RepAssumption
<1>2. (recvpipes # <<>> => readable) /\ (would(master) => writable)
  BY DEF PollsMissNothing
<1>3. ASSUME recvpipes' # <<>> => readable', wouldNext(ctx'[Master].pipe_id) => writable'
      PROVE  PollsMissNothing'
  BY <1>3 DEF PollsMissNothing
(* What the master would answer to is as it was, and as free as it was.    *)
<1>4. ASSUME ctx'[Master].pipe_id = master, up' = up, busy \subseteq busy', writable => writable'
      PROVE  wouldNext(ctx'[Master].pipe_id) => writable'
  BY <1>2, <1>4
<1>5. ASSUME NEW c \in Contexts, NEW btrace, NEW saio, NEW spipe, NEW raio,
             Becomes(c, ctx[c].pipe_id, btrace, saio, spipe, raio)
      PROVE  ctx'[Master].pipe_id = master
  BY <1>1, <1>5 DEF Becomes
<1>6. ASSUME NEW c \in Contexts, NEW p \in Pipes, NEW raio, Takes(c, p, raio), up[p] = "up",
             up' = up, busy' = busy
      PROVE  wouldNext(ctx'[Master].pipe_id) => writable'
  <2>1. writable' = (writable \/ (c = Master /\ p \notin busy))
    BY <1>6 DEF Takes
  <2>2. CASE c = Master
    <3>1. ctx'[Master].pipe_id = p
      BY <1>6, <2>2 DEF Takes, Becomes
    <3> QED
      BY <1>6, <2>1, <2>2, <3>1
  <2>3. CASE c # Master
    <3>1. ctx'[Master] = ctx[Master]
      BY <1>1, <1>6, <2>3 DEF Takes, Becomes
    <3> QED
      BY <1>4, <1>6, <2>1, <3>1
  <2> QED
    BY <2>2, <2>3
<1>7. ASSUME NEW c \in Contexts, Recv(c) PROVE PollsMissNothing'
  <2>1. up' = up /\ busy' = busy
    BY <1>7, RecvFacts
  <2>2. CASE Waits(c)
    <3>1. ctx'[Master].pipe_id = master /\ writable' = writable /\ recvpipes' = <<>>
      BY <1>5, <2>2 DEF Waits
    <3> QED
      BY <1>3, <1>4, <2>1, <3>1
  <2>3. CASE /\ recvpipes # <<>> /\ Head(recvpipes) \in Pipes /\ recvpipes' = Tail(recvpipes)
             /\ readable' = (readable /\ Tail(recvpipes) # <<>>)
             /\ Takes(c, Head(recvpipes), ctx[c].raio)
    <3> DEFINE p == Head(recvpipes)
    <3>1. p \in Members(recvpipes)
      BY <1>1, <2>3, TailFacts
    <3>2. up[p] = "up" /\ p \in Pipes /\ Takes(c, p, ctx[c].raio)
      BY <2>3, <3>1 DEF PipesHeld
    <3> HIDE DEF p
    <3>3. wouldNext(ctx'[Master].pipe_id) => writable'
      BY <1>6, <2>1, <3>2
    <3> QED
      BY <1>2, <1>3, <2>3, <3>3
  <2> QED
    BY <1>7, <2>2, <2>3, RecvFacts
<1>8. ASSUME NEW c \in Contexts, CancelRecv(c) \/ CancelSend(c) \/ CtxClose(c)
      PROVE  PollsMissNothing'
  <2>1. /\ up' = up /\ busy' = busy /\ recvpipes' = recvpipes
        /\ readable' = readable /\ writable' = writable
    BY <1>8, CancelRecvFacts, CancelSendFacts, CtxCloseFacts
  <2>2. ctx'[Master].pipe_id = master
    BY <1>5, <1>8, CancelRecvFacts, CancelSendFacts, CtxCloseFacts
  <2> QED
    BY <1>2, <1>3, <1>4, <2>1, <2>2
<1>9. ASSUME NEW c \in Contexts, NEW mayWait \in BOOLEAN, Send(c, mayWait) PROVE PollsMissNothing'
  <2>1. /\ up' = up /\ recvpipes' = recvpipes /\ readable' = readable
        /\ writable' = (writable /\ c # Master)
        /\ Drops(c) \/ SendsOn(c, ctx[c].pipe_id) \/ QueuesOn(c, ctx[c].pipe_id)
    BY <1>9, SendFacts
  <2>2. /\ ctx'[c].pipe_id = Nobody /\ busy \subseteq busy'
        /\ \A d \in Contexts \ {c} : ctx'[d] = ctx[d]
    BY <2>1 DEF Drops, SendsOn, QueuesOn, Becomes
  <2>3. CASE c = Master
    BY <1>2, <1>3, <2>1, <2>2, <2>3
  <2>4. CASE c # Master
    <3>1. ctx'[Master].pipe_id = master
      BY <1>1, <2>2, <2>4
    <3> QED
      BY <1>2, <1>3, <1>4, <2>1, <2>2, <2>4, <3>1
  <2> QED
    BY <2>3, <2>4
<1>10. ASSUME NEW p \in Pipes, PipeStart(p) PROVE PollsMissNothing'
  <2>1. /\ up[p] = "new" /\ up' = [up EXCEPT ![p] = "up"]
        /\ ctx' = ctx /\ busy' = busy /\ recvpipes' = recvpipes
        /\ readable' = readable /\ writable' = writable
    BY <1>10, PipeStartFacts
  <2>2. wouldNext(master) => would(master)
    BY <1>1, <2>1
  <2> QED
    BY <1>2, <1>3, <2>1, <2>2
<1>11. ASSUME NEW p \in Pipes, PipeClose(p) PROVE PollsMissNothing'
  <2>1. /\ up' = [up EXCEPT ![p] = "down"] /\ busy' = busy /\ readable' = readable
        /\ recvpipes' = Without(recvpipes, p)
        /\ writable' = (writable \/ master = p)
        /\ ctx'[Master].pipe_id = master
    BY <1>1, <1>11, PipeCloseFacts
  <2>2. wouldNext(master) => would(master) \/ master = p
    BY <1>1, <2>1
  <2>3. recvpipes = <<>> => recvpipes' = <<>>
    BY <2>1 DEF Without, Members
  <2> QED
    BY <1>2, <1>3, <2>1, <2>2, <2>3
<1>12. ASSUME NEW p \in Pipes, Arrives(p) PROVE PollsMissNothing'
  <2>1. /\ up' = up /\ ctx' = ctx /\ busy' = busy /\ recvpipes' = recvpipes
        /\ readable' = readable /\ writable' = writable
    BY <1>12, ArrivesFacts
  <2> QED
    BY <1>2, <1>3, <2>1
<1>13. ASSUME NEW p \in Pipes, RecvCb(p) PROVE PollsMissNothing'
  <2>1. up' = up /\ busy' = busy
    BY <1>13, RecvCbFacts
  <2>2. CASE Discards(p) \/ Offers(p)
    <3>1. ctx' = ctx /\ writable' = writable /\ (recvpipes' # <<>> => readable')
      BY <1>2, <2>2 DEF Discards, Offers
    <3> QED
      BY <1>2, <1>3, <2>1, <3>1
  <2>3. CASE /\ up[p] = "up" /\ Head(recvq) \in Contexts /\ recvpipes' = recvpipes
             /\ readable' = readable /\ Takes(Head(recvq), p, FALSE)
    <3>1. wouldNext(ctx'[Master].pipe_id) => writable'
      BY <1>6, <2>1, <2>3
    <3> QED
      BY <1>2, <1>3, <2>3, <3>1
  <2> QED
    BY <1>13, <2>2, <2>3, RecvCbFacts
<1>14. ASSUME NEW p \in Pipes, SendCb(p) PROVE PollsMissNothing'
  <2>1. up' = up /\ recvpipes' = recvpipes /\ readable' = readable
    BY <1>14, SendCbFacts
  <2>2. CASE Frees(p)
    <3>1. ctx' = ctx /\ busy' = busy \ {p} /\ writable' = (writable \/ master = p)
      BY <2>2 DEF Frees
    <3>2. wouldNext(master) => would(master) \/ master = p
      BY <2>1, <3>1
    <3> QED
      BY <1>2, <1>3, <2>1, <3>1, <3>2
  <2>3. CASE SendsNext(p)
    <3>1. ctx'[Master].pipe_id = master /\ busy' = busy /\ writable' = writable
      BY <1>5, <2>3 DEF SendsNext
    <3> QED
      BY <1>2, <1>3, <1>4, <2>1, <3>1
  <2> QED
    BY <1>14, <2>2, <2>3, SendCbFacts
<1>15. CASE UNCHANGED <<ctx, open, recvq, recvpipes, up, receiving, aio_recv, busy, sendq,
                        readable, writable, arrived, replied>>
  BY <1>2, <1>3, <1>15
<1> QED
  BY <1>7, <1>8, <1>9, <1>10, <1>11, <1>12, <1>13, <1>14, <1>15, StepCases

-----------------------------------------------------------------------------
(* The requests: a step drops some, and at most moves, answers or brings   *)
(* one.                                                                    *)

LEMMA SpotFacts ==
  /\ \A c \in Contexts :
       /\ <<"answer", c>> \in Spots /\ <<"queued", c>> \in Spots
       /\ HeldAt(<<"answer", c>>) = ctx[c].btrace /\ Home(<<"answer", c>>) = ctx[c].pipe_id
       /\ HeldAt(<<"queued", c>>) = ctx[c].saio /\ Home(<<"queued", c>>) = ctx[c].spipe
  /\ \A p \in Pipes :
       /\ <<"pipe", p>> \in Spots
       /\ HeldAt(<<"pipe", p>>) = aio_recv[p] /\ Home(<<"pipe", p>>) = p
  /\ \A s \in Spots : \/ \E c \in Contexts : s = <<"answer", c>> \/ s = <<"queued", c>>
                      \/ \E p \in Pipes : s = <<"pipe", p>>
  BY DEF Spots, HeldAt, Home

LEMMA NoSpot == <<>> \notin Spots
  BY DEF Spots

LEMMA SpotFactsNext ==
  /\ \A c \in Contexts :
       /\ HeldAt(<<"answer", c>>)' = ctx'[c].btrace /\ Home(<<"answer", c>>)' = ctx'[c].pipe_id
       /\ HeldAt(<<"queued", c>>)' = ctx'[c].saio /\ Home(<<"queued", c>>)' = ctx'[c].spipe
  /\ \A p \in Pipes : HeldAt(<<"pipe", p>>)' = aio_recv'[p] /\ Home(<<"pipe", p>>)' = p
  BY DEF HeldAt, Home

(* Every place but b keeps or drops what it holds.                         *)
Kept(b) ==
  /\ \A c \in Contexts :
       \/ <<"answer", c>> = b \/ ctx'[c].btrace = 0
       \/ ctx'[c].btrace = ctx[c].btrace /\ ctx'[c].pipe_id = ctx[c].pipe_id
  /\ \A c \in Contexts :
       \/ <<"queued", c>> = b \/ ctx'[c].saio = 0
       \/ ctx'[c].saio = ctx[c].saio /\ ctx'[c].spipe = ctx[c].spipe
  /\ \A p \in Pipes : <<"pipe", p>> = b \/ aio_recv'[p] \in {0, aio_recv[p]}

LEMMA KeptFacts ==
  ASSUME NEW b, Kept(b), NEW s \in Spots
  PROVE  \/ s = b \/ HeldAt(s)' = 0
         \/ HeldAt(s)' = HeldAt(s) /\ Home(s)' = Home(s)
<1>1. CASE \E c \in Contexts : s = <<"answer", c>>
  <2>1. PICK c \in Contexts : s = <<"answer", c>>
    BY <1>1
  <2>2. /\ HeldAt(s) = ctx[c].btrace /\ Home(s) = ctx[c].pipe_id
        /\ HeldAt(s)' = ctx'[c].btrace /\ Home(s)' = ctx'[c].pipe_id
    BY <2>1, SpotFacts, SpotFactsNext
  <2>3. \/ s = b \/ ctx'[c].btrace = 0
        \/ ctx'[c].btrace = ctx[c].btrace /\ ctx'[c].pipe_id = ctx[c].pipe_id
    BY <2>1 DEF Kept
  <2> QED
    BY <2>2, <2>3
<1>2. CASE \E c \in Contexts : s = <<"queued", c>>
  <2>1. PICK c \in Contexts : s = <<"queued", c>>
    BY <1>2
  <2>2. /\ HeldAt(s) = ctx[c].saio /\ Home(s) = ctx[c].spipe
        /\ HeldAt(s)' = ctx'[c].saio /\ Home(s)' = ctx'[c].spipe
    BY <2>1, SpotFacts, SpotFactsNext
  <2>3. \/ s = b \/ ctx'[c].saio = 0
        \/ ctx'[c].saio = ctx[c].saio /\ ctx'[c].spipe = ctx[c].spipe
    BY <2>1 DEF Kept
  <2> QED
    BY <2>2, <2>3
<1>3. CASE \E p \in Pipes : s = <<"pipe", p>>
  <2>1. PICK p \in Pipes : s = <<"pipe", p>>
    BY <1>3
  <2>2. /\ HeldAt(s) = aio_recv[p] /\ Home(s) = p
        /\ HeldAt(s)' = aio_recv'[p] /\ Home(s)' = p
    BY <2>1, SpotFacts, SpotFactsNext
  <2>3. s = b \/ aio_recv'[p] \in {0, aio_recv[p]}
    BY <2>1 DEF Kept
  <2> QED
    BY <2>2, <2>3
<1> QED
  BY <1>1, <1>2, <1>3, SpotFacts

LEMMA HeldDropped ==
  ASSUME Origins, HeldApart, Kept(<<>>), arrived' = arrived, replied' = replied
  PROVE  Origins' /\ HeldApart'
<1>1. ASSUME NEW s \in Spots, HeldAt(s)' # 0
      PROVE  HeldAt(s)' = HeldAt(s) /\ Home(s)' = Home(s)
  <2>1. s # <<>>
    BY NoSpot
  <2> QED
    BY <1>1, <2>1, KeptFacts
<1>2. Origins'
  <2>1. \A s \in Spots : HeldAt(s)' # 0 =>
          HeldAt(s)' \in DOMAIN arrived /\ arrived[HeldAt(s)'] = Home(s)'
    BY <1>1 DEF Origins
  <2> QED
    BY <2>1 DEF Origins
<1>3. HeldApart'
  <2>1. \A s, t \in Spots : HeldAt(s)' = HeldAt(t)' /\ HeldAt(s)' # 0 => s = t
    BY <1>1 DEF HeldApart
  <2>2. \A s \in Spots, i \in DOMAIN replied : HeldAt(s)' # 0 => HeldAt(s)' # replied[i][2]
    BY <1>1 DEF HeldApart
  <2> QED
    BY <2>1, <2>2 DEF HeldApart
<1> QED
  BY <1>2, <1>3

LEMMA HeldMoved ==
  ASSUME Origins, HeldApart, NEW a \in Spots, NEW b \in Spots, a # b, Kept(b), HeldAt(a)' = 0,
         HeldAt(b)' = HeldAt(a), Home(b)' = Home(a), arrived' = arrived, replied' = replied
  PROVE  Origins' /\ HeldApart'
(* Where what a place now holds was.                                       *)
<1> DEFINE was(s) == IF s = b THEN a ELSE s
<1>1. ASSUME NEW s \in Spots, HeldAt(s)' # 0
      PROVE  /\ was(s) \in Spots /\ HeldAt(s)' = HeldAt(was(s)) /\ Home(s)' = Home(was(s))
             /\ s # a
  <2>1. CASE s = b
    BY <2>1
  <2>2. CASE s # b
    BY <1>1, <2>2, KeptFacts
  <2> QED
    BY <2>1, <2>2
<1>2. ASSUME NEW s \in Spots, NEW t \in Spots, s # a, t # a, was(s) = was(t) PROVE s = t
  BY <1>2
<1> HIDE DEF was
<1>3. Origins'
  <2>1. \A s \in Spots : HeldAt(s)' # 0 =>
          HeldAt(s)' \in DOMAIN arrived /\ arrived[HeldAt(s)'] = Home(s)'
    BY <1>1 DEF Origins
  <2> QED
    BY <2>1 DEF Origins
<1>4. HeldApart'
  <2>1. ASSUME NEW s \in Spots, NEW t \in Spots, HeldAt(s)' = HeldAt(t)', HeldAt(s)' # 0 PROVE s = t
    <3>1. /\ was(s) \in Spots /\ HeldAt(s)' = HeldAt(was(s)) /\ s # a
          /\ was(t) \in Spots /\ HeldAt(t)' = HeldAt(was(t)) /\ t # a
      BY <1>1, <2>1
    <3>2. was(s) = was(t)
      BY <2>1, <3>1 DEF HeldApart
    <3> QED
      BY <1>2, <3>1, <3>2
  <2>2. \A s \in Spots, i \in DOMAIN replied : HeldAt(s)' # 0 => HeldAt(s)' # replied[i][2]
    BY <1>1 DEF HeldApart
  <2> QED
    BY <2>1, <2>2 DEF HeldApart
<1> QED
  BY <1>3, <1>4

LEMMA HeldSent ==
  ASSUME Origins, HeldApart, NEW S, replied \in Seq(S), NEW a \in Spots, NEW p, NEW r,
         <<p, r>> \in S, Home(a) = p, HeldAt(a) = r, r # 0, Kept(<<>>), HeldAt(a)' = 0,
         arrived' = arrived, replied' = Append(replied, <<p, r>>)
  PROVE  Origins' /\ HeldApart'
<1>1. ASSUME NEW s \in Spots, HeldAt(s)' # 0
      PROVE  HeldAt(s)' = HeldAt(s) /\ Home(s)' = Home(s) /\ s # a
  <2>1. s # <<>>
    BY NoSpot
  <2> QED
    BY <1>1, <2>1, KeptFacts
<1> DEFINE n == Len(replied) + 1
<1>2. /\ DOMAIN replied = 1..Len(replied) /\ DOMAIN replied' = 1..n /\ Len(replied) \in Nat
      /\ \A i \in DOMAIN replied : replied'[i] = replied[i]
      /\ replied'[n] = <<p, r>>
  BY AppendProperties, LenProperties
<1>3. \A i \in DOMAIN replied' : i \in DOMAIN replied \/ i = n
  BY <1>2
<1> HIDE DEF n
<1>4. r \in DOMAIN arrived /\ arrived[r] = p
  BY DEF Origins
<1>5. Origins'
  <2>1. \A s \in Spots : HeldAt(s)' # 0 =>
          HeldAt(s)' \in DOMAIN arrived /\ arrived[HeldAt(s)'] = Home(s)'
    BY <1>1 DEF Origins
  <2>2. ASSUME NEW i \in DOMAIN replied'
        PROVE  replied'[i][2] \in DOMAIN arrived /\ arrived[replied'[i][2]] = replied'[i][1]
    <3>1. CASE i \in DOMAIN replied
      BY <1>2, <3>1 DEF Origins
    <3>2. CASE i = n
      BY <1>2, <1>4, <3>2
    <3> QED
      BY <1>3, <3>1, <3>2
  <2> QED
    BY <2>1, <2>2 DEF Origins
<1>6. HeldApart'
  <2>1. \A s, t \in Spots : HeldAt(s)' = HeldAt(t)' /\ HeldAt(s)' # 0 => s = t
    BY <1>1 DEF HeldApart
  <2>2. ASSUME NEW s \in Spots, NEW i \in DOMAIN replied', HeldAt(s)' # 0
        PROVE  HeldAt(s)' # replied'[i][2]
    <3>1. HeldAt(s)' = HeldAt(s) /\ s # a
      BY <1>1, <2>2
    <3>2. CASE i \in DOMAIN replied
      BY <1>2, <2>2, <3>1, <3>2 DEF HeldApart
    <3>3. CASE i = n
      <4>1. HeldAt(s) # HeldAt(a)
        BY <2>2, <3>1 DEF HeldApart
      <4> QED
        BY <1>2, <3>1, <3>3, <4>1
    <3> QED
      BY <1>3, <3>2, <3>3
  <2>3. \A i \in DOMAIN replied : replied[i][2] # r
    BY DEF HeldApart
  <2>4. ASSUME NEW i \in DOMAIN replied', NEW j \in DOMAIN replied', replied'[i][2] = replied'[j][2]
        PROVE  i = j
    <3>1. CASE i \in DOMAIN replied /\ j \in DOMAIN replied
      BY <1>2, <2>4, <3>1 DEF HeldApart
    <3>2. CASE i = n /\ j = n
      BY <3>2
    <3>3. CASE i \in DOMAIN replied /\ j = n
      BY <1>2, <2>3, <2>4, <3>3
    <3>4. CASE i = n /\ j \in DOMAIN replied
      BY <1>2, <2>3, <2>4, <3>4
    <3> QED
      BY <1>3, <3>1, <3>2, <3>3, <3>4
  <2> QED
    BY <2>1, <2>2, <2>4 DEF HeldApart
<1> QED
  BY <1>5, <1>6

LEMMA HeldArrived ==
  ASSUME Origins, HeldApart, arrived \in Seq(Pipes), NEW p \in Pipes, Kept(<<"pipe", p>>),
         aio_recv'[p] = Len(arrived) + 1, arrived' = Append(arrived, p), replied' = replied
  PROVE  Origins' /\ HeldApart'
<1> DEFINE b == <<"pipe", p>>
           n == Len(arrived) + 1
<1>1. /\ DOMAIN arrived = 1..Len(arrived) /\ DOMAIN arrived' = 1..n /\ Len(arrived) \in Nat
      /\ \A i \in DOMAIN arrived : arrived'[i] = arrived[i]
      /\ arrived'[n] = p
  BY AppendProperties, LenProperties
<1>2. n \notin DOMAIN arrived /\ n \in DOMAIN arrived' /\ DOMAIN arrived \subseteq DOMAIN arrived'
  BY <1>1
<1>3. HeldAt(b)' = n /\ Home(b)' = p /\ b \in Spots
  BY SpotFacts, SpotFactsNext
<1> HIDE DEF n, b
<1>4. ASSUME NEW s \in Spots, HeldAt(s)' # 0, s # b
      PROVE  /\ HeldAt(s)' = HeldAt(s) /\ Home(s)' = Home(s)
             /\ HeldAt(s) \in DOMAIN arrived /\ arrived[HeldAt(s)] = Home(s)
  BY <1>4, KeptFacts DEF Origins, b
<1>5. Origins'
  <2>1. \A s \in Spots : HeldAt(s)' # 0 =>
          HeldAt(s)' \in DOMAIN arrived' /\ arrived'[HeldAt(s)'] = Home(s)'
    BY <1>1, <1>2, <1>3, <1>4
  <2>2. \A i \in DOMAIN replied :
          replied[i][2] \in DOMAIN arrived' /\ arrived'[replied[i][2]] = replied[i][1]
    BY <1>1, <1>2 DEF Origins
  <2> QED
    BY <2>1, <2>2 DEF Origins
<1>6. HeldApart'
  <2>1. \A s, t \in Spots : HeldAt(s)' = HeldAt(t)' /\ HeldAt(s)' # 0 => s = t
    <3>1. \A s \in Spots : HeldAt(s)' # 0 /\ s # b => HeldAt(s)' # n
      BY <1>2, <1>4
    <3>2. ASSUME NEW s \in Spots, NEW t \in Spots, HeldAt(s)' = HeldAt(t)', HeldAt(s)' # 0,
                 s # b, t # b
          PROVE  s = t
      <4>1. HeldAt(s)' = HeldAt(s) /\ HeldAt(t)' = HeldAt(t)
        BY <1>4, <3>2
      <4> QED
        BY <3>2, <4>1 DEF HeldApart
    <3> QED
      BY <1>3, <3>1, <3>2
  <2>2. \A s \in Spots, i \in DOMAIN replied : HeldAt(s)' # 0 => HeldAt(s)' # replied[i][2]
    <3>1. \A i \in DOMAIN replied : replied[i][2] # n
      BY <1>2 DEF Origins
    <3> QED
      BY <1>3, <1>4, <3>1 DEF HeldApart
  <2> QED
    BY <2>1, <2>2 DEF HeldApart
<1> QED
  BY <1>5, <1>6

(* A context that takes the request of a pipe moves it.                    *)
LEMMA TakesMoves ==
  ASSUME RepTypeOK, Origins, HeldApart, NEW c \in Contexts, NEW p \in Pipes, NEW raio,
         Takes(c, p, raio), arrived' = arrived, replied' = replied
  PROVE  Origins' /\ HeldApart'
<1> DEFINE a == <<"pipe", p>>
           b == <<"answer", c>>
<1>1. /\ ctx'[c].pipe_id = p /\ ctx'[c].btrace = aio_recv[p]
      /\ ctx'[c].saio = ctx[c].saio /\ ctx'[c].spipe = ctx[c].spipe
      /\ \A d \in Contexts \ {c} : ctx'[d] = ctx[d]
      /\ aio_recv' = [aio_recv EXCEPT ![p] = 0]
  BY DEF Takes, Becomes
<1>2. aio_recv'[p] = 0 /\ \A q \in Pipes : aio_recv'[q] \in {0, aio_recv[q]}
  BY <1>1 DEF RepTypeOK
<1>3. Kept(b)
  BY <1>1, <1>2 DEF Kept
<1>4. /\ a \in Spots /\ b \in Spots /\ a # b
      /\ HeldAt(a) = aio_recv[p] /\ Home(a) = p /\ HeldAt(a)' = 0
      /\ HeldAt(b)' = aio_recv[p] /\ Home(b)' = p
  BY <1>1, <1>2, SpotFacts, SpotFactsNext
<1> HIDE DEF a, b
<1> QED
  BY <1>3, <1>4, HeldMoved

(* A context that only lets go of what it holds.                           *)
LEMMA BecomesDrops ==
  ASSUME Origins, HeldApart, NEW c \in Contexts, NEW pipe_id, NEW btrace, NEW saio, NEW spipe,
         NEW raio, Becomes(c, pipe_id, btrace, saio, spipe, raio),
         btrace = 0 \/ (btrace = ctx[c].btrace /\ pipe_id = ctx[c].pipe_id),
         saio = 0 \/ (saio = ctx[c].saio /\ spipe = ctx[c].spipe),
         aio_recv' = aio_recv
  PROVE  Kept(<<>>)
  BY DEF Becomes, Kept

LEMMA HeldNext ==
  ASSUME RepAssumption, RepTypeOK, SendersListed, Origins, HeldApart, [Next]_vars
  PROVE  Origins' /\ HeldApart'
<1>1. replied \in Seq(Pipes \X (1..MaxRequests)) /\ arrived \in Seq(Pipes)
  BY DEF RepTypeOK
<1>2. ASSUME NEW p \in Pipes, NEW r \in 0..MaxRequests, r # 0
      PROVE  <<p, r>> \in Pipes \X (1..MaxRequests)
  BY <1>2 DEF RepAssumption
<1>3. ASSUME NEW c \in Contexts, Recv(c) PROVE Origins' /\ HeldApart'
  <2>1. arrived' = arrived /\ replied' = replied
    BY <1>3, RecvFacts
  <2>2. CASE Waits(c)
    <3>1. Kept(<<>>)
      BY <2>2, BecomesDrops DEF Waits
    <3> QED
      BY <2>1, <3>1, HeldDropped
  <2>3. CASE Head(recvpipes) \in Pipes /\ Takes(c, Head(recvpipes), ctx[c].raio)
    BY <2>1, <2>3, TakesMoves
  <2> QED
    BY <1>3, <2>2, <2>3, RecvFacts
<1>4. ASSUME NEW c \in Contexts, CancelRecv(c) PROVE Origins' /\ HeldApart'
  <2>1. /\ Becomes(c, ctx[c].pipe_id, ctx[c].btrace, ctx[c].saio, ctx[c].spipe, FALSE)
        /\ aio_recv' = aio_recv /\ arrived' = arrived /\ replied' = replied
    BY <1>4, CancelRecvFacts
  <2>2. Kept(<<>>)
    BY <2>1, BecomesDrops
  <2> QED
    BY <2>1, <2>2, HeldDropped
<1>5. ASSUME NEW c \in Contexts, CancelSend(c) PROVE Origins' /\ HeldApart'
  <2>1. /\ Becomes(c, ctx[c].pipe_id, ctx[c].btrace, 0, ctx[c].spipe, ctx[c].raio)
        /\ aio_recv' = aio_recv /\ arrived' = arrived /\ replied' = replied
    BY <1>5, CancelSendFacts
  <2>2. Kept(<<>>)
    BY <2>1, BecomesDrops
  <2> QED
    BY <2>1, <2>2, HeldDropped
<1>6. ASSUME NEW c \in Contexts, CtxClose(c) PROVE Origins' /\ HeldApart'
  <2>1. PICK sp : Becomes(c, ctx[c].pipe_id, ctx[c].btrace, 0, sp, FALSE)
    BY <1>6, CtxCloseFacts
  <2>2. aio_recv' = aio_recv /\ arrived' = arrived /\ replied' = replied
    BY <1>6, CtxCloseFacts
  <2>3. Kept(<<>>)
    BY <2>1, <2>2, BecomesDrops
  <2> QED
    BY <2>2, <2>3, HeldDropped
<1>7. ASSUME NEW c \in Contexts, NEW mayWait \in BOOLEAN, Send(c, mayWait)
      PROVE  Origins' /\ HeldApart'
  <2> DEFINE p == ctx[c].pipe_id
             r == ctx[c].btrace
             a == <<"answer", c>>
  <2>1. aio_recv' = aio_recv /\ arrived' = arrived
    BY <1>7, SendFacts
  <2>2. a \in Spots /\ HeldAt(a) = r /\ Home(a) = p /\ HeldAt(a)' = ctx'[c].btrace
    BY SpotFacts, SpotFactsNext
  <2>3. r \in 0..MaxRequests
    BY ContextTypes
  <2>4. CASE Drops(c)
    <3>1. Becomes(c, Nobody, 0, ctx[c].saio, ctx[c].spipe, ctx[c].raio) /\ replied' = replied
      BY <2>4 DEF Drops
    <3>2. Kept(<<>>)
      BY <2>1, <3>1, BecomesDrops
    <3> QED
      BY <2>1, <3>1, <3>2, HeldDropped
  <2>5. CASE r # 0 /\ p \in Pipes /\ SendsOn(c, p)
    <3>1. /\ Becomes(c, Nobody, 0, ctx[c].saio, ctx[c].spipe, ctx[c].raio)
          /\ replied' = Append(replied, <<p, r>>)
      BY <2>5 DEF SendsOn
    <3>2. Kept(<<>>)
      BY <2>1, <3>1, BecomesDrops
    <3>3. HeldAt(a)' = 0
      BY <2>2, <3>1 DEF Becomes
    <3>4. <<p, r>> \in Pipes \X (1..MaxRequests)
      BY <1>2, <2>3, <2>5
    <3> HIDE DEF p, r, a
    <3> QED
      BY <1>1, <2>1, <2>2, <2>5, <3>1, <3>2, <3>3, <3>4, HeldSent
  <2>6. CASE r # 0 /\ p \in Pipes /\ QueuesOn(c, p)
    <3> DEFINE b == <<"queued", c>>
    <3>1. /\ ctx'[c].pipe_id = Nobody /\ ctx'[c].btrace = 0
          /\ ctx'[c].saio = r /\ ctx'[c].spipe = p
          /\ \A d \in Contexts \ {c} : ctx'[d] = ctx[d]
          /\ replied' = replied
      BY <2>6 DEF QueuesOn, Becomes
    <3>2. Kept(b)
      BY <2>1, <3>1 DEF Kept
    <3>3. b \in Spots /\ HeldAt(b)' = r /\ Home(b)' = p /\ HeldAt(a)' = 0 /\ a # b
      BY <2>2, <3>1, SpotFacts, SpotFactsNext
    <3> HIDE DEF p, r, a, b
    <3> QED
      BY <2>1, <2>2, <3>1, <3>2, <3>3, HeldMoved
  <2> QED
    BY <1>7, <2>4, <2>5, <2>6, SendFacts
<1>8. ASSUME NEW p \in Pipes, PipeStart(p) PROVE Origins' /\ HeldApart'
  <2>1. ctx' = ctx /\ aio_recv' = aio_recv /\ arrived' = arrived /\ replied' = replied
    BY <1>8, PipeStartFacts
  <2>2. Kept(<<>>)
    BY <2>1 DEF Kept
  <2> QED
    BY <2>1, <2>2, HeldDropped
<1>9. ASSUME NEW p \in Pipes, PipeClose(p) PROVE Origins' /\ HeldApart'
  <2>1. /\ aio_recv' = aio_recv /\ arrived' = arrived /\ replied' = replied
        /\ \A c \in Contexts :
              /\ ctx'[c].pipe_id = ctx[c].pipe_id /\ ctx'[c].btrace = ctx[c].btrace
              /\ ctx'[c].spipe = ctx[c].spipe
              /\ ctx'[c].saio = IF c \in Members(sendq[p]) THEN 0 ELSE ctx[c].saio
    BY <1>9, PipeCloseFacts
  <2>2. Kept(<<>>)
    BY <2>1 DEF Kept
  <2> QED
    BY <2>1, <2>2, HeldDropped
<1>10. ASSUME NEW p \in Pipes, Arrives(p) PROVE Origins' /\ HeldApart'
  <2>1. /\ ctx' = ctx /\ replied' = replied /\ arrived' = Append(arrived, p)
        /\ aio_recv' = [aio_recv EXCEPT ![p] = Len(arrived) + 1]
    BY <1>10, ArrivesFacts
  <2>2. aio_recv'[p] = Len(arrived) + 1 /\ \A q \in Pipes \ {p} : aio_recv'[q] = aio_recv[q]
    BY <2>1 DEF RepTypeOK
  <2>3. Kept(<<"pipe", p>>)
    BY <2>1, <2>2 DEF Kept
  <2> QED
    BY <1>1, <2>1, <2>2, <2>3, HeldArrived
<1>11. ASSUME NEW p \in Pipes, RecvCb(p) PROVE Origins' /\ HeldApart'
  <2>1. arrived' = arrived /\ replied' = replied
    BY <1>11, RecvCbFacts
  <2>2. CASE Discards(p) \/ Offers(p)
    <3>1. ctx' = ctx /\ (aio_recv' = [aio_recv EXCEPT ![p] = 0] \/ aio_recv' = aio_recv)
      BY <2>2 DEF Discards, Offers
    <3>2. \A q \in Pipes : aio_recv'[q] \in {0, aio_recv[q]}
      BY <3>1 DEF RepTypeOK
    <3>3. Kept(<<>>)
      BY <3>1, <3>2 DEF Kept
    <3> QED
      BY <2>1, <3>3, HeldDropped
  <2>3. CASE Head(recvq) \in Contexts /\ Takes(Head(recvq), p, FALSE)
    BY <2>1, <2>3, TakesMoves
  <2> QED
    BY <1>11, <2>2, <2>3, RecvCbFacts
<1>12. ASSUME NEW p \in Pipes, SendCb(p) PROVE Origins' /\ HeldApart'
  <2>1. aio_recv' = aio_recv /\ arrived' = arrived
    BY <1>12, SendCbFacts
  <2>2. CASE Frees(p)
    <3>1. ctx' = ctx /\ replied' = replied
      BY <2>2 DEF Frees
    <3>2. Kept(<<>>)
      BY <2>1, <3>1 DEF Kept
    <3> QED
      BY <2>1, <3>1, <3>2, HeldDropped
  <2>3. CASE SendsNext(p)
    <3>0. PICK c \in Contexts : c = Head(sendq[p])
      BY <2>3 DEF SendsNext
    <3> DEFINE r == ctx[c].saio
               a == <<"queued", c>>
    <3>1. /\ sendq[p] # <<>> /\ c \in Contexts
          /\ Becomes(c, ctx[c].pipe_id, ctx[c].btrace, 0, Nobody, ctx[c].raio)
          /\ replied' = Append(replied, <<p, r>>)
      BY <2>3, <3>0 DEF SendsNext
    <3>2. sendq[p] \in Seq(Contexts)
      BY DEF RepTypeOK
    <3>3. c \in Members(sendq[p])
      BY <3>0, <3>1, <3>2, TailFacts
    <3>4. r # 0 /\ ctx[c].spipe = p /\ r \in 0..MaxRequests
      BY <3>1, <3>3, ContextTypes DEF SendersListed
    <3>5. Kept(<<>>)
      BY <2>1, <3>1, BecomesDrops
    <3>6. a \in Spots /\ HeldAt(a) = r /\ Home(a) = p /\ HeldAt(a)' = 0
      <4>1. a \in Spots /\ HeldAt(a) = r /\ Home(a) = ctx[c].spipe /\ HeldAt(a)' = ctx'[c].saio
        BY <3>1, SpotFacts, SpotFactsNext
      <4>2. ctx'[c].saio = 0
        BY <3>1 DEF Becomes
      <4> QED
        BY <3>4, <4>1, <4>2
    <3>7. <<p, r>> \in Pipes \X (1..MaxRequests)
      BY <1>2, <3>4
    <3>8. r # 0 /\ replied' = Append(replied, <<p, r>>)
      BY <3>1, <3>4
    <3> HIDE DEF r, a
    <3> QED
      BY <1>1, <2>1, <3>5, <3>6, <3>7, <3>8, HeldSent
  <2> QED
    BY <1>12, <2>2, <2>3, SendCbFacts
<1>13. CASE UNCHANGED <<ctx, open, recvq, recvpipes, up, receiving, aio_recv, busy, sendq,
                        readable, writable, arrived, replied>>
  <2>1. Kept(<<>>)
    BY <1>13 DEF Kept
  <2> QED
    BY <1>13, <2>1, HeldDropped
<1> QED
  BY <1>3, <1>4, <1>5, <1>6, <1>7, <1>8, <1>9, <1>10, <1>11, <1>12, <1>13, StepCases

-----------------------------------------------------------------------------
(* What the parts of the invariant come to.                                *)

LEMMA AtMostOne ==
  ASSUME NEW S, \A x, y \in S : x = y
  PROVE  Cardinality(S) = 0 \/ (S # {} /\ Cardinality(S) = 1)
<1>1. CASE S = {}
  BY <1>1, FS_EmptySet
<1>2. CASE S # {}
  <2>1. PICK x \in S : TRUE
    BY <1>2
  <2>2. S = {x}
    BY <2>1
  <2> QED
    BY <1>2, <2>2, FS_Singleton
<1> QED
  BY <1>1, <1>2

LEMMA HeldOnce == HeldApart => OneHolder
<1> SUFFICES ASSUME HeldApart, NEW r \in 1..MaxRequests
             PROVE  Cardinality({c \in Contexts : ctx[c].btrace = r})
                      + Cardinality({c \in Contexts : ctx[c].saio = r})
                      + Cardinality({p \in Pipes : aio_recv[p] = r})
                      + Cardinality({i \in DOMAIN replied : replied[i][2] = r}) <= 1
  BY DEF OneHolder
<1> DEFINE answers == {c \in Contexts : ctx[c].btrace = r}
           queued == {c \in Contexts : ctx[c].saio = r}
           held == {p \in Pipes : aio_recv[p] = r}
           answered == {i \in DOMAIN replied : replied[i][2] = r}
<1>1. r # 0
  OBVIOUS
<1>2. /\ \A c \in answers : <<"answer", c>> \in Spots /\ HeldAt(<<"answer", c>>) = r
      /\ \A c \in queued : <<"queued", c>> \in Spots /\ HeldAt(<<"queued", c>>) = r
      /\ \A p \in held : <<"pipe", p>> \in Spots /\ HeldAt(<<"pipe", p>>) = r
  BY SpotFacts
<1>3. \A i \in answered : i \in DOMAIN replied /\ replied[i][2] = r
  OBVIOUS
<1> HIDE DEF answers, queued, held, answered
<1>4. \A s, t \in Spots : HeldAt(s) = r /\ HeldAt(t) = r => s = t
  BY <1>1 DEF HeldApart
<1>5. \A c, d \in answers : c = d
  BY <1>2, <1>4
<1>6. \A c, d \in queued : c = d
  BY <1>2, <1>4
<1>7. \A c, d \in held : c = d
  BY <1>2, <1>4
<1>8. \A i, j \in answered : i = j
  BY <1>3 DEF HeldApart
<1>9. ASSUME NEW s \in Spots, HeldAt(s) = r, NEW i \in answered PROVE FALSE
  <2>1. HeldAt(s) # replied[i][2]
    BY <1>1, <1>3, <1>9 DEF HeldApart
  <2> QED
    BY <1>3, <1>9, <2>1
<1>10. answers = {} \/ (queued = {} /\ held = {} /\ answered = {})
  <2>1. ASSUME NEW c \in answers, NEW d \in queued PROVE FALSE
    BY <1>2, <1>4, <2>1
  <2>2. ASSUME NEW c \in answers, NEW p \in held PROVE FALSE
    BY <1>2, <1>4, <2>2
  <2>3. ASSUME NEW c \in answers, NEW i \in answered PROVE FALSE
    BY <1>2, <1>9, <2>3
  <2> QED
    BY <2>1, <2>2, <2>3
<1>11. queued = {} \/ (held = {} /\ answered = {})
  <2>1. ASSUME NEW d \in queued, NEW p \in held PROVE FALSE
    BY <1>2, <1>4, <2>1
  <2>2. ASSUME NEW d \in queued, NEW i \in answered PROVE FALSE
    BY <1>2, <1>9, <2>2
  <2> QED
    BY <2>1, <2>2
<1>12. held = {} \/ answered = {}
  <2>1. ASSUME NEW p \in held, NEW i \in answered PROVE FALSE
    BY <1>2, <1>9, <2>1
  <2> QED
    BY <2>1
<1> DEFINE a == Cardinality(answers)
           q == Cardinality(queued)
           h == Cardinality(held)
           g == Cardinality(answered)
<1>13. /\ a = 0 \/ (answers # {} /\ a = 1)
       /\ q = 0 \/ (queued # {} /\ q = 1)
       /\ h = 0 \/ (held # {} /\ h = 1)
       /\ g = 0 \/ (answered # {} /\ g = 1)
  BY <1>5, <1>6, <1>7, <1>8, AtMostOne
<1> HIDE DEF a, q, h, g
<1>14. a + q + h + g <= 1
  BY <1>10, <1>11, <1>12, <1>13
<1> QED
  BY <1>14 DEF a, q, h, g, answers, queued, held, answered

LEMMA PartsSound ==
  ASSUME RepTypeOK, ReceiversListed, RequestsListed, SendersListed, PipesHeld, Origins, HeldApart,
         PollsMissNothing
  PROVE  RepSound
<1>1. RepliesGoBack
  BY DEF RepliesGoBack, Origins, HeldApart
<1>2. PipesListen
  BY DEF PipesListen, PipesHeld
<1>3. NobodyWaitsForNothing
  <2>1. recvq = <<>> \/ recvpipes = <<>>
    BY DEF RequestsListed
  <2>2. \A c \in Contexts : ctx[c].raio <=> c \in Members(recvq)
    BY DEF ReceiversListed
  <2>3. \A c \in Contexts : ctx[c].saio # 0 <=> \E p \in Pipes : c \in Members(sendq[p])
    BY DEF SendersListed
  <2>4. \A p \in Pipes : sendq[p] # <<>> => p \in busy /\ up[p] = "up"
    BY DEF SendersListed
  <2> QED
    BY <2>1, <2>2, <2>3, <2>4 DEF NobodyWaitsForNothing
<1> QED
  BY <1>1, <1>2, <1>3, HeldOnce DEF RepSound

LEMMA PartsInit ==
  ASSUME RepAssumption, Init
  PROVE  /\ RepTypeOK /\ ReceiversListed /\ RequestsListed /\ SendersListed
         /\ PipesHeld /\ Origins /\ HeldApart /\ PollsMissNothing
<1>1. RepTypeOK
  <2>1. Blank \in Context
    BY DEF Blank, Context, RepAssumption
  <2>2. ctx \in [Contexts -> Context]
    BY <2>1 DEF Init
  <2>3. Len(arrived) <= MaxRequests
    BY EmptySeq DEF Init, RepAssumption
  <2>4. recvq \in Seq(Contexts) /\ recvpipes \in Seq(Pipes) /\ arrived \in Seq(Pipes)
        /\ replied \in Seq(Pipes \X (1..MaxRequests)) /\ sendq \in [Pipes -> Seq(Contexts)]
    BY EmptySeq DEF Init
  <2>5. /\ open \subseteq Contexts /\ up \in [Pipes -> {"new", "up", "down"}]
        /\ receiving \subseteq Pipes /\ busy \subseteq Pipes
        /\ readable \in BOOLEAN /\ writable \in BOOLEAN
    BY DEF Init
  <2>6. aio_recv \in [Pipes -> 0..MaxRequests]
    BY DEF Init, RepAssumption
  <2> QED
    BY <2>2, <2>3, <2>4, <2>5, <2>6 DEF RepTypeOK, Context
<1>2. /\ \A c \in Contexts : ctx[c].raio = FALSE /\ ctx[c].saio = 0 /\ ctx[c].btrace = 0
      /\ ctx[Master].pipe_id = Nobody
  BY DEF Init, Blank, RepAssumption
<1>3. ReceiversListed /\ RequestsListed /\ SendersListed
  BY <1>2 DEF Init, ReceiversListed, RequestsListed, SendersListed, Once, Members
<1>4. PipesHeld /\ PollsMissNothing
  BY <1>2 DEF Init, PipesHeld, PollsMissNothing, Members
<1>5. ASSUME NEW s \in Spots PROVE HeldAt(s) = 0
  <2>1. ASSUME NEW p \in Pipes PROVE HeldAt(<<"pipe", p>>) = 0
    BY SpotFacts DEF Init
  <2>2. ASSUME NEW c \in Contexts
        PROVE  HeldAt(<<"answer", c>>) = 0 /\ HeldAt(<<"queued", c>>) = 0
    BY <1>2, SpotFacts
  <2>3. \/ \E c \in Contexts : s = <<"answer", c>> \/ s = <<"queued", c>>
        \/ \E p \in Pipes : s = <<"pipe", p>>
    BY SpotFacts
  <2> QED
    BY <2>1, <2>2, <2>3
<1>6. Origins /\ HeldApart
  BY <1>5 DEF Init, Origins, HeldApart
<1> QED
  BY <1>1, <1>3, <1>4, <1>6

(* However contexts receive, send, cancel and close, and pipes come, call  *)
(* back and go: a reply goes where its request came from and no request is *)
(* answered twice or in two places; no pipe goes deaf; nothing waits that  *)
(* could go on; and the pollables miss nothing.                            *)
THEOREM RepIsSound == ASSUME RepAssumption PROVE Spec => []RepSound
<1>1. Init => /\ RepTypeOK /\ ReceiversListed /\ RequestsListed /\ SendersListed
              /\ PipesHeld /\ Origins /\ HeldApart /\ PollsMissNothing
  BY PartsInit
<1>2. RepTypeOK /\ SendersListed /\ [Next]_vars => RepTypeOK'
  BY TypesNext
<1>3. RepTypeOK /\ ReceiversListed /\ [Next]_vars => ReceiversListed'
  BY ReceiversNext
<1>4. RepTypeOK /\ RequestsListed /\ [Next]_vars => RequestsListed'
  BY RequestsNext
<1>5. RepTypeOK /\ SendersListed /\ [Next]_vars => SendersListed'
  BY SendersNext
<1>6. RepTypeOK /\ RequestsListed /\ PipesHeld /\ [Next]_vars => PipesHeld'
  BY PipesNext
<1>7. RepTypeOK /\ SendersListed /\ Origins /\ HeldApart /\ [Next]_vars => Origins' /\ HeldApart'
  BY HeldNext
<1>8. RepTypeOK /\ PipesHeld /\ PollsMissNothing /\ [Next]_vars => PollsMissNothing'
  BY PollsNext
<1>9. /\ RepTypeOK /\ ReceiversListed /\ RequestsListed /\ SendersListed
      /\ PipesHeld /\ Origins /\ HeldApart /\ PollsMissNothing
      => RepSound
  BY PartsSound
<1> QED
  BY <1>1, <1>2, <1>3, <1>4, <1>5, <1>6, <1>7, <1>8, <1>9, PTL DEF Spec

-----------------------------------------------------------------------------
(* TcpTransport: the pipes that wait are in the list once; what is         *)
(* negotiated is neither there nor handed out; the endpoint counts the     *)
(* pipes and is done with when its operations are at rest.                 *)

WaitingOK ==
  /\ \A i \in DOMAIN waitpipes : tranPipe[waitpipes[i]].st = "wait"
  /\ \A i, j \in DOMAIN waitpipes : waitpipes[i] = waitpipes[j] => i = j

NegotiatedOK ==
  \A c \in TcpConns :
    /\ tranPipe[c].nego # "idle" => tranPipe[c].st = "nego" /\ ~tranPipe[c].reaped
    /\ tranPipe[c].reaped => tranPipe[c].st = "nego"

Active == TcpConns \ Tran!Of("free")

CountOK == IsFiniteSet(Active) /\ tranEp.refcnt = Cardinality(Active)

EndsOK ==
  /\ core \in {"open", "closed", "fini"}
  /\ core = "open" <=> ~tranEp.closed
  /\ tranEp.fini => core = "fini" /\ connaio = "idle" /\ timeaio = "idle"
  /\ tranEp.freed => tranEp.refcnt = 0 /\ tranEp.fini
  /\ timeaio = "closed" => tranEp.closed
  /\ timeaio # "idle" => Listening
  /\ core # "open" => useraio # "pending"

(* An attempt of a dialer is in one place: it connects, or one pipe is     *)
(* negotiated, and the socket waits for it.                                *)
AttemptOK ==
  ~Listening /\ core = "open" =>
    /\ waitpipes = <<>>
    /\ useraio # "pending" => connaio = "idle"
    /\ \A c \in TcpConns : tranPipe[c].nego # "idle" =>
         /\ useraio = "pending" /\ connaio = "idle"
         /\ \A d \in TcpConns : tranPipe[d].nego # "idle" => c = d

(* Without an EPIPE nothing says that the endpoint is closed but its close. *)
AskingOK ==
  Errors \subseteq {"reset"} /\ core = "open" =>
    /\ useraio \notin {"closed", "off"}
    /\ \A c \in TcpConns : tranPipe[c].nego # "closed"

TranInv ==
  /\ Tran!TypeOK /\ WaitingOK /\ NegotiatedOK /\ CountOK /\ EndsOK /\ AttemptOK /\ AskingOK
  /\ Tran!NoMissedMatch /\ Tran!KeepsAccepting

TranPipe == [st : {"free", "nego", "wait", "busy"}, stage : 0 .. 3,
             nego : {"idle", "pending", "some", "reset", "closed"},
             stopped : BOOLEAN, reaped : BOOLEAN]
TranEp == [started : BOOLEAN, closed : BOOLEAN, fini : BOOLEAN, freed : BOOLEAN, refcnt : Nat]

(* The types of the variables.                                             *)
LEMMA TranTypes ==
  Tran!TypeOK <=>
    /\ tranEp \in TranEp
    /\ useraio \in {"idle", "pending", "ok", "reset", "closed", "off"}
    /\ connaio \in {"idle", "pending", "ok", "error", "closed"}
    /\ timeaio \in {"idle", "pending", "closed"}
    /\ tranPipe \in [TcpConns -> TranPipe]
    /\ waitpipes \in Seq(TcpConns)
  BY DEF Tran!TypeOK, TranEp, TranPipe

LEMMA TranTypesNext ==
  Tran!TypeOK' <=>
    /\ tranEp' \in TranEp
    /\ useraio' \in {"idle", "pending", "ok", "reset", "closed", "off"}
    /\ connaio' \in {"idle", "pending", "ok", "error", "closed"}
    /\ timeaio' \in {"idle", "pending", "closed"}
    /\ tranPipe' \in [TcpConns -> TranPipe]
    /\ waitpipes' \in Seq(TcpConns)
  BY DEF Tran!TypeOK, TranEp, TranPipe

(* A step that leaves the pipes alone.                                     *)
LEMMA PipesAlone ==
  ASSUME TranInv, UNCHANGED <<tranPipe, waitpipes>>, tranEp'.refcnt = tranEp.refcnt
  PROVE  WaitingOK' /\ NegotiatedOK' /\ CountOK'
  BY DEF TranInv, WaitingOK, NegotiatedOK, CountOK, Active, Tran!Of

(* A step that neither makes nor ends a pipe.                              *)
LEMMA SameActive ==
  ASSUME CountOK, tranEp'.refcnt = tranEp.refcnt,
         \A c \in TcpConns : tranPipe'[c].st = "free" <=> tranPipe[c].st = "free"
  PROVE  CountOK'
<1>1. Active' = Active
  BY DEF Active, Tran!Of
<1> QED
  BY <1>1 DEF CountOK

LEMMA TranScalars ==
  ASSUME TranInv,
         \/ Tran!UserCb \/ Tran!UserOff \/ Tran!TimerCb \/ Tran!ConnFails \/ Tran!ConnDone
         \/ Tran!EpConnect \/ Tran!EpFini
  PROVE  TranInv'
<1>0. /\ Tran!TypeOK /\ WaitingOK /\ NegotiatedOK /\ CountOK /\ EndsOK /\ AttemptOK /\ AskingOK
      /\ Tran!NoMissedMatch /\ Tran!KeepsAccepting
  BY DEF TranInv
<1>1. UNCHANGED <<tranPipe, waitpipes>>
  BY DEF Tran!UserCb, Tran!UserOff, Tran!TimerCb, Tran!ConnFails, Tran!ConnDone, Tran!EpConnect,
         Tran!EpFini, Tran!AcceptFails, Tran!AcceptNoMemory, Tran!DialFails
<1>2. /\ tranEp' \in TranEp /\ tranEp'.refcnt = tranEp.refcnt
      /\ tranEp'.started = tranEp.started /\ tranEp'.closed = tranEp.closed
  BY <1>0, TranTypes
  DEF TranEp, Tran!UserCb, Tran!UserOff, Tran!TimerCb, Tran!ConnFails, Tran!ConnDone,
      Tran!EpConnect, Tran!EpFini, Tran!AcceptFails, Tran!AcceptNoMemory, Tran!DialFails
<1>3. WaitingOK' /\ NegotiatedOK' /\ CountOK'
  BY <1>1, <1>2, PipesAlone
<1>4. Tran!TypeOK'
  <2>1. /\ useraio' \in {"idle", "pending", "ok", "reset", "closed", "off"}
        /\ connaio' \in {"idle", "pending", "ok", "error", "closed"}
        /\ timeaio' \in {"idle", "pending", "closed"}
    BY <1>0 DEF Tran!TypeOK, Tran!UserCb, Tran!UserOff, Tran!TimerCb, Tran!ConnFails,
       Tran!ConnDone, Tran!EpConnect, Tran!EpFini, Tran!AcceptFails, Tran!AcceptNoMemory,
       Tran!DialFails, Tran!FailUser, Tran!Matching
  <2> QED
    BY <1>0, <1>1, <1>2, <2>1, TranTypes, TranTypesNext
<1>5. EndsOK'
  BY <1>0, <1>2, TranTypes
  DEF EndsOK, TranEp, Tran!UserCb, Tran!UserOff, Tran!TimerCb, Tran!ConnFails, Tran!ConnDone,
      Tran!EpConnect, Tran!EpFini, Tran!AcceptFails, Tran!AcceptNoMemory, Tran!DialFails,
      Tran!FailUser, Tran!Matching
<1>6. AttemptOK'
  BY <1>0, <1>1, <1>2, TranTypes
  DEF AttemptOK, EndsOK, Tran!UserCb, Tran!UserOff, Tran!TimerCb, Tran!ConnFails,
      Tran!ConnDone, Tran!EpConnect, Tran!EpFini, Tran!AcceptFails, Tran!AcceptNoMemory,
      Tran!DialFails, Tran!FailUser, Tran!Matching
<1>7. AskingOK'
  BY <1>0, <1>1, <1>2
  DEF AskingOK, EndsOK, Tran!UserCb, Tran!UserOff, Tran!TimerCb, Tran!ConnFails,
      Tran!ConnDone, Tran!EpConnect, Tran!EpFini, Tran!AcceptFails, Tran!AcceptNoMemory,
      Tran!DialFails, Tran!FailUser, Tran!Matching
<1>8. Tran!NoMissedMatch'
  BY <1>0, <1>1
  DEF AttemptOK, Tran!NoMissedMatch, Tran!UserCb, Tran!UserOff, Tran!TimerCb, Tran!ConnFails,
      Tran!ConnDone, Tran!EpConnect, Tran!EpFini, Tran!AcceptFails, Tran!AcceptNoMemory,
      Tran!DialFails, Tran!FailUser, Tran!Matching
<1>9. Tran!KeepsAccepting'
  <2>1. SUFFICES ASSUME Listening, tranEp.started, ~tranEp.closed
                 PROVE  connaio' # "idle" \/ timeaio' # "idle"
    BY <1>2 DEF Tran!KeepsAccepting
  <2>2. connaio # "idle" \/ timeaio # "idle"
    BY <1>0, <2>1 DEF Tran!KeepsAccepting
  <2>3. core = "open" /\ timeaio # "closed"
    BY <1>0, <2>1 DEF EndsOK
  <2> QED
    BY <1>0, <2>1, <2>2, <2>3
    DEF Tran!TypeOK, Tran!UserCb, Tran!UserOff, Tran!TimerCb, Tran!ConnFails, Tran!ConnDone,
        Tran!EpConnect, Tran!EpFini, Tran!AcceptFails, Tran!AcceptNoMemory, Tran!DialFails
<1> QED
  BY <1>3, <1>4, <1>5, <1>6, <1>7, <1>8, <1>9 DEF TranInv

TranParts == /\ Tran!TypeOK /\ WaitingOK /\ NegotiatedOK /\ CountOK /\ EndsOK /\ AttemptOK /\ AskingOK
         /\ Tran!NoMissedMatch /\ Tran!KeepsAccepting

(* The handshake goes on.                                                  *)
LEMMA TranNegotiates ==
  ASSUME TranInv, Errors \subseteq {"reset", "closed"}, NEW c \in TcpConns,
         Tran!NegoDone(c) \/ Tran!NegoMore(c)
  PROVE  TranInv'
<1>0. TranParts
  BY DEF TranInv, TranParts
<1>1. UNCHANGED <<tranEp, useraio, connaio, timeaio, waitpipes, core>>
  BY DEF Tran!NegoDone, Tran!NegoMore
<1>2. tranPipe[c].nego \in {"pending", "some"} /\ tranPipe[c].st = "nego" /\ ~tranPipe[c].reaped
  BY <1>0 DEF TranParts, NegotiatedOK, Tran!NegoDone, Tran!NegoMore
<1>3. PICK p \in TranPipe :
        /\ tranPipe' = [tranPipe EXCEPT ![c] = p] /\ p.st = "nego" /\ ~p.reaped
        /\ p.nego = "closed" => "closed" \in Errors
  <2>1. tranPipe \in [TcpConns -> TranPipe]
    BY <1>0, TranTypes DEF TranParts
  <2>2. CASE Tran!NegoDone(c)
    <3>1. PICK r \in {"some"} \cup Errors : tranPipe' = [tranPipe EXCEPT ![c].nego = r]
      BY <2>2 DEF Tran!NegoDone
    <3>2. r \in {"some", "reset", "closed"}
      OBVIOUS
    <3> DEFINE p == [tranPipe[c] EXCEPT !.nego = r]
    <3>3. p \in TranPipe /\ p.st = tranPipe[c].st /\ p.reaped = tranPipe[c].reaped /\ p.nego = r
      BY <2>1, <3>2 DEF TranPipe
    <3> HIDE DEF p
    <3>4. tranPipe' = [tranPipe EXCEPT ![c] = p]
      BY <3>1 DEF p
    <3> QED
      BY <1>2, <3>1, <3>3, <3>4
  <2>3. CASE Tran!NegoMore(c)
    <3>1. tranPipe[c] \in TranPipe /\ tranPipe[c].stage \in 0 .. 2
      BY <2>1, <2>3 DEF Tran!NegoMore, TranPipe
    <3>2. PICK n \in {tranPipe[c].stage + 1,
                      IF tranPipe[c].stage = 0 THEN 2 ELSE tranPipe[c].stage + 1} :
            tranPipe' = [tranPipe EXCEPT ![c] = Tran!Begun(@, n)]
      BY <2>3 DEF Tran!NegoMore
    <3>3. n \in 0 .. 3
      BY <3>1, <3>2
    <3> DEFINE p == Tran!Begun(tranPipe[c], n)
    <3>4. p \in TranPipe /\ p.st = tranPipe[c].st /\ p.reaped = tranPipe[c].reaped
          /\ p.nego \in {"idle", "pending"}
      BY <3>1, <3>3 DEF TranPipe, Tran!Begun
    <3> HIDE DEF p
    <3>5. tranPipe' = [tranPipe EXCEPT ![c] = p]
      BY <3>2 DEF p
    <3> QED
      BY <1>2, <3>4, <3>5
  <2> QED
    BY <2>2, <2>3
<1>4. Tran!TypeOK'
  BY <1>0, <1>1, <1>3, TranTypes, TranTypesNext DEF TranParts
<1>5. WaitingOK' /\ NegotiatedOK' /\ EndsOK' /\ Tran!NoMissedMatch' /\ Tran!KeepsAccepting'
  BY <1>0, <1>1, <1>2, <1>3, TranTypes
  DEF TranParts, WaitingOK, NegotiatedOK, EndsOK, Tran!NoMissedMatch, Tran!Matching, Tran!KeepsAccepting
<1>6. CountOK'
  BY <1>0, <1>1, <1>2, <1>3, SameActive, TranTypes DEF TranParts
<1>7. AttemptOK' /\ AskingOK'
  BY <1>0, <1>1, <1>2, <1>3, TranTypes DEF TranParts, AttemptOK, AskingOK
<1> QED
  BY <1>4, <1>5, <1>6, <1>7 DEF TranInv

(* A connection starts to be negotiated.                                   *)
LEMMA TranStarts ==
  ASSUME TranInv, NEW c \in TcpConns, Tran!Accepted(c) \/ Tran!Dialed(c) PROVE TranInv'
<1>0. TranParts
  BY DEF TranInv, TranParts
<1>1. UNCHANGED <<useraio, timeaio, waitpipes, core>> /\ tranPipe[c].st = "free"
      /\ connaio = "ok" /\ ~tranEp.closed /\ core = "open"
      /\ connaio' = (IF Listening THEN "pending" ELSE "idle")
      /\ tranEp' = [tranEp EXCEPT !.refcnt = @ + 1]
  BY <1>0 DEF TranParts, EndsOK, Tran!Accepted, Tran!Dialed
<1>2. PICK p \in TranPipe : tranPipe' = [tranPipe EXCEPT ![c] = p] /\ p.st = "nego" /\ ~p.reaped
                            /\ p.nego = "pending"
  <2> DEFINE q == [Tran!NoPipe EXCEPT !.st = "nego"]
             p == Tran!Begun(q, 0)
  <2>1. Tran!NoPipe \in TranPipe /\ ~Tran!NoPipe.stopped /\ ~Tran!NoPipe.reaped
    BY DEF Tran!NoPipe, TranPipe
  <2>2. q \in TranPipe /\ q.st = "nego" /\ ~q.stopped /\ ~q.reaped
    BY <2>1 DEF TranPipe
  <2>3. tranPipe' = [tranPipe EXCEPT ![c] = p]
    BY DEF Tran!Accepted, Tran!Dialed, Tran!Started
  <2> HIDE DEF q
  <2>4. p = [q EXCEPT !.stage = 0, !.nego = "pending"]
    BY <2>2 DEF Tran!Begun
  <2> HIDE DEF p
  <2>5. p.st = "nego" /\ p.nego = "pending" /\ ~p.reaped
    BY <2>2, <2>4 DEF TranPipe
  <2>6. p \in TranPipe
    <3>1. \A n \in 0 .. 3 : [q EXCEPT !.stage = n, !.nego = "pending"] \in TranPipe
      BY <2>2 DEF TranPipe
    <3> QED
      BY <2>4, <3>1
  <2> QED
    BY <2>3, <2>5, <2>6
<1>3. tranEp \in TranEp /\ tranEp.refcnt \in Nat
  BY <1>0, TranTypes DEF TranParts, TranEp
<1>4. Tran!TypeOK'
  <2>1. tranEp' \in TranEp
    BY <1>1, <1>3 DEF TranEp
  <2>2. connaio' \in {"idle", "pending"}
    BY <1>1
  <2> QED
    BY <1>0, <1>1, <1>2, <2>1, <2>2, TranTypes, TranTypesNext DEF TranParts
<1>5. CountOK'
  <2>1. Active' = Active \cup {c} /\ c \notin Active
    BY <1>0, <1>1, <1>2, TranTypes DEF TranParts, Active, Tran!Of
  <2>2. tranEp'.refcnt = tranEp.refcnt + 1
    BY <1>1, <1>3 DEF TranEp
  <2> QED
    BY <1>0, <2>1, <2>2, FS_AddElement DEF TranParts, CountOK
<1>6. WaitingOK' /\ NegotiatedOK' /\ Tran!NoMissedMatch' /\ AskingOK'
  BY <1>0, <1>1, <1>2, TranTypes
  DEF TranParts, WaitingOK, NegotiatedOK, Tran!NoMissedMatch, Tran!Matching, AskingOK
<1>7. EndsOK' /\ Tran!KeepsAccepting'
  BY <1>0, <1>1, <1>3 DEF TranParts, TranEp, EndsOK, Tran!KeepsAccepting
<1>8. AttemptOK'
  BY <1>0, <1>1, <1>2, TranTypes DEF TranParts, AttemptOK
<1> QED
  BY <1>4, <1>5, <1>6, <1>7, <1>8 DEF TranInv

(* The header is the right one.                                            *)
LEMMA TranMatches ==
  ASSUME TranInv, NEW c \in TcpConns, Tran!NegoEnds(c) PROVE TranInv'
<1>0. TranParts
  BY DEF TranInv, TranParts
<1>1. UNCHANGED <<tranEp, connaio, timeaio, core>>
      /\ tranPipe[c].nego = "some" /\ tranPipe[c].st = "nego"
      /\ tranPipe' = [tranPipe EXCEPT ![c].nego = "idle",
                          ![c].st = IF useraio = "pending" THEN "busy" ELSE "wait"]
      /\ waitpipes' = (IF useraio = "pending" THEN waitpipes ELSE Append(waitpipes, c))
      /\ useraio' = (IF useraio = "pending" THEN "ok" ELSE useraio)
  BY <1>0 DEF TranParts, NegotiatedOK, Tran!NegoEnds, Tran!FailUser, Tran!Matching
<1>2. tranPipe \in [TcpConns -> TranPipe] /\ waitpipes \in Seq(TcpConns) 
  BY <1>0, TranTypes DEF TranParts
<1>3. /\ tranPipe' \in [TcpConns -> TranPipe]
      /\ tranPipe'[c].st = (IF useraio = "pending" THEN "busy" ELSE "wait")
      /\ tranPipe'[c].nego = "idle" /\ tranPipe'[c].reaped = tranPipe[c].reaped
      /\ \A d \in TcpConns \ {c} : tranPipe'[d] = tranPipe[d]
  BY <1>1, <1>2 DEF TranPipe
<1>4. Tran!TypeOK'
  <2>1. useraio' \in {"idle", "pending", "ok", "reset", "closed", "off"}
    BY <1>0, <1>1, TranTypes DEF TranParts
  <2>2. waitpipes' \in Seq(TcpConns)
    BY <1>1, <1>2, AppendProperties
  <2> QED
    BY <1>0, <1>1, <1>3, <2>1, <2>2, TranTypes, TranTypesNext DEF TranParts
<1>5. CountOK'
  BY <1>0, <1>1, <1>3, SameActive DEF TranParts
<1>6. WaitingOK'
  <2>1. \A i \in DOMAIN waitpipes : waitpipes[i] \in TcpConns /\ waitpipes[i] # c
    BY <1>0, <1>1, <1>2 DEF TranParts, WaitingOK
  <2>2. CASE useraio = "pending"
    BY <1>0, <1>1, <1>3, <2>1, <2>2 DEF TranParts, WaitingOK
  <2>3. CASE useraio # "pending"
    <3>1. /\ DOMAIN waitpipes' = 1 .. Len(waitpipes) + 1 /\ waitpipes'[Len(waitpipes) + 1] = c
          /\ \A i \in 1 .. Len(waitpipes) : waitpipes'[i] = waitpipes[i]
      BY <1>1, <1>2, <2>3, AppendProperties
    <3>2. DOMAIN waitpipes = 1 .. Len(waitpipes) /\ Len(waitpipes) \in Nat
      BY <1>2, LenProperties
    <3> QED
      BY <1>0, <1>3, <2>1, <2>3, <3>1, <3>2 DEF TranParts, WaitingOK
  <2> QED
    BY <2>2, <2>3
<1>7. NegotiatedOK'
  BY <1>0, <1>1, <1>3 DEF TranParts, NegotiatedOK
<1>8. Tran!NoMissedMatch' /\ EndsOK' /\ Tran!KeepsAccepting'
  BY <1>0, <1>1 DEF TranParts, Tran!NoMissedMatch, Tran!Matching, EndsOK, Tran!KeepsAccepting
<1>9. AttemptOK' /\ AskingOK'
  BY <1>0, <1>1, <1>3 DEF TranParts, AttemptOK, AskingOK
<1> QED
  BY <1>4, <1>5, <1>6, <1>7, <1>8, <1>9 DEF TranInv

(* The handshake fails, or the header is another one.                      *)
LEMMA TranFails ==
  ASSUME TranInv, NEW c \in TcpConns, Tran!NegoFails(c) PROVE TranInv'
<1>0. TranParts
  BY DEF TranInv, TranParts
<1>1. UNCHANGED <<tranEp, connaio, timeaio, waitpipes, core>>
      /\ tranPipe[c].nego \in {"some", "reset", "closed"} /\ tranPipe[c].st = "nego"
      /\ tranPipe' = [tranPipe EXCEPT ![c].nego = "idle", ![c].reaped = TRUE]
  BY <1>0 DEF TranParts, NegotiatedOK, Tran!NegoFails
<1>2. /\ useraio # "pending" => useraio' = useraio
      /\ useraio = "pending" =>
           useraio' = IF tranPipe[c].nego = "some" THEN "reset" ELSE tranPipe[c].nego
  BY DEF Tran!NegoFails, Tran!FailUser, Tran!Matching
<1>3. tranPipe \in [TcpConns -> TranPipe] /\ waitpipes \in Seq(TcpConns)
  BY <1>0, TranTypes DEF TranParts
<1>4. /\ tranPipe' \in [TcpConns -> TranPipe] /\ tranPipe'[c].st = "nego"
      /\ tranPipe'[c].nego = "idle" /\ tranPipe'[c].reaped
      /\ \A d \in TcpConns \ {c} : tranPipe'[d] = tranPipe[d]
  BY <1>1, <1>3 DEF TranPipe
<1>5. Tran!TypeOK'
  <2>1. useraio' \in {"idle", "pending", "ok", "reset", "closed", "off"}
    BY <1>0, <1>1, <1>2 DEF TranParts, Tran!TypeOK
  <2> QED
    BY <1>0, <1>1, <1>4, <2>1, TranTypes, TranTypesNext DEF TranParts
<1>6. CountOK'
  BY <1>0, <1>1, <1>4, SameActive DEF TranParts
<1>7. WaitingOK'
  <2>1. \A i \in DOMAIN waitpipes : waitpipes[i] \in TcpConns /\ waitpipes[i] # c
    BY <1>0, <1>1, <1>3 DEF TranParts, WaitingOK
  <2> QED
    BY <1>0, <1>1, <1>4, <2>1 DEF TranParts, WaitingOK
<1>8. NegotiatedOK'
  BY <1>0, <1>1, <1>4 DEF TranParts, NegotiatedOK
<1>9. Tran!NoMissedMatch' /\ EndsOK' /\ Tran!KeepsAccepting'
  BY <1>0, <1>1, <1>2
  DEF TranParts, Tran!NoMissedMatch, Tran!Matching, EndsOK, Tran!KeepsAccepting
<1>10. AttemptOK' /\ AskingOK'
  BY <1>0, <1>1, <1>2, <1>4 DEF TranParts, AttemptOK, AskingOK
<1> QED
  BY <1>5, <1>6, <1>7, <1>8, <1>9, <1>10 DEF TranInv

(* A pipe is freed, by the reaper or by the socket.                        *)
LEMMA TranFrees ==
  ASSUME TranInv, NEW c \in TcpConns, Tran!FiniPipe(c) PROVE TranInv'
<1>0. TranParts
  BY DEF TranInv, TranParts
<1>1. UNCHANGED <<useraio, connaio, timeaio, waitpipes, core>>
      /\ tranPipe[c].st \in {"nego", "busy"}
      /\ tranPipe' = [tranPipe EXCEPT ![c] = Tran!NoPipe]
      /\ tranEp' = [tranEp EXCEPT !.refcnt = @ - 1, !.freed = tranEp.fini /\ tranEp.refcnt = 1]
  BY DEF Tran!FiniPipe
<1>2. /\ tranPipe \in [TcpConns -> TranPipe] /\ waitpipes \in Seq(TcpConns)
      /\ tranEp \in TranEp /\ tranEp.refcnt \in Nat
  BY <1>0, TranTypes DEF TranParts, TranEp
<1>3. /\ Tran!NoPipe \in TranPipe /\ Tran!NoPipe.st = "free" /\ Tran!NoPipe.nego = "idle"
      /\ ~Tran!NoPipe.reaped
  BY DEF Tran!NoPipe, TranPipe
<1>4. /\ tranPipe' \in [TcpConns -> TranPipe] /\ tranPipe'[c] = Tran!NoPipe
      /\ \A d \in TcpConns \ {c} : tranPipe'[d] = tranPipe[d]
  BY <1>1, <1>2, <1>3
<1>5. CountOK' /\ tranEp.refcnt >= 1
  <2>1. Active' = Active \ {c} /\ c \in Active
    BY <1>1, <1>3, <1>4 DEF Active, Tran!Of
  <2>2. tranEp'.refcnt = tranEp.refcnt - 1
    BY <1>1, <1>2 DEF TranEp
  <2>3. IsFiniteSet(Active \ {c}) /\ Cardinality(Active \ {c}) = Cardinality(Active) - 1
    BY <1>0, <2>1, FS_RemoveElement DEF TranParts, CountOK
  <2>4. Cardinality(Active \ {c}) \in Nat
    BY <2>3, FS_CardinalityType
  <2> QED
    BY <1>0, <1>2, <2>1, <2>2, <2>3, <2>4 DEF TranParts, CountOK
<1>6. Tran!TypeOK'
  <2>1. tranEp.refcnt - 1 \in Nat /\ (tranEp.fini /\ tranEp.refcnt = 1) \in BOOLEAN
    BY <1>2, <1>5
  <2>2. tranEp' \in TranEp
    BY <1>1, <1>2, <2>1 DEF TranEp
  <2> QED
    BY <1>0, <1>1, <1>2, <1>4, <2>2, TranTypes, TranTypesNext DEF TranParts
<1>7. WaitingOK'
  <2>1. \A i \in DOMAIN waitpipes : waitpipes[i] \in TcpConns /\ waitpipes[i] # c
    BY <1>0, <1>1, <1>2 DEF TranParts, WaitingOK
  <2> QED
    BY <1>0, <1>1, <1>4, <2>1 DEF TranParts, WaitingOK
<1>8. NegotiatedOK'
  BY <1>0, <1>1, <1>3, <1>4 DEF TranParts, NegotiatedOK
<1>9. Tran!NoMissedMatch' /\ EndsOK' /\ Tran!KeepsAccepting'
  BY <1>0, <1>1, <1>2, <1>5
  DEF TranParts, Tran!NoMissedMatch, Tran!Matching, EndsOK, Tran!KeepsAccepting, TranEp
<1>10. AttemptOK' /\ AskingOK'
  BY <1>0, <1>1, <1>3, <1>4 DEF TranParts, AttemptOK, AskingOK
<1> QED
  BY <1>5, <1>6, <1>7, <1>8, <1>9, <1>10 DEF TranInv

(* The socket closes the endpoint.                                         *)
LEMMA TranCloses == ASSUME TranInv, Tran!EpClose PROVE TranInv'
<1>0. TranParts
  BY DEF TranInv, TranParts
<1>1. /\ core = "open" /\ core' = "closed" /\ waitpipes' = waitpipes
      /\ tranEp' = [tranEp EXCEPT !.closed = TRUE]
      /\ useraio' = (IF useraio = "idle" THEN "off" ELSE Tran!Aborted(useraio))
      /\ connaio' = Tran!Aborted(connaio) /\ timeaio' = Tran!Aborted(timeaio)
  BY DEF Tran!EpClose
<1>2. /\ tranPipe \in [TcpConns -> TranPipe] /\ waitpipes \in Seq(TcpConns)
      /\ tranEp \in TranEp
  BY <1>0, TranTypes DEF TranParts
<1>3. tranPipe' \in [TcpConns -> TranPipe]
      /\ \A c \in TcpConns :
           /\ tranPipe'[c].st = tranPipe[c].st /\ tranPipe'[c].reaped = tranPipe[c].reaped
           /\ tranPipe'[c].nego # "idle" => tranPipe[c].nego # "idle"
  <2> DEFINE shut(c) == IF tranPipe[c].st = "free" THEN tranPipe[c]
                        ELSE [tranPipe[c] EXCEPT !.stopped = TRUE, !.nego = Tran!Aborted(@)]
  <2>1. tranPipe' = [c \in TcpConns |-> shut(c)]
    BY DEF Tran!EpClose
  <2>2. ASSUME NEW c \in TcpConns
        PROVE  /\ shut(c) \in TranPipe /\ shut(c).st = tranPipe[c].st
               /\ shut(c).reaped = tranPipe[c].reaped
               /\ shut(c).nego # "idle" => tranPipe[c].nego # "idle"
    <3>1. tranPipe[c] \in TranPipe
      BY <1>2
    <3> QED
      BY <3>1 DEF TranPipe, Tran!Aborted
  <2> HIDE DEF shut
  <2> QED
    BY <2>1, <2>2
<1>4. Tran!TypeOK'
  <2>1. tranEp' \in TranEp
    BY <1>1, <1>2 DEF TranEp
  <2>2. /\ useraio' \in {"idle", "pending", "ok", "reset", "closed", "off"}
        /\ connaio' \in {"idle", "pending", "ok", "error", "closed"}
        /\ timeaio' \in {"idle", "pending", "closed"}
    BY <1>0, <1>1, TranTypes DEF TranParts, Tran!Aborted
  <2> QED
    BY <1>1, <1>2, <1>3, <2>1, <2>2, TranTypesNext
<1>5. CountOK'
  BY <1>0, <1>1, <1>2, <1>3, SameActive DEF TranParts, TranEp
<1>6. WaitingOK'
  <2>1. \A i \in DOMAIN waitpipes : waitpipes[i] \in TcpConns
    BY <1>2
  <2> QED
    BY <1>0, <1>1, <1>3, <2>1 DEF TranParts, WaitingOK
<1>7. NegotiatedOK'
  BY <1>0, <1>3 DEF TranParts, NegotiatedOK
<1>8. Tran!NoMissedMatch' /\ EndsOK' /\ Tran!KeepsAccepting' /\ AttemptOK' /\ AskingOK'
  BY <1>0, <1>1, <1>2
  DEF TranParts, Tran!NoMissedMatch, Tran!Matching, EndsOK, Tran!KeepsAccepting, TranEp,
      AttemptOK, AskingOK, Tran!Aborted
<1> QED
  BY <1>4, <1>5, <1>6, <1>7, <1>8 DEF TranInv

(* The socket asks a listener for a pipe.                                  *)
LEMMA TranAccepts == ASSUME TranInv, Tran!EpAccept PROVE TranInv'
<1>0. TranParts
  BY DEF TranInv, TranParts
<1>1. /\ UNCHANGED <<timeaio, core>> /\ Listening /\ useraio = "idle" /\ core = "open"
      /\ tranEp' = [tranEp EXCEPT !.started = TRUE]
      /\ connaio' = (IF tranEp.started THEN connaio ELSE "pending")
  BY DEF Tran!EpAccept
<1>2. /\ tranPipe \in [TcpConns -> TranPipe] /\ waitpipes \in Seq(TcpConns)
      /\ tranEp \in TranEp
  BY <1>0, TranTypes DEF TranParts
<1>3. EndsOK' /\ Tran!KeepsAccepting' /\ AttemptOK'
      /\ tranEp'.refcnt = tranEp.refcnt /\ tranEp' \in TranEp
  <2>1. useraio' \in {"pending", "ok"}
    BY DEF Tran!EpAccept
  <2> QED
    BY <1>0, <1>1, <1>2, <2>1
    DEF TranParts, EndsOK, Tran!KeepsAccepting, AttemptOK, TranEp
<1>4. CASE waitpipes = <<>>
  <2>1. useraio' = "pending" /\ UNCHANGED <<tranPipe, waitpipes>>
    BY <1>4 DEF Tran!EpAccept
  <2>2. WaitingOK' /\ NegotiatedOK' /\ CountOK'
    BY <1>3, <2>1, PipesAlone
  <2>3. Tran!TypeOK'
    BY <1>0, <1>1, <1>3, <2>1, TranTypes, TranTypesNext DEF TranParts
  <2>4. Tran!NoMissedMatch' /\ AskingOK'
    BY <1>0, <1>1, <1>4, <2>1 DEF TranParts, Tran!NoMissedMatch, AskingOK
  <2> QED
    BY <1>3, <2>2, <2>3, <2>4 DEF TranInv
<1>5. CASE waitpipes # <<>>
  <2> DEFINE c == Head(waitpipes)
  <2>1. /\ useraio' = "ok" /\ waitpipes' = Tail(waitpipes)
        /\ tranPipe' = [tranPipe EXCEPT ![c].st = "busy"]
    BY <1>5 DEF Tran!EpAccept
  <2>2. /\ Len(waitpipes) \in Nat \ {0} /\ DOMAIN waitpipes = 1 .. Len(waitpipes)
        /\ waitpipes[1] = c /\ c \in TcpConns
        /\ waitpipes' \in Seq(TcpConns) /\ DOMAIN waitpipes' = 1 .. Len(waitpipes) - 1
        /\ \A i \in 1 .. Len(waitpipes) - 1 : waitpipes'[i] = waitpipes[i + 1]
    <3>1. Len(waitpipes) \in Nat \ {0} /\ DOMAIN waitpipes = 1 .. Len(waitpipes)
      BY <1>2, <1>5, EmptySeq, LenProperties
    <3>2. /\ Head(waitpipes) = waitpipes[1] /\ waitpipes[1] \in TcpConns
          /\ Tail(waitpipes) \in Seq(TcpConns) /\ Len(Tail(waitpipes)) = Len(waitpipes) - 1
          /\ \A i \in 1 .. Len(Tail(waitpipes)) : Tail(waitpipes)[i] = waitpipes[i + 1]
      BY <1>2, <1>5, <3>1, HeadTailProperties
    <3>3. DOMAIN Tail(waitpipes) = 1 .. Len(Tail(waitpipes))
      BY <3>2, LenProperties
    <3> QED
      BY <2>1, <3>1, <3>2, <3>3
  <2>3. tranPipe[c].st = "wait"
    BY <1>0, <2>2 DEF TranParts, WaitingOK
  <2> HIDE DEF c
  <2>4. /\ tranPipe' \in [TcpConns -> TranPipe] /\ tranPipe'[c].st = "busy"
        /\ tranPipe'[c].nego = tranPipe[c].nego /\ tranPipe'[c].reaped = tranPipe[c].reaped
        /\ \A d \in TcpConns \ {c} : tranPipe'[d] = tranPipe[d]
    <3> DEFINE p == [tranPipe[c] EXCEPT !.st = "busy"]
    <3>1. tranPipe[c] \in TranPipe /\ c \in TcpConns
      BY <1>2, <2>2
    <3>2. /\ p \in TranPipe /\ p.st = "busy"
          /\ p.nego = tranPipe[c].nego /\ p.reaped = tranPipe[c].reaped
      BY <3>1 DEF TranPipe
    <3>3. tranPipe' = [tranPipe EXCEPT ![c] = p]
      BY <2>1
    <3> HIDE DEF p
    <3> QED
      BY <1>2, <3>1, <3>2, <3>3
  <2>5. Tran!TypeOK'
    <3>1. connaio' \in {"idle", "pending", "ok", "error", "closed"}
      BY <1>0, <1>1, TranTypes DEF TranParts
    <3> QED
      BY <1>0, <1>1, <1>3, <2>1, <2>2, <2>4, <3>1, TranTypes, TranTypesNext DEF TranParts
  <2>6. CountOK'
    BY <1>0, <1>3, <2>3, <2>4, SameActive DEF TranParts
  <2>7. WaitingOK'
    <3>1. \A i \in 1 .. Len(waitpipes) - 1 :
            waitpipes[i + 1] \in TcpConns /\ waitpipes[i + 1] # c
      BY <1>0, <1>2, <2>2 DEF TranParts, WaitingOK
    <3>2. \A i \in DOMAIN waitpipes' : tranPipe'[waitpipes'[i]].st = "wait"
      BY <1>0, <2>2, <2>4, <3>1 DEF TranParts, WaitingOK
    <3>3. \A i, j \in DOMAIN waitpipes' : waitpipes'[i] = waitpipes'[j] => i = j
      BY <1>0, <2>2 DEF TranParts, WaitingOK
    <3> QED
      BY <3>2, <3>3 DEF WaitingOK
  <2>8. NegotiatedOK' /\ AskingOK' /\ Tran!NoMissedMatch'
    BY <1>0, <1>1, <2>1, <2>2, <2>3, <2>4
    DEF TranParts, NegotiatedOK, AskingOK, Tran!NoMissedMatch, Tran!Matching
  <2> QED
    BY <1>3, <2>5, <2>6, <2>7, <2>8 DEF TranInv
<1> QED
  BY <1>4, <1>5

LEMMA TranInit == Tran!Init => TranInv
<1> SUFFICES ASSUME Tran!Init PROVE TranInv
  OBVIOUS
<1>1. /\ tranEp = [started |-> FALSE, closed |-> FALSE, fini |-> FALSE, refcnt |-> 0,
                   freed |-> FALSE]
      /\ useraio = "idle" /\ connaio = "idle" /\ timeaio = "idle" /\ waitpipes = <<>>
      /\ core = "open" /\ tranPipe = [c \in TcpConns |-> Tran!NoPipe]
  BY DEF Tran!Init
<1>2. /\ Tran!NoPipe \in TranPipe /\ Tran!NoPipe.st = "free" /\ Tran!NoPipe.nego = "idle"
      /\ ~Tran!NoPipe.reaped
  BY DEF Tran!NoPipe, TranPipe
<1>3. Active = {}
  BY <1>1, <1>2 DEF Active, Tran!Of
<1>4. CountOK
  BY <1>1, <1>3, FS_EmptySet DEF CountOK
<1>5. Tran!TypeOK
  BY <1>1, <1>2, TranTypes DEF TranEp
<1> QED
  BY <1>1, <1>2, <1>4, <1>5
  DEF TranInv, WaitingOK, NegotiatedOK, EndsOK, AttemptOK, AskingOK, Tran!NoMissedMatch,
      Tran!KeepsAccepting

LEMMA TranNext ==
  ASSUME Errors \subseteq {"reset", "closed"}
  PROVE  TranInv /\ [Tran!Next]_(Tran!vars) => TranInv'
<1> SUFFICES ASSUME TranInv, [Tran!Next]_(Tran!vars) PROVE TranInv'
  OBVIOUS
<1>1. CASE UNCHANGED Tran!vars
  <2>1. UNCHANGED <<tranEp, useraio, connaio, timeaio, tranPipe, waitpipes, core>>
    BY <1>1 DEF Tran!vars
  <2> QED
    BY <2>1
    DEF TranInv, Tran!TypeOK, WaitingOK, NegotiatedOK, CountOK, Active, Tran!Of, EndsOK,
        AttemptOK, AskingOK, Tran!NoMissedMatch, Tran!Matching, Tran!KeepsAccepting
<1>2. CASE \/ Tran!UserCb \/ Tran!UserOff \/ Tran!TimerCb \/ Tran!ConnFails \/ Tran!ConnDone
           \/ Tran!EpConnect \/ Tran!EpFini
  BY <1>2, TranScalars
<1>3. CASE Tran!EpAccept
  BY <1>3, TranAccepts
<1>4. CASE Tran!EpClose
  BY <1>4, TranCloses
<1>5. ASSUME NEW c \in TcpConns,
             \/ Tran!Accepted(c) \/ Tran!Dialed(c) \/ Tran!NegoDone(c) \/ Tran!Nego(c)
             \/ Tran!FiniPipe(c)
      PROVE  TranInv'
  BY <1>5, TranStarts, TranNegotiates, TranMatches, TranFails, TranFrees DEF Tran!Nego
<1> QED
  BY <1>1, <1>2, <1>3, <1>4, <1>5 DEF Tran!Next, Tran!Submit

(* No operation is under way after the endpoint is done with, and what is  *)
(* freed has no pipe.                                                      *)
LEMMA TranInvSound == TranInv => Tran!TransportSound
<1> SUFFICES ASSUME TranInv PROVE Tran!TransportSound
  OBVIOUS
<1>1. Tran!EndpointOutlives
  <2>1. CountOK /\ EndsOK /\ tranEp \in TranEp
    BY TranTypes DEF TranInv
  <2>2. tranEp.refcnt = Tran!Cardinality(TcpConns \ Tran!Of("free"))
    BY <2>1 DEF CountOK, Active, Cardinality, Tran!Cardinality
  <2> QED
    BY <2>1, <2>2 DEF EndsOK, Tran!EndpointOutlives, TranEp
<1>2. Errors \subseteq {"reset"} => Tran!KeepsAsking
  BY DEF TranInv, AskingOK, Tran!KeepsAsking
<1> QED
  BY <1>1, <1>2 DEF TranInv, Tran!TransportSound

(* TransportSound of TcpTransport for any number of connections and any order *)
(* of accepts, handshakes, failures, the close and the reaper: tcp.c strands  *)
(* no ready pipe beside a waiting socket, frees the endpoint after its pipes, *)
(* and a listener goes on accepting; without an EPIPE the socket goes on      *)
(* asking.                                                                    *)
THEOREM TransportIsSound == Tran!TransportAssumption => (Tran!Spec => []Tran!TransportSound)
<1> SUFFICES ASSUME Tran!TransportAssumption PROVE Tran!Spec => []Tran!TransportSound
  OBVIOUS
<1>1. Errors \subseteq {"reset", "closed"}
  BY DEF Tran!TransportAssumption
<1> QED
  BY <1>1, TranInit, TranNext, TranInvSound, PTL DEF Tran!Spec

=============================================================================
