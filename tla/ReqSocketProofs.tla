----------------------------- MODULE ReqSocketProofs -----------------------------
(***************************************************************************)
(* Theorems about ReqSocket, for any number of contexts, pipes, requests   *)
(* and losses and any order of what users, transports, peers and the timer *)
(* do.                                                                     *)
(***************************************************************************)
EXTENDS ReqSocket, SequenceTheorems, TLAPS

-----------------------------------------------------------------------------
(* The parts of the inductive invariant.                                   *)

Once(s) == \A i, j \in DOMAIN s : s[i] = s[j] => i = j

Context == [request_id : 0..MaxSends, req_msg : BOOLEAN, send_aio : BOOLEAN, recv_aio : BOOLEAN,
            rep_msg : 0..MaxSends, timer : BOOLEAN, pipe : Pipes \cup {Nobody},
            conn_reset : BOOLEAN]

(* The entry of a context's identifier is its own, and is there while it   *)
(* has a request; what is found by an identifier has it.                   *)
Registered ==
  /\ \A c \in Contexts :
       /\ reqCtx[c].request_id <= sends
       /\ reqCtx[c].request_id # 0 => requests[reqCtx[c].request_id] \in {c, Nobody}
       /\ reqCtx[c].req_msg =>
            reqCtx[c].request_id # 0 /\ requests[reqCtx[c].request_id] = c
  /\ FoundIsWaiting

(* No two contexts made one request, and what is found by an identifier    *)
(* made it last.                                                           *)
LatestApart ==
  /\ \A c \in Contexts : latest[c] <= sends
  /\ \A c, d \in Contexts : latest[c] # 0 /\ latest[c] = latest[d] => c = d
  /\ \A i \in RequestIds : requests[i] # Nobody => i <= sends /\ latest[requests[i]] = i

(* A stashed reply answers the context's latest request, which is not      *)
(* waited for any more.                                                    *)
Stashed ==
  \A c \in Contexts : reqCtx[c].rep_msg # 0 =>
    reqCtx[c].rep_msg = latest[c] /\ requests[reqCtx[c].rep_msg] = Nobody

(* A reply that was given is neither waited for nor stashed.               *)
GivenApart ==
  \A j \in DOMAIN given :
    /\ given[j][2] <= sends /\ requests[given[j][2]] = Nobody
    /\ \A c \in Contexts : reqCtx[c].rep_msg # given[j][2]

Books == Registered /\ LatestApart /\ Stashed /\ GivenApart

(* A queue of contexts cs: each is there once, and with a request; a       *)
(* sender that was not told is there.  Who is never repeated waits on no   *)
(* pipe's list and has no timer.  Nobody is forgotten.                     *)
Waiting(cs, queue, fired, shut, state) ==
  /\ Once(queue)
  /\ \A c \in Members(queue) : cs[c].req_msg
  /\ \A c \in Contexts : cs[c].send_aio /\ cs[c].req_msg => c \in Members(queue)
  /\ \A c \in Members(queue) : ~Retries(c) => cs[c].pipe = Nobody
  /\ \A c \in Contexts : cs[c].timer \/ fired = c => Retries(c)
  /\ ~shut => \A c \in Contexts : cs[c].req_msg =>
       \/ c \in Members(queue)
       \/ Retries(c) /\ (cs[c].timer \/ fired = c)
       \/ ~Retries(c) /\ cs[c].pipe # Nobody /\ state[cs[c].pipe] = "up"

Waits == Waiting(reqCtx, send_queue, firing, closed, reqUp)

(* Ready pipes are listed once; they and the busy ones are up, and only    *)
(* the busy ones send.                                                     *)
PipesApart(ready, busys, state) ==
  /\ Once(ready) /\ Members(ready) \cap busys = {}
  /\ \A p \in Members(ready) \cup busys : state[p] = "up"

PipesServe ==
  /\ PipesApart(ready_pipes, busy_pipes, reqUp)
  /\ \A p \in Pipes : aio_send[p] # 0 => p \in busy_pipes
  /\ \A p \in written : aio_send[p] # 0
  /\ send_queue # <<>> => ready_pipes = <<>>
  /\ PollsWritable

ReqInv == ReqTypeOK /\ Books /\ Waits /\ PipesServe

-----------------------------------------------------------------------------
(* Lists.                                                                  *)

LEMMA AppendFacts ==
  ASSUME NEW S, NEW s \in Seq(S), NEW x \in S
  PROVE  /\ Append(s, x) \in Seq(S) /\ Append(s, x) # <<>>
         /\ Members(Append(s, x)) = Members(s) \cup {x}
         /\ Once(s) /\ x \notin Members(s) => Once(Append(s, x))
<1> DEFINE t == Append(s, x)
<1>1. /\ t \in Seq(S) /\ Len(s) \in Nat /\ DOMAIN s = 1..Len(s) /\ DOMAIN t = 1..(Len(s) + 1)
      /\ \A i \in 1..Len(s) : t[i] = s[i]
      /\ t[Len(s) + 1] = x
  BY AppendProperties, LenProperties
<1>2. t # <<>>
  BY <1>1
<1> HIDE DEF t
<1>3. Members(t) = Members(s) \cup {x}
  <2>1. ASSUME NEW y \in Members(t) PROVE y \in Members(s) \cup {x}
    <3>1. PICK i \in DOMAIN t : y = t[i]
      BY <2>1 DEF Members
    <3>2. CASE i = Len(s) + 1
      BY <1>1, <3>1, <3>2
    <3>3. CASE i # Len(s) + 1
      <4>1. i \in 1..Len(s)
        BY <1>1, <3>3
      <4> QED
        BY <1>1, <3>1, <4>1 DEF Members
    <3> QED
      BY <3>2, <3>3
  <2>2. ASSUME NEW y \in Members(s) PROVE y \in Members(t)
    <3>1. PICK i \in DOMAIN s : y = s[i]
      BY <2>2 DEF Members
    <3>2. i \in DOMAIN t /\ t[i] = y
      BY <1>1, <3>1
    <3> QED
      BY <3>2 DEF Members
  <2>3. x \in Members(t)
    <3>1. Len(s) + 1 \in DOMAIN t
      BY <1>1
    <3> QED
      BY <1>1, <3>1 DEF Members
  <2> QED
    BY <2>1, <2>2, <2>3
<1>4. ASSUME Once(s), x \notin Members(s) PROVE Once(t)
  <2>1. \A i \in 1..Len(s) : t[i] # x
    BY <1>1, <1>4 DEF Members
  <2>2. \A i, j \in 1..Len(s) : t[i] = t[j] => i = j
    BY <1>1, <1>4 DEF Once
  <2>3. \A i \in 1..(Len(s) + 1) : i \in 1..Len(s) \/ i = Len(s) + 1
    BY <1>1
  <2> QED
    BY <1>1, <2>1, <2>2, <2>3 DEF Once
<1> QED
  BY <1>1, <1>2, <1>3, <1>4 DEF t

LEMMA TailFacts ==
  ASSUME NEW S, NEW s \in Seq(S), s # <<>>
  PROVE  /\ Tail(s) \in Seq(S) /\ Head(s) \in S /\ Head(s) \in Members(s)
         /\ Members(Tail(s)) \subseteq Members(s)
         /\ Once(s) => Once(Tail(s)) /\ Members(Tail(s)) = Members(s) \ {Head(s)}
<1> DEFINE t == Tail(s)
<1>1. /\ t \in Seq(S) /\ Len(s) \in Nat \ {0} /\ DOMAIN s = 1..Len(s) /\ DOMAIN t = 1..(Len(s) - 1)
      /\ \A i \in 1..(Len(s) - 1) : t[i] = s[i + 1]
      /\ Head(s) = s[1]
  BY HeadTailProperties, LenProperties, EmptySeq
<1> HIDE DEF t
<1>2. Head(s) \in S /\ Head(s) \in Members(s)
  <2>1. 1 \in DOMAIN s
    BY <1>1
  <2>2. s[1] \in S
    BY <2>1, ElementOfSeq, <1>1
  <2> QED
    BY <1>1, <2>1, <2>2 DEF Members
<1>3. \A i \in 1..(Len(s) - 1) : i + 1 \in DOMAIN s
  BY <1>1
<1>4. Members(t) \subseteq Members(s)
  BY <1>1, <1>3 DEF Members
<1>5. ASSUME Once(s) PROVE Once(t) /\ Members(t) = Members(s) \ {Head(s)}
  <2>1. Once(t)
    <3>1. ASSUME NEW i \in DOMAIN t, NEW j \in DOMAIN t, t[i] = t[j] PROVE i = j
      <4>1. i + 1 \in DOMAIN s /\ j + 1 \in DOMAIN s /\ s[i + 1] = s[j + 1]
        BY <1>1, <1>3, <3>1
      <4>2. i + 1 = j + 1
        BY <1>5, <4>1 DEF Once
      <4> QED
        BY <1>1, <4>2
    <3> QED
      BY <3>1 DEF Once
  <2>2. Head(s) \notin Members(t)
    <3>1. \A i \in 1..(Len(s) - 1) : i + 1 # 1 /\ 1 \in DOMAIN s
      BY <1>1
    <3>2. \A i \in 1..(Len(s) - 1) : s[i + 1] # s[1]
      BY <1>3, <1>5, <3>1 DEF Once
    <3> QED
      BY <1>1, <3>2 DEF Members
  <2>3. ASSUME NEW y \in Members(s), y # Head(s) PROVE y \in Members(t)
    <3>1. PICK i \in DOMAIN s : y = s[i]
      BY <2>3 DEF Members
    <3>2. i # 1
      BY <1>1, <2>3, <3>1
    <3>3. i - 1 \in 1..(Len(s) - 1) /\ (i - 1) + 1 = i
      BY <1>1, <3>2
    <3>4. t[i - 1] = y
      BY <1>1, <3>1, <3>3
    <3> QED
      BY <1>1, <3>3, <3>4 DEF Members
  <2> QED
    BY <1>4, <2>1, <2>2, <2>3
<1> QED
  BY <1>1, <1>2, <1>4, <1>5 DEF t

LEMMA RemoveAtFacts ==
  ASSUME NEW S, NEW s \in Seq(S), NEW i \in DOMAIN s
  PROVE /\ RemoveAt(s, i) \in Seq(S) /\ Len(RemoveAt(s, i)) = Len(s) - 1
        /\ \A k \in 1..(i - 1) : RemoveAt(s, i)[k] = s[k]
        /\ \A k \in i..(Len(s) - 1) : RemoveAt(s, i)[k] = s[k + 1]
<1>1. i \in 1..Len(s) /\ Len(s) \in Nat
  BY LenProperties
<1>2. /\ SubSeq(s, 1, i-1) \in Seq(S) /\ Len(SubSeq(s, 1, i-1)) = i - 1
      /\ \A k \in 1..(i - 1) : SubSeq(s, 1, i-1)[k] = s[k]
  BY <1>1, SubSeqProperties
<1>3. /\ SubSeq(s, i+1, Len(s)) \in Seq(S) /\ Len(SubSeq(s, i+1, Len(s))) = Len(s) - i
      /\ \A k \in 1..(Len(s) - i) : SubSeq(s, i+1, Len(s))[k] = s[k + i]
  BY <1>1, SubSeqProperties
<1> DEFINE a == SubSeq(s, 1, i-1)
           b == SubSeq(s, i+1, Len(s))
<1>4. RemoveAt(s, i) = a \o b
  BY DEF RemoveAt
<1> HIDE DEF a, b
<1>5. a \in Seq(S) /\ Len(a) = i - 1 /\ \A k \in 1..(i - 1) : a[k] = s[k]
  BY <1>2 DEF a
<1>6. b \in Seq(S) /\ Len(b) = Len(s) - i /\ \A k \in 1..(Len(s) - i) : b[k] = s[k + i]
  BY <1>3 DEF b
<1>7. /\ a \o b \in Seq(S) /\ Len(a \o b) = Len(a) + Len(b)
      /\ \A k \in 1..(Len(a) + Len(b)) : (a \o b)[k] = IF k <= Len(a) THEN a[k] ELSE b[k - Len(a)]
  BY <1>5, <1>6, ConcatProperties
<1>8. Len(a \o b) = Len(s) - 1
  BY <1>1, <1>5, <1>6, <1>7
<1>9. ASSUME NEW k \in 1..(i - 1) PROVE (a \o b)[k] = s[k]
  <2>1. k \in 1..(Len(a) + Len(b)) /\ k <= Len(a)
    BY <1>1, <1>5, <1>6
  <2> QED
    BY <1>5, <1>7, <2>1
<1>10. ASSUME NEW k \in i..(Len(s) - 1) PROVE (a \o b)[k] = s[k + 1]
  <2>1. /\ k \in 1..(Len(a) + Len(b)) /\ ~(k <= Len(a)) /\ k - Len(a) = k - (i - 1)
        /\ k - (i - 1) \in 1..(Len(s) - i) /\ (k - (i - 1)) + i = k + 1
    BY <1>1, <1>5, <1>6
  <2>2. (a \o b)[k] = b[k - (i - 1)]
    BY <1>7, <2>1
  <2> QED
    BY <1>6, <2>1, <2>2
<1> QED
  BY <1>4, <1>7, <1>8, <1>9, <1>10

LEMMA WithoutFacts ==
  ASSUME NEW S, NEW s \in Seq(S), NEW x
  PROVE  /\ Without(s, x) \in Seq(S) /\ Members(Without(s, x)) \subseteq Members(s)
         /\ Once(s) => Once(Without(s, x)) /\ Members(Without(s, x)) = Members(s) \ {x}
<1>1. CASE x \notin Members(s)
  BY <1>1 DEF Without
<1>2. CASE x \in Members(s)
  <2> DEFINE i == Position(s, x)
             t == RemoveAt(s, i)
  <2>1. i \in DOMAIN s /\ s[i] = x
    BY <1>2 DEF Position, Members
  <2>2. Without(s, x) = t
    BY <1>2 DEF Without
  <2> HIDE DEF i
  <2>3. /\ t \in Seq(S) /\ Len(t) = Len(s) - 1
        /\ \A k \in 1..(i - 1) : t[k] = s[k]
        /\ \A k \in i..(Len(s) - 1) : t[k] = s[k + 1]
    BY <2>1, RemoveAtFacts
  <2>4. Len(s) \in Nat /\ DOMAIN s = 1..Len(s) /\ DOMAIN t = 1..(Len(s) - 1) /\ i \in 1..Len(s)
    BY <2>1, <2>3, LenProperties
  <2> HIDE DEF t
  (* Where an entry of what is left was.                                   *)
  <2> DEFINE was(k) == IF k < i THEN k ELSE k + 1
  <2>5. ASSUME NEW k \in DOMAIN t PROVE was(k) \in DOMAIN s /\ was(k) # i /\ t[k] = s[was(k)]
    <3>1. CASE k < i
      <4>1. k \in 1..(i - 1) /\ k \in 1..Len(s) /\ k # i
        BY <2>4, <2>5, <3>1
      <4> QED
        BY <2>3, <2>4, <3>1, <4>1
    <3>2. CASE ~(k < i)
      <4>1. k \in i..(Len(s) - 1) /\ k + 1 \in 1..Len(s) /\ k + 1 # i
        BY <2>4, <2>5, <3>2
      <4> QED
        BY <2>3, <2>4, <3>2, <4>1
    <3> QED
      BY <3>1, <3>2
  <2>6. \A k, l \in DOMAIN t : was(k) = was(l) => k = l
    BY <2>4
  <2>7. ASSUME NEW j \in DOMAIN s, j # i PROVE \E k \in DOMAIN t : was(k) = j
    <3>1. CASE j < i
      <4>1. j \in DOMAIN t
        BY <2>4, <2>7, <3>1
      <4> QED
        BY <3>1, <4>1
    <3>2. CASE ~(j < i)
      <4>1. j - 1 \in DOMAIN t /\ ~(j - 1 < i) /\ (j - 1) + 1 = j
        BY <2>4, <2>7, <3>2
      <4> QED
        BY <4>1
    <3> QED
      BY <3>1, <3>2
  <2> HIDE DEF was
  <2>8. Members(t) \subseteq Members(s)
    BY <2>5 DEF Members
  <2>9. ASSUME Once(s) PROVE Once(t) /\ Members(t) = Members(s) \ {x}
    <3>1. Once(t)
      BY <2>5, <2>6, <2>9 DEF Once
    <3>2. x \notin Members(t)
      BY <2>1, <2>5, <2>9 DEF Once, Members
    <3>3. ASSUME NEW y \in Members(s), y # x PROVE y \in Members(t)
      <4>1. PICK j \in DOMAIN s : y = s[j]
        BY <3>3 DEF Members
      <4>2. PICK k \in DOMAIN t : was(k) = j
        BY <2>1, <2>7, <3>3, <4>1
      <4>3. t[k] = y
        BY <2>5, <4>1, <4>2
      <4> QED
        BY <4>3 DEF Members
    <3> QED
      BY <2>8, <3>1, <3>2, <3>3
  <2> QED
    BY <2>2, <2>3, <2>8, <2>9
<1> QED
  BY <1>1, <1>2

LEMMA EmptyFacts ==
  ASSUME NEW S, NEW s \in Seq(S)
  PROVE  /\ Members(SubSeq(s, 1, 0)) = {} /\ SubSeq(s, 1, Len(s)) = s
         /\ s = <<>> => Len(s) = 0 /\ Members(s) = {} /\ Once(s)
         /\ Members(s) \subseteq S
<1>1. Len(s) \in Nat /\ DOMAIN s = 1..Len(s) /\ \A i \in DOMAIN s : s[i] \in S
  BY LenProperties, ElementOfSeq
<1>2. SubSeq(s, 1, 0) = <<>>
  BY <1>1, SubSeqProperties, EmptySeq
<1>3. SubSeq(s, 1, Len(s)) = s
  <2>1. /\ SubSeq(s, 1, Len(s)) \in Seq(S) /\ Len(SubSeq(s, 1, Len(s))) = Len(s)
        /\ \A i \in 1..Len(s) : SubSeq(s, 1, Len(s))[i] = s[i]
    BY <1>1, SubSeqProperties
  <2> QED
    BY <1>1, <2>1, SeqEqual
<1>4. s = <<>> => Len(s) = 0 /\ Members(s) = {} /\ Once(s)
  BY <1>1, EmptySeq DEF Members, Once
<1>5. Members(<<>>) = {}
  BY EmptySeq DEF Members
<1> QED
  BY <1>1, <1>2, <1>3, <1>4, <1>5 DEF Members

LEMMA FirstFacts ==
  ASSUME NEW S, NEW s \in Seq(S), s # <<>>
  PROVE  /\ Len(s) \in Nat \ {0} /\ Head(s) = s[1] /\ Members(SubSeq(s, 1, 1)) = {Head(s)}
         /\ SubSeq(s, 2, Len(s)) = Tail(s)
         /\ Tail(s) = <<>> <=> Len(s) = 1
         /\ (CHOOSE i \in 1..1 : s[i] = Head(s)) = 1
<1>1. /\ Len(s) \in Nat \ {0} /\ DOMAIN s = 1..Len(s) /\ Head(s) = s[1]
      /\ Tail(s) \in Seq(S) /\ Len(Tail(s)) = Len(s) - 1
      /\ \A i \in 1..(Len(s) - 1) : Tail(s)[i] = s[i + 1]
  BY HeadTailProperties, LenProperties, EmptySeq
<1>2. Members(SubSeq(s, 1, 1)) = {Head(s)}
  <2>1. /\ SubSeq(s, 1, 1) \in Seq(S) /\ Len(SubSeq(s, 1, 1)) = 1
        /\ SubSeq(s, 1, 1)[1] = s[1]
    BY <1>1, SubSeqProperties
  <2>2. DOMAIN SubSeq(s, 1, 1) = {1}
    BY <2>1, LenProperties
  <2> QED
    BY <1>1, <2>1, <2>2 DEF Members
<1>3. SubSeq(s, 2, Len(s)) = Tail(s)
  <2> DEFINE t == SubSeq(s, 2, Len(s))
  <2>1. /\ t \in Seq(S) /\ Len(t) = Len(s) - 1
        /\ \A i \in 1..(Len(s) - 1) : t[i] = s[i + 1]
    BY <1>1, SubSeqProperties
  <2> HIDE DEF t
  <2>2. t = Tail(s)
    BY <1>1, <2>1, SeqEqual
  <2> QED
    BY <2>2 DEF t
<1>4. Tail(s) = <<>> <=> Len(s) = 1
  BY <1>1, EmptySeq
<1>5. (CHOOSE i \in 1..1 : s[i] = Head(s)) = 1
  <2>1. \E i \in 1..1 : s[i] = Head(s)
    BY <1>1
  <2>2. (CHOOSE i \in 1..1 : s[i] = Head(s)) \in 1..1
    BY <2>1
  <2> QED
    BY <2>2
<1> QED
  BY <1>1, <1>2, <1>3, <1>4, <1>5

-----------------------------------------------------------------------------
(* req0_run_send_queue where a request waits or a pipe is ready, but not   *)
(* many of both: nothing happens, or the first pipe takes the first        *)
(* request.                                                                *)

Few(queue, ready) ==
  queue = <<>> \/ ready = <<>> \/ Len(queue) = 1 \/ Len(ready) = 1

Stalls(cs, queue, ready, w, done) ==
  /\ queue = <<>> \/ ready = <<>>
  /\ reqCtx' = [c \in Contexts |-> cs[c]]
  /\ aio_send' = [p \in Pipes |-> IF p \in done THEN 0 ELSE aio_send[p]]
  /\ written' = written \ done
  /\ send_queue' = queue /\ ready_pipes' = ready /\ busy_pipes' = busy_pipes \ done
  /\ reqWritable' = w

Serves(cs, queue, ready, w, done) ==
  /\ queue # <<>> /\ ready # <<>>
  /\ reqCtx' = [c \in Contexts |-> IF c = Head(queue) THEN Sent(cs[c], c, Head(ready)) ELSE cs[c]]
  /\ aio_send' = [p \in Pipes |-> IF p = Head(ready) THEN cs[Head(queue)].request_id
                                  ELSE IF p \in done THEN 0 ELSE aio_send[p]]
  /\ written' = written \ (done \cup {Head(ready)})
  /\ send_queue' = Tail(queue) /\ ready_pipes' = Tail(ready)
  /\ busy_pipes' = (busy_pipes \ done) \cup {Head(ready)}
  /\ reqWritable' = (w /\ Tail(ready) # <<>>)

LEMMA RunOutcome ==
  ASSUME NEW cs, NEW queue \in Seq(Contexts), NEW ready \in Seq(Pipes), NEW w \in BOOLEAN,
         NEW done, Few(queue, ready), RunSendQueue(cs, queue, ready, w, done)
  PROVE  Stalls(cs, queue, ready, w, done) \/ Serves(cs, queue, ready, w, done)
<1> DEFINE n == IF Len(queue) < Len(ready) THEN Len(queue) ELSE Len(ready)
           at(c) == CHOOSE i \in 1..n : queue[i] = c
           taker(p) == CHOOSE i \in 1..n : ready[i] = p
           heads == Members(SubSeq(queue, 1, n))
           firsts == Members(SubSeq(ready, 1, n))
<1>1. /\ reqCtx' = [c \in Contexts |-> IF c \in heads THEN Sent(cs[c], c, ready[at(c)]) ELSE cs[c]]
      /\ aio_send' = [p \in Pipes |-> IF p \in firsts THEN cs[queue[taker(p)]].request_id
                                      ELSE IF p \in done THEN 0 ELSE aio_send[p]]
      /\ written' = written \ (done \cup firsts)
      /\ send_queue' = SubSeq(queue, n + 1, Len(queue))
      /\ ready_pipes' = SubSeq(ready, n + 1, Len(ready))
      /\ busy_pipes' = (busy_pipes \ done) \cup firsts
      /\ reqWritable' = (w /\ ~(n > 0 /\ n = Len(ready)))
  BY DEF RunSendQueue, StillWritable
<1>2. Len(queue) \in Nat /\ Len(ready) \in Nat
  BY LenProperties
<1>3. CASE queue = <<>> \/ ready = <<>>
  <2>1. n = 0
    BY <1>2, <1>3, EmptyFacts
  <2>2. heads = {} /\ firsts = {}
    BY <2>1, EmptyFacts
  <2> HIDE DEF n, at, taker, heads, firsts
  <2>3. n + 1 = 1 /\ ~(n > 0)
    BY <2>1
  <2>4. /\ SubSeq(queue, n + 1, Len(queue)) = queue /\ SubSeq(ready, n + 1, Len(ready)) = ready
    BY <2>3, EmptyFacts
  <2> QED
    BY <1>1, <1>3, <2>2, <2>3, <2>4 DEF Stalls
<1>4. CASE queue # <<>> /\ ready # <<>>
  <2>1. n = 1
    BY <1>2, <1>4, FirstFacts DEF Few
  <2>2. /\ Head(queue) = queue[1] /\ Head(ready) = ready[1]
        /\ Tail(ready) = <<>> <=> Len(ready) = 1
    BY <1>4, FirstFacts
  <2>3. heads = {Head(queue)} /\ firsts = {Head(ready)}
    BY <1>4, <2>1, FirstFacts
  <2>4. at(Head(queue)) = 1 /\ taker(Head(ready)) = 1
    BY <1>4, <2>1, FirstFacts
  <2> HIDE DEF n, at, taker, heads, firsts
  <2>5. n + 1 = 2 /\ n > 0
    BY <2>1
  <2>6. /\ SubSeq(queue, n + 1, Len(queue)) = Tail(queue)
        /\ SubSeq(ready, n + 1, Len(ready)) = Tail(ready)
        /\ n = Len(ready) <=> Tail(ready) = <<>>
    BY <1>4, <2>1, <2>2, <2>5, FirstFacts
  <2>7. reqCtx' = [c \in Contexts |-> IF c = Head(queue) THEN Sent(cs[c], c, Head(ready))
                                      ELSE cs[c]]
    BY <1>1, <2>2, <2>3, <2>4
  <2>8. aio_send' = [p \in Pipes |-> IF p = Head(ready) THEN cs[Head(queue)].request_id
                                    ELSE IF p \in done THEN 0 ELSE aio_send[p]]
    BY <1>1, <2>2, <2>3, <2>4
  <2> QED
    BY <1>1, <1>4, <2>3, <2>5, <2>6, <2>7, <2>8 DEF Serves
<1> QED
  BY <1>3, <1>4

-----------------------------------------------------------------------------
(* What the types say of a state and of the next one.                      *)

LEMMA TypeFacts ==
  ASSUME ReqAssumption, ReqTypeOK
  PROVE  /\ MaxSends \in Nat /\ sends \in 0..MaxSends /\ Nobody \notin Contexts
         /\ Nobody \notin Pipes /\ 0 \in 0..MaxSends
         /\ reqCtx \in [Contexts -> Context]
         /\ \A c \in Contexts :
              /\ reqCtx[c] \in Context
              /\ reqCtx[c].request_id \in 0..MaxSends /\ reqCtx[c].req_msg \in BOOLEAN
              /\ reqCtx[c].send_aio \in BOOLEAN /\ reqCtx[c].recv_aio \in BOOLEAN
              /\ reqCtx[c].rep_msg \in 0..MaxSends /\ reqCtx[c].timer \in BOOLEAN
              /\ reqCtx[c].pipe \in Pipes \cup {Nobody} /\ reqCtx[c].conn_reset \in BOOLEAN
              /\ latest[c] \in 0..MaxSends
         /\ \A n \in 0..MaxSends : n # 0 => n \in RequestIds
         /\ \A i \in RequestIds : requests[i] \in Contexts \cup {Nobody}
         /\ given \in Seq(Contexts \X RequestIds)
         /\ \A j \in DOMAIN given :
              given[j] \in Contexts \X RequestIds /\ given[j][2] \in RequestIds
<1>1. /\ MaxSends \in Nat /\ sends \in 0..MaxSends /\ Nobody \notin Contexts
      /\ Nobody \notin Pipes
  BY DEF ReqAssumption, ReqTypeOK
<1>2. reqCtx \in [Contexts -> Context]
  BY DEF ReqTypeOK, Context
<1>3. ASSUME NEW c \in Contexts
      PROVE  /\ reqCtx[c] \in Context
             /\ reqCtx[c].request_id \in 0..MaxSends /\ reqCtx[c].req_msg \in BOOLEAN
             /\ reqCtx[c].send_aio \in BOOLEAN /\ reqCtx[c].recv_aio \in BOOLEAN
             /\ reqCtx[c].rep_msg \in 0..MaxSends /\ reqCtx[c].timer \in BOOLEAN
             /\ reqCtx[c].pipe \in Pipes \cup {Nobody} /\ reqCtx[c].conn_reset \in BOOLEAN
             /\ latest[c] \in 0..MaxSends
  <2>1. reqCtx[c] \in Context
    BY <1>2
  <2> QED
    BY <2>1 DEF ReqTypeOK, Context
<1>4. /\ \A n \in 0..MaxSends : n # 0 => n \in RequestIds
      /\ \A i \in RequestIds : requests[i] \in Contexts \cup {Nobody}
  BY <1>1 DEF ReqTypeOK, RequestIds
<1>5. given \in Seq(Contexts \X RequestIds)
  BY DEF ReqTypeOK
<1>6. \A j \in DOMAIN given : given[j] \in Contexts \X RequestIds
  BY <1>5, ElementOfSeq
<1> QED
  BY <1>1, <1>2, <1>3, <1>4, <1>5, <1>6

LEMMA NextTypeFacts ==
  ASSUME ReqAssumption, ReqTypeOK'
  PROVE  /\ sends' \in 0..MaxSends
         /\ \A c \in Contexts :
              /\ reqCtx'[c].request_id \in 0..MaxSends /\ reqCtx'[c].req_msg \in BOOLEAN
              /\ reqCtx'[c].rep_msg \in 0..MaxSends /\ latest'[c] \in 0..MaxSends
         /\ \A i \in RequestIds : requests'[i] \in Contexts \cup {Nobody}
  BY DEF ReqTypeOK, ReqAssumption

-----------------------------------------------------------------------------
(* Requests and replies: what a step may do to them.                       *)

SameBook(c) ==
  /\ reqCtx'[c].request_id = reqCtx[c].request_id
  /\ reqCtx'[c].req_msg = reqCtx[c].req_msg /\ reqCtx'[c].rep_msg = reqCtx[c].rep_msg

(* The contexts in E give their requests up.                               *)
Drops(E) ==
  /\ \A c \in Contexts \ E : SameBook(c) /\ latest'[c] = latest[c]
  /\ \A c \in E :
       /\ reqCtx'[c].request_id = 0 /\ ~reqCtx'[c].req_msg /\ reqCtx'[c].rep_msg = 0
       /\ latest'[c] \in {0, latest[c]}
  /\ \A i \in RequestIds : requests'[i] = IF requests[i] \in E THEN Nobody ELSE requests[i]
  /\ sends' = sends /\ given' = given

(* c gives up its request for a new one, which is accepted or not.         *)
Renews(c) ==
  /\ sends' = sends + 1 /\ given' = given
  /\ \A d \in Contexts \ {c} : SameBook(d) /\ latest'[d] = latest[d]
  /\ reqCtx'[c].request_id = sends + 1 /\ reqCtx'[c].rep_msg = 0
  /\ \/ reqCtx'[c].req_msg /\ requests'[sends + 1] = c /\ latest'[c] = sends + 1
     \/ ~reqCtx'[c].req_msg /\ requests'[sends + 1] = Nobody /\ latest'[c] = 0
  /\ \A i \in RequestIds \ {sends + 1} :
       requests'[i] = IF requests[i] = c THEN Nobody ELSE requests[i]

(* The user of c receives the stashed reply.                               *)
Gives(c) ==
  /\ \A d \in Contexts \ {c} : SameBook(d)
  /\ reqCtx[c].rep_msg # 0 /\ reqCtx'[c].rep_msg = 0
  /\ reqCtx'[c].request_id = reqCtx[c].request_id /\ reqCtx'[c].req_msg = reqCtx[c].req_msg
  /\ given' = Append(given, <<c, reqCtx[c].rep_msg>>)
  /\ requests' = requests /\ latest' = latest /\ sends' = sends

(* The reply to request id has come: its user receives it, or it is        *)
(* stashed.                                                                *)
Answers(c, id) ==
  /\ id \in RequestIds /\ requests[id] = c
  /\ \A d \in Contexts \ {c} : SameBook(d)
  /\ reqCtx'[c].request_id = 0 /\ ~reqCtx'[c].req_msg
  /\ \/ reqCtx'[c].rep_msg = 0 /\ given' = Append(given, <<c, id>>)
     \/ reqCtx'[c].rep_msg = id /\ given' = given
  /\ requests' = [requests EXCEPT ![id] = Nobody] /\ latest' = latest /\ sends' = sends

LEMMA DropsKeeps ==
  ASSUME ReqAssumption, ReqTypeOK, ReqTypeOK', Books, NEW E \in SUBSET Contexts, Drops(E)
  PROVE  Books'
<1>1. Registered'
  <2>1. ASSUME NEW c \in Contexts
        PROVE  /\ reqCtx'[c].request_id <= sends'
               /\ reqCtx'[c].request_id # 0 => requests'[reqCtx'[c].request_id] \in {c, Nobody}
               /\ reqCtx'[c].req_msg => /\ reqCtx'[c].request_id # 0
                                        /\ requests'[reqCtx'[c].request_id] = c
    <3>1. CASE c \in E
      BY <3>1, TypeFacts DEF Drops
    <3>2. CASE c \notin E
      <4>1. /\ reqCtx'[c].request_id = reqCtx[c].request_id
            /\ reqCtx'[c].req_msg = reqCtx[c].req_msg
        BY <3>2 DEF Drops, SameBook
      <4>2. /\ reqCtx[c].request_id <= sends
            /\ reqCtx[c].request_id # 0 => requests[reqCtx[c].request_id] \in {c, Nobody}
            /\ reqCtx[c].req_msg => /\ reqCtx[c].request_id # 0
                                    /\ requests[reqCtx[c].request_id] = c
        BY DEF Books, Registered
      <4>3. reqCtx[c].request_id # 0 => reqCtx[c].request_id \in RequestIds
        BY TypeFacts
      <4> QED
        BY <3>2, <4>1, <4>2, <4>3, TypeFacts DEF Drops
    <3> QED
      BY <3>1, <3>2
  <2>2. FoundIsWaiting'
    <3>1. ASSUME NEW i \in RequestIds, requests'[i] # Nobody
          PROVE  /\ reqCtx'[requests'[i]].request_id = i
                 /\ reqCtx'[requests'[i]].req_msg /\ reqCtx'[requests'[i]].rep_msg = 0
      <4>1. requests'[i] = requests[i] /\ requests[i] \in Contexts \ E
        BY <3>1, TypeFacts DEF Drops
      <4>2. SameBook(requests[i])
        BY <4>1 DEF Drops
      <4> QED
        BY <3>1, <4>1, <4>2 DEF Books, Registered, FoundIsWaiting, SameBook
    <3> QED
      BY <3>1 DEF FoundIsWaiting
  <2> QED
    BY <2>1, <2>2 DEF Registered
<1>2. LatestApart'
  <2>1. \A c \in Contexts : latest'[c] \in {0, latest[c]} /\ latest[c] <= sends
    BY DEF Drops, Books, LatestApart
  <2>2. \A c \in Contexts : latest'[c] <= sends'
    BY <2>1, TypeFacts DEF Drops
  <2>3. \A c, d \in Contexts : latest'[c] # 0 /\ latest'[c] = latest'[d] => c = d
    BY <2>1 DEF Books, LatestApart
  <2>4. ASSUME NEW i \in RequestIds, requests'[i] # Nobody
        PROVE  i <= sends' /\ latest'[requests'[i]] = i
    <3>1. requests'[i] = requests[i] /\ requests[i] \in Contexts \ E
      BY <2>4, TypeFacts DEF Drops
    <3> QED
      BY <2>4, <3>1 DEF Books, LatestApart, Drops
  <2> QED
    BY <2>2, <2>3, <2>4 DEF LatestApart
<1>3. Stashed'
  <2>1. ASSUME NEW c \in Contexts, reqCtx'[c].rep_msg # 0
        PROVE  reqCtx'[c].rep_msg = latest'[c] /\ requests'[reqCtx'[c].rep_msg] = Nobody
    <3>1. /\ reqCtx'[c].rep_msg = reqCtx[c].rep_msg /\ latest'[c] = latest[c]
      BY <2>1 DEF Drops, SameBook
    <3>2. reqCtx[c].rep_msg = latest[c] /\ requests[reqCtx[c].rep_msg] = Nobody
      BY <2>1, <3>1 DEF Books, Stashed
    <3>3. reqCtx[c].rep_msg \in RequestIds
      BY <2>1, <3>1, TypeFacts
    <3> QED
      BY <3>1, <3>2, <3>3 DEF Drops
  <2> QED
    BY <2>1 DEF Stashed
<1>4. GivenApart'
  <2>1. ASSUME NEW j \in DOMAIN given
        PROVE  /\ given[j][2] <= sends /\ requests'[given[j][2]] = Nobody
               /\ \A c \in Contexts : reqCtx'[c].rep_msg # given[j][2]
    <3>1. /\ given[j][2] <= sends /\ requests[given[j][2]] = Nobody
          /\ \A c \in Contexts : reqCtx[c].rep_msg # given[j][2]
      BY DEF Books, GivenApart
    <3>2. given[j][2] \in RequestIds /\ given[j][2] # 0
      BY TypeFacts DEF RequestIds
    <3>3. \A c \in Contexts : reqCtx'[c].rep_msg \in {0, reqCtx[c].rep_msg}
      BY DEF Drops, SameBook
    <3> QED
      BY <3>1, <3>2, <3>3 DEF Drops
  <2> QED
    BY <2>1 DEF GivenApart, Drops
<1> QED
  BY <1>1, <1>2, <1>3, <1>4 DEF Books

LEMMA RenewsKeeps ==
  ASSUME ReqAssumption, ReqTypeOK, ReqTypeOK', Books, NEW c \in Contexts, Renews(c)
  PROVE  Books'
<1> DEFINE id == sends + 1
<1>1. /\ sends \in Nat /\ sends' = id /\ id \in RequestIds /\ id > sends /\ id # 0
      /\ sends' \in Nat
  BY TypeFacts, NextTypeFacts DEF Renews, RequestIds
<1>2. Registered'
  <2>1. ASSUME NEW d \in Contexts
        PROVE  /\ reqCtx'[d].request_id <= sends'
               /\ reqCtx'[d].request_id # 0 => requests'[reqCtx'[d].request_id] \in {d, Nobody}
               /\ reqCtx'[d].req_msg => /\ reqCtx'[d].request_id # 0
                                        /\ requests'[reqCtx'[d].request_id] = d
    <3>1. CASE d = c
      BY <1>1, <3>1 DEF Renews
    <3>2. CASE d # c
      <4>1. /\ reqCtx'[d].request_id = reqCtx[d].request_id
            /\ reqCtx'[d].req_msg = reqCtx[d].req_msg
        BY <3>2 DEF Renews, SameBook
      <4>2. /\ reqCtx[d].request_id <= sends
            /\ reqCtx[d].request_id # 0 => requests[reqCtx[d].request_id] \in {d, Nobody}
            /\ reqCtx[d].req_msg => /\ reqCtx[d].request_id # 0
                                    /\ requests[reqCtx[d].request_id] = d
        BY DEF Books, Registered
      <4>3. /\ reqCtx[d].request_id # 0 => reqCtx[d].request_id \in RequestIds
            /\ reqCtx[d].request_id \in Nat
        BY TypeFacts
      <4>4. reqCtx[d].request_id # id /\ reqCtx[d].request_id <= sends'
        BY <1>1, <4>2, <4>3
      <4>5. reqCtx[d].request_id # 0 =>
              requests'[reqCtx[d].request_id] = IF requests[reqCtx[d].request_id] = c THEN Nobody
                                                ELSE requests[reqCtx[d].request_id]
        BY <4>3, <4>4 DEF Renews
      <4> QED
        BY <3>2, <4>1, <4>2, <4>4, <4>5
    <3> QED
      BY <3>1, <3>2
  <2>2. FoundIsWaiting'
    <3>1. ASSUME NEW i \in RequestIds, requests'[i] # Nobody
          PROVE  /\ reqCtx'[requests'[i]].request_id = i
                 /\ reqCtx'[requests'[i]].req_msg /\ reqCtx'[requests'[i]].rep_msg = 0
      <4>1. CASE i = id
        BY <3>1, <4>1 DEF Renews
      <4>2. CASE i # id
        <5>1. requests'[i] = requests[i] /\ requests[i] \in Contexts \ {c}
          BY <3>1, <4>2, TypeFacts DEF Renews
        <5>2. SameBook(requests[i])
          BY <5>1 DEF Renews
        <5> QED
          BY <3>1, <5>1, <5>2 DEF Books, Registered, FoundIsWaiting, SameBook
      <4> QED
        BY <4>1, <4>2
    <3> QED
      BY <3>1 DEF FoundIsWaiting
  <2> QED
    BY <2>1, <2>2 DEF Registered
<1>3. LatestApart'
  <2>1. \A d \in Contexts : latest[d] <= sends /\ latest[d] \in Nat
    BY TypeFacts DEF Books, LatestApart
  <2>2. \A d \in Contexts : latest'[d] = latest[d] \/ (d = c /\ latest'[d] \in {0, id})
    BY DEF Renews
  <2>3. \A d \in Contexts : latest'[d] <= sends'
    BY <1>1, <2>1, <2>2
  <2>4. \A d, e \in Contexts : latest'[d] # 0 /\ latest'[d] = latest'[e] => d = e
    <3>1. ASSUME NEW d \in Contexts, NEW e \in Contexts, latest'[d] # 0, latest'[d] = latest'[e]
          PROVE  d = e
      <4>1. CASE d # c /\ e # c
        BY <3>1, <4>1 DEF Books, LatestApart, Renews
      <4>2. CASE d = c /\ e # c
        BY <1>1, <2>1, <3>1, <4>2 DEF Renews
      <4>3. CASE d # c /\ e = c
        BY <1>1, <2>1, <3>1, <4>3 DEF Renews
      <4> QED
        BY <4>1, <4>2, <4>3
    <3> QED
      BY <3>1
  <2>5. ASSUME NEW i \in RequestIds, requests'[i] # Nobody
        PROVE  i <= sends' /\ latest'[requests'[i]] = i
    <3>1. CASE i = id
      BY <1>1, <2>5, <3>1 DEF Renews
    <3>2. CASE i # id
      <4>1. requests'[i] = requests[i] /\ requests[i] \in Contexts \ {c}
        BY <2>5, <3>2, TypeFacts DEF Renews
      <4>2. i <= sends /\ latest[requests[i]] = i
        BY <2>5, <4>1 DEF Books, LatestApart
      <4>3. i \in Nat
        BY DEF RequestIds
      <4> QED
        BY <1>1, <4>1, <4>2, <4>3 DEF Renews
    <3> QED
      BY <3>1, <3>2
  <2> QED
    BY <2>3, <2>4, <2>5 DEF LatestApart
<1>4. Stashed'
  <2>1. ASSUME NEW d \in Contexts, reqCtx'[d].rep_msg # 0
        PROVE  reqCtx'[d].rep_msg = latest'[d] /\ requests'[reqCtx'[d].rep_msg] = Nobody
    <3>1. d # c /\ reqCtx'[d].rep_msg = reqCtx[d].rep_msg /\ latest'[d] = latest[d]
      BY <2>1 DEF Renews, SameBook
    <3>2. reqCtx[d].rep_msg = latest[d] /\ requests[reqCtx[d].rep_msg] = Nobody
      BY <2>1, <3>1 DEF Books, Stashed
    <3>3. reqCtx[d].rep_msg \in RequestIds
      BY <2>1, <3>1, TypeFacts
    <3>4. reqCtx[d].rep_msg <= sends /\ reqCtx[d].rep_msg \in Nat
      BY <3>2, TypeFacts DEF Books, LatestApart
    <3>5. reqCtx[d].rep_msg # id
      BY <1>1, <3>4
    <3> QED
      BY <3>1, <3>2, <3>3, <3>5 DEF Renews
  <2> QED
    BY <2>1 DEF Stashed
<1>5. GivenApart'
  <2>1. ASSUME NEW j \in DOMAIN given
        PROVE  /\ given[j][2] <= sends' /\ requests'[given[j][2]] = Nobody
               /\ \A d \in Contexts : reqCtx'[d].rep_msg # given[j][2]
    <3>1. /\ given[j][2] <= sends /\ requests[given[j][2]] = Nobody
          /\ \A d \in Contexts : reqCtx[d].rep_msg # given[j][2]
      BY DEF Books, GivenApart
    <3>2. given[j][2] \in RequestIds /\ given[j][2] # 0 /\ given[j][2] \in Nat
      BY TypeFacts DEF RequestIds
    <3>3. \A d \in Contexts : reqCtx'[d].rep_msg \in {0, reqCtx[d].rep_msg}
      BY DEF Renews, SameBook
    <3>4. given[j][2] # id /\ given[j][2] <= sends'
      BY <1>1, <3>1, <3>2
    <3>5. requests'[given[j][2]] = Nobody
      BY <3>1, <3>2, <3>4 DEF Renews
    <3> QED
      BY <3>1, <3>2, <3>3, <3>4, <3>5
  <2> QED
    BY <2>1 DEF GivenApart, Renews
<1> QED
  BY <1>2, <1>3, <1>4, <1>5 DEF Books

(* What is received answers the latest request, and was not received       *)
(* before.                                                                 *)
OwnReply ==
  \A i \in DOMAIN given' \ DOMAIN given :
    /\ given'[i][2] = latest[given'[i][1]]
    /\ \A j \in DOMAIN given : given[j][2] # given'[i][2]

LEMMA LastFacts ==
  ASSUME NEW S, NEW s \in Seq(S), NEW x \in S
  PROVE  /\ \A i \in DOMAIN s : i \in DOMAIN Append(s, x) /\ Append(s, x)[i] = s[i]
         /\ \A i \in DOMAIN Append(s, x) \ DOMAIN s : Append(s, x)[i] = x
<1>1. /\ Len(s) \in Nat /\ DOMAIN s = 1..Len(s) /\ DOMAIN Append(s, x) = 1..(Len(s) + 1)
      /\ \A i \in 1..Len(s) : Append(s, x)[i] = s[i]
      /\ Append(s, x)[Len(s) + 1] = x
  BY AppendProperties, LenProperties
<1>2. \A i \in DOMAIN Append(s, x) \ DOMAIN s : i = Len(s) + 1
  BY <1>1
<1>3. \A i \in DOMAIN s : i \in DOMAIN Append(s, x)
  BY <1>1
<1> QED
  BY <1>1, <1>2, <1>3

LEMMA DropsGiveNothing ==
  ASSUME given' = given
  PROVE  OwnReply
  BY DEF OwnReply

LEMMA GivesKeeps ==
  ASSUME ReqAssumption, ReqTypeOK, Books, NEW c \in Contexts, Gives(c)
  PROVE  Books' /\ OwnReply
<1> DEFINE id == reqCtx[c].rep_msg
           last == <<c, id>>
<1>1. id \in RequestIds /\ id # 0 /\ id = latest[c] /\ requests[id] = Nobody /\ id <= sends
  BY TypeFacts DEF Gives, Books, Stashed, LatestApart
<1>2. given \in Seq(Contexts \X RequestIds) /\ last \in Contexts \X RequestIds
  BY <1>1, TypeFacts
<1>3. given' = Append(given, last)
  BY DEF Gives
<1>4. last[1] = c /\ last[2] = id
  OBVIOUS
<1> HIDE DEF last
<1>5. /\ \A i \in DOMAIN given : i \in DOMAIN given' /\ given'[i] = given[i]
      /\ \A i \in DOMAIN given' \ DOMAIN given : given'[i] = last
  BY <1>2, <1>3, LastFacts
<1>6. requests' = requests /\ latest' = latest /\ sends' = sends
  BY DEF Gives
<1>7. \A d \in Contexts :
        /\ reqCtx'[d].request_id = reqCtx[d].request_id
        /\ reqCtx'[d].req_msg = reqCtx[d].req_msg
        /\ reqCtx'[d].rep_msg = IF d = c THEN 0 ELSE reqCtx[d].rep_msg
  BY DEF Gives, SameBook
<1>8. Registered'
  <2>1. FoundIsWaiting'
    <3>1. ASSUME NEW i \in RequestIds, requests[i] # Nobody
          PROVE  /\ reqCtx'[requests[i]].request_id = i
                 /\ reqCtx'[requests[i]].req_msg /\ reqCtx'[requests[i]].rep_msg = 0
      <4>1. requests[i] \in Contexts
        BY <3>1, TypeFacts
      <4>2. /\ reqCtx[requests[i]].request_id = i
            /\ reqCtx[requests[i]].req_msg /\ reqCtx[requests[i]].rep_msg = 0
        BY <3>1 DEF Books, Registered, FoundIsWaiting
      <4> QED
        BY <1>7, <4>1, <4>2
    <3> QED
      BY <1>6, <3>1 DEF FoundIsWaiting
  <2> QED
    BY <1>6, <1>7, <2>1 DEF Books, Registered
<1>9. LatestApart'
  BY <1>6 DEF Books, LatestApart
<1>10. Stashed'
  BY <1>6, <1>7 DEF Books, Stashed
<1>11. ASSUME NEW j \in DOMAIN given PROVE given[j][2] # id
  BY DEF Books, GivenApart
<1>12. GivenApart'
  <2>1. ASSUME NEW j \in DOMAIN given'
        PROVE  /\ given'[j][2] <= sends /\ requests[given'[j][2]] = Nobody
               /\ \A d \in Contexts : reqCtx'[d].rep_msg # given'[j][2]
    <3>1. CASE j \in DOMAIN given
      <4>1. /\ given[j][2] <= sends /\ requests[given[j][2]] = Nobody
            /\ \A d \in Contexts : reqCtx[d].rep_msg # given[j][2]
        BY <3>1 DEF Books, GivenApart
      <4>2. given[j][2] # 0
        BY <3>1, TypeFacts DEF RequestIds
      <4> QED
        BY <1>5, <1>7, <3>1, <4>1, <4>2
    <3>2. CASE j \notin DOMAIN given
      <4>1. given'[j][2] = id
        BY <1>4, <1>5, <3>2
      <4>2. ASSUME NEW d \in Contexts PROVE reqCtx'[d].rep_msg # id
        <5>1. CASE d = c
          BY <1>1, <1>7, <5>1
        <5>2. CASE d # c
          <6>1. reqCtx[d].rep_msg # id
            BY <1>1, <5>2 DEF Books, Stashed, LatestApart
          <6> QED
            BY <1>7, <5>2, <6>1
        <5> QED
          BY <5>1, <5>2
      <4> QED
        BY <1>1, <4>1, <4>2
    <3> QED
      BY <3>1, <3>2
  <2> QED
    BY <1>6, <2>1 DEF GivenApart
<1>13. OwnReply
  <2>1. ASSUME NEW i \in DOMAIN given' \ DOMAIN given
        PROVE  /\ given'[i][2] = latest[given'[i][1]]
               /\ \A j \in DOMAIN given : given[j][2] # given'[i][2]
    BY <1>1, <1>4, <1>5, <1>11
  <2> QED
    BY <2>1 DEF OwnReply
<1> QED
  BY <1>8, <1>9, <1>10, <1>12, <1>13 DEF Books

LEMMA AnswersKeeps ==
  ASSUME ReqAssumption, ReqTypeOK, Books, NEW c \in Contexts, NEW id, Answers(c, id)
  PROVE  Books' /\ OwnReply
<1> DEFINE last == <<c, id>>
<1>1. id \in RequestIds /\ id # 0 /\ requests[id] = c /\ id <= sends /\ id = latest[c]
  BY TypeFacts DEF Answers, Books, LatestApart, RequestIds
<1>2. given \in Seq(Contexts \X RequestIds) /\ last \in Contexts \X RequestIds
  BY <1>1, TypeFacts
<1>3. last[1] = c /\ last[2] = id
  OBVIOUS
<1>4. given' = given \/ given' = Append(given, last)
  BY DEF Answers
<1> HIDE DEF last
<1>5. /\ \A i \in DOMAIN given : i \in DOMAIN given' /\ given'[i] = given[i]
      /\ \A i \in DOMAIN given' \ DOMAIN given : given'[i] = last
  BY <1>2, <1>4, LastFacts
<1>6. latest' = latest /\ sends' = sends
  BY DEF Answers
<1>7. \A i \in RequestIds : requests'[i] = IF i = id THEN Nobody ELSE requests[i]
  BY DEF Answers, ReqTypeOK
<1>8. /\ \A d \in Contexts \ {c} : SameBook(d)
      /\ reqCtx'[c].request_id = 0 /\ ~reqCtx'[c].req_msg
      /\ reqCtx'[c].rep_msg \in {0, id}
  BY DEF Answers
<1>9. /\ reqCtx[c].request_id = id
      /\ \A i \in RequestIds : requests[i] = c => i = id
  BY <1>1, TypeFacts DEF Books, Registered, FoundIsWaiting
<1>10. Registered'
  <2>1. ASSUME NEW d \in Contexts
        PROVE  /\ reqCtx'[d].request_id <= sends'
               /\ reqCtx'[d].request_id # 0 => requests'[reqCtx'[d].request_id] \in {d, Nobody}
               /\ reqCtx'[d].req_msg => /\ reqCtx'[d].request_id # 0
                                        /\ requests'[reqCtx'[d].request_id] = d
    <3>1. CASE d = c
      BY <1>6, <1>8, <3>1, TypeFacts
    <3>2. CASE d # c
      <4>1. /\ reqCtx'[d].request_id = reqCtx[d].request_id
            /\ reqCtx'[d].req_msg = reqCtx[d].req_msg
        BY <1>8, <3>2 DEF SameBook
      <4>2. /\ reqCtx[d].request_id <= sends
            /\ reqCtx[d].request_id # 0 => requests[reqCtx[d].request_id] \in {d, Nobody}
            /\ reqCtx[d].req_msg => /\ reqCtx[d].request_id # 0
                                    /\ requests[reqCtx[d].request_id] = d
        BY DEF Books, Registered
      <4>3. reqCtx[d].request_id # 0 => reqCtx[d].request_id \in RequestIds
        BY TypeFacts
      <4> QED
        BY <1>1, <1>6, <1>7, <3>2, <4>1, <4>2, <4>3
    <3> QED
      BY <3>1, <3>2
  <2>2. FoundIsWaiting'
    <3>1. ASSUME NEW i \in RequestIds, requests'[i] # Nobody
          PROVE  /\ reqCtx'[requests'[i]].request_id = i
                 /\ reqCtx'[requests'[i]].req_msg /\ reqCtx'[requests'[i]].rep_msg = 0
      <4>1. requests'[i] = requests[i] /\ requests[i] \in Contexts \ {c}
        BY <1>7, <1>9, <3>1, TypeFacts
      <4>2. SameBook(requests[i])
        BY <1>8, <4>1
      <4> QED
        BY <3>1, <4>1, <4>2 DEF Books, Registered, FoundIsWaiting, SameBook
    <3> QED
      BY <3>1 DEF FoundIsWaiting
  <2> QED
    BY <2>1, <2>2 DEF Registered
<1>11. LatestApart'
  BY <1>6, <1>7 DEF Books, LatestApart
<1>12. Stashed'
  <2>1. ASSUME NEW d \in Contexts, reqCtx'[d].rep_msg # 0
        PROVE  reqCtx'[d].rep_msg = latest[d] /\ requests'[reqCtx'[d].rep_msg] = Nobody
    <3>1. CASE d = c
      BY <1>1, <1>7, <1>8, <2>1, <3>1
    <3>2. CASE d # c
      <4>1. reqCtx'[d].rep_msg = reqCtx[d].rep_msg
        BY <1>8, <3>2 DEF SameBook
      <4>2. reqCtx[d].rep_msg = latest[d] /\ requests[reqCtx[d].rep_msg] = Nobody
        BY <2>1, <4>1 DEF Books, Stashed
      <4>3. reqCtx[d].rep_msg \in RequestIds
        BY <2>1, <4>1, TypeFacts
      <4> QED
        BY <1>7, <4>1, <4>2, <4>3
    <3> QED
      BY <3>1, <3>2
  <2> QED
    BY <1>6, <2>1 DEF Stashed
<1>13. ASSUME NEW j \in DOMAIN given PROVE given[j][2] # id /\ given[j][2] \in RequestIds
  BY <1>1, TypeFacts DEF Books, GivenApart
<1>14. ASSUME NEW d \in Contexts PROVE reqCtx[d].rep_msg # id
  BY <1>1, TypeFacts DEF Books, Stashed
<1>15. GivenApart'
  <2>1. ASSUME NEW j \in DOMAIN given'
        PROVE  /\ given'[j][2] <= sends /\ requests'[given'[j][2]] = Nobody
               /\ \A d \in Contexts : reqCtx'[d].rep_msg # given'[j][2]
    <3>1. CASE j \in DOMAIN given
      <4>1. /\ given[j][2] <= sends /\ requests[given[j][2]] = Nobody
            /\ \A d \in Contexts : reqCtx[d].rep_msg # given[j][2]
        BY <3>1 DEF Books, GivenApart
      <4>2. given[j][2] # 0 /\ given[j][2] # id /\ given[j][2] \in RequestIds
        BY <1>13, <3>1 DEF RequestIds
      <4>3. \A d \in Contexts : reqCtx'[d].rep_msg # given[j][2]
        BY <1>8, <4>1, <4>2 DEF SameBook
      <4> QED
        BY <1>5, <1>7, <3>1, <4>1, <4>2, <4>3
    <3>2. CASE j \notin DOMAIN given
      <4>1. given'[j][2] = id
        BY <1>3, <1>5, <3>2
      <4>2. reqCtx'[c].rep_msg = 0
        <5>1. given' # given
          BY <2>1, <3>2
        <5> QED
          BY <5>1 DEF Answers
      <4>3. \A d \in Contexts : reqCtx'[d].rep_msg # id
        BY <1>1, <1>8, <1>14, <4>2 DEF SameBook
      <4> QED
        BY <1>1, <1>7, <4>1, <4>3
    <3> QED
      BY <3>1, <3>2
  <2> QED
    BY <1>6, <2>1 DEF GivenApart
<1>16. OwnReply
  <2>1. ASSUME NEW i \in DOMAIN given' \ DOMAIN given
        PROVE  /\ given'[i][2] = latest[given'[i][1]]
               /\ \A j \in DOMAIN given : given[j][2] # given'[i][2]
    BY <1>1, <1>3, <1>5, <1>13
  <2> QED
    BY <2>1 DEF OwnReply
<1> QED
  BY <1>10, <1>11, <1>12, <1>15, <1>16 DEF Books

-----------------------------------------------------------------------------
(* The contexts that wait: what a step may do to them.                     *)

SameWait(c) ==
  /\ reqCtx'[c].req_msg = reqCtx[c].req_msg /\ reqCtx'[c].send_aio = reqCtx[c].send_aio
  /\ reqCtx'[c].timer = reqCtx[c].timer /\ reqCtx'[c].pipe = reqCtx[c].pipe

Rests ==
  /\ \A c \in Contexts : SameWait(c)
  /\ send_queue' = send_queue /\ firing' = firing /\ reqUp' = reqUp /\ (closed => closed')

(* c has no request any more.                                              *)
LeavesQueue(c) ==
  /\ \A d \in Contexts \ {c} : SameWait(d)
  /\ ~reqCtx'[c].req_msg /\ (reqCtx'[c].timer => reqCtx[c].timer)
  /\ send_queue' = Without(send_queue, c)
  /\ firing' = firing /\ reqUp' = reqUp /\ closed' = closed

LEMMA QueueTypes ==
  ASSUME ReqTypeOK
  PROVE  /\ send_queue \in Seq(Contexts) /\ Members(send_queue) \subseteq Contexts
         /\ ready_pipes \in Seq(Pipes) /\ Members(ready_pipes) \subseteq Pipes
<1>1. send_queue \in Seq(Contexts) /\ ready_pipes \in Seq(Pipes)
  BY DEF ReqTypeOK
<1> QED
  BY <1>1, EmptyFacts

LEMMA RestsKeeps ==
  ASSUME ReqTypeOK, Waits, Rests
  PROVE  Waits'
<1>1. \A c \in Contexts :
        /\ reqCtx'[c].req_msg = reqCtx[c].req_msg /\ reqCtx'[c].send_aio = reqCtx[c].send_aio
        /\ reqCtx'[c].timer = reqCtx[c].timer /\ reqCtx'[c].pipe = reqCtx[c].pipe
  BY DEF Rests, SameWait
<1>2. send_queue' = send_queue /\ firing' = firing /\ reqUp' = reqUp /\ (closed => closed')
  BY DEF Rests
<1> QED
  BY <1>1, <1>2, QueueTypes DEF Waits, Waiting

LEMMA LeavesKeeps ==
  ASSUME ReqTypeOK, Waits, NEW c \in Contexts, LeavesQueue(c)
  PROVE  Waits'
<1>1. Once(send_queue') /\ Members(send_queue') = Members(send_queue) \ {c}
  BY QueueTypes, WithoutFacts DEF LeavesQueue, Waits, Waiting
<1>2. \A d \in Contexts \ {c} :
        /\ reqCtx'[d].req_msg = reqCtx[d].req_msg /\ reqCtx'[d].send_aio = reqCtx[d].send_aio
        /\ reqCtx'[d].timer = reqCtx[d].timer /\ reqCtx'[d].pipe = reqCtx[d].pipe
  BY DEF LeavesQueue, SameWait
<1>3. ~reqCtx'[c].req_msg /\ (reqCtx'[c].timer => reqCtx[c].timer)
  BY DEF LeavesQueue
<1>4. firing' = firing /\ reqUp' = reqUp /\ closed' = closed
  BY DEF LeavesQueue
<1> DEFINE sender(d) == reqCtx'[d].send_aio /\ reqCtx'[d].req_msg => d \in Members(send_queue')
           member(d) == d \in Members(send_queue') =>
                          reqCtx'[d].req_msg /\ (~Retries(d) => reqCtx'[d].pipe = Nobody)
           timed(d) == reqCtx'[d].timer \/ firing' = d => Retries(d)
           kept(d) == ~closed' /\ reqCtx'[d].req_msg =>
                        \/ d \in Members(send_queue')
                        \/ Retries(d) /\ (reqCtx'[d].timer \/ firing' = d)
                        \/ /\ ~Retries(d) /\ reqCtx'[d].pipe # Nobody
                           /\ reqUp'[reqCtx'[d].pipe] = "up"
<1>5. ASSUME NEW d \in Contexts PROVE sender(d) /\ member(d) /\ timed(d) /\ kept(d)
  <2>1. CASE d = c
    BY <1>1, <1>3, <1>4, <2>1 DEF Waits, Waiting
  <2>2. CASE d # c
    BY <1>1, <1>2, <1>4, <2>2 DEF Waits, Waiting
  <2> QED
    BY <2>1, <2>2
<1>6. Members(send_queue') \subseteq Contexts
  BY <1>1, QueueTypes
<1> QED
  BY <1>1, <1>5, <1>6 DEF Waits, Waiting

(* req0_run_send_queue forgets nobody.                                     *)
LEMMA SentFacts ==
  ASSUME NEW k \in Context, NEW c, NEW p \in Pipes
  PROVE  /\ Sent(k, c, p) \in Context
         /\ Sent(k, c, p).request_id = k.request_id /\ Sent(k, c, p).req_msg = k.req_msg
         /\ Sent(k, c, p).rep_msg = k.rep_msg
         /\ ~Sent(k, c, p).send_aio /\ Sent(k, c, p).pipe = p
         /\ Sent(k, c, p).timer = (k.timer \/ Retries(c))
<1>1. (k.timer \/ Retries(c)) \in BOOLEAN
  OBVIOUS
<1> QED
  BY <1>1 DEF Sent, Context

LEMMA RunFacts ==
  ASSUME ReqAssumption, ReqTypeOK, NEW cs \in [Contexts -> Context], NEW queue \in Seq(Contexts),
         NEW ready \in Seq(Pipes), NEW w \in BOOLEAN, NEW done,
         Stalls(cs, queue, ready, w, done) \/ Serves(cs, queue, ready, w, done)
  PROVE  /\ reqCtx' \in [Contexts -> Context]
         /\ \A c \in Contexts :
              /\ reqCtx'[c].request_id = cs[c].request_id /\ reqCtx'[c].req_msg = cs[c].req_msg
              /\ reqCtx'[c].rep_msg = cs[c].rep_msg
         /\ aio_send' \in [Pipes -> 0..MaxSends] /\ written' \subseteq Pipes
         /\ send_queue' \in Seq(Contexts) /\ ready_pipes' \in Seq(Pipes)
         /\ busy_pipes' \subseteq Pipes /\ reqWritable' \in BOOLEAN
<1>1. 0 \in 0..MaxSends
  BY TypeFacts
<1>2. CASE Stalls(cs, queue, ready, w, done)
  BY <1>1, <1>2 DEF Stalls, ReqTypeOK
<1>3. CASE Serves(cs, queue, ready, w, done)
  <2> DEFINE h == Head(queue)
             p == Head(ready)
  <2>1. h \in Contexts /\ p \in Pipes /\ Tail(queue) \in Seq(Contexts) /\ Tail(ready) \in Seq(Pipes)
    BY <1>3, TailFacts DEF Serves
  <2>2. cs[h].request_id \in 0..MaxSends
    BY <2>1 DEF Context
  <2>3. /\ reqCtx' = [c \in Contexts |-> IF c = h THEN Sent(cs[c], c, p) ELSE cs[c]]
        /\ aio_send' = [q \in Pipes |-> IF q = p THEN cs[h].request_id
                                        ELSE IF q \in done THEN 0 ELSE aio_send[q]]
        /\ written' = written \ (done \cup {p})
        /\ send_queue' = Tail(queue) /\ ready_pipes' = Tail(ready)
        /\ busy_pipes' = (busy_pipes \ done) \cup {p}
        /\ reqWritable' = (w /\ Tail(ready) # <<>>)
    BY <1>3 DEF Serves
  <2> HIDE DEF h, p
  <2>4. \A c \in Contexts : reqCtx'[c] = IF c = h THEN Sent(cs[c], c, p) ELSE cs[c]
    BY <2>3
  <2>5. ASSUME NEW c \in Contexts
        PROVE  /\ (IF c = h THEN Sent(cs[c], c, p) ELSE cs[c]) \in Context
               /\ reqCtx'[c].request_id = cs[c].request_id /\ reqCtx'[c].req_msg = cs[c].req_msg
               /\ reqCtx'[c].rep_msg = cs[c].rep_msg
    BY <2>1, <2>4, SentFacts
  <2>6. reqCtx' \in [Contexts -> Context]
    BY <2>3, <2>5
  <2>7. aio_send' \in [Pipes -> 0..MaxSends]
    BY <1>1, <2>2, <2>3 DEF ReqTypeOK
  <2>8. written' \subseteq Pipes /\ busy_pipes' \subseteq Pipes /\ reqWritable' \in BOOLEAN
    BY <2>1, <2>3 DEF ReqTypeOK
  <2> QED
    BY <2>1, <2>3, <2>5, <2>6, <2>7, <2>8
<1> QED
  BY <1>2, <1>3

LEMMA RunWaits ==
  ASSUME NEW cs \in [Contexts -> Context], NEW queue \in Seq(Contexts),
         NEW ready \in Seq(Pipes), NEW w \in BOOLEAN, NEW done, NEW fired, NEW shut, NEW state,
         Nobody \notin Pipes,
         Waiting(cs, queue, fired, shut, state),
         \A p \in Members(ready) : state[p] = "up",
         Stalls(cs, queue, ready, w, done) \/ Serves(cs, queue, ready, w, done)
  PROVE  Waiting(reqCtx', send_queue', fired, shut, state)
<1>1. CASE Stalls(cs, queue, ready, w, done)
  <2>1. reqCtx' = cs /\ send_queue' = queue
    BY <1>1 DEF Stalls
  <2> QED
    BY <2>1
<1>2. CASE Serves(cs, queue, ready, w, done)
  <2> DEFINE h == Head(queue)
             p == Head(ready)
  <2>1. h \in Contexts /\ p \in Pipes /\ p \in Members(ready) /\ h \in Members(queue)
    BY <1>2, TailFacts DEF Serves
  <2>2. Once(queue)
    BY DEF Waiting
  <2>3. Once(send_queue') /\ Members(send_queue') = Members(queue) \ {h}
    BY <1>2, <2>2, TailFacts DEF Serves
  <2>4. reqCtx' = [c \in Contexts |-> IF c = h THEN Sent(cs[c], c, p) ELSE cs[c]]
    BY <1>2 DEF Serves
  <2> HIDE DEF h, p
  <2>5. /\ \A c \in Contexts : c # h => reqCtx'[c] = cs[c]
        /\ reqCtx'[h] = Sent(cs[h], h, p)
    BY <2>1, <2>4
  <2>6. /\ ~reqCtx'[h].send_aio /\ reqCtx'[h].pipe = p
        /\ reqCtx'[h].timer = (cs[h].timer \/ Retries(h))
    BY <2>1, <2>5, SentFacts
  <2>7. state[p] = "up" /\ p # Nobody
    BY <2>1
  <2>8. Members(queue) \subseteq Contexts
    BY EmptyFacts
  <2> DEFINE sender(c) == reqCtx'[c].send_aio /\ reqCtx'[c].req_msg => c \in Members(send_queue')
             member(c) == c \in Members(send_queue') =>
                            reqCtx'[c].req_msg /\ (~Retries(c) => reqCtx'[c].pipe = Nobody)
             timed(c) == reqCtx'[c].timer \/ fired = c => Retries(c)
             kept(c) == ~shut /\ reqCtx'[c].req_msg =>
                          \/ c \in Members(send_queue')
                          \/ Retries(c) /\ (reqCtx'[c].timer \/ fired = c)
                          \/ /\ ~Retries(c) /\ reqCtx'[c].pipe # Nobody
                             /\ state[reqCtx'[c].pipe] = "up"
  <2>9. ASSUME NEW c \in Contexts PROVE sender(c) /\ member(c) /\ timed(c) /\ kept(c)
    <3>1. CASE c = h
      <4>1. timed(c)
        BY <2>6, <3>1 DEF Waiting
      <4>2. sender(c) /\ member(c) /\ kept(c)
        BY <2>3, <2>6, <2>7, <3>1
      <4> QED
        BY <4>1, <4>2
    <3>2. CASE c # h
      BY <2>3, <2>5, <3>2 DEF Waiting
    <3> QED
      BY <3>1, <3>2
  <2> QED
    BY <2>3, <2>8, <2>9 DEF Waiting
<1> QED
  BY <1>1, <1>2

LEMMA RunPipes ==
  ASSUME ReqTypeOK, NEW cs, NEW queue \in Seq(Contexts), NEW ready \in Seq(Pipes),
         NEW w \in BOOLEAN, NEW done, Few(queue, ready),
         PipesApart(ready, busy_pipes \ done, reqUp'),
         \A p \in Pipes : aio_send[p] # 0 => p \in busy_pipes,
         \A p \in written : aio_send[p] # 0,
         (w <=> ready # <<>>) \/ (queue # <<>> /\ Len(ready) = 1),
         Stalls(cs, queue, ready, w, done) \/ Serves(cs, queue, ready, w, done)
  PROVE  PipesServe'
<1>1. written \subseteq Pipes
  BY DEF ReqTypeOK
<1>2. CASE Stalls(cs, queue, ready, w, done)
  <2>1. PipesApart(ready_pipes', busy_pipes', reqUp')
    BY <1>2 DEF Stalls
  <2>2. \A p \in Pipes : aio_send'[p] # 0 => p \in busy_pipes'
    BY <1>2 DEF Stalls
  <2>3. \A p \in written' : aio_send'[p] # 0
    BY <1>1, <1>2 DEF Stalls
  <2>4. send_queue' # <<>> => ready_pipes' = <<>>
    BY <1>2 DEF Stalls
  <2>5. reqWritable' <=> ready_pipes' # <<>>
    <3>1. ready # <<>> => queue = <<>>
      BY <1>2 DEF Stalls
    <3>2. Len(ready) = 1 => ready # <<>>
      <4>1. ready = <<>> => Len(ready) = 0
        BY EmptyFacts
      <4> QED
        BY <4>1
    <3>3. w <=> ready # <<>>
      BY <3>1, <3>2
    <3> QED
      BY <1>2, <3>3 DEF Stalls
  <2> QED
    BY <2>1, <2>2, <2>3, <2>4, <2>5 DEF PipesServe, PollsWritable
<1>3. CASE Serves(cs, queue, ready, w, done)
  <2> DEFINE h == Head(queue)
             p == Head(ready)
  <2>1. /\ queue # <<>> /\ ready # <<>>
        /\ aio_send' = [q \in Pipes |-> IF q = p THEN cs[h].request_id
                                        ELSE IF q \in done THEN 0 ELSE aio_send[q]]
        /\ written' = written \ (done \cup {p})
        /\ send_queue' = Tail(queue) /\ ready_pipes' = Tail(ready)
        /\ busy_pipes' = (busy_pipes \ done) \cup {p}
        /\ reqWritable' = (w /\ Tail(ready) # <<>>)
    BY <1>3 DEF Serves
  <2>2. p \in Pipes /\ p \in Members(ready)
    BY <2>1, TailFacts
  <2>3. Once(ready)
    BY DEF PipesApart
  <2>4. Once(ready_pipes') /\ Members(ready_pipes') = Members(ready) \ {p}
    BY <2>1, <2>3, TailFacts
  <2>5. PipesApart(ready_pipes', busy_pipes', reqUp')
    <3> HIDE DEF p
    <3> QED
      BY <2>1, <2>2, <2>4 DEF PipesApart
  <2>6. \A q \in Pipes : aio_send'[q] # 0 => q \in busy_pipes'
    <3> HIDE DEF p, h
    <3> QED
      BY <2>1
  <2>7. \A q \in written' : aio_send'[q] # 0
    <3> HIDE DEF p, h
    <3> QED
      BY <1>1, <2>1
  <2>8. /\ Tail(queue) = <<>> <=> Len(queue) = 1
        /\ Tail(ready) = <<>> <=> Len(ready) = 1
    BY <2>1, FirstFacts
  <2>9. send_queue' # <<>> => ready_pipes' = <<>>
    BY <2>1, <2>8 DEF Few
  <2>10. reqWritable' <=> ready_pipes' # <<>>
    BY <2>1, <2>8
  <2> QED
    BY <2>5, <2>6, <2>7, <2>9, <2>10 DEF PipesServe, PollsWritable
<1> QED
  BY <1>2, <1>3

-----------------------------------------------------------------------------
(* What leaves requests or pipes alone.                                    *)

LEMMA BooksRest ==
  ASSUME ReqAssumption, ReqTypeOK, ReqTypeOK', Books, \A c \in Contexts : SameBook(c),
         UNCHANGED <<requests, latest, sends, given>>
  PROVE  Books' /\ OwnReply
<1>1. Drops({})
  BY DEF Drops
<1> QED
  BY <1>1, DropsKeeps, DropsGiveNothing

LEMMA PipesRest ==
  ASSUME PipesServe,
         UNCHANGED <<ready_pipes, busy_pipes, reqUp, reqWritable>>,
         send_queue' # <<>> => send_queue # <<>>,
         \A p \in Pipes : aio_send'[p] # 0 => aio_send[p] # 0,
         \A p \in written' : aio_send'[p] # 0
  PROVE  PipesServe'
  BY DEF PipesServe, PipesApart, PollsWritable

LEMMA BecomesFacts ==
  ASSUME ReqAssumption, ReqTypeOK, NEW c \in Contexts, NEW k \in Context,
         reqCtx' = [reqCtx EXCEPT ![c] = k]
  PROVE  /\ reqCtx' \in [Contexts -> Context] /\ reqCtx'[c] = k
         /\ \A d \in Contexts \ {c} : reqCtx'[d] = reqCtx[d] /\ SameBook(d) /\ SameWait(d)
<1>1. reqCtx \in [Contexts -> Context]
  BY TypeFacts
<1>2. /\ reqCtx' \in [Contexts -> Context] /\ reqCtx'[c] = k
      /\ \A d \in Contexts \ {c} : reqCtx'[d] = reqCtx[d]
  BY <1>1
<1> QED
  BY <1>2 DEF SameBook, SameWait

LEMMA QuietKeeps ==
  ASSUME ReqAssumption, ReqInv, UNCHANGED <<reqCtx, queues, ready_pipes, busy_pipes, reqUp,
           reqWritable, firing, sends, latest, given>>,
         closed => closed', ReqTypeOK',
         \A p \in Pipes : aio_send'[p] # 0 => aio_send[p] # 0,
         \A p \in written' : aio_send'[p] # 0
  PROVE  ReqInv' /\ OwnReply
<1>1. \A c \in Contexts : SameBook(c) /\ SameWait(c)
  BY DEF SameBook, SameWait
<1>2. Books' /\ OwnReply
  BY <1>1, BooksRest DEF ReqInv, queues
<1>3. Waits'
  BY <1>1, RestsKeeps DEF ReqInv, Rests, queues
<1>4. PipesServe'
  BY PipesRest DEF ReqInv, queues
<1> QED
  BY <1>2, <1>3, <1>4 DEF ReqInv

LEMMA SockCloseKeeps == ASSUME ReqAssumption, ReqInv, SockClose PROVE ReqInv' /\ OwnReply
<1>1. ReqTypeOK'
  BY DEF SockClose, ReqInv, ReqTypeOK, queues, reqPipes, peers
<1> QED
  BY <1>1, QuietKeeps DEF SockClose, ReqInv, PipesServe, queues, reqPipes

LEMMA TransmitKeeps ==
  ASSUME ReqAssumption, ReqInv, NEW p \in Pipes, Transmit(p)
  PROVE  ReqInv' /\ OwnReply
<1>1. /\ UNCHANGED <<reqCtx, reqOpen, closed, requests, send_queue, ready_pipes, busy_pipes, reqUp,
                     aio_send, reqWritable, reqReadable, firing, inbound, losses, sends, latest,
                     given>>
      /\ aio_send[p] # 0 /\ written' = written \cup {p}
      /\ heard' = heard \cup {<<p, aio_send[p]>>}
  BY DEF Transmit, queues
<1>2. aio_send[p] \in RequestIds
  BY <1>1, TypeFacts DEF ReqInv, ReqTypeOK
<1>3. written' \subseteq Pipes /\ heard' \subseteq Pipes \X RequestIds
  BY <1>1, <1>2 DEF ReqInv, ReqTypeOK
<1>4. ReqTypeOK'
  BY <1>1, <1>3 DEF ReqInv, ReqTypeOK
<1>5. \A q \in written' : aio_send'[q] # 0
  BY <1>1 DEF ReqInv, PipesServe
<1> QED
  BY <1>1, <1>4, <1>5, QuietKeeps DEF queues

LEMMA PeerKeeps ==
  ASSUME ReqAssumption, ReqInv, NEW m \in Pipes \X RequestIds, Answer(m) \/ Lose(m)
  PROVE  ReqInv' /\ OwnReply
<1>1. UNCHANGED <<reqCtx, reqOpen, closed, requests, send_queue, ready_pipes, busy_pipes, reqUp,
                  aio_send, written, reqWritable, reqReadable, firing, sends, latest, given>>
  BY DEF Answer, Lose, queues, reqPipes
<1>2. heard' \subseteq Pipes \X RequestIds /\ inbound' \subseteq Pipes \X RequestIds
  BY DEF Answer, Lose, ReqInv, ReqTypeOK
<1>3. losses' \in 0..MaxLosses
  BY DEF Answer, Lose, ReqInv, ReqTypeOK, ReqAssumption
<1>4. ReqTypeOK'
  BY <1>1, <1>2, <1>3 DEF ReqInv, ReqTypeOK
<1> QED
  BY <1>1, <1>4, QuietKeeps DEF ReqInv, PipesServe, queues

LEMMA StutterKeeps ==
  ASSUME ReqAssumption, ReqInv, UNCHANGED reqVars
  PROVE  ReqInv' /\ OwnReply
<1>1. ReqTypeOK'
  BY DEF reqVars, ReqInv, ReqTypeOK, queues, reqPipes, peers
<1> QED
  BY <1>1, QuietKeeps DEF reqVars, ReqInv, PipesServe, queues, reqPipes

(* A user's receive.                                                       *)
LEMMA RecvKeeps ==
  ASSUME ReqAssumption, ReqInv, NEW c \in Contexts, Recv(c)
  PROVE  ReqInv' /\ OwnReply
<1> USE DEF ReqInv
<1>1. UNCHANGED <<reqOpen, closed, requests, send_queue, ready_pipes, busy_pipes, reqUp,
                  aio_send, written, reqWritable, firing, heard, inbound, losses, sends, latest>>
  BY DEF Recv, queues, reqPipes, peers
<1> DEFINE a == [reqCtx[c] EXCEPT !.conn_reset = FALSE]
           b == [reqCtx[c] EXCEPT !.recv_aio = TRUE]
           g == [reqCtx[c] EXCEPT !.rep_msg = 0]
           r == reqCtx[c].rep_msg
<1>2. /\ a \in Context /\ b \in Context
      /\ \A k \in {a, b} : /\ k.request_id = reqCtx[c].request_id /\ k.req_msg = reqCtx[c].req_msg
                           /\ k.rep_msg = r /\ k.send_aio = reqCtx[c].send_aio
                           /\ k.timer = reqCtx[c].timer /\ k.pipe = reqCtx[c].pipe
  BY TypeFacts DEF Context
<1>3. /\ g \in Context /\ g.request_id = reqCtx[c].request_id /\ g.req_msg = reqCtx[c].req_msg
      /\ g.rep_msg = 0 /\ g.send_aio = reqCtx[c].send_aio
      /\ g.timer = reqCtx[c].timer /\ g.pipe = reqCtx[c].pipe
  BY TypeFacts DEF Context
<1>4. \/ /\ \E k \in {a, b} : reqCtx' = [reqCtx EXCEPT ![c] = k]
         /\ UNCHANGED <<reqReadable, given>>
      \/ /\ reqCtx' = [reqCtx EXCEPT ![c] = g] /\ r # 0
         /\ reqReadable' = (reqReadable /\ c # Master)
         /\ given' = Append(given, <<c, r>>)
  BY DEF Recv
<1> HIDE DEF a, b, g
<1>5. PipesServe'
  BY <1>1, PipesRest DEF PipesServe
<1>6. CASE /\ \E k \in {a, b} : reqCtx' = [reqCtx EXCEPT ![c] = k]
           /\ UNCHANGED <<reqReadable, given>>
  <2>1. PICK k \in {a, b} : reqCtx' = [reqCtx EXCEPT ![c] = k]
    BY <1>6
  <2>2. k \in Context
    BY <1>2, <2>1
  <2>3. /\ reqCtx' \in [Contexts -> Context] /\ reqCtx'[c] = k
        /\ \A d \in Contexts \ {c} : SameBook(d) /\ SameWait(d)
    BY <2>1, <2>2, BecomesFacts
  <2>4. SameBook(c) /\ SameWait(c)
    BY <1>2, <2>1, <2>3 DEF SameBook, SameWait
  <2>5. ReqTypeOK'
    BY <1>1, <1>6, <2>3 DEF ReqTypeOK, Context
  <2>6. Books' /\ OwnReply
    BY <1>1, <1>6, <2>3, <2>4, <2>5, BooksRest
  <2>7. Waits'
    BY <1>1, <2>3, <2>4, RestsKeeps DEF Rests
  <2> QED
    BY <1>5, <2>5, <2>6, <2>7
<1>7. CASE /\ reqCtx' = [reqCtx EXCEPT ![c] = g] /\ r # 0
           /\ reqReadable' = (reqReadable /\ c # Master)
           /\ given' = Append(given, <<c, r>>)
  <2>1. /\ reqCtx' \in [Contexts -> Context] /\ reqCtx'[c] = g
        /\ \A d \in Contexts \ {c} : SameBook(d) /\ SameWait(d)
    BY <1>3, <1>7, BecomesFacts
  <2>2. SameWait(c)
    BY <1>3, <2>1 DEF SameWait
  <2>3. r \in RequestIds
    BY <1>7, TypeFacts
  <2>4. <<c, r>> \in Contexts \X RequestIds /\ given \in Seq(Contexts \X RequestIds)
    BY <2>3, TypeFacts
  <2>5. given' \in Seq(Contexts \X RequestIds)
    BY <1>7, <2>4, AppendProperties
  <2>6. reqReadable' \in BOOLEAN
    BY <1>7
  <2>7. ReqTypeOK'
    BY <1>1, <2>1, <2>5, <2>6 DEF ReqTypeOK, Context
  <2>8. Gives(c)
    BY <1>1, <1>3, <1>7, <2>1 DEF Gives
  <2>9. Waits'
    BY <1>1, <2>1, <2>2, RestsKeeps DEF Rests
  <2> QED
    BY <1>5, <2>7, <2>8, <2>9, GivesKeeps
<1> QED
  BY <1>4, <1>6, <1>7


-----------------------------------------------------------------------------
(* The end of a request.                                                   *)

LEMMA UnlistedFacts ==
  ASSUME ReqAssumption, ReqTypeOK, Books, NEW c \in Contexts
  PROVE  /\ Unlisted(reqCtx[c].request_id) \in [RequestIds -> Contexts \cup {Nobody}]
         /\ \A i \in RequestIds :
              Unlisted(reqCtx[c].request_id)[i] = IF requests[i] = c THEN Nobody ELSE requests[i]
<1> DEFINE id == reqCtx[c].request_id
           u == Unlisted(id)
<1>1. requests \in [RequestIds -> Contexts \cup {Nobody}] /\ c # Nobody
  BY TypeFacts DEF ReqTypeOK
<1>2. \A i \in RequestIds : requests[i] = c => i = id
  BY <1>1 DEF Books, Registered, FoundIsWaiting
<1>3. id # 0 => id \in RequestIds /\ requests[id] \in {c, Nobody}
  BY TypeFacts DEF Books, Registered
<1>4. \A i \in RequestIds : i # 0
  BY DEF RequestIds
<1>5. CASE id = 0
  <2>1. u = requests
    BY <1>5 DEF Unlisted
  <2>2. \A i \in RequestIds : requests[i] # c
    BY <1>2, <1>4, <1>5
  <2> QED
    BY <1>1, <2>1, <2>2
<1>6. CASE id # 0
  <2>1. u = [requests EXCEPT ![id] = Nobody]
    BY <1>6 DEF Unlisted
  <2> HIDE DEF id, u
  <2>2. /\ u \in [RequestIds -> Contexts \cup {Nobody}]
        /\ \A i \in RequestIds : u[i] = IF i = id THEN Nobody ELSE requests[i]
    BY <1>1, <2>1
  <2>3. \A i \in RequestIds : u[i] = IF requests[i] = c THEN Nobody ELSE requests[i]
    BY <1>2, <1>3, <1>6, <2>2
  <2> QED
    BY <2>2, <2>3 DEF u, id
<1> QED
  BY <1>5, <1>6

LEMMA ResetFacts ==
  ASSUME ReqAssumption, ReqTypeOK, NEW c \in Contexts
  PROVE  /\ ResetCtx(c) \in Context
         /\ ResetCtx(c).request_id = 0 /\ ResetCtx(c).req_msg = FALSE /\ ResetCtx(c).rep_msg = 0
         /\ ResetCtx(c).timer = FALSE /\ ResetCtx(c).pipe = Nobody
  BY TypeFacts DEF ResetCtx, Blank, Context

LEMMA NothingLeft ==
  ASSUME NEW S, NEW s \in Seq(S), NEW x, Without(s, x) # <<>>
  PROVE  s # <<>>
<1>1. s = <<>> => Members(s) = {}
  BY EmptyFacts
<1> QED
  BY <1>1 DEF Without

LEMMA AbandonKeeps ==
  ASSUME ReqAssumption, ReqInv, NEW c \in Contexts, NEW k \in Context,
         k.request_id = 0, k.req_msg = FALSE, k.rep_msg = 0, k.timer = FALSE,
         Abandon(c, k), reqOpen' \subseteq Contexts, closed' = closed
  PROVE  ReqInv' /\ OwnReply
<1> USE DEF ReqInv
<1>1. /\ UNCHANGED <<ready_pipes, busy_pipes, reqUp, aio_send, written, reqWritable, reqReadable,
                     firing, heard, inbound, losses, sends, given>>
      /\ reqCtx' = [reqCtx EXCEPT ![c] = k]
      /\ requests' = Unlisted(reqCtx[c].request_id)
      /\ send_queue' = Without(send_queue, c)
      /\ latest' = [latest EXCEPT ![c] = 0]
  BY DEF Abandon, reqPipes, peers
<1>2. /\ reqCtx' \in [Contexts -> Context] /\ reqCtx'[c] = k
      /\ \A d \in Contexts \ {c} : reqCtx'[d] = reqCtx[d] /\ SameBook(d) /\ SameWait(d)
  BY <1>1, BecomesFacts
<1>3. /\ requests' \in [RequestIds -> Contexts \cup {Nobody}]
      /\ \A i \in RequestIds : requests'[i] = IF requests[i] = c THEN Nobody ELSE requests[i]
  BY <1>1, UnlistedFacts
<1>4. /\ latest' \in [Contexts -> 0..MaxSends]
      /\ latest'[c] = 0 /\ \A d \in Contexts \ {c} : latest'[d] = latest[d]
  BY <1>1, TypeFacts DEF ReqTypeOK
<1>5. send_queue' \in Seq(Contexts) /\ (send_queue' # <<>> => send_queue # <<>>)
  BY <1>1, QueueTypes, WithoutFacts, NothingLeft
<1>6. ReqTypeOK'
  BY <1>1, <1>2, <1>3, <1>4, <1>5 DEF ReqTypeOK, Context
<1>7. Drops({c})
  BY <1>1, <1>2, <1>3, <1>4 DEF Drops
<1>8. LeavesQueue(c)
  BY <1>1, <1>2 DEF LeavesQueue
<1>9. PipesServe'
  BY <1>1, <1>5, PipesRest DEF PipesServe
<1> QED
  BY <1>1, <1>6, <1>7, <1>8, <1>9, DropsKeeps, LeavesKeeps, DropsGiveNothing

LEMMA EndKeeps ==
  ASSUME ReqAssumption, ReqInv, NEW c \in Contexts, CancelSend(c) \/ CancelRecv(c) \/ CtxFini(c)
  PROVE  ReqInv' /\ OwnReply
<1>1. /\ ResetCtx(c) \in Context
      /\ ResetCtx(c).request_id = 0 /\ ResetCtx(c).req_msg = FALSE /\ ResetCtx(c).rep_msg = 0
      /\ ResetCtx(c).timer = FALSE
  BY ResetFacts DEF ReqInv
<1> DEFINE ended(k) == /\ k \in Context /\ k.request_id = 0 /\ k.req_msg = FALSE
                       /\ k.rep_msg = 0 /\ k.timer = FALSE
<1>2. /\ ended([ResetCtx(c) EXCEPT !.send_aio = FALSE])
      /\ ended([ResetCtx(c) EXCEPT !.recv_aio = FALSE])
  BY <1>1 DEF Context
<1>3. ended(Blank)
  BY TypeFacts DEF ReqInv, Blank, Context
<1>4. reqOpen' \subseteq Contexts /\ closed' = closed
  BY DEF CancelSend, CancelRecv, CtxFini, ReqInv, ReqTypeOK
<1> HIDE DEF ended
<1>5. \E k \in Context : ended(k) /\ Abandon(c, k)
  <2>1. CASE CancelSend(c)
    BY <1>2, <2>1 DEF CancelSend, ended
  <2>2. CASE CancelRecv(c)
    BY <1>2, <2>2 DEF CancelRecv, ended
  <2>3. CASE CtxFini(c)
    BY <1>3, <2>3 DEF CtxFini, ended
  <2> QED
    BY <2>1, <2>2, <2>3
<1>6. PICK k \in Context : ended(k) /\ Abandon(c, k)
  BY <1>5
<1> QED
  BY <1>4, <1>6, AbandonKeeps DEF ended

-----------------------------------------------------------------------------
(* What runs the queue.                                                    *)

LEMMA RunKeeps ==
  ASSUME ReqAssumption, ReqInv, NEW cs \in [Contexts -> Context], NEW queue \in Seq(Contexts),
         NEW ready \in Seq(Pipes), NEW w \in BOOLEAN, NEW done, Few(queue, ready),
         RunSendQueue(cs, queue, ready, w, done),
         Waiting(cs, queue, firing', closed', reqUp'),
         PipesApart(ready, busy_pipes \ done, reqUp'),
         (w <=> ready # <<>>) \/ (queue # <<>> /\ Len(ready) = 1)
  PROVE  /\ reqCtx' \in [Contexts -> Context]
         /\ \A c \in Contexts :
              /\ reqCtx'[c].request_id = cs[c].request_id /\ reqCtx'[c].req_msg = cs[c].req_msg
              /\ reqCtx'[c].rep_msg = cs[c].rep_msg
         /\ aio_send' \in [Pipes -> 0..MaxSends] /\ written' \subseteq Pipes
         /\ send_queue' \in Seq(Contexts) /\ ready_pipes' \in Seq(Pipes)
         /\ busy_pipes' \subseteq Pipes /\ reqWritable' \in BOOLEAN
         /\ Waits' /\ PipesServe'
<1>1. Stalls(cs, queue, ready, w, done) \/ Serves(cs, queue, ready, w, done)
  BY RunOutcome
<1>2. Nobody \notin Pipes
  BY DEF ReqAssumption
<1>3. \A p \in Members(ready) : reqUp'[p] = "up"
  BY DEF PipesApart
<1>4. Waits'
  BY <1>1, <1>2, <1>3, RunWaits DEF Waits
<1>5. PipesServe'
  BY <1>1, RunPipes DEF ReqInv, PipesServe
<1> QED
  BY <1>1, <1>4, <1>5, RunFacts DEF ReqInv

(* req0_run_send_queue with nothing new to say about the requests.         *)
LEMMA RerunKeeps ==
  ASSUME ReqAssumption, ReqInv, NEW queue \in Seq(Contexts), NEW ready \in Seq(Pipes),
         NEW w \in BOOLEAN, NEW done, Few(queue, ready),
         RunSendQueue(reqCtx, queue, ready, w, done),
         Waiting(reqCtx, queue, firing', closed', reqUp'),
         PipesApart(ready, busy_pipes \ done, reqUp'),
         (w <=> ready # <<>>) \/ (queue # <<>> /\ Len(ready) = 1),
         reqUp' \in [Pipes -> {"new", "up", "down"}], firing' \in Contexts \cup {Nobody},
         UNCHANGED <<reqOpen, closed, requests, reqReadable, heard, inbound, losses, sends, latest,
                     given>>
  PROVE  ReqInv' /\ OwnReply
<1>1. reqCtx \in [Contexts -> Context]
  BY TypeFacts DEF ReqInv
<1>2. /\ reqCtx' \in [Contexts -> Context]
      /\ \A c \in Contexts : SameBook(c)
      /\ aio_send' \in [Pipes -> 0..MaxSends] /\ written' \subseteq Pipes
      /\ send_queue' \in Seq(Contexts) /\ ready_pipes' \in Seq(Pipes)
      /\ busy_pipes' \subseteq Pipes /\ reqWritable' \in BOOLEAN
      /\ Waits' /\ PipesServe'
  BY <1>1, RunKeeps DEF SameBook
<1>3. ReqTypeOK'
  BY <1>2 DEF ReqInv, ReqTypeOK, Context
<1> QED
  BY <1>2, <1>3, BooksRest DEF ReqInv

LEMMA EmptyAppend ==
  ASSUME NEW S, NEW s \in Seq(S), NEW x \in S, s = <<>>
  PROVE  Len(Append(s, x)) = 1
<1>1. Len(s) = 0 /\ Len(Append(s, x)) = Len(s) + 1
  BY EmptyFacts, AppendProperties
<1> QED
  BY <1>1

(* A user's send.                                                          *)
LEMMA SendKeeps ==
  ASSUME ReqAssumption, ReqInv, NEW c \in Contexts, NEW mayWait \in BOOLEAN, Send(c, mayWait)
  PROVE  ReqInv' /\ OwnReply
<1> USE DEF ReqInv
<1> DEFINE id == sends + 1
           cleared == [Unlisted(reqCtx[c].request_id) EXCEPT ![id] = Nobody]
           refused == [ResetCtx(c) EXCEPT !.request_id = id, !.recv_aio = FALSE, !.send_aio = FALSE]
           made == [ResetCtx(c) EXCEPT !.request_id = id, !.req_msg = TRUE, !.recv_aio = FALSE,
                                       !.send_aio = TRUE]
           queue == Append(Without(send_queue, c), c)
<1>1. id \in RequestIds /\ id \in 0..MaxSends
  BY TypeFacts DEF Send, RequestIds
<1>2. /\ UNCHANGED <<reqOpen, closed, reqUp, reqReadable, firing, heard, inbound, losses, given>>
      /\ sends' = id
      /\ \/ /\ requests' = cleared /\ send_queue' = Without(send_queue, c)
            /\ reqCtx' = [reqCtx EXCEPT ![c] = refused] /\ latest' = [latest EXCEPT ![c] = 0]
            /\ UNCHANGED <<ready_pipes, busy_pipes, aio_send, written, reqWritable>>
         \/ /\ requests' = [cleared EXCEPT ![id] = c]
            /\ RunSendQueue([reqCtx EXCEPT ![c] = made], queue, ready_pipes, reqWritable, {})
            /\ latest' = [latest EXCEPT ![c] = id]
  BY DEF Send, peers
<1>3. /\ refused \in Context /\ refused.request_id = id /\ refused.req_msg = FALSE
      /\ refused.rep_msg = 0 /\ refused.timer = FALSE
  BY <1>1, ResetFacts DEF Context
<1>4. /\ made \in Context /\ made.request_id = id /\ made.req_msg = TRUE
      /\ made.rep_msg = 0 /\ made.timer = FALSE /\ made.pipe = Nobody
  BY <1>1, ResetFacts DEF Context
<1>5. /\ cleared \in [RequestIds -> Contexts \cup {Nobody}] /\ cleared[id] = Nobody
      /\ \A i \in RequestIds \ {id} : cleared[i] = IF requests[i] = c THEN Nobody ELSE requests[i]
  BY <1>1, UnlistedFacts
<1>6. Once(send_queue)
  BY DEF Waits, Waiting
<1>7. /\ Without(send_queue, c) \in Seq(Contexts)
      /\ Once(Without(send_queue, c)) /\ Members(Without(send_queue, c)) = Members(send_queue) \ {c}
      /\ Without(send_queue, c) # <<>> => send_queue # <<>>
  BY <1>6, QueueTypes, WithoutFacts, NothingLeft
<1>8. \A n \in {0, id} : /\ [latest EXCEPT ![c] = n] \in [Contexts -> 0..MaxSends]
                         /\ [latest EXCEPT ![c] = n][c] = n
                         /\ \A d \in Contexts \ {c} : [latest EXCEPT ![c] = n][d] = latest[d]
  BY <1>1, TypeFacts DEF ReqTypeOK
<1> HIDE DEF cleared, refused, made
<1>9. CASE /\ requests' = cleared /\ send_queue' = Without(send_queue, c)
           /\ reqCtx' = [reqCtx EXCEPT ![c] = refused] /\ latest' = [latest EXCEPT ![c] = 0]
           /\ UNCHANGED <<ready_pipes, busy_pipes, aio_send, written, reqWritable>>
  <2>1. /\ reqCtx' \in [Contexts -> Context] /\ reqCtx'[c] = refused
        /\ \A d \in Contexts \ {c} : SameBook(d) /\ SameWait(d)
    BY <1>3, <1>9, BecomesFacts
  <2>2. /\ latest' \in [Contexts -> 0..MaxSends] /\ latest'[c] = 0
        /\ \A d \in Contexts \ {c} : latest'[d] = latest[d]
    BY <1>8, <1>9
  <2>3. ReqTypeOK'
    BY <1>1, <1>2, <1>5, <1>7, <1>9, <2>1, <2>2 DEF ReqTypeOK, Context
  <2>4. Renews(c)
    BY <1>1, <1>2, <1>3, <1>5, <1>9, <2>1, <2>2 DEF Renews
  <2>5. LeavesQueue(c)
    BY <1>2, <1>3, <1>9, <2>1 DEF LeavesQueue
  <2>6. PipesServe'
    BY <1>2, <1>7, <1>9, PipesRest DEF PipesServe
  <2> QED
    BY <1>2, <2>3, <2>4, <2>5, <2>6, RenewsKeeps, LeavesKeeps, DropsGiveNothing
<1>10. CASE /\ requests' = [cleared EXCEPT ![id] = c]
            /\ RunSendQueue([reqCtx EXCEPT ![c] = made], queue, ready_pipes, reqWritable, {})
            /\ latest' = [latest EXCEPT ![c] = id]
  <2> DEFINE cs == [reqCtx EXCEPT ![c] = made]
  <2>1. reqCtx \in [Contexts -> Context]
    BY TypeFacts
  <2>2. /\ cs \in [Contexts -> Context] /\ cs[c] = made
        /\ \A d \in Contexts \ {c} : cs[d] = reqCtx[d]
    BY <1>4, <2>1
  <2>3. queue \in Seq(Contexts) /\ queue # <<>> /\ Once(queue)
        /\ Members(queue) = Members(send_queue) \cup {c}
    BY <1>7, AppendFacts
  <2>4. Few(queue, ready_pipes)
    <3>1. CASE ready_pipes = <<>>
      BY <3>1 DEF Few
    <3>2. CASE ready_pipes # <<>>
      <4>1. Without(send_queue, c) = <<>>
        BY <1>7, <3>2 DEF PipesServe
      <4>2. Len(queue) = 1
        BY <1>7, <4>1, EmptyAppend
      <4> QED
        BY <4>2 DEF Few
    <3> QED
      BY <3>1, <3>2
  <2>5. RunSendQueue(cs, queue, ready_pipes, reqWritable, {})
    BY <1>10
  <2> HIDE DEF cs, queue
  <2>6. Waiting(cs, queue, firing', closed', reqUp')
    <3> DEFINE sender(d) == cs[d].send_aio /\ cs[d].req_msg => d \in Members(queue)
               member(d) == d \in Members(queue) =>
                              cs[d].req_msg /\ (~Retries(d) => cs[d].pipe = Nobody)
               timed(d) == cs[d].timer \/ firing = d => Retries(d)
               kept(d) == ~closed /\ cs[d].req_msg =>
                            \/ d \in Members(queue)
                            \/ Retries(d) /\ (cs[d].timer \/ firing = d)
                            \/ /\ ~Retries(d) /\ cs[d].pipe # Nobody
                               /\ reqUp[cs[d].pipe] = "up"
    <3>1. ASSUME NEW d \in Contexts PROVE sender(d) /\ member(d) /\ timed(d) /\ kept(d)
      <4>1. CASE d = c
        BY <1>4, <2>2, <2>3, <4>1 DEF Waits, Waiting
      <4>2. CASE d # c
        BY <2>2, <2>3, <4>2 DEF Waits, Waiting
      <4> QED
        BY <4>1, <4>2
    <3>2. Members(queue) \subseteq Contexts
      BY <2>3, EmptyFacts
    <3> QED
      BY <1>2, <2>3, <3>1, <3>2 DEF Waiting
  <2>7. /\ ready_pipes \in Seq(Pipes) /\ reqWritable \in BOOLEAN
        /\ PipesApart(ready_pipes, busy_pipes \ {}, reqUp')
        /\ (reqWritable <=> ready_pipes # <<>>)
    BY <1>2 DEF ReqTypeOK, PipesServe, PollsWritable
  <2>8. /\ reqCtx' \in [Contexts -> Context]
        /\ \A d \in Contexts :
             /\ reqCtx'[d].request_id = cs[d].request_id /\ reqCtx'[d].req_msg = cs[d].req_msg
             /\ reqCtx'[d].rep_msg = cs[d].rep_msg
        /\ aio_send' \in [Pipes -> 0..MaxSends] /\ written' \subseteq Pipes
        /\ send_queue' \in Seq(Contexts) /\ ready_pipes' \in Seq(Pipes)
        /\ busy_pipes' \subseteq Pipes /\ reqWritable' \in BOOLEAN
        /\ Waits' /\ PipesServe'
    BY <2>2, <2>3, <2>4, <2>5, <2>6, <2>7, RunKeeps
  <2>9. /\ latest' \in [Contexts -> 0..MaxSends] /\ latest'[c] = id
        /\ \A d \in Contexts \ {c} : latest'[d] = latest[d]
    BY <1>8, <1>10
  <2>10. /\ requests' \in [RequestIds -> Contexts \cup {Nobody}] /\ requests'[id] = c
         /\ \A i \in RequestIds \ {id} :
              requests'[i] = IF requests[i] = c THEN Nobody ELSE requests[i]
    BY <1>1, <1>5, <1>10
  <2>11. ReqTypeOK'
    BY <1>1, <1>2, <2>8, <2>9, <2>10 DEF ReqTypeOK, Context
  <2>12. Renews(c)
    BY <1>1, <1>2, <1>4, <2>2, <2>8, <2>9, <2>10 DEF Renews, SameBook
  <2> QED
    BY <1>2, <2>8, <2>11, <2>12, RenewsKeeps, DropsGiveNothing
<1> QED
  BY <1>2, <1>9, <1>10

LEMMA UpFacts ==
  ASSUME ReqAssumption, ReqTypeOK, NEW p \in Pipes, NEW v \in {"new", "up", "down"},
         reqUp' = [reqUp EXCEPT ![p] = v]
  PROVE  /\ reqUp' \in [Pipes -> {"new", "up", "down"}] /\ reqUp'[p] = v
         /\ \A q \in Pipes \ {p} : reqUp'[q] = reqUp[q]
  BY DEF ReqTypeOK

(* A pipe becomes ready, and takes the next request that waits.            *)
LEMMA ReadyFacts ==
  ASSUME ReqAssumption, ReqInv, NEW p \in Pipes, p \notin Members(ready_pipes)
  PROVE  /\ Append(ready_pipes, p) \in Seq(Pipes) /\ Append(ready_pipes, p) # <<>>
         /\ Once(Append(ready_pipes, p))
         /\ Members(Append(ready_pipes, p)) = Members(ready_pipes) \cup {p}
         /\ send_queue # <<>> => Len(Append(ready_pipes, p)) = 1
         /\ Few(send_queue, Append(ready_pipes, p))
<1>1. ready_pipes \in Seq(Pipes) /\ Once(ready_pipes)
  BY DEF ReqInv, ReqTypeOK, PipesServe, PipesApart
<1>2. send_queue # <<>> => Len(Append(ready_pipes, p)) = 1
  BY <1>1, EmptyAppend DEF ReqInv, PipesServe
<1> QED
  BY <1>1, <1>2, AppendFacts DEF Few

LEMMA PipeStartKeeps ==
  ASSUME ReqAssumption, ReqInv, NEW p \in Pipes, PipeStart(p)
  PROVE  ReqInv' /\ OwnReply
<1> USE DEF ReqInv
<1> DEFINE ready == Append(ready_pipes, p)
<1>1. /\ UNCHANGED <<reqOpen, closed, requests, reqReadable, firing, heard, inbound, losses, sends,
                     latest, given>>
      /\ reqUp[p] = "new" /\ reqUp' = [reqUp EXCEPT ![p] = "up"]
      /\ RunSendQueue(reqCtx, send_queue, ready, TRUE, {})
  BY DEF PipeStart, peers
<1>2. /\ reqUp' \in [Pipes -> {"new", "up", "down"}] /\ reqUp'[p] = "up"
      /\ \A q \in Pipes \ {p} : reqUp'[q] = reqUp[q]
  BY <1>1, UpFacts
<1>3. p \notin Members(ready_pipes) /\ p \notin busy_pipes
  BY <1>1 DEF PipesServe, PipesApart
<1>4. /\ ready \in Seq(Pipes) /\ ready # <<>> /\ Once(ready)
      /\ Members(ready) = Members(ready_pipes) \cup {p} /\ Few(send_queue, ready)
  BY <1>3, ReadyFacts
<1> HIDE DEF ready
<1>5. /\ send_queue \in Seq(Contexts)
      /\ Members(ready_pipes) \subseteq Pipes /\ busy_pipes \subseteq Pipes
  BY QueueTypes DEF ReqTypeOK
<1>6. PipesApart(ready, busy_pipes \ {}, reqUp')
  <2>1. Members(ready) \cap (busy_pipes \ {}) = {}
    BY <1>3, <1>4 DEF PipesServe, PipesApart
  <2>2. \A q \in Members(ready) \cup (busy_pipes \ {}) : reqUp'[q] = "up"
    BY <1>2, <1>4, <1>5 DEF PipesServe, PipesApart
  <2> QED
    BY <1>4, <2>1, <2>2 DEF PipesApart
<1>7. Waiting(reqCtx, send_queue, firing', closed', reqUp')
  <2>1. \A c \in Contexts : reqCtx[c].pipe # Nobody /\ reqUp[reqCtx[c].pipe] = "up"
                              => reqUp'[reqCtx[c].pipe] = "up"
    BY <1>2, TypeFacts
  <2> QED
    BY <1>1, <2>1 DEF Waits, Waiting
<1>8. firing' \in Contexts \cup {Nobody}
  BY <1>1 DEF ReqTypeOK
<1> QED
  BY <1>1, <1>2, <1>4, <1>5, <1>6, <1>7, <1>8, RerunKeeps

LEMMA SendCbKeeps ==
  ASSUME ReqAssumption, ReqInv, NEW p \in Pipes, SendCb(p)
  PROVE  ReqInv' /\ OwnReply
<1> USE DEF ReqInv
<1> DEFINE ready == Append(ready_pipes, p)
           w == reqWritable \/ send_queue = <<>>
<1>1. /\ UNCHANGED <<reqOpen, closed, requests, reqUp, reqReadable, firing, heard, inbound, losses,
                     sends, latest, given>>
      /\ p \in written /\ reqUp[p] = "up"
      /\ \/ RunSendQueue(reqCtx, send_queue, ready, w, {p})
         \/ /\ aio_send' = [aio_send EXCEPT ![p] = 0] /\ written' = written \ {p}
            /\ UNCHANGED <<reqCtx, send_queue, ready_pipes, busy_pipes, reqWritable>>
  BY DEF SendCb, Rerun, peers
<1>2. p \in busy_pipes /\ p \notin Members(ready_pipes)
  BY <1>1 DEF PipesServe, PipesApart
<1>3. /\ ready \in Seq(Pipes) /\ ready # <<>> /\ Once(ready)
      /\ Members(ready) = Members(ready_pipes) \cup {p} /\ Few(send_queue, ready)
      /\ send_queue # <<>> => Len(ready) = 1
  BY <1>2, ReadyFacts
<1>4. CASE RunSendQueue(reqCtx, send_queue, ready, w, {p})
  <2>1. w \in BOOLEAN /\ ((w <=> ready # <<>>) \/ (send_queue # <<>> /\ Len(ready) = 1))
    BY <1>3
  <2>2. PipesApart(ready, busy_pipes \ {p}, reqUp')
    BY <1>1, <1>2, <1>3 DEF PipesServe, PipesApart
  <2>3. Waiting(reqCtx, send_queue, firing', closed', reqUp')
    BY <1>1 DEF Waits
  <2>4. /\ send_queue \in Seq(Contexts) /\ firing' \in Contexts \cup {Nobody}
        /\ reqUp' \in [Pipes -> {"new", "up", "down"}]
    BY <1>1 DEF ReqTypeOK
  <2> HIDE DEF ready, w
  <2> QED
    BY <1>1, <1>3, <1>4, <2>1, <2>2, <2>3, <2>4, RerunKeeps
<1>5. CASE /\ aio_send' = [aio_send EXCEPT ![p] = 0] /\ written' = written \ {p}
           /\ UNCHANGED <<reqCtx, send_queue, ready_pipes, busy_pipes, reqWritable>>
  <2>1. \A q \in Pipes : aio_send'[q] = IF q = p THEN 0 ELSE aio_send[q]
    BY <1>5 DEF ReqTypeOK
  <2>2. aio_send' \in [Pipes -> 0..MaxSends] /\ written' \subseteq Pipes
    BY <1>5, TypeFacts DEF ReqTypeOK
  <2>3. ReqTypeOK'
    BY <1>1, <1>5, <2>2 DEF ReqTypeOK
  <2>4. /\ \A q \in Pipes : aio_send'[q] # 0 => aio_send[q] # 0
        /\ \A q \in written' : aio_send'[q] # 0
    BY <1>5, <2>1 DEF PipesServe, ReqTypeOK
  <2> QED
    BY <1>1, <1>5, <2>3, <2>4, QuietKeeps DEF queues
<1> QED
  BY <1>1, <1>4, <1>5

LEMMA TimeoutKeeps ==
  ASSUME ReqAssumption, ReqInv, NEW c \in Contexts, Timeout(c)
  PROVE  ReqInv' /\ OwnReply
<1> USE DEF ReqInv
<1>1. /\ UNCHANGED <<reqOpen, closed, requests, reqUp, reqReadable, heard, inbound, losses, sends,
                     latest, given>>
      /\ firing = c /\ firing' = Nobody
  BY DEF Timeout, peers
<1>2. Nobody \notin Contexts
  BY TypeFacts
<1>3. CASE /\ reqCtx[c].req_msg /\ ~closed
           /\ RunSendQueue(reqCtx, Requeued(c), ready_pipes, reqWritable, {})
  <2> DEFINE queue == Requeued(c)
  <2>1. /\ queue \in Seq(Contexts) /\ Once(queue) /\ Members(queue) = Members(send_queue) \cup {c}
    <3>1. send_queue \in Seq(Contexts) /\ Once(send_queue)
      BY QueueTypes DEF Waits, Waiting
    <3>2. CASE c \in Members(send_queue)
      BY <3>1, <3>2 DEF Requeued
    <3>3. CASE c \notin Members(send_queue)
      BY <3>1, <3>3, AppendFacts DEF Requeued
    <3> QED
      BY <3>2, <3>3
  <2>2. Few(queue, ready_pipes)
    <3>1. CASE ready_pipes = <<>>
      BY <3>1 DEF Few
    <3>2. CASE ready_pipes # <<>>
      <4>1. send_queue = <<>> /\ send_queue \in Seq(Contexts)
        BY <3>2, QueueTypes DEF PipesServe
      <4>2. c \notin Members(send_queue)
        BY <4>1, EmptyFacts
      <4>3. Len(queue) = 1
        BY <4>1, <4>2, EmptyAppend DEF Requeued
      <4> QED
        BY <4>3 DEF Few
    <3> QED
      BY <3>1, <3>2
  <2> HIDE DEF queue
  <2>3. Waiting(reqCtx, queue, firing', closed', reqUp')
    <3>1. Retries(c)
      BY <1>1 DEF Waits, Waiting
    <3>2. \A d \in Contexts : firing' # d
      BY <1>1, <1>2
    <3> QED
      BY <1>1, <1>3, <2>1, <3>1, <3>2 DEF Waits, Waiting
  <2>4. /\ ready_pipes \in Seq(Pipes) /\ reqWritable \in BOOLEAN
        /\ PipesApart(ready_pipes, busy_pipes \ {}, reqUp')
        /\ (reqWritable <=> ready_pipes # <<>>)
    BY <1>1 DEF ReqTypeOK, PipesServe, PollsWritable
  <2>5. /\ firing' \in Contexts \cup {Nobody} /\ reqUp' \in [Pipes -> {"new", "up", "down"}]
    BY <1>1 DEF ReqTypeOK
  <2>6. RunSendQueue(reqCtx, queue, ready_pipes, reqWritable, {})
    BY <1>3 DEF queue
  <2> QED
    BY <1>1, <2>1, <2>2, <2>3, <2>4, <2>5, <2>6, RerunKeeps
<1>4. CASE /\ ~reqCtx[c].req_msg \/ closed
           /\ UNCHANGED <<reqCtx, send_queue, ready_pipes, busy_pipes, aio_send, written,
                          reqWritable>>
  <2>1. ReqTypeOK'
    BY <1>1, <1>4 DEF ReqTypeOK
  <2>2. \A d \in Contexts : SameBook(d)
    BY <1>4 DEF SameBook
  <2>3. Books' /\ OwnReply
    BY <1>1, <2>1, <2>2, BooksRest
  <2>4. Waits'
    <3>1. \A d \in Contexts : firing' # d
      BY <1>1, <1>2
    <3>2. \A d \in Contexts : firing = d => d = c
      BY <1>1
    <3> QED
      BY <1>1, <1>4, <3>1, <3>2 DEF Waits, Waiting
  <2>5. PipesServe'
    BY <1>1, <1>4, PipesRest DEF PipesServe
  <2> QED
    BY <2>1, <2>3, <2>4, <2>5
<1> QED
  BY <1>3, <1>4 DEF Timeout

LEMMA FiresKeeps ==
  ASSUME ReqAssumption, ReqInv, NEW c \in Contexts, Fires(c)
  PROVE  ReqInv' /\ OwnReply
<1> USE DEF ReqInv
<1> DEFINE k == [reqCtx[c] EXCEPT !.timer = FALSE]
<1>1. /\ UNCHANGED <<reqOpen, closed, requests, send_queue, ready_pipes, busy_pipes, reqUp,
                     aio_send, written, reqWritable, reqReadable, heard, inbound, losses, sends,
                     latest, given>>
      /\ firing = Nobody /\ reqCtx[c].timer /\ firing' = c
      /\ reqCtx' = [reqCtx EXCEPT ![c] = k]
  BY DEF Fires, queues, reqPipes, peers
<1>2. /\ k \in Context /\ k.request_id = reqCtx[c].request_id /\ k.req_msg = reqCtx[c].req_msg
      /\ k.rep_msg = reqCtx[c].rep_msg /\ k.send_aio = reqCtx[c].send_aio
      /\ k.timer = FALSE /\ k.pipe = reqCtx[c].pipe
  BY TypeFacts DEF Context
<1> HIDE DEF k
<1>3. /\ reqCtx' \in [Contexts -> Context] /\ reqCtx'[c] = k
      /\ \A d \in Contexts \ {c} : reqCtx'[d] = reqCtx[d] /\ SameBook(d)
  BY <1>1, <1>2, BecomesFacts
<1>4. SameBook(c)
  BY <1>2, <1>3 DEF SameBook
<1>5. ReqTypeOK'
  BY <1>1, <1>3 DEF ReqTypeOK, Context
<1>6. Books' /\ OwnReply
  BY <1>1, <1>3, <1>4, <1>5, BooksRest
<1>7. Waits'
  <2>1. Retries(c) /\ \A d \in Contexts : firing # d
    BY <1>1, TypeFacts DEF Waits, Waiting
  <2>2. /\ \A d \in Contexts : /\ reqCtx'[d].req_msg = reqCtx[d].req_msg
                               /\ reqCtx'[d].send_aio = reqCtx[d].send_aio
                               /\ reqCtx'[d].pipe = reqCtx[d].pipe
        /\ \A d \in Contexts \ {c} : reqCtx'[d].timer = reqCtx[d].timer
        /\ ~reqCtx'[c].timer
    BY <1>2, <1>3
  <2>3. Members(send_queue) \subseteq Contexts
    BY QueueTypes
  <2> DEFINE timed(d) == reqCtx'[d].timer \/ c = d => Retries(d)
             kept(d) == ~closed /\ reqCtx'[d].req_msg =>
                          \/ d \in Members(send_queue)
                          \/ Retries(d) /\ (reqCtx'[d].timer \/ c = d)
                          \/ /\ ~Retries(d) /\ reqCtx'[d].pipe # Nobody
                             /\ reqUp[reqCtx'[d].pipe] = "up"
  <2>4. ASSUME NEW d \in Contexts PROVE timed(d) /\ kept(d)
    <3>1. CASE d = c
      BY <2>1, <3>1
    <3>2. CASE d # c
      BY <2>1, <2>2, <3>2 DEF Waits, Waiting
    <3> QED
      BY <3>1, <3>2
  <2> QED
    BY <1>1, <2>2, <2>3, <2>4 DEF Waits, Waiting
<1>8. PipesServe'
  BY <1>1, PipesRest DEF PipesServe
<1> QED
  BY <1>5, <1>6, <1>7, <1>8

-----------------------------------------------------------------------------
(* A reply arrives, or a pipe closes.                                      *)

LEMMA RecvCbKeeps ==
  ASSUME ReqAssumption, ReqInv, NEW m \in Pipes \X RequestIds, RecvCb(m)
  PROVE  ReqInv' /\ OwnReply
<1> USE DEF ReqInv
<1> DEFINE id == m[2]
           c == requests[id]
           k == [reqCtx[c] EXCEPT !.request_id = 0, !.req_msg = FALSE]
           told == [k EXCEPT !.recv_aio = FALSE]
           stash == [k EXCEPT !.rep_msg = id]
<1>1. id \in RequestIds
  OBVIOUS
<1>2. /\ UNCHANGED <<reqOpen, closed, ready_pipes, busy_pipes, reqUp, aio_send, written,
                     reqWritable, firing, heard, losses, sends, latest>>
      /\ inbound' = inbound \ {m}
      /\ \/ UNCHANGED <<reqCtx, requests, send_queue, reqReadable, given>>
         \/ /\ c # Nobody /\ reqCtx[c].rep_msg = 0
            /\ send_queue' = Without(send_queue, c)
            /\ requests' = [requests EXCEPT ![id] = Nobody]
            /\ \/ /\ reqCtx' = [reqCtx EXCEPT ![c] = told]
                  /\ given' = Append(given, <<c, id>>) /\ UNCHANGED reqReadable
               \/ /\ reqCtx' = [reqCtx EXCEPT ![c] = stash]
                  /\ reqReadable' = (reqReadable \/ c = Master) /\ UNCHANGED given
  BY DEF RecvCb, reqPipes, queues, Matched, Unqueued
<1>3. inbound' \subseteq Pipes \X RequestIds
  BY <1>2 DEF ReqTypeOK
<1>4. CASE UNCHANGED <<reqCtx, requests, send_queue, reqReadable, given>>
  <2>1. ReqTypeOK'
    BY <1>2, <1>3, <1>4 DEF ReqTypeOK
  <2> QED
    BY <1>2, <1>4, <2>1, QuietKeeps DEF PipesServe, queues
<1>5. CASE /\ c # Nobody /\ reqCtx[c].rep_msg = 0
           /\ send_queue' = Without(send_queue, c)
           /\ requests' = [requests EXCEPT ![id] = Nobody]
           /\ \/ /\ reqCtx' = [reqCtx EXCEPT ![c] = told]
                 /\ given' = Append(given, <<c, id>>) /\ UNCHANGED reqReadable
              \/ /\ reqCtx' = [reqCtx EXCEPT ![c] = stash]
                 /\ reqReadable' = (reqReadable \/ c = Master) /\ UNCHANGED given
  <2>1. c \in Contexts
    BY <1>1, <1>5, TypeFacts
  <2> HIDE DEF c, id
  <2>2. /\ k \in Context /\ k.request_id = 0 /\ k.req_msg = FALSE
        /\ k.rep_msg = 0 /\ k.timer = reqCtx[c].timer
    <3>1. /\ reqCtx[c] \in Context /\ 0 \in 0..MaxSends /\ reqCtx[c].rep_msg = 0
      BY <1>5, <2>1, TypeFacts
    <3> QED
      BY <3>1 DEF Context
  <2> HIDE DEF k
  <2>3. /\ told \in Context /\ told.request_id = 0 /\ told.req_msg = FALSE
        /\ told.rep_msg = 0 /\ told.timer = reqCtx[c].timer
    BY <2>2 DEF Context
  <2>4. /\ stash \in Context /\ stash.request_id = 0 /\ stash.req_msg = FALSE
        /\ stash.rep_msg = id /\ stash.timer = reqCtx[c].timer
    BY <1>1, <2>2 DEF Context, RequestIds
  <2> HIDE DEF told, stash
  <2>5. \/ reqCtx' = [reqCtx EXCEPT ![c] = told] /\ given' = Append(given, <<c, id>>)
        \/ reqCtx' = [reqCtx EXCEPT ![c] = stash] /\ given' = given
    BY <1>5
  <2>6. /\ reqCtx' \in [Contexts -> Context]
        /\ reqCtx'[c].request_id = 0 /\ reqCtx'[c].req_msg = FALSE
        /\ reqCtx'[c].timer = reqCtx[c].timer
        /\ \/ reqCtx'[c].rep_msg = 0 /\ given' = Append(given, <<c, id>>)
           \/ reqCtx'[c].rep_msg = id /\ given' = given
        /\ \A d \in Contexts \ {c} : SameBook(d) /\ SameWait(d)
    <3>1. CASE reqCtx' = [reqCtx EXCEPT ![c] = told] /\ given' = Append(given, <<c, id>>)
      <4>1. /\ reqCtx' \in [Contexts -> Context] /\ reqCtx'[c] = told
            /\ \A d \in Contexts \ {c} : SameBook(d) /\ SameWait(d)
        BY <2>1, <2>3, <3>1, BecomesFacts
      <4> QED
        BY <2>3, <3>1, <4>1
    <3>2. CASE reqCtx' = [reqCtx EXCEPT ![c] = stash] /\ given' = given
      <4>1. /\ reqCtx' \in [Contexts -> Context] /\ reqCtx'[c] = stash
            /\ \A d \in Contexts \ {c} : SameBook(d) /\ SameWait(d)
        BY <2>1, <2>4, <3>2, BecomesFacts
      <4> QED
        BY <2>4, <3>2, <4>1
    <3> QED
      BY <2>5, <3>1, <3>2
  <2>7. requests' \in [RequestIds -> Contexts \cup {Nobody}]
    BY <1>5 DEF ReqTypeOK
  <2>8. send_queue' \in Seq(Contexts) /\ (send_queue' # <<>> => send_queue # <<>>)
    BY <1>5, QueueTypes, WithoutFacts, NothingLeft
  <2>9. given' \in Seq(Contexts \X RequestIds) /\ reqReadable' \in BOOLEAN
    <3>1. given \in Seq(Contexts \X RequestIds) /\ <<c, id>> \in Contexts \X RequestIds
      BY <1>1, <2>1, TypeFacts
    <3>2. reqReadable' \in BOOLEAN
      BY <1>5 DEF ReqTypeOK
    <3>3. Append(given, <<c, id>>) \in Seq(Contexts \X RequestIds)
      BY <3>1, AppendProperties
    <3> QED
      BY <2>5, <3>1, <3>2, <3>3
  <2>10. ReqTypeOK'
    BY <1>2, <1>3, <2>6, <2>7, <2>8, <2>9 DEF ReqTypeOK, Context
  <2>11. Answers(c, id)
    BY <1>1, <1>2, <1>5, <2>6 DEF Answers, c
  <2>12. LeavesQueue(c)
    BY <1>2, <1>5, <2>6 DEF LeavesQueue
  <2>13. PipesServe'
    BY <1>2, <2>8, PipesRest DEF PipesServe
  <2> QED
    BY <2>1, <2>10, <2>11, <2>12, <2>13, AnswersKeeps, LeavesKeeps
<1> QED
  BY <1>2, <1>4, <1>5

(* What the end of pipe p does to a context.                               *)
LEMMA GoneFacts ==
  ASSUME ReqAssumption, ReqTypeOK, NEW c \in Contexts, NEW p \in Pipes
  PROVE  /\ PipeGone(c, p) \in Context
         /\ reqCtx[c].pipe # p => PipeGone(c, p) = reqCtx[c]
         /\ reqCtx[c].pipe = p /\ Retries(c) =>
              /\ PipeGone(c, p).request_id = reqCtx[c].request_id
              /\ PipeGone(c, p).req_msg = reqCtx[c].req_msg
              /\ PipeGone(c, p).send_aio = reqCtx[c].send_aio
              /\ PipeGone(c, p).rep_msg = reqCtx[c].rep_msg /\ PipeGone(c, p).timer
         /\ reqCtx[c].pipe = p /\ ~Retries(c) =>
              /\ PipeGone(c, p).request_id = 0 /\ ~PipeGone(c, p).req_msg
              /\ PipeGone(c, p).rep_msg = 0 /\ ~PipeGone(c, p).timer
<1>1. CASE reqCtx[c].pipe # p
  BY <1>1, TypeFacts DEF PipeGone
<1>2. CASE reqCtx[c].pipe = p /\ Retries(c)
  <2>1. PipeGone(c, p) = [reqCtx[c] EXCEPT !.timer = TRUE, !.pipe = Nobody]
    BY <1>2 DEF PipeGone
  <2> QED
    BY <1>2, <2>1, TypeFacts DEF Context
<1>3. CASE reqCtx[c].pipe = p /\ ~Retries(c)
  <2>1. PipeGone(c, p) \in {[ResetCtx(c) EXCEPT !.recv_aio = FALSE],
                            [ResetCtx(c) EXCEPT !.conn_reset = TRUE]}
    BY <1>3 DEF PipeGone
  <2> QED
    BY <1>3, <2>1, ResetFacts DEF Context
<1> QED
  BY <1>1, <1>2, <1>3

LEMMA PipeCloseKeeps ==
  ASSUME ReqAssumption, ReqInv, NEW p \in Pipes, PipeClose(p)
  PROVE  ReqInv' /\ OwnReply
<1> USE DEF ReqInv
<1> DEFINE ended == {c \in NoRetry : reqCtx[c].pipe = p}
           ready == Without(ready_pipes, p)
<1>1. /\ UNCHANGED <<reqOpen, closed, reqReadable, firing, sends, latest, given>>
      /\ reqUp[p] = "up" /\ reqUp' = [reqUp EXCEPT ![p] = "down"]
      /\ losses' \in {losses, losses + 1} /\ (losses' # losses => losses < MaxLosses)
      /\ ready_pipes' = ready /\ busy_pipes' = busy_pipes \ {p}
      /\ aio_send' = [aio_send EXCEPT ![p] = 0] /\ written' = written \ {p}
      /\ reqWritable' = (reqWritable /\ ready # <<>>)
      /\ reqCtx' = [c \in Contexts |-> PipeGone(c, p)]
      /\ requests' = [i \in RequestIds |-> IF requests[i] \in ended THEN Nobody ELSE requests[i]]
      /\ heard' \subseteq heard /\ inbound' \subseteq inbound
  BY DEF PipeClose
<1>2. /\ reqUp' \in [Pipes -> {"new", "up", "down"}] /\ reqUp'[p] = "down"
      /\ \A q \in Pipes \ {p} : reqUp'[q] = reqUp[q]
  BY <1>1, UpFacts
<1>3. ended \subseteq Contexts
  BY DEF ReqAssumption
<1>4. send_queue' = send_queue
  <2>1. ASSUME NEW c \in Members(send_queue) PROVE c \notin ended
    <3>1. ~Retries(c) => reqCtx[c].pipe = Nobody
      BY DEF Waits, Waiting
    <3> QED
      BY <3>1, TypeFacts DEF Retries
  <2>2. Members(send_queue) \cap ended = {}
    BY <2>1
  <2> QED
    BY <2>2 DEF PipeClose
<1>5. /\ ready \in Seq(Pipes) /\ Once(ready) /\ Members(ready) = Members(ready_pipes) \ {p}
      /\ ready # <<>> => ready_pipes # <<>>
  <2>1. ready_pipes \in Seq(Pipes) /\ Once(ready_pipes)
    BY QueueTypes DEF PipesServe, PipesApart
  <2> QED
    BY <2>1, WithoutFacts, NothingLeft
<1> HIDE DEF ready
<1>6. ASSUME NEW c \in Contexts
      PROVE  /\ reqCtx'[c] \in Context
             /\ c \notin ended =>
                  /\ SameBook(c) /\ reqCtx'[c].send_aio = reqCtx[c].send_aio
                  /\ reqCtx[c].pipe # p => reqCtx'[c] = reqCtx[c]
                  /\ reqCtx[c].pipe = p => Retries(c) /\ reqCtx'[c].timer
             /\ c \in ended =>
                  /\ reqCtx'[c].request_id = 0 /\ ~reqCtx'[c].req_msg
                  /\ reqCtx'[c].rep_msg = 0 /\ ~reqCtx'[c].timer
  <2>1. reqCtx'[c] = PipeGone(c, p)
    BY <1>1
  <2>2. c \in ended <=> ~Retries(c) /\ reqCtx[c].pipe = p
    BY DEF Retries
  <2> QED
    BY <2>1, <2>2, GoneFacts DEF SameBook
<1> HIDE DEF ended
<1>7. ReqTypeOK'
  <2>1. reqCtx' \in [Contexts -> Context]
    BY <1>1, <1>6
  <2>2. requests' \in [RequestIds -> Contexts \cup {Nobody}]
    BY <1>1 DEF ReqTypeOK
  <2>3. losses' \in 0..MaxLosses
    BY <1>1 DEF ReqTypeOK, ReqAssumption
  <2>4. aio_send' \in [Pipes -> 0..MaxSends]
    BY <1>1, TypeFacts DEF ReqTypeOK
  <2>5. /\ busy_pipes' \subseteq Pipes /\ written' \subseteq Pipes /\ reqWritable' \in BOOLEAN
        /\ heard' \subseteq Pipes \X RequestIds /\ inbound' \subseteq Pipes \X RequestIds
    BY <1>1 DEF ReqTypeOK
  <2> QED
    BY <1>1, <1>2, <1>4, <1>5, <2>1, <2>2, <2>3, <2>4, <2>5 DEF ReqTypeOK, Context
<1>8. Drops(ended)
  BY <1>1, <1>3, <1>6 DEF Drops
<1>9. Waits'
  <2>1. Members(send_queue) \subseteq Contexts
    BY QueueTypes
  <2> DEFINE sender(c) == reqCtx'[c].send_aio /\ reqCtx'[c].req_msg => c \in Members(send_queue)
             member(c) == c \in Members(send_queue) =>
                            reqCtx'[c].req_msg /\ (~Retries(c) => reqCtx'[c].pipe = Nobody)
             timed(c) == reqCtx'[c].timer \/ firing = c => Retries(c)
             kept(c) == ~closed /\ reqCtx'[c].req_msg =>
                          \/ c \in Members(send_queue)
                          \/ Retries(c) /\ (reqCtx'[c].timer \/ firing = c)
                          \/ /\ ~Retries(c) /\ reqCtx'[c].pipe # Nobody
                             /\ reqUp'[reqCtx'[c].pipe] = "up"
  <2>2. ASSUME NEW c \in Contexts PROVE sender(c) /\ member(c) /\ timed(c) /\ kept(c)
    <3>1. /\ reqCtx[c].send_aio /\ reqCtx[c].req_msg => c \in Members(send_queue)
          /\ c \in Members(send_queue) =>
               reqCtx[c].req_msg /\ (~Retries(c) => reqCtx[c].pipe = Nobody)
          /\ reqCtx[c].timer \/ firing = c => Retries(c)
          /\ ~closed /\ reqCtx[c].req_msg =>
               \/ c \in Members(send_queue)
               \/ Retries(c) /\ (reqCtx[c].timer \/ firing = c)
               \/ /\ ~Retries(c) /\ reqCtx[c].pipe # Nobody
                  /\ reqUp[reqCtx[c].pipe] = "up"
      BY DEF Waits, Waiting
    <3>2. CASE c \in ended
      <4>1. c \notin Members(send_queue)
        BY <3>1, <3>2, TypeFacts DEF ended, Retries
      <4> QED
        BY <1>6, <3>1, <3>2, <4>1
    <3>3. CASE c \notin ended /\ reqCtx[c].pipe = p
      BY <1>6, <3>1, <3>3 DEF SameBook
    <3>4. CASE c \notin ended /\ reqCtx[c].pipe # p
      <4>1. reqCtx'[c] = reqCtx[c]
        BY <1>6, <3>4
      <4>2. reqCtx[c].pipe # Nobody => reqUp'[reqCtx[c].pipe] = reqUp[reqCtx[c].pipe]
        BY <1>2, <3>4, TypeFacts
      <4> QED
        BY <3>1, <4>1, <4>2
    <3> QED
      BY <3>2, <3>3, <3>4
  <2>3. Once(send_queue)
    BY DEF Waits, Waiting
  <2> QED
    BY <1>1, <1>4, <2>1, <2>2, <2>3 DEF Waits, Waiting
<1>10. PipesServe'
  <2>1. PipesApart(ready, busy_pipes \ {p}, reqUp')
    <3>1. Members(ready_pipes) \subseteq Pipes /\ busy_pipes \subseteq Pipes
      BY QueueTypes DEF ReqTypeOK
    <3> QED
      BY <1>2, <1>5, <3>1 DEF PipesServe, PipesApart
  <2>2. \A q \in Pipes : aio_send'[q] = IF q = p THEN 0 ELSE aio_send[q]
    BY <1>1 DEF ReqTypeOK
  <2>3. \A q \in Pipes : aio_send'[q] # 0 => q \in busy_pipes \ {p}
    BY <2>2 DEF PipesServe
  <2>4. \A q \in written \ {p} : aio_send'[q] # 0
    BY <2>2 DEF PipesServe, ReqTypeOK
  <2>5. reqWritable' <=> ready # <<>>
    BY <1>1, <1>5 DEF PipesServe, PollsWritable
  <2>6. send_queue # <<>> => ready = <<>>
    BY <1>5 DEF PipesServe
  <2> QED
    BY <1>1, <1>4, <2>1, <2>3, <2>4, <2>5, <2>6 DEF PipesServe, PollsWritable
<1> QED
  BY <1>1, <1>3, <1>7, <1>8, <1>9, <1>10, DropsKeeps, DropsGiveNothing

-----------------------------------------------------------------------------
(* The theorem.                                                            *)

LEMMA ReqStarts == ASSUME ReqAssumption, Init PROVE ReqInv
<1>1. MaxSends \in Nat /\ MaxLosses \in Nat /\ 0 \in 0..MaxSends /\ 0 \in 0..MaxLosses
  BY DEF ReqAssumption
<1>2. DOMAIN <<>> = {} /\ Members(<<>>) = {} /\ Once(<<>>)
  BY EmptySeq DEF Members, Once
<1>3. \A c \in Contexts : reqCtx[c] = Blank
  BY DEF Init
<1>4. ReqTypeOK
  <2>1. Blank \in Context
    BY <1>1 DEF Blank, Context
  <2>2. reqCtx \in [Contexts -> Context]
    BY <2>1 DEF Init
  <2>3. firing \in Contexts \cup {Nobody} /\ given \in Seq(Contexts \X RequestIds)
        /\ send_queue \in Seq(Contexts) /\ ready_pipes \in Seq(Pipes)
    BY DEF Init
  <2> QED
    BY <1>1, <2>2, <2>3 DEF Init, ReqTypeOK, Context
<1>5. Books
  <2>1. Registered
    BY <1>1, <1>3 DEF Init, Registered, FoundIsWaiting, Blank
  <2>2. LatestApart
    BY <1>1 DEF Init, LatestApart
  <2>3. Stashed
    BY <1>3 DEF Stashed, Blank
  <2>4. GivenApart
    BY <1>2 DEF Init, GivenApart
  <2> QED
    BY <2>1, <2>2, <2>3, <2>4 DEF Books
<1>6. Waits
  BY <1>2, <1>3 DEF Init, Waits, Waiting, Blank, ReqAssumption
<1>7. PipesServe
  BY <1>2 DEF Init, PipesServe, PipesApart, PollsWritable
<1> QED
  BY <1>4, <1>5, <1>6, <1>7 DEF ReqInv

LEMMA ReqKeeps == ASSUME ReqAssumption, ReqInv, [Next]_reqVars PROVE ReqInv' /\ OwnReply
<1>1. ASSUME NEW c \in Contexts, NEW mayWait \in BOOLEAN, Send(c, mayWait)
      PROVE  ReqInv' /\ OwnReply
  BY <1>1, SendKeeps
<1>2. ASSUME NEW c \in Contexts, Recv(c) PROVE ReqInv' /\ OwnReply
  BY <1>2, RecvKeeps
<1>3. ASSUME NEW c \in Contexts, CancelSend(c) \/ CancelRecv(c) \/ CtxFini(c)
      PROVE  ReqInv' /\ OwnReply
  BY <1>3, EndKeeps
<1>4. ASSUME NEW c \in Contexts, Fires(c) PROVE ReqInv' /\ OwnReply
  BY <1>4, FiresKeeps
<1>5. ASSUME NEW c \in Contexts, Timeout(c) PROVE ReqInv' /\ OwnReply
  BY <1>5, TimeoutKeeps
<1>6. CASE SockClose
  BY <1>6, SockCloseKeeps
<1>7. ASSUME NEW p \in Pipes, PipeStart(p) PROVE ReqInv' /\ OwnReply
  BY <1>7, PipeStartKeeps
<1>8. ASSUME NEW p \in Pipes, PipeClose(p) PROVE ReqInv' /\ OwnReply
  BY <1>8, PipeCloseKeeps
<1>9. ASSUME NEW p \in Pipes, Transmit(p) PROVE ReqInv' /\ OwnReply
  BY <1>9, TransmitKeeps
<1>10. ASSUME NEW p \in Pipes, SendCb(p) PROVE ReqInv' /\ OwnReply
  BY <1>10, SendCbKeeps
<1>11. ASSUME NEW m \in Pipes \X RequestIds, Answer(m) \/ Lose(m) PROVE ReqInv' /\ OwnReply
  BY <1>11, PeerKeeps
<1>12. ASSUME NEW m \in Pipes \X RequestIds, RecvCb(m) PROVE ReqInv' /\ OwnReply
  BY <1>12, RecvCbKeeps
<1>13. CASE UNCHANGED reqVars
  BY <1>13, StutterKeeps
<1> QED
  BY <1>1, <1>2, <1>3, <1>4, <1>5, <1>6, <1>7, <1>8, <1>9, <1>10, <1>11, <1>12, <1>13 DEF Next

(* What ReqSound says of every state.                                      *)
RequestsSound ==
  ReqTypeOK /\ FoundIsWaiting /\ NeverForgotten /\ QueueSound /\ PollsWritable

LEMMA ReqMeans == ASSUME ReqAssumption, ReqInv PROVE RequestsSound
<1>1. ReqTypeOK /\ FoundIsWaiting /\ PollsWritable
  BY DEF ReqInv, Books, Registered, PipesServe
<1>2. NeverForgotten
  BY DEF ReqInv, Waits, Waiting, Books, Registered, NeverForgotten
<1>3. QueueSound
  BY DEF ReqInv, Waits, Waiting, PipesServe, PipesApart, Once, QueueSound
<1> QED
  BY <1>1, <1>2, <1>3 DEF RequestsSound

(* However pipes come and go, requests are repeated and replaced and the   *)
(* timer runs late, no request is forgotten, queued twice or found after   *)
(* its end, and no context is given a reply that is stale or given before  *)
(* (sp/protocol/reqrep0/req.c), for any contexts, pipes, requests and      *)
(* losses.                                                                 *)
THEOREM ReqIsSound == ReqAssumption => (Spec => ReqSound)
<1> SUFFICES ASSUME ReqAssumption PROVE Spec => ReqSound
  OBVIOUS
<1>1. Init => ReqInv
  BY ReqStarts
<1>2. ReqInv /\ [Next]_reqVars => ReqInv'
  BY ReqKeeps
<1>3. ReqInv => RequestsSound
  BY ReqMeans
<1>4. ReqInv /\ [Next]_reqVars =>
        [\A i \in DOMAIN given' \ DOMAIN given :
           /\ given'[i][2] = latest[given'[i][1]]
           /\ \A j \in DOMAIN given : given[j][2] # given'[i][2]]_reqVars
  BY ReqKeeps DEF OwnReply
<1>5. Spec => []RequestsSound
  BY <1>1, <1>2, <1>3, PTL DEF Spec
<1>6. Spec => OwnReplyOnce
  BY <1>1, <1>2, <1>4, PTL DEF Spec, OwnReplyOnce
<1> QED
  BY <1>5, <1>6, PTL DEF ReqSound, RequestsSound

=============================================================================
