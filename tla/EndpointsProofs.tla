---------------------------- MODULE EndpointsProofs ----------------------------
(***************************************************************************)
(* Theorems about Endpoints: how what nng keeps for a connection comes and *)
(* goes, for any number of dialers, listeners, pipes and threads that use, *)
(* make and close them, in any order of callers, callbacks and the reaper. *)
(***************************************************************************)
EXTENDS EndpointState, FiniteSets, SequenceTheorems, FiniteSetTheorems, TLAPS

CONSTANTS Dialers, Listeners, Closers, Pipes, Blocking, Faults, None

Core == INSTANCE Endpoints

-----------------------------------------------------------------------------
(* The socket of Endpoints, its dialers, listeners and pipes.  First the   *)
(* values its variables take, then the parts of the inductive invariant.   *)

Eps == Dialers \cup Listeners
One(b) == IF b THEN 1 ELSE 0

Endpoint == [alive : BOOLEAN, listed : BOOLEAN, ref : Int, closed : BOOLEAN,
             closing : BOOLEAN, pipe : Pipes \cup {None},
             con : {"idle", "pending", "ok", "error", "closed"},
             tmo : {"idle", "pending", "closed"},
             stopped : BOOLEAN, waiter : BOOLEAN, result : {"none", "ok", "fail"}]
PipeRec == [live : BOOLEAN, ref : Int, closed : BOOLEAN, listed : BOOLEAN,
            known : BOOLEAN, ep : Eps \cup {None}]
Adding == [p : Pipes \cup {None}, step : {"none", "pre", "post"}, waiter : BOOLEAN]
Sock == [closing : BOOLEAN, closed : BOOLEAN, ref : Int, node : BOOLEAN, gone : BOOLEAN,
         failed : BOOLEAN]
User == [pc : {"none", "find", "create", "start", "wait", "close", "shut", "rele", "srele", "end"},
         sock : BOOLEAN]
Reap == [pipes : Seq(Pipes), eps : Seq(Eps), hand : Seq(Eps \cup Pipes), at : {"pipes", "eps"},
         cur : Eps \cup Pipes \cup {None},
         step : {"none", "id", "wait", "stop", "reap", "fini"}]

CoreTypes ==
  /\ sock \in Sock
  /\ ep \in [Eps -> Endpoint]
  /\ pipe \in [Pipes -> PipeRec]
  /\ cb \in [Eps -> Adding]
  /\ reap \in Reap
  /\ user \in [Core!Users -> User]
  /\ closer \in [Closers -> {"idle", "shut", "insist", "drain", "close", "last", "done"}]
  /\ holder \in Pipes \cup {None}

(* A thread with a reference to its endpoint.                              *)
Holds(u) == u.pc \in {"start", "wait", "close", "shut", "rele"}

(* An endpoint d with the pipe k its callback adds, the thread u that made *)
(* it and the thread v that closes it, in the socket s.  It counts the     *)
(* threads; whoever closed it shuts it down before its reference is given  *)
(* back; what is not listed any more does nothing.                         *)
Counted(d, u, v) ==
  /\ d.ref = One(Holds(u)) + One(Holds(v))
  /\ Holds(u) \/ Holds(v) => d.listed
  /\ v.pc \in {"none", "close", "shut", "rele", "end"} /\ ~v.sock
  /\ u.pc # "none" /\ (u.sock <=> u.pc \notin {"find", "end"})
  /\ v.pc # "none" => u.pc \in {"rele", "srele", "end"}

Lives(d, k, u) ==
  /\ d.listed => d.alive
  /\ ~d.listed => d.con = "idle" /\ d.tmo = "idle" /\ k = Core!NoCb
  /\ ~d.listed => d.pipe = None
  /\ u.pc \in {"find", "create"} => d = Core!NoEp
  /\ k.step = "none" => k = Core!NoCb
  /\ k.step # "none" => k.p \in Pipes

Shuts(d, u, v, s) ==
  /\ d.closed /\ ~d.closing => u.pc = "shut" \/ v.pc = "shut"
  /\ u.pc = "shut" \/ v.pc = "shut" => d.closed
  /\ s.closing /\ d.listed => d.closing
  /\ d.stopped => d.closing
  /\ d.con = "closed" \/ d.tmo = "closed" => d.stopped

(* The thread in nng_dial that waits is told once.                         *)
Tells(d, k, u) ==
  /\ d.waiter \/ k.waiter => u.pc = "wait" /\ d.result = "none"
  /\ ~d.waiter \/ ~k.waiter
  /\ d.result # "none" => u.pc \notin {"find", "create", "start"}
  /\ d.result = "fail" /\ u.pc \in {"rele", "srele", "end"} => d.closed

Started(d, u) ==
  /\ d.listed /\ ~d.closing /\ ~d.closed
  /\ u.pc \in {"wait", "rele", "srele", "end"} /\ d.result # "fail"

Works(d, k, u, s) ==
  ~s.failed /\ Started(d, u)
    => d.con # "idle" \/ d.tmo # "idle" \/ k.step # "none" \/ d.pipe # None

Kinds(e, d, k, u) ==
  /\ e \notin Dialers => d.pipe = None /\ u.pc # "wait"
  /\ e \in Dialers /\ k.step # "none" => d.pipe = k.p

EpOK(e, d, k, u, v, s) ==
  /\ Counted(d, u, v) /\ Lives(d, k, u) /\ Shuts(d, u, v, s) /\ Tells(d, k, u)
  /\ Works(d, k, u, s) /\ Kinds(e, d, k, u)

EpsOK == \A e \in Eps : EpOK(e, ep[e], cb[e], user[<<e, "dial">>], user[<<e, "close">>], sock)

(* A pipe is known while it lives, and counts the callback and the thread  *)
(* that have it, but for one that pipe_create could not give an            *)
(* identifier.                                                             *)
Added(p) == \E e \in Eps : cb[e].p = p

PipeOK(p, q, held) ==
  /\ q.known \/ q.listed => q.live
  /\ q.listed <=> q.ep \in Eps
  /\ ~q.live => q = Core!NoPipe
  /\ \/ q.ref = One(Added(p)) + One(held)
     \/ q.ref = -1 /\ ~q.known /\ ~q.listed /\ ~held /\ ~Added(p)

PipesOK ==
  /\ \A p \in Pipes : PipeOK(p, pipe[p], holder = p)
  /\ \A e \in Eps : /\ cb[e].p # None => pipe[cb[e].p].ep = e
                    /\ ep[e].pipe # None => pipe[ep[e].pipe].ep = e
  /\ \A p \in Pipes : pipe[p].listed => ep[pipe[p].ep].listed

(* What the reaper has: each once, pipes that are closed and endpoints     *)
(* that are closed, shut down, and held by nobody.                         *)
In(s) == {s[i] : i \in DOMAIN s}
Once(s) == \A i, j \in DOMAIN s : s[i] = s[j] => i = j
Reaped(r) == In(r.pipes) \cup In(r.eps) \cup In(r.hand) \cup ({r.cur} \ {None})

ListsOK(r) ==
  /\ Once(r.pipes) /\ Once(r.eps) /\ Once(r.hand)
  /\ In(r.hand) \cap (In(r.pipes) \cup In(r.eps)) = {}
  /\ r.cur \notin In(r.pipes) \cup In(r.eps) \cup In(r.hand)
  /\ r.cur = None <=> r.step = "none"
  /\ r.step \in {"id", "wait"} => r.cur \in Pipes
  /\ r.step \in {"stop", "reap"} => r.cur \in Eps

EpGiven(d) == d.closed /\ d.closing /\ d.ref = 0 /\ d.alive
ReapOK ==
  /\ ListsOK(reap)
  /\ \A e \in Eps : e \in Reaped(reap) => EpGiven(ep[e])
  /\ \A p \in Pipes : p \in Reaped(reap) => pipe[p].closed /\ pipe[p].live
  /\ \A e \in Eps : ep[e].alive => ep[e].listed \/ Fined(e)
  /\ \A e \in Eps : Fined(e) => ~ep[e].listed
  /\ \A p \in Pipes : Fined(p) => ~pipe[p].listed /\ pipe[p].ref = 0
  /\ \A p \in Pipes : reap.cur = p /\ reap.step # "id" => ~pipe[p].known
  /\ reap.step = "reap" => ep[reap.cur].stopped
  /\ ~sock.failed => \A p \in Pipes : pipe[p].live => pipe[p].listed \/ Fined(p)

(* The socket counts the callers that found it and the threads that close  *)
(* it; they are past the drain when nothing is listed.                     *)
Callers == {e \in Eps : user[<<e, "dial">>].sock}
Closings == {c \in Closers : closer[c] \notin {"idle", "done"}}
NothingListed == (\A e \in Eps : ~ep[e].listed) /\ (\A p \in Pipes : ~pipe[p].listed)

SockOK ==
  /\ IsFiniteSet(Callers) /\ IsFiniteSet(Closings)
  /\ sock.ref = Cardinality(Callers) + Cardinality(Closings) + One(sock.gone)
  /\ sock.closed => sock.closing /\ ~sock.node
  /\ sock.gone => sock.closed /\ Callers = {} /\ Closings = {}
  /\ \A c \in Closers : closer[c] = "last" => sock.closed
  /\ \A b, c \in Closers : closer[b] = "last" /\ closer[c] = "last" => b = c
  /\ \A c \in Closers : closer[c] \in {"insist", "drain", "close"} => sock.closing
  /\ sock.closing => NothingListed \/ \E c \in Closers : closer[c] \in {"insist", "drain"}

CoreInv == CoreTypes /\ EpsOK /\ PipesOK /\ ReapOK /\ SockOK

(* The assumption of Endpoints, as the proofs use it.                      *)
CoreAssumed ==
  /\ Dialers \cap Listeners = {} /\ Eps \cap Pipes = {} /\ None \notin Eps \cup Pipes
  /\ IsFiniteSet(Eps) /\ IsFiniteSet(Pipes)
  /\ Blocking \subseteq BOOLEAN

LEMMA CoreNames ==
  /\ Core!Eps = Eps
  /\ \A S : Core!Cardinality(S) = Cardinality(S)
  /\ Core!EndpointsAssumption => CoreAssumed
<1>1. Core!Eps = Eps
  BY DEF Core!Eps, Eps
<1>2. Core!EndpointsAssumption => CoreAssumed
  BY <1>1 DEF Core!EndpointsAssumption, CoreAssumed, Core!IsFiniteSet, IsFiniteSet
<1>3. \A S : Core!Cardinality(S) = Cardinality(S)
  BY DEF Core!Cardinality, Cardinality
<1> QED
  BY <1>1, <1>2, <1>3

-----------------------------------------------------------------------------
(* The lists of the reaper.                                                *)

(* A finite set as a sequence.                                             *)
LEMMA SetSeq ==
  ASSUME NEW S, IsFiniteSet(S)
  PROVE  /\ Core!SetToSeq(S) \in Seq(S) /\ Once(Core!SetToSeq(S))
         /\ In(Core!SetToSeq(S)) = S
<1> DEFINE n == Cardinality(S)
           s == Core!SetToSeq(S)
<1>1. n \in Nat /\ ExistsBijection(1..n, S) /\ Core!Cardinality(S) = n
  BY FS_CardinalityType, CoreNames
<1>2. PICK f \in [1..n -> S] : IsInjective(f)
  BY <1>1 DEF ExistsBijection, Bijection, Injection
<1>3. Core!IsInjective(f)
  BY <1>2 DEF IsInjective, Core!IsInjective
<1>4. s \in [1..n -> S] /\ Core!IsInjective(s)
  BY <1>1, <1>2, <1>3 DEF Core!SetToSeq
<1> HIDE DEF s
<1>5. s \in Injection(1..n, S)
  BY <1>4 DEF Injection, IsInjective, Core!IsInjective
<1>6. IsFiniteSet(1..n) /\ Cardinality(1..n) = n
  BY <1>1, FS_Interval
<1>7. s \in Surjection(1..n, S)
  BY <1>5, <1>6, FS_Injection
<1>8. Once(s) /\ In(s) = S
  BY <1>4, <1>7 DEF Once, Core!IsInjective, In, Surjection
<1>9. s \in Seq(S)
  BY <1>1, <1>4
<1> QED
  BY <1>8, <1>9 DEF s

(* Two sequences with nothing in common, one after the other.              *)
LEMMA ConcatOnce ==
  ASSUME NEW S, NEW s \in Seq(S), NEW t \in Seq(S)
  PROVE  /\ s \o t \in Seq(S) /\ In(s \o t) = In(s) \cup In(t)
         /\ Once(s) /\ Once(t) /\ In(s) \cap In(t) = {} => Once(s \o t)
<1> DEFINE m == Len(s)
           n == Len(t)
           st == s \o t
<1>1. /\ m \in Nat /\ n \in Nat /\ DOMAIN s = 1..m /\ DOMAIN t = 1..n
  BY LenProperties
<1>2. /\ st \in Seq(S) /\ Len(st) = m + n
      /\ \A i \in 1..(m + n) : st[i] = IF i <= m THEN s[i] ELSE t[i - m]
  BY ConcatProperties
<1>3. DOMAIN st = 1..(m + n)
  BY <1>2, LenProperties
<1> HIDE DEF m, n, st
<1>4. In(st) \subseteq In(s) \cup In(t)
  <2>1. \A i \in 1..(m + n) : (i <= m /\ i \in 1..m) \/ (i - m \in 1..n /\ ~(i <= m))
    BY <1>1
  <2> QED
    BY <1>1, <1>2, <1>3, <2>1 DEF In
<1>5. In(s) \subseteq In(st)
  <2>1. \A i \in 1..m : i \in 1..(m + n) /\ i <= m
    BY <1>1
  <2> QED
    BY <1>1, <1>2, <1>3, <2>1 DEF In
<1>6. In(t) \subseteq In(st)
  <2>1. \A i \in 1..n : i + m \in 1..(m + n) /\ ~(i + m <= m) /\ (i + m) - m = i
    BY <1>1
  <2>2. \A i \in 1..n : st[i + m] = t[i]
    BY <1>2, <2>1
  <2> QED
    BY <1>1, <1>3, <2>1, <2>2 DEF In
<1>7. ASSUME Once(s), Once(t), In(s) \cap In(t) = {} PROVE Once(st)
  <2>1. SUFFICES ASSUME NEW i \in 1..(m + n), NEW j \in 1..(m + n), st[i] = st[j] PROVE i = j
    BY <1>3 DEF Once
  <2>2. CASE i <= m /\ j <= m
    <3>1. i \in 1..m /\ j \in 1..m
      BY <1>1, <2>2
    <3>2. s[i] = s[j]
      BY <1>2, <2>1, <2>2
    <3> QED
      BY <1>1, <1>7, <3>1, <3>2 DEF Once
  <2>3. CASE ~(i <= m) /\ ~(j <= m)
    <3>1. i - m \in 1..n /\ j - m \in 1..n
      BY <1>1, <2>3
    <3>2. t[i - m] = t[j - m]
      BY <1>2, <2>1, <2>3
    <3>3. i - m = j - m
      BY <1>1, <1>7, <3>1, <3>2 DEF Once
    <3> QED
      BY <1>1, <3>3
  <2>4. ASSUME NEW x \in 1..(m + n), NEW y \in 1..(m + n), x <= m, ~(y <= m), st[x] = st[y]
        PROVE  FALSE
    <3>1. x \in 1..m /\ y - m \in 1..n
      BY <1>1, <2>4
    <3>2. s[x] = t[y - m]
      BY <1>2, <2>4
    <3> QED
      BY <1>1, <1>7, <3>1, <3>2 DEF In
  <2>5. CASE i <= m /\ ~(j <= m)
    BY <2>1, <2>4, <2>5
  <2>6. CASE ~(i <= m) /\ j <= m
    BY <2>1, <2>4, <2>6
  <2> QED
    BY <2>2, <2>3, <2>5, <2>6
<1> QED
  BY <1>2, <1>4, <1>5, <1>6, <1>7 DEF st

(* The members of a sequence.                                              *)
LEMMA SeqMembers == ASSUME NEW S, NEW s \in Seq(S) PROVE In(s) \subseteq S
  BY LenProperties DEF In

(* A sequence of one.                                                      *)
LEMMA OneSeq ==
  ASSUME NEW S, NEW x \in S PROVE <<x>> \in Seq(S) /\ In(<<x>>) = {x} /\ Once(<<x>>)
  BY DEF In, Once

(* Pipes are added to what the reaper has, or endpoints.                   *)
LEMMA PipesToReap ==
  ASSUME NEW r \in Reap, ListsOK(r), NEW s \in Seq(Pipes), Once(s), In(s) \cap Reaped(r) = {}, CoreAssumed
  PROVE  LET q == [r EXCEPT !.pipes = s \o @]
         IN  q \in Reap /\ ListsOK(q) /\ Reaped(q) = Reaped(r) \cup In(s)
             /\ q.cur = r.cur /\ q.step = r.step /\ q.eps = r.eps
<1> DEFINE q == [r EXCEPT !.pipes = s \o @]
<1>1. r.pipes \in Seq(Pipes)
  BY DEF Reap
<1>2. /\ s \o r.pipes \in Seq(Pipes) /\ In(s \o r.pipes) = In(s) \cup In(r.pipes)
      /\ Once(s \o r.pipes)
  BY <1>1, ConcatOnce DEF ListsOK, Reaped
<1>3. /\ q.pipes = s \o r.pipes /\ q.eps = r.eps /\ q.hand = r.hand /\ q.cur = r.cur
      /\ q.step = r.step /\ q \in Reap
  BY <1>2 DEF Reap
<1> HIDE DEF q
<1>4. r.cur \notin In(s)
  <2>1. r.cur \in Eps \cup Pipes \cup {None} /\ In(s) \subseteq Pipes
    BY SeqMembers DEF Reap
  <2> QED
    BY <2>1 DEF Reaped, CoreAssumed
<1>5. ListsOK(q)
  BY <1>2, <1>3, <1>4 DEF ListsOK, Reaped
<1>6. Reaped(q) = Reaped(r) \cup In(s)
  BY <1>2, <1>3 DEF Reaped
<1> QED
  BY <1>3, <1>5, <1>6 DEF q

(* Endpoints are added to what the reaper has.                             *)
LEMMA EpsToReap ==
  ASSUME NEW r \in Reap, ListsOK(r), NEW s \in Seq(Eps), Once(s), In(s) \cap Reaped(r) = {}, CoreAssumed
  PROVE  LET q == [r EXCEPT !.eps = s \o @]
         IN  q \in Reap /\ ListsOK(q) /\ Reaped(q) = Reaped(r) \cup In(s)
             /\ q.cur = r.cur /\ q.step = r.step /\ q.pipes = r.pipes
<1> DEFINE q == [r EXCEPT !.eps = s \o @]
<1>1. r.eps \in Seq(Eps)
  BY DEF Reap
<1>2. /\ s \o r.eps \in Seq(Eps) /\ In(s \o r.eps) = In(s) \cup In(r.eps)
      /\ Once(s \o r.eps)
  BY <1>1, ConcatOnce DEF ListsOK, Reaped
<1>3. /\ q.eps = s \o r.eps /\ q.pipes = r.pipes /\ q.hand = r.hand /\ q.cur = r.cur
      /\ q.step = r.step /\ q \in Reap
  BY <1>2 DEF Reap
<1> HIDE DEF q
<1>4. r.cur \notin In(s)
  <2>1. r.cur \in Eps \cup Pipes \cup {None} /\ In(s) \subseteq Eps
    BY SeqMembers DEF Reap
  <2> QED
    BY <2>1 DEF Reaped, CoreAssumed
<1>5. ListsOK(q)
  BY <1>2, <1>3, <1>4 DEF ListsOK, Reaped
<1>6. Reaped(q) = Reaped(r) \cup In(s)
  BY <1>2, <1>3 DEF Reaped
<1> QED
  BY <1>3, <1>5, <1>6 DEF q

-----------------------------------------------------------------------------
(* What happens to one endpoint.                                           *)

(* An endpoint that is not there, and no callback.                         *)
LEMMA NoEpFacts ==
  /\ Core!NoEp \in Endpoint /\ ~Core!NoEp.alive /\ ~Core!NoEp.listed /\ Core!NoEp.ref = 0
  /\ ~Core!NoEp.closed /\ ~Core!NoEp.closing /\ Core!NoEp.pipe = None
  /\ Core!NoEp.con = "idle" /\ Core!NoEp.tmo = "idle" /\ ~Core!NoEp.stopped
  /\ ~Core!NoEp.waiter /\ Core!NoEp.result = "none"
  BY DEF Core!NoEp, Endpoint

LEMMA NoCbFacts ==
  Core!NoCb \in Adding /\ Core!NoCb.p = None /\ Core!NoCb.step = "none" /\ ~Core!NoCb.waiter
  BY DEF Core!NoCb, Adding

(* Fields that say nothing of the life of an endpoint.                     *)
SameLife(d, x) ==
  /\ x.alive = d.alive /\ x.listed = d.listed /\ x.ref = d.ref /\ x.closed = d.closed
  /\ x.pipe = d.pipe

(* nni_aio_begin and nni_aio_close.                                        *)
LEMMA BegunFacts ==
  ASSUME NEW d \in Endpoint, NEW f \in {"con", "tmo"}
  PROVE  LET x == Core!Begun(d, f)
         IN  /\ x \in Endpoint /\ SameLife(d, x)
             /\ x.closing = d.closing /\ x.stopped = d.stopped /\ x.waiter = d.waiter
             /\ x.result = d.result
             /\ d.stopped => x = d
             /\ ~d.stopped /\ f = "con" => x.con = "pending" /\ x.tmo = d.tmo
             /\ ~d.stopped /\ f = "tmo" => x.tmo = "pending" /\ x.con = d.con
  BY DEF Core!Begun, Endpoint, SameLife

(* nni_aio_close of both operations of an endpoint.                        *)
LEMMA StoppedFacts ==
  ASSUME NEW d \in Endpoint
  PROVE  LET x == Core!Stopped(d)
         IN  /\ x \in Endpoint /\ SameLife(d, x) /\ x.stopped
             /\ x.closing = d.closing /\ x.waiter = d.waiter /\ x.result = d.result
             /\ x.con = (IF d.con = "pending" THEN "closed" ELSE d.con)
             /\ x.tmo = (IF d.tmo = "pending" THEN "closed" ELSE d.tmo)
  BY DEF Core!Stopped, Core!Aborted, Endpoint, SameLife

(* An endpoint that does what it did, or more.                             *)
LEMMA EpGoesOn ==
  ASSUME NEW e, NEW d \in Endpoint, NEW x \in Endpoint, NEW k \in Adding, NEW u \in User,
         NEW v \in User, NEW s \in Sock,
         EpOK(e, d, k, u, v, s), SameLife(d, x), x.closing = d.closing, d.listed,
         x.stopped = d.stopped, x.waiter = d.waiter, x.result = d.result,
         x.con = "closed" \/ x.tmo = "closed" => d.stopped,
         ~d.stopped => x.con # "idle" \/ x.tmo # "idle" \/ k.step # "none" \/ x.pipe # None
  PROVE  EpOK(e, x, k, u, v, s)
<1>1. Counted(x, u, v) /\ Lives(x, k, u)
  BY NoEpFacts DEF EpOK, Counted, Lives, SameLife
<1>2. Shuts(x, u, v, s) /\ Tells(x, k, u)
  BY DEF EpOK, Shuts, Tells, SameLife
<1>3. Works(x, k, u, s) /\ Kinds(e, x, k, u)
  BY DEF EpOK, Shuts, Works, Started, Kinds, SameLife
<1> QED
  BY <1>1, <1>2, <1>3 DEF EpOK

(* An endpoint is shut down.                                               *)
LEMMA EpShut ==
  ASSUME NEW e, NEW d \in Endpoint, NEW k \in Adding, NEW u \in User, NEW v \in User,
         NEW s \in Sock, EpOK(e, d, k, u, v, s), d.listed
  PROVE  LET x == Core!Stopped([d EXCEPT !.closing = TRUE])
         IN  /\ x \in Endpoint /\ SameLife(d, x) /\ x.closing /\ x.stopped
             /\ x.con = "idle" <=> d.con = "idle"
             /\ EpOK(e, x, k, u, v, s)
<1> DEFINE y == [d EXCEPT !.closing = TRUE]
           x == Core!Stopped(y)
<1>1. y \in Endpoint /\ SameLife(d, y) /\ y.closing /\ y.waiter = d.waiter /\ y.result = d.result
      /\ y.con = d.con /\ y.tmo = d.tmo
  BY DEF Endpoint, SameLife
<1> HIDE DEF y
<1>2. x \in Endpoint /\ SameLife(d, x) /\ x.closing /\ x.stopped /\ x.waiter = d.waiter
      /\ x.result = d.result /\ (x.con = "idle" <=> d.con = "idle")
  BY <1>1, StoppedFacts DEF SameLife
<1> HIDE DEF x
<1>3. Counted(x, u, v) /\ Lives(x, k, u)
  BY <1>2, NoEpFacts DEF EpOK, Counted, Lives, SameLife
<1>4. Shuts(x, u, v, s) /\ Tells(x, k, u) /\ Works(x, k, u, s) /\ Kinds(e, x, k, u)
  BY <1>2 DEF EpOK, Shuts, Tells, Works, Started, Kinds, SameLife
<1> QED
  BY <1>2, <1>3, <1>4 DEF EpOK, x, y

(* Every endpoint but one is as it was.                                    *)
LEMMA OneEp ==
  ASSUME EpsOK, CoreTypes, NEW e \in Eps, NEW d \in Endpoint, NEW k \in Adding, NEW u \in User, NEW v \in User,
         ep' = [ep EXCEPT ![e] = d], cb' = [cb EXCEPT ![e] = k],
         user' = [user EXCEPT ![<<e, "dial">>] = u, ![<<e, "close">>] = v],
         sock' = sock, EpOK(e, d, k, u, v, sock)
  PROVE  EpsOK'
<1>1. \A f \in Eps : <<f, "dial">> \in Core!Users /\ <<f, "close">> \in Core!Users
  BY CoreNames DEF Core!Users
<1>2. /\ ep'[e] = d /\ cb'[e] = k /\ user'[<<e, "dial">>] = u /\ user'[<<e, "close">>] = v
      /\ \A f \in Eps \ {e} : ep'[f] = ep[f] /\ cb'[f] = cb[f]
  BY <1>1 DEF CoreTypes
<1>3. \A f \in Eps \ {e} : /\ user'[<<f, "dial">>] = user[<<f, "dial">>]
                           /\ user'[<<f, "close">>] = user[<<f, "close">>]
  BY <1>1 DEF CoreTypes
<1> QED
  BY <1>2, <1>3 DEF EpsOK

-----------------------------------------------------------------------------
(* What a step leaves alone.                                               *)

Dial(e) == user[<<e, "dial">>]
Close(e) == user[<<e, "close">>]

(* One thread goes on.                                                     *)
LEMMA UserMoves ==
  ASSUME CoreTypes, NEW e \in Eps, NEW x \in User, NEW w \in {"dial", "close"},
         user' = [user EXCEPT ![<<e, w>>] = x]
  PROVE  /\ user' \in [Core!Users -> User]
         /\ user'[<<e, w>>] = x
         /\ \A f \in Eps \ {e} : Dial(f)' = Dial(f) /\ Close(f)' = Close(f)
         /\ w = "dial" => Close(e)' = Close(e)
         /\ w = "close" => Dial(e)' = Dial(e)
<1>1. \A f \in Eps, z \in {"dial", "close"} : <<f, z>> \in Core!Users
  BY CoreNames DEF Core!Users
<1>2. user' \in [Core!Users -> User] /\ user'[<<e, w>>] = x
      /\ \A y \in Core!Users : y # <<e, w>> => user'[y] = user[y]
  BY <1>1 DEF CoreTypes
<1>3. \A f \in Eps, z \in {"dial", "close"} : <<f, z>> = <<e, w>> => f = e /\ z = w
  OBVIOUS
<1> QED
  BY <1>1, <1>2, <1>3 DEF Dial, Close

(* What is known of one endpoint and of its threads.                       *)
LEMMA UserFacts ==
  ASSUME CoreTypes, NEW e \in Eps PROVE Dial(e) \in User /\ Close(e) \in User
  BY CoreNames DEF CoreTypes, Core!Users, Dial, Close

LEMMA EpFacts ==
  ASSUME CoreInv, NEW e \in Eps
  PROVE  EpOK(e, ep[e], cb[e], Dial(e), Close(e), sock) /\ ep[e] \in Endpoint /\ cb[e] \in Adding
         /\ sock \in Sock
  BY DEF CoreInv, EpsOK, CoreTypes, Dial, Close

(* Of the socket, an endpoint asks whether it is closing, and whether      *)
(* pipe_create has failed.                                                 *)
LEMMA SameClosing ==
  ASSUME NEW e, NEW d, NEW k, NEW u, NEW v, NEW s, NEW t, s.closing = t.closing,
         s.failed => t.failed, EpOK(e, d, k, u, v, s)
  PROVE  EpOK(e, d, k, u, v, t)
  BY DEF EpOK, Shuts, Works

(* A socket that is as it was, but that pipe_create may have failed.       *)
SameSock ==
  /\ sock' \in Sock /\ sock'.closing = sock.closing /\ sock'.closed = sock.closed
  /\ sock'.ref = sock.ref /\ sock'.node = sock.node /\ sock'.gone = sock.gone
  /\ sock.failed => sock'.failed

(* One endpoint changes, or none does.                                     *)
LEMMA EpChanges ==
  ASSUME CoreInv, NEW e \in Eps, sock'.closing = sock.closing, sock.failed => sock'.failed,
         \A f \in Eps \ {e} : /\ ep'[f] = ep[f] /\ cb'[f] = cb[f]
                              /\ Dial(f)' = Dial(f) /\ Close(f)' = Close(f),
         EpOK(e, ep'[e], cb'[e], Dial(e)', Close(e)', sock')
  PROVE  EpsOK'
<1>1. ASSUME NEW f \in Eps PROVE EpOK(f, ep'[f], cb'[f], Dial(f)', Close(f)', sock')
  <2>1. CASE f = e
    BY <2>1
  <2>2. CASE f # e
    BY <2>2, EpFacts, SameClosing
  <2> QED
    BY <2>1, <2>2
<1> QED
  BY <1>1 DEF EpsOK, Dial, Close

LEMMA OneEpMoves ==
  ASSUME CoreInv, NEW e \in Eps, sock'.closing = sock.closing, sock'.failed = sock.failed,
         \A f \in Eps \ {e} : /\ ep'[f] = ep[f] /\ cb'[f] = cb[f]
                              /\ Dial(f)' = Dial(f) /\ Close(f)' = Close(f),
         EpOK(e, ep'[e], cb'[e], Dial(e)', Close(e)', sock)
  PROVE  EpsOK'
<1>1. EpOK(e, ep'[e], cb'[e], Dial(e)', Close(e)', sock')
  BY SameClosing
<1> QED
  BY <1>1, EpChanges

LEMMA NoEpMoves ==
  ASSUME CoreInv, UNCHANGED <<ep, cb>>, sock'.closing = sock.closing, sock'.failed = sock.failed,
         \A f \in Eps : Dial(f)' = Dial(f) /\ Close(f)' = Close(f)
  PROVE  EpsOK'
<1>2. ASSUME NEW f \in Eps PROVE EpOK(f, ep'[f], cb'[f], Dial(f)', Close(f)', sock')
  BY EpFacts, SameClosing
<1> QED
  BY <1>2 DEF EpsOK, Dial, Close

(* The socket is counted and drained as it was.                            *)
LEMMA SockCounts ==
  ASSUME CoreInv, SameSock, UNCHANGED closer,
         \A e \in Eps : Dial(e)'.sock = Dial(e).sock,
         sock.closing /\ NothingListed => NothingListed'
  PROVE  SockOK'
<1>1. Callers' = Callers /\ Closings' = Closings
  BY DEF Callers, Closings, Dial
<1> QED
  BY <1>1 DEF CoreInv, SockOK, SameSock

LEMMA SockKept ==
  ASSUME CoreInv, UNCHANGED <<sock, closer>>,
         \A e \in Eps : Dial(e)'.sock = Dial(e).sock,
         sock.closing /\ NothingListed => NothingListed'
  PROVE  SockOK'
<1>1. SameSock
  BY DEF CoreInv, CoreTypes, SameSock
<1> QED
  BY <1>1, SockCounts

(* The pipes are held as they were.                                        *)
MayClose(q, p) == q = p \/ (p.live /\ q = [p EXCEPT !.closed = TRUE])

(* A pipe that is closed, if it changes at all.                            *)
LEMMA MayCloseFacts ==
  ASSUME NEW p \in PipeRec, NEW q, MayClose(q, p)
  PROVE  /\ q \in PipeRec /\ q.live = p.live /\ q.ref = p.ref /\ q.listed = p.listed
         /\ q.known = p.known /\ q.ep = p.ep /\ (p.closed => q.closed)
         /\ ~p.live => q = p
  BY DEF MayClose, PipeRec

(* Pipes are closed, and dialers lose theirs.                              *)
LEMMA PipesKept ==
  ASSUME CoreInv, UNCHANGED <<cb, holder>>,
         \A p \in Pipes : MayClose(pipe'[p], pipe[p]),
         \A e \in Eps : ep'[e].pipe = ep[e].pipe \/ ep'[e].pipe = None,
         \A e \in Eps : ep[e].listed => ep'[e].listed
  PROVE  PipesOK'
<1>1. \A p \in Pipes : pipe[p] \in PipeRec
  BY DEF CoreInv, CoreTypes
<1>2. \A p \in Pipes : Added(p)' = Added(p)
  BY DEF Added
<1>3. ASSUME NEW p \in Pipes PROVE PipeOK(p, pipe[p], holder = p)'
  BY <1>1, <1>2, MayCloseFacts DEF CoreInv, PipesOK, PipeOK
<1>4. ASSUME NEW e \in Eps
      PROVE  /\ cb'[e].p # None => pipe'[cb'[e].p].ep = e
             /\ ep'[e].pipe # None => pipe'[ep'[e].pipe].ep = e
  <2>1. cb[e].p \in Pipes \cup {None} /\ ep[e].pipe \in Pipes \cup {None}
    BY DEF CoreInv, CoreTypes, Adding, Endpoint
  <2> QED
    BY <1>1, <2>1, MayCloseFacts DEF CoreInv, PipesOK
<1>5. ASSUME NEW p \in Pipes, pipe'[p].listed PROVE ep'[pipe'[p].ep].listed
  <2>1. pipe[p].listed /\ pipe'[p].ep = pipe[p].ep
    BY <1>1, <1>5, MayCloseFacts
  <2>2. pipe[p].ep \in Eps /\ ep[pipe[p].ep].listed
    BY <2>1 DEF CoreInv, PipesOK, PipeOK
  <2> QED
    BY <2>1, <2>2
<1> QED
  BY <1>3, <1>4, <1>5 DEF PipesOK

LEMMA PipesTyped ==
  ASSUME CoreInv, pipe' = [p \in Pipes |-> pipe'[p]], \A p \in Pipes : MayClose(pipe'[p], pipe[p])
  PROVE  pipe' \in [Pipes -> PipeRec]
<1>1. \A p \in Pipes : pipe'[p] \in PipeRec
  BY MayCloseFacts DEF CoreInv, CoreTypes
<1> QED
  BY <1>1

(* The reaper has what it had, or more.                                    *)
LEMMA ReapKept ==
  ASSUME CoreInv, CoreAssumed, ListsOK(reap'), reap'.cur = reap.cur, reap'.step = reap.step,
         sock.failed => sock'.failed,
         \A p \in Pipes : MayClose(pipe'[p], pipe[p]),
         \A e \in Eps : e \in Reaped(reap') => EpGiven(ep'[e]),
         \A p \in Pipes : p \in Reaped(reap') => p \in Reaped(reap) \/ (pipe'[p].closed /\ pipe[p].live),
         \A e \in Eps : /\ ep'[e].alive => ep[e].alive \/ ep'[e].listed
                        /\ \/ ep'[e].listed <=> ep[e].listed
                           \/ ep'[e].listed /\ ~ep[e].alive
                        /\ ep[e].stopped => ep'[e].stopped
  PROVE  ReapOK'
<1>1. \A p \in Pipes : pipe[p] \in PipeRec
  BY DEF CoreInv, CoreTypes
<1>2. ReapOK
  BY DEF CoreInv
<1>3. \A x : Fined(x)' <=> Fined(x)
  BY DEF Fined
<1>4. \A p \in Pipes : p \in Reaped(reap') => pipe'[p].closed /\ pipe'[p].live
  BY <1>1, <1>2, MayCloseFacts DEF ReapOK
<1>5. \A e \in Eps : ep'[e].alive => ep'[e].listed \/ Fined(e)'
  BY <1>2, <1>3 DEF ReapOK
<1>6. ASSUME NEW e \in Eps, Fined(e)' PROVE ~ep'[e].listed
  <2>1. Fined(e) /\ e \in Reaped(reap)
    BY <1>3, <1>6 DEF Fined, Reaped, CoreAssumed
  <2> QED
    BY <1>2, <2>1 DEF ReapOK, EpGiven
<1>7. /\ \A p \in Pipes : Fined(p)' => ~pipe'[p].listed /\ pipe'[p].ref = 0
      /\ \A p \in Pipes : reap'.cur = p /\ reap'.step # "id" => ~pipe'[p].known
  BY <1>1, <1>2, <1>3, MayCloseFacts DEF ReapOK
<1>8. reap'.step = "reap" => ep'[reap'.cur].stopped
  BY <1>2 DEF ReapOK, ListsOK
<1>9. ~sock'.failed =>
        \A p \in Pipes : pipe'[p].live => pipe'[p].listed \/ Fined(p)'
  BY <1>1, <1>2, <1>3, MayCloseFacts DEF ReapOK
<1> QED
  BY <1>4, <1>5, <1>6, <1>7, <1>8, <1>9 DEF ReapOK

(* Pipes are closed.                                                       *)
LEMMA ClosePipes ==
  ASSUME CoreInv, CoreAssumed, NEW ps \in SUBSET Pipes, \A p \in ps : pipe[p].live
  PROVE  LET q == Core!PipesClosed(ps)
             r == Core!ToReap(ps)
         IN  /\ \A p \in Pipes : MayClose(q[p], pipe[p])
             /\ q \in [Pipes -> PipeRec] /\ \A p \in ps : q[p].closed
             /\ r \in Reap /\ ListsOK(r) /\ r.cur = reap.cur /\ r.step = reap.step
             /\ Reaped(r) = Reaped(reap) \cup {p \in ps : ~pipe[p].closed}
             /\ r.eps = reap.eps
<1> DEFINE q == Core!PipesClosed(ps)
           new == {p \in ps : ~pipe[p].closed}
<1>0. \A p \in Pipes : pipe[p] \in PipeRec
  BY DEF CoreInv, CoreTypes
<1>1. \A p \in Pipes : q[p] = IF p \in ps THEN [pipe[p] EXCEPT !.closed = TRUE] ELSE pipe[p]
  BY DEF Core!PipesClosed
<1>2. \A p \in Pipes : MayClose(q[p], pipe[p])
  BY <1>1 DEF MayClose
<1>3. q = [p \in Pipes |-> q[p]]
  BY DEF Core!PipesClosed
<1>4. \A p \in ps : q[p].closed
  BY <1>0, <1>1 DEF PipeRec
<1> HIDE DEF q
<1>5. q \in [Pipes -> PipeRec]
  BY <1>0, <1>2, <1>3, MayCloseFacts
<1>6. IsFiniteSet(new)
  BY FS_Subset DEF CoreAssumed
<1>7. /\ Core!SetToSeq(new) \in Seq(Pipes) /\ Once(Core!SetToSeq(new))
      /\ In(Core!SetToSeq(new)) = new
  <2>1. Core!SetToSeq(new) \in Seq(new)
    BY <1>6, SetSeq
  <2>2. Seq(new) \subseteq Seq(Pipes)
    OBVIOUS
  <2> QED
    BY <1>6, <2>1, <2>2, SetSeq
<1>8. new \cap Reaped(reap) = {}
  BY DEF CoreInv, ReapOK
<1>9. reap \in Reap /\ ListsOK(reap)
  BY DEF CoreInv, CoreTypes, ReapOK
<1>10. Core!ToReap(ps) = [reap EXCEPT !.pipes = Core!SetToSeq(new) \o @]
  BY DEF Core!ToReap, Core!Queued
<1> DEFINE s == Core!SetToSeq(new)
           r == [reap EXCEPT !.pipes = s \o @]
<1>11. /\ r \in Reap /\ ListsOK(r) /\ r.cur = reap.cur /\ r.step = reap.step
       /\ Reaped(r) = Reaped(reap) \cup new /\ r.eps = reap.eps
  <2> HIDE DEF s
  <2>1. s \in Seq(Pipes) /\ Once(s) /\ In(s) = new
    BY <1>7 DEF s
  <2> HIDE DEF new
  <2> QED
    BY <1>8, <1>9, <2>1, PipesToReap
<1>12. Core!ToReap(ps) = r
  BY <1>10
<1> HIDE DEF r
<1> QED
  BY <1>2, <1>4, <1>5, <1>11, <1>12 DEF q

-----------------------------------------------------------------------------
(* The threads that make and close endpoints.                              *)

(* A step of a thread that leaves pipes and reaper alone.                  *)
LEMMA RestKept ==
  ASSUME CoreInv, CoreAssumed, UNCHANGED <<pipe, cb, holder, reap>>,
         sock.failed => sock'.failed,
         \A e \in Eps : ep'[e] = ep[e]
           \/ /\ ep'[e].pipe = ep[e].pipe /\ (ep'[e].listed <=> ep[e].listed)
              /\ (ep'[e].alive <=> ep[e].alive) /\ (ep[e].stopped => ep'[e].stopped)
              /\ EpGiven(ep[e]) => EpGiven(ep'[e])
  PROVE  PipesOK' /\ ReapOK' /\ (NothingListed => NothingListed')
<1>1. \A p \in Pipes : MayClose(pipe'[p], pipe[p])
  BY DEF MayClose
<1>2. PipesOK'
  BY <1>1, PipesKept
<1>3. ReapOK'
  BY <1>1, ReapKept DEF CoreInv, ReapOK
<1> QED
  BY <1>2, <1>3 DEF NothingListed

(* A thread goes on and leaves its endpoint alone.                         *)
LEMMA DialGoesOn ==
  ASSUME CoreInv, CoreAssumed, NEW e \in Eps, NEW x \in User,
         user' = [user EXCEPT ![<<e, "dial">>] = x], x.sock = Dial(e).sock,
         UNCHANGED <<sock, ep, pipe, cb, reap, closer, holder>>,
         EpOK(e, ep[e], cb[e], x, Close(e), sock)
  PROVE  CoreInv'
<1>0. CoreTypes
  BY DEF CoreInv
<1>1. /\ user' \in [Core!Users -> User] /\ Dial(e)' = x /\ Close(e)' = Close(e)
      /\ \A f \in Eps \ {e} : Dial(f)' = Dial(f) /\ Close(f)' = Close(f)
  BY <1>0, UserMoves DEF Dial
<1>2. CoreTypes'
  BY <1>0, <1>1 DEF CoreTypes
<1>3. EpsOK'
  BY <1>1, OneEpMoves
<1>4. PipesOK' /\ ReapOK' /\ (NothingListed => NothingListed')
  BY RestKept
<1>5. SockOK'
  BY <1>1, <1>4, SockKept
<1> QED
  BY <1>2, <1>3, <1>4, <1>5 DEF CoreInv

(* A thread goes on with its endpoint; whether it is listed stays.         *)
LEMMA UserGoesOn ==
  ASSUME CoreInv, CoreAssumed, NEW e \in Eps, NEW d \in Endpoint, NEW x \in User, NEW w \in {"dial", "close"},
         user' = [user EXCEPT ![<<e, w>>] = x], x.sock = user[<<e, w>>].sock,
         ep' = [ep EXCEPT ![e] = d],
         UNCHANGED <<sock, pipe, cb, reap, closer, holder>>,
         d.pipe = ep[e].pipe, d.listed = ep[e].listed, d.alive = ep[e].alive,
         ep[e].stopped => d.stopped, EpGiven(ep[e]) => EpGiven(d),
         w = "dial" => EpOK(e, d, cb[e], x, Close(e), sock),
         w = "close" => EpOK(e, d, cb[e], Dial(e), x, sock)
  PROVE  CoreInv'
<1>0. CoreTypes
  BY DEF CoreInv
<1>1. /\ user' \in [Core!Users -> User] /\ user'[<<e, w>>] = x
      /\ w = "dial" => Close(e)' = Close(e)
      /\ w = "close" => Dial(e)' = Dial(e)
      /\ \A f \in Eps \ {e} : Dial(f)' = Dial(f) /\ Close(f)' = Close(f)
  BY <1>0, UserMoves
<1>2. ep' \in [Eps -> Endpoint] /\ ep'[e] = d /\ \A f \in Eps \ {e} : ep'[f] = ep[f]
  BY <1>0 DEF CoreTypes
<1>3. CoreTypes'
  BY <1>0, <1>1, <1>2 DEF CoreTypes
<1>4. EpsOK'
  <2>1. EpOK(e, ep'[e], cb'[e], Dial(e)', Close(e)', sock)
    BY <1>1, <1>2 DEF Dial, Close
  <2> QED
    BY <1>1, <1>2, <2>1, OneEpMoves
<1>5. PipesOK' /\ ReapOK' /\ (NothingListed => NothingListed')
  BY <1>2, RestKept
<1>6. \A f \in Eps : Dial(f)'.sock = Dial(f).sock
  BY <1>1 DEF Dial
<1>7. SockOK'
  BY <1>5, <1>6, SockKept
<1> QED
  BY <1>3, <1>4, <1>5, <1>7 DEF CoreInv

(* A thread of nng_dial that waited goes on, or closes its dialer.         *)
LEMMA DialerStartedKeeps ==
  ASSUME CoreInv, CoreAssumed, NEW e \in Eps, Core!DialerStarted(e) PROVE CoreInv'
<1> DEFINE x == [Dial(e) EXCEPT !.pc = IF ep[e].result = "ok" THEN "rele" ELSE "close"]
<1>1. Dial(e).pc = "wait" /\ ep[e].result # "none" /\ Dial(e) \in User /\ Close(e) \in User
  BY UserFacts DEF Core!DialerStarted, Core!Dial, Dial, CoreInv
<1>2. /\ x \in User /\ x.sock = Dial(e).sock
      /\ x.pc = (IF ep[e].result = "ok" THEN "rele" ELSE "close")
  BY <1>1 DEF User
<1>3. user' = [user EXCEPT ![<<e, "dial">>] = x]
  BY DEF Core!DialerStarted, Core!Dial, Dial
<1> HIDE DEF x
<1>4. EpOK(e, ep[e], cb[e], x, Close(e), sock)
  BY <1>1, <1>2, EpFacts
  DEF EpOK, Counted, Lives, Shuts, Tells, Works, Started, Kinds, Holds, One, Endpoint
<1> QED
  BY <1>2, <1>3, <1>4, DialGoesOn DEF Core!DialerStarted

(* nni_dialer_close under dialers_lk: the one that closes shuts down.      *)
LEMMA EpCloseKeeps ==
  ASSUME CoreInv, CoreAssumed, NEW e \in Eps, NEW w \in {"dial", "close"}, Core!EpClose(<<e, w>>) PROVE CoreInv'
<1> DEFINE u == user[<<e, w>>]
           d == [ep[e] EXCEPT !.closed = TRUE]
           x == [u EXCEPT !.pc = IF ep[e].closed THEN "rele" ELSE "shut"]
<1>1. u.pc = "close" /\ u \in User
  BY UserFacts DEF Core!EpClose, CoreInv, Dial, Close
<1>2. ep[e] \in Endpoint
  BY EpFacts
<1>3. user' = [user EXCEPT ![<<e, w>>] = x] /\ ep' = [ep EXCEPT ![e] = d]
  BY DEF Core!EpClose
<1>4. /\ x \in User /\ x.sock = u.sock /\ x.pc = (IF ep[e].closed THEN "rele" ELSE "shut")
  BY <1>1 DEF User
<1>5. /\ d \in Endpoint /\ d.closed /\ d.alive = ep[e].alive /\ d.listed = ep[e].listed
      /\ d.ref = ep[e].ref /\ d.closing = ep[e].closing /\ d.pipe = ep[e].pipe
      /\ d.con = ep[e].con /\ d.tmo = ep[e].tmo /\ d.stopped = ep[e].stopped
      /\ d.waiter = ep[e].waiter /\ d.result = ep[e].result
  BY <1>2 DEF Endpoint
<1>8. EpGiven(ep[e]) => EpGiven(d)
  BY <1>5 DEF EpGiven
<1>9. UNCHANGED <<sock, pipe, cb, reap, closer, holder>>
  BY DEF Core!EpClose
<1> HIDE DEF x, d, u
<1>6. CASE w = "dial"
  <2>1. EpOK(e, d, cb[e], x, Close(e), sock)
    BY <1>1, <1>2, <1>4, <1>5, <1>6, EpFacts, NoEpFacts
    DEF EpOK, Counted, Lives, Shuts, Tells, Works, Started, Kinds, Holds, One, Dial, u
  <2> QED
    BY <1>3, <1>4, <1>5, <1>6, <1>8, <1>9, <2>1, UserGoesOn DEF u
<1>7. CASE w = "close"
  <2>1. EpOK(e, d, cb[e], Dial(e), x, sock)
    BY <1>1, <1>2, <1>4, <1>5, <1>7, EpFacts, NoEpFacts
    DEF EpOK, Counted, Lives, Shuts, Tells, Works, Started, Kinds, Holds, One, Close, u
  <2> QED
    BY <1>3, <1>4, <1>5, <1>7, <1>8, <1>9, <2>1, UserGoesOn DEF u
<1> QED
  BY <1>6, <1>7

(* A step with one endpoint, which may close pipes and give what it closed *)
(* to the reaper.                                                          *)
LEMMA EpSteps ==
  ASSUME CoreInv, CoreAssumed, NEW e \in Eps, NEW d \in Endpoint,
         ep' = [ep EXCEPT ![e] = d], SameSock, UNCHANGED <<cb, closer, holder>>,
         user' \in [Core!Users -> User], Dial(e)'.sock = Dial(e).sock,
         \A f \in Eps \ {e} : Dial(f)' = Dial(f) /\ Close(f)' = Close(f),
         EpOK(e, d, cb[e], Dial(e)', Close(e)', sock'),
         d.pipe = ep[e].pipe, d.listed = ep[e].listed, d.alive = ep[e].alive,
         ep[e].stopped => d.stopped,
         pipe' \in [Pipes -> PipeRec], \A p \in Pipes : MayClose(pipe'[p], pipe[p]),
         reap' \in Reap, ListsOK(reap'), reap'.cur = reap.cur, reap'.step = reap.step,
         \A f \in Eps \ {e} : f \in Reaped(reap') => f \in Reaped(reap),
         e \in Reaped(reap') => EpGiven(d),
         \A p \in Pipes : p \in Reaped(reap') =>
           p \in Reaped(reap) \/ (pipe'[p].closed /\ pipe[p].live)
  PROVE  CoreInv'
<1>0. CoreTypes
  BY DEF CoreInv
<1>2. ep' \in [Eps -> Endpoint] /\ ep'[e] = d /\ \A f \in Eps \ {e} : ep'[f] = ep[f]
  BY <1>0 DEF CoreTypes
<1>3. CoreTypes'
  BY <1>0, <1>2 DEF CoreTypes, SameSock
<1>4. EpsOK'
  BY <1>2, EpChanges DEF SameSock
<1>5. /\ \A f \in Eps : /\ ep'[f].pipe = ep[f].pipe /\ ep'[f].listed = ep[f].listed
                        /\ ep'[f].alive = ep[f].alive /\ (ep[f].stopped => ep'[f].stopped)
      /\ \A f \in Eps : f \in Reaped(reap') => EpGiven(ep'[f])
  BY <1>2 DEF CoreInv, ReapOK
<1>6. PipesOK'
  BY <1>5, PipesKept
<1>7. ReapOK'
  BY <1>5, ReapKept DEF SameSock
<1>8. \A f \in Eps : Dial(f)'.sock = Dial(f).sock
  OBVIOUS
<1>9. NothingListed => NothingListed'
  <2>1. \A p \in Pipes : pipe'[p].listed = pipe[p].listed
    BY <1>0, MayCloseFacts DEF CoreTypes
  <2> QED
    BY <1>5, <2>1 DEF NothingListed
<1>10. SockOK'
  BY <1>8, <1>9, SockCounts
<1> QED
  BY <1>3, <1>4, <1>6, <1>7, <1>10 DEF CoreInv

LEMMA EpStep ==
  ASSUME CoreInv, CoreAssumed, NEW e \in Eps, NEW d \in Endpoint,
         ep' = [ep EXCEPT ![e] = d], UNCHANGED <<sock, cb, closer, holder>>,
         user' \in [Core!Users -> User], Dial(e)'.sock = Dial(e).sock,
         \A f \in Eps \ {e} : Dial(f)' = Dial(f) /\ Close(f)' = Close(f),
         EpOK(e, d, cb[e], Dial(e)', Close(e)', sock),
         d.pipe = ep[e].pipe, d.listed = ep[e].listed, d.alive = ep[e].alive,
         ep[e].stopped => d.stopped,
         pipe' \in [Pipes -> PipeRec], \A p \in Pipes : MayClose(pipe'[p], pipe[p]),
         reap' \in Reap, ListsOK(reap'), reap'.cur = reap.cur, reap'.step = reap.step,
         \A f \in Eps \ {e} : f \in Reaped(reap') => f \in Reaped(reap),
         e \in Reaped(reap') => EpGiven(d),
         \A p \in Pipes : p \in Reaped(reap') =>
           p \in Reaped(reap) \/ (pipe'[p].closed /\ pipe[p].live)
  PROVE  CoreInv'
<1>1. SameSock
  BY DEF CoreInv, CoreTypes, SameSock
<1> QED
  BY <1>1, EpSteps

(* ... and a step that leaves pipes and reaper alone.                      *)
LEMMA EpByItself ==
  ASSUME CoreInv, CoreAssumed, NEW e \in Eps, NEW d \in Endpoint,
         ep' = [ep EXCEPT ![e] = d], SameSock, UNCHANGED <<pipe, cb, reap, user, closer, holder>>,
         EpOK(e, d, cb[e], Dial(e), Close(e), sock'), SameLife(ep[e], d), d.closing = ep[e].closing,
         ep[e].stopped => d.stopped
  PROVE  CoreInv'
<1>1. user' \in [Core!Users -> User] /\ \A f \in Eps : Dial(f)' = Dial(f) /\ Close(f)' = Close(f)
  BY DEF CoreInv, CoreTypes, Dial, Close
<1>2. /\ pipe' \in [Pipes -> PipeRec] /\ \A p \in Pipes : MayClose(pipe'[p], pipe[p])
      /\ reap' \in Reap /\ ListsOK(reap') /\ reap'.cur = reap.cur /\ reap'.step = reap.step
      /\ \A x : x \in Reaped(reap') <=> x \in Reaped(reap)
      /\ e \in Reaped(reap) => EpGiven(ep[e])
  BY DEF CoreInv, CoreTypes, ReapOK, MayClose
<1>3. e \in Reaped(reap') => EpGiven(d)
  BY <1>2 DEF EpGiven, SameLife
<1> QED
  BY <1>1, <1>2, <1>3, EpSteps DEF SameLife

LEMMA EpAlone ==
  ASSUME CoreInv, CoreAssumed, NEW e \in Eps, NEW d \in Endpoint,
         ep' = [ep EXCEPT ![e] = d], UNCHANGED <<sock, pipe, cb, reap, user, closer, holder>>,
         EpOK(e, d, cb[e], Dial(e), Close(e), sock), SameLife(ep[e], d), d.closing = ep[e].closing,
         ep[e].stopped => d.stopped
  PROVE  CoreInv'
<1>1. SameSock
  BY DEF CoreInv, CoreTypes, SameSock
<1> QED
  BY <1>1, EpByItself

(* A dialer connects, a listener listens.                                  *)
LEMMA DialerStartKeeps ==
  ASSUME CoreInv, CoreAssumed, NEW e \in Eps, Core!DialerStart(e) PROVE CoreInv'
<1>1. /\ e \in Dialers /\ Dial(e).pc = "start" /\ Dial(e) \in User /\ Close(e) \in User
      /\ ep[e] \in Endpoint
  BY UserFacts, EpFacts DEF Core!DialerStart, Core!Dial, Dial, CoreInv
<1>2. PICK block \in BOOLEAN :
        /\ ep' = [ep EXCEPT ![e] = Core!Begun([@ EXCEPT !.waiter = block], "con")]
        /\ user' = [user EXCEPT ![<<e, "dial">>].pc = IF block THEN "wait" ELSE "rele"]
  BY DEF Core!DialerStart, Core!Dial, CoreAssumed
<1> DEFINE x == [Dial(e) EXCEPT !.pc = IF block THEN "wait" ELSE "rele"]
           c == [ep[e] EXCEPT !.waiter = block]
           d == Core!Begun(c, "con")
<1>3. user' = [user EXCEPT ![<<e, "dial">>] = x] /\ ep' = [ep EXCEPT ![e] = d]
  BY <1>2 DEF Dial
<1>4. /\ x \in User /\ x.sock = Dial(e).sock /\ x.pc = (IF block THEN "wait" ELSE "rele")
  BY <1>1 DEF User
<1>5. /\ c \in Endpoint /\ SameLife(ep[e], c) /\ c.waiter = block /\ c.closing = ep[e].closing
      /\ c.stopped = ep[e].stopped /\ c.con = ep[e].con /\ c.tmo = ep[e].tmo /\ c.result = ep[e].result
  BY <1>1 DEF Endpoint, SameLife
<1> HIDE DEF c, x
<1>6. /\ d \in Endpoint /\ SameLife(ep[e], d) /\ d.closing = ep[e].closing
      /\ d.stopped = ep[e].stopped /\ d.waiter = block /\ d.result = ep[e].result
      /\ d.stopped \/ d.con = "pending"
      /\ d.con = "closed" \/ d.tmo = "closed" => ep[e].con = "closed" \/ ep[e].tmo = "closed"
  BY <1>5, BegunFacts DEF SameLife
<1> HIDE DEF d
<1>7. EpOK(e, d, cb[e], x, Close(e), sock)
  <2>1. /\ Counted(ep[e], Dial(e), Close(e)) /\ Lives(ep[e], cb[e], Dial(e))
        /\ Shuts(ep[e], Dial(e), Close(e), sock) /\ Tells(ep[e], cb[e], Dial(e))
        /\ Kinds(e, ep[e], cb[e], Dial(e))
    BY EpFacts DEF EpOK
  <2>2. ep[e].listed /\ ep[e].result = "none" /\ ~ep[e].waiter /\ ~cb[e].waiter
    BY <1>1, <2>1 DEF Counted, Holds, Tells, Endpoint
  <2>3. Counted(d, x, Close(e)) /\ Lives(d, cb[e], x)
    BY <1>1, <1>4, <1>6, <2>1, <2>2 DEF Counted, Lives, Holds, One, SameLife
  <2>4. Shuts(d, x, Close(e), sock) /\ Tells(d, cb[e], x)
    BY <1>1, <1>4, <1>6, <2>1, <2>2 DEF Shuts, Tells, SameLife
  <2>5. Works(d, cb[e], x, sock) /\ Kinds(e, d, cb[e], x)
    BY <1>1, <1>4, <1>6, <2>1, <2>2 DEF Works, Started, Kinds, Shuts, SameLife
  <2> QED
    BY <2>3, <2>4, <2>5 DEF EpOK
<1>8. EpGiven(ep[e]) => EpGiven(d)
  BY <1>6 DEF EpGiven, SameLife
<1>9. UNCHANGED <<sock, pipe, cb, reap, closer, holder>>
  BY DEF Core!DialerStart
<1> QED
  BY <1>3, <1>4, <1>6, <1>7, <1>8, <1>9, UserGoesOn DEF SameLife, Dial

LEMMA ListenerStartKeeps ==
  ASSUME CoreInv, CoreAssumed, NEW e \in Eps, Core!ListenerStart(e) PROVE CoreInv'
<1>1. /\ e \notin Dialers /\ Dial(e).pc = "start" /\ Dial(e) \in User /\ Close(e) \in User
      /\ ep[e] \in Endpoint
  BY UserFacts, EpFacts DEF Core!ListenerStart, Core!Dial, Dial, CoreInv, CoreAssumed
<1>2. /\ Counted(ep[e], Dial(e), Close(e)) /\ Lives(ep[e], cb[e], Dial(e))
      /\ Shuts(ep[e], Dial(e), Close(e), sock) /\ Tells(ep[e], cb[e], Dial(e))
      /\ Works(ep[e], cb[e], Dial(e), sock) /\ Kinds(e, ep[e], cb[e], Dial(e))
  BY EpFacts DEF EpOK
<1>3. ep[e].listed /\ ep[e].result = "none" /\ ~ep[e].waiter /\ ~cb[e].waiter
  BY <1>1, <1>2 DEF Counted, Holds, Tells, Endpoint
<1>4. CASE /\ ep' = [ep EXCEPT ![e] = Core!Begun(@, "con")]
           /\ user' = [user EXCEPT ![<<e, "dial">>].pc = "rele"]
  <2> DEFINE x == [Dial(e) EXCEPT !.pc = "rele"]
             d == Core!Begun(ep[e], "con")
  <2>1. user' = [user EXCEPT ![<<e, "dial">>] = x] /\ ep' = [ep EXCEPT ![e] = d]
    BY <1>4 DEF Dial
  <2>2. x \in User /\ x.sock = Dial(e).sock /\ x.pc = "rele"
    BY <1>1 DEF User
  <2>3. /\ d \in Endpoint /\ SameLife(ep[e], d) /\ d.closing = ep[e].closing
        /\ d.stopped = ep[e].stopped /\ ~d.waiter /\ d.result = "none"
        /\ d.stopped \/ d.con = "pending"
        /\ d.con = "closed" \/ d.tmo = "closed" => ep[e].con = "closed" \/ ep[e].tmo = "closed"
    BY <1>1, <1>3, BegunFacts DEF SameLife
  <2> HIDE DEF d, x
  <2>4. EpOK(e, d, cb[e], x, Close(e), sock)
    <3>1. Counted(d, x, Close(e)) /\ Lives(d, cb[e], x)
      BY <1>1, <1>2, <1>3, <2>2, <2>3 DEF Counted, Lives, Holds, One, SameLife
    <3>2. Shuts(d, x, Close(e), sock) /\ Tells(d, cb[e], x)
      BY <1>1, <1>2, <1>3, <2>2, <2>3 DEF Shuts, Tells, SameLife
    <3>3. Works(d, cb[e], x, sock) /\ Kinds(e, d, cb[e], x)
      BY <1>1, <1>2, <1>3, <2>2, <2>3 DEF Works, Started, Kinds, Shuts, SameLife
    <3> QED
      BY <3>1, <3>2, <3>3 DEF EpOK
  <2>5. EpGiven(ep[e]) => EpGiven(d)
    BY <2>3 DEF EpGiven, SameLife
  <2>6. UNCHANGED <<sock, pipe, cb, reap, closer, holder>>
    BY DEF Core!ListenerStart
  <2> QED
    BY <2>1, <2>2, <2>3, <2>4, <2>5, <2>6, UserGoesOn DEF SameLife, Dial
<1>5. CASE user' = [user EXCEPT ![<<e, "dial">>].pc = "close"] /\ UNCHANGED ep
  <2> DEFINE x == [Dial(e) EXCEPT !.pc = "close"]
  <2>1. user' = [user EXCEPT ![<<e, "dial">>] = x]
    BY <1>5 DEF Dial
  <2>2. x \in User /\ x.sock = Dial(e).sock /\ x.pc = "close"
    BY <1>1 DEF User
  <2> HIDE DEF x
  <2>3. EpOK(e, ep[e], cb[e], x, Close(e), sock)
    BY <1>1, <1>2, <1>3, <2>2
    DEF EpOK, Counted, Lives, Shuts, Tells, Works, Started, Kinds, Holds, One
  <2> QED
    BY <1>5, <2>1, <2>2, <2>3, DialGoesOn DEF Core!ListenerStart
<1> QED
  BY <1>4, <1>5 DEF Core!ListenerStart, Core!Dial

(* nng_dialer_close finds the endpoint by its id.                          *)
LEMMA EpFindKeeps ==
  ASSUME CoreInv, CoreAssumed, NEW e \in Eps, Core!EpFind(<<e, "close">>) PROVE CoreInv'
<1>1. /\ Close(e).pc = "none" /\ Dial(e).pc \in {"rele", "srele", "end"} /\ Dial(e) \in User
      /\ Close(e) \in User /\ ep[e] \in Endpoint
  BY UserFacts, EpFacts DEF Core!EpFind, Core!Dial, Dial, Close, CoreInv
<1>2. /\ Counted(ep[e], Dial(e), Close(e)) /\ Lives(ep[e], cb[e], Dial(e))
      /\ Shuts(ep[e], Dial(e), Close(e), sock) /\ Tells(ep[e], cb[e], Dial(e))
      /\ Works(ep[e], cb[e], Dial(e), sock) /\ Kinds(e, ep[e], cb[e], Dial(e))
  BY EpFacts DEF EpOK
<1> DEFINE found == ep[e].alive /\ ~ep[e].closed
           d == [ep[e] EXCEPT !.ref = IF found THEN @ + 1 ELSE @]
           x == [Close(e) EXCEPT !.pc = IF found THEN "close" ELSE "end"]
<1>3. ep' = [ep EXCEPT ![e] = d] /\ user' = [user EXCEPT ![<<e, "close">>] = x]
      /\ UNCHANGED <<sock, pipe, cb, reap, closer, holder>>
  <2>1. ep \in [Eps -> Endpoint]
    BY DEF CoreInv, CoreTypes
  <2>2. CASE found
    BY <2>1, <2>2 DEF Core!EpFind, Close
  <2>3. CASE ~found
    <3>1. UNCHANGED <<ep, sock, pipe, cb, reap, closer, holder>> /\ user' = [user EXCEPT ![<<e, "close">>] = x]
      BY <2>3 DEF Core!EpFind, Close
    <3>2. d = ep[e]
      BY <1>1, <2>3 DEF Endpoint
    <3> HIDE DEF d, x, found
    <3> QED
      BY <2>1, <3>1, <3>2
  <2> QED
    BY <2>2, <2>3
<1>4. /\ d \in Endpoint /\ d.closed = ep[e].closed /\ d.alive = ep[e].alive /\ d.listed = ep[e].listed
      /\ d.ref = (IF found THEN ep[e].ref + 1 ELSE ep[e].ref)
      /\ d.closing = ep[e].closing /\ d.pipe = ep[e].pipe
      /\ d.con = ep[e].con /\ d.tmo = ep[e].tmo /\ d.stopped = ep[e].stopped
      /\ d.waiter = ep[e].waiter /\ d.result = ep[e].result
  BY <1>1 DEF Endpoint
<1>5. x \in User /\ x.sock = Close(e).sock /\ x.pc = (IF found THEN "close" ELSE "end")
  BY <1>1 DEF User
<1>6. found => ep[e].listed
  <2>1. SUFFICES ASSUME found, ~ep[e].listed PROVE FALSE
    OBVIOUS
  <2>2. Fined(e) /\ e \in Reaped(reap)
    BY <2>1 DEF CoreInv, ReapOK, Fined, Reaped, CoreAssumed
  <2> QED
    BY <2>1, <2>2 DEF CoreInv, ReapOK, EpGiven
<1>7. EpGiven(ep[e]) => EpGiven(d)
  BY <1>4 DEF EpGiven
<1>8. found <=> (ep[e].alive /\ ~ep[e].closed)
  OBVIOUS
<1> HIDE DEF d, x, found
<1>9. EpOK(e, d, cb[e], Dial(e), x, sock)
  <2>1. Dial(e).pc \notin {"find", "create"}
    BY <1>1
  <2>2. Counted(d, Dial(e), x) /\ Lives(d, cb[e], Dial(e))
    BY <1>1, <1>2, <1>4, <1>5, <1>6, <2>1 DEF Counted, Lives, Holds, One
  <2>3. Shuts(d, Dial(e), x, sock) /\ Tells(d, cb[e], Dial(e))
    BY <1>1, <1>2, <1>4, <1>5, <1>6 DEF Shuts, Tells
  <2>4. Works(d, cb[e], Dial(e), sock) /\ Kinds(e, d, cb[e], Dial(e))
    BY <1>2, <1>4 DEF Works, Started, Kinds
  <2> QED
    BY <2>2, <2>3, <2>4 DEF EpOK
<1> QED
  BY <1>3, <1>4, <1>5, <1>7, <1>9, UserGoesOn DEF Close

(* The pipes of an endpoint live.                                          *)
LEMMA PipesOfLive ==
  ASSUME CoreInv, NEW e
  PROVE  Core!PipesOf(e) \in SUBSET Pipes /\ \A p \in Core!PipesOf(e) : pipe[p].live
  BY DEF Core!PipesOf, CoreInv, PipesOK, PipeOK

(* Who closed an endpoint has shut it down.                                *)
LEMMA ShutEnds ==
  ASSUME NEW e, NEW d \in Endpoint, NEW k \in Adding, NEW u \in User, NEW v \in User, NEW s \in Sock,
         EpOK(e, d, k, u, v, s), d.closing, NEW x \in User, x.pc = "rele"
  PROVE  /\ u.pc = "shut" /\ x.sock = u.sock => EpOK(e, d, k, x, v, s)
         /\ v.pc = "shut" /\ x.sock = v.sock => EpOK(e, d, k, u, x, s)
<1>1. /\ Counted(d, u, v) /\ Lives(d, k, u) /\ Shuts(d, u, v, s) /\ Tells(d, k, u)
      /\ Works(d, k, u, s) /\ Kinds(e, d, k, u)
  BY DEF EpOK
<1>2. ASSUME u.pc = "shut", x.sock = u.sock PROVE EpOK(e, d, k, x, v, s)
  <2>1. Counted(d, x, v) /\ Lives(d, k, x)
    BY <1>1, <1>2 DEF Counted, Lives, Holds, One
  <2>2. Shuts(d, x, v, s) /\ Tells(d, k, x) /\ Works(d, k, x, s) /\ Kinds(e, d, k, x)
    BY <1>1, <1>2 DEF Shuts, Tells, Works, Started, Kinds
  <2> QED
    BY <2>1, <2>2 DEF EpOK
<1>3. ASSUME v.pc = "shut", x.sock = v.sock PROVE EpOK(e, d, k, u, x, s)
  <2>1. Counted(d, u, x)
    BY <1>1, <1>3 DEF Counted, Holds, One
  <2>2. Shuts(d, u, x, s)
    BY <1>1, <1>3 DEF Shuts
  <2> QED
    BY <1>1, <2>1, <2>2 DEF EpOK
<1> QED
  BY <1>2, <1>3

(* An endpoint is shut down with its pipes.                                *)
LEMMA EpShutdownKeeps ==
  ASSUME CoreInv, CoreAssumed, NEW e \in Eps, NEW w \in {"dial", "close"}, Core!EpShutdown(<<e, w>>)
  PROVE  CoreInv'
<1> DEFINE u == user[<<e, w>>]
           x == [u EXCEPT !.pc = "rele"]
           d == IF ep[e].closing THEN ep[e] ELSE Core!Stopped([ep[e] EXCEPT !.closing = TRUE])
           ps == IF ep[e].closing THEN {} ELSE Core!PipesOf(e)
<1>0. CoreTypes
  BY DEF CoreInv
<1>1. u.pc = "shut" /\ u \in User /\ Dial(e) \in User /\ Close(e) \in User /\ ep[e] \in Endpoint
  BY <1>0, UserFacts, EpFacts DEF Core!EpShutdown, Dial, Close
<1>2. x \in User /\ x.sock = u.sock /\ x.pc = "rele"
  BY <1>1 DEF User
<1>3. user' = [user EXCEPT ![<<e, w>>] = x] /\ UNCHANGED <<sock, cb, closer, holder>>
  BY DEF Core!EpShutdown
<1>4. EpOK(e, ep[e], cb[e], Dial(e), Close(e), sock) /\ ep[e].listed
  <2>1. EpOK(e, ep[e], cb[e], Dial(e), Close(e), sock)
    BY EpFacts
  <2>2. Holds(u)
    BY <1>1 DEF Holds
  <2> QED
    BY <2>1, <2>2 DEF EpOK, Counted, Dial, Close
<1>5. /\ d \in Endpoint /\ d.pipe = ep[e].pipe /\ d.listed = ep[e].listed
      /\ d.alive = ep[e].alive /\ d.closed = ep[e].closed /\ d.ref = ep[e].ref
      /\ (ep[e].stopped => d.stopped) /\ d.closing
      /\ EpOK(e, d, cb[e], Dial(e), Close(e), sock)
  <2>1. CASE ep[e].closing
    BY <1>1, <1>4, <2>1
  <2>2. CASE ~ep[e].closing
    <3> DEFINE y == Core!Stopped([ep[e] EXCEPT !.closing = TRUE])
    <3>1. /\ y \in Endpoint /\ SameLife(ep[e], y) /\ y.closing /\ y.stopped
          /\ EpOK(e, y, cb[e], Dial(e), Close(e), sock)
      BY <1>1, <1>4, EpFacts, EpShut
    <3>2. d = y
      BY <2>2
    <3> HIDE DEF y, d
    <3> QED
      BY <3>1, <3>2 DEF SameLife
  <2> QED
    BY <2>1, <2>2
<1>6. /\ ep' = [ep EXCEPT ![e] = d]
      /\ pipe' \in [Pipes -> PipeRec] /\ \A p \in Pipes : MayClose(pipe'[p], pipe[p])
      /\ reap' \in Reap /\ ListsOK(reap') /\ reap'.cur = reap.cur /\ reap'.step = reap.step
      /\ \A f \in Eps : f \in Reaped(reap') => f \in Reaped(reap)
      /\ \A p \in Pipes : p \in Reaped(reap') =>
           p \in Reaped(reap) \/ (pipe'[p].closed /\ pipe[p].live)
  <2>1. CASE ep[e].closing
    <3>1. UNCHANGED <<ep, pipe, reap>>
      BY <2>1 DEF Core!EpShutdown
    <3> QED
      BY <1>0, <2>1, <3>1 DEF CoreTypes, MayClose, CoreInv, ReapOK
  <2>2. CASE ~ep[e].closing
    <3>1. /\ ep' = [ep EXCEPT ![e] = d] /\ pipe' = Core!PipesClosed(Core!PipesOf(e))
          /\ reap' = Core!ToReap(Core!PipesOf(e))
      BY <2>2 DEF Core!EpShutdown
    <3> HIDE DEF d
    <3> QED
      BY <3>1, PipesOfLive, ClosePipes DEF CoreAssumed
  <2> QED
    BY <2>1, <2>2
<1> HIDE DEF d, x, u
<1>7. /\ user' \in [Core!Users -> User] /\ user'[<<e, w>>] = x
      /\ w = "dial" => Close(e)' = Close(e)
      /\ w = "close" => Dial(e)' = Dial(e)
      /\ \A f \in Eps \ {e} : Dial(f)' = Dial(f) /\ Close(f)' = Close(f)
  BY <1>0, <1>2, <1>3, UserMoves
<1>8. EpOK(e, d, cb[e], Dial(e)', Close(e)', sock) /\ Dial(e)'.sock = Dial(e).sock
  <2>1. CASE w = "dial"
    BY <1>1, <1>2, <1>5, <1>7, <2>1, EpFacts, ShutEnds DEF Dial, u
  <2>2. CASE w = "close"
    BY <1>1, <1>2, <1>5, <1>7, <2>2, EpFacts, ShutEnds DEF Close, u
  <2> QED
    BY <2>1, <2>2
<1>9. e \in Reaped(reap') => EpGiven(d)
  <2>1. e \in Reaped(reap') => EpGiven(ep[e])
    BY <1>6 DEF CoreInv, ReapOK
  <2> QED
    BY <1>5, <2>1 DEF EpGiven
<1> QED
  BY <1>3, <1>5, <1>6, <1>7, <1>8, <1>9, EpStep

(* The reference to the endpoint is given back; the last one of a closed   *)
(* endpoint gives it to the reaper.                                        *)
LEMMA HeldEnds ==
  ASSUME NEW e, NEW d \in Endpoint, NEW c \in Endpoint, NEW k \in Adding, NEW u \in User,
         NEW v \in User, NEW s \in Sock, EpOK(e, d, k, u, v, s), NEW x \in User, SameLife(d, [c EXCEPT !.ref = d.ref]),
         c.ref = d.ref - 1, c.con = d.con, c.tmo = d.tmo, c.closing = d.closing, c.stopped = d.stopped,
         c.waiter = d.waiter, c.result = d.result
  PROVE  /\ u.pc = "rele" /\ x.sock = u.sock /\ x.pc = "srele" => EpOK(e, c, k, x, v, s)
         /\ v.pc = "rele" /\ x.sock = v.sock /\ x.pc = "end" => EpOK(e, c, k, u, x, s)
<1>1. /\ Counted(d, u, v) /\ Lives(d, k, u) /\ Shuts(d, u, v, s) /\ Tells(d, k, u)
      /\ Works(d, k, u, s) /\ Kinds(e, d, k, u)
  BY DEF EpOK
<1>2. /\ c.alive = d.alive /\ c.listed = d.listed /\ c.closed = d.closed /\ c.pipe = d.pipe
  BY DEF SameLife, Endpoint
<1>3. ASSUME u.pc = "rele", x.sock = u.sock, x.pc = "srele" PROVE EpOK(e, c, k, x, v, s)
  <2>1. Counted(c, x, v) /\ Lives(c, k, x)
    BY <1>1, <1>2, <1>3 DEF Counted, Lives, Holds, One
  <2>2. Shuts(c, x, v, s) /\ Tells(c, k, x) /\ Works(c, k, x, s) /\ Kinds(e, c, k, x)
    BY <1>1, <1>2, <1>3 DEF Shuts, Tells, Works, Started, Kinds
  <2> QED
    BY <2>1, <2>2 DEF EpOK
<1>4. ASSUME v.pc = "rele", x.sock = v.sock, x.pc = "end" PROVE EpOK(e, c, k, u, x, s)
  <2>1. Counted(c, u, x) /\ Lives(c, k, u)
    BY <1>1, <1>2, <1>4 DEF Counted, Lives, Holds, One
  <2>2. Shuts(c, u, x, s) /\ Tells(c, k, u) /\ Works(c, k, u, s) /\ Kinds(e, c, k, u)
    BY <1>1, <1>2, <1>4 DEF Shuts, Tells, Works, Started, Kinds
  <2> QED
    BY <2>1, <2>2 DEF EpOK
<1> QED
  BY <1>3, <1>4

(* The last one that holds a closed endpoint gives it to the reaper.       *)
LEMMA EpReleKeeps ==
  ASSUME CoreInv, CoreAssumed, NEW e \in Eps, NEW w \in {"dial", "close"}, Core!EpRele(<<e, w>>)
  PROVE  CoreInv'
<1> DEFINE u == user[<<e, w>>]
           x == [u EXCEPT !.pc = IF u.sock THEN "srele" ELSE "end"]
           d == Core!Reled(ep[e])
<1>0. CoreTypes
  BY DEF CoreInv
<1>1. u.pc = "rele" /\ u \in User /\ Dial(e) \in User /\ Close(e) \in User /\ ep[e] \in Endpoint
  BY <1>0, UserFacts, EpFacts DEF Core!EpRele, Dial, Close
<1>2. x \in User /\ x.sock = u.sock /\ x.pc = (IF u.sock THEN "srele" ELSE "end")
  BY <1>1 DEF User
<1>3. /\ user' = [user EXCEPT ![<<e, w>>] = x] /\ ep' = [ep EXCEPT ![e] = d]
      /\ reap' = Core!RepFor(e, ep'[e], reap) /\ UNCHANGED <<sock, pipe, cb, closer, holder>>
  BY DEF Core!EpRele
<1>4. /\ d \in Endpoint /\ d.ref = ep[e].ref - 1 /\ d.pipe = ep[e].pipe /\ d.listed = ep[e].listed
      /\ d.alive = ep[e].alive /\ d.closed = ep[e].closed /\ d.closing = ep[e].closing
      /\ d.con = ep[e].con /\ d.tmo = ep[e].tmo /\ d.stopped = ep[e].stopped
      /\ d.waiter = ep[e].waiter /\ d.result = ep[e].result
      /\ SameLife(ep[e], [d EXCEPT !.ref = ep[e].ref])
  BY <1>1 DEF Core!Reled, Endpoint, SameLife
<1>5. EpOK(e, ep[e], cb[e], Dial(e), Close(e), sock) /\ cb[e] \in Adding /\ sock \in Sock
  BY EpFacts
<1>6. ep[e].listed /\ ep[e].alive /\ ep[e].ref # 0
  <2>1. Holds(u)
    BY <1>1 DEF Holds
  <2> QED
    BY <1>5, <2>1 DEF EpOK, Counted, Lives, One, Dial, Close
<1> HIDE DEF d, x, u
<1>7. ep'[e] = d
  BY <1>0, <1>3 DEF CoreTypes
<1>8. /\ user' \in [Core!Users -> User] /\ user'[<<e, w>>] = x
      /\ w = "dial" => Close(e)' = Close(e)
      /\ w = "close" => Dial(e)' = Dial(e)
      /\ \A f \in Eps \ {e} : Dial(f)' = Dial(f) /\ Close(f)' = Close(f)
  BY <1>0, <1>2, <1>3, UserMoves
<1>9. EpOK(e, d, cb[e], Dial(e)', Close(e)', sock) /\ Dial(e)'.sock = Dial(e).sock
  <2>1. CASE w = "dial"
    <3>1. u = Dial(e) /\ u.sock /\ Dial(e)' = x
      BY <1>1, <1>5, <1>8, <2>1 DEF EpOK, Counted, Dial, u
    <3>2. Dial(e).pc = "rele" /\ x.sock = Dial(e).sock /\ x.pc = "srele"
      BY <1>1, <1>2, <3>1
    <3>3. EpOK(e, d, cb[e], x, Close(e), sock)
      BY <1>1, <1>2, <1>4, <1>5, <3>2, HeldEnds
    <3>4. Close(e)' = Close(e)
      BY <1>8, <2>1
    <3> QED
      BY <3>1, <3>2, <3>3, <3>4
  <2>2. CASE w = "close"
    <3>1. u = Close(e) /\ ~u.sock /\ Close(e)' = x
      BY <1>1, <1>5, <1>8, <2>2 DEF EpOK, Counted, Close, u
    <3>2. Close(e).pc = "rele" /\ x.sock = Close(e).sock /\ x.pc = "end"
      BY <1>1, <1>2, <3>1
    <3>3. EpOK(e, d, cb[e], Dial(e), x, sock)
      BY <1>1, <1>2, <1>4, <1>5, <3>2, HeldEnds
    <3>4. Dial(e)' = Dial(e)
      BY <1>8, <2>2
    <3> QED
      BY <3>1, <3>3, <3>4
  <2> QED
    BY <2>1, <2>2
<1>10. e \notin Reaped(reap)
  BY <1>6 DEF CoreInv, ReapOK, EpGiven
<1>11. d.closed => d.closing \/ d.ref # 0
  BY <1>1, <1>4, <1>5 DEF EpOK, Shuts, Counted, Holds, One, Dial, Close, u
<1>12. /\ reap' \in Reap /\ ListsOK(reap') /\ reap'.cur = reap.cur /\ reap'.step = reap.step
       /\ \A f \in Eps \ {e} : f \in Reaped(reap') => f \in Reaped(reap)
       /\ e \in Reaped(reap') => EpGiven(d)
       /\ \A p \in Pipes : p \in Reaped(reap') => p \in Reaped(reap)
  <2>1. reap \in Reap /\ ListsOK(reap)
    BY DEF CoreInv, CoreTypes, ReapOK
  <2>2. CASE d.ref = 0 /\ d.closed
    <3>1. reap' = [reap EXCEPT !.eps = <<e>> \o @]
      BY <1>3, <1>7, <2>2 DEF Core!RepFor
    <3>2. <<e>> \in Seq(Eps) /\ In(<<e>>) = {e} /\ Once(<<e>>) /\ In(<<e>>) \cap Reaped(reap) = {}
      BY <1>10, OneSeq
    <3> DEFINE s == <<e>>
    <3> HIDE DEF s
    <3>3. /\ reap' \in Reap /\ ListsOK(reap') /\ reap'.cur = reap.cur /\ reap'.step = reap.step
          /\ Reaped(reap') = Reaped(reap) \cup {e}
      BY <2>1, <3>1, <3>2, EpsToReap DEF s
    <3> QED
      BY <1>4, <1>6, <1>11, <2>2, <3>3 DEF EpGiven, CoreAssumed
  <2>3. CASE ~(d.ref = 0 /\ d.closed)
    BY <1>3, <1>7, <1>10, <2>1, <2>3 DEF Core!RepFor
  <2> QED
    BY <2>2, <2>3
<1>13. pipe' \in [Pipes -> PipeRec] /\ \A p \in Pipes : MayClose(pipe'[p], pipe[p])
  BY <1>0, <1>3 DEF CoreTypes, MayClose
<1> QED
  BY <1>3, <1>4, <1>8, <1>9, <1>12, <1>13, EpStep

-----------------------------------------------------------------------------
(* The socket counts who found it.                                         *)

(* A thread of nng_dial finds the socket, or gives it back; its endpoint is *)
(* not there, or not its business any more.                                *)
LEMMA CallerMoves ==
  ASSUME CoreInv, CoreAssumed, NEW e \in Eps, NEW x \in User,
         user' = [user EXCEPT ![<<e, "dial">>] = x],
         UNCHANGED <<ep, pipe, cb, reap, closer, holder>>,
         EpOK(e, ep[e], cb[e], x, Close(e), sock),
         sock' \in Sock, sock'.closing = sock.closing, sock'.closed = sock.closed,
         sock'.node = sock.node, sock'.gone = sock.gone, sock'.failed = sock.failed,
         ~sock.gone, x.sock # Dial(e).sock,
         sock'.ref = IF x.sock THEN sock.ref + 1 ELSE sock.ref - 1
  PROVE  CoreInv'
<1>0. CoreTypes
  BY DEF CoreInv
<1>1. /\ user' \in [Core!Users -> User] /\ Dial(e)' = x /\ Close(e)' = Close(e)
      /\ \A f \in Eps \ {e} : Dial(f)' = Dial(f) /\ Close(f)' = Close(f)
  BY <1>0, UserMoves DEF Dial
<1>2. CoreTypes'
  BY <1>0, <1>1 DEF CoreTypes
<1>3. EpsOK'
  BY <1>1, OneEpMoves
<1>4. PipesOK' /\ ReapOK' /\ (NothingListed => NothingListed')
  BY RestKept
<1>5. SockOK'
  <2>1. Dial(e) \in User /\ IsFiniteSet(Callers) /\ Closings' = Closings
    BY <1>0, UserFacts DEF CoreInv, SockOK, Closings
  <2>2. Callers' = IF x.sock THEN Callers \cup {e} ELSE Callers \ {e}
    BY <1>1 DEF Callers, Dial
  <2>3. e \in Callers <=> ~x.sock
    BY <2>1 DEF Callers, Dial, User
  <2>4. /\ IsFiniteSet(Callers') /\ Cardinality(Callers) \in Nat
        /\ Cardinality(Callers') = Cardinality(Callers) + (IF x.sock THEN 1 ELSE -1)
    <3>1. CASE x.sock
      BY <2>1, <2>2, <2>3, <3>1, FS_AddElement, FS_CardinalityType
    <3>2. CASE ~x.sock
      BY <2>1, <2>2, <2>3, <3>2, FS_RemoveElement, FS_CardinalityType
    <3> QED
      BY <3>1, <3>2
  <2>5. Cardinality(Closings) \in Nat
    BY FS_CardinalityType DEF CoreInv, SockOK
  <2>6. /\ IsFiniteSet(Callers') /\ IsFiniteSet(Closings')
        /\ sock'.ref = Cardinality(Callers') + Cardinality(Closings') + One(sock'.gone)
    BY <2>1, <2>4, <2>5 DEF CoreInv, SockOK, One
  <2>7. sock.closing => NothingListed' \/ \E c \in Closers : closer[c] \in {"insist", "drain"}
    BY <1>4 DEF CoreInv, SockOK
  <2> QED
    BY <2>6, <2>7 DEF CoreInv, SockOK
<1> QED
  BY <1>2, <1>3, <1>4, <1>5 DEF CoreInv

(* A thread takes and returns its reference to the socket.                 *)
LEMMA SockFindKeeps ==
  ASSUME CoreInv, CoreAssumed, NEW e \in Eps, Core!SockFind(e) PROVE CoreInv'
<1>0. CoreTypes
  BY DEF CoreInv
<1>1. /\ Dial(e).pc = "find" /\ Dial(e) \in User /\ Close(e) \in User /\ ep[e] \in Endpoint
      /\ EpOK(e, ep[e], cb[e], Dial(e), Close(e), sock)
  BY <1>0, UserFacts, EpFacts DEF Core!SockFind, Core!Dial, Dial
<1>2. ~Dial(e).sock /\ ep[e] = Core!NoEp /\ Close(e).pc = "none" /\ ~ep[e].listed
  BY <1>1, NoEpFacts DEF EpOK, Counted, Lives
<1>3. UNCHANGED <<ep, pipe, cb, reap, closer, holder>>
  BY DEF Core!SockFind
<1>4. ASSUME NEW x \in User, (x.pc = "end" /\ ~x.sock) \/ (x.pc = "create" /\ x.sock)
      PROVE  EpOK(e, ep[e], cb[e], x, Close(e), sock)
  <2>1. Counted(ep[e], x, Close(e)) /\ Lives(ep[e], cb[e], x)
    BY <1>1, <1>2, <1>4 DEF EpOK, Counted, Lives, Holds, One
  <2>2. Shuts(ep[e], x, Close(e), sock) /\ Tells(ep[e], cb[e], x)
    BY <1>1, <1>2, <1>4, NoEpFacts DEF EpOK, Shuts, Tells
  <2>3. Works(ep[e], cb[e], x, sock) /\ Kinds(e, ep[e], cb[e], x)
    BY <1>1, <1>2, <1>4, NoEpFacts DEF EpOK, Works, Started, Kinds
  <2> QED
    BY <2>1, <2>2, <2>3 DEF EpOK
<1>5. CASE sock.closed
  <2> DEFINE x == [Dial(e) EXCEPT !.pc = "end"]
  <2>1. /\ user' = [user EXCEPT ![<<e, "dial">>] = x] /\ sock' = sock
        /\ x \in User /\ x.sock = Dial(e).sock /\ ~x.sock /\ x.pc = "end"
    BY <1>1, <1>2, <1>5 DEF Core!SockFind, Core!Dial, Dial, User
  <2> HIDE DEF x
  <2>2. EpOK(e, ep[e], cb[e], x, Close(e), sock)
    BY <1>2, <1>4, <2>1
  <2> QED
    BY <1>3, <2>1, <2>2, DialGoesOn
<1>6. CASE ~sock.closed
  <2> DEFINE x == [pc |-> "create", sock |-> TRUE]
  <2>1. /\ user' = [user EXCEPT ![<<e, "dial">>] = x] /\ sock' = [sock EXCEPT !.ref = @ + 1]
        /\ x \in User /\ x.sock /\ x.pc = "create"
    BY <1>6 DEF Core!SockFind, Core!Dial, User
  <2>2. /\ sock' \in Sock /\ sock'.closing = sock.closing /\ sock'.closed = sock.closed
        /\ sock'.node = sock.node /\ sock'.gone = sock.gone /\ sock'.ref = sock.ref + 1
        /\ sock'.failed = sock.failed
    BY <1>0, <2>1 DEF CoreTypes, Sock
  <2>3. ~sock.gone
    BY <1>6 DEF CoreInv, SockOK
  <2> HIDE DEF x
  <2>4. EpOK(e, ep[e], cb[e], x, Close(e), sock)
    BY <1>4, <2>1
  <2> QED
    BY <1>2, <1>3, <2>1, <2>2, <2>3, <2>4, CallerMoves
<1> QED
  BY <1>5, <1>6

LEMMA SockReleKeeps ==
  ASSUME CoreInv, CoreAssumed, NEW e \in Eps, Core!SockRele(e) PROVE CoreInv'
<1>0. CoreTypes
  BY DEF CoreInv
<1>1. /\ Dial(e).pc = "srele" /\ Dial(e) \in User /\ Close(e) \in User /\ ep[e] \in Endpoint
      /\ EpOK(e, ep[e], cb[e], Dial(e), Close(e), sock)
  BY <1>0, UserFacts, EpFacts DEF Core!SockRele, Core!Dial, Dial
<1>2. Dial(e).sock
  BY <1>1 DEF EpOK, Counted
<1> DEFINE x == [pc |-> "end", sock |-> FALSE]
<1>3. /\ user' = [user EXCEPT ![<<e, "dial">>] = x] /\ sock' = [sock EXCEPT !.ref = @ - 1]
      /\ x \in User /\ ~x.sock /\ x.pc = "end"
      /\ UNCHANGED <<ep, pipe, cb, reap, closer, holder>>
  BY DEF Core!SockRele, Core!Dial, User
<1>4. /\ sock' \in Sock /\ sock'.closing = sock.closing /\ sock'.closed = sock.closed
      /\ sock'.node = sock.node /\ sock'.gone = sock.gone /\ sock'.ref = sock.ref - 1
      /\ sock'.failed = sock.failed
  BY <1>0, <1>3 DEF CoreTypes, Sock
<1>5. ~sock.gone
  BY <1>2 DEF CoreInv, SockOK, Callers, Dial
<1> HIDE DEF x
<1>6. EpOK(e, ep[e], cb[e], x, Close(e), sock)
  <2>1. Counted(ep[e], x, Close(e)) /\ Lives(ep[e], cb[e], x)
    BY <1>1, <1>3 DEF EpOK, Counted, Lives, Holds, One
  <2>2. Shuts(ep[e], x, Close(e), sock) /\ Tells(ep[e], cb[e], x)
    BY <1>1, <1>3 DEF EpOK, Shuts, Tells
  <2>3. Works(ep[e], cb[e], x, sock) /\ Kinds(e, ep[e], cb[e], x)
    BY <1>1, <1>3 DEF EpOK, Works, Started, Kinds
  <2> QED
    BY <2>1, <2>2, <2>3 DEF EpOK
<1> QED
  BY <1>2, <1>3, <1>4, <1>5, <1>6, CallerMoves

(* An endpoint is made, unless the socket is closing.                      *)
LEMMA CreateKeeps ==
  ASSUME CoreInv, CoreAssumed, NEW e \in Eps, Core!Create(e) PROVE CoreInv'
<1>0. CoreTypes
  BY DEF CoreInv
<1>1. /\ Dial(e).pc = "create" /\ Dial(e) \in User /\ Close(e) \in User /\ ep[e] \in Endpoint
      /\ EpOK(e, ep[e], cb[e], Dial(e), Close(e), sock)
  BY <1>0, UserFacts, EpFacts DEF Core!Create, Core!Dial, Dial
<1>2. /\ Dial(e).sock /\ ep[e] = Core!NoEp /\ Close(e).pc = "none" /\ ~ep[e].listed
      /\ ~ep[e].alive /\ cb[e] = Core!NoCb
  BY <1>1, NoEpFacts DEF EpOK, Counted, Lives
<1>3. UNCHANGED <<sock, pipe, cb, reap, closer, holder>>
  BY DEF Core!Create
<1>4. CASE sock.closing
  <2> DEFINE x == [Dial(e) EXCEPT !.pc = "srele"]
  <2>1. /\ user' = [user EXCEPT ![<<e, "dial">>] = x] /\ ep' = ep
        /\ x \in User /\ x.sock = Dial(e).sock /\ x.pc = "srele"
    BY <1>1, <1>4 DEF Core!Create, Core!Dial, Dial, User
  <2> HIDE DEF x
  <2>2. Counted(ep[e], x, Close(e)) /\ Lives(ep[e], cb[e], x)
    BY <1>1, <1>2, <2>1 DEF EpOK, Counted, Lives, Holds, One
  <2>3. Shuts(ep[e], x, Close(e), sock) /\ Tells(ep[e], cb[e], x)
    BY <1>1, <1>2, <2>1, NoEpFacts DEF EpOK, Shuts, Tells
  <2>4. Works(ep[e], cb[e], x, sock) /\ Kinds(e, ep[e], cb[e], x)
    BY <1>1, <1>2, <2>1, NoEpFacts DEF EpOK, Works, Started, Kinds
  <2>5. EpOK(e, ep[e], cb[e], x, Close(e), sock)
    BY <2>2, <2>3, <2>4 DEF EpOK
  <2> QED
    BY <1>3, <2>1, <2>5, DialGoesOn
<1>5. CASE ~sock.closing
  <2> DEFINE x == [Dial(e) EXCEPT !.pc = "start"]
             d == [Core!NoEp EXCEPT !.alive = TRUE, !.listed = TRUE, !.ref = 1]
  <2>1. /\ user' = [user EXCEPT ![<<e, "dial">>] = x] /\ ep' = [ep EXCEPT ![e] = d]
        /\ x \in User /\ x.sock = Dial(e).sock /\ x.pc = "start"
    BY <1>1, <1>5 DEF Core!Create, Core!Dial, Dial, User
  <2>2. /\ d \in Endpoint /\ d.alive /\ d.listed /\ d.ref = 1 /\ ~d.closed /\ ~d.closing
        /\ d.pipe = None /\ d.con = "idle" /\ d.tmo = "idle" /\ ~d.stopped /\ ~d.waiter
        /\ d.result = "none"
    <3> DEFINE a == [Core!NoEp EXCEPT !.alive = TRUE]
               b == [a EXCEPT !.listed = TRUE]
    <3>1. /\ a \in Endpoint /\ a.alive /\ ~a.listed /\ a.ref = 0 /\ ~a.closed /\ ~a.closing
          /\ a.pipe = None /\ a.con = "idle" /\ a.tmo = "idle" /\ ~a.stopped /\ ~a.waiter
          /\ a.result = "none"
      BY NoEpFacts DEF Endpoint
    <3> HIDE DEF a
    <3>2. /\ b \in Endpoint /\ b.alive /\ b.listed /\ b.ref = 0 /\ ~b.closed /\ ~b.closing
          /\ b.pipe = None /\ b.con = "idle" /\ b.tmo = "idle" /\ ~b.stopped /\ ~b.waiter
          /\ b.result = "none"
      BY <3>1 DEF Endpoint
    <3>3. d = [b EXCEPT !.ref = 1]
      BY DEF a
    <3> HIDE DEF b, d
    <3> QED
      BY <3>2, <3>3 DEF Endpoint
  <2> HIDE DEF x, d
  <2>3. EpOK(e, d, cb[e], x, Close(e), sock)
    <3>1. Counted(d, x, Close(e)) /\ Lives(d, cb[e], x)
      BY <1>1, <1>2, <2>1, <2>2, NoCbFacts DEF EpOK, Counted, Lives, Holds, One
    <3>2. Shuts(d, x, Close(e), sock) /\ Tells(d, cb[e], x)
      BY <1>2, <1>5, <2>1, <2>2, NoCbFacts DEF EpOK, Shuts, Tells
    <3>3. Works(d, cb[e], x, sock) /\ Kinds(e, d, cb[e], x)
      BY <1>2, <2>1, <2>2, NoCbFacts DEF EpOK, Works, Started, Kinds
    <3> QED
      BY <3>1, <3>2, <3>3 DEF EpOK
  <2>4. /\ user' \in [Core!Users -> User] /\ Dial(e)' = x /\ Close(e)' = Close(e)
        /\ \A f \in Eps \ {e} : Dial(f)' = Dial(f) /\ Close(f)' = Close(f)
    BY <1>0, <2>1, UserMoves DEF Dial
  <2>5. ep' \in [Eps -> Endpoint] /\ ep'[e] = d /\ \A f \in Eps \ {e} : ep'[f] = ep[f]
    BY <1>0, <2>1, <2>2 DEF CoreTypes
  <2>6. CoreTypes'
    BY <1>0, <1>3, <2>4, <2>5 DEF CoreTypes
  <2>7. EpsOK'
    BY <1>3, <2>3, <2>4, <2>5, OneEpMoves
  <2>8. \A p \in Pipes : MayClose(pipe'[p], pipe[p])
    BY <1>3 DEF MayClose
  <2>9. PipesOK'
    BY <1>2, <1>3, <2>2, <2>5, <2>8, PipesKept
  <2>10. ReapOK'
    <3>1. e \notin Reaped(reap)
      BY <1>2 DEF CoreInv, ReapOK, EpGiven
    <3>2. \A f \in Eps : f \in Reaped(reap') => EpGiven(ep'[f])
      BY <1>3, <2>5, <3>1 DEF CoreInv, ReapOK
    <3>3. \A f \in Eps : /\ ep'[f].alive => ep[f].alive \/ ep'[f].listed
                         /\ \/ ep'[f].listed <=> ep[f].listed
                            \/ ep'[f].listed /\ ~ep[f].alive
                         /\ ep[f].stopped => ep'[f].stopped
      BY <1>2, <2>2, <2>5, NoEpFacts
    <3>4. ListsOK(reap')
      BY <1>3 DEF CoreInv, ReapOK
    <3> QED
      BY <1>3, <2>8, <3>2, <3>3, <3>4, ReapKept
  <2>11. SockOK'
    BY <1>3, <1>5, <2>1, <2>4, SockKept
  <2> QED
    BY <2>6, <2>7, <2>9, <2>10, <2>11 DEF CoreInv
<1> QED
  BY <1>4, <1>5

-----------------------------------------------------------------------------
(* The callbacks.                                                          *)

(* Who has something under way is listed.                                  *)
LEMMA BusyListed ==
  ASSUME CoreInv, NEW e \in Eps, ep[e].con # "idle" \/ ep[e].tmo # "idle" \/ cb[e].step # "none"
  PROVE  ep[e].listed
  BY EpFacts, NoCbFacts DEF EpOK, Lives

(* A connection attempt ends, the back-off is over.                        *)
LEMMA ConDoneKeeps ==
  ASSUME CoreInv, CoreAssumed, NEW e \in Eps, Core!ConDone(e) PROVE CoreInv'
<1>1. PICK r \in {"ok", "error"} : ep' = [ep EXCEPT ![e].con = r]
  BY DEF Core!ConDone
<1> DEFINE d == [ep[e] EXCEPT !.con = r]
<1>2. ep[e].con = "pending" /\ UNCHANGED <<sock, pipe, cb, reap, user, closer, holder>>
  BY DEF Core!ConDone
<1>3. ep' = [ep EXCEPT ![e] = d]
  BY <1>1
<1>4. EpOK(e, ep[e], cb[e], Dial(e), Close(e), sock) /\ ep[e] \in Endpoint /\ cb[e] \in Adding
      /\ sock \in Sock /\ Dial(e) \in User /\ Close(e) \in User
  BY EpFacts, UserFacts DEF CoreInv
<1>5. /\ d \in Endpoint /\ SameLife(ep[e], d) /\ d.closing = ep[e].closing /\ d.con = r
      /\ d.tmo = ep[e].tmo /\ d.stopped = ep[e].stopped /\ d.waiter = ep[e].waiter
      /\ d.result = ep[e].result
  BY <1>4 DEF Endpoint, SameLife
<1> HIDE DEF d
<1>6. ep[e].listed
  BY <1>2, BusyListed
<1>7. d.con = "closed" \/ d.tmo = "closed" => ep[e].stopped
  BY <1>4, <1>5 DEF EpOK, Shuts
<1>8. EpOK(e, d, cb[e], Dial(e), Close(e), sock)
  BY <1>4, <1>5, <1>6, <1>7, EpGoesOn
<1> QED
  BY <1>2, <1>3, <1>5, <1>8, EpAlone

LEMMA TimerCbKeeps ==
  ASSUME CoreInv, CoreAssumed, NEW e \in Eps, Core!TimerCb(e) PROVE CoreInv'
<1> DEFINE c == [ep[e] EXCEPT !.tmo = "idle"]
           d == IF ep[e].tmo = "pending" THEN Core!Begun(c, "con") ELSE c
<1>1. ep[e].tmo # "idle" /\ UNCHANGED <<sock, pipe, cb, reap, user, closer, holder>>
  BY DEF Core!TimerCb
<1>2. ep' = [ep EXCEPT ![e] = d]
  BY DEF Core!TimerCb
<1>3. EpOK(e, ep[e], cb[e], Dial(e), Close(e), sock) /\ ep[e] \in Endpoint /\ cb[e] \in Adding
      /\ sock \in Sock /\ Dial(e) \in User /\ Close(e) \in User
  BY EpFacts, UserFacts DEF CoreInv
<1>4. /\ c \in Endpoint /\ SameLife(ep[e], c) /\ c.closing = ep[e].closing /\ c.con = ep[e].con
      /\ c.tmo = "idle" /\ c.stopped = ep[e].stopped /\ c.waiter = ep[e].waiter
      /\ c.result = ep[e].result
  BY <1>3 DEF Endpoint, SameLife
<1> HIDE DEF c
<1>5. /\ d \in Endpoint /\ SameLife(ep[e], d) /\ d.closing = ep[e].closing
      /\ d.tmo = "idle" /\ d.stopped = ep[e].stopped /\ d.waiter = ep[e].waiter
      /\ d.result = ep[e].result /\ (d.con = ep[e].con \/ d.con = "pending")
      /\ ep[e].tmo = "pending" /\ ~ep[e].stopped => d.con = "pending"
  <2>1. CASE ep[e].tmo = "pending"
    <3> DEFINE y == Core!Begun(c, "con")
    <3>1. /\ y \in Endpoint /\ SameLife(c, y) /\ y.closing = c.closing /\ y.stopped = c.stopped
          /\ y.waiter = c.waiter /\ y.result = c.result
          /\ c.stopped => y = c
          /\ ~c.stopped => y.con = "pending" /\ y.tmo = c.tmo
      BY <1>4, BegunFacts
    <3>2. d = y
      BY <2>1
    <3> HIDE DEF y, d
    <3> QED
      BY <1>4, <3>1, <3>2 DEF SameLife
  <2>2. CASE ep[e].tmo # "pending"
    BY <1>4, <2>2
  <2> QED
    BY <2>1, <2>2
<1> HIDE DEF d
<1>6. ep[e].listed
  BY <1>1, BusyListed
<1>7. /\ d.con = "closed" \/ d.tmo = "closed" => ep[e].stopped
      /\ ep[e].tmo # "pending" => ep[e].stopped
  BY <1>1, <1>3, <1>5 DEF EpOK, Shuts, Endpoint
<1>8. EpOK(e, d, cb[e], Dial(e), Close(e), sock)
  BY <1>3, <1>5, <1>6, <1>7, EpGoesOn
<1> QED
  BY <1>1, <1>2, <1>5, <1>8, EpAlone

(* The thread that waits is told r.                                        *)
LEMMA EpTold ==
  ASSUME NEW e, NEW d \in Endpoint, NEW x \in Endpoint, NEW u \in User, NEW v \in User,
         NEW s \in Sock, NEW r \in {"ok", "fail"},
         EpOK(e, d, Core!NoCb, u, v, s), d.listed, SameLife(d, x), x.closing = d.closing,
         x.stopped = d.stopped, ~x.waiter, x.result = IF d.waiter THEN r ELSE d.result,
         x.con = "closed" \/ x.tmo = "closed" => d.stopped,
         ~s.failed /\ ~d.closing /\ ~(d.waiter /\ r = "fail")
           => x.con # "idle" \/ x.tmo # "idle"
  PROVE  EpOK(e, x, Core!NoCb, u, v, s)
<1>1. /\ Counted(d, u, v) /\ Lives(d, Core!NoCb, u) /\ Shuts(d, u, v, s)
      /\ Tells(d, Core!NoCb, u) /\ Works(d, Core!NoCb, u, s) /\ Kinds(e, d, Core!NoCb, u)
  BY DEF EpOK
<1>2. Counted(x, u, v) /\ Lives(x, Core!NoCb, u)
  BY <1>1, NoEpFacts DEF Counted, Lives, SameLife
<1>3. Shuts(x, u, v, s) /\ Tells(x, Core!NoCb, u)
  BY <1>1, NoCbFacts DEF Shuts, Tells, SameLife
<1>4. Works(x, Core!NoCb, u, s) /\ Kinds(e, x, Core!NoCb, u)
  BY <1>1 DEF Works, Started, Kinds, SameLife
<1> QED
  BY <1>2, <1>3, <1>4 DEF EpOK

(* No connection was made: the thread that waits is told, or it is tried   *)
(* again.                                                                  *)
LEMMA CbErrorKeeps ==
  ASSUME CoreInv, CoreAssumed, NEW e \in Eps, Core!CbError(e) PROVE CoreInv'
<1> DEFINE r == IF ep[e].waiter THEN "fail" ELSE ep[e].result
           d == [ep[e] EXCEPT !.con = "idle", !.waiter = FALSE, !.result = r]
<1>1. /\ ep[e].con \in {"error", "closed"} /\ cb[e] = Core!NoCb
      /\ UNCHANGED <<sock, pipe, cb, reap, user, closer, holder>>
  BY DEF Core!CbError
<1>2. EpOK(e, ep[e], cb[e], Dial(e), Close(e), sock) /\ ep[e] \in Endpoint
      /\ sock \in Sock /\ Dial(e) \in User /\ Close(e) \in User
  BY EpFacts, UserFacts DEF CoreInv
<1>3. /\ d \in Endpoint /\ SameLife(ep[e], d) /\ d.closing = ep[e].closing /\ d.con = "idle"
      /\ d.tmo = ep[e].tmo /\ d.stopped = ep[e].stopped /\ ~d.waiter /\ d.result = r
  BY <1>2 DEF Endpoint, SameLife
<1>4. \/ ep[e].con = "closed" /\ ep' = [ep EXCEPT ![e] = d]
      \/ ep[e].waiter /\ ep' = [ep EXCEPT ![e] = d]
      \/ e \in Dialers /\ ep' = [ep EXCEPT ![e] = Core!TimerStarted(d)]
      \/ \E f \in {"con", "tmo"} : ep' = [ep EXCEPT ![e] = Core!Begun(d, f)]
  BY DEF Core!CbError
<1>5. ep[e].listed /\ (ep[e].con = "closed" => ep[e].stopped) /\ (ep[e].stopped => ep[e].closing)
      /\ (ep[e].tmo = "closed" => ep[e].stopped) /\ (sock.closed => ep[e].closing)
  <2>1. ep[e].listed
    BY <1>1, BusyListed
  <2>2. sock.closed => sock.closing
    BY DEF CoreInv, SockOK
  <2> QED
    BY <1>2, <2>1, <2>2 DEF EpOK, Shuts
<1> HIDE DEF d
<1>6. ASSUME NEW x \in Endpoint, ep' = [ep EXCEPT ![e] = x], SameLife(d, x), x.closing = d.closing,
             x.stopped = d.stopped, ~x.waiter, x.result = d.result,
             x.con = "closed" \/ x.tmo = "closed" => d.tmo = "closed",
             ep[e].closing \/ ep[e].waiter \/ x.con # "idle" \/ x.tmo # "idle"
      PROVE  CoreInv'
  <2>1. /\ SameLife(ep[e], x) /\ x.closing = ep[e].closing /\ x.stopped = ep[e].stopped
        /\ x.result = r /\ (x.con = "closed" \/ x.tmo = "closed" => ep[e].stopped)
    BY <1>3, <1>5, <1>6 DEF SameLife
  <2>2. EpOK(e, x, Core!NoCb, Dial(e), Close(e), sock)
    BY <1>1, <1>2, <1>5, <1>6, <2>1, EpTold
  <2> QED
    BY <1>1, <1>6, <2>1, <2>2, EpAlone
<1>7. ASSUME ep' = [ep EXCEPT ![e] = d], ep[e].closing \/ ep[e].waiter PROVE CoreInv'
  <2>1. SameLife(d, d) /\ d.con # "closed"
    BY <1>3 DEF SameLife
  <2> QED
    BY <1>3, <1>6, <1>7, <2>1
<1>8. ASSUME NEW f \in {"con", "tmo"}, ep' = [ep EXCEPT ![e] = Core!Begun(d, f)] PROVE CoreInv'
  <2> DEFINE x == Core!Begun(d, f)
  <2>1. /\ x \in Endpoint /\ SameLife(d, x)
        /\ x.closing = d.closing /\ x.stopped = d.stopped /\ x.waiter = d.waiter
        /\ x.result = d.result
        /\ d.stopped => x = d
        /\ ~d.stopped /\ f = "con" => x.con = "pending" /\ x.tmo = d.tmo
        /\ ~d.stopped /\ f = "tmo" => x.tmo = "pending" /\ x.con = d.con
    BY <1>3, BegunFacts
  <2>2. ep' = [ep EXCEPT ![e] = x]
    BY <1>8
  <2> HIDE DEF x
  <2>3. /\ x.con = "closed" \/ x.tmo = "closed" => d.tmo = "closed"
        /\ ep[e].closing \/ x.con # "idle" \/ x.tmo # "idle"
    BY <1>3, <1>5, <2>1
  <2> QED
    BY <1>3, <1>6, <2>1, <2>2, <2>3
<1>9. CASE e \in Dialers /\ ep' = [ep EXCEPT ![e] = Core!TimerStarted(d)]
  <2>1. CASE d.closing \/ sock.closed
    BY <1>3, <1>5, <1>7, <1>9, <2>1 DEF Core!TimerStarted
  <2>2. CASE ~(d.closing \/ sock.closed)
    BY <1>8, <1>9, <2>2 DEF Core!TimerStarted
  <2> QED
    BY <2>1, <2>2
<1> QED
  BY <1>4, <1>5, <1>7, <1>8, <1>9

(* A connection is dropped.                                                *)
LEMMA DroppedFacts ==
  ASSUME CoreInv, CoreAssumed, NEW e \in Eps, ep[e].con = "ok", cb[e] = Core!NoCb, Core!Dropped(e),
         SameSock, sock'.failed \/ sock.closed \/ ep[e].closing
  PROVE  \E d \in Endpoint : /\ ep' = [ep EXCEPT ![e] = d] /\ SameLife(ep[e], d)
                             /\ d.closing = ep[e].closing /\ d.stopped = ep[e].stopped
                             /\ EpOK(e, d, cb[e], Dial(e), Close(e), sock')
<1> DEFINE c == [ep[e] EXCEPT !.con = "idle", !.waiter = FALSE]
           d == Core!CbEnded(e, c, ep[e].waiter)
<1>1. EpOK(e, ep[e], Core!NoCb, Dial(e), Close(e), sock') /\ ep[e] \in Endpoint
      /\ sock' \in Sock /\ Dial(e) \in User /\ Close(e) \in User
  BY EpFacts, UserFacts, SameClosing DEF CoreInv, SameSock
<1>2. ep' = [ep EXCEPT ![e] = d]
  BY DEF Core!Dropped
<1>3. /\ c \in Endpoint /\ SameLife(ep[e], c) /\ c.closing = ep[e].closing /\ c.con = "idle"
      /\ c.tmo = ep[e].tmo /\ c.stopped = ep[e].stopped /\ ~c.waiter /\ c.result = ep[e].result
  BY <1>1 DEF Endpoint, SameLife
<1>4. ep[e].listed /\ (ep[e].tmo = "closed" => ep[e].stopped) /\ (sock.closed => ep[e].closing)
  <2>1. ep[e].listed
    BY BusyListed
  <2>2. sock.closed => sock.closing
    BY DEF CoreInv, SockOK
  <2> QED
    BY <1>1, <2>1, <2>2 DEF EpOK, Shuts, SameSock
<1> HIDE DEF c
<1>5. /\ d \in Endpoint /\ SameLife(ep[e], d) /\ d.closing = ep[e].closing
      /\ d.stopped = ep[e].stopped /\ ~d.waiter
      /\ d.con \in {"idle", "pending"} /\ d.tmo = ep[e].tmo
      /\ e \in Listeners => d.result = ep[e].result
      /\ e \notin Listeners => d.result = IF ep[e].waiter THEN "ok" ELSE ep[e].result
  <2>1. CASE e \in Listeners
    <3> DEFINE y == Core!Begun(c, "con")
    <3>1. /\ y \in Endpoint /\ SameLife(c, y) /\ y.closing = c.closing /\ y.stopped = c.stopped
          /\ y.waiter = c.waiter /\ y.result = c.result
          /\ c.stopped => y = c
          /\ ~c.stopped => y.con = "pending" /\ y.tmo = c.tmo
      BY <1>3, BegunFacts
    <3>2. d = y
      BY <2>1 DEF Core!CbEnded
    <3> HIDE DEF y, d
    <3> QED
      BY <1>3, <2>1, <3>1, <3>2 DEF SameLife
  <2>2. CASE e \notin Listeners /\ ep[e].waiter
    <3>1. d = [c EXCEPT !.result = "ok"]
      BY <2>2 DEF Core!CbEnded
    <3> HIDE DEF d
    <3> QED
      BY <1>3, <2>2, <3>1 DEF SameLife, Endpoint
  <2>3. CASE e \notin Listeners /\ ~ep[e].waiter
    <3>1. d = c
      BY <2>3 DEF Core!CbEnded
    <3> HIDE DEF d
    <3> QED
      BY <1>3, <2>3, <3>1
  <2> QED
    BY <2>1, <2>2, <2>3
<1> HIDE DEF d
<1>6. d.result = IF ep[e].waiter THEN "ok" ELSE ep[e].result
  <2>1. e \in Listeners => ~ep[e].waiter
    BY <1>1 DEF EpOK, Kinds, Tells, CoreAssumed
  <2> QED
    BY <1>5, <2>1
<1>7. /\ d.con = "closed" \/ d.tmo = "closed" => ep[e].stopped
      /\ sock'.failed \/ ep[e].closing
  BY <1>4, <1>5
<1>8. EpOK(e, d, Core!NoCb, Dial(e), Close(e), sock')
  BY <1>1, <1>4, <1>5, <1>6, <1>7, EpTold
<1> QED
  BY <1>2, <1>5, <1>8

(* The socket closes, or there is no memory: the connection is dropped.    *)
LEMMA CbRefuseKeeps ==
  ASSUME CoreInv, CoreAssumed, NEW e \in Eps, Core!CbRefuse(e) PROVE CoreInv'
<1> DEFINE f == sock.failed \/ ~(sock.closed \/ ep[e].closing)
<1>1. sock' = [sock EXCEPT !.failed = f] /\ sock \in Sock /\ f \in BOOLEAN
  BY DEF Core!CbRefuse, CoreInv, CoreTypes
<1>2. SameSock /\ (sock'.failed <=> f)
  <2> HIDE DEF f
  <2>1. /\ sock' \in Sock /\ sock'.closing = sock.closing /\ sock'.closed = sock.closed
        /\ sock'.ref = sock.ref /\ sock'.node = sock.node /\ sock'.gone = sock.gone
        /\ sock'.failed = f
    BY <1>1 DEF Sock
  <2> QED
    BY <2>1 DEF f, SameSock
<1>3. PICK d \in Endpoint : /\ ep' = [ep EXCEPT ![e] = d] /\ SameLife(ep[e], d)
                            /\ d.closing = ep[e].closing /\ d.stopped = ep[e].stopped
                            /\ EpOK(e, d, cb[e], Dial(e), Close(e), sock')
  BY <1>2, DroppedFacts DEF Core!CbRefuse
<1> QED
  BY <1>2, <1>3, EpByItself DEF Core!CbRefuse, Core!Dropped

-----------------------------------------------------------------------------
(* Steps with one pipe.                                                    *)

(* Nobody has a pipe that does not live.                                   *)
LEMMA FreePipe ==
  ASSUME CoreInv, CoreAssumed, NEW p \in Pipes, ~pipe[p].live
  PROVE  /\ pipe[p].ref = 0 /\ ~pipe[p].known /\ ~pipe[p].listed
         /\ ~Added(p) /\ holder # p /\ p \notin Reaped(reap)
         /\ \A e \in Eps : cb[e].p # p /\ ep[e].pipe # p
<1>1. pipe[p] = Core!NoPipe /\ PipeOK(p, pipe[p], holder = p)
  BY DEF CoreInv, PipesOK, PipeOK
<1>2. /\ pipe[p].ref = 0 /\ pipe[p].ep = None /\ ~pipe[p].known /\ ~pipe[p].listed
  BY <1>1 DEF Core!NoPipe
<1>3. ~Added(p) /\ holder # p
  BY <1>1, <1>2 DEF PipeOK, One
<1>4. p \notin Reaped(reap)
  BY DEF CoreInv, ReapOK
<1>5. \A e \in Eps : ep[e].pipe # p
  BY <1>2 DEF CoreInv, PipesOK, CoreAssumed
<1> QED
  BY <1>2, <1>3, <1>4, <1>5 DEF Added

(* Who points to the pipe q made of p is its endpoint; the others are held *)
(* as they were, and the endpoints stay.                                   *)
PointsTo(p, q) ==
  /\ \A e \in Eps : cb'[e].p = None \/ (cb'[e].p # p /\ cb'[e].p = cb[e].p)
                    \/ (cb'[e].p = p /\ q.ep = e)
  /\ \A e \in Eps : ep'[e].pipe = None \/ (ep'[e].pipe # p /\ ep'[e].pipe = ep[e].pipe)
                    \/ (ep'[e].pipe = p /\ q.ep = e)
  /\ \A e \in Eps : ep[e].listed => ep'[e].listed
  /\ q.listed => ep'[q.ep].listed

OthersHeld(p) ==
  \A o \in Pipes \ {p} : (Added(o)' <=> Added(o)) /\ (holder' = o <=> holder = o)

(* One pipe changes.                                                       *)
LEMMA OnePipe ==
  ASSUME CoreInv, CoreAssumed, NEW p \in Pipes, NEW q \in PipeRec, pipe' = [pipe EXCEPT ![p] = q],
         PipeOK(p, q, holder = p)', OthersHeld(p), PointsTo(p, q)
  PROVE  PipesOK'
<1>1. /\ pipe'[p] = q /\ \A o \in Pipes \ {p} : pipe'[o] = pipe[o]
  BY DEF CoreInv, CoreTypes
<1>2. ASSUME NEW o \in Pipes PROVE PipeOK(o, pipe[o], holder = o)'
  <2>1. CASE o = p
    BY <1>1, <2>1
  <2>2. CASE o # p
    <3>1. PipeOK(o, pipe[o], holder = o) /\ pipe'[o] = pipe[o]
      BY <1>1, <2>2 DEF CoreInv, PipesOK
    <3>2. (Added(o)' <=> Added(o)) /\ (holder' = o <=> holder = o)
      BY <2>2 DEF OthersHeld
    <3> QED
      BY <3>1, <3>2 DEF PipeOK, One
  <2> QED
    BY <2>1, <2>2
<1>3. ASSUME NEW e \in Eps
      PROVE  /\ cb'[e].p # None => pipe'[cb'[e].p].ep = e
             /\ ep'[e].pipe # None => pipe'[ep'[e].pipe].ep = e
  <2>1. cb[e].p \in Pipes \cup {None} /\ ep[e].pipe \in Pipes \cup {None}
    BY DEF CoreInv, CoreTypes, Adding, Endpoint
  <2>2. /\ cb[e].p # None => pipe[cb[e].p].ep = e
        /\ ep[e].pipe # None => pipe[ep[e].pipe].ep = e
    BY DEF CoreInv, PipesOK
  <2> QED
    BY <1>1, <2>1, <2>2 DEF PointsTo
<1>4. ASSUME NEW o \in Pipes, pipe'[o].listed PROVE ep'[pipe'[o].ep].listed
  <2>1. CASE o = p
    BY <1>1, <1>4, <2>1 DEF PointsTo
  <2>2. CASE o # p
    <3>1. pipe[o].listed /\ pipe'[o].ep = pipe[o].ep
      BY <1>1, <1>4, <2>2
    <3>2. pipe[o].ep \in Eps /\ ep[pipe[o].ep].listed
      BY <3>1 DEF CoreInv, PipesOK, PipeOK
    <3> QED
      BY <3>1, <3>2 DEF PointsTo
  <2> QED
    BY <2>1, <2>2
<1> QED
  BY <1>2, <1>3, <1>4 DEF PipesOK

(* What the reaper may assume of a pipe.                                   *)
PipeGiven(p, q, r, s) ==
  /\ p \in Reaped(r) => q.closed /\ q.live
  /\ r.cur = p /\ r.step = "fini" => ~q.listed /\ q.ref = 0
  /\ r.cur = p /\ r.step # "id" => ~q.known
  /\ ~s.failed /\ q.live => q.listed \/ (r.cur = p /\ r.step = "fini")

(* What the reaper wants of a pipe.                                        *)
LEMMA PipesGiven ==
  ASSUME ReapOK, NEW p \in Pipes PROVE PipeGiven(p, pipe[p], reap, sock)
  BY DEF ReapOK, PipeGiven, Fined

(* The reaper has what it had, and a pipe perhaps.                         *)
LEMMA PipeSteps ==
  ASSUME CoreInv, CoreAssumed, NEW p \in Pipes, NEW q \in PipeRec, pipe' = [pipe EXCEPT ![p] = q],
         SameSock, UNCHANGED <<user, closer>>, holder' \in Pipes \cup {None},
         ep' \in [Eps -> Endpoint], cb' \in [Eps -> Adding], EpsOK', PipesOK',
         \A e \in Eps : /\ ep'[e].listed = ep[e].listed /\ ep'[e].alive = ep[e].alive
                        /\ (ep[e].stopped => ep'[e].stopped)
                        /\ EpGiven(ep[e]) => EpGiven(ep'[e]),
         NothingListed => ~q.listed,
         reap' \in Reap, ListsOK(reap'), reap'.cur = reap.cur, reap'.step = reap.step,
         Reaped(reap') \subseteq Reaped(reap) \cup {p}, PipeGiven(p, q, reap', sock')
  PROVE  CoreInv'
<1>1. CoreTypes'
  BY DEF CoreInv, CoreTypes, SameSock
<1>2. /\ pipe'[p] = q /\ \A o \in Pipes \ {p} : pipe'[o] = pipe[o]
  BY DEF CoreInv, CoreTypes
<1>3. ReapOK
  BY DEF CoreInv
<1>4. ReapOK'
  <2>1. \A x : Fined(x)' <=> Fined(x)
    BY DEF Fined
  <2>2. ASSUME NEW o \in Pipes PROVE PipeGiven(o, pipe'[o], reap', sock')
    <3>1. CASE o = p
      BY <1>2, <3>1
    <3>2. CASE o # p
      <4>1. PipeGiven(o, pipe[o], reap, sock) /\ pipe'[o] = pipe[o]
        BY <1>2, <1>3, <3>2, PipesGiven
      <4>2. o \in Reaped(reap') => o \in Reaped(reap)
        BY <3>2
      <4> QED
        BY <4>1, <4>2 DEF PipeGiven, SameSock
    <3> QED
      BY <3>1, <3>2
  <2>3. \A e \in Eps : e \in Reaped(reap') => EpGiven(ep'[e])
    <3>1. \A e \in Eps : e # p
      BY DEF CoreAssumed
    <3> QED
      BY <1>3, <3>1 DEF ReapOK
  <2>4. \A e \in Eps : (ep'[e].alive => ep'[e].listed \/ Fined(e)') /\ (Fined(e)' => ~ep'[e].listed)
    BY <1>3, <2>1 DEF ReapOK
  <2>5. reap'.step = "reap" => ep'[reap'.cur].stopped
    BY <1>3 DEF ReapOK, ListsOK
  <2>6. \A o \in Pipes : /\ o \in Reaped(reap') => pipe'[o].closed /\ pipe'[o].live
                         /\ Fined(o)' => ~pipe'[o].listed /\ pipe'[o].ref = 0
                         /\ reap'.cur = o /\ reap'.step # "id" => ~pipe'[o].known
                         /\ ~sock'.failed /\ pipe'[o].live => pipe'[o].listed \/ Fined(o)'
    BY <2>2 DEF PipeGiven, Fined
  <2> QED
    BY <2>3, <2>4, <2>5, <2>6 DEF ReapOK
<1>5. NothingListed => NothingListed'
  BY <1>2 DEF NothingListed
<1>6. SockOK'
  BY <1>5, SockCounts DEF Dial
<1> QED
  BY <1>1, <1>4, <1>6 DEF CoreInv

LEMMA PipeStep ==
  ASSUME CoreInv, CoreAssumed, NEW p \in Pipes, NEW q \in PipeRec, pipe' = [pipe EXCEPT ![p] = q],
         UNCHANGED <<sock, user, closer>>, holder' \in Pipes \cup {None},
         ep' \in [Eps -> Endpoint], cb' \in [Eps -> Adding], EpsOK', PipesOK',
         \A e \in Eps : /\ ep'[e].listed = ep[e].listed /\ ep'[e].alive = ep[e].alive
                        /\ (ep[e].stopped => ep'[e].stopped)
                        /\ EpGiven(ep[e]) => EpGiven(ep'[e]),
         NothingListed => ~q.listed,
         reap' \in Reap, ListsOK(reap'), reap'.cur = reap.cur, reap'.step = reap.step,
         Reaped(reap') \subseteq Reaped(reap) \cup {p}, PipeGiven(p, q, reap', sock)
  PROVE  CoreInv'
<1>1. SameSock
  BY DEF CoreInv, CoreTypes, SameSock
<1> QED
  BY <1>1, PipeSteps

(* The reaper is given nothing.                                            *)
LEMMA SameReap ==
  ASSUME CoreInv, NEW p, reap' = reap
  PROVE  reap' \in Reap /\ ListsOK(reap') /\ reap'.cur = reap.cur /\ reap'.step = reap.step
         /\ Reaped(reap') \subseteq Reaped(reap) \cup {p}
  BY DEF CoreInv, CoreTypes, ReapOK

(* A pipe that is not there.                                               *)
LEMMA NoPipeFacts ==
  Core!NoPipe \in PipeRec /\ ~Core!NoPipe.live /\ Core!NoPipe.ref = 0 /\ ~Core!NoPipe.closed
  /\ ~Core!NoPipe.listed /\ ~Core!NoPipe.known /\ Core!NoPipe.ep = None
  BY DEF Core!NoPipe, PipeRec

(* pipe_create fails half way: the pipe goes to the reaper at once.        *)
LEMMA CbPipeFailsKeeps ==
  ASSUME CoreInv, CoreAssumed, NEW e \in Eps, Core!CbPipeFails(e) PROVE CoreInv'
<1>0. CoreTypes
  BY DEF CoreInv
<1>1. PICK p \in Pipes, f \in Faults \cap {"id", "init"} :
        /\ ~pipe[p].live
        /\ pipe' = [pipe EXCEPT ![p] = [Core!NoPipe EXCEPT !.live = TRUE, !.closed = TRUE,
                       !.known = f = "init", !.ref = IF f = "id" THEN -1 ELSE 0]]
        /\ reap' = [reap EXCEPT !.pipes = <<p>> \o @]
  BY DEF Core!CbPipeFails
<1> DEFINE a == [Core!NoPipe EXCEPT !.live = TRUE, !.closed = TRUE]
           b == [a EXCEPT !.known = f = "init"]
           q == [b EXCEPT !.ref = IF f = "id" THEN -1 ELSE 0]
<1>2. pipe' = [pipe EXCEPT ![p] = q]
  BY <1>1
<1>3. /\ q \in PipeRec /\ q.live /\ q.closed /\ ~q.listed /\ q.ep = None
      /\ q.ref = (IF f = "id" THEN -1 ELSE 0) /\ (q.known <=> f = "init")
  <2>1. a \in PipeRec /\ a.live /\ a.closed /\ ~a.listed /\ a.ep = None
    <3> DEFINE c == [Core!NoPipe EXCEPT !.live = TRUE]
    <3>1. c \in PipeRec /\ c.live /\ ~c.listed /\ c.ep = None
      BY NoPipeFacts DEF PipeRec
    <3>2. a = [c EXCEPT !.closed = TRUE]
      OBVIOUS
    <3> HIDE DEF c, a
    <3> QED
      BY <3>1, <3>2 DEF PipeRec
  <2> HIDE DEF a
  <2>2. /\ b \in PipeRec /\ b.live /\ b.closed /\ ~b.listed /\ b.ep = None
        /\ (b.known <=> f = "init")
    BY <2>1 DEF PipeRec
  <2> HIDE DEF b
  <2>3. (IF f = "id" THEN -1 ELSE 0) \in Int
    OBVIOUS
  <2> QED
    BY <2>2, <2>3 DEF PipeRec
<1> HIDE DEF q
<1>4. /\ ~Added(p) /\ holder # p /\ p \notin Reaped(reap)
      /\ \A g \in Eps : cb[g].p # p /\ ep[g].pipe # p
  BY <1>1, FreePipe
<1>5. UNCHANGED <<cb, user, closer, holder>>
  BY DEF Core!CbPipeFails, Core!Dropped
<1>6. SameSock /\ sock'.failed
  <2>1. sock' = [sock EXCEPT !.failed = TRUE]
    BY DEF Core!CbPipeFails
  <2> QED
    BY <1>0, <2>1 DEF SameSock, CoreTypes, Sock
<1>7. PICK d \in Endpoint : /\ ep' = [ep EXCEPT ![e] = d] /\ SameLife(ep[e], d)
                            /\ d.closing = ep[e].closing /\ d.stopped = ep[e].stopped
                            /\ EpOK(e, d, cb[e], Dial(e), Close(e), sock')
  BY <1>6, DroppedFacts DEF Core!CbPipeFails
<1>8. ep' \in [Eps -> Endpoint] /\ ep'[e] = d /\ \A g \in Eps \ {e} : ep'[g] = ep[g]
  BY <1>0, <1>7 DEF CoreTypes
<1>9. EpsOK'
  BY <1>5, <1>6, <1>7, <1>8, EpChanges DEF Dial, Close, SameSock
<1>10. \A g \in Eps : /\ ep'[g].listed = ep[g].listed /\ ep'[g].alive = ep[g].alive
                      /\ ep'[g].pipe = ep[g].pipe
                      /\ (ep[g].stopped => ep'[g].stopped)
                      /\ EpGiven(ep[g]) => EpGiven(ep'[g])
  BY <1>7, <1>8 DEF SameLife, EpGiven
<1>11. \A o \in Pipes : Added(o)' <=> Added(o)
  BY <1>5 DEF Added
<1>12. PipesOK'
  <2>1. pipe'[p] = q
    BY <1>0, <1>2 DEF CoreTypes
  <2>2. PipeOK(p, q, holder = p)'
    BY <1>3, <1>4, <1>5, <1>11, <2>1 DEF PipeOK, One, CoreAssumed
  <2>3. \A g \in Eps : /\ cb'[g].p # p /\ cb'[g].p = cb[g].p
                       /\ ep'[g].pipe # p /\ ep'[g].pipe = ep[g].pipe
    BY <1>4, <1>5, <1>10
  <2>4. OthersHeld(p)
    BY <1>5, <1>11 DEF OthersHeld
  <2>5. PointsTo(p, q)
    BY <1>3, <1>10, <2>3 DEF PointsTo
  <2> QED
    BY <1>2, <1>3, <2>2, <2>4, <2>5, OnePipe
<1>13. /\ reap' \in Reap /\ ListsOK(reap') /\ reap'.cur = reap.cur /\ reap'.step = reap.step
       /\ Reaped(reap') = Reaped(reap) \cup {p}
  <2>1. <<p>> \in Seq(Pipes) /\ In(<<p>>) = {p} /\ Once(<<p>>)
    BY OneSeq
  <2> DEFINE s == <<p>>
  <2> HIDE DEF s
  <2>2. s \in Seq(Pipes) /\ Once(s) /\ In(s) \cap Reaped(reap) = {}
    BY <1>4, <2>1 DEF s
  <2>3. reap \in Reap /\ ListsOK(reap)
    BY DEF CoreInv, CoreTypes, ReapOK
  <2> QED
    BY <1>1, <2>1, <2>2, <2>3, PipesToReap DEF s
<1>14. PipeGiven(p, q, reap', sock')
  <2>1. reap.cur # p
    BY <1>4 DEF Reaped, CoreAssumed
  <2> QED
    BY <1>3, <1>6, <1>13, <2>1 DEF PipeGiven
<1>15. holder' \in Pipes \cup {None} /\ cb' \in [Eps -> Adding]
  BY <1>0, <1>5 DEF CoreTypes
<1> QED
  BY <1>2, <1>3, <1>5, <1>6, <1>8, <1>9, <1>10, <1>12, <1>13, <1>14, <1>15, PipeSteps

(* A pipe is made and listed.                                              *)
LEMMA CbAddPipeKeeps ==
  ASSUME CoreInv, CoreAssumed, NEW e \in Eps, Core!CbAddPipe(e) PROVE CoreInv'
<1>0. CoreTypes
  BY DEF CoreInv
<1>1. /\ ep[e].con = "ok" /\ cb[e] = Core!NoCb /\ ~sock.closed /\ ~ep[e].closing
      /\ UNCHANGED <<sock, reap, user, closer, holder>>
  BY DEF Core!CbAddPipe
<1> DEFINE q == [live |-> TRUE, ref |-> 1, closed |-> FALSE,
                 listed |-> TRUE, known |-> TRUE, ep |-> e]
           k(p) == [p |-> p, step |-> "pre", waiter |-> ep[e].waiter]
           d(p) == [ep[e] EXCEPT !.con = "idle", !.waiter = FALSE,
                                 !.pipe = IF e \in Dialers THEN p ELSE None]
<1>2. PICK p \in Pipes : /\ ~pipe[p].live
                         /\ pipe' = [pipe EXCEPT ![p] = q]
                         /\ cb' = [cb EXCEPT ![e] = k(p)]
                         /\ ep' = [ep EXCEPT ![e] = d(p)]
  <2>1. PICK p \in Pipes :
           /\ ~pipe[p].live
           /\ pipe' = [pipe EXCEPT ![p] = q]
           /\ cb' = [cb EXCEPT ![e] = k(p)]
           /\ ep' = [ep EXCEPT ![e].con = "idle", ![e].waiter = FALSE,
                               ![e].pipe = IF e \in Dialers THEN p ELSE None]
    BY DEF Core!CbAddPipe
  <2>2. ep' = [ep EXCEPT ![e] = d(p)]
    BY <1>0, <2>1 DEF CoreTypes
  <2> QED
    BY <2>1, <2>2
<1> DEFINE x == d(p)
           j == k(p)
<1>3. EpOK(e, ep[e], Core!NoCb, Dial(e), Close(e), sock) /\ ep[e] \in Endpoint /\ sock \in Sock
  BY <1>1, EpFacts
<1>4. ep[e].listed
  BY <1>1, BusyListed
<1>5. /\ x \in Endpoint /\ x.alive = ep[e].alive /\ x.listed = ep[e].listed /\ x.ref = ep[e].ref
      /\ x.closed = ep[e].closed /\ x.closing = ep[e].closing
      /\ x.pipe = (IF e \in Dialers THEN p ELSE None) /\ x.con = "idle"
      /\ x.tmo = ep[e].tmo /\ x.stopped = ep[e].stopped /\ ~x.waiter
      /\ x.result = ep[e].result
  BY <1>3 DEF Endpoint
<1>6. j \in Adding /\ j.p = p /\ j.step = "pre" /\ j.waiter = ep[e].waiter
  BY <1>3 DEF Adding, Endpoint
<1>7. /\ q \in PipeRec /\ q.live /\ q.ref = 1 /\ ~q.closed /\ q.listed /\ q.known /\ q.ep = e
  BY DEF PipeRec
<1>8. ep' = [ep EXCEPT ![e] = x] /\ cb' = [cb EXCEPT ![e] = j] /\ pipe' = [pipe EXCEPT ![p] = q]
  BY <1>2
<1> HIDE DEF x, j, q, d, k
<1>9. EpOK(e, x, j, Dial(e), Close(e), sock)
  <2>1. /\ Counted(ep[e], Dial(e), Close(e)) /\ Lives(ep[e], Core!NoCb, Dial(e))
        /\ Shuts(ep[e], Dial(e), Close(e), sock)
        /\ Tells(ep[e], Core!NoCb, Dial(e)) /\ Works(ep[e], Core!NoCb, Dial(e), sock)
        /\ Kinds(e, ep[e], Core!NoCb, Dial(e))
    BY <1>3 DEF EpOK
  <2>2. Counted(x, Dial(e), Close(e)) /\ Lives(x, j, Dial(e))
    BY <1>4, <1>5, <1>6, <2>1, NoEpFacts DEF Counted, Lives
  <2>3. Shuts(x, Dial(e), Close(e), sock) /\ Tells(x, j, Dial(e))
    BY <1>5, <1>6, <2>1 DEF Shuts, Tells
  <2>4. Works(x, j, Dial(e), sock) /\ Kinds(e, x, j, Dial(e))
    BY <1>5, <1>6, <2>1 DEF Works, Kinds
  <2> QED
    BY <2>2, <2>3, <2>4 DEF EpOK
<1>10. /\ ~Added(p) /\ holder # p /\ p \notin Reaped(reap)
       /\ \A g \in Eps : cb[g].p # p /\ ep[g].pipe # p
  BY <1>2, FreePipe
<1>11. /\ ep' \in [Eps -> Endpoint] /\ ep'[e] = x /\ \A g \in Eps \ {e} : ep'[g] = ep[g]
       /\ cb' \in [Eps -> Adding] /\ cb'[e] = j /\ \A g \in Eps \ {e} : cb'[g] = cb[g]
  BY <1>0, <1>5, <1>6, <1>8 DEF CoreTypes
<1>12. EpsOK'
  BY <1>1, <1>9, <1>11, OneEpMoves DEF Dial, Close
<1>13. \A g \in Eps : /\ ep'[g].listed = ep[g].listed /\ ep'[g].alive = ep[g].alive
                      /\ (ep[g].stopped => ep'[g].stopped)
                      /\ EpGiven(ep[g]) => EpGiven(ep'[g])
  BY <1>5, <1>11 DEF EpGiven
<1>14. Added(p)' /\ \A o \in Pipes \ {p} : Added(o)' <=> Added(o)
  <2>1. cb[e].p = None
    BY <1>1, NoCbFacts
  <2>2. \A o \in Pipes : o # None
    BY DEF CoreAssumed
  <2> QED
    BY <1>6, <1>11, <2>1, <2>2 DEF Added
<1>15. PipesOK'
  <2>1. pipe'[p] = q
    BY <1>0, <1>8 DEF CoreTypes
  <2>2. PipeOK(p, q, holder = p)'
    BY <1>1, <1>7, <1>10, <1>14, <2>1 DEF PipeOK, One
  <2>3. \A g \in Eps : /\ cb'[g].p = None \/ (cb'[g].p # p /\ cb'[g].p = cb[g].p) \/ (cb'[g].p = p /\ q.ep = g)
                       /\ ep'[g].pipe = None \/ (ep'[g].pipe # p /\ ep'[g].pipe = ep[g].pipe) \/ (ep'[g].pipe = p /\ q.ep = g)
    BY <1>5, <1>6, <1>7, <1>10, <1>11
  <2>4. q.listed => ep'[q.ep].listed
    BY <1>4, <1>5, <1>7, <1>11
  <2>5. OthersHeld(p)
    BY <1>1, <1>14 DEF OthersHeld
  <2>6. PointsTo(p, q)
    BY <1>13, <2>3, <2>4 DEF PointsTo
  <2> QED
    BY <1>7, <1>8, <2>2, <2>5, <2>6, OnePipe
<1>16. PipeGiven(p, q, reap', sock)
  <2>1. reap.cur # p
    BY <1>10 DEF Reaped, CoreAssumed
  <2> QED
    BY <1>1, <1>7, <1>10, <2>1 DEF PipeGiven
<1>17. ~NothingListed /\ holder' \in Pipes \cup {None}
  BY <1>0, <1>1, <1>4 DEF NothingListed, CoreTypes
<1>18. reap' \in Reap /\ ListsOK(reap') /\ reap'.cur = reap.cur /\ reap'.step = reap.step
       /\ Reaped(reap') \subseteq Reaped(reap) \cup {p}
  BY <1>1, SameReap
<1> QED
  BY <1>1, <1>7, <1>8, <1>11, <1>12, <1>13, <1>15, <1>16, <1>17, <1>18, PipeStep

(* The pipe of a callback is held by it.                                   *)
LEMMA CbPipe ==
  ASSUME CoreInv, CoreAssumed, NEW e \in Eps, cb[e].step # "none"
  PROVE  LET p == cb[e].p
         IN  /\ p \in Pipes /\ pipe[p] \in PipeRec /\ pipe[p].ep = e /\ pipe[p].listed /\ pipe[p].live
             /\ Added(p) /\ pipe[p].ref = 1 + One(holder = p)
             /\ \A g \in Eps \ {e} : cb[g].p # p
<1> DEFINE p == cb[e].p
<1>1. p \in Pipes
  BY EpFacts DEF EpOK, Lives
<1>2. pipe[p] \in PipeRec /\ PipeOK(p, pipe[p], holder = p) /\ p # None
  BY <1>1 DEF CoreInv, CoreTypes, PipesOK, CoreAssumed
<1>3. pipe[p].ep = e /\ Added(p)
  BY <1>1, <1>2 DEF CoreInv, PipesOK, Added
<1>4. \A g \in Eps \ {e} : cb[g].p # p
  BY <1>1, <1>2, <1>3 DEF CoreInv, PipesOK
<1> HIDE DEF p
<1>5. pipe[p].listed /\ pipe[p].live /\ pipe[p].ref = 1 + One(holder = p)
  BY <1>2, <1>3 DEF PipeOK, One
<1> QED
  BY <1>1, <1>2, <1>3, <1>4, <1>5 DEF p

(* The end of a callback that had a pipe.                                  *)
LEMMA EpEnded ==
  ASSUME CoreAssumed, NEW e \in Eps, NEW d \in Endpoint, NEW k \in Adding, NEW u \in User, NEW v \in User,
         NEW s \in Sock, EpOK(e, d, k, u, v, s), k.step # "none"
  PROVE  LET x == Core!CbEnded(e, d, k.waiter)
         IN  /\ x \in Endpoint /\ SameLife(d, x) /\ x.closing = d.closing
             /\ x.stopped = d.stopped /\ EpOK(e, x, Core!NoCb, u, v, s)
<1> DEFINE x == Core!CbEnded(e, d, k.waiter)
<1>1. /\ Counted(d, u, v) /\ Lives(d, k, u) /\ Shuts(d, u, v, s)
      /\ Tells(d, k, u) /\ Works(d, k, u, s) /\ Kinds(e, d, k, u)
  BY DEF EpOK
<1>2. d.listed /\ k.p \in Pipes /\ k.p # None
  BY <1>1, NoCbFacts DEF Lives, CoreAssumed
<1>3. /\ x \in Endpoint /\ SameLife(d, x) /\ x.closing = d.closing /\ x.stopped = d.stopped
      /\ x.waiter = d.waiter /\ x.tmo = d.tmo
      /\ x.con = d.con \/ (e \in Listeners /\ x.con = "pending")
      /\ e \in Listeners /\ ~d.stopped => x.con = "pending"
      /\ e \in Listeners => x.result = d.result
      /\ e \notin Listeners => x.result = IF k.waiter THEN "ok" ELSE d.result
  <2>1. CASE e \in Listeners
    <3> DEFINE y == Core!Begun(d, "con")
    <3>1. /\ y \in Endpoint /\ SameLife(d, y) /\ y.closing = d.closing /\ y.stopped = d.stopped
          /\ y.waiter = d.waiter /\ y.result = d.result
          /\ d.stopped => y = d
          /\ ~d.stopped => y.con = "pending" /\ y.tmo = d.tmo
      BY BegunFacts
    <3>2. x = y
      BY <2>1 DEF Core!CbEnded
    <3> HIDE DEF y, x
    <3> QED
      BY <2>1, <3>1, <3>2
  <2>2. CASE e \notin Listeners /\ k.waiter
    <3>1. x = [d EXCEPT !.result = "ok"]
      BY <2>2 DEF Core!CbEnded
    <3> HIDE DEF x
    <3> QED
      BY <2>2, <3>1 DEF SameLife, Endpoint
  <2>3. CASE e \notin Listeners /\ ~k.waiter
    <3>1. x = d
      BY <2>3 DEF Core!CbEnded
    <3> HIDE DEF x
    <3> QED
      BY <2>3, <3>1 DEF SameLife
  <2> QED
    BY <2>1, <2>2, <2>3
<1> HIDE DEF x
<1>4. e \in Listeners => e \notin Dialers /\ ~k.waiter
  BY <1>1 DEF CoreAssumed, Kinds, Tells
<1>5. x.result = IF k.waiter THEN "ok" ELSE d.result
  BY <1>3, <1>4
<1>6. Counted(x, u, v) /\ Lives(x, Core!NoCb, u)
  BY <1>1, <1>2, <1>3, NoEpFacts, NoCbFacts DEF Counted, Lives, SameLife
<1>7. Shuts(x, u, v, s) /\ Tells(x, Core!NoCb, u)
  BY <1>1, <1>3, <1>5, NoCbFacts DEF Shuts, Tells, SameLife
<1>8. Works(x, Core!NoCb, u, s)
  <2>1. CASE e \in Dialers
    BY <1>1, <1>2, <1>3, <2>1 DEF Works, Kinds, SameLife
  <2>2. CASE e \notin Dialers
    BY <1>1, <1>3, <2>2 DEF Works, Started, Shuts, SameLife, Eps
  <2> QED
    BY <2>1, <2>2
<1>9. Kinds(e, x, Core!NoCb, u)
  BY <1>1, <1>3, NoCbFacts DEF Kinds, SameLife
<1> QED
  BY <1>3, <1>6, <1>7, <1>8, <1>9 DEF EpOK, x

(* A pipe whose count changes.                                             *)
LEMMA PipeCounted ==
  ASSUME NEW c \in PipeRec, NEW n \in Int, NEW q, q = [c EXCEPT !.ref = n]
  PROVE  /\ q \in PipeRec /\ q.ref = n /\ q.live = c.live /\ q.closed = c.closed
         /\ q.listed = c.listed /\ q.known = c.known /\ q.ep = c.ep
  BY DEF PipeRec

(* The callback gives its pipe back, and is over.                          *)
LEMMA CbReleKeeps ==
  ASSUME CoreInv, CoreAssumed, NEW e \in Eps, NEW p \in Pipes, cb[e].step # "none", p = cb[e].p, NEW c \in PipeRec,
         MayClose(c, pipe[p]), pipe' = [pipe EXCEPT ![p] = [c EXCEPT !.ref = @ - 1]],
         ep' = [ep EXCEPT ![e] = Core!CbEnded(e, @, cb[e].waiter)],
         cb' = [cb EXCEPT ![e] = Core!NoCb], UNCHANGED <<sock, user, closer, holder>>,
         reap' \in Reap, ListsOK(reap'), reap'.cur = reap.cur, reap'.step = reap.step,
         Reaped(reap') \subseteq Reaped(reap) \cup {p},
         p \in Reaped(reap') => p \in Reaped(reap) \/ c.closed
  PROVE  CoreInv'
<1> DEFINE q == [c EXCEPT !.ref = @ - 1]
           d == Core!CbEnded(e, ep[e], cb[e].waiter)
<1>0. CoreTypes /\ pipe' = [pipe EXCEPT ![p] = q] /\ ep' = [ep EXCEPT ![e] = d]
  BY DEF CoreInv
<1>1. /\ p \in Pipes /\ pipe[p] \in PipeRec /\ pipe[p].ep = e /\ pipe[p].listed /\ pipe[p].live
      /\ Added(p) /\ pipe[p].ref = 1 + One(holder = p)
      /\ \A g \in Eps \ {e} : cb[g].p # p
  BY CbPipe
<1>2. /\ c.live = pipe[p].live /\ c.ref = pipe[p].ref /\ c.listed = pipe[p].listed
      /\ c.known = pipe[p].known /\ c.ep = pipe[p].ep /\ (pipe[p].closed => c.closed)
  <2> DEFINE o == pipe[p]
  <2>1. o \in PipeRec /\ MayClose(c, o)
    BY <1>1
  <2> HIDE DEF o, q, d
  <2>2. /\ c.live = o.live /\ c.ref = o.ref /\ c.listed = o.listed
        /\ c.known = o.known /\ c.ep = o.ep /\ (o.closed => c.closed)
    BY <2>1, MayCloseFacts
  <2> QED
    BY <2>2 DEF o
<1>3. /\ q \in PipeRec /\ q.live = c.live /\ q.closed = c.closed /\ q.listed = c.listed
      /\ q.known = c.known /\ q.ep = c.ep /\ q.ref = c.ref - 1
  <2>1. c.ref - 1 \in Int
    BY DEF PipeRec
  <2>2. q = [c EXCEPT !.ref = c.ref - 1]
    OBVIOUS
  <2> HIDE DEF q
  <2> QED
    BY <2>1, <2>2, PipeCounted
<1>4. /\ d \in Endpoint /\ SameLife(ep[e], d) /\ d.closing = ep[e].closing
      /\ d.stopped = ep[e].stopped /\ EpOK(e, d, Core!NoCb, Dial(e), Close(e), sock)
  <2>1. /\ ep[e] \in Endpoint /\ cb[e] \in Adding /\ sock \in Sock
        /\ EpOK(e, ep[e], cb[e], Dial(e), Close(e), sock)
    BY EpFacts
  <2>2. Dial(e) \in User /\ Close(e) \in User
    BY <1>0, UserFacts
  <2> QED
    BY <2>1, <2>2, EpEnded
<1>5. p \in Reaped(reap') => p \in Reaped(reap) \/ c.closed
  OBVIOUS
<1>6. Reaped(reap') \subseteq Reaped(reap) \cup {p}
  OBVIOUS
<1>7. cb' = [cb EXCEPT ![e] = Core!NoCb]
  OBVIOUS
<1> HIDE DEF q, d
<1>8. /\ ep' \in [Eps -> Endpoint] /\ ep'[e] = d /\ \A g \in Eps \ {e} : ep'[g] = ep[g]
      /\ cb' \in [Eps -> Adding] /\ cb'[e] = Core!NoCb /\ \A g \in Eps \ {e} : cb'[g] = cb[g]
  BY <1>0, <1>4, <1>7, NoCbFacts DEF CoreTypes
<1>9. EpsOK'
  BY <1>4, <1>8, OneEpMoves DEF Dial, Close
<1>10. /\ \A g \in Eps : /\ ep'[g].listed = ep[g].listed /\ ep'[g].alive = ep[g].alive
                         /\ (ep[g].stopped => ep'[g].stopped)
                         /\ EpGiven(ep[g]) => EpGiven(ep'[g])
       /\ \A g \in Eps : ep'[g].pipe = ep[g].pipe
  BY <1>4, <1>8 DEF EpGiven, SameLife
<1>11. ~Added(p)' /\ \A o \in Pipes \ {p} : Added(o)' <=> Added(o)
  <2>1. \A o \in Pipes : o # None
    BY DEF CoreAssumed
  <2> QED
    BY <1>1, <1>8, <2>1, NoCbFacts DEF Added
<1>12. PipesOK'
  <2>1. pipe'[p] = q /\ PipeOK(p, pipe[p], holder = p)
    BY <1>0, <1>1 DEF CoreTypes, CoreInv, PipesOK
  <2>2. PipeOK(p, q, holder = p)'
    BY <1>1, <1>2, <1>3, <1>11, <2>1 DEF PipeOK, One
  <2>3. \A g \in Eps : /\ cb'[g].p = None \/ (cb'[g].p # p /\ cb'[g].p = cb[g].p) \/ (cb'[g].p = p /\ q.ep = g)
                       /\ ep'[g].pipe = None \/ (ep'[g].pipe # p /\ ep'[g].pipe = ep[g].pipe) \/ (ep'[g].pipe = p /\ q.ep = g)
    <3>1. \A g \in Eps : ep[g].pipe = p => pipe[p].ep = g
      BY <1>1 DEF CoreInv, PipesOK, CoreAssumed
    <3> QED
      BY <1>1, <1>2, <1>3, <1>8, <1>10, <3>1, NoCbFacts
  <2>4. q.listed => ep'[q.ep].listed
    <3>1. ep[e].listed
      BY BusyListed
    <3> QED
      BY <1>1, <1>2, <1>3, <1>10, <3>1
  <2>5. OthersHeld(p)
    BY <1>11 DEF OthersHeld
  <2>6. PointsTo(p, q)
    BY <1>10, <2>3, <2>4 DEF PointsTo
  <2> QED
    <3>1. pipe' = [pipe EXCEPT ![p] = q] /\ q \in PipeRec
      BY <1>0, <1>3
    <3> QED
      BY <2>2, <2>5, <2>6, <3>1, OnePipe
<1>13. PipeGiven(p, q, reap', sock)
  <2>1. PipeGiven(p, pipe[p], reap, sock)
    BY <1>1, PipesGiven DEF CoreInv
  <2> QED
    BY <1>1, <1>2, <1>3, <1>5, <2>1 DEF PipeGiven, One
<1>14. NothingListed => ~q.listed
  BY <1>1 DEF NothingListed
<1>15. holder' \in Pipes \cup {None}
  BY <1>0 DEF CoreTypes
<1>16. ep' \in [Eps -> Endpoint] /\ cb' \in [Eps -> Adding] /\ q \in PipeRec
  BY <1>3, <1>8
<1>17. pipe' = [pipe EXCEPT ![p] = q]
  BY <1>0
<1> QED
  BY <1>6, <1>9, <1>10, <1>12, <1>13, <1>14, <1>15, <1>16, <1>17, PipeStep

(* The callback after the pipe was started, and while it is.               *)
LEMMA CbPostedKeeps ==
  ASSUME CoreInv, CoreAssumed, NEW e \in Eps, Core!CbPosted(e) PROVE CoreInv'
<1>0. cb[e].step # "none"
  BY DEF Core!CbPosted
<1>1. PICK p \in Pipes : p = cb[e].p
  BY <1>0, CbPipe
<1>2. pipe[p] \in PipeRec /\ MayClose(pipe[p], pipe[p])
  BY <1>1 DEF CoreInv, CoreTypes, MayClose
<1>3. /\ pipe' = [pipe EXCEPT ![p] = [pipe[p] EXCEPT !.ref = @ - 1]]
      /\ ep' = [ep EXCEPT ![e] = Core!CbEnded(e, @, cb[e].waiter)]
      /\ cb' = [cb EXCEPT ![e] = Core!NoCb] /\ UNCHANGED <<sock, user, closer, holder>>
      /\ reap' = reap
  BY <1>1 DEF Core!CbPosted, Core!CbRele
<1> DEFINE c == pipe[p]
<1>5. c \in PipeRec /\ MayClose(c, pipe[p]) /\ pipe' = [pipe EXCEPT ![p] = [c EXCEPT !.ref = @ - 1]]
  BY <1>2, <1>3
<1> HIDE DEF c
<1>4. /\ reap' \in Reap /\ ListsOK(reap') /\ reap'.cur = reap.cur /\ reap'.step = reap.step
      /\ Reaped(reap') \subseteq Reaped(reap) \cup {p}
      /\ (p \in Reaped(reap') => p \in Reaped(reap) \/ c.closed)
  BY <1>3, SameReap
<1> QED
  BY <1>0, <1>1, <1>3, <1>4, <1>5, CbReleKeeps

LEMMA CbStartPipeKeeps ==
  ASSUME CoreInv, CoreAssumed, NEW e \in Eps, Core!CbStartPipe(e) PROVE CoreInv'
<1>0. cb[e].step = "pre" /\ CoreTypes
  BY DEF Core!CbStartPipe, CoreInv
<1>1. PICK p \in Pipes : p = cb[e].p
  BY <1>0, CbPipe
<1>2. pipe[p] \in PipeRec /\ MayClose(pipe[p], pipe[p]) /\ pipe[p].live
  BY <1>0, <1>1, CbPipe DEF CoreTypes, MayClose
<1>3. UNCHANGED <<sock, user, closer, holder>>
  BY DEF Core!CbStartPipe
<1>4. ASSUME Core!CbRele(e, pipe), UNCHANGED reap PROVE CoreInv'
  <2> DEFINE c == pipe[p]
  <2>1. /\ c \in PipeRec /\ MayClose(c, pipe[p])
        /\ pipe' = [pipe EXCEPT ![p] = [c EXCEPT !.ref = @ - 1]]
        /\ ep' = [ep EXCEPT ![e] = Core!CbEnded(e, @, cb[e].waiter)]
        /\ cb' = [cb EXCEPT ![e] = Core!NoCb]
    BY <1>1, <1>2, <1>4 DEF Core!CbRele
  <2> HIDE DEF c
  <2>2. /\ reap' \in Reap /\ ListsOK(reap') /\ reap'.cur = reap.cur /\ reap'.step = reap.step
        /\ Reaped(reap') \subseteq Reaped(reap) \cup {p}
        /\ (p \in Reaped(reap') => p \in Reaped(reap) \/ c.closed)
    BY <1>4, SameReap
  <2> QED
    BY <1>0, <1>1, <1>3, <2>1, <2>2, CbReleKeeps
<1>5. CASE Core!CbRele(e, Core!PipesClosed({p})) /\ reap' = Core!ToReap({p})
  <2> DEFINE c == [pipe[p] EXCEPT !.closed = TRUE]
             pp == Core!PipesClosed({p})
  <2>1. c \in PipeRec /\ MayClose(c, pipe[p]) /\ c.closed
    BY <1>2 DEF MayClose, PipeRec
  <2>2. pp = [pipe EXCEPT ![p] = c]
    BY <1>0 DEF Core!PipesClosed, CoreTypes
  <2>3. /\ pipe' = [pp EXCEPT ![p].ref = @ - 1]
        /\ ep' = [ep EXCEPT ![e] = Core!CbEnded(e, @, cb[e].waiter)]
        /\ cb' = [cb EXCEPT ![e] = Core!NoCb]
    BY <1>1, <1>5 DEF Core!CbRele
  <2> HIDE DEF c, pp
  <2>4. pipe' = [pipe EXCEPT ![p] = [c EXCEPT !.ref = @ - 1]]
    BY <1>0, <2>2, <2>3 DEF CoreTypes
  <2>5. {p} \in SUBSET Pipes /\ \A o \in {p} : pipe[o].live
    BY <1>2
  <2>6. /\ reap' \in Reap /\ ListsOK(reap') /\ reap'.cur = reap.cur /\ reap'.step = reap.step
        /\ Reaped(reap') = Reaped(reap) \cup {o \in {p} : ~pipe[o].closed}
    BY <1>5, <2>5, ClosePipes
  <2>7. /\ Reaped(reap') \subseteq Reaped(reap) \cup {p}
        /\ (p \in Reaped(reap') => p \in Reaped(reap) \/ c.closed)
    BY <2>1, <2>6
  <2> QED
    BY <1>0, <1>1, <1>3, <2>1, <2>3, <2>4, <2>6, <2>7, CbReleKeeps
<1>6. CASE cb' = [cb EXCEPT ![e].step = "post"] /\ UNCHANGED <<pipe, ep, reap>>
  <2> DEFINE k == [cb[e] EXCEPT !.step = "post"]
  <2>1. EpOK(e, ep[e], cb[e], Dial(e), Close(e), sock) /\ cb[e] \in Adding
    BY EpFacts
  <2>2. k \in Adding /\ k.p = cb[e].p /\ k.step = "post" /\ k.waiter = cb[e].waiter
    BY <2>1 DEF Adding
  <2>3. cb' = [cb EXCEPT ![e] = k]
    BY <1>6
  <2> HIDE DEF k
  <2>4. EpOK(e, ep[e], k, Dial(e), Close(e), sock)
    BY <1>0, <2>1, <2>2, NoCbFacts DEF EpOK, Lives, Tells, Works, Kinds
  <2>5. /\ cb' \in [Eps -> Adding] /\ cb'[e] = k /\ \A g \in Eps \ {e} : cb'[g] = cb[g]
    BY <1>0, <2>2, <2>3 DEF CoreTypes
  <2>6. EpsOK'
    BY <1>3, <1>6, <2>4, <2>5, OneEpMoves DEF Dial, Close
  <2>7. \A g \in Eps : cb'[g].p = cb[g].p
    BY <2>2, <2>5
  <2>8. PipesOK'
    <3>1. \A o \in Pipes : Added(o)' <=> Added(o)
      BY <2>7 DEF Added
    <3> QED
      BY <1>3, <1>6, <2>7, <3>1 DEF CoreInv, PipesOK, PipeOK, One
  <2>9. ReapOK' /\ CoreTypes'
    BY <1>0, <1>3, <1>6, <2>5 DEF CoreInv, ReapOK, CoreTypes, Fined
  <2>10. SockOK'
    BY <1>3, <1>6, SockKept DEF NothingListed, Dial
  <2> QED
    BY <2>6, <2>8, <2>9, <2>10 DEF CoreInv
<1> QED
  BY <1>1, <1>4, <1>5, <1>6 DEF Core!CbStartPipe

(* Pipes are closed, and nothing else.                                     *)
LEMMA PipesShut ==
  ASSUME CoreInv, CoreAssumed, NEW ps \in SUBSET Pipes, \A p \in ps : pipe[p].live,
         pipe' = Core!PipesClosed(ps), reap' = Core!ToReap(ps),
         UNCHANGED <<sock, ep, cb, user, closer, holder>>
  PROVE  CoreInv'
<1>1. /\ \A p \in Pipes : MayClose(pipe'[p], pipe[p])
      /\ pipe' \in [Pipes -> PipeRec] /\ \A p \in ps : pipe'[p].closed
      /\ reap' \in Reap /\ ListsOK(reap') /\ reap'.cur = reap.cur /\ reap'.step = reap.step
      /\ Reaped(reap') = Reaped(reap) \cup {p \in ps : ~pipe[p].closed}
  BY ClosePipes
<1>2. CoreTypes'
  BY <1>1 DEF CoreInv, CoreTypes
<1>3. EpsOK'
  BY NoEpMoves DEF Dial, Close
<1>4. PipesOK'
  BY <1>1, PipesKept
<1>5. ReapOK'
  <2>1. \A e \in Eps : e \in Reaped(reap') => EpGiven(ep'[e])
    BY <1>1 DEF CoreInv, ReapOK, CoreAssumed
  <2>2. \A p \in Pipes : p \in Reaped(reap') => p \in Reaped(reap) \/ (pipe'[p].closed /\ pipe[p].live)
    BY <1>1
  <2> QED
    BY <1>1, <2>1, <2>2, ReapKept
<1>6. SockOK'
  <2>1. \A p \in Pipes : pipe'[p].listed = pipe[p].listed
    BY <1>1, MayCloseFacts DEF CoreInv, CoreTypes
  <2> QED
    BY <2>1, SockKept DEF NothingListed, Dial
<1> QED
  BY <1>2, <1>3, <1>4, <1>5, <1>6 DEF CoreInv

(* A connection ends.                                                      *)
LEMMA LostKeeps ==
  ASSUME CoreInv, CoreAssumed, NEW p \in Pipes, Core!Lost(p) PROVE CoreInv'
<1>1. pipe[p].live
  BY DEF Core!Lost, CoreInv, PipesOK, PipeOK
<1> QED
  BY <1>1, PipesShut DEF Core!Lost

(* The thread in nng_pipe_close.                                           *)
LEMMA HolderMoves ==
  ASSUME CoreInv, CoreAssumed, NEW p \in Pipes, NEW q \in PipeRec, pipe' = [pipe EXCEPT ![p] = q],
         UNCHANGED <<sock, ep, cb, user, closer>>, holder' \in Pipes \cup {None},
         holder # p => holder = None, holder' # p => holder' = None,
         PipeOK(p, q, holder' = p), q.listed = pipe[p].listed, q.ep = pipe[p].ep,
         reap' \in Reap, ListsOK(reap'), reap'.cur = reap.cur, reap'.step = reap.step,
         Reaped(reap') \subseteq Reaped(reap) \cup {p}, PipeGiven(p, q, reap', sock)
  PROVE  CoreInv'
<1>1. /\ pipe'[p] = q /\ \A o \in Pipes \ {p} : pipe'[o] = pipe[o]
      /\ ep' \in [Eps -> Endpoint] /\ cb' \in [Eps -> Adding]
  BY DEF CoreInv, CoreTypes
<1>2. EpsOK'
  BY NoEpMoves DEF Dial, Close
<1>3. \A o \in Pipes : Added(o)' <=> Added(o)
  BY DEF Added
<1>4. PipesOK'
  <2>1. PipeOK(p, q, holder = p)'
    BY <1>3 DEF PipeOK, One
  <2>2. OthersHeld(p)
    BY <1>3 DEF OthersHeld, CoreAssumed
  <2>3. PointsTo(p, q)
    BY DEF PointsTo, CoreInv, PipesOK, CoreAssumed
  <2> QED
    BY <2>1, <2>2, <2>3, OnePipe
<1>5. NothingListed => ~q.listed
  BY DEF NothingListed
<1>6. \A e \in Eps : /\ ep'[e].listed = ep[e].listed /\ ep'[e].alive = ep[e].alive
                     /\ (ep[e].stopped => ep'[e].stopped)
                     /\ EpGiven(ep[e]) => EpGiven(ep'[e])
  OBVIOUS
<1> QED
  BY <1>1, <1>2, <1>4, <1>5, <1>6, PipeStep

(* nng_pipe_close finds the pipe, closes it, and gives it back.            *)
LEMMA PipeFindKeeps ==
  ASSUME CoreInv, CoreAssumed, NEW p \in Pipes, Core!PipeFind(p) PROVE CoreInv'
<1> DEFINE q == [pipe[p] EXCEPT !.ref = @ + 1]
<1>1. /\ holder = None /\ pipe[p].known /\ pipe' = [pipe EXCEPT ![p] = q] /\ holder' = p
      /\ UNCHANGED <<sock, ep, cb, reap, user, closer>>
  BY DEF Core!PipeFind
<1>2. pipe[p] \in PipeRec /\ PipeOK(p, pipe[p], holder = p) /\ p # None
      /\ PipeGiven(p, pipe[p], reap, sock)
  BY PipesGiven DEF CoreInv, CoreTypes, PipesOK, CoreAssumed
<1>3. /\ q \in PipeRec /\ q.live = pipe[p].live /\ q.closed = pipe[p].closed
      /\ q.listed = pipe[p].listed /\ q.known = pipe[p].known /\ q.ep = pipe[p].ep
      /\ q.ref = pipe[p].ref + 1
  BY <1>2 DEF PipeRec
<1> HIDE DEF q
<1>4. PipeOK(p, q, holder' = p)
  BY <1>1, <1>2, <1>3 DEF PipeOK, One
<1>5. PipeGiven(p, q, reap', sock)
  BY <1>1, <1>2, <1>3 DEF PipeGiven
<1>6. reap' \in Reap /\ ListsOK(reap') /\ reap'.cur = reap.cur /\ reap'.step = reap.step
      /\ Reaped(reap') \subseteq Reaped(reap) \cup {p}
  BY <1>1, SameReap
<1> QED
  BY <1>1, <1>3, <1>4, <1>5, <1>6, HolderMoves

LEMMA PipeCloseKeeps ==
  ASSUME CoreInv, CoreAssumed, Core!PipeClose PROVE CoreInv'
<1>0. CoreTypes
  BY DEF CoreInv
<1>1. PICK p \in Pipes : p = holder
  BY <1>0 DEF Core!PipeClose, CoreTypes
<1> DEFINE c == [pipe[p] EXCEPT !.closed = TRUE]
           pp == Core!PipesClosed({p})
           q == [c EXCEPT !.ref = @ - 1]
<1>2. /\ pipe' = [pp EXCEPT ![p].ref = @ - 1] /\ reap' = Core!ToReap({p}) /\ holder' = None
      /\ UNCHANGED <<sock, ep, cb, user, closer>>
  BY <1>1 DEF Core!PipeClose
<1>3. pipe[p] \in PipeRec /\ PipeOK(p, pipe[p], holder = p) /\ p # None
      /\ PipeGiven(p, pipe[p], reap, sock)
  BY PipesGiven DEF CoreInv, CoreTypes, PipesOK, CoreAssumed
<1>4. c \in PipeRec /\ c.live = pipe[p].live /\ c.ref = pipe[p].ref /\ c.closed
      /\ c.listed = pipe[p].listed /\ c.known = pipe[p].known /\ c.ep = pipe[p].ep
  BY <1>3 DEF PipeRec
<1>5. pp = [pipe EXCEPT ![p] = c]
  BY <1>0 DEF Core!PipesClosed, CoreTypes
<1> HIDE DEF c, pp
<1>6. pipe' = [pipe EXCEPT ![p] = q]
  BY <1>0, <1>2, <1>5 DEF CoreTypes
<1>7. /\ q \in PipeRec /\ q.live = pipe[p].live /\ q.closed /\ q.ref = pipe[p].ref - 1
      /\ q.listed = pipe[p].listed /\ q.known = pipe[p].known /\ q.ep = pipe[p].ep
  BY <1>4 DEF PipeRec
<1> HIDE DEF q
<1>8. PipeOK(p, q, holder' = p) /\ pipe[p].live
  <2>1. pipe[p].ref = One(Added(p)) + 1
    BY <1>1, <1>3 DEF PipeOK, One
  <2>2. pipe[p].live
    <3>1. ~pipe[p].live => pipe[p].ref = 0
      BY <1>3, NoPipeFacts DEF PipeOK
    <3> QED
      BY <2>1, <3>1 DEF One
  <2>3. q.ref = One(Added(p)) + One(holder' = p)
    BY <1>2, <1>3, <1>7, <2>1 DEF One
  <2> QED
    BY <1>3, <1>7, <2>2, <2>3 DEF PipeOK
<1>9. {p} \in SUBSET Pipes /\ \A o \in {p} : pipe[o].live
  BY <1>8
<1>10. /\ reap' \in Reap /\ ListsOK(reap') /\ reap'.cur = reap.cur /\ reap'.step = reap.step
       /\ Reaped(reap') = Reaped(reap) \cup {o \in {p} : ~pipe[o].closed}
  BY <1>2, <1>9, ClosePipes
<1>11. Reaped(reap') \subseteq Reaped(reap) \cup {p}
  BY <1>10
<1>12. PipeGiven(p, q, reap', sock)
  <2>1. pipe[p].ref # 0
    BY <1>1, <1>3 DEF PipeOK, One
  <2> QED
    BY <1>3, <1>7, <1>8, <1>10, <2>1 DEF PipeGiven
<1> QED
  BY <1>1, <1>2, <1>6, <1>7, <1>8, <1>10, <1>11, <1>12, HolderMoves

-----------------------------------------------------------------------------
(* The reaper takes what it was given.                                     *)
LEMMA ReaperMoves ==
  ASSUME CoreInv, CoreAssumed, UNCHANGED <<sock, ep, pipe, cb, user, closer, holder>>,
         reap' \in Reap, ListsOK(reap'), Reaped(reap') \subseteq Reaped(reap),
         reap.step = "none", reap'.step \in {"none", "id", "stop"},
         \A p \in Pipes : reap'.cur = p => reap'.step = "id"
  PROVE  CoreInv'
<1>1. CoreTypes' /\ PipesOK'
  <2>1. CoreTypes /\ PipesOK
    BY DEF CoreInv
  <2>2. \A p : Added(p)' <=> Added(p)
    BY DEF Added
  <2>3. PipesOK'
    BY <2>1, <2>2 DEF PipesOK, PipeOK, One
  <2> QED
    BY <2>1, <2>3 DEF CoreTypes
<1>2. EpsOK'
  BY NoEpMoves DEF Dial, Close
<1>3. SockOK'
  BY SockKept DEF NothingListed, Dial
<1>4. ReapOK'
  <2>1. ReapOK /\ \A x : ~Fined(x) /\ ~Fined(x)'
    BY DEF CoreInv, Fined
  <2>2. /\ \A e \in Eps : e \in Reaped(reap') => EpGiven(ep'[e])
        /\ \A p \in Pipes : p \in Reaped(reap') => pipe'[p].closed /\ pipe'[p].live
        /\ \A e \in Eps : ep'[e].alive => ep'[e].listed
        /\ ~sock.failed => \A p \in Pipes : pipe'[p].live => pipe'[p].listed
    BY <2>1 DEF ReapOK
  <2>3. reap'.step # "reap" /\ \A p \in Pipes : ~(reap'.cur = p /\ reap'.step # "id")
    OBVIOUS
  <2> QED
    BY <2>1, <2>2, <2>3 DEF ReapOK
<1> QED
  BY <1>1, <1>2, <1>3, <1>4 DEF CoreInv

(* The reaper takes a list.                                                *)
LEMMA ReapTakeKeeps ==
  ASSUME CoreInv, CoreAssumed, Core!ReapTake PROVE CoreInv'
<1>1. /\ reap.hand = <<>> /\ reap.cur = None
      /\ UNCHANGED <<sock, ep, pipe, cb, user, closer, holder>>
  BY DEF Core!ReapTake
<1>2. reap \in Reap /\ ListsOK(reap) /\ reap.step = "none"
  BY <1>1 DEF CoreInv, CoreTypes, ReapOK, ListsOK
<1>3. /\ reap.pipes \in Seq(Pipes) /\ reap.eps \in Seq(Eps) /\ reap.hand \in Seq(Eps \cup Pipes)
      /\ <<>> \in Seq(Pipes) /\ <<>> \in Seq(Eps)
  BY <1>2 DEF Reap
<1>4. reap.pipes \in Seq(Eps \cup Pipes) /\ reap.eps \in Seq(Eps \cup Pipes)
  <2>1. Seq(Eps) \subseteq Seq(Eps \cup Pipes) /\ Seq(Pipes) \subseteq Seq(Eps \cup Pipes)
    OBVIOUS
  <2> QED
    BY <1>3, <2>1
<1>5. In(<<>>) = {} /\ Once(<<>>)
  BY DEF In, Once
<1>6. CASE reap' = [reap EXCEPT !.hand = reap.pipes, !.pipes = <<>>, !.at = "eps"]
  <2>1. /\ reap' \in Reap /\ reap'.pipes = <<>> /\ reap'.eps = reap.eps /\ reap'.hand = reap.pipes
        /\ reap'.cur = None /\ reap'.step = "none"
    <3> DEFINE a == [reap EXCEPT !.hand = reap.pipes]
               b == [a EXCEPT !.pipes = <<>>]
    <3>1. a \in Reap /\ a.pipes = reap.pipes /\ a.eps = reap.eps /\ a.hand = reap.pipes
          /\ a.cur = None /\ a.step = "none"
      BY <1>1, <1>2, <1>4 DEF Reap
    <3>2. reap' = [b EXCEPT !.at = "eps"]
      BY <1>6
    <3> HIDE DEF a
    <3>3. b \in Reap /\ b.pipes = <<>> /\ b.eps = reap.eps /\ b.hand = reap.pipes
          /\ b.cur = None /\ b.step = "none"
      BY <1>3, <3>1 DEF Reap
    <3> HIDE DEF b
    <3> QED
      BY <3>2, <3>3 DEF Reap
  <2>2. ListsOK(reap')
    <3>1. In(reap.pipes) \cap In(reap.eps) = {}
      <4>1. In(reap.pipes) \subseteq Pipes /\ In(reap.eps) \subseteq Eps
        BY <1>3, SeqMembers
      <4> QED
        BY <4>1 DEF CoreAssumed
    <3> QED
      BY <1>1, <1>2, <1>5, <2>1, <3>1 DEF ListsOK
  <2>3. Reaped(reap') \subseteq Reaped(reap)
    BY <1>1, <1>5, <2>1 DEF Reaped
  <2>4. \A p \in Pipes : reap'.cur # p
    BY <2>1 DEF CoreAssumed
  <2> QED
    BY <1>1, <1>2, <2>1, <2>2, <2>3, <2>4, ReaperMoves
<1>7. CASE reap' = [reap EXCEPT !.hand = reap.eps, !.eps = <<>>, !.at = "pipes"]
  <2>1. /\ reap' \in Reap /\ reap'.eps = <<>> /\ reap'.pipes = reap.pipes /\ reap'.hand = reap.eps
        /\ reap'.cur = None /\ reap'.step = "none"
    <3> DEFINE a == [reap EXCEPT !.hand = reap.eps]
               b == [a EXCEPT !.eps = <<>>]
    <3>1. a \in Reap /\ a.pipes = reap.pipes /\ a.eps = reap.eps /\ a.hand = reap.eps
          /\ a.cur = None /\ a.step = "none"
      BY <1>1, <1>2, <1>4 DEF Reap
    <3>2. reap' = [b EXCEPT !.at = "pipes"]
      BY <1>7
    <3> HIDE DEF a
    <3>3. b \in Reap /\ b.eps = <<>> /\ b.pipes = reap.pipes /\ b.hand = reap.eps
          /\ b.cur = None /\ b.step = "none"
      BY <1>3, <3>1 DEF Reap
    <3> HIDE DEF b
    <3> QED
      BY <3>2, <3>3 DEF Reap
  <2>2. ListsOK(reap')
    <3>1. In(reap.pipes) \cap In(reap.eps) = {}
      <4>1. In(reap.pipes) \subseteq Pipes /\ In(reap.eps) \subseteq Eps
        BY <1>3, SeqMembers
      <4> QED
        BY <4>1 DEF CoreAssumed
    <3> QED
      BY <1>1, <1>2, <1>5, <2>1, <3>1 DEF ListsOK
  <2>3. Reaped(reap') \subseteq Reaped(reap)
    BY <1>1, <1>5, <2>1 DEF Reaped
  <2>4. \A p \in Pipes : reap'.cur # p
    BY <2>1 DEF CoreAssumed
  <2> QED
    BY <1>1, <1>2, <2>1, <2>2, <2>3, <2>4, ReaperMoves
<1> QED
  BY <1>6, <1>7 DEF Core!ReapTake

(* The first of a sequence, and the rest.                                  *)
LEMMA FirstAndRest ==
  ASSUME NEW S, NEW s \in Seq(S), s # <<>>, Once(s)
  PROVE  /\ Head(s) \in S /\ Tail(s) \in Seq(S) /\ Once(Tail(s))
         /\ In(s) = {Head(s)} \cup In(Tail(s)) /\ Head(s) \notin In(Tail(s))
<1> DEFINE n == Len(s)
           t == Tail(s)
<1>1. n \in Nat /\ n > 0 /\ DOMAIN s = 1..n /\ Head(s) = s[1] /\ s[1] \in S
  <2>1. n \in Nat /\ n # 0 /\ DOMAIN s = 1..n
    BY LenProperties, EmptySeq
  <2>2. 1 \in 1..n
    BY <2>1
  <2> QED
    BY <2>1, <2>2, LenProperties, HeadTailProperties
<1>2. t \in Seq(S) /\ Len(t) = n - 1 /\ \A i \in 1..(n - 1) : t[i] = s[i + 1]
  BY HeadTailProperties
<1>3. DOMAIN t = 1..(n - 1)
  BY <1>2, LenProperties
<1> HIDE DEF n, t
<1>4. Once(t)
  <2>1. \A i \in 1..(n - 1) : i + 1 \in 1..n
    BY <1>1
  <2>2. SUFFICES ASSUME NEW i \in 1..(n - 1), NEW j \in 1..(n - 1), t[i] = t[j] PROVE i = j
    BY <1>3 DEF Once
  <2>3. s[i + 1] = s[j + 1]
    BY <1>2, <2>2
  <2>4. i + 1 = j + 1
    BY <1>1, <2>1, <2>3 DEF Once
  <2> QED
    BY <1>1, <2>4
<1>5. In(s) \subseteq {s[1]} \cup In(t)
  <2>1. \A i \in 1..n : i = 1 \/ (i - 1 \in 1..(n - 1) /\ (i - 1) + 1 = i)
    BY <1>1
  <2>2. \A i \in 1..n : i = 1 \/ s[i] = t[i - 1]
    BY <1>2, <2>1
  <2> QED
    BY <1>1, <1>3, <2>1, <2>2 DEF In
<1>6. In(t) \subseteq In(s) /\ s[1] \notin In(t) /\ s[1] \in In(s)
  <2>1. \A i \in 1..(n - 1) : i + 1 \in 1..n /\ i + 1 # 1
    BY <1>1
  <2>2. 1 \in 1..n
    BY <1>1
  <2>3. \A i \in 1..(n - 1) : s[i + 1] # s[1]
    BY <1>1, <2>1, <2>2 DEF Once
  <2> QED
    BY <1>1, <1>2, <1>3, <2>1, <2>2, <2>3 DEF In
<1> QED
  BY <1>1, <1>2, <1>4, <1>5, <1>6 DEF t

(* The reaper takes the first of its list.                                 *)
LEMMA ReapNextKeeps ==
  ASSUME CoreInv, CoreAssumed, Core!ReapNext PROVE CoreInv'
<1> DEFINE x == Head(reap.hand)
           a == [reap EXCEPT !.cur = x]
           b == [a EXCEPT !.hand = Tail(@)]
           k == IF x \in Pipes THEN "id" ELSE "stop"
<1>1. /\ reap.hand # <<>> /\ reap.cur = None /\ reap' = [b EXCEPT !.step = k]
      /\ UNCHANGED <<sock, ep, pipe, cb, user, closer, holder>>
  BY DEF Core!ReapNext
<1>2. reap \in Reap /\ ListsOK(reap) /\ reap.step = "none" /\ reap.hand \in Seq(Eps \cup Pipes)
  BY <1>1 DEF CoreInv, CoreTypes, ReapOK, ListsOK, Reap
<1>3. /\ x \in Eps \cup Pipes /\ Tail(reap.hand) \in Seq(Eps \cup Pipes) /\ Once(Tail(reap.hand))
      /\ In(reap.hand) = {x} \cup In(Tail(reap.hand)) /\ x \notin In(Tail(reap.hand))
  BY <1>1, <1>2, FirstAndRest DEF ListsOK
<1>4. k \in {"id", "stop"} /\ (x \in Pipes => k = "id") /\ (x \notin Pipes => k = "stop")
  OBVIOUS
<1> HIDE DEF x, k
<1>5. /\ a \in Reap /\ a.cur = x /\ a.hand = reap.hand /\ a.pipes = reap.pipes /\ a.eps = reap.eps
  BY <1>2, <1>3 DEF Reap
<1> HIDE DEF a
<1>6. b \in Reap /\ b.cur = x /\ b.hand = Tail(reap.hand) /\ b.pipes = reap.pipes /\ b.eps = reap.eps
  BY <1>3, <1>5 DEF Reap
<1> HIDE DEF b
<1>7. /\ reap' \in Reap /\ reap'.cur = x /\ reap'.hand = Tail(reap.hand)
      /\ reap'.pipes = reap.pipes /\ reap'.eps = reap.eps /\ reap'.step = k
  BY <1>1, <1>4, <1>6 DEF Reap
<1>8. ListsOK(reap')
  <2>1. x # None
    BY <1>3 DEF CoreAssumed
  <2> QED
    BY <1>2, <1>3, <1>4, <1>7, <2>1 DEF ListsOK
<1>9. Reaped(reap') \subseteq Reaped(reap)
  BY <1>3, <1>7 DEF Reaped
<1> QED
  BY <1>1, <1>2, <1>4, <1>7, <1>8, <1>9, ReaperMoves

-----------------------------------------------------------------------------
(* The reaper takes a pipe apart.                                          *)
LEMMA ReaperPipe ==
  ASSUME CoreInv, CoreAssumed, NEW p \in Pipes, p = reap.cur, NEW q \in PipeRec, pipe' = [pipe EXCEPT ![p] = q],
         UNCHANGED <<sock, cb, user, closer, holder>>,
         ep' \in [Eps -> Endpoint], EpsOK', PipesOK',
         \A e \in Eps : /\ ep'[e].listed = ep[e].listed /\ ep'[e].alive = ep[e].alive
                        /\ EpGiven(ep[e]) => EpGiven(ep'[e]),
         q.listed => pipe[p].listed,
         reap' \in Reap, ListsOK(reap'), reap'.cur \in {p, None}, reap'.step # "reap",
         Reaped(reap') \subseteq Reaped(reap), PipeGiven(p, q, reap', sock)
  PROVE  CoreInv'
<1>1. CoreTypes'
  BY DEF CoreInv, CoreTypes
<1>2. /\ pipe'[p] = q /\ \A o \in Pipes \ {p} : pipe'[o] = pipe[o]
  BY DEF CoreInv, CoreTypes
<1>3. ReapOK
  BY DEF CoreInv
<1>4. ReapOK'
  <2>1. \A e \in Eps : ~Fined(e) /\ ~Fined(e)'
    BY DEF Fined, CoreAssumed
  <2>2. ASSUME NEW o \in Pipes PROVE PipeGiven(o, pipe'[o], reap', sock)
    <3>1. CASE o = p
      BY <1>2, <3>1
    <3>2. CASE o # p
      <4>1. PipeGiven(o, pipe[o], reap, sock) /\ pipe'[o] = pipe[o]
        BY <1>2, <1>3, <3>2, PipesGiven
      <4>2. (o \in Reaped(reap') => o \in Reaped(reap)) /\ reap'.cur # o /\ reap.cur # o
        BY <3>2 DEF CoreAssumed
      <4> QED
        BY <4>1, <4>2 DEF PipeGiven
    <3> QED
      BY <3>1, <3>2
  <2>3. \A e \in Eps : e \in Reaped(reap') => EpGiven(ep'[e])
    BY <1>3 DEF ReapOK
  <2>4. \A e \in Eps : (ep'[e].alive => ep'[e].listed \/ Fined(e)') /\ (Fined(e)' => ~ep'[e].listed)
    BY <1>3, <2>1 DEF ReapOK
  <2>6. \A o \in Pipes : /\ o \in Reaped(reap') => pipe'[o].closed /\ pipe'[o].live
                         /\ Fined(o)' => ~pipe'[o].listed /\ pipe'[o].ref = 0
                         /\ reap'.cur = o /\ reap'.step # "id" => ~pipe'[o].known
                         /\ ~sock.failed /\ pipe'[o].live => pipe'[o].listed \/ Fined(o)'
    BY <2>2 DEF PipeGiven, Fined
  <2> QED
    BY <2>3, <2>4, <2>6 DEF ReapOK
<1>5. NothingListed => NothingListed'
  BY <1>2 DEF NothingListed
<1>6. SockOK'
  BY <1>5, SockKept DEF Dial
<1> QED
  BY <1>1, <1>4, <1>6 DEF CoreInv

(* The lists stay when the reaper goes on with what it has.                *)
LEMMA ReaperGoesOn ==
  ASSUME NEW r \in Reap, ListsOK(r), NEW t \in {"id", "wait", "stop", "reap", "fini"}, r.cur # None,
         t \in {"id", "wait"} => r.cur \in Pipes, t \in {"stop", "reap"} => r.cur \in Eps
  PROVE  LET q == [r EXCEPT !.step = t]
         IN  /\ q \in Reap /\ ListsOK(q) /\ Reaped(q) = Reaped(r) /\ q.cur = r.cur /\ q.step = t
<1> DEFINE q == [r EXCEPT !.step = t]
<1>1. /\ q \in Reap /\ q.cur = r.cur /\ q.step = t /\ q.pipes = r.pipes /\ q.eps = r.eps
      /\ q.hand = r.hand
  BY DEF Reap
<1> HIDE DEF q
<1>2. ListsOK(q)
  BY <1>1 DEF ListsOK
<1>3. Reaped(q) = Reaped(r)
  BY <1>1 DEF Reaped
<1> QED
  BY <1>1, <1>2, <1>3 DEF q

(* ... and when it is done with it.                                        *)
LEMMA ReaperEnds ==
  ASSUME NEW r \in Reap, ListsOK(r), r.cur # None, CoreAssumed
  PROVE  LET q == [r EXCEPT !.cur = None, !.step = "none"]
         IN  /\ q \in Reap /\ ListsOK(q) /\ Reaped(q) \subseteq Reaped(r) /\ r.cur \notin Reaped(q)
             /\ q.cur = None /\ q.step = "none" /\ q.pipes = r.pipes /\ q.eps = r.eps
<1> DEFINE a == [r EXCEPT !.cur = None]
           q == [r EXCEPT !.cur = None, !.step = "none"]
<1>0. q = [a EXCEPT !.step = "none"]
  OBVIOUS
<1>1. /\ a \in Reap /\ a.cur = None /\ a.pipes = r.pipes /\ a.eps = r.eps /\ a.hand = r.hand
  BY DEF Reap
<1> HIDE DEF a, q
<1>2. /\ q \in Reap /\ q.cur = None /\ q.step = "none" /\ q.pipes = r.pipes /\ q.eps = r.eps
      /\ q.hand = r.hand
  BY <1>0, <1>1 DEF Reap
<1>3. ListsOK(q)
  <2>1. None \notin In(r.pipes) \cup In(r.eps) \cup In(r.hand)
    <3>1. In(r.pipes) \subseteq Pipes /\ In(r.eps) \subseteq Eps /\ In(r.hand) \subseteq Eps \cup Pipes
      BY SeqMembers DEF Reap
    <3> QED
      BY <3>1 DEF CoreAssumed
  <2> QED
    BY <1>2, <2>1 DEF ListsOK
<1>4. Reaped(q) \subseteq Reaped(r) /\ r.cur \notin Reaped(q)
  BY <1>2 DEF Reaped, ListsOK
<1> QED
  BY <1>2, <1>3, <1>4 DEF q

(* pipe_destroy forgets the identifier, and frees the pipe in the end.     *)
LEMMA PipeUnknownKeeps ==
  ASSUME CoreInv, CoreAssumed, Core!PipeUnknown PROVE CoreInv'
<1>0. CoreTypes /\ reap.step = "id" /\ reap \in Reap /\ ListsOK(reap)
  BY DEF Core!PipeUnknown, CoreInv, CoreTypes, ReapOK
<1>1. PICK p \in Pipes : p = reap.cur
  BY <1>0 DEF ListsOK
<1>13. PICK q \in PipeRec : q = [pipe[p] EXCEPT !.known = FALSE]
  <2>1. pipe[p] \in PipeRec
    BY <1>0 DEF CoreTypes
  <2>2. [pipe[p] EXCEPT !.known = FALSE] \in PipeRec
    BY <2>1 DEF PipeRec
  <2> QED
    BY <2>2
<1>2. /\ pipe' = [pipe EXCEPT ![p] = q] /\ reap' = [reap EXCEPT !.step = "wait"]
      /\ UNCHANGED <<sock, ep, cb, user, closer, holder>>
  BY <1>1, <1>13 DEF Core!PipeUnknown
<1>3. pipe[p] \in PipeRec /\ PipeOK(p, pipe[p], holder = p) /\ p # None
      /\ PipeGiven(p, pipe[p], reap, sock)
  BY PipesGiven DEF CoreInv, CoreTypes, PipesOK, CoreAssumed
<1>4. /\ q \in PipeRec /\ q.live = pipe[p].live /\ q.closed = pipe[p].closed
      /\ q.listed = pipe[p].listed /\ ~q.known /\ q.ep = pipe[p].ep /\ q.ref = pipe[p].ref
  BY <1>13, <1>3 DEF PipeRec
<1>5. /\ reap' \in Reap /\ ListsOK(reap') /\ Reaped(reap') = Reaped(reap) /\ reap'.cur = reap.cur
      /\ reap'.step = "wait"
  BY <1>0, <1>1, <1>2, <1>3, ReaperGoesOn
<1>6. EpsOK' /\ ep' \in [Eps -> Endpoint]
  BY <1>0, <1>2, NoEpMoves DEF Dial, Close, CoreTypes
<1>7. p \in Reaped(reap)
  BY <1>1, <1>3 DEF Reaped
<1>8. pipe[p].live
  BY <1>3, <1>7 DEF PipeGiven
<1>9. PipesOK'
  <2>1. \A o \in Pipes : Added(o)' <=> Added(o)
    BY <1>2 DEF Added
  <2>2. PipeOK(p, q, holder = p)'
    BY <1>2, <1>3, <1>4, <1>8, <2>1 DEF PipeOK, One
  <2>3. OthersHeld(p)
    BY <1>2, <2>1 DEF OthersHeld
  <2>4. PointsTo(p, q)
    BY <1>2, <1>4 DEF PointsTo, CoreInv, PipesOK, CoreAssumed
  <2> QED
    BY <1>2, <1>4, <2>2, <2>3, <2>4, OnePipe
<1>10. PipeGiven(p, q, reap', sock)
  BY <1>0, <1>1, <1>3, <1>4, <1>5 DEF PipeGiven
<1>11. \A e \in Eps : /\ ep'[e].listed = ep[e].listed /\ ep'[e].alive = ep[e].alive
                      /\ EpGiven(ep[e]) => EpGiven(ep'[e])
  BY <1>2
<1>12. (q.listed => pipe[p].listed) /\ reap'.cur \in {p, None} /\ reap'.step # "reap"
       /\ Reaped(reap') \subseteq Reaped(reap)
  BY <1>1, <1>4, <1>5
<1> QED
  BY <1>1, <1>2, <1>4, <1>5, <1>6, <1>9, <1>10, <1>11, <1>12, ReaperPipe

(* A pipe that is not listed is nobody's.                                  *)
LEMMA Unlisted ==
  ASSUME CoreInv, CoreAssumed, NEW p \in Pipes, ~pipe[p].listed, NEW e \in Eps
  PROVE  cb[e].p # p /\ ep[e].pipe # p
<1>1. pipe[p].ep \notin Eps /\ p # None
  BY DEF CoreInv, PipesOK, PipeOK, CoreAssumed
<1> QED
  BY <1>1 DEF CoreInv, PipesOK

LEMMA PipeFiniKeeps ==
  ASSUME CoreInv, CoreAssumed, Core!PipeFini PROVE CoreInv'
<1>0. CoreTypes /\ reap.step = "fini" /\ reap \in Reap /\ ListsOK(reap)
  BY DEF Core!PipeFini, CoreInv, CoreTypes, ReapOK
<1>1. PICK p \in Pipes : p = reap.cur
  BY DEF Core!PipeFini
<1>2. /\ pipe' = [pipe EXCEPT ![p] = Core!NoPipe]
      /\ reap' = [reap EXCEPT !.cur = None, !.step = "none"]
      /\ UNCHANGED <<sock, ep, cb, user, closer, holder>>
  BY <1>1 DEF Core!PipeFini
<1>3. pipe[p] \in PipeRec /\ PipeOK(p, pipe[p], holder = p) /\ p # None
      /\ PipeGiven(p, pipe[p], reap, sock)
  BY PipesGiven DEF CoreInv, CoreTypes, PipesOK, CoreAssumed
<1>4. ~pipe[p].listed /\ ~Added(p) /\ holder # p
  BY <1>0, <1>1, <1>3 DEF PipeGiven, PipeOK, One
<1>5. /\ reap' \in Reap /\ ListsOK(reap') /\ Reaped(reap') \subseteq Reaped(reap) /\ reap'.cur = None
      /\ reap'.step = "none" /\ p \notin Reaped(reap')
  BY <1>0, <1>1, <1>2, <1>3, ReaperEnds
<1>6. EpsOK' /\ ep' \in [Eps -> Endpoint]
  BY <1>0, <1>2, NoEpMoves DEF Dial, Close, CoreTypes
<1>9. PipesOK'
  <2>1. \A o \in Pipes : Added(o)' <=> Added(o)
    BY <1>2 DEF Added
  <2>2. PipeOK(p, Core!NoPipe, holder = p)'
    BY <1>2, <1>4, <2>1, NoPipeFacts DEF PipeOK, One, CoreAssumed
  <2>3. OthersHeld(p)
    BY <1>2, <2>1 DEF OthersHeld
  <2>4. \A e \in Eps : cb[e].p # p /\ ep[e].pipe # p
    BY <1>4, Unlisted
  <2>5. PointsTo(p, Core!NoPipe)
    BY <1>2, <2>4, NoPipeFacts DEF PointsTo
  <2> QED
    BY <1>2, <2>2, <2>3, <2>5, NoPipeFacts, OnePipe
<1>10. PipeGiven(p, Core!NoPipe, reap', sock)
  BY <1>3, <1>5, NoPipeFacts DEF PipeGiven
<1>11. \A e \in Eps : /\ ep'[e].listed = ep[e].listed /\ ep'[e].alive = ep[e].alive
                      /\ EpGiven(ep[e]) => EpGiven(ep'[e])
  BY <1>2
<1>12. ~Core!NoPipe.listed /\ reap'.cur \in {p, None} /\ reap'.step # "reap"
  BY <1>5, NoPipeFacts
<1>13. Core!NoPipe \in PipeRec
  BY NoPipeFacts
<1> QED
  BY <1>1, <1>2, <1>5, <1>6, <1>9, <1>10, <1>11, <1>12, <1>13, ReaperPipe

(* The pipe of a dialer is taken away: it waits to connect again.          *)
LEMMA EpLosesPipe ==
  ASSUME NEW e, NEW d \in Endpoint, NEW k \in Adding, NEW u \in User, NEW v \in User, NEW s \in Sock,
         EpOK(e, d, k, u, v, s), d.pipe # None, k.step = "none", s.closed => d.closing, s = sock
  PROVE  LET x == Core!TimerStarted([d EXCEPT !.pipe = None])
         IN  /\ x \in Endpoint /\ x.listed = d.listed /\ x.alive = d.alive
             /\ x.ref = d.ref /\ x.closed = d.closed /\ x.closing = d.closing
             /\ x.stopped = d.stopped /\ x.pipe = None /\ EpOK(e, x, k, u, v, s)
<1> DEFINE c == [d EXCEPT !.pipe = None]
           y == Core!Begun(c, "tmo")
           x == Core!TimerStarted(c)
<1>1. /\ Counted(d, u, v) /\ Lives(d, k, u) /\ Shuts(d, u, v, s)
      /\ Tells(d, k, u) /\ Works(d, k, u, s) /\ Kinds(e, d, k, u)
  BY DEF EpOK
<1>2. /\ c \in Endpoint /\ c.alive = d.alive /\ c.listed = d.listed /\ c.ref = d.ref
      /\ c.closed = d.closed /\ c.closing = d.closing /\ c.pipe = None /\ c.con = d.con
      /\ c.tmo = d.tmo /\ c.stopped = d.stopped /\ c.waiter = d.waiter /\ c.result = d.result
  BY DEF Endpoint
<1> HIDE DEF c
<1>3. /\ y \in Endpoint /\ SameLife(c, y) /\ y.closing = c.closing /\ y.stopped = c.stopped
      /\ y.waiter = c.waiter /\ y.result = c.result
      /\ c.stopped => y = c
      /\ ~c.stopped => y.tmo = "pending" /\ y.con = c.con
  BY <1>2, BegunFacts
<1>4. x = IF c.closing \/ sock.closed THEN c ELSE y
  BY DEF Core!TimerStarted
<1> HIDE DEF x, y
<1>5. /\ x \in Endpoint /\ x.alive = d.alive /\ x.listed = d.listed /\ x.ref = d.ref
      /\ x.closed = d.closed /\ x.closing = d.closing /\ x.pipe = None
      /\ x.con = d.con /\ x.stopped = d.stopped /\ x.waiter = d.waiter /\ x.result = d.result
      /\ x.tmo = d.tmo \/ x.tmo = "pending"
      /\ ~d.closing /\ ~d.stopped => x.tmo = "pending"
  BY <1>2, <1>3, <1>4 DEF SameLife
<1>6. d.listed
  BY <1>1 DEF Lives
<1>7. Counted(x, u, v) /\ Lives(x, k, u)
  BY <1>1, <1>5, <1>6, NoEpFacts DEF Counted, Lives
<1>8. Shuts(x, u, v, s) /\ Tells(x, k, u)
  BY <1>1, <1>5 DEF Shuts, Tells
<1>9. Works(x, k, u, s) /\ Kinds(e, x, k, u)
  BY <1>1, <1>5 DEF Works, Started, Shuts, Kinds
<1> QED
  BY <1>5, <1>7, <1>8, <1>9 DEF EpOK, x, c

(* A pipe that nobody holds is taken off the lists; its dialer tries       *)
(* again.                                                                  *)
LEMMA PipeRemoveKeeps ==
  ASSUME CoreInv, CoreAssumed, Core!PipeRemove PROVE CoreInv'
<1>0. CoreTypes /\ reap.step = "wait" /\ reap \in Reap /\ ListsOK(reap)
  BY DEF Core!PipeRemove, CoreInv, CoreTypes, ReapOK
<1>1. PICK p \in Pipes : p = reap.cur
  BY <1>0 DEF ListsOK
<1>2. pipe[p] \in PipeRec /\ PipeOK(p, pipe[p], holder = p) /\ p # None
      /\ PipeGiven(p, pipe[p], reap, sock) /\ pipe[p].ref = 0
  BY <1>1, PipesGiven DEF CoreInv, CoreTypes, PipesOK, CoreAssumed, Core!PipeRemove
<1>3. PICK q \in PipeRec : q = [pipe[p] EXCEPT !.listed = FALSE, !.ep = None]
  <2> DEFINE a == [pipe[p] EXCEPT !.listed = FALSE]
  <2>1. a \in PipeRec
    BY <1>2 DEF PipeRec
  <2>2. [pipe[p] EXCEPT !.listed = FALSE, !.ep = None] = [a EXCEPT !.ep = None]
    OBVIOUS
  <2> HIDE DEF a
  <2>3. [a EXCEPT !.ep = None] \in PipeRec
    BY <2>1 DEF PipeRec
  <2> QED
    BY <2>2, <2>3
<1>4. /\ pipe' = [pipe EXCEPT ![p] = q] /\ reap' = [reap EXCEPT !.step = "fini"]
      /\ UNCHANGED <<sock, cb, user, closer, holder>>
  <2>1. /\ pipe' = [pipe EXCEPT ![p].listed = FALSE, ![p].ep = None]
        /\ reap' = [reap EXCEPT !.step = "fini"] /\ UNCHANGED <<sock, cb, user, closer, holder>>
    BY <1>1 DEF Core!PipeRemove
  <2> QED
    BY <1>0, <1>3, <2>1 DEF CoreTypes
<1>5. /\ q.live = pipe[p].live /\ q.closed = pipe[p].closed
      /\ ~q.listed /\ q.known = pipe[p].known /\ q.ep = None /\ q.ref = 0
  BY <1>2, <1>3 DEF PipeRec
<1>6. /\ reap' \in Reap /\ ListsOK(reap') /\ Reaped(reap') = Reaped(reap) /\ reap'.cur = reap.cur
      /\ reap'.step = "fini"
  BY <1>0, <1>1, <1>2, <1>4, ReaperGoesOn
<1>7. ~Added(p) /\ holder # p /\ \A g \in Eps : ep[g].pipe = p => pipe[p].ep = g
  BY <1>2 DEF PipeOK, One, CoreInv, PipesOK
<1>8. /\ ep' \in [Eps -> Endpoint] /\ EpsOK'
      /\ \A g \in Eps : /\ ep'[g].listed = ep[g].listed /\ ep'[g].alive = ep[g].alive
                        /\ ep'[g].pipe = (IF ep[g].pipe = p THEN None ELSE ep[g].pipe)
                        /\ EpGiven(ep[g]) => EpGiven(ep'[g])
  <2>1. CASE p \in {ep[g].pipe : g \in {pipe[p].ep} \cap Eps}
    <3>1. PICK e \in Eps : e = pipe[p].ep /\ ep[e].pipe = p
      BY <2>1
    <3> DEFINE x == Core!TimerStarted([ep[e] EXCEPT !.pipe = None])
    <3>2. ep' = [ep EXCEPT ![e] = x]
      <4>1. ep' = [ep EXCEPT ![pipe[p].ep] = Core!TimerStarted([@ EXCEPT !.pipe = None])]
        BY <1>1, <2>1, CoreNames DEF Core!PipeRemove
      <4> QED
        BY <3>1, <4>1
    <3>3. EpOK(e, ep[e], cb[e], Dial(e), Close(e), sock) /\ ep[e] \in Endpoint /\ cb[e] \in Adding
          /\ sock \in Sock /\ Dial(e) \in User /\ Close(e) \in User
      BY <1>0, EpFacts, UserFacts
    <3>4. ep[e].pipe # None /\ cb[e].step = "none" /\ (sock.closed => ep[e].closing)
      <4>1. ep[e].pipe # None
        BY <1>2, <3>1
      <4>2. cb[e].step = "none"
        <5>1. cb[e].step # "none" => cb[e].p = p
          <6>1. e \in Dialers
            BY <3>3, <4>1 DEF EpOK, Kinds
          <6> QED
            BY <3>1, <3>3, <6>1 DEF EpOK, Kinds
        <5> QED
          BY <1>7, <5>1 DEF Added
      <4>3. sock.closed => sock.closing
        BY DEF CoreInv, SockOK
      <4>4. ep[e].listed
        BY <3>3, <4>1 DEF EpOK, Lives
      <4> QED
        BY <3>3, <4>1, <4>2, <4>3, <4>4 DEF EpOK, Shuts
    <3>5. /\ x \in Endpoint /\ x.listed = ep[e].listed /\ x.alive = ep[e].alive
          /\ x.ref = ep[e].ref /\ x.closed = ep[e].closed /\ x.closing = ep[e].closing
          /\ x.stopped = ep[e].stopped /\ x.pipe = None
          /\ EpOK(e, x, cb[e], Dial(e), Close(e), sock)
      BY <3>3, <3>4, EpLosesPipe
    <3> HIDE DEF x
    <3>6. ep' \in [Eps -> Endpoint] /\ ep'[e] = x /\ \A g \in Eps \ {e} : ep'[g] = ep[g]
      BY <1>0, <3>2, <3>5 DEF CoreTypes
    <3>7. EpsOK'
      BY <1>4, <3>5, <3>6, OneEpMoves DEF Dial, Close
    <3> QED
      BY <1>7, <3>1, <3>5, <3>6, <3>7 DEF EpGiven
  <2>2. CASE p \notin {ep[g].pipe : g \in {pipe[p].ep} \cap Eps}
    <3>1. ep' = ep
      BY <1>1, <2>2, CoreNames DEF Core!PipeRemove
    <3>2. EpsOK'
      BY <1>4, <3>1, NoEpMoves DEF Dial, Close
    <3>3. \A g \in Eps : ep[g].pipe # p
      BY <1>7, <2>2
    <3> QED
      BY <1>0, <3>1, <3>2, <3>3 DEF CoreTypes
  <2> QED
    BY <2>1, <2>2
<1>9. PipesOK'
  <2>1. \A o \in Pipes : Added(o)' <=> Added(o)
    BY <1>4 DEF Added
  <2>2. PipeOK(p, q, holder = p)'
    <3>1. pipe[p].live
      <4>1. p \in Reaped(reap)
        BY <1>1, <1>2 DEF Reaped
      <4> QED
        BY <1>2, <4>1 DEF PipeGiven
    <3> QED
      BY <1>2, <1>4, <1>5, <1>7, <2>1, <3>1 DEF PipeOK, One, CoreAssumed
  <2>3. OthersHeld(p)
    BY <1>4, <2>1 DEF OthersHeld
  <2>4. PointsTo(p, q)
    <3>1. \A g \in Eps : cb'[g].p = cb[g].p /\ cb[g].p # p
      BY <1>4, <1>7 DEF Added
    <3> QED
      BY <1>5, <1>8, <3>1 DEF PointsTo
  <2> QED
    BY <1>4, <2>2, <2>3, <2>4, OnePipe
<1>10. PipeGiven(p, q, reap', sock)
  BY <1>0, <1>1, <1>2, <1>5, <1>6 DEF PipeGiven
<1>11. (q.listed => pipe[p].listed) /\ reap'.cur \in {p, None} /\ reap'.step # "reap"
       /\ Reaped(reap') \subseteq Reaped(reap)
  BY <1>1, <1>5, <1>6
<1> QED
  BY <1>1, <1>4, <1>6, <1>8, <1>9, <1>10, <1>11, ReaperPipe

-----------------------------------------------------------------------------
(* The reaper takes an endpoint apart.                                     *)
LEMMA EpStops ==
  ASSUME NEW e, NEW d \in Endpoint, NEW k \in Adding, NEW u \in User, NEW v \in User,
         NEW s \in Sock, EpOK(e, d, k, u, v, s), d.listed, d.closing
  PROVE  EpOK(e, Core!Stopped(d), k, u, v, s)
<1> DEFINE x == Core!Stopped(d)
<1>1. x \in Endpoint /\ SameLife(d, x) /\ x.closing /\ x.stopped /\ x.waiter = d.waiter
      /\ x.result = d.result
  BY StoppedFacts DEF SameLife
<1> HIDE DEF x
<1>2. Counted(x, u, v) /\ Lives(x, k, u)
  BY <1>1, NoEpFacts DEF EpOK, Counted, Lives, SameLife
<1>3. Shuts(x, u, v, s) /\ Tells(x, k, u) /\ Works(x, k, u, s) /\ Kinds(e, x, k, u)
  BY <1>1 DEF EpOK, Shuts, Tells, Works, Started, Kinds, SameLife
<1> QED
  BY <1>2, <1>3 DEF EpOK, x

(* What the reaper has of an endpoint in its hands.                        *)
LEMMA CurrentEp ==
  ASSUME CoreInv, CoreAssumed, NEW e \in Eps, e = reap.cur
  PROVE  /\ EpGiven(ep[e]) /\ (reap.step # "fini" => ep[e].listed)
         /\ (reap.step = "fini" => ~ep[e].listed) /\ e # None /\ reap \in Reap /\ ListsOK(reap)
         /\ reap.step # "none" /\ Dial(e).pc \notin {"find", "create"}
<1>1. e # None /\ reap \in Reap /\ ListsOK(reap) /\ reap.step # "none"
  BY DEF CoreAssumed, CoreInv, CoreTypes, ReapOK, ListsOK
<1>2. e \in Reaped(reap)
  BY <1>1 DEF Reaped
<1>3. EpGiven(ep[e]) /\ (ep[e].alive => ep[e].listed \/ Fined(e)) /\ (Fined(e) => ~ep[e].listed)
  BY <1>2 DEF CoreInv, ReapOK
<1>4. Dial(e).pc \notin {"find", "create"}
  BY <1>3, EpFacts, NoEpFacts DEF EpOK, Lives, EpGiven
<1> QED
  BY <1>1, <1>3, <1>4 DEF EpGiven, Fined

(* The reaper stops the operations of an endpoint.                         *)
LEMMA EpStopKeeps ==
  ASSUME CoreInv, CoreAssumed, Core!EpStop PROVE CoreInv'
<1>0. CoreTypes /\ reap.step = "stop"
  BY DEF Core!EpStop, CoreInv
<1>1. PICK e \in Eps : e = reap.cur
  BY <1>0 DEF CoreInv, ReapOK, ListsOK
<1> DEFINE d == Core!Stopped(ep[e])
<1>2. /\ ep' = [ep EXCEPT ![e] = d] /\ reap' = [reap EXCEPT !.step = "reap"]
      /\ UNCHANGED <<sock, pipe, cb, user, closer, holder>>
  BY <1>1 DEF Core!EpStop
<1>3. EpGiven(ep[e]) /\ ep[e].listed /\ e # None /\ reap \in Reap /\ ListsOK(reap)
  BY <1>0, <1>1, CurrentEp
<1>4. /\ ep[e] \in Endpoint /\ EpOK(e, d, cb[e], Dial(e), Close(e), sock)
  BY <1>0, <1>3, EpFacts, UserFacts, EpStops DEF EpGiven
<1>5. d \in Endpoint /\ SameLife(ep[e], d) /\ d.stopped /\ d.closing = ep[e].closing
  BY <1>4, StoppedFacts
<1> HIDE DEF d
<1>6. ep' \in [Eps -> Endpoint] /\ ep'[e] = d /\ \A g \in Eps \ {e} : ep'[g] = ep[g]
  BY <1>0, <1>2, <1>5 DEF CoreTypes
<1>7. /\ reap' \in Reap /\ ListsOK(reap') /\ Reaped(reap') = Reaped(reap) /\ reap'.cur = reap.cur
      /\ reap'.step = "reap"
  BY <1>1, <1>2, <1>3, ReaperGoesOn
<1>8. CoreTypes'
  BY <1>0, <1>2, <1>6, <1>7 DEF CoreTypes
<1>9. EpsOK'
  BY <1>2, <1>4, <1>6, OneEpMoves DEF Dial, Close
<1>10. \A g \in Eps : ep'[g].listed = ep[g].listed /\ ep'[g].pipe = ep[g].pipe
  BY <1>5, <1>6 DEF SameLife
<1>15. \A g \in Eps : ep'[g].alive = ep[g].alive /\ (EpGiven(ep[g]) => EpGiven(ep'[g]))
  BY <1>5, <1>6 DEF SameLife, EpGiven
<1>11. \A p \in Pipes : MayClose(pipe'[p], pipe[p])
  BY <1>2 DEF MayClose
<1>12. PipesOK'
  BY <1>2, <1>10, <1>11, PipesKept
<1>13. ReapOK'
  <2>1. ReapOK /\ (\A x : ~Fined(x) /\ ~Fined(x)') /\ \A p \in Pipes : reap.cur # p
    BY <1>0, <1>1, <1>7 DEF CoreInv, Fined, CoreAssumed
  <2>2. /\ \A g \in Eps : g \in Reaped(reap') => EpGiven(ep'[g])
        /\ \A g \in Eps : ep'[g].alive => ep'[g].listed
    BY <1>7, <1>10, <1>15, <2>1 DEF ReapOK
  <2>3. /\ \A p \in Pipes : p \in Reaped(reap') => pipe'[p].closed /\ pipe'[p].live
        /\ ~sock'.failed => \A p \in Pipes : pipe'[p].live => pipe'[p].listed
    BY <1>2, <1>7, <2>1 DEF ReapOK
  <2>4. reap'.step = "reap" => ep'[reap'.cur].stopped
    BY <1>1, <1>5, <1>6, <1>7
  <2> QED
    BY <1>7, <2>1, <2>2, <2>3, <2>4 DEF ReapOK
<1>14. SockOK'
  BY <1>2, <1>10, SockKept DEF NothingListed, Dial
<1> QED
  BY <1>8, <1>9, <1>12, <1>13, <1>14 DEF CoreInv

(* An endpoint leaves a list: it is given to the reaper again, or taken    *)
(* from the socket, or freed.                                              *)
LEMMA EpUnlists ==
  ASSUME NEW e, NEW d \in Endpoint, NEW x \in Endpoint, NEW u \in User, NEW v \in User, NEW s \in Sock,
         EpOK(e, d, Core!NoCb, u, v, s), d.ref = 0, d.con = "idle", d.tmo = "idle", d.pipe = None,
         u.pc \notin {"find", "create"}, ~x.listed, x.ref = d.ref, x.closed = d.closed, x.closing = d.closing,
         x.pipe = d.pipe, x.con = d.con, x.tmo = d.tmo, x.stopped = d.stopped, x.waiter = d.waiter,
         x.result = d.result
  PROVE  EpOK(e, x, Core!NoCb, u, v, s)
<1>1. /\ Counted(d, u, v) /\ Lives(d, Core!NoCb, u) /\ Shuts(d, u, v, s)
      /\ Tells(d, Core!NoCb, u) /\ Works(d, Core!NoCb, u, s) /\ Kinds(e, d, Core!NoCb, u)
  BY DEF EpOK
<1>2. Counted(x, u, v) /\ Lives(x, Core!NoCb, u)
  BY <1>1, NoCbFacts DEF Counted, Lives, One
<1>3. Shuts(x, u, v, s) /\ Tells(x, Core!NoCb, u)
  BY <1>1 DEF Shuts, Tells
<1>4. Works(x, Core!NoCb, u, s) /\ Kinds(e, x, Core!NoCb, u)
  BY <1>1, NoCbFacts DEF Works, Started, Kinds
<1> QED
  BY <1>2, <1>3, <1>4 DEF EpOK

(* An endpoint that still has pipes is put off; else it is unlisted.       *)
LEMMA EpReapKeeps ==
  ASSUME CoreInv, CoreAssumed, Core!EpReap PROVE CoreInv'
<1>0. CoreTypes /\ reap.step = "reap" /\ UNCHANGED <<sock, cb, user, closer, holder>>
  BY DEF Core!EpReap, CoreInv
<1>1. PICK e \in Eps : e = reap.cur
  BY <1>0 DEF CoreInv, ReapOK, ListsOK
<1>2. EpGiven(ep[e]) /\ ep[e].listed /\ e # None /\ reap \in Reap /\ ListsOK(reap)
      /\ Dial(e).pc \notin {"find", "create"}
  BY <1>0, <1>1, CurrentEp
<1>3. ep[e].con = "idle" /\ ep[e].tmo = "idle" /\ cb[e] = Core!NoCb
  BY <1>1 DEF Core!EpReap
<1>4. ReapOK /\ (\A x : ~Fined(x)) /\ \A p \in Pipes : reap.cur # p
  BY <1>0, <1>1 DEF CoreInv, Fined, CoreAssumed
<1>5. CASE Core!PipesOf(e) # {}
  <2> DEFINE r == Core!ToReap(Core!PipesOf(e))
             a == [r EXCEPT !.cur = None, !.step = "none"]
             b == [a EXCEPT !.eps = <<e>> \o @]
  <2>1. /\ pipe' = Core!PipesClosed(Core!PipesOf(e)) /\ ep' = ep
        /\ reap' = [r EXCEPT !.eps = <<e>> \o @, !.cur = None, !.step = "none"]
    BY <1>1, <1>5 DEF Core!EpReap
  <2>2. /\ \A p \in Pipes : MayClose(pipe'[p], pipe[p])
        /\ pipe' \in [Pipes -> PipeRec] /\ \A p \in Core!PipesOf(e) : pipe'[p].closed
        /\ r \in Reap /\ ListsOK(r) /\ r.cur = reap.cur /\ r.step = reap.step
        /\ Reaped(r) = Reaped(reap) \cup {p \in Core!PipesOf(e) : ~pipe[p].closed}
    BY <2>1, PipesOfLive, ClosePipes
  <2>3. reap' = b
    BY <2>1
  <2> HIDE DEF r
  <2>4. /\ a \in Reap /\ ListsOK(a) /\ Reaped(a) \subseteq Reaped(r) /\ e \notin Reaped(a)
        /\ a.cur = None /\ a.step = "none"
    BY <1>1, <1>2, <2>2, ReaperEnds
  <2> HIDE DEF a
  <2>5. /\ b \in Reap /\ ListsOK(b) /\ Reaped(b) = Reaped(a) \cup {e} /\ b.cur = None
        /\ b.step = "none"
    <3>1. <<e>> \in Seq(Eps) /\ In(<<e>>) = {e} /\ Once(<<e>>)
      BY OneSeq
    <3> DEFINE s == <<e>>
    <3> HIDE DEF s
    <3>2. s \in Seq(Eps) /\ Once(s) /\ In(s) \cap Reaped(a) = {}
      BY <2>4, <3>1 DEF s
    <3> QED
      BY <2>4, <3>1, <3>2, EpsToReap DEF s
  <2> HIDE DEF b
  <2>6. CoreTypes'
    BY <1>0, <2>1, <2>2, <2>3, <2>5 DEF CoreTypes
  <2>7. EpsOK'
    BY <1>0, <2>1, NoEpMoves DEF Dial, Close
  <2>8. PipesOK'
    BY <1>0, <2>1, <2>2, PipesKept
  <2>9. \A p \in Pipes : /\ pipe'[p].live = pipe[p].live /\ pipe'[p].listed = pipe[p].listed
                         /\ (pipe[p].closed => pipe'[p].closed)
    BY <1>0, <2>2, MayCloseFacts DEF CoreTypes
  <2>10. ReapOK'
    <3>1. \A x \in Eps \cup Pipes : x \in Reaped(reap') =>
            x \in Reaped(reap) \/ x \in {p \in Core!PipesOf(e) : ~pipe[p].closed} \/ x = e
      BY <2>2, <2>3, <2>4, <2>5
    <3>2. \A g \in Eps : g \in Reaped(reap') => EpGiven(ep'[g])
      <4>1. \A g \in Eps : g \notin Core!PipesOf(e)
        BY PipesOfLive DEF CoreAssumed
      <4> QED
        BY <1>2, <1>4, <2>1, <3>1, <4>1 DEF ReapOK
    <3>3. \A p \in Pipes : p \in Reaped(reap') => pipe'[p].closed /\ pipe'[p].live
      <4>1. \A p \in Pipes : p # e
        BY DEF CoreAssumed
      <4> QED
        BY <1>4, <2>2, <2>9, <3>1, <4>1, PipesOfLive DEF ReapOK
    <3>4. /\ \A g \in Eps : ep'[g].alive => ep'[g].listed
          /\ ~sock'.failed => \A p \in Pipes : pipe'[p].live => pipe'[p].listed
      BY <1>0, <1>4, <2>1, <2>9 DEF ReapOK
    <3>5. reap'.cur = None /\ reap'.step = "none" /\ \A x : ~Fined(x)'
      BY <2>3, <2>5 DEF Fined
    <3> QED
      BY <2>3, <2>5, <3>2, <3>3, <3>4, <3>5 DEF ReapOK, CoreAssumed
  <2>11. SockOK'
    BY <1>0, <2>1, <2>9, SockKept DEF NothingListed, Dial
  <2> QED
    BY <2>6, <2>7, <2>8, <2>10, <2>11 DEF CoreInv
<1>6. CASE Core!PipesOf(e) = {}
  <2> DEFINE d == [ep[e] EXCEPT !.listed = FALSE]
  <2>1. /\ pipe' = pipe /\ ep' = [ep EXCEPT ![e] = d]
        /\ reap' = [reap EXCEPT !.step = "fini"]
    BY <1>1, <1>6 DEF Core!EpReap
  <2>2. ep[e] \in Endpoint /\ EpOK(e, ep[e], Core!NoCb, Dial(e), Close(e), sock) /\ sock \in Sock
        /\ Dial(e) \in User /\ Close(e) \in User
    BY <1>0, <1>3, EpFacts, UserFacts
  <2>3. /\ d \in Endpoint /\ ~d.listed /\ d.alive = ep[e].alive /\ d.ref = ep[e].ref /\ d.closed = ep[e].closed
        /\ d.closing = ep[e].closing /\ d.pipe = ep[e].pipe /\ d.con = ep[e].con
        /\ d.tmo = ep[e].tmo /\ d.stopped = ep[e].stopped /\ d.waiter = ep[e].waiter
        /\ d.result = ep[e].result
    BY <2>2 DEF Endpoint
  <2> HIDE DEF d
  <2>4. \A p \in Pipes : pipe[p].listed => pipe[p].ep \in Eps /\ pipe[p].ep # e
    BY <1>6 DEF Core!PipesOf, CoreInv, PipesOK, PipeOK
  <2>5. ep[e].pipe = None
    <3>1. ep[e].pipe # None => ep[e].pipe \in Pipes /\ pipe[ep[e].pipe].ep = e
      BY <2>2 DEF Endpoint, CoreInv, PipesOK
    <3> QED
      BY <2>4, <3>1 DEF CoreInv, PipesOK, PipeOK
  <2>6. EpOK(e, d, cb[e], Dial(e), Close(e), sock)
    BY <1>2, <1>3, <2>2, <2>3, <2>5, EpUnlists DEF EpGiven
  <2>7. ep' \in [Eps -> Endpoint] /\ ep'[e] = d /\ \A g \in Eps \ {e} : ep'[g] = ep[g]
    BY <1>0, <2>1, <2>3 DEF CoreTypes
  <2>8. /\ reap' \in Reap /\ ListsOK(reap') /\ Reaped(reap') = Reaped(reap) /\ reap'.cur = reap.cur
        /\ reap'.step = "fini"
    BY <1>1, <1>2, <2>1, ReaperGoesOn
  <2>9. CoreTypes'
    BY <1>0, <2>1, <2>7, <2>8 DEF CoreTypes
  <2>10. EpsOK'
    BY <1>0, <2>6, <2>7, OneEpMoves DEF Dial, Close
  <2>11. PipesOK'
    <3>1. \A p \in Pipes : Added(p)' <=> Added(p)
      BY <1>0 DEF Added
    <3>2. \A p \in Pipes : PipeOK(p, pipe[p], holder = p)'
      BY <1>0, <2>1, <3>1 DEF CoreInv, PipesOK, PipeOK, One
    <3>3. \A g \in Eps : ep'[g].pipe = ep[g].pipe
      BY <2>3, <2>7
    <3>4. \A g \in Eps : /\ cb'[g].p # None => pipe'[cb'[g].p].ep = g
                         /\ ep'[g].pipe # None => pipe'[ep'[g].pipe].ep = g
      BY <1>0, <2>1, <3>3 DEF CoreInv, PipesOK
    <3>5. \A p \in Pipes : pipe'[p].listed => ep'[pipe'[p].ep].listed
      BY <2>1, <2>4, <2>7 DEF CoreInv, PipesOK
    <3> QED
      BY <3>2, <3>4, <3>5 DEF PipesOK
  <2>12. ReapOK'
    <3>1. \A x : Fined(x)' <=> x = e
      BY <1>1, <2>8 DEF Fined
    <3>2. \A g \in Eps : g \in Reaped(reap') => EpGiven(ep'[g])
      BY <1>4, <2>3, <2>7, <2>8 DEF ReapOK, EpGiven
    <3>3. \A p \in Pipes : p \in Reaped(reap') => pipe'[p].closed /\ pipe'[p].live
      BY <1>4, <2>1, <2>8 DEF ReapOK
    <3>4. \A g \in Eps : (ep'[g].alive => ep'[g].listed \/ g = e) /\ (g = e => ~ep'[g].listed)
      BY <1>4, <2>3, <2>7 DEF ReapOK
    <3>5. \A p \in Pipes : p # e /\ reap'.cur # p
      BY <1>4, <1>1, <2>8
    <3>6. ~sock'.failed => \A p \in Pipes : pipe'[p].live => pipe'[p].listed
      BY <1>0, <1>4, <2>1 DEF ReapOK
    <3> QED
      BY <2>8, <3>1, <3>2, <3>3, <3>4, <3>5, <3>6 DEF ReapOK
  <2>13. NothingListed => NothingListed'
    BY <2>1, <2>3, <2>7 DEF NothingListed
  <2>14. SockOK'
    BY <1>0, <2>13, SockKept DEF Dial
  <2> QED
    BY <2>9, <2>10, <2>11, <2>12, <2>14 DEF CoreInv
<1> QED
  BY <1>5, <1>6

(* An endpoint is freed.                                                   *)
LEMMA EpFiniKeeps ==
  ASSUME CoreInv, CoreAssumed, Core!EpFini PROVE CoreInv'
<1>0. CoreTypes /\ reap.step = "fini" /\ UNCHANGED <<sock, pipe, cb, user, closer, holder>>
  BY DEF Core!EpFini, CoreInv
<1>1. PICK e \in Eps : e = reap.cur
  BY CoreNames DEF Core!EpFini
<1> DEFINE d == [ep[e] EXCEPT !.alive = FALSE]
<1>2. EpGiven(ep[e]) /\ ~ep[e].listed /\ e # None /\ reap \in Reap /\ ListsOK(reap)
      /\ Dial(e).pc \notin {"find", "create"}
  BY <1>0, <1>1, CurrentEp
<1>3. ep' = [ep EXCEPT ![e] = d] /\ reap' = [reap EXCEPT !.cur = None, !.step = "none"]
  BY <1>1 DEF Core!EpFini
<1>4. ep[e] \in Endpoint /\ EpOK(e, ep[e], cb[e], Dial(e), Close(e), sock) /\ sock \in Sock
      /\ Dial(e) \in User /\ Close(e) \in User
  BY <1>0, EpFacts, UserFacts
<1>5. /\ d \in Endpoint /\ ~d.alive /\ d.listed = ep[e].listed /\ d.ref = ep[e].ref /\ d.closed = ep[e].closed
      /\ d.closing = ep[e].closing /\ d.pipe = ep[e].pipe /\ d.con = ep[e].con
      /\ d.tmo = ep[e].tmo /\ d.stopped = ep[e].stopped /\ d.waiter = ep[e].waiter
      /\ d.result = ep[e].result
  BY <1>4 DEF Endpoint
<1> HIDE DEF d
<1>6. ep[e].con = "idle" /\ ep[e].tmo = "idle" /\ ep[e].pipe = None /\ cb[e] = Core!NoCb
  BY <1>2, <1>4 DEF EpOK, Lives
<1>7. EpOK(e, d, cb[e], Dial(e), Close(e), sock)
  BY <1>2, <1>4, <1>5, <1>6, EpUnlists DEF EpGiven
<1>8. ep' \in [Eps -> Endpoint] /\ ep'[e] = d /\ \A g \in Eps \ {e} : ep'[g] = ep[g]
  BY <1>0, <1>3, <1>5 DEF CoreTypes
<1>9. /\ reap' \in Reap /\ ListsOK(reap') /\ Reaped(reap') \subseteq Reaped(reap) /\ reap'.cur = None
      /\ reap'.step = "none" /\ e \notin Reaped(reap')
  BY <1>1, <1>2, <1>3, ReaperEnds
<1>10. CoreTypes'
  BY <1>0, <1>8, <1>9 DEF CoreTypes
<1>11. EpsOK'
  BY <1>0, <1>7, <1>8, OneEpMoves DEF Dial, Close
<1>12. \A g \in Eps : ep'[g].listed = ep[g].listed /\ ep'[g].pipe = ep[g].pipe
  BY <1>5, <1>8
<1>13. PipesOK'
  <2>1. \A p \in Pipes : MayClose(pipe'[p], pipe[p])
    BY <1>0 DEF MayClose
  <2> QED
    BY <1>0, <1>12, <2>1, PipesKept
<1>14. ReapOK'
  <2>1. ReapOK /\ \A x : (Fined(x) <=> x = e) /\ ~Fined(x)'
    BY <1>0, <1>1, <1>9 DEF CoreInv, Fined
  <2>2. \A g \in Eps : g \in Reaped(reap') => EpGiven(ep'[g])
    BY <1>8, <1>9, <2>1 DEF ReapOK
  <2>3. \A p \in Pipes : p \in Reaped(reap') => pipe'[p].closed /\ pipe'[p].live
    BY <1>0, <1>9, <2>1 DEF ReapOK
  <2>4. \A g \in Eps : ep'[g].alive => ep'[g].listed
    BY <1>5, <1>8, <1>12, <2>1 DEF ReapOK
  <2>5. \A p \in Pipes : p # e /\ p # None
    BY DEF CoreAssumed
  <2>6. ~sock'.failed => \A p \in Pipes : pipe'[p].live => pipe'[p].listed
    BY <1>0, <2>1, <2>5 DEF ReapOK
  <2> QED
    BY <1>9, <2>1, <2>2, <2>3, <2>4, <2>5, <2>6 DEF ReapOK
<1>15. SockOK'
  BY <1>0, <1>12, SockKept DEF NothingListed, Dial
<1> QED
  BY <1>10, <1>11, <1>13, <1>14, <1>15 DEF CoreInv

-----------------------------------------------------------------------------
(* The threads that close the socket.                                      *)
Stages == {"idle", "shut", "insist", "drain", "close", "last", "done"}

(* A thread that closes the socket goes on.                                *)
LEMMA CloserMoves ==
  ASSUME CoreInv, CoreAssumed, NEW c \in Closers, NEW k \in Stages, closer' = [closer EXCEPT ![c] = k],
         sock' \in Sock, sock'.closing = sock.closing, sock'.failed = sock.failed,
         UNCHANGED <<ep, pipe, cb, reap, user, holder>>,
         SockOK'
  PROVE  CoreInv'
<1>1. CoreTypes'
  BY DEF CoreInv, CoreTypes, Stages
<1>2. EpsOK'
  BY NoEpMoves DEF Dial, Close
<1>3. PipesOK' /\ ReapOK'
  BY RestKept
<1> QED
  BY <1>1, <1>2, <1>3 DEF CoreInv

(* How the threads that close are counted.                                 *)
LEMMA ClosingsMove ==
  ASSUME CoreInv, NEW c \in Closers, NEW k \in Stages, closer' = [closer EXCEPT ![c] = k]
  PROVE  /\ closer'[c] = k /\ \A b \in Closers \ {c} : closer'[b] = closer[b]
         /\ Closings' = IF k \in {"idle", "done"} THEN Closings \ {c} ELSE Closings \cup {c}
         /\ IsFiniteSet(Closings') /\ Cardinality(Closings) \in Nat
         /\ closer[c] \in {"idle", "done"} /\ k \notin {"idle", "done"}
              => Cardinality(Closings') = Cardinality(Closings) + 1
         /\ closer[c] \notin {"idle", "done"} /\ k \in {"idle", "done"}
              => Cardinality(Closings') = Cardinality(Closings) - 1
         /\ closer[c] \notin {"idle", "done"} /\ k \notin {"idle", "done"}
              => Closings' = Closings
<1>1. /\ closer'[c] = k /\ \A b \in Closers \ {c} : closer'[b] = closer[b]
  BY DEF CoreInv, CoreTypes
<1>2. Closings' = IF k \in {"idle", "done"} THEN Closings \ {c} ELSE Closings \cup {c}
  BY <1>1 DEF Closings
<1>3. IsFiniteSet(Closings) /\ (c \in Closings <=> closer[c] \notin {"idle", "done"})
  BY DEF CoreInv, SockOK, Closings
<1>4. /\ IsFiniteSet(Closings \ {c}) /\ IsFiniteSet(Closings \cup {c}) /\ Cardinality(Closings) \in Nat
      /\ c \in Closings => Cardinality(Closings \ {c}) = Cardinality(Closings) - 1
      /\ c \notin Closings => Cardinality(Closings \cup {c}) = Cardinality(Closings) + 1
      /\ c \in Closings => Closings \cup {c} = Closings
  BY <1>3, FS_AddElement, FS_RemoveElement, FS_CardinalityType
<1> QED
  BY <1>1, <1>2, <1>3, <1>4

(* The callers stay counted.                                               *)
LEMMA CallersStay ==
  ASSUME CoreInv, UNCHANGED user
  PROVE  Callers' = Callers /\ IsFiniteSet(Callers) /\ Cardinality(Callers) \in Nat
  BY FS_CardinalityType DEF CoreInv, SockOK, Callers

(* A thread begins to close.                                               *)
LEMMA CloseBegins ==
  ASSUME CoreInv, CoreAssumed, NEW c \in Closers, closer[c] = "idle", ~sock.closed,
         closer' = [closer EXCEPT ![c] = "shut"], UNCHANGED <<ep, pipe, cb, reap, user, holder>>,
         sock' \in Sock, sock'.closing = sock.closing, sock'.closed = sock.closed,
         sock'.ref = sock.ref + 1, sock'.gone = sock.gone, sock'.failed = sock.failed
  PROVE  CoreInv'
<1>1. /\ closer'[c] = "shut" /\ \A b \in Closers \ {c} : closer'[b] = closer[b]
      /\ IsFiniteSet(Closings') /\ Cardinality(Closings) \in Nat
      /\ Cardinality(Closings') = Cardinality(Closings) + 1
  BY ClosingsMove DEF Stages
<1>2. Callers' = Callers /\ IsFiniteSet(Callers) /\ Cardinality(Callers) \in Nat
  BY CallersStay
<1>3. SockOK /\ ~sock.gone /\ NothingListed' = NothingListed
  BY DEF CoreInv, SockOK, NothingListed
<1>4. sock'.ref = Cardinality(Callers') + Cardinality(Closings') + One(sock'.gone)
  BY <1>1, <1>2, <1>3 DEF SockOK, One
<1>5. /\ \A b \in Closers : closer'[b] = "last" => closer[b] = "last"
      /\ \A b \in Closers : closer'[b] \in {"insist", "drain", "close"} => sock.closing
      /\ sock.closing => NothingListed \/ \E b \in Closers : closer'[b] \in {"insist", "drain"}
  BY <1>1, <1>3 DEF SockOK
<1>6. SockOK'
  BY <1>1, <1>2, <1>3, <1>4, <1>5 DEF SockOK
<1> QED
  BY <1>6, CloserMoves DEF Stages

(* nng_close and nng_closeall begin.                                       *)
LEMMA CloseFindKeeps ==
  ASSUME CoreInv, CoreAssumed, NEW c \in Closers, Core!CloseFind(c) PROVE CoreInv'
<1>1. /\ closer[c] = "idle" /\ ~sock.closed /\ closer' = [closer EXCEPT ![c] = "shut"]
      /\ sock' = [sock EXCEPT !.ref = @ + 1] /\ UNCHANGED <<ep, pipe, cb, reap, user, holder>>
  BY DEF Core!CloseFind
<1>2. /\ sock' \in Sock /\ sock'.closing = sock.closing /\ sock'.closed = sock.closed
      /\ sock'.ref = sock.ref + 1 /\ sock'.gone = sock.gone /\ sock'.failed = sock.failed
  BY <1>1 DEF CoreInv, CoreTypes, Sock
<1> QED
  BY <1>1, <1>2, CloseBegins

LEMMA CloseAllKeeps ==
  ASSUME CoreInv, CoreAssumed, NEW c \in Closers, Core!CloseAll(c) PROVE CoreInv'
<1> DEFINE s == [sock EXCEPT !.ref = @ + 1]
<1>1. /\ closer[c] = "idle" /\ ~sock.closed /\ closer' = [closer EXCEPT ![c] = "shut"]
      /\ sock' = [s EXCEPT !.node = FALSE] /\ UNCHANGED <<ep, pipe, cb, reap, user, holder>>
  BY DEF Core!CloseAll, CoreInv, SockOK
<1>2. /\ s \in Sock /\ s.closing = sock.closing /\ s.closed = sock.closed
      /\ s.ref = sock.ref + 1 /\ s.gone = sock.gone /\ s.failed = sock.failed
  BY DEF CoreInv, CoreTypes, Sock
<1> HIDE DEF s
<1>3. /\ sock' \in Sock /\ sock'.closing = sock.closing /\ sock'.closed = sock.closed
      /\ sock'.ref = sock.ref + 1 /\ sock'.gone = sock.gone /\ sock'.failed = sock.failed
  BY <1>1, <1>2 DEF Sock
<1> QED
  BY <1>1, <1>3, CloseBegins

(* Nothing is listed any more.                                             *)
LEMMA DrainedKeeps ==
  ASSUME CoreInv, CoreAssumed, NEW c \in Closers, Core!Drained(c) PROVE CoreInv'
<1>1. /\ closer[c] = "drain" /\ closer' = [closer EXCEPT ![c] = "close"] /\ NothingListed
      /\ UNCHANGED <<sock, ep, pipe, cb, reap, user, holder>>
  BY CoreNames DEF Core!Drained, NothingListed
<1>2. /\ closer'[c] = "close" /\ \A b \in Closers \ {c} : closer'[b] = closer[b]
      /\ Closings' = Closings
  BY <1>1, ClosingsMove DEF Stages
<1>3. Callers' = Callers /\ SockOK /\ NothingListed'
  BY <1>1, CallersStay DEF CoreInv, NothingListed
<1>4. SockOK'
  BY <1>1, <1>2, <1>3 DEF SockOK
<1>5. sock' \in Sock
  BY <1>1 DEF CoreInv, CoreTypes
<1> QED
  BY <1>1, <1>4, <1>5, CloserMoves DEF Stages

(* One of the threads that close is the last; it frees the socket when no  *)
(* other has it.                                                           *)
LEMMA CloseSockKeeps ==
  ASSUME CoreInv, CoreAssumed, NEW c \in Closers, Core!CloseSock(c) PROVE CoreInv'
<1>0. sock \in Sock /\ SockOK /\ closer[c] = "close" /\ sock.closing
      /\ UNCHANGED <<ep, pipe, cb, reap, user, holder>>
  BY DEF CoreInv, CoreTypes, SockOK, Core!CloseSock
<1>1. Callers' = Callers /\ IsFiniteSet(Callers) /\ Cardinality(Callers) \in Nat
      /\ NothingListed' = NothingListed
  BY <1>0, CallersStay DEF NothingListed
<1>2. CASE sock.closed
  <2>1. sock' = [sock EXCEPT !.ref = @ - 1] /\ closer' = [closer EXCEPT ![c] = "done"]
    BY <1>2 DEF Core!CloseSock
  <2>2. /\ sock' \in Sock /\ sock'.closing = sock.closing /\ sock'.closed = sock.closed
        /\ sock'.ref = sock.ref - 1 /\ sock'.gone = sock.gone /\ sock'.node = sock.node
        /\ sock'.failed = sock.failed
    <3>1. sock \in Sock
      BY <1>0
    <3>2. sock.ref \in Int
      BY <3>1 DEF Sock
    <3> QED
      BY <2>1, <3>1, <3>2 DEF Sock
  <2>3. /\ closer'[c] = "done" /\ \A b \in Closers \ {c} : closer'[b] = closer[b]
        /\ IsFiniteSet(Closings') /\ Cardinality(Closings) \in Nat
        /\ Cardinality(Closings') = Cardinality(Closings) - 1
    BY <1>0, <2>1, ClosingsMove DEF Stages
  <2>4. ~sock.gone
    BY <1>0 DEF SockOK, Closings
  <2>5. sock'.ref = Cardinality(Callers') + Cardinality(Closings') + One(sock'.gone)
    BY <1>0, <1>1, <2>2, <2>3, <2>4 DEF SockOK, One
  <2>6. /\ \A b \in Closers : closer'[b] = "last" => closer[b] = "last"
        /\ \A b \in Closers : closer'[b] \in {"insist", "drain", "close"} => sock.closing
        /\ sock.closing => NothingListed \/ \E b \in Closers : closer'[b] \in {"insist", "drain"}
    BY <1>0, <2>3 DEF SockOK
  <2>7. SockOK'
    BY <1>0, <1>1, <1>2, <2>2, <2>3, <2>4, <2>5, <2>6 DEF SockOK
  <2> QED
    BY <1>0, <2>1, <2>2, <2>7, CloserMoves DEF Stages
<1>3. CASE ~sock.closed
  <2> DEFINE s == [sock EXCEPT !.closed = TRUE]
  <2>1. sock' = [s EXCEPT !.node = FALSE] /\ closer' = [closer EXCEPT ![c] = "last"]
    BY <1>3 DEF Core!CloseSock
  <2>2. /\ s \in Sock /\ s.closing = sock.closing /\ s.closed
        /\ s.ref = sock.ref /\ s.gone = sock.gone /\ s.failed = sock.failed
    BY <1>0 DEF Sock
  <2> HIDE DEF s
  <2>3. /\ sock' \in Sock /\ sock'.closing = sock.closing /\ sock'.closed
        /\ sock'.ref = sock.ref /\ sock'.gone = sock.gone /\ ~sock'.node
        /\ sock'.failed = sock.failed
    BY <2>1, <2>2 DEF Sock
  <2>4. /\ closer'[c] = "last" /\ \A b \in Closers \ {c} : closer'[b] = closer[b]
        /\ Closings' = Closings
    BY <1>0, <2>1, ClosingsMove DEF Stages
  <2>5. ~sock.gone
    BY <1>0, <1>3 DEF SockOK
  <2>6. /\ \A b \in Closers : closer'[b] = "last" => b = c
        /\ \A b \in Closers : closer'[b] \in {"insist", "drain", "close"} => sock.closing
        /\ sock.closing => NothingListed \/ \E b \in Closers : closer'[b] \in {"insist", "drain"}
    BY <1>0, <1>3, <2>4 DEF SockOK
  <2>7. SockOK'
    BY <1>0, <1>1, <2>3, <2>4, <2>5, <2>6 DEF SockOK
  <2> QED
    BY <1>0, <2>1, <2>3, <2>7, CloserMoves DEF Stages
<1> QED
  BY <1>2, <1>3

LEMMA DestroyKeeps ==
  ASSUME CoreInv, CoreAssumed, NEW c \in Closers, Core!Destroy(c) PROVE CoreInv'
<1>0. /\ sock \in Sock /\ SockOK /\ closer[c] = "last" /\ sock.ref <= 1
      /\ sock' = [sock EXCEPT !.gone = TRUE] /\ closer' = [closer EXCEPT ![c] = "done"]
      /\ UNCHANGED <<ep, pipe, cb, reap, user, holder>>
  BY DEF CoreInv, CoreTypes, Core!Destroy
<1>1. Callers' = Callers /\ IsFiniteSet(Callers) /\ Cardinality(Callers) \in Nat
      /\ NothingListed' = NothingListed
  BY <1>0, CallersStay DEF NothingListed
<1>2. /\ sock' \in Sock /\ sock'.closing = sock.closing /\ sock'.closed = sock.closed
      /\ sock'.ref = sock.ref /\ sock'.gone /\ sock'.node = sock.node
      /\ sock'.failed = sock.failed
  BY <1>0 DEF Sock
<1>3. /\ closer'[c] = "done" /\ \A b \in Closers \ {c} : closer'[b] = closer[b]
      /\ IsFiniteSet(Closings') /\ Cardinality(Closings) \in Nat
      /\ Cardinality(Closings') = Cardinality(Closings) - 1
  BY <1>0, ClosingsMove DEF Stages
<1>4. ~sock.gone /\ sock.closed /\ sock.closing
  BY <1>0 DEF SockOK, Closings
<1>5. Cardinality(Callers) = 0 /\ Cardinality(Closings') = 0 /\ sock.ref = 1
  <2>1. Cardinality(Closings') \in Nat
    BY <1>3, FS_CardinalityType
  <2>2. sock.ref = Cardinality(Callers) + Cardinality(Closings)
    BY <1>0, <1>1, <1>3, <1>4 DEF SockOK, One
  <2> QED
    BY <1>0, <1>1, <1>3, <2>1, <2>2
<1>6. Callers' = {} /\ Closings' = {}
  BY <1>1, <1>3, <1>5, FS_EmptySet
<1>7. sock'.ref = Cardinality(Callers') + Cardinality(Closings') + One(sock'.gone)
  BY <1>1, <1>2, <1>5 DEF One
<1>8. /\ \A b \in Closers : closer'[b] # "last"
      /\ \A b \in Closers : closer'[b] \in {"insist", "drain", "close"} => sock.closing
      /\ sock.closing => NothingListed \/ \E b \in Closers : closer'[b] \in {"insist", "drain"}
  BY <1>0, <1>3 DEF SockOK
<1>9. SockOK'
  BY <1>0, <1>1, <1>2, <1>3, <1>4, <1>6, <1>7, <1>8 DEF SockOK
<1> QED
  BY <1>0, <1>2, <1>9, CloserMoves DEF Stages

(* Endpoints are closed or shut down, and pipes are closed, all at once.   *)
LEMMA AllMove ==
  ASSUME CoreInv, CoreAssumed, NEW c \in Closers, NEW k \in Stages \ {"idle", "done", "last"},
         closer[c] \notin {"idle", "done", "last"}, closer' = [closer EXCEPT ![c] = k],
         UNCHANGED <<cb, user, holder>>, sock' \in Sock, sock'.closing, sock'.closed = sock.closed,
         sock'.ref = sock.ref, sock'.gone = sock.gone, sock'.node = sock.node,
         sock'.failed = sock.failed,
         k \in {"insist", "drain"} \/ (k = "close" /\ closer[c] = "shut" /\ sock.closing),
         ep' \in [Eps -> Endpoint],
         \A e \in Eps : EpOK(e, ep'[e], cb[e], Dial(e), Close(e), sock'),
         \A e \in Eps : /\ ep'[e].listed = ep[e].listed /\ ep'[e].alive = ep[e].alive
                        /\ ep'[e].pipe = ep[e].pipe
                        /\ (ep[e].stopped => ep'[e].stopped),
         \A p \in Pipes : MayClose(pipe'[p], pipe[p]), pipe' \in [Pipes -> PipeRec],
         reap' \in Reap, ListsOK(reap'), reap'.cur = reap.cur, reap'.step = reap.step,
         \A e \in Eps : e \in Reaped(reap') => EpGiven(ep'[e]),
         \A p \in Pipes : p \in Reaped(reap') => p \in Reaped(reap) \/ (pipe'[p].closed /\ pipe[p].live)
  PROVE  CoreInv'
<1>1. CoreTypes'
  BY DEF CoreInv, CoreTypes, Stages
<1>2. EpsOK'
  BY DEF EpsOK, Dial, Close
<1>3. PipesOK'
  BY PipesKept
<1>4. ReapOK'
  BY ReapKept
<1>5. /\ closer'[c] = k /\ \A b \in Closers \ {c} : closer'[b] = closer[b]
      /\ Closings' = Closings
  BY ClosingsMove DEF Stages
<1>6. Callers' = Callers /\ SockOK
  BY CallersStay DEF CoreInv
<1>7. NothingListed' <=> NothingListed
  <2>1. \A p \in Pipes : pipe'[p].listed = pipe[p].listed
    BY MayCloseFacts DEF CoreInv, CoreTypes
  <2> QED
    BY <2>1 DEF NothingListed
<1>8. /\ \A b \in Closers : closer'[b] = "last" => closer[b] = "last"
      /\ NothingListed \/ \E b \in Closers : closer'[b] \in {"insist", "drain"}
  BY <1>5, <1>6 DEF SockOK
<1>9. SockOK'
  BY <1>5, <1>6, <1>7, <1>8 DEF SockOK
<1> QED
  BY <1>1, <1>2, <1>3, <1>4, <1>9 DEF CoreInv

(* An endpoint that closes may be in a socket that does.                   *)
LEMMA EpClosing ==
  ASSUME NEW e, NEW d, NEW k, NEW u, NEW v, NEW s, NEW t, EpOK(e, d, k, u, v, s),
         t.closing /\ d.listed => d.closing, t.failed = s.failed
  PROVE  EpOK(e, d, k, u, v, t)
  BY DEF EpOK, Shuts, Works

(* The socket shuts every endpoint down, and every pipe of one.            *)
LEMMA ShutdownKeeps ==
  ASSUME CoreInv, CoreAssumed, NEW c \in Closers, Core!Shutdown(c) PROVE CoreInv'
<1> DEFINE down == {e \in Eps : ep[e].listed /\ ~ep[e].closing /\ ~sock.closing}
           ps == UNION {Core!PipesOf(e) : e \in down}
           shut(e) == Core!Stopped([ep[e] EXCEPT !.closing = TRUE])
<1>0. /\ sock \in Sock /\ closer[c] = "shut" /\ CoreTypes
      /\ closer' = [closer EXCEPT ![c] = IF sock.closing THEN "close" ELSE "insist"]
      /\ sock' = [sock EXCEPT !.closing = TRUE] /\ UNCHANGED <<cb, user, holder>>
  BY DEF CoreInv, CoreTypes, Core!Shutdown
<1>1. /\ ep' = [e \in Eps |-> IF e \in down THEN shut(e) ELSE ep[e]]
      /\ pipe' = Core!PipesClosed(ps) /\ reap' = Core!ToReap(ps)
  BY CoreNames DEF Core!Shutdown
<1>2. /\ sock' \in Sock /\ sock'.closing /\ sock'.closed = sock.closed
      /\ sock'.ref = sock.ref /\ sock'.gone = sock.gone /\ sock'.node = sock.node
      /\ sock'.failed = sock.failed
  BY <1>0 DEF Sock
<1>3. ps \in SUBSET Pipes /\ \A p \in ps : pipe[p].live
  BY PipesOfLive
<1>4. down \subseteq Eps /\ \A e \in Eps : e \in down <=> (ep[e].listed /\ ~ep[e].closing /\ ~sock.closing)
  OBVIOUS
<1> HIDE DEF ps, down
<1>5. /\ \A p \in Pipes : MayClose(pipe'[p], pipe[p])
      /\ pipe' \in [Pipes -> PipeRec] /\ \A p \in ps : pipe'[p].closed
      /\ reap' \in Reap /\ ListsOK(reap') /\ reap'.cur = reap.cur /\ reap'.step = reap.step
      /\ Reaped(reap') = Reaped(reap) \cup {p \in ps : ~pipe[p].closed}
  BY <1>1, <1>3, ClosePipes
<1>6. ASSUME NEW e \in Eps
      PROVE  /\ ep'[e] \in Endpoint /\ EpOK(e, ep'[e], cb[e], Dial(e), Close(e), sock')
             /\ ep'[e].listed = ep[e].listed /\ ep'[e].alive = ep[e].alive
             /\ ep'[e].pipe = ep[e].pipe /\ (ep[e].stopped => ep'[e].stopped)
             /\ EpGiven(ep[e]) => EpGiven(ep'[e])
  <2>1. EpOK(e, ep[e], cb[e], Dial(e), Close(e), sock) /\ ep[e] \in Endpoint /\ cb[e] \in Adding
        /\ Dial(e) \in User /\ Close(e) \in User
    BY <1>0, EpFacts, UserFacts
  <2>2. CASE e \in down
    <3> DEFINE x == shut(e)
    <3>1. ep[e].listed
      BY <1>4, <2>2
    <3>2. /\ x \in Endpoint /\ SameLife(ep[e], x) /\ x.closing /\ x.stopped
          /\ EpOK(e, x, cb[e], Dial(e), Close(e), sock)
      BY <1>0, <2>1, <3>1, EpShut
    <3>3. ep'[e] = x
      BY <1>1, <2>2
    <3> HIDE DEF x
    <3>4. EpOK(e, x, cb[e], Dial(e), Close(e), sock')
      BY <1>2, <3>2, EpClosing
    <3> QED
      BY <3>2, <3>3, <3>4 DEF SameLife, EpGiven
  <2>3. CASE e \notin down
    <3>1. ep'[e] = ep[e]
      BY <1>1, <2>3
    <3>2. ep[e].listed => ep[e].closing
      BY <1>4, <2>1, <2>3 DEF EpOK, Shuts
    <3> QED
      BY <1>2, <2>1, <3>1, <3>2, EpClosing
  <2> QED
    BY <2>2, <2>3
<1>7. ep' \in [Eps -> Endpoint]
  <2>1. ep' = [e \in Eps |-> ep'[e]]
    BY <1>1
  <2> QED
    BY <1>6, <2>1
<1>8. \A e \in Eps : e \in Reaped(reap') => EpGiven(ep'[e])
  <2>1. \A e \in Eps : e \notin ps
    BY <1>3 DEF CoreAssumed
  <2> QED
    BY <1>5, <1>6, <2>1 DEF CoreInv, ReapOK
<1>9. \A p \in Pipes : p \in Reaped(reap') => p \in Reaped(reap) \/ (pipe'[p].closed /\ pipe[p].live)
  BY <1>3, <1>5
<1> DEFINE k == IF sock.closing THEN "close" ELSE "insist"
<1>10. /\ k \in Stages \ {"idle", "done", "last"}
       /\ k \in {"insist", "drain"} \/ (k = "close" /\ closer[c] = "shut" /\ sock.closing)
       /\ closer' = [closer EXCEPT ![c] = k]
  BY <1>0 DEF Stages
<1> HIDE DEF k
<1>11. /\ closer[c] \notin {"idle", "done", "last"} /\ k \in {"insist", "drain", "close"}
       /\ \A e \in Eps : EpOK(e, ep'[e], cb[e], Dial(e), Close(e), sock')
       /\ \A e \in Eps : /\ ep'[e].listed = ep[e].listed /\ ep'[e].alive = ep[e].alive
                         /\ ep'[e].pipe = ep[e].pipe
                         /\ (ep[e].stopped => ep'[e].stopped)
  BY <1>0, <1>6, <1>10
<1> HIDE DEF shut
<1> QED
  BY <1>0, <1>2, <1>5, <1>7, <1>8, <1>9, <1>10, <1>11, AllMove

(* It closes what is left: endpoints nobody holds go to the reaper.        *)
LEMMA InsistKeeps ==
  ASSUME CoreInv, CoreAssumed, NEW c \in Closers, Core!Insist(c) PROVE CoreInv'
<1> DEFINE open == {e \in Eps : ep[e].listed /\ ~ep[e].closed}
           ps == {p \in Pipes : pipe[p].listed}
           given == {e \in open : ep[e].ref = 0}
           s == Core!SetToSeq(given)
           r == Core!ToReap(ps)
<1>0. /\ sock \in Sock /\ closer[c] = "insist" /\ CoreTypes /\ sock.closing
      /\ closer' = [closer EXCEPT ![c] = "drain"] /\ UNCHANGED <<sock, cb, user, holder>>
  BY DEF CoreInv, CoreTypes, SockOK, Core!Insist
<1>1. /\ ep' = [e \in Eps |-> [ep[e] EXCEPT !.closed = @ \/ e \in open]]
      /\ pipe' = Core!PipesClosed(ps) /\ reap' = [r EXCEPT !.eps = s \o @]
  BY CoreNames DEF Core!Insist
<1>3. ps \in SUBSET Pipes /\ \A p \in ps : pipe[p].live
  BY DEF CoreInv, PipesOK, PipeOK
<1>4. open \subseteq Eps /\ \A e \in Eps : e \in open <=> (ep[e].listed /\ ~ep[e].closed)
  OBVIOUS
<1>5. given \subseteq Eps /\ \A e \in Eps : e \in given <=> (e \in open /\ ep[e].ref = 0)
  OBVIOUS
<1> HIDE DEF ps, open, given, r
<1>6. /\ \A p \in Pipes : MayClose(pipe'[p], pipe[p])
      /\ pipe' \in [Pipes -> PipeRec] /\ \A p \in ps : pipe'[p].closed
      /\ r \in Reap /\ ListsOK(r) /\ r.cur = reap.cur /\ r.step = reap.step
      /\ Reaped(r) = Reaped(reap) \cup {p \in ps : ~pipe[p].closed}
  BY <1>1, <1>3, ClosePipes DEF r
<1>7. s \in Seq(Eps) /\ Once(s) /\ In(s) = given
  <2>1. IsFiniteSet(given)
    BY <1>5, FS_Subset DEF CoreAssumed
  <2>2. s \in Seq(given) /\ Once(s) /\ In(s) = given
    BY <2>1, SetSeq
  <2>3. Seq(given) \subseteq Seq(Eps)
    BY <1>5
  <2> QED
    BY <2>2, <2>3
<1> HIDE DEF s
<1>8. In(s) \cap Reaped(r) = {}
  <2>1. \A e \in Eps : e \notin ps
    BY <1>3 DEF CoreAssumed
  <2>2. \A e \in Eps : e \in Reaped(reap) => ep[e].closed
    BY DEF CoreInv, ReapOK, EpGiven
  <2> QED
    BY <1>4, <1>5, <1>6, <1>7, <2>1, <2>2
<1>9. /\ reap' \in Reap /\ ListsOK(reap') /\ Reaped(reap') = Reaped(r) \cup given
      /\ reap'.cur = reap.cur /\ reap'.step = reap.step
  BY <1>1, <1>6, <1>7, <1>8, EpsToReap
<1>10. ASSUME NEW e \in Eps
       PROVE  /\ ep'[e] \in Endpoint /\ EpOK(e, ep'[e], cb[e], Dial(e), Close(e), sock)
              /\ ep'[e].listed = ep[e].listed /\ ep'[e].alive = ep[e].alive
              /\ ep'[e].pipe = ep[e].pipe /\ (ep[e].stopped => ep'[e].stopped)
              /\ EpGiven(ep[e]) => EpGiven(ep'[e])
              /\ e \in given => EpGiven(ep'[e])
  <2>1. EpOK(e, ep[e], cb[e], Dial(e), Close(e), sock) /\ ep[e] \in Endpoint
    BY EpFacts
  <2> DEFINE x == [ep[e] EXCEPT !.closed = @ \/ e \in open]
  <2>2. /\ x \in Endpoint /\ (x.closed <=> (ep[e].closed \/ e \in open)) /\ x.alive = ep[e].alive
        /\ x.listed = ep[e].listed /\ x.ref = ep[e].ref /\ x.closing = ep[e].closing
        /\ x.pipe = ep[e].pipe /\ x.con = ep[e].con /\ x.tmo = ep[e].tmo
        /\ x.stopped = ep[e].stopped /\ x.waiter = ep[e].waiter /\ x.result = ep[e].result
    BY <2>1 DEF Endpoint
  <2>3. ep'[e] = x
    BY <1>1
  <2> HIDE DEF x
  <2>4. /\ Counted(ep[e], Dial(e), Close(e)) /\ Lives(ep[e], cb[e], Dial(e))
        /\ Shuts(ep[e], Dial(e), Close(e), sock)
        /\ Tells(ep[e], cb[e], Dial(e)) /\ Works(ep[e], cb[e], Dial(e), sock) /\ Kinds(e, ep[e], cb[e], Dial(e))
    BY <2>1 DEF EpOK
  <2>5. e \in open => ep[e].closing /\ ep[e].listed /\ ep[e].alive
    BY <1>0, <1>4, <2>4 DEF Shuts, Lives
  <2>6. Counted(x, Dial(e), Close(e))
    BY <2>2, <2>4 DEF Counted
  <2>7. Lives(x, cb[e], Dial(e))
    <3>1. Dial(e).pc \in {"find", "create"} => x = ep[e]
      <4>1. ASSUME Dial(e).pc \in {"find", "create"} PROVE x = ep[e]
        <5>1. e \notin open
          BY <2>4, <2>5, <4>1, NoEpFacts DEF Lives
        <5>2. (ep[e].closed \/ e \in open) = ep[e].closed /\ ep[e].closed \in BOOLEAN
          BY <2>1, <5>1 DEF Endpoint
        <5>3. [ep[e] EXCEPT !.closed = ep[e].closed] = ep[e]
          BY <2>1 DEF Endpoint
        <5> QED
          BY <5>2, <5>3 DEF x
      <4> QED
        BY <4>1
    <3> QED
      BY <2>2, <2>4, <3>1 DEF Lives
  <2>8. Shuts(x, Dial(e), Close(e), sock) /\ Tells(x, cb[e], Dial(e))
    BY <2>2, <2>4, <2>5 DEF Shuts, Tells
  <2>9. Works(x, cb[e], Dial(e), sock) /\ Kinds(e, x, cb[e], Dial(e))
    BY <2>2, <2>4, <2>5 DEF Works, Started, Kinds
  <2>10. EpOK(e, x, cb[e], Dial(e), Close(e), sock)
    BY <2>6, <2>7, <2>8, <2>9 DEF EpOK
  <2> QED
    BY <1>5, <2>2, <2>3, <2>5, <2>10 DEF EpGiven
<1>11. ep' \in [Eps -> Endpoint]
  <2>1. ep' = [e \in Eps |-> ep'[e]]
    BY <1>1
  <2> QED
    BY <1>10, <2>1
<1>12. \A e \in Eps : e \in Reaped(reap') => EpGiven(ep'[e])
  <2>1. \A e \in Eps : e \notin ps
    BY <1>3 DEF CoreAssumed
  <2> QED
    BY <1>6, <1>9, <1>10, <2>1 DEF CoreInv, ReapOK
<1>13. \A p \in Pipes : p \in Reaped(reap') => p \in Reaped(reap) \/ (pipe'[p].closed /\ pipe[p].live)
  <2>1. \A p \in Pipes : p \notin given
    BY <1>5 DEF CoreAssumed
  <2> QED
    BY <1>3, <1>6, <1>9, <2>1
<1> QED
  BY <1>0, <1>6, <1>9, <1>10, <1>11, <1>12, <1>13, AllMove DEF Stages

(* Nothing happens.                                                        *)
LEMMA CoreStays == ASSUME CoreInv, UNCHANGED Core!vars PROVE CoreInv'
<1>0. /\ sock' = sock /\ ep' = ep /\ pipe' = pipe /\ cb' = cb /\ reap' = reap
      /\ user' = user /\ closer' = closer /\ holder' = holder
  BY DEF Core!vars
<1>1. CoreTypes'
  <2>1. CoreTypes
    BY DEF CoreInv
  <2>2. sock' \in Sock /\ ep' \in [Eps -> Endpoint] /\ pipe' \in [Pipes -> PipeRec]
    BY <1>0, <2>1 DEF CoreTypes
  <2>3. cb' \in [Eps -> Adding] /\ reap' \in Reap /\ user' \in [Core!Users -> User]
    BY <1>0, <2>1 DEF CoreTypes
  <2>4. closer' \in [Closers -> Stages] /\ holder' \in Pipes \cup {None}
    BY <1>0, <2>1 DEF CoreTypes, Stages
  <2> QED
    BY <2>2, <2>3, <2>4 DEF CoreTypes, Stages
<1>2. EpsOK'
  BY <1>0 DEF CoreInv, EpsOK
<1>3. PipesOK'
  <2>1. PipesOK /\ \A p \in Pipes : Added(p)' = Added(p)
    BY <1>0 DEF CoreInv, Added
  <2>2. ASSUME NEW p \in Pipes PROVE PipeOK(p, pipe[p], holder = p)'
    <3>1. PipeOK(p, pipe[p], holder = p) /\ Added(p)' = Added(p)
      BY <2>1 DEF PipesOK
    <3> QED
      BY <1>0, <3>1 DEF PipeOK
  <2>3. \A e \in Eps : /\ cb'[e].p # None => pipe'[cb'[e].p].ep = e
                       /\ ep'[e].pipe # None => pipe'[ep'[e].pipe].ep = e
    BY <1>0, <2>1 DEF PipesOK
  <2>4. \A p \in Pipes : pipe'[p].listed => ep'[pipe'[p].ep].listed
    BY <1>0, <2>1 DEF PipesOK
  <2> QED
    BY <2>2, <2>3, <2>4 DEF PipesOK
<1>4. ReapOK'
  <2>1. ReapOK /\ \A x : Fined(x)' <=> Fined(x)
    BY <1>0 DEF CoreInv, Fined
  <2> QED
    BY <1>0, <2>1 DEF ReapOK
<1>5. Callers' = Callers /\ Closings' = Closings /\ NothingListed' = NothingListed
  BY <1>0 DEF Callers, Closings, NothingListed
<1>6. SockOK'
  BY <1>0, <1>5 DEF CoreInv, SockOK
<1> QED
  BY <1>1, <1>2, <1>3, <1>4, <1>6 DEF CoreInv

(* Every step keeps the invariant, and it holds at first.                  *)
LEMMA CoreNext ==
  ASSUME CoreInv, CoreAssumed, [Core!Next]_(Core!vars) PROVE CoreInv'
<1>1. CASE UNCHANGED Core!vars
  BY <1>1, CoreStays
<1>2. ASSUME NEW e \in Eps, Core!Caller(e) PROVE CoreInv'
  BY <1>2, SockFindKeeps, CreateKeeps, DialerStartKeeps, DialerStartedKeeps, ListenerStartKeeps,
     SockReleKeeps DEF Core!Caller
<1>3. ASSUME NEW e \in Eps, Core!ConDone(e) \/ Core!Callback(e) PROVE CoreInv'
  BY <1>3, ConDoneKeeps, TimerCbKeeps, CbErrorKeeps, CbRefuseKeeps, CbPipeFailsKeeps,
     CbAddPipeKeeps, CbStartPipeKeeps, CbPostedKeeps DEF Core!Callback
<1>4. ASSUME NEW u \in Core!Users, Core!EpFind(u) \/ Core!Holder(u) PROVE CoreInv'
  <2>1. PICK e \in Eps, w \in {"dial", "close"} : u = <<e, w>>
    BY CoreNames DEF Core!Users
  <2>2. CASE Core!Holder(u)
    BY <2>1, <2>2, EpCloseKeeps, EpShutdownKeeps, EpReleKeeps DEF Core!Holder
  <2>3. CASE Core!EpFind(u)
    <3>1. user[u].pc = "none"
      BY <2>3 DEF Core!EpFind
    <3>2. Dial(e).pc # "none"
      BY DEF CoreInv, EpsOK, EpOK, Counted, Dial
    <3>3. w = "close"
      BY <2>1, <3>1, <3>2 DEF Dial
    <3> QED
      BY <2>1, <2>3, <3>3, EpFindKeeps
  <2> QED
    BY <1>4, <2>2, <2>3
<1>5. ASSUME NEW p \in Pipes, Core!Lost(p) \/ Core!PipeFind(p) PROVE CoreInv'
  BY <1>5, LostKeeps, PipeFindKeeps
<1>6. CASE Core!PipeClose \/ Core!Reaper
  BY <1>6, PipeCloseKeeps, ReapTakeKeeps, ReapNextKeeps, PipeUnknownKeeps, PipeRemoveKeeps,
     PipeFiniKeeps, EpStopKeeps, EpReapKeeps, EpFiniKeeps DEF Core!Reaper
<1>7. ASSUME NEW c \in Closers, Core!CloseFind(c) \/ Core!CloseAll(c) \/ Core!Closing(c)
      PROVE  CoreInv'
  BY <1>7, CloseFindKeeps, CloseAllKeeps, ShutdownKeeps, InsistKeeps, DrainedKeeps,
     CloseSockKeeps, DestroyKeeps DEF Core!Closing
<1> QED
  BY <1>1, <1>2, <1>3, <1>4, <1>5, <1>6, <1>7, CoreNames DEF Core!Next

LEMMA CoreStarts == ASSUME Core!Init, CoreAssumed PROVE CoreInv
<1>0. /\ sock = [closing |-> FALSE, closed |-> FALSE, ref |-> 0, node |-> TRUE, gone |-> FALSE,
               failed |-> FALSE]
      /\ ep = [e \in Eps |-> Core!NoEp] /\ pipe = [p \in Pipes |-> Core!NoPipe]
      /\ cb = [e \in Eps |-> Core!NoCb]
      /\ reap = [pipes |-> <<>>, eps |-> <<>>, hand |-> <<>>, at |-> "pipes", cur |-> None,
                 step |-> "none"]
      /\ user = [u \in Core!Users |-> [pc |-> IF u = Core!Dial(u[1]) THEN "find" ELSE "none",
                                       sock |-> FALSE]]
      /\ closer = [c \in Closers |-> "idle"] /\ holder = None
  BY CoreNames DEF Core!Init
<1>1. /\ sock \in Sock /\ ~sock.closing /\ ~sock.closed /\ ~sock.gone /\ sock.ref = 0
  BY <1>0 DEF Sock
<1>2. ep \in [Eps -> Endpoint] /\ cb \in [Eps -> Adding]
  BY <1>0, NoEpFacts, NoCbFacts
<1>3. Core!NoPipe \in PipeRec /\ ~Core!NoPipe.live /\ ~Core!NoPipe.listed /\ ~Core!NoPipe.known
      /\ Core!NoPipe.ep = None /\ Core!NoPipe.ref = 0
  BY DEF Core!NoPipe, PipeRec
<1>4. pipe \in [Pipes -> PipeRec]
  BY <1>0, <1>3
<1>5. user \in [Core!Users -> User] /\ closer \in [Closers -> Stages]
  BY <1>0 DEF User, Stages
<1>6. \A e \in Eps : Dial(e).pc = "find" /\ ~Dial(e).sock /\ Close(e).pc = "none" /\ ~Close(e).sock
  <2>1. \A e \in Eps : <<e, "dial">> \in Core!Users /\ <<e, "close">> \in Core!Users
    BY CoreNames DEF Core!Users
  <2> QED
    BY <1>0, <2>1 DEF Dial, Close, Core!Dial
<1>7. /\ reap \in Reap /\ reap.cur = None /\ reap.step = "none"
      /\ reap.pipes = <<>> /\ reap.eps = <<>> /\ reap.hand = <<>>
  BY <1>0 DEF Reap
<1>8. In(<<>>) = {} /\ Once(<<>>)
  BY DEF In, Once
<1>9. Reaped(reap) = {} /\ ListsOK(reap)
  <2>1. None \notin {}
    OBVIOUS
  <2> QED
    BY <1>7, <1>8 DEF Reaped, ListsOK
<1>10. CoreTypes
  BY <1>0, <1>1, <1>2, <1>4, <1>5, <1>7 DEF CoreTypes, Stages
<1>11. EpsOK
  <2>1. ASSUME NEW e \in Eps PROVE EpOK(e, Core!NoEp, Core!NoCb, Dial(e), Close(e), sock)
    <3>1. Counted(Core!NoEp, Dial(e), Close(e)) /\ Lives(Core!NoEp, Core!NoCb, Dial(e))
      BY <1>6, NoEpFacts, NoCbFacts DEF Counted, Lives, Holds, One
    <3>2. Shuts(Core!NoEp, Dial(e), Close(e), sock) /\ Tells(Core!NoEp, Core!NoCb, Dial(e))
          /\ Works(Core!NoEp, Core!NoCb, Dial(e), sock) /\ Kinds(e, Core!NoEp, Core!NoCb, Dial(e))
      BY <1>1, <1>6, NoEpFacts, NoCbFacts DEF Shuts, Tells, Works, Started, Kinds
    <3> QED
      BY <3>1, <3>2 DEF EpOK
  <2> QED
    BY <1>0, <2>1 DEF EpsOK, Dial, Close
<1>12. PipesOK
  <2>1. \A e \in Eps : cb[e].p = None /\ ep[e].pipe = None
    BY <1>0, NoEpFacts, NoCbFacts
  <2>2. \A p \in Pipes : ~Added(p) /\ holder # p /\ pipe[p] = Core!NoPipe
    BY <1>0, <2>1 DEF Added, CoreAssumed
  <2>3. None \notin Eps
    BY DEF CoreAssumed
  <2>4. \A p \in Pipes : PipeOK(p, pipe[p], holder = p)
    BY <1>3, <2>2, <2>3 DEF PipeOK, One
  <2> QED
    BY <1>3, <2>1, <2>2, <2>4 DEF PipesOK
<1>13. ReapOK
  <2>1. \A x \in Eps \cup Pipes : ~Fined(x)
    BY <1>7 DEF Fined
  <2>2. \A e \in Eps : ~ep[e].alive
    BY <1>0, NoEpFacts
  <2>3. \A p \in Pipes : ~pipe[p].live /\ reap.cur # p
    BY <1>0, <1>3, <1>7 DEF CoreAssumed
  <2> QED
    BY <1>7, <1>9, <2>1, <2>2, <2>3 DEF ReapOK
<1>14. SockOK
  <2>1. Callers = {} /\ Closings = {}
    BY <1>0, <1>6 DEF Callers, Closings, Dial
  <2>2. Cardinality({}) = 0 /\ IsFiniteSet({})
    BY FS_EmptySet
  <2>3. \A c \in Closers : closer[c] = "idle"
    BY <1>0
  <2> QED
    BY <1>1, <2>1, <2>2, <2>3 DEF SockOK, One
<1> QED
  BY <1>10, <1>11, <1>12, <1>13, <1>14 DEF CoreInv

(* What the invariant says of what is promised.                            *)
LEMMA CoreDomains ==
  ASSUME CoreInv PROVE DOMAIN ep = Eps /\ DOMAIN pipe = Pipes /\ DOMAIN closer = Closers
  BY DEF CoreInv, CoreTypes

LEMMA CoreTyped == ASSUME CoreInv PROVE EndpointTypeOK
<1>0. CoreTypes /\ EpsOK /\ PipesOK /\ SockOK
  BY DEF CoreInv
<1>1. sock.ref \in Nat
  <2>1. Cardinality(Callers) \in Nat /\ Cardinality(Closings) \in Nat
    BY <1>0, FS_CardinalityType DEF SockOK
  <2> QED
    BY <1>0, <2>1 DEF SockOK, One
<1>2. sock \in [closing : BOOLEAN, closed : BOOLEAN, ref : Nat, node : BOOLEAN, gone : BOOLEAN,
                 failed : BOOLEAN]
  BY <1>0, <1>1 DEF CoreTypes, Sock
<1>3. \A e \in Eps : ep[e].ref \in Nat
  <2>1. \A e \in Eps : ep[e].ref = One(Holds(Dial(e))) + One(Holds(Close(e)))
    BY EpFacts DEF EpOK, Counted
  <2> QED
    BY <2>1 DEF One
<1>4. \A e \in Eps : /\ ep[e].con \in {"idle", "pending", "ok", "error", "closed"}
                     /\ ep[e].tmo \in {"idle", "pending", "closed"}
  BY <1>0 DEF CoreTypes, Endpoint
<1>5. \A p \in Pipes : pipe[p].ref \in Int /\ (pipe[p].listed <=> pipe[p].ep \in Eps)
  BY <1>0 DEF CoreTypes, PipeRec, PipesOK, PipeOK
<1> QED
  BY <1>0, <1>2, <1>3, <1>4, <1>5, CoreDomains DEF EndpointTypeOK

(* A callback has its pipe, a pipe its endpoint.                           *)
LEMMA CoreOutlives == ASSUME CoreInv, CoreAssumed PROVE EndpointOutlives
<1>0. CoreTypes /\ EpsOK /\ PipesOK
  BY DEF CoreInv
<1>1. \A p \in Pipes : pipe[p].listed => ep[pipe[p].ep].alive /\ ep[pipe[p].ep].listed
  BY <1>0 DEF PipesOK, PipeOK, EpsOK, EpOK, Lives
<1>2. ASSUME NEW e \in Eps, ep[e].pipe # None PROVE ListedWith(ep[e].pipe, e)
  BY <1>0, <1>2 DEF PipesOK, PipeOK, CoreTypes, Endpoint, ListedWith
<1>3. ASSUME NEW e \in Eps, cb[e].step # "none"
      PROVE  /\ ep[e].alive /\ cb[e].p \in Pipes /\ ListedWith(cb[e].p, e)
             /\ pipe[cb[e].p].ref >= 1
  <2>1. Lives(ep[e], cb[e], Dial(e))
    BY <1>0, EpFacts DEF EpOK
  <2>2. ep[e].alive /\ cb[e].p \in Pipes
    BY <1>3, <2>1, NoCbFacts DEF Lives
  <2>3. cb[e].p # None => pipe[cb[e].p].ep = e
    BY <1>0 DEF PipesOK
  <2>4. PICK p \in Pipes : p = cb[e].p
    BY <2>2
  <2>5. PipeOK(p, pipe[p], holder = p) /\ Added(p)
    BY <1>0, <2>4 DEF PipesOK, Added
  <2>6. pipe[p].ref >= 1
    BY <2>5 DEF PipeOK, One
  <2>7. pipe[p].ep = e /\ pipe[p].listed
    BY <2>3, <2>4, <2>5 DEF PipeOK, CoreAssumed
  <2> QED
    BY <2>2, <2>4, <2>6, <2>7 DEF ListedWith
<1>4. None \notin Pipes
  BY DEF CoreAssumed
<1> QED
  BY <1>1, <1>2, <1>3, <1>4, CoreDomains DEF EndpointOutlives

(* The lists of the reaper, one after the other.                           *)
LEMMA ReaperHas ==
  ASSUME CoreInv, CoreAssumed
  PROVE  Once(InReap) /\ In(InReap) = Reaped(reap)
<1>0. reap \in Reap /\ ListsOK(reap)
  BY DEF CoreInv, CoreTypes, ReapOK
<1> DEFINE S == Eps \cup Pipes
           last == IF reap.step = "none" THEN <<>> ELSE <<reap.cur>>
           a == reap.pipes \o reap.eps
           b == a \o reap.hand
<1>1. reap.pipes \in Seq(S) /\ reap.eps \in Seq(S) /\ reap.hand \in Seq(S)
  BY <1>0 DEF Reap
<1>2. In(reap.pipes) \subseteq Pipes /\ In(reap.eps) \subseteq Eps
  BY <1>0, SeqMembers DEF Reap
<1>3. last \in Seq(S) /\ Once(last) /\ In(last) = {reap.cur} \ {None}
  <2>0. reap.cur = None <=> reap.step = "none"
    BY <1>0 DEF ListsOK
  <2>1. CASE reap.cur = None
    <3>1. last = <<>>
      BY <2>0, <2>1
    <3> HIDE DEF last
    <3> QED
      BY <2>1, <3>1 DEF In, Once
  <2>2. CASE reap.cur # None
    <3>1. reap.cur \in S
      BY <1>0, <2>2 DEF Reap
    <3>2. last = <<reap.cur>>
      BY <2>0, <2>2
    <3> HIDE DEF last
    <3> QED
      BY <2>2, <3>1, <3>2, OneSeq
  <2> QED
    BY <2>1, <2>2
<1> HIDE DEF last
<1>4. a \in Seq(S) /\ In(a) = In(reap.pipes) \cup In(reap.eps) /\ Once(a)
  <2>1. In(reap.pipes) \cap In(reap.eps) = {}
    BY <1>2 DEF CoreAssumed
  <2> QED
    BY <1>0, <1>1, <2>1, ConcatOnce DEF ListsOK
<1> HIDE DEF a
<1>5. b \in Seq(S) /\ In(b) = In(a) \cup In(reap.hand) /\ Once(b)
  <2>1. In(a) \cap In(reap.hand) = {}
    BY <1>0, <1>4 DEF ListsOK
  <2> QED
    BY <1>0, <1>1, <1>4, <2>1, ConcatOnce DEF ListsOK
<1> HIDE DEF b
<1>6. In(b \o last) = In(b) \cup In(last) /\ Once(b \o last)
  <2>1. In(b) \cap In(last) = {}
    BY <1>0, <1>3, <1>4, <1>5 DEF ListsOK
  <2> QED
    BY <1>3, <1>5, <2>1, ConcatOnce
<1>7. InReap = b \o last
  BY DEF InReap, a, b, last
<1> QED
  BY <1>3, <1>4, <1>5, <1>6, <1>7 DEF Reaped

(* Nothing is given to the reaper twice, or while someone has it.          *)
LEMMA CoreReaps == ASSUME CoreInv, CoreAssumed PROVE ReapedOnce
<1>1. \A i, j \in DOMAIN InReap : InReap[i] = InReap[j] => i = j
  BY ReaperHas DEF Once
<1>2. \A i \in DOMAIN InReap : InReap[i] \in Reaped(reap)
  BY ReaperHas DEF In
<1>3. \A e \in Eps : e \in Reaped(reap) => ep[e].closed /\ ep[e].closing /\ ep[e].ref = 0
  BY DEF CoreInv, ReapOK, EpGiven
<1>4. \A p \in Pipes : p \in Reaped(reap) => pipe[p].closed
  BY DEF CoreInv, ReapOK
<1> QED
  BY <1>1, <1>2, <1>3, <1>4, CoreDomains DEF ReapedOnce

(* With every pipe listed or at its end, the socket is freed after all of  *)
(* them.                                                                   *)
LEMMA SockIsLast == ASSUME CoreInv, ~sock.failed PROVE SocketOutlives
<1> SUFFICES ASSUME sock.gone
             PROVE  /\ \A e \in Eps : /\ ep[e].alive => Fined(e)
                                      /\ ~user[<<e, "dial">>].sock /\ cb[e].step = "none"
                    /\ \A p \in Pipes : pipe[p].live => Fined(p)
                    /\ \A c \in Closers : closer[c] \in {"idle", "done"}
  BY CoreDomains DEF SocketOutlives
<1>1. sock.closing /\ Callers = {} /\ Closings = {}
  BY DEF CoreInv, SockOK
<1>2. \A c \in Closers : closer[c] \in {"idle", "done"}
  BY <1>1 DEF Closings
<1>3. NothingListed
  BY <1>1, <1>2 DEF CoreInv, SockOK
<1>4. \A e \in Eps : /\ ep[e].alive => Fined(e)
                     /\ ~user[<<e, "dial">>].sock /\ cb[e].step = "none"
  BY <1>1, <1>3, NoCbFacts DEF CoreInv, NothingListed, ReapOK, Callers, EpsOK, EpOK, Lives
<1>5. \A p \in Pipes : pipe[p].live => Fined(p)
  BY <1>3 DEF CoreInv, NothingListed, ReapOK
<1> QED
  BY <1>2, <1>4, <1>5

(* An open endpoint that was started has something to do.                  *)
LEMMA CoreWorks == ASSUME CoreInv, ~sock.failed PROVE NeverIdle
<1> SUFFICES ASSUME NEW e \in Eps, ep[e].listed, ~ep[e].closing, ~ep[e].closed,
                    Dial(e).pc \in {"srele", "end"}
             PROVE  \/ ep[e].con # "idle" \/ ep[e].tmo # "idle" \/ cb[e].step # "none"
                    \/ ep[e].pipe \in Pipes
  BY CoreDomains DEF NeverIdle, Dial
<1>1. Works(ep[e], cb[e], Dial(e), sock) /\ Tells(ep[e], cb[e], Dial(e))
  BY DEF CoreInv, EpsOK, EpOK, Dial
<1>2. Started(ep[e], Dial(e))
  BY <1>1 DEF Tells, Started
<1>3. ep[e].pipe \in Pipes \cup {None}
  BY DEF CoreInv, CoreTypes, Endpoint
<1> QED
  BY <1>1, <1>2, <1>3 DEF Works

(* EndpointsSound, for any number of dialers, listeners, pipes and closing *)
(* threads and any order of what they, the callbacks and the reaper do: no *)
(* endpoint is freed under its pipe or a callback, and nothing is reaped   *)
(* twice; and, as long as pipe_create has not failed, no socket is freed   *)
(* under a thread, and no open endpoint falls silent.                      *)
THEOREM EndpointsIsSound == Core!EndpointsAssumption => (Core!Spec => []EndpointsSound)
<1> SUFFICES ASSUME Core!EndpointsAssumption PROVE Core!Spec => []EndpointsSound
  OBVIOUS
<1>1. CoreAssumed
  BY CoreNames
<1>2. Core!Init => CoreInv
  BY <1>1, CoreStarts
<1>3. CoreInv /\ [Core!Next]_(Core!vars) => CoreInv'
  BY <1>1, CoreNext
<1>4. CoreInv => EndpointsSound
  BY <1>1, CoreTyped, CoreOutlives, CoreReaps, SockIsLast, CoreWorks DEF EndpointsSound
<1> QED
  BY <1>2, <1>3, <1>4, PTL DEF Core!Spec

=============================================================================
