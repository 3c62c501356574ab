------------------------------ MODULE NniAioProofs ------------------------------
(***************************************************************************)
(* Theorems about the two engines nng runs on, for any number of aios and  *)
(* operations (NniAio) and of connections (PollQueue), and any             *)
(* interleaving of the threads.                                            *)
(***************************************************************************)
EXTENDS NniAio, PollState, SequenceTheorems, FiniteSetTheorems, TLAPS

Posix == INSTANCE PollQueue

-----------------------------------------------------------------------------
(* How often an aio is in the task queue.                                  *)

At(s, a) == {i \in DOMAIN s : s[i] = a}

LEMMA AtFinite ==
  ASSUME NEW S, NEW s \in Seq(S), NEW a
  PROVE  IsFiniteSet(At(s, a)) /\ Cardinality(At(s, a)) \in Nat
<1>1. IsFiniteSet(1..Len(s))
  BY FS_Interval
<1>2. At(s, a) \subseteq 1..Len(s)
  BY DEF At
<1> QED
  BY <1>1, <1>2, FS_Subset, FS_CardinalityType

LEMMA AtAppend ==
  ASSUME NEW S, NEW s \in Seq(S), NEW a \in S, NEW b
  PROVE  Cardinality(At(Append(s, a), b)) = Cardinality(At(s, b)) + One(a = b)
<1>1. IsFiniteSet(At(s, b)) /\ Cardinality(At(s, b)) \in Nat
  BY AtFinite
<1>2. Len(s) + 1 \notin At(s, b)
  BY DEF At
<1>3. CASE a = b
  <2>1. At(Append(s, a), b) = At(s, b) \cup {Len(s) + 1}
    BY <1>3 DEF At
  <2> QED
    BY <1>1, <1>2, <1>3, <2>1, FS_AddElement DEF One
<1>4. CASE a # b
  <2>1. At(Append(s, a), b) = At(s, b)
    BY <1>4 DEF At
  <2> QED
    BY <1>1, <1>4, <2>1 DEF One
<1> QED
  BY <1>3, <1>4

LEMMA AtTail ==
  ASSUME NEW S, NEW s \in Seq(S), s # <<>>, NEW b
  PROVE  Cardinality(At(s, b)) = Cardinality(At(Tail(s), b)) + One(Head(s) = b)
<1> DEFINE rest == At(s, b) \ {1}
           tail == At(Tail(s), b)
           f == [i \in tail |-> i + 1]
<1>1. Tail(s) \in Seq(S) /\ Len(Tail(s)) = Len(s) - 1 /\ Len(s) \in Nat \ {0}
      /\ \A i \in 1..Len(Tail(s)) : Tail(s)[i] = s[i + 1]
  BY HeadTailProperties, EmptySeq, LenProperties
<1>2. IsFiniteSet(At(s, b)) /\ IsFiniteSet(tail)
  BY <1>1, AtFinite
<1>3. tail \subseteq 1..(Len(s) - 1) /\ \A i \in tail : s[i + 1] = b
  BY <1>1 DEF At
<1>4. f \in Bijection(tail, rest)
  <2>1. \A i \in tail : i + 1 \in rest
    BY <1>1, <1>3 DEF At
  <2>2. f \in [tail -> rest]
    BY <2>1
  <2>3. \A i, j \in tail : f[i] = f[j] => i = j
    BY <1>3
  <2>4. \A j \in rest : \E i \in tail : f[i] = j
    <3>1. SUFFICES ASSUME NEW j \in rest PROVE j - 1 \in tail /\ f[j - 1] = j
      OBVIOUS
    <3>2. j \in 2..Len(s) /\ s[j] = b
      BY DEF At
    <3>3. j - 1 \in 1..Len(Tail(s)) /\ Tail(s)[j - 1] = b
      BY <1>1, <3>2
    <3>4. j - 1 \in tail
      BY <1>1, <3>3 DEF At
    <3> QED
      BY <3>2, <3>4
  <2> QED
    BY <2>2, <2>3, <2>4 DEF Bijection, Injection, Surjection, IsInjective
<1>5. Cardinality(rest) = Cardinality(tail)
  <2>1. ExistsBijection(tail, rest)
    BY <1>4 DEF ExistsBijection, Bijection
  <2> QED
    BY <1>2, <2>1, FS_Bijection
<1>6. Cardinality(At(s, b)) \in Nat /\ Cardinality(rest) \in Nat
  BY <1>2, FS_RemoveElement, FS_CardinalityType, AtFinite, FS_Difference
<1>7. 1 \in At(s, b) <=> Head(s) = b
  BY <1>1, HeadTailProperties DEF At
<1> DEFINE all == At(s, b)
<1>8. Cardinality(rest) = IF 1 \in all THEN Cardinality(all) - 1 ELSE Cardinality(all)
  <2>1. IsFiniteSet(all)
    BY <1>2
  <2>2. rest = all \ {1}
    OBVIOUS
  <2> HIDE DEF all, rest
  <2> QED
    BY <2>1, <2>2, FS_RemoveElement
<1>9. Cardinality(all) = Cardinality(tail) + (IF Head(s) = b THEN 1 ELSE 0)
  <2> HIDE DEF rest, tail
  <2> QED
    BY <1>5, <1>6, <1>7, <1>8
<1> QED
  BY <1>9 DEF One

-----------------------------------------------------------------------------
(* The queue in the steps.                                                 *)

LEMMA TypeFacts ==
  ASSUME AioTypeOK
  PROVE  /\ a_stop \in [Aios -> BOOLEAN] /\ a_cancel_fn \in [Aios -> BOOLEAN]
         /\ a_expiring \in [Aios -> BOOLEAN] /\ task_prep \in [Aios -> BOOLEAN]
         /\ owned \in [Aios -> BOOLEAN] /\ begun \in [Aios -> BOOLEAN]
         /\ listed \in [Aios -> BOOLEAN] /\ refused \in [Aios -> BOOLEAN]
         /\ task_busy \in [Aios -> Nat] /\ running \in [Aios -> Nat]
         /\ ops \in [Aios -> Nat] /\ calls \in [Aios -> Nat]
         /\ finishing \in [Aios -> {"no", "finish", "dispatch", "queue"}]
         /\ cancelling \in [Aios -> SUBSET Callers]
         /\ batch \in Seq(Aios) /\ tq_tasks \in Seq(Aios)
  BY DEF AioTypeOK

LEMMA QueuedNat == ASSUME AioTypeOK, NEW a PROVE Queued(a) \in Nat
<1>1. tq_tasks \in Seq(Aios) /\ Queued(a) = Cardinality(At(tq_tasks, a))
  BY DEF AioTypeOK, Queued, At
<1> QED
  BY <1>1, AtFinite

LEMMA QueuedSame ==
  ASSUME tq_tasks' = tq_tasks PROVE \A a : Queued(a)' = Queued(a)
  BY DEF Queued

LEMMA QueuedLast ==
  ASSUME tq_tasks \in Seq(Aios), NEW a \in Aios, tq_tasks' = Append(tq_tasks, a)
  PROVE  /\ \A b : Queued(b)' = Queued(b) + One(a = b)
         /\ tq_tasks' \in Seq(Aios)
<1>1. tq_tasks \in Seq(Aios) /\ tq_tasks' \in Seq(Aios)
  OBVIOUS
<1>2. \A b : Queued(b) = Cardinality(At(tq_tasks, b)) /\ Queued(b)' = Cardinality(At(tq_tasks', b))
  BY DEF Queued, At
<1> QED
  BY <1>1, <1>2, AtAppend

LEMMA QueuedFirst ==
  ASSUME tq_tasks \in Seq(Aios), tq_tasks # <<>>, tq_tasks' = Tail(tq_tasks)
  PROVE  /\ Head(tq_tasks) \in Aios
         /\ \A b : Queued(b) = Queued(b)' + One(Head(tq_tasks) = b) /\ Queued(b)' \in Nat
         /\ tq_tasks' \in Seq(Aios)
<1>1. tq_tasks \in Seq(Aios) /\ tq_tasks' \in Seq(Aios) /\ Head(tq_tasks) \in Aios
  BY HeadTailProperties
<1>2. \A b : Queued(b) = Cardinality(At(tq_tasks, b)) /\ Queued(b)' = Cardinality(At(tq_tasks', b))
  BY DEF Queued, At
<1> QED
  BY <1>1, <1>2, AtTail, AtFinite

(* Steps that leave operations and their callbacks alone.                  *)
Aside ==
  \/ \E a \in Aios :
       Abort(a) \/ Stop(a) \/ Stopped(a) \/ Fini(a) \/ FiniHeld(a) \/ Freed(a) \/ Tick(a)
  \/ Scan \/ Expire \/ Expired

Work(a) ==
  \/ Begin(a) \/ Schedule(a) \/ Refuse(a) \/ Complete(a) \/ Finish(a)
  \/ Dispatch(a) \/ Queue(a) \/ TaskEnds(a)

LEMMA StepCases ==
  ASSUME [Next]_vars
  PROVE  \/ \E a \in Aios : Work(a)
         \/ \E a \in Aios, c \in Callers : Cancel(a, c)
         \/ TaskRuns
         \/ Aside
         \/ UNCHANGED vars
  BY DEF Next, Completion, Ending, Cancelled, Expiration, Work, Aside

LEMMA AsideKeeps ==
  ASSUME Aside \/ UNCHANGED vars
  PROVE  UNCHANGED <<begun, listed, finishing, tq_tasks, running, owned, task_busy, task_prep,
                     ops, calls, refused>>
  BY DEF Aside, Abort, Stop, Stopped, Fini, FiniHeld, Freed, Tick, Scan, Expire, Expired, Take,
         vars, task, expiry, user, history

-----------------------------------------------------------------------------
(* Operations and their callbacks.                                         *)

OperationTypes ==
  /\ task_busy \in [Aios -> Nat] /\ running \in [Aios -> Nat]
  /\ ops \in [Aios -> Nat] /\ calls \in [Aios -> Nat]
  /\ task_prep \in [Aios -> BOOLEAN] /\ owned \in [Aios -> BOOLEAN]
  /\ begun \in [Aios -> BOOLEAN] /\ listed \in [Aios -> BOOLEAN] /\ refused \in [Aios -> BOOLEAN]
  /\ finishing \in [Aios -> {"no", "finish", "dispatch", "queue"}]
  /\ tq_tasks \in Seq(Aios)

(* OnePlace, PreparedUnderWay, ExactlyOnce and BusyIsExact of one aio, in  *)
(* numbers; those for yes and no are 1 and 0.                              *)
Balance(beg, lis, fin, que, own, pre, ref, q, bu, ru, op, ca) ==
  /\ beg + lis + fin + q = 1 - own
  /\ pre <= beg + lis + fin - que
  /\ beg + lis + fin - que <= pre + ref
  /\ op - ca = 1 - own
  /\ bu = pre + que + q + ru

Finishing(a) == One(finishing[a] # "no")
Queueing(a) == One(finishing[a] = "queue")

Account(a) ==
  Balance(One(begun[a]), One(listed[a]), Finishing(a), Queueing(a), One(owned[a]),
          One(task_prep[a]), One(refused[a]), Queued(a), task_busy[a], running[a], ops[a], calls[a])

LEMMA OneYes == ASSUME NEW b, b PROVE One(b) = 1
  BY DEF One
LEMMA OneNo == ASSUME NEW b, ~b PROVE One(b) = 0
  BY DEF One
LEMMA OneBit == ASSUME NEW b \in BOOLEAN PROVE One(b) \in {0, 1} /\ (One(b) = 1 <=> b) /\ One(~b) = 1 - One(b)
<1>1. CASE b
  <2>1. One(b) = 1 /\ One(~b) = 0 /\ (One(b) = 1 <=> b)
    BY <1>1, OneYes, OneNo, Zenon
  <2> DEFINE n == One(b) m == One(~b)
  <2>2. n \in {0, 1} /\ m = 1 - n
    <3>1. n = 1 /\ m = 0
      BY <2>1, Zenon
    <3> HIDE DEF n, m
    <3> QED
      BY <3>1
  <2> QED
    BY <2>1, <2>2, Zenon
<1>2. CASE ~b
  <2> DEFINE n == One(b) m == One(~b)
  <2>1. n = 0 /\ m = 1
    BY <1>2, OneYes, OneNo, Zenon
  <2>2. n \in {0, 1} /\ m = 1 - n /\ n # 1
    <3> HIDE DEF n, m
    <3> QED
      BY <2>1
  <2> QED
    BY <1>2, <2>2, Zenon
<1> QED
  BY <1>1, <1>2

LEMMA Bits ==
  ASSUME OperationTypes, NEW a \in Aios
  PROVE  /\ One(begun[a]) \in {0, 1} /\ (One(begun[a]) = 1 <=> begun[a])
         /\ One(listed[a]) \in {0, 1} /\ (One(listed[a]) = 1 <=> listed[a])
         /\ One(owned[a]) \in {0, 1} /\ (One(owned[a]) = 1 <=> owned[a])
         /\ One(task_prep[a]) \in {0, 1} /\ (One(task_prep[a]) = 1 <=> task_prep[a])
         /\ One(refused[a]) \in {0, 1} /\ (One(refused[a]) = 1 <=> refused[a])
         /\ Finishing(a) \in {0, 1} /\ (Finishing(a) = 1 <=> finishing[a] # "no")
         /\ Queueing(a) \in {0, 1} /\ (Queueing(a) = 1 <=> finishing[a] = "queue")
         /\ One(~owned[a]) = 1 - One(owned[a])
<1>1. /\ begun[a] \in BOOLEAN /\ listed[a] \in BOOLEAN /\ owned[a] \in BOOLEAN
      /\ task_prep[a] \in BOOLEAN /\ refused[a] \in BOOLEAN
  BY DEF OperationTypes
<1>2. (finishing[a] # "no") \in BOOLEAN /\ (finishing[a] = "queue") \in BOOLEAN
  OBVIOUS
<1> QED
  BY <1>1, <1>2, OneBit, Zenon DEF Finishing, Queueing

LEMMA AccountOf ==
  ASSUME AioTypeOK
  PROVE  (OnePlace /\ PreparedUnderWay /\ ExactlyOnce /\ BusyIsExact) <=> \A a \in Aios : Account(a)
<1> SUFFICES ASSUME NEW a \in Aios
             PROVE  (/\ One(begun[a]) + One(listed[a]) + One(finishing[a] # "no") + Queued(a) = One(~owned[a])
                     /\ task_prep[a] => UnderWay(a)
                     /\ UnderWay(a) /\ ~refused[a] => task_prep[a]
                     /\ ops[a] - calls[a] = One(begun[a]) + One(listed[a]) + One(finishing[a] # "no") + Queued(a)
                     /\ task_busy[a] = One(task_prep[a]) + One(finishing[a] = "queue") + Queued(a) + running[a])
                    <=> Account(a)
  BY Zenon DEF OnePlace, PreparedUnderWay, ExactlyOnce, BusyIsExact
<1>1. OperationTypes
  BY TypeFacts DEF OperationTypes
<1>2. Queued(a) \in Nat /\ task_busy[a] \in Nat /\ running[a] \in Nat /\ ops[a] \in Nat /\ calls[a] \in Nat
  BY <1>1, QueuedNat DEF OperationTypes
<1>3. finishing[a] \in {"no", "finish", "dispatch", "queue"}
  BY <1>1 DEF OperationTypes
<1>4. UnderWay(a) <=> One(begun[a]) = 1 \/ One(listed[a]) = 1 \/ Finishing(a) - Queueing(a) = 1
  BY <1>1, <1>3, Bits DEF UnderWay
<1>5. Queueing(a) <= Finishing(a)
  BY <1>1, Bits
<1>6. /\ task_prep[a] <=> One(task_prep[a]) = 1
      /\ refused[a] <=> One(refused[a]) = 1
  BY <1>1, Bits
<1> DEFINE b == One(begun[a]) l == One(listed[a]) f == Finishing(a) u == Queueing(a)
           o == One(owned[a]) p == One(task_prep[a]) r == One(refused[a]) w == One(~owned[a])
<1>7. /\ b \in {0, 1} /\ l \in {0, 1} /\ f \in {0, 1} /\ u \in {0, 1} /\ o \in {0, 1}
      /\ p \in {0, 1} /\ r \in {0, 1} /\ w = 1 - o
  BY <1>1, Bits
<1>8. (/\ b + l + f + Queued(a) = w
       /\ p = 1 => (b = 1 \/ l = 1 \/ f - u = 1)
       /\ (b = 1 \/ l = 1 \/ f - u = 1) /\ r # 1 => p = 1
       /\ ops[a] - calls[a] = b + l + f + Queued(a)
       /\ task_busy[a] = p + u + Queued(a) + running[a])
      <=> Account(a)
  <2>1. Account(a) <=> Balance(b, l, f, u, o, p, r, Queued(a), task_busy[a], running[a], ops[a], calls[a])
    BY DEF Account
  <2>2. u <= f
    BY <1>5
  <2> HIDE DEF b, l, f, u, o, p, r, w
  <2> QED
    <3>1. (/\ b + l + f + Queued(a) = 1 - o
           /\ p = 1 => (b = 1 \/ l = 1 \/ f - u = 1)
           /\ (b = 1 \/ l = 1 \/ f - u = 1) /\ r # 1 => p = 1
           /\ ops[a] - calls[a] = b + l + f + Queued(a)
           /\ task_busy[a] = p + u + Queued(a) + running[a])
          <=> Balance(b, l, f, u, o, p, r, Queued(a), task_busy[a], running[a], ops[a], calls[a])
      BY <1>2, <1>7, <2>2 DEF Balance
    <3> QED
      BY <1>7, <2>1, <3>1, Zenon
<1> QED
  BY <1>4, <1>6, <1>8 DEF Finishing, Queueing

LEMMA BalanceSame ==
  ASSUME NEW b, Account(b), Queued(b)' = Queued(b),
         begun'[b] = begun[b], listed'[b] = listed[b], finishing'[b] = finishing[b],
         owned'[b] = owned[b], task_prep'[b] = task_prep[b], refused'[b] = refused[b],
         task_busy'[b] = task_busy[b], running'[b] = running[b],
         ops'[b] = ops[b], calls'[b] = calls[b]
  PROVE  Account(b)'
  BY DEF Account, Finishing, Queueing

Bit == {0, 1}

(* The provider takes the aio off its list and completes it.               *)
TakenOff(a) ==
  /\ listed[a]
  /\ listed' = [listed EXCEPT ![a] = FALSE]
  /\ finishing' = [finishing EXCEPT ![a] = "finish"]
  /\ UNCHANGED <<begun, owned, task, ops, calls, refused>>

(* The two ends of Queue; TaskRuns.                                        *)
Appended(a) ==
  /\ finishing[a] = "queue"
  /\ finishing' = [finishing EXCEPT ![a] = "no"]
  /\ tq_tasks' = Append(tq_tasks, a)
  /\ UNCHANGED <<begun, listed, owned, task_busy, task_prep, running, ops, calls, refused>>

CalledAtOnce(a) ==
  /\ finishing[a] = "queue"
  /\ finishing' = [finishing EXCEPT ![a] = "no"]
  /\ CallbackBegins(a)
  /\ UNCHANGED <<begun, listed, task_busy, task_prep, tq_tasks, ops, refused>>

CalledFirst(a) ==
  /\ tq_tasks # <<>> /\ a = Head(tq_tasks)
  /\ tq_tasks' = Tail(tq_tasks)
  /\ CallbackBegins(a)
  /\ UNCHANGED <<begun, listed, finishing, task_busy, task_prep, ops, refused>>

LEMMA BeginKeeps ==
  ASSUME OperationTypes, \A b : Queued(b) \in Nat, \A b \in Aios : Account(b), NEW a \in Aios, Begin(a)
  PROVE  OperationTypes' /\ \A b \in Aios : Account(b)'
<1>1. tq_tasks' = tq_tasks /\ \A b : Queued(b)' = Queued(b)
  BY QueuedSame DEF Begin, task
<1>2. /\ begun'[a]
      /\ listed'[a] = listed[a]
      /\ ~owned'[a]
      /\ task_prep'[a]
      /\ refused'[a] = refused[a]
      /\ finishing'[a] = finishing[a]
      /\ owned[a]
      /\ task_busy'[a] = task_busy[a] + 1
      /\ running'[a] = running[a]
      /\ ops'[a] = ops[a] + 1
      /\ calls'[a] = calls[a]
  BY DEF Begin, OperationTypes, task, user, history
<1>3. \A b \in Aios \ {a} : Account(b)'
  BY <1>1, BalanceSame DEF Begin, OperationTypes, task, user, history
<1> DEFINE b == One(begun[a]) l == One(listed[a]) f == Finishing(a) u == Queueing(a)
           o == One(owned[a]) p == One(task_prep[a]) r == One(refused[a])
<1>4. /\ One(begun'[a]) = 1
      /\ One(listed'[a]) = l
      /\ One(owned'[a]) = 0
      /\ One(task_prep'[a]) = 1
      /\ One(refused'[a]) = r
      /\ Finishing(a)' = f
      /\ Queueing(a)' = u
      /\ o = 1
  BY <1>2, OneYes, OneNo, Zenon DEF Finishing, Queueing
<1>5. /\ b \in Bit /\ l \in Bit /\ f \in Bit /\ u \in Bit /\ u <= f /\ o \in Bit /\ p \in Bit /\ r \in Bit
      /\ (p = 1 <=> task_prep[a])
      /\ task_busy[a] \in Nat /\ running[a] \in Nat /\ ops[a] \in Nat /\ calls[a] \in Nat
      /\ Queued(a) \in Nat
  BY Bits DEF OperationTypes, Bit
<1>6. Balance(b, l, f, u, o, p, r, Queued(a), task_busy[a], running[a], ops[a], calls[a])
  BY Zenon DEF Account
<1>7. Balance(1, l, f, u, 0, 1, r, Queued(a), task_busy[a] + 1, running[a], ops[a] + 1, calls[a])
  <2>1. o = 1
    BY <1>4
  <2> HIDE DEF b, l, f, u, o, p, r
  <2>0. b + l + f + Queued(a) = 1 - o
    BY <1>6 DEF Balance
  <2>2. b = 0 /\ l = 0 /\ f = 0 /\ Queued(a) = 0
    BY <2>1, <2>0, <1>5 DEF Bit
  <2>3. u = 0 /\ p = 0
    BY <2>2, <1>5, <1>6 DEF Balance, Bit
  <2> QED
    BY <2>1, <2>2, <2>3, <1>5, <1>6 DEF Balance, Bit
<1>8. Account(a)'
  BY <1>1, <1>2, <1>4, <1>7, Zenon DEF Account
<1>9. OperationTypes'
  BY <1>1 DEF Begin, OperationTypes, task, user, history
<1> QED
  BY <1>3, <1>8, <1>9

LEMMA ScheduleKeeps ==
  ASSUME OperationTypes, \A b : Queued(b) \in Nat, \A b \in Aios : Account(b), NEW a \in Aios, Schedule(a)
  PROVE  OperationTypes' /\ \A b \in Aios : Account(b)'
<1>1. tq_tasks' = tq_tasks /\ \A b : Queued(b)' = Queued(b)
  BY QueuedSame DEF Schedule, Accepts, task
<1>2. /\ ~begun'[a]
      /\ listed'[a]
      /\ owned'[a] = owned[a]
      /\ task_prep'[a] = task_prep[a]
      /\ refused'[a] = refused[a]
      /\ finishing'[a] = finishing[a]
      /\ begun[a]
      /\ task_busy'[a] = task_busy[a]
      /\ running'[a] = running[a]
      /\ ops'[a] = ops[a]
      /\ calls'[a] = calls[a]
  BY DEF Schedule, Accepts, OperationTypes, task, user, history
<1>3. \A b \in Aios \ {a} : Account(b)'
  BY <1>1, BalanceSame DEF Schedule, Accepts, OperationTypes, task, user, history
<1> DEFINE b == One(begun[a]) l == One(listed[a]) f == Finishing(a) u == Queueing(a)
           o == One(owned[a]) p == One(task_prep[a]) r == One(refused[a])
<1>4. /\ One(begun'[a]) = 0
      /\ One(listed'[a]) = 1
      /\ One(owned'[a]) = o
      /\ One(task_prep'[a]) = p
      /\ One(refused'[a]) = r
      /\ Finishing(a)' = f
      /\ Queueing(a)' = u
      /\ b = 1
  BY <1>2, OneYes, OneNo, Zenon DEF Finishing, Queueing
<1>5. /\ b \in Bit /\ l \in Bit /\ f \in Bit /\ u \in Bit /\ u <= f /\ o \in Bit /\ p \in Bit /\ r \in Bit
      /\ (p = 1 <=> task_prep[a])
      /\ task_busy[a] \in Nat /\ running[a] \in Nat /\ ops[a] \in Nat /\ calls[a] \in Nat
      /\ Queued(a) \in Nat
  BY Bits DEF OperationTypes, Bit
<1>6. Balance(b, l, f, u, o, p, r, Queued(a), task_busy[a], running[a], ops[a], calls[a])
  BY Zenon DEF Account
<1>7. Balance(0, 1, f, u, o, p, r, Queued(a), task_busy[a], running[a], ops[a], calls[a])
  <2>1. b = 1
    BY <1>4
  <2> HIDE DEF b, l, f, u, o, p, r
  <2> QED
    BY <2>1, <1>5, <1>6 DEF Balance, Bit
<1>8. Account(a)'
  BY <1>1, <1>2, <1>4, <1>7, Zenon DEF Account
<1>9. OperationTypes'
  BY <1>1 DEF Schedule, Accepts, OperationTypes, task, user, history
<1> QED
  BY <1>3, <1>8, <1>9

LEMMA RefuseKeeps ==
  ASSUME OperationTypes, \A b : Queued(b) \in Nat, \A b \in Aios : Account(b), NEW a \in Aios, Refuse(a)
  PROVE  OperationTypes' /\ \A b \in Aios : Account(b)'
<1>1. tq_tasks' = tq_tasks /\ \A b : Queued(b)' = Queued(b)
  BY QueuedSame DEF Refuse, TaskAborted, task
<1>2. /\ ~begun'[a]
      /\ listed'[a] = listed[a]
      /\ owned'[a] = owned[a]
      /\ ~task_prep'[a]
      /\ refused'[a]
      /\ finishing'[a] = "finish"
      /\ begun[a]
      /\ task_busy'[a] = IF task_prep[a] THEN task_busy[a] - 1 ELSE task_busy[a]
      /\ running'[a] = running[a]
      /\ ops'[a] = ops[a]
      /\ calls'[a] = calls[a]
  BY DEF Refuse, TaskAborted, OperationTypes, task, user, history
<1>3. \A b \in Aios \ {a} : Account(b)'
  BY <1>1, BalanceSame DEF Refuse, TaskAborted, OperationTypes, task, user, history
<1> DEFINE b == One(begun[a]) l == One(listed[a]) f == Finishing(a) u == Queueing(a)
           o == One(owned[a]) p == One(task_prep[a]) r == One(refused[a])
<1>4. /\ One(begun'[a]) = 0
      /\ One(listed'[a]) = l
      /\ One(owned'[a]) = o
      /\ One(task_prep'[a]) = 0
      /\ One(refused'[a]) = 1
      /\ Finishing(a)' = 1
      /\ Queueing(a)' = 0
      /\ b = 1
  BY <1>2, OneYes, OneNo, Zenon DEF Finishing, Queueing
<1>5. /\ b \in Bit /\ l \in Bit /\ f \in Bit /\ u \in Bit /\ u <= f /\ o \in Bit /\ p \in Bit /\ r \in Bit
      /\ (p = 1 <=> task_prep[a])
      /\ task_busy[a] \in Nat /\ running[a] \in Nat /\ ops[a] \in Nat /\ calls[a] \in Nat
      /\ Queued(a) \in Nat
  BY Bits DEF OperationTypes, Bit
<1>6. Balance(b, l, f, u, o, p, r, Queued(a), task_busy[a], running[a], ops[a], calls[a])
  BY Zenon DEF Account
<1>7. Balance(0, l, 1, 0, o, 0, 1, Queued(a), task_busy[a] - p, running[a], ops[a], calls[a])
  <2>1. b = 1
    BY <1>4
  <2> HIDE DEF b, l, f, u, o, p, r
  <2> QED
    BY <2>1, <1>5, <1>6 DEF Balance, Bit
<1>8. Account(a)'
  <2>1. task_busy'[a] = task_busy[a] - p
    <3> HIDE DEF p
    <3> QED
      BY <1>2, <1>5 DEF Bit
  <2> QED
    BY <1>1, <1>2, <1>4, <1>7, <2>1, Zenon DEF Account
<1>9. OperationTypes'
  <2>1. task_busy'[a] \in Nat /\ running'[a] \in Nat
    <3> HIDE DEF b, l, f, u, o, p, r
    <3> QED
      BY <1>2, <1>5, <1>6 DEF Balance, Bit
  <2> QED
    BY <1>1, <2>1 DEF Refuse, TaskAborted, OperationTypes, task, user, history
<1> QED
  BY <1>3, <1>8, <1>9

LEMMA TakenOffKeeps ==
  ASSUME OperationTypes, \A b : Queued(b) \in Nat, \A b \in Aios : Account(b), NEW a \in Aios, TakenOff(a)
  PROVE  OperationTypes' /\ \A b \in Aios : Account(b)'
<1>1. tq_tasks' = tq_tasks /\ \A b : Queued(b)' = Queued(b)
  BY QueuedSame DEF TakenOff, task
<1>2. /\ begun'[a] = begun[a]
      /\ ~listed'[a]
      /\ owned'[a] = owned[a]
      /\ task_prep'[a] = task_prep[a]
      /\ refused'[a] = refused[a]
      /\ finishing'[a] = "finish"
      /\ listed[a]
      /\ task_busy'[a] = task_busy[a]
      /\ running'[a] = running[a]
      /\ ops'[a] = ops[a]
      /\ calls'[a] = calls[a]
  BY DEF TakenOff, OperationTypes, task, user, history
<1>3. \A b \in Aios \ {a} : Account(b)'
  BY <1>1, BalanceSame DEF TakenOff, OperationTypes, task, user, history
<1> DEFINE b == One(begun[a]) l == One(listed[a]) f == Finishing(a) u == Queueing(a)
           o == One(owned[a]) p == One(task_prep[a]) r == One(refused[a])
<1>4. /\ One(begun'[a]) = b
      /\ One(listed'[a]) = 0
      /\ One(owned'[a]) = o
      /\ One(task_prep'[a]) = p
      /\ One(refused'[a]) = r
      /\ Finishing(a)' = 1
      /\ Queueing(a)' = 0
      /\ l = 1
  BY <1>2, OneYes, OneNo, Zenon DEF Finishing, Queueing
<1>5. /\ b \in Bit /\ l \in Bit /\ f \in Bit /\ u \in Bit /\ u <= f /\ o \in Bit /\ p \in Bit /\ r \in Bit
      /\ (p = 1 <=> task_prep[a])
      /\ task_busy[a] \in Nat /\ running[a] \in Nat /\ ops[a] \in Nat /\ calls[a] \in Nat
      /\ Queued(a) \in Nat
  BY Bits DEF OperationTypes, Bit
<1>6. Balance(b, l, f, u, o, p, r, Queued(a), task_busy[a], running[a], ops[a], calls[a])
  BY Zenon DEF Account
<1>7. Balance(b, 0, 1, 0, o, p, r, Queued(a), task_busy[a], running[a], ops[a], calls[a])
  <2>1. l = 1
    BY <1>4
  <2> HIDE DEF b, l, f, u, o, p, r
  <2> QED
    BY <2>1, <1>5, <1>6 DEF Balance, Bit
<1>8. Account(a)'
  BY <1>1, <1>2, <1>4, <1>7, Zenon DEF Account
<1>9. OperationTypes'
  BY <1>1 DEF TakenOff, OperationTypes, task, user, history
<1> QED
  BY <1>3, <1>8, <1>9

LEMMA FinishKeeps ==
  ASSUME OperationTypes, \A b : Queued(b) \in Nat, \A b \in Aios : Account(b), NEW a \in Aios, Finish(a)
  PROVE  OperationTypes' /\ \A b \in Aios : Account(b)'
<1>1. tq_tasks' = tq_tasks /\ \A b : Queued(b)' = Queued(b)
  BY QueuedSame DEF Finish, task
<1>2. /\ begun'[a] = begun[a]
      /\ listed'[a] = listed[a]
      /\ owned'[a] = owned[a]
      /\ task_prep'[a] = task_prep[a]
      /\ refused'[a] = refused[a]
      /\ finishing[a] = "finish"
      /\ finishing'[a] = "dispatch"
      /\ task_busy'[a] = task_busy[a]
      /\ running'[a] = running[a]
      /\ ops'[a] = ops[a]
      /\ calls'[a] = calls[a]
  BY DEF Finish, OperationTypes, task, user, history
<1>3. \A b \in Aios \ {a} : Account(b)'
  BY <1>1, BalanceSame DEF Finish, OperationTypes, task, user, history
<1> DEFINE b == One(begun[a]) l == One(listed[a]) f == Finishing(a) u == Queueing(a)
           o == One(owned[a]) p == One(task_prep[a]) r == One(refused[a])
<1>4. /\ One(begun'[a]) = b
      /\ One(listed'[a]) = l
      /\ One(owned'[a]) = o
      /\ One(task_prep'[a]) = p
      /\ One(refused'[a]) = r
      /\ Finishing(a)' = 1
      /\ Queueing(a)' = 0
      /\ f = 1
      /\ u = 0
  BY <1>2, OneYes, OneNo, Zenon DEF Finishing, Queueing
<1>5. /\ b \in Bit /\ l \in Bit /\ f \in Bit /\ u \in Bit /\ u <= f /\ o \in Bit /\ p \in Bit /\ r \in Bit
      /\ (p = 1 <=> task_prep[a])
      /\ task_busy[a] \in Nat /\ running[a] \in Nat /\ ops[a] \in Nat /\ calls[a] \in Nat
      /\ Queued(a) \in Nat
  BY Bits DEF OperationTypes, Bit
<1>6. Balance(b, l, f, u, o, p, r, Queued(a), task_busy[a], running[a], ops[a], calls[a])
  BY Zenon DEF Account
<1>7. Balance(b, l, 1, 0, o, p, r, Queued(a), task_busy[a], running[a], ops[a], calls[a])
  <2>1. f = 1 /\ u = 0
    BY <1>4
  <2> HIDE DEF b, l, f, u, o, p, r
  <2> QED
    BY <2>1, <1>5, <1>6 DEF Balance, Bit
<1>8. Account(a)'
  BY <1>1, <1>2, <1>4, <1>7, Zenon DEF Account
<1>9. OperationTypes'
  BY <1>1 DEF Finish, OperationTypes, task, user, history
<1> QED
  BY <1>3, <1>8, <1>9

LEMMA DispatchKeeps ==
  ASSUME OperationTypes, \A b : Queued(b) \in Nat, \A b \in Aios : Account(b), NEW a \in Aios, Dispatch(a)
  PROVE  OperationTypes' /\ \A b \in Aios : Account(b)'
<1>1. tq_tasks' = tq_tasks /\ \A b : Queued(b)' = Queued(b)
  BY QueuedSame DEF Dispatch, Prepared, task
<1>2. /\ begun'[a] = begun[a]
      /\ listed'[a] = listed[a]
      /\ owned'[a] = owned[a]
      /\ ~task_prep'[a]
      /\ refused'[a] = refused[a]
      /\ finishing[a] = "dispatch"
      /\ finishing'[a] = "queue"
      /\ task_busy'[a] = IF task_prep[a] THEN task_busy[a] ELSE task_busy[a] + 1
      /\ running'[a] = running[a]
      /\ ops'[a] = ops[a]
      /\ calls'[a] = calls[a]
  BY DEF Dispatch, Prepared, OperationTypes, task, user, history
<1>3. \A b \in Aios \ {a} : Account(b)'
  BY <1>1, BalanceSame DEF Dispatch, Prepared, OperationTypes, task, user, history
<1> DEFINE b == One(begun[a]) l == One(listed[a]) f == Finishing(a) u == Queueing(a)
           o == One(owned[a]) p == One(task_prep[a]) r == One(refused[a])
<1>4. /\ One(begun'[a]) = b
      /\ One(listed'[a]) = l
      /\ One(owned'[a]) = o
      /\ One(task_prep'[a]) = 0
      /\ One(refused'[a]) = r
      /\ Finishing(a)' = 1
      /\ Queueing(a)' = 1
      /\ f = 1
      /\ u = 0
  BY <1>2, OneYes, OneNo, Zenon DEF Finishing, Queueing
<1>5. /\ b \in Bit /\ l \in Bit /\ f \in Bit /\ u \in Bit /\ u <= f /\ o \in Bit /\ p \in Bit /\ r \in Bit
      /\ (p = 1 <=> task_prep[a])
      /\ task_busy[a] \in Nat /\ running[a] \in Nat /\ ops[a] \in Nat /\ calls[a] \in Nat
      /\ Queued(a) \in Nat
  BY Bits DEF OperationTypes, Bit
<1>6. Balance(b, l, f, u, o, p, r, Queued(a), task_busy[a], running[a], ops[a], calls[a])
  BY Zenon DEF Account
<1>7. Balance(b, l, 1, 1, o, 0, r, Queued(a), task_busy[a] + (1 - p), running[a], ops[a], calls[a])
  <2>1. f = 1 /\ u = 0
    BY <1>4
  <2> HIDE DEF b, l, f, u, o, p, r
  <2> QED
    BY <2>1, <1>5, <1>6 DEF Balance, Bit
<1>8. Account(a)'
  <2>1. task_busy'[a] = task_busy[a] + (1 - p)
    <3> HIDE DEF p
    <3> QED
      BY <1>2, <1>5 DEF Bit
  <2> QED
    BY <1>1, <1>2, <1>4, <1>7, <2>1, Zenon DEF Account
<1>9. OperationTypes'
  BY <1>1 DEF Dispatch, Prepared, OperationTypes, task, user, history
<1> QED
  BY <1>3, <1>8, <1>9

LEMMA AppendedKeeps ==
  ASSUME OperationTypes, \A b : Queued(b) \in Nat, \A b \in Aios : Account(b), NEW a \in Aios, Appended(a)
  PROVE  OperationTypes' /\ \A b \in Aios : Account(b)'
<1>1. tq_tasks' \in Seq(Aios) /\ Queued(a)' = Queued(a) + 1 /\ \A b : a # b => Queued(b)' = Queued(b)
  <2>1. tq_tasks' \in Seq(Aios) /\ \A b : Queued(b)' = Queued(b) + One(a = b)
    BY QueuedLast DEF Appended, OperationTypes
  <2> QED
    BY <2>1 DEF One
<1>2. /\ begun'[a] = begun[a]
      /\ listed'[a] = listed[a]
      /\ owned'[a] = owned[a]
      /\ task_prep'[a] = task_prep[a]
      /\ refused'[a] = refused[a]
      /\ finishing[a] = "queue"
      /\ finishing'[a] = "no"
      /\ task_busy'[a] = task_busy[a]
      /\ running'[a] = running[a]
      /\ ops'[a] = ops[a]
      /\ calls'[a] = calls[a]
  BY DEF Appended, OperationTypes, task, user, history
<1>3. \A b \in Aios \ {a} : Account(b)'
  BY <1>1, BalanceSame DEF Appended, OperationTypes, task, user, history
<1> DEFINE b == One(begun[a]) l == One(listed[a]) f == Finishing(a) u == Queueing(a)
           o == One(owned[a]) p == One(task_prep[a]) r == One(refused[a])
<1>4. /\ One(begun'[a]) = b
      /\ One(listed'[a]) = l
      /\ One(owned'[a]) = o
      /\ One(task_prep'[a]) = p
      /\ One(refused'[a]) = r
      /\ Finishing(a)' = 0
      /\ Queueing(a)' = 0
      /\ f = 1
      /\ u = 1
  BY <1>2, OneYes, OneNo, Zenon DEF Finishing, Queueing
<1>5. /\ b \in Bit /\ l \in Bit /\ f \in Bit /\ u \in Bit /\ u <= f /\ o \in Bit /\ p \in Bit /\ r \in Bit
      /\ (p = 1 <=> task_prep[a])
      /\ task_busy[a] \in Nat /\ running[a] \in Nat /\ ops[a] \in Nat /\ calls[a] \in Nat
      /\ Queued(a) \in Nat
  BY Bits DEF OperationTypes, Bit
<1>6. Balance(b, l, f, u, o, p, r, Queued(a), task_busy[a], running[a], ops[a], calls[a])
  BY Zenon DEF Account
<1>7. Balance(b, l, 0, 0, o, p, r, Queued(a) + 1, task_busy[a], running[a], ops[a], calls[a])
  <2>1. f = 1 /\ u = 1
    BY <1>4
  <2> HIDE DEF b, l, f, u, o, p, r
  <2> QED
    BY <2>1, <1>5, <1>6 DEF Balance, Bit
<1>8. Account(a)'
  BY <1>1, <1>2, <1>4, <1>7, Zenon DEF Account
<1>9. OperationTypes'
  BY <1>1 DEF Appended, OperationTypes, task, user, history
<1> QED
  BY <1>3, <1>8, <1>9

LEMMA CalledAtOnceKeeps ==
  ASSUME OperationTypes, \A b : Queued(b) \in Nat, \A b \in Aios : Account(b), NEW a \in Aios, CalledAtOnce(a)
  PROVE  OperationTypes' /\ \A b \in Aios : Account(b)'
<1>1. tq_tasks' = tq_tasks /\ \A b : Queued(b)' = Queued(b)
  BY QueuedSame DEF CalledAtOnce, CallbackBegins, task
<1>2. /\ begun'[a] = begun[a]
      /\ listed'[a] = listed[a]
      /\ owned'[a]
      /\ task_prep'[a] = task_prep[a]
      /\ refused'[a] = refused[a]
      /\ finishing[a] = "queue"
      /\ finishing'[a] = "no"
      /\ task_busy'[a] = task_busy[a]
      /\ running'[a] = running[a] + 1
      /\ ops'[a] = ops[a]
      /\ calls'[a] = calls[a] + 1
  BY DEF CalledAtOnce, CallbackBegins, OperationTypes, task, user, history
<1>3. \A b \in Aios \ {a} : Account(b)'
  BY <1>1, BalanceSame DEF CalledAtOnce, CallbackBegins, OperationTypes, task, user, history
<1> DEFINE b == One(begun[a]) l == One(listed[a]) f == Finishing(a) u == Queueing(a)
           o == One(owned[a]) p == One(task_prep[a]) r == One(refused[a])
<1>4. /\ One(begun'[a]) = b
      /\ One(listed'[a]) = l
      /\ One(owned'[a]) = 1
      /\ One(task_prep'[a]) = p
      /\ One(refused'[a]) = r
      /\ Finishing(a)' = 0
      /\ Queueing(a)' = 0
      /\ f = 1
      /\ u = 1
  BY <1>2, OneYes, OneNo, Zenon DEF Finishing, Queueing
<1>5. /\ b \in Bit /\ l \in Bit /\ f \in Bit /\ u \in Bit /\ u <= f /\ o \in Bit /\ p \in Bit /\ r \in Bit
      /\ (p = 1 <=> task_prep[a])
      /\ task_busy[a] \in Nat /\ running[a] \in Nat /\ ops[a] \in Nat /\ calls[a] \in Nat
      /\ Queued(a) \in Nat
  BY Bits DEF OperationTypes, Bit
<1>6. Balance(b, l, f, u, o, p, r, Queued(a), task_busy[a], running[a], ops[a], calls[a])
  BY Zenon DEF Account
<1>7. Balance(b, l, 0, 0, 1, p, r, Queued(a), task_busy[a], running[a] + 1, ops[a], calls[a] + 1)
  <2>1. f = 1 /\ u = 1
    BY <1>4
  <2> HIDE DEF b, l, f, u, o, p, r
  <2> QED
    BY <2>1, <1>5, <1>6 DEF Balance, Bit
<1>8. Account(a)'
  BY <1>1, <1>2, <1>4, <1>7, Zenon DEF Account
<1>9. OperationTypes'
  <2>0. CallbackBegins(a) /\ running \in [Aios -> Nat] /\ calls \in [Aios -> Nat] /\ owned \in [Aios -> BOOLEAN]
    BY DEF CalledAtOnce, OperationTypes
  <2>1. running' \in [Aios -> Nat] /\ calls' \in [Aios -> Nat] /\ owned' \in [Aios -> BOOLEAN]
    BY <2>0 DEF CallbackBegins
  <2>2. finishing' \in [Aios -> {"no", "finish", "dispatch", "queue"}] /\ tq_tasks' \in Seq(Aios)
    BY <1>1 DEF CalledAtOnce, OperationTypes
  <2>3. UNCHANGED <<task_busy, ops, task_prep, begun, listed, refused>>
    BY DEF CalledAtOnce
  <2> QED
    BY <2>1, <2>2, <2>3 DEF OperationTypes
<1> QED
  BY <1>3, <1>8, <1>9

LEMMA CalledFirstKeeps ==
  ASSUME OperationTypes, \A b : Queued(b) \in Nat, \A b \in Aios : Account(b), NEW a \in Aios, CalledFirst(a)
  PROVE  OperationTypes' /\ \A b \in Aios : Account(b)'
<1>1. /\ tq_tasks' \in Seq(Aios) /\ Queued(a)' = Queued(a) - 1 /\ Queued(a)' \in Nat
      /\ \A b : a # b => Queued(b)' = Queued(b)
  <2>1. /\ tq_tasks' \in Seq(Aios)
        /\ \A b : Queued(b) = Queued(b)' + One(a = b) /\ Queued(b)' \in Nat
    BY QueuedFirst DEF CalledFirst, OperationTypes
  <2> QED
    BY <2>1 DEF One
<1>2. /\ begun'[a] = begun[a]
      /\ listed'[a] = listed[a]
      /\ owned'[a]
      /\ task_prep'[a] = task_prep[a]
      /\ refused'[a] = refused[a]
      /\ finishing'[a] = finishing[a]
      /\ task_busy'[a] = task_busy[a]
      /\ running'[a] = running[a] + 1
      /\ ops'[a] = ops[a]
      /\ calls'[a] = calls[a] + 1
  BY DEF CalledFirst, CallbackBegins, OperationTypes, task, user, history
<1>3. \A b \in Aios \ {a} : Account(b)'
  BY <1>1, BalanceSame DEF CalledFirst, CallbackBegins, OperationTypes, task, user, history
<1> DEFINE b == One(begun[a]) l == One(listed[a]) f == Finishing(a) u == Queueing(a)
           o == One(owned[a]) p == One(task_prep[a]) r == One(refused[a])
<1>4. /\ One(begun'[a]) = b
      /\ One(listed'[a]) = l
      /\ One(owned'[a]) = 1
      /\ One(task_prep'[a]) = p
      /\ One(refused'[a]) = r
      /\ Finishing(a)' = f
      /\ Queueing(a)' = u
  BY <1>2, OneYes, OneNo, Zenon DEF Finishing, Queueing
<1>5. /\ b \in Bit /\ l \in Bit /\ f \in Bit /\ u \in Bit /\ u <= f /\ o \in Bit /\ p \in Bit /\ r \in Bit
      /\ (p = 1 <=> task_prep[a])
      /\ task_busy[a] \in Nat /\ running[a] \in Nat /\ ops[a] \in Nat /\ calls[a] \in Nat
      /\ Queued(a) \in Nat
  BY Bits DEF OperationTypes, Bit
<1>6. Balance(b, l, f, u, o, p, r, Queued(a), task_busy[a], running[a], ops[a], calls[a])
  BY Zenon DEF Account
<1>7. Balance(b, l, f, u, 1, p, r, Queued(a) - 1, task_busy[a], running[a] + 1, ops[a], calls[a] + 1)
  <2>1. Queued(a) - 1 \in Nat
    BY <1>1
  <2> HIDE DEF b, l, f, u, o, p, r
  <2>0. b + l + f + Queued(a) = 1 - o
    BY <1>6 DEF Balance
  <2>2. b = 0 /\ l = 0 /\ f = 0 /\ Queued(a) = 1 /\ o = 0
    BY <2>1, <2>0, <1>5 DEF Bit
  <2> QED
    BY <2>1, <2>2, <1>5, <1>6 DEF Balance, Bit
<1>8. Account(a)'
  BY <1>1, <1>2, <1>4, <1>7, Zenon DEF Account
<1>9. OperationTypes'
  <2>0. CallbackBegins(a) /\ running \in [Aios -> Nat] /\ calls \in [Aios -> Nat] /\ owned \in [Aios -> BOOLEAN]
    BY DEF CalledFirst, OperationTypes
  <2>1. running' \in [Aios -> Nat] /\ calls' \in [Aios -> Nat] /\ owned' \in [Aios -> BOOLEAN]
    BY <2>0 DEF CallbackBegins
  <2>2. finishing' \in [Aios -> {"no", "finish", "dispatch", "queue"}] /\ tq_tasks' \in Seq(Aios)
    BY <1>1 DEF CalledFirst, OperationTypes
  <2>3. UNCHANGED <<task_busy, ops, task_prep, begun, listed, refused>>
    BY DEF CalledFirst
  <2> QED
    BY <2>1, <2>2, <2>3 DEF OperationTypes
<1> QED
  BY <1>3, <1>8, <1>9

LEMMA TaskEndsKeeps ==
  ASSUME OperationTypes, \A b : Queued(b) \in Nat, \A b \in Aios : Account(b), NEW a \in Aios, TaskEnds(a)
  PROVE  OperationTypes' /\ \A b \in Aios : Account(b)'
<1>1. tq_tasks' = tq_tasks /\ \A b : Queued(b)' = Queued(b)
  BY QueuedSame DEF TaskEnds, task
<1>2. /\ begun'[a] = begun[a]
      /\ listed'[a] = listed[a]
      /\ owned'[a] = owned[a]
      /\ task_prep'[a] = task_prep[a]
      /\ refused'[a] = refused[a]
      /\ finishing'[a] = finishing[a]
      /\ task_busy'[a] = task_busy[a] - 1
      /\ running'[a] = running[a] - 1
      /\ ops'[a] = ops[a]
      /\ calls'[a] = calls[a]
      /\ running[a] > 0
  BY DEF TaskEnds, OperationTypes, task, user, history
<1>3. \A b \in Aios \ {a} : Account(b)'
  BY <1>1, BalanceSame DEF TaskEnds, OperationTypes, task, user, history
<1> DEFINE b == One(begun[a]) l == One(listed[a]) f == Finishing(a) u == Queueing(a)
           o == One(owned[a]) p == One(task_prep[a]) r == One(refused[a])
<1>4. /\ One(begun'[a]) = b
      /\ One(listed'[a]) = l
      /\ One(owned'[a]) = o
      /\ One(task_prep'[a]) = p
      /\ One(refused'[a]) = r
      /\ Finishing(a)' = f
      /\ Queueing(a)' = u
  BY <1>2, OneYes, OneNo, Zenon DEF Finishing, Queueing
<1>5. /\ b \in Bit /\ l \in Bit /\ f \in Bit /\ u \in Bit /\ u <= f /\ o \in Bit /\ p \in Bit /\ r \in Bit
      /\ (p = 1 <=> task_prep[a])
      /\ task_busy[a] \in Nat /\ running[a] \in Nat /\ ops[a] \in Nat /\ calls[a] \in Nat
      /\ Queued(a) \in Nat
  BY Bits DEF OperationTypes, Bit
<1>6. Balance(b, l, f, u, o, p, r, Queued(a), task_busy[a], running[a], ops[a], calls[a])
  BY Zenon DEF Account
<1>7. Balance(b, l, f, u, o, p, r, Queued(a), task_busy[a] - 1, running[a] - 1, ops[a], calls[a])
  <2>1. running[a] > 0
    BY <1>2
  <2> HIDE DEF b, l, f, u, o, p, r
  <2> QED
    BY <2>1, <1>5, <1>6 DEF Balance, Bit
<1>8. Account(a)'
  BY <1>1, <1>2, <1>4, <1>7, Zenon DEF Account
<1>9. OperationTypes'
  <2>1. task_busy'[a] \in Nat /\ running'[a] \in Nat
    <3> HIDE DEF b, l, f, u, o, p, r
    <3> QED
      BY <1>2, <1>5, <1>6 DEF Balance, Bit
  <2> QED
    BY <1>1, <2>1 DEF TaskEnds, OperationTypes, task, user, history
<1> QED
  BY <1>3, <1>8, <1>9

LEMMA OperationsNext ==
  AioTypeOK /\ (\A a \in Aios : Account(a)) /\ [Next]_vars
    => OperationTypes' /\ \A a \in Aios : Account(a)'
<1> SUFFICES ASSUME AioTypeOK, \A a \in Aios : Account(a), [Next]_vars
             PROVE  OperationTypes' /\ \A a \in Aios : Account(a)'
  OBVIOUS
<1>1. OperationTypes
  BY TypeFacts DEF OperationTypes
<1>2. \A a : Queued(a) \in Nat
  BY QueuedNat
<1>3. ASSUME NEW a \in Aios, Begin(a) \/ Schedule(a) \/ Refuse(a) \/ Finish(a) \/ Dispatch(a) \/ TaskEnds(a)
      PROVE  OperationTypes' /\ \A b \in Aios : Account(b)'
  BY <1>1, <1>2, <1>3, BeginKeeps, ScheduleKeeps, RefuseKeeps, FinishKeeps, DispatchKeeps, TaskEndsKeeps
<1>4. ASSUME NEW a \in Aios, Complete(a) PROVE OperationTypes' /\ \A b \in Aios : Account(b)'
  <2>1. TakenOff(a)
    BY <1>4 DEF Complete, TakenOff, user, task
  <2> QED
    BY <1>1, <1>2, <2>1, TakenOffKeeps
<1>5. ASSUME NEW a \in Aios, Queue(a) PROVE OperationTypes' /\ \A b \in Aios : Account(b)'
  <2>1. Appended(a) \/ CalledAtOnce(a)
    BY <1>5 DEF Queue, Appended, CalledAtOnce
  <2> QED
    BY <1>1, <1>2, <2>1, AppendedKeeps, CalledAtOnceKeeps
<1>6. CASE TaskRuns
  <2>1. Head(tq_tasks) \in Aios
    BY <1>1, <1>6, QueuedFirst DEF TaskRuns, OperationTypes
  <2>2. CalledFirst(Head(tq_tasks))
    BY <1>6 DEF TaskRuns, CalledFirst
  <2> QED
    BY <1>1, <1>2, <2>1, <2>2, CalledFirstKeeps
<1>7. CASE UNCHANGED <<begun, listed, finishing, tq_tasks, running, owned, task_busy, task_prep,
                       ops, calls, refused>>
  <2>1. \A b : Queued(b)' = Queued(b)
    BY <1>7, QueuedSame
  <2> QED
    BY <1>1, <1>7, <2>1, BalanceSame DEF OperationTypes
<1>8. ASSUME NEW a \in Aios, NEW c \in Callers, Cancel(a, c)
      PROVE  OperationTypes' /\ \A b \in Aios : Account(b)'
  <2>1. CASE CancelWorks(a)
    <3>1. TakenOff(a)
      BY <1>8, <2>1 DEF Cancel, CancelWorks, TakenOff, user, task
    <3> QED
      BY <1>1, <1>2, <3>1, TakenOffKeeps
  <2>2. CASE ~CancelWorks(a)
    BY <1>7, <1>8, <2>2 DEF Cancel, user, task
  <2> QED
    BY <2>1, <2>2
<1> QED
  BY <1>3, <1>4, <1>5, <1>6, <1>7, <1>8, StepCases, AsideKeeps DEF Work

-----------------------------------------------------------------------------
(* The thread of deadlines, and whoever aborts, stops and frees.           *)

EndingTypes ==
  /\ a_stop \in [Aios -> BOOLEAN] /\ a_cancel_fn \in [Aios -> BOOLEAN]
  /\ a_expiring \in [Aios -> BOOLEAN]
  /\ a_expire \in [Aios -> {"never", "later", "past"}]
  /\ eq_list \subseteq Aios /\ batch \in Seq(Aios) /\ expirer \in {"idle", "called"}
  /\ cancelling \in [Aios -> SUBSET Callers]
  /\ stopper \in [Aios -> {"no", "cancel", "done"}]
  /\ freer \in [Aios -> {"no", "hold", "cancel", "done"}]

LEMMA TypeParts == AioTypeOK <=> OperationTypes /\ EndingTypes
  BY DEF AioTypeOK, OperationTypes, EndingTypes

(* What the operations' own steps leave alone.  Only an aio that is not    *)
(* stopped gets a deadline.                                                *)
LEMMA WorkKeeps ==
  ASSUME AioTypeOK, (\E a \in Aios : Work(a)) \/ TaskRuns \/ UNCHANGED vars
  PROVE  /\ UNCHANGED <<a_stop, a_expiring, batch, expirer, cancelling, stopper, freer>>
         /\ \A b \in eq_list' : b \in eq_list \/ (b \in Aios /\ ~a_stop[b])
         /\ a_cancel_fn' \in [Aios -> BOOLEAN] /\ a_expire' \in [Aios -> {"never", "later", "past"}]
<1>1. a_cancel_fn \in [Aios -> BOOLEAN] /\ a_expire \in [Aios -> {"never", "later", "past"}]
  BY DEF AioTypeOK
<1>2. CASE UNCHANGED vars \/ TaskRuns
  BY <1>1, <1>2 DEF vars, TaskRuns, expiry, user
<1>3. ASSUME NEW a \in Aios, Schedule(a) \/ Finish(a)
      PROVE  /\ UNCHANGED <<a_stop, a_expiring, batch, expirer, cancelling, stopper, freer>>
             /\ \A b \in eq_list' : b \in eq_list \/ (b \in Aios /\ ~a_stop[b])
             /\ a_cancel_fn' \in [Aios -> BOOLEAN] /\ a_expire' \in [Aios -> {"never", "later", "past"}]
  BY <1>1, <1>3 DEF Schedule, Finish, Accepts, expiry, user
<1>4. ASSUME NEW a \in Aios,
             Begin(a) \/ Refuse(a) \/ Complete(a) \/ Dispatch(a) \/ Queue(a) \/ TaskEnds(a)
      PROVE  UNCHANGED <<a_stop, a_cancel_fn, a_expire, eq_list, a_expiring, batch, expirer,
                         cancelling, stopper, freer>>
  BY <1>4 DEF Begin, Refuse, Complete, Dispatch, Queue, TaskEnds, expiry, user
<1> QED
  BY <1>1, <1>2, <1>3, <1>4 DEF Work

(* The rest of a batch is a batch.                                         *)
LEMMA TailHeld ==
  ASSUME NEW s \in Seq(Aios), s # <<>>, \A i, j \in DOMAIN s : s[i] = s[j] => i = j
  PROVE  /\ Head(s) = s[1] /\ 1 \in DOMAIN s /\ s[1] \in Aios
         /\ Tail(s) \in Seq(Aios)
         /\ \A i \in DOMAIN Tail(s) : i + 1 \in DOMAIN s /\ Tail(s)[i] = s[i + 1] /\ Tail(s)[i] # s[1]
         /\ \A i, j \in DOMAIN Tail(s) : Tail(s)[i] = Tail(s)[j] => i = j
<1>1. /\ Tail(s) \in Seq(Aios) /\ Len(Tail(s)) = Len(s) - 1 /\ Len(s) \in Nat \ {0}
      /\ DOMAIN s = 1..Len(s) /\ DOMAIN Tail(s) = 1..Len(Tail(s))
      /\ \A i \in 1..Len(Tail(s)) : Tail(s)[i] = s[i + 1]
  BY HeadTailProperties, EmptySeq, LenProperties
<1>2. Head(s) = s[1] /\ s[1] \in Aios
  BY <1>1
<1>3. 1 \in DOMAIN s
  BY <1>1
<1>4. ASSUME NEW i \in DOMAIN Tail(s)
      PROVE  i + 1 \in DOMAIN s /\ Tail(s)[i] = s[i + 1] /\ i \in Nat /\ i + 1 # 1
  BY <1>1
<1>5. \A i \in DOMAIN Tail(s) : Tail(s)[i] # s[1]
  BY <1>3, <1>4
<1>6. ASSUME NEW i \in DOMAIN Tail(s), NEW j \in DOMAIN Tail(s), Tail(s)[i] = Tail(s)[j]
      PROVE  i = j
  <2>1. i + 1 = j + 1
    BY <1>4, <1>6
  <2> QED
    BY <1>4, <2>1
<1> QED
  BY <1>1, <1>2, <1>3, <1>4, <1>5, <1>6

(* What has run out, in some order.                                        *)
LEMMA BatchMade ==
  ASSUME AioAssumption, NEW due, due \subseteq Aios, NEW s \in SetToSeqs(due)
  PROVE  /\ s \in Seq(Aios) /\ \A i \in DOMAIN s : s[i] \in due
         /\ \A i, j \in DOMAIN s : s[i] = s[j] => i = j
<1>1. Cardinality(due) \in Nat
  BY FS_Subset, FS_CardinalityType DEF AioAssumption
<1>2. s \in [1..Cardinality(due) -> due] /\ \A i, j \in 1..Cardinality(due) : i # j => s[i] # s[j]
  BY DEF SetToSeqs
<1> QED
  BY <1>1, <1>2

LEMMA CancelFacts ==
  ASSUME AioTypeOK, NEW a \in Aios, NEW c \in Callers, Cancel(a, c)
  PROVE  /\ UNCHANGED <<a_stop, a_cancel_fn, expiry, stopper, freer>>
         /\ cancelling' \in [Aios -> SUBSET Callers]
         /\ \A b \in Aios : cancelling'[b] \subseteq cancelling[b]
  BY TypeFacts DEF Cancel, user

(* Caller c takes the cancel function of a.                                *)
LEMMA TakeFacts ==
  ASSUME AioTypeOK, NEW a \in Aios, NEW c \in Callers, Take(a, c)
  PROVE  /\ a_cancel_fn' \in [Aios -> BOOLEAN]
         /\ cancelling' \in [Aios -> SUBSET Callers]
         /\ \A b \in Aios \ {a} : cancelling'[b] = cancelling[b]
         /\ cancelling'[a] \subseteq cancelling[a] \cup {c}
         /\ ~a_cancel_fn[a] => cancelling' = cancelling
  BY TypeFacts DEF Take

LEMMA ScanFacts ==
  ASSUME AioAssumption, AioTypeOK, Scan
  PROVE  /\ batch = <<>> /\ batch' \in Seq(Aios)
         /\ \A i, j \in DOMAIN batch' : batch'[i] = batch'[j] => i = j
         /\ \A i \in DOMAIN batch' : a_expiring'[batch'[i]]
         /\ eq_list' \subseteq eq_list
         /\ a_expiring' \in [Aios -> BOOLEAN]
         /\ \A a \in Aios : a_expiring'[a] => a_expiring[a] \/ a \in eq_list
         /\ UNCHANGED <<a_stop, a_cancel_fn, a_expire, expirer, cancelling, stopper, freer>>
<1> DEFINE due == {a \in eq_list : a_expire[a] = "past"}
<1>1. /\ batch = <<>> /\ batch' \in SetToSeqs(due) /\ eq_list' = eq_list \ due
      /\ a_expiring' = [a \in Aios |-> a_expiring[a] \/ a \in due]
      /\ UNCHANGED <<a_stop, a_cancel_fn, a_expire, expirer, cancelling, stopper, freer>>
  BY DEF Scan, user
<1>2. due \subseteq Aios /\ due \subseteq eq_list /\ a_expiring \in [Aios -> BOOLEAN]
  BY DEF AioTypeOK
<1> HIDE DEF due
<1>3. /\ batch' \in Seq(Aios) /\ \A i \in DOMAIN batch' : batch'[i] \in due
      /\ \A i, j \in DOMAIN batch' : batch'[i] = batch'[j] => i = j
  BY <1>1, <1>2, BatchMade
<1>4. \A i \in DOMAIN batch' : a_expiring'[batch'[i]]
  BY <1>1, <1>2, <1>3
<1>5. /\ a_expiring' \in [Aios -> BOOLEAN]
      /\ \A a \in Aios : a_expiring'[a] => a_expiring[a] \/ a \in eq_list
  BY <1>1, <1>2
<1> QED
  BY <1>1, <1>3, <1>4, <1>5

(* The first of the batch leaves it.                                       *)
Dropped ==
  /\ a_expiring' = [a_expiring EXCEPT ![batch[1]] = FALSE]
  /\ batch' = Tail(batch)

LEMMA ExpireFacts ==
  ASSUME AioTypeOK, BatchHeld, Expire \/ Expired
  PROVE  /\ batch # <<>> /\ batch[1] \in Aios
         /\ UNCHANGED <<a_stop, a_expire, eq_list, stopper, freer>>
         /\ \/ expirer = "idle" /\ Take(batch[1], "expire") /\ expirer' = "called"
               /\ UNCHANGED <<a_expiring, batch>>
            \/ Dropped /\ expirer' = "idle" /\ expirer' = expirer
               /\ Take(batch[1], "expire") /\ ~a_cancel_fn[batch[1]]
            \/ Dropped /\ expirer' = "idle" /\ "expire" \notin cancelling[batch[1]]
               /\ UNCHANGED <<cancelling, a_cancel_fn>>
<1>1. batch # <<>>
  BY DEF Expire, Expired, BatchHeld
<1>2. Head(batch) = batch[1] /\ batch[1] \in Aios
  BY <1>1, TailHeld DEF AioTypeOK, BatchHeld
<1>3. CASE Expire
  BY <1>1, <1>2, <1>3 DEF Expire, Dropped, user
<1>4. CASE Expired
  BY <1>1, <1>2, <1>4 DEF Expired, Dropped, user
<1> QED
  BY <1>3, <1>4

LEMMA DroppedFacts ==
  ASSUME AioTypeOK, BatchHeld, batch # <<>>, Dropped
  PROVE  /\ batch' \in Seq(Aios) /\ a_expiring' \in [Aios -> BOOLEAN]
         /\ \A i, j \in DOMAIN batch' : batch'[i] = batch'[j] => i = j
         /\ \A i \in DOMAIN batch' : a_expiring'[batch'[i]]
         /\ \A a \in Aios : a_expiring'[a] => a_expiring[a]
<1>1. /\ 1 \in DOMAIN batch /\ batch[1] \in Aios /\ Tail(batch) \in Seq(Aios)
      /\ \A i \in DOMAIN Tail(batch) :
           i + 1 \in DOMAIN batch /\ Tail(batch)[i] = batch[i + 1] /\ Tail(batch)[i] # batch[1]
      /\ \A i, j \in DOMAIN Tail(batch) : Tail(batch)[i] = Tail(batch)[j] => i = j
  BY TailHeld DEF AioTypeOK, BatchHeld
<1>2. a_expiring \in [Aios -> BOOLEAN]
  BY DEF AioTypeOK
<1>3. \A i \in DOMAIN Tail(batch) : a_expiring[Tail(batch)[i]] /\ Tail(batch)[i] \in Aios
  BY <1>1 DEF BatchHeld, AioTypeOK
<1> QED
  BY <1>1, <1>2, <1>3 DEF Dropped

LEMMA EndingTypesNext ==
  AioAssumption /\ AioTypeOK /\ BatchHeld /\ [Next]_vars => EndingTypes'
<1> SUFFICES ASSUME AioAssumption, AioTypeOK, BatchHeld, [Next]_vars PROVE EndingTypes'
  OBVIOUS
<1>1. EndingTypes
  BY TypeParts
<1>2. CASE (\E a \in Aios : Work(a)) \/ TaskRuns \/ UNCHANGED vars
  <2>1. eq_list' \subseteq Aios
    BY <1>1, <1>2, WorkKeeps DEF EndingTypes
  <2> QED
    BY <1>1, <1>2, <2>1, WorkKeeps DEF EndingTypes
<1>3. ASSUME NEW a \in Aios, NEW c \in Callers, Cancel(a, c) PROVE EndingTypes'
  BY <1>1, <1>3, CancelFacts DEF EndingTypes, expiry
<1>4. ASSUME NEW a \in Aios, Abort(a) \/ Stop(a) \/ FiniHeld(a) PROVE EndingTypes'
  <2>1. a_cancel_fn' \in [Aios -> BOOLEAN] /\ cancelling' \in [Aios -> SUBSET Callers]
    BY <1>4, TakeFacts DEF Abort, Stop, FiniHeld, Callers
  <2> QED
    BY <1>1, <1>4, <2>1 DEF EndingTypes, Abort, Stop, FiniHeld, user
<1>5. ASSUME NEW a \in Aios, Stopped(a) \/ Fini(a) \/ Freed(a) \/ Tick(a) PROVE EndingTypes'
  BY <1>1, <1>5 DEF EndingTypes, Stopped, Fini, Freed, Tick, expiry, user
<1>6. CASE Scan
  BY <1>1, <1>6, ScanFacts DEF EndingTypes
<1>7. CASE Expire \/ Expired
  <2>1. /\ batch' \in Seq(Aios) /\ a_expiring' \in [Aios -> BOOLEAN]
        /\ a_cancel_fn' \in [Aios -> BOOLEAN] /\ cancelling' \in [Aios -> SUBSET Callers]
        /\ expirer' \in {"idle", "called"}
    BY <1>1, <1>7, ExpireFacts, DroppedFacts, TakeFacts DEF EndingTypes, Callers
  <2> QED
    BY <1>1, <1>7, <2>1, ExpireFacts DEF EndingTypes
<1> QED
  BY <1>2, <1>3, <1>4, <1>5, <1>6, <1>7, StepCases DEF Aside

LEMMA BatchHeldNext ==
  AioAssumption /\ AioTypeOK /\ BatchHeld /\ [Next]_vars => BatchHeld'
<1> SUFFICES ASSUME AioAssumption, AioTypeOK, BatchHeld, [Next]_vars PROVE BatchHeld'
  OBVIOUS
(* Who takes a cancel function for something else is not the thread of     *)
(* deadlines.                                                              *)
<1>1. CASE /\ UNCHANGED <<a_expiring, batch, expirer>>
           /\ \A b \in Aios : "expire" \in cancelling'[b] => "expire" \in cancelling[b]
  BY <1>1 DEF BatchHeld
<1>2. CASE (\E a \in Aios : Work(a)) \/ TaskRuns \/ UNCHANGED vars
  BY <1>1, <1>2, WorkKeeps
<1>3. ASSUME NEW a \in Aios, NEW c \in Callers, Cancel(a, c) PROVE BatchHeld'
  BY <1>1, <1>3, CancelFacts DEF expiry
<1>4. ASSUME NEW a \in Aios, Abort(a) \/ Stop(a) \/ FiniHeld(a) PROVE BatchHeld'
  <2>1. \A b \in Aios : "expire" \in cancelling'[b] => "expire" \in cancelling[b]
    BY <1>4, TakeFacts DEF Abort, Stop, FiniHeld, Callers
  <2> QED
    BY <1>1, <1>4, <2>1 DEF Abort, Stop, FiniHeld
<1>5. ASSUME NEW a \in Aios, Stopped(a) \/ Fini(a) \/ Freed(a) \/ Tick(a) PROVE BatchHeld'
  BY <1>1, <1>5 DEF Stopped, Fini, Freed, Tick, expiry
<1>6. CASE Scan
  <2>1. expirer # "called"
    BY <1>6, ScanFacts DEF BatchHeld
  <2> QED
    BY <1>6, <2>1, ScanFacts DEF BatchHeld
<1>7. CASE Expire \/ Expired
  <2>1. batch # <<>> /\ batch[1] \in Aios
    BY <1>7, ExpireFacts
  <2>2. CASE expirer = "idle" /\ Take(batch[1], "expire") /\ UNCHANGED <<a_expiring, batch>>
             /\ expirer' = "called"
    <3>1. \A a \in Aios : "expire" \in cancelling'[a] => a = batch[1]
      BY <2>1, <2>2, TakeFacts DEF BatchHeld, Callers
    <3> QED
      BY <2>1, <2>2, <3>1 DEF BatchHeld
  <2>3. CASE Dropped /\ expirer' = "idle" /\ \A a \in Aios : "expire" \notin cancelling'[a]
    BY <2>1, <2>3, DroppedFacts DEF BatchHeld
  <2>4. CASE /\ Dropped /\ expirer' = "idle" /\ expirer' = expirer
             /\ Take(batch[1], "expire") /\ ~a_cancel_fn[batch[1]]
    <3>1. cancelling' = cancelling
      BY <2>1, <2>4, TakeFacts DEF Callers
    <3> QED
      BY <2>3, <2>4, <3>1 DEF BatchHeld
  <2>5. CASE /\ Dropped /\ expirer' = "idle" /\ "expire" \notin cancelling[batch[1]]
             /\ UNCHANGED cancelling
    BY <2>3, <2>5 DEF BatchHeld
  <2> QED
    BY <1>7, <2>2, <2>4, <2>5, ExpireFacts
<1> QED
  BY <1>2, <1>3, <1>4, <1>5, <1>6, <1>7, StepCases DEF Aside

LEMMA EndsInOrderNext ==
  AioAssumption /\ AioTypeOK /\ BatchHeld /\ EndsInOrder /\ [Next]_vars => EndsInOrder'
<1> SUFFICES ASSUME AioAssumption, AioTypeOK, BatchHeld, EndsInOrder, [Next]_vars PROVE EndsInOrder'
  OBVIOUS
<1>1. /\ a_stop \in [Aios -> BOOLEAN] /\ stopper \in [Aios -> {"no", "cancel", "done"}]
      /\ freer \in [Aios -> {"no", "hold", "cancel", "done"}]
  BY DEF AioTypeOK
<1>2. CASE (\E a \in Aios : Work(a)) \/ TaskRuns \/ UNCHANGED vars
  BY <1>2, WorkKeeps DEF EndsInOrder
<1>3. ASSUME NEW a \in Aios, NEW c \in Callers, Cancel(a, c) PROVE EndsInOrder'
  <2>1. /\ UNCHANGED <<a_stop, a_expiring, eq_list, stopper, freer>>
        /\ \A b \in Aios : cancelling'[b] \subseteq cancelling[b]
    BY <1>3, CancelFacts DEF expiry
  <2> QED
    BY <2>1 DEF EndsInOrder
<1>4. ASSUME NEW a \in Aios, Abort(a) PROVE EndsInOrder'
  <2>1. /\ freer[a] = "no" /\ eq_list' \subseteq eq_list
        /\ UNCHANGED <<a_stop, a_expiring, stopper, freer>>
        /\ \A b \in Aios \ {a} : cancelling'[b] = cancelling[b]
        /\ cancelling'[a] \subseteq cancelling[a] \cup {"abort"}
    BY <1>4, TakeFacts DEF Abort, Callers, user
  <2> QED
    BY <2>1 DEF EndsInOrder
<1>5. ASSUME NEW a \in Aios, Stop(a) PROVE EndsInOrder'
  <2>1. /\ stopper[a] = "no" /\ stopper' = [stopper EXCEPT ![a] = "cancel"]
        /\ a_stop' = [a_stop EXCEPT ![a] = TRUE] /\ eq_list' \subseteq eq_list
        /\ UNCHANGED <<a_expiring, freer>>
        /\ \A b \in Aios \ {a} : cancelling'[b] = cancelling[b]
    BY <1>5, TakeFacts DEF Stop, Callers
  <2>2. freer[a] = "no"
    BY <1>1, <2>1 DEF EndsInOrder
  <2> QED
    BY <1>1, <2>1, <2>2 DEF EndsInOrder
<1>6. ASSUME NEW a \in Aios, Stopped(a) \/ Fini(a) \/ Freed(a) \/ Tick(a) PROVE EndsInOrder'
  <2>1. CASE Stopped(a)
    BY <1>1, <2>1 DEF EndsInOrder, Stopped, expiry
  <2>2. CASE Fini(a)
    BY <1>1, <2>2 DEF EndsInOrder, Fini, expiry
  <2>3. CASE Freed(a)
    BY <1>1, <2>3 DEF EndsInOrder, Freed, expiry
  <2>4. CASE Tick(a)
    BY <1>1, <2>4 DEF EndsInOrder, Tick, user
  <2> QED
    BY <1>6, <2>1, <2>2, <2>3, <2>4
<1>7. ASSUME NEW a \in Aios, FiniHeld(a) PROVE EndsInOrder'
  <2>1. /\ freer[a] = "hold" /\ ~a_expiring[a] /\ freer' = [freer EXCEPT ![a] = "cancel"]
        /\ eq_list' = eq_list \ {a} /\ UNCHANGED <<a_stop, a_expiring, stopper>>
        /\ \A b \in Aios \ {a} : cancelling'[b] = cancelling[b]
        /\ cancelling'[a] \subseteq cancelling[a] \cup {"fini"}
    BY <1>7, TakeFacts DEF FiniHeld, MayFini, Callers
  <2> QED
    BY <1>1, <2>1 DEF EndsInOrder
<1>8. CASE Scan
  BY <1>8, ScanFacts DEF EndsInOrder
<1>9. CASE Expire \/ Expired
  <2>1. /\ UNCHANGED <<a_stop, eq_list, stopper, freer>>
        /\ \A b \in Aios : a_expiring'[b] => a_expiring[b]
    BY <1>9, ExpireFacts, DroppedFacts
  <2>2. \A b \in Aios : cancelling'[b] \subseteq cancelling[b] \cup {"expire"}
    BY <1>9, ExpireFacts, TakeFacts DEF Callers
  <2> QED
    BY <2>1, <2>2 DEF EndsInOrder
<1> QED
  BY <1>2, <1>3, <1>4, <1>5, <1>6, <1>7, <1>8, <1>9, StepCases DEF Aside

-----------------------------------------------------------------------------
(* What stop and free return.                                              *)

(* Nothing busy and no refusal: by the account there is no operation.      *)
LEMMA IdleIsAtRest ==
  ASSUME AioTypeOK, NEW b \in Aios, Account(b), task_busy[b] = 0, ~refused[b]
  PROVE  AtRest(b)
<1>1. OperationTypes
  BY TypeParts
<1>2. Queued(b) \in Nat /\ running[b] \in Nat /\ task_busy[b] = 0
  BY <1>1, QueuedNat DEF OperationTypes
<1> DEFINE beg == One(begun[b]) lis == One(listed[b]) fin == Finishing(b) que == Queueing(b)
           own == One(owned[b]) pre == One(task_prep[b]) ref == One(refused[b])
<1>3. /\ beg \in Bit /\ lis \in Bit /\ fin \in Bit /\ que \in Bit /\ own \in Bit
      /\ pre \in Bit /\ ref \in Bit
      /\ (beg = 1 <=> begun[b]) /\ (lis = 1 <=> listed[b]) /\ (fin = 1 <=> finishing[b] # "no")
      /\ ref # 1
  BY <1>1, Bits DEF Bit
<1>4. Balance(beg, lis, fin, que, own, pre, ref, Queued(b), task_busy[b], running[b], ops[b], calls[b])
  BY DEF Account
<1> HIDE DEF beg, lis, fin, que, own, pre, ref
<1>5. 0 = pre + que + Queued(b) + running[b] /\ beg + lis + fin - que <= pre + ref
  BY <1>2, <1>4 DEF Balance
<1>6. que = 0 /\ pre = 0 /\ ref = 0 /\ Queued(b) = 0 /\ running[b] = 0
  <2>1. que \in Nat /\ pre \in Nat /\ ref = 0
    BY <1>3 DEF Bit
  <2> QED
    BY <1>2, <1>5, <2>1
<1>7. beg = 0 /\ lis = 0 /\ fin = 0
  BY <1>3, <1>5, <1>6 DEF Bit
<1> QED
  BY <1>3, <1>6, <1>7 DEF AtRest

(* No step disturbs an aio that is stopped and at rest.                    *)
LEMMA RestStays ==
  ASSUME AioTypeOK, NEW b \in Aios, a_stop[b], AtRest(b), [Next]_vars
  PROVE  AtRest(b)'
<1>1. /\ ~begun[b] /\ ~listed[b] /\ finishing[b] = "no" /\ Queued(b) = 0 /\ running[b] = 0
  BY DEF AtRest
<1>2. OperationTypes
  BY TypeParts
<1>3. CASE UNCHANGED <<begun, listed, finishing, tq_tasks, running>>
  BY <1>1, <1>3, QueuedSame DEF AtRest
<1>4. ASSUME NEW a \in Aios, Work(a) PROVE AtRest(b)'
  <2>1. CASE Queue(a) /\ tq_tasks' # tq_tasks
    <3>1. a # b
      BY <1>1, <2>1 DEF Queue
    <3>2. tq_tasks' = Append(tq_tasks, a) /\ UNCHANGED <<begun, listed, running>> /\ finishing'[b] = finishing[b]
      BY <1>2, <2>1, <3>1 DEF Queue, CallbackBegins, OperationTypes
    <3>3. Queued(b)' = Queued(b) + One(a = b)
      BY <1>2, <3>2, QueuedLast DEF OperationTypes
    <3>4. Queued(b)' = 0
      BY <1>1, <3>1, <3>3 DEF One
    <3> QED
      BY <1>1, <3>2, <3>4 DEF AtRest
  <2>2. CASE tq_tasks' = tq_tasks
    <3>1. a # b
      BY <1>1, <1>4, <2>2
      DEF Work, Begin, Schedule, Refuse, Complete, Finish, Dispatch, Queue, TaskEnds
    <3>2. /\ begun'[b] = begun[b] /\ listed'[b] = listed[b]
          /\ finishing'[b] = finishing[b] /\ running'[b] = running[b]
      BY <1>2, <1>4, <3>1
      DEF Work, Begin, Schedule, Refuse, Complete, Finish, Dispatch, Queue, TaskEnds,
          CallbackBegins, task, OperationTypes
    <3> QED
      BY <1>1, <2>2, <3>2, QueuedSame DEF AtRest
  <2>3. Queue(a) \/ tq_tasks' = tq_tasks
    BY <1>4 DEF Work, Begin, Schedule, Refuse, Complete, Finish, Dispatch, TaskEnds, task
  <2> QED
    BY <2>1, <2>2, <2>3
<1>5. CASE TaskRuns
  <2> DEFINE first == Head(tq_tasks)
  <2>1. /\ tq_tasks # <<>> /\ tq_tasks' = Tail(tq_tasks) /\ UNCHANGED <<begun, listed, finishing>>
        /\ running' = [running EXCEPT ![first] = @ + 1]
    BY <1>5 DEF TaskRuns, CallbackBegins
  <2>2. Queued(b) = Queued(b)' + One(first = b) /\ Queued(b)' \in Nat
    BY <1>2, <2>1, QueuedFirst DEF OperationTypes
  <2>3. first # b /\ Queued(b)' = 0
    <3> HIDE DEF first
    <3>1. CASE first = b
      BY <1>1, <2>2, <3>1 DEF One
    <3>2. CASE first # b
      BY <1>1, <2>2, <3>2 DEF One
    <3> QED
      BY <3>1, <3>2
  <2>4. running'[b] = running[b]
    BY <1>2, <2>1, <2>3 DEF OperationTypes
  <2> QED
    BY <1>1, <2>1, <2>3, <2>4 DEF AtRest
<1>6. ASSUME NEW a \in Aios, NEW c \in Callers, Cancel(a, c) PROVE AtRest(b)'
  <2>1. UNCHANGED <<begun, tq_tasks, running>>
    BY <1>6 DEF Cancel, task
  <2>2. listed'[b] = listed[b] /\ finishing'[b] = finishing[b]
    BY <1>1, <1>2, <1>6 DEF Cancel, CancelWorks, OperationTypes
  <2> QED
    BY <1>1, <2>1, <2>2, QueuedSame DEF AtRest
<1> QED
  BY <1>3, <1>4, <1>5, <1>6, StepCases, AsideKeeps

(* A refusal is not forgotten.                                             *)
LEMMA RefusedStays ==
  ASSUME AioTypeOK, [Next]_vars, NEW b \in Aios, refused[b]
  PROVE  refused'[b]
<1>1. refused \in [Aios -> BOOLEAN]
  BY TypeFacts
<1>2. ASSUME NEW a \in Aios, Refuse(a) PROVE refused'[b]
  BY <1>1, <1>2 DEF Refuse
<1>3. ASSUME NEW a \in Aios, Work(a), ~Refuse(a) PROVE refused'[b]
  BY <1>3 DEF Work, Begin, Schedule, Complete, Finish, Dispatch, Queue, TaskEnds, history
<1>4. ASSUME NEW a \in Aios, NEW c \in Callers, Cancel(a, c) PROVE refused'[b]
  BY <1>4 DEF Cancel
<1>5. CASE TaskRuns
  BY <1>5 DEF TaskRuns
<1> QED
  BY <1>2, <1>3, <1>4, <1>5, StepCases, AsideKeeps

(* Stopping ends when the task is idle, and in no other way.               *)
LEMMA StopperDone ==
  ASSUME AioTypeOK, BatchHeld, [Next]_vars, NEW b \in Aios, stopper'[b] = "done", stopper[b] # "done"
  PROVE  Stopped(b)
<1>1. stopper \in [Aios -> {"no", "cancel", "done"}]
  BY DEF AioTypeOK
<1>2. CASE (\E a \in Aios : Work(a)) \/ TaskRuns \/ UNCHANGED vars
  BY <1>2, WorkKeeps
<1>3. ASSUME NEW a \in Aios, NEW c \in Callers, Cancel(a, c) PROVE Stopped(b)
  BY <1>3, CancelFacts
<1>4. ASSUME NEW a \in Aios, Stop(a) \/ Stopped(a) PROVE Stopped(b)
  BY <1>1, <1>4 DEF Stop, Stopped
<1>5. ASSUME NEW a \in Aios, Abort(a) \/ Fini(a) \/ FiniHeld(a) \/ Freed(a) \/ Tick(a) PROVE Stopped(b)
  BY <1>5 DEF Abort, Fini, FiniHeld, Freed, Tick, user
<1>6. CASE Scan \/ Expire \/ Expired
  BY <1>6 DEF Scan, Expire, Expired, user
<1> QED
  BY <1>2, <1>3, <1>4, <1>5, <1>6, StepCases DEF Aside

LEMMA StopFinalNext ==
  AioTypeOK /\ (\A a \in Aios : Account(a)) /\ BatchHeld /\ EndsInOrder
    /\ StopIsFinalUnlessRefused /\ [Next]_vars => StopIsFinalUnlessRefused'
<1> SUFFICES ASSUME AioTypeOK, \A a \in Aios : Account(a), BatchHeld, EndsInOrder,
                    StopIsFinalUnlessRefused, [Next]_vars,
                    NEW b \in Aios, stopper'[b] = "done", ~refused'[b]
             PROVE  AtRest(b)'
  BY DEF StopIsFinalUnlessRefused
<1>1. ~refused[b]
  BY RefusedStays
<1>2. CASE stopper[b] = "done"
  <2>1. AtRest(b) /\ a_stop[b]
    BY <1>1, <1>2 DEF StopIsFinalUnlessRefused, EndsInOrder
  <2> QED
    BY <2>1, RestStays
<1>3. CASE stopper[b] # "done"
  <2>1. Stopped(b)
    BY <1>3, StopperDone
  <2>2. AtRest(b)
    BY <1>1, <2>1, IdleIsAtRest DEF Stopped, TaskIdle
  <2>3. UNCHANGED <<begun, listed, finishing, tq_tasks, running>>
    BY <2>1, AsideKeeps DEF Aside
  <2> QED
    BY <2>2, <2>3, QueuedSame DEF AtRest
<1> QED
  BY <1>2, <1>3

(* Freeing comes after stopping, and after the thread of deadlines has let *)
(* go; who was about to cancel was waited for or excluded.                 *)
LEMMA LetGo ==
  AioTypeOK /\ BatchHeld /\ EndsInOrder /\ StopIsFinalUnlessRefused => FreedIsLetGo
<1> SUFFICES ASSUME AioTypeOK, BatchHeld, EndsInOrder, StopIsFinalUnlessRefused,
                    NEW a \in Aios, freer[a] = "done", ~refused[a]
             PROVE  AtRest(a) /\ ~a_expiring[a] /\ cancelling[a] = {} /\ a \notin eq_list
  BY DEF FreedIsLetGo
<1>1. /\ stopper[a] = "done" /\ ~a_expiring[a] /\ a \notin eq_list
      /\ "abort" \notin cancelling[a] /\ "stop" \notin cancelling[a] /\ "fini" \notin cancelling[a]
  BY DEF EndsInOrder
<1>2. "expire" \notin cancelling[a]
  <2>1. SUFFICES ASSUME "expire" \in cancelling[a] PROVE FALSE
    OBVIOUS
  <2>2. batch # <<>> /\ a = batch[1]
    BY <2>1 DEF BatchHeld
  <2>3. 1 \in DOMAIN batch
    BY <2>2, TailHeld DEF AioTypeOK, BatchHeld
  <2> QED
    BY <1>1, <2>2, <2>3 DEF BatchHeld
<1>3. cancelling[a] \subseteq Callers
  BY TypeFacts
<1> QED
  BY <1>1, <1>2, <1>3 DEF StopIsFinalUnlessRefused, Callers

-----------------------------------------------------------------------------
(* The initial states.                                                     *)

LEMMA InitTypes == Init => AioTypeOK
  BY DEF Init, AioTypeOK, All, No, Callers

LEMMA InitAccounts == Init => \A a \in Aios : Account(a)
<1> SUFFICES ASSUME Init, NEW a \in Aios PROVE Account(a)
  OBVIOUS
<1>1. /\ ~begun[a] /\ ~listed[a] /\ finishing[a] = "no" /\ owned[a] /\ ~task_prep[a] /\ ~refused[a]
      /\ task_busy[a] = 0 /\ running[a] = 0 /\ ops[a] = 0 /\ calls[a] = 0 /\ tq_tasks = <<>>
  BY DEF Init, All, No
<1>2. Queued(a) = 0
  <2>1. {i \in DOMAIN tq_tasks : tq_tasks[i] = a} = {}
    BY <1>1
  <2> QED
    BY <2>1, FS_EmptySet DEF Queued
<1>3. finishing[a] # "queue" /\ ~(finishing[a] # "no")
  BY <1>1
<1> DEFINE beg == One(begun[a]) lis == One(listed[a]) fin == Finishing(a) que == Queueing(a)
           own == One(owned[a]) pre == One(task_prep[a]) ref == One(refused[a])
<1>4. beg = 0 /\ lis = 0 /\ fin = 0 /\ que = 0 /\ own = 1 /\ pre = 0 /\ ref = 0
  BY <1>1, <1>3, OneYes, OneNo, Zenon DEF Finishing, Queueing
<1>5. Account(a) <=> Balance(beg, lis, fin, que, own, pre, ref, Queued(a), task_busy[a], running[a], ops[a], calls[a])
  BY DEF Account
<1> HIDE DEF beg, lis, fin, que, own, pre, ref
<1> QED
  BY <1>1, <1>2, <1>4, <1>5 DEF Balance

LEMMA InitEnds == Init => BatchHeld /\ EndsInOrder /\ StopIsFinalUnlessRefused
  BY DEF Init, BatchHeld, EndsInOrder, StopIsFinalUnlessRefused, All, No

(* However completing, aborting, expiring, stopping and freeing an aio are *)
(* interleaved, every operation calls back exactly once, task_busy counts  *)
(* what nni_task_wait waits for, and what nni_aio_stop and nni_aio_free    *)
(* return is at rest and in nobody's hands (core/aio.c, core/taskq.c).     *)
THEOREM AioIsSound == ASSUME AioAssumption PROVE Spec => []AioSound
<1> DEFINE Accounts == \A a \in Aios : Account(a)
<1>1. Init => AioTypeOK /\ Accounts /\ BatchHeld /\ EndsInOrder /\ StopIsFinalUnlessRefused
  BY InitTypes, InitAccounts, InitEnds
<1>2. AioTypeOK /\ Accounts /\ BatchHeld /\ [Next]_vars => AioTypeOK' /\ Accounts'
  <2> SUFFICES ASSUME AioTypeOK, Accounts, BatchHeld, [Next]_vars PROVE AioTypeOK' /\ Accounts'
    OBVIOUS
  <2>1. OperationTypes' /\ Accounts'
    BY OperationsNext
  <2>2. EndingTypes'
    BY EndingTypesNext
  <2>3. AioTypeOK'
    BY <2>1, <2>2 DEF AioTypeOK, OperationTypes, EndingTypes
  <2> QED
    BY <2>1, <2>3
<1>3. AioTypeOK /\ BatchHeld /\ [Next]_vars => BatchHeld'
  BY BatchHeldNext
<1>4. AioTypeOK /\ BatchHeld /\ EndsInOrder /\ [Next]_vars => EndsInOrder'
  BY EndsInOrderNext
<1>5. AioTypeOK /\ Accounts /\ BatchHeld /\ EndsInOrder /\ StopIsFinalUnlessRefused /\ [Next]_vars
        => StopIsFinalUnlessRefused'
  BY StopFinalNext
<1>6. AioTypeOK /\ Accounts /\ BatchHeld /\ EndsInOrder /\ StopIsFinalUnlessRefused => AioSound
  BY AccountOf, LetGo DEF AioSound
<1> HIDE DEF Accounts
<1> QED
  BY <1>1, <1>2, <1>3, <1>4, <1>5, <1>6, PTL DEF Spec

-----------------------------------------------------------------------------
(* The poller and the reaper.                                              *)

Pfd == [events : SUBSET Kinds, armed : SUBSET {"in", "out", "err", "hup"},
        cb : {"none", "dial", "conn", "listen"}, closing : BOOLEAN, closed : BOOLEAN]
Conn == [st : {"none", "open", "dialing", "up", "dead", "gone"}, closed : BOOLEAN,
         in : {"idle", "pending"}, out : {"idle", "pending"}]
Dialer == [closed : BOOLEAN, fini : BOOLEAN, ref : Nat, freed : BOOLEAN]
Batch == Seq([fd : Fds \cup {"evfd"}, mask : SUBSET {"in", "out", "err"}])
Taken == [fd : Fds \cup {"none"}, mask : SUBSET {"in", "out", "err"},
          cb : {"none", "dial", "conn", "listen"}]
Poller == [batch : Batch, cur : Taken, reap : BOOLEAN]
Pollq == [reapq : SUBSET Conns, evfd : BOOLEAN]

Has(q, c) == \E i \in DOMAIN q.batch : q.batch[i].fd = c

WaitsOf(k) == IF k.st = "dialing" THEN {"out"} ELSE Pending(k)

(* The callback the poller is in will look at what a connection waits for. *)
Looks(q, c, k) == q.cur.fd = c /\ (q.cur.cb = "dial" => k.st = "dialing")

(* A descriptor is closed for good only when the poller does not have it,  *)
(* and after it was closed.                                                *)
Shut(q, z, c, p) ==
  /\ p.closed => p.closing /\ q.cur.fd # c /\ ~Has(q, c)
  /\ c \in z.reapq => p.closing

(* What is waited for is among the events, and armed unless the poller has *)
(* taken the descriptor: nobody clears either but who is going to look.    *)
Wakes(q, c, p, waits, looks) ==
  ~p.closing /\ ~looks => /\ waits \subseteq p.events
                          /\ ~Has(q, c) => waits \subseteq p.armed

(* The life of a connection.                                               *)
Life(q, c, p, k) ==
  /\ k.st = "none" => p.armed = {} /\ ~p.closing /\ q.cur.fd # c /\ ~Has(q, c)
  /\ k.st # "none" => p.cb = "conn" \/ (c \in DialConns /\ p.cb = "dial")
  /\ k.st \in {"open", "dialing"} =>
       p.cb = "dial" /\ (q.cur.fd = c => q.cur.cb = "dial")
  /\ k.st = "up" => p.cb = "conn"
  /\ k.st # "up" => k.in = "idle" /\ k.out = "idle"
  /\ k.st = "gone" => p.closed
  /\ k.closed => p.closing

ConnOK(q, z, c, p, k) ==
  Shut(q, z, c, p) /\ Wakes(q, c, p, WaitsOf(k), Looks(q, c, k)) /\ Life(q, c, p, k)

ListenOK(q, z, c, p, a) ==
  /\ Shut(q, z, c, p)
  /\ Wakes(q, c, p, IF a = "pending" THEN {"in"} ELSE {}, q.cur.fd = c)
  /\ p.cb = "listen"

FdsOK ==
  /\ \A c \in Conns : ConnOK(poller, pollq, c, pfd[c], conn[c])
  /\ \A l \in Listener : ListenOK(poller, pollq, l, pfd[l], acceptaio)

(* What the poller calls, it has the callback of.                          *)
CurrentOK ==
  LET e == poller.cur
  IN \/ e = Posix!NoFd
     \/ e.fd \in Conns /\ e.cb = "conn"
     \/ e.fd \in DialConns /\ e.cb = "dial"
     \/ e.fd \in Listener /\ e.cb = "listen"

(* The reaper has dead connections, each once.                             *)
Once(s) == \A i, j \in DOMAIN s : s[i] = s[j] => i = j

ReapingOK ==
  /\ Once(reaper.list)
  /\ \A i \in DOMAIN reaper.list : conn[reaper.list[i]].st = "dead"
  /\ reaper.waits => reaper.list # <<>>

PollInv == PollTypeOK /\ FdsOK /\ CurrentOK /\ ReapingOK /\ DialerOutlives

-----------------------------------------------------------------------------
(* Facts about types and records.                                          *)

LEMMA PollTypeFacts ==
  ASSUME PollTypeOK
  PROVE  /\ pfd \in [Fds -> Pfd] /\ conn \in [Conns -> Conn] /\ data \in [Fds -> SUBSET Kinds]
         /\ \A c \in Fds : pfd[c] \in Pfd
         /\ \A c \in Conns : c \in Fds /\ conn[c] \in Conn
         /\ \A c \in Listener : c \in Fds
         /\ \A c \in DialConns : c \in Conns
         /\ \A c \in AcceptConns : c \in Conns
         /\ poller \in Poller /\ pollq \in Pollq /\ dialer \in Dialer
         /\ link \in [Fds -> {"none", "new", "connecting", "up", "failed"}]
         /\ dialaio \in [DialConns -> {"idle", "pending", "ok", "error"}]
         /\ acceptaio \in {"idle", "pending"} /\ panicked \in BOOLEAN
         /\ reaper \in [list : Seq(Conns), waits : BOOLEAN]
  BY DEF PollTypeOK, Pfd, Conn, Fds, Conns, Poller, Pollq, Dialer, Batch, Taken

LEMMA PollTypeParts ==
  ASSUME link' \in [Fds -> {"none", "new", "connecting", "up", "failed"}],
         data' \in [Fds -> SUBSET Kinds], pfd' \in [Fds -> Pfd], conn' \in [Conns -> Conn],
         dialaio' \in [DialConns -> {"idle", "pending", "ok", "error"}],
         acceptaio' \in {"idle", "pending"}, dialer' \in Dialer,
         reaper' \in [list : Seq(Conns), waits : BOOLEAN], pollq' \in Pollq,
         poller' \in Poller, panicked' \in BOOLEAN
  PROVE  PollTypeOK'
  BY DEF PollTypeOK, Pfd, Conn, Poller, Pollq, Dialer, Batch, Taken

LEMMA PfdFacts ==
  ASSUME NEW p \in Pfd, NEW ks \in SUBSET Kinds, HangUp \in BOOLEAN
  PROVE  /\ Posix!PfdClose(p) \in Pfd /\ Posix!PfdClose(p).closing
         /\ Posix!PfdClose(p).closed = p.closed /\ Posix!PfdClose(p).cb = p.cb
         /\ Posix!Arm(p, ks) \in Pfd /\ Posix!Arm(p, ks).closing = p.closing
         /\ Posix!Arm(p, ks).closed = p.closed /\ Posix!Arm(p, ks).cb = p.cb
         /\ ~p.closing => /\ Posix!Arm(p, ks).events = p.events \cup ks
                          /\ p.events \cup ks \subseteq Posix!Arm(p, ks).armed
         /\ Posix!Shot(p) \in Pfd /\ Posix!Shot(p).closing = p.closing
         /\ Posix!Shot(p).closed = p.closed /\ Posix!Shot(p).cb = p.cb
         /\ Posix!Shot(p).events = p.events
<1>1. Posix!Always \in SUBSET {"in", "out", "err", "hup"}
  BY DEF Posix!Always
<1>2. p.events \cup ks \cup Posix!Always \in SUBSET {"in", "out", "err", "hup"}
      /\ p.events \cup ks \in SUBSET Kinds
  BY <1>1 DEF Pfd, Kinds
<1> QED
  BY <1>1, <1>2 DEF Pfd, Posix!PfdClose, Posix!Arm, Posix!Shot

(* Descriptor d and its connection become p and k.                         *)
Becomes(d, p, k) == pfd' = [pfd EXCEPT ![d] = p] /\ conn' = [conn EXCEPT ![d] = k]

LEMMA BecomesFacts ==
  ASSUME PollTypeOK, NEW d \in Conns, NEW p \in Pfd, NEW k \in Conn, Becomes(d, p, k)
  PROVE  /\ pfd' \in [Fds -> Pfd] /\ conn' \in [Conns -> Conn] /\ pfd'[d] = p /\ conn'[d] = k
         /\ \A c \in Fds \ {d} : pfd'[c] = pfd[c]
         /\ \A c \in Conns \ {d} : conn'[c] = conn[c]
  BY PollTypeFacts DEF Becomes

(* One connection moves.                                                   *)
LEMMA OneFdMoves ==
  ASSUME PollTypeOK, FdsOK, Conns \cap Listener = {},
         NEW d \in Conns, NEW p \in Pfd, NEW k \in Conn, Becomes(d, p, k),
         UNCHANGED <<poller, pollq, acceptaio>>, ConnOK(poller, pollq, d, p, k)
  PROVE  FdsOK'
<1>1. ASSUME NEW c \in Conns PROVE ConnOK(poller, pollq, c, pfd[c], conn[c])'
  <2>1. CASE c = d
    BY <2>1, BecomesFacts
  <2>2. CASE c # d
    BY <2>2, BecomesFacts, PollTypeFacts DEF FdsOK
  <2> QED
    BY <2>1, <2>2
<1>2. ASSUME NEW l \in Listener PROVE ListenOK(poller, pollq, l, pfd[l], acceptaio)'
  BY BecomesFacts, PollTypeFacts DEF FdsOK
<1> QED
  BY <1>1, <1>2 DEF FdsOK

-----------------------------------------------------------------------------
(* What is assumed, in the names of this module.                           *)
Assumed ==
  /\ DialConns \cap AcceptConns = {} /\ Conns \cap Listener = {}
  /\ IsFiniteSet(Fds) /\ \A l, m \in Listener : l = m
  /\ {"evfd", "none"} \cap Fds = {}
  /\ Ops \subseteq Kinds /\ HangUp \in BOOLEAN /\ Shortage \in BOOLEAN

LEMMA SameNames ==
  /\ Posix!Fds = Fds /\ Posix!Conns = Conns /\ Posix!Kinds = Kinds
  /\ \A r : Posix!Pending(r) = Pending(r)
  /\ \A S : Posix!Cardinality(S) = Cardinality(S)
  /\ Posix!PollAssumption <=> Assumed
<1>1. Posix!Fds = Fds /\ Posix!Conns = Conns /\ Posix!Kinds = Kinds
  BY DEF Posix!Fds, Posix!Conns, Fds, Conns, Posix!Kinds, Kinds
<1>2. \A r : Posix!Pending(r) = Pending(r)
  BY <1>1 DEF Posix!Pending, Pending
<1>3. Posix!PollAssumption <=> Assumed
  BY <1>1 DEF Posix!PollAssumption, Assumed, Posix!IsFiniteSet, IsFiniteSet
<1>4. \A S : Posix!Cardinality(S) = Cardinality(S)
  BY DEF Posix!Cardinality, Cardinality
<1> QED
  BY <1>1, <1>2, <1>3, <1>4

-----------------------------------------------------------------------------
(* A finite set as a sequence.                                             *)

LEMMA SetAsSeq ==
  ASSUME NEW S, IsFiniteSet(S)
  PROVE  /\ Posix!SetToSeq(S) \in Seq(S) /\ Once(Posix!SetToSeq(S))
         /\ \A s \in Posix!SetToSeqs(S) :
              /\ s \in Seq(S)
              /\ \A x \in S : \E i \in DOMAIN s : s[i] = x
<1> DEFINE n == Cardinality(S)
<1>1. n \in Nat /\ ExistsBijection(1..n, S) /\ Posix!Cardinality(S) = n
  BY FS_CardinalityType, SameNames
<1>2. PICK f \in [1..n -> S] : IsInjective(f)
  BY <1>1 DEF ExistsBijection, Bijection, Injection
<1>3. Posix!IsInjective(f)
  BY <1>2 DEF IsInjective, Posix!IsInjective
<1>4. Posix!SetToSeq(S) \in [1..n -> S] /\ Posix!IsInjective(Posix!SetToSeq(S))
  BY <1>1, <1>2, <1>3 DEF Posix!SetToSeq
<1>5. Once(Posix!SetToSeq(S))
  BY <1>4 DEF Once, Posix!IsInjective
<1>6. Posix!SetToSeq(S) \in Seq(S)
  BY <1>1, <1>4
<1>7. ASSUME NEW s \in Posix!SetToSeqs(S)
      PROVE  s \in Seq(S) /\ \A x \in S : \E i \in DOMAIN s : s[i] = x
  <2>1. s \in [1..n -> S] /\ IsInjective(s)
    BY <1>1, <1>7 DEF Posix!SetToSeqs, IsInjective
  <2>2. s \in Injection(1..n, S)
    BY <2>1 DEF Injection
  <2>3. IsFiniteSet(1..n) /\ Cardinality(1..n) = n
    BY <1>1, FS_Interval
  <2>4. s \in Surjection(1..n, S)
    BY <2>2, <2>3, FS_Injection
  <2> QED
    BY <1>1, <2>1, <2>4 DEF Surjection
<1> QED
  BY <1>5, <1>6, <1>7

-----------------------------------------------------------------------------
(* The connections that hold the dialer.                                   *)

Alive == {c \in DialConns : conn[c].st \notin {"none", "gone"}}

LEMMA AliveFinite ==
  ASSUME Assumed
  PROVE  IsFiniteSet(Alive) /\ Cardinality(Alive) \in Nat
<1>1. Alive \subseteq Fds
  BY DEF Alive, Fds, Conns
<1>2. IsFiniteSet(Fds)
  BY DEF Assumed
<1> QED
  BY <1>1, <1>2, FS_Subset, FS_CardinalityType

LEMMA DialerKept ==
  ASSUME DialerOutlives, dialer' = dialer,
         \A c \in DialConns : conn'[c].st \in {"none", "gone"} <=> conn[c].st \in {"none", "gone"}
  PROVE  DialerOutlives'
<1>1. Alive' = Alive
  BY DEF Alive
<1> QED
  BY <1>1 DEF DialerOutlives, Alive

(* The list of the reaper.                                                 *)
LEMMA ReapingKept ==
  ASSUME PollTypeOK, ReapingOK, reaper' = reaper,
         \A c \in Conns : conn[c].st = "dead" => conn'[c].st = "dead"
  PROVE  ReapingOK'
<1>1. \A i \in DOMAIN reaper.list : reaper.list[i] \in Conns
  BY ElementOfSeq DEF PollTypeOK
<1> QED
  BY <1>1 DEF ReapingOK

LEMMA ReapingAppend ==
  ASSUME PollTypeOK, ReapingOK, NEW d \in Conns, Posix!ToReaper(d),
         conn[d].st # "dead", conn'[d].st = "dead",
         \A c \in Conns : conn[c].st = "dead" => conn'[c].st = "dead"
  PROVE  ReapingOK' /\ reaper' \in [list : Seq(Conns), waits : BOOLEAN]
<1> DEFINE s == reaper.list
           t == Append(s, d)
<1>1. s \in Seq(Conns) /\ reaper' = [reaper EXCEPT !.list = t]
      /\ reaper \in [list : Seq(Conns), waits : BOOLEAN]
  BY DEF PollTypeOK, Posix!ToReaper
<1>2. t \in Seq(Conns) /\ Len(t) = Len(s) + 1 /\ t[Len(s) + 1] = d
      /\ \A i \in 1..Len(s) : t[i] = s[i] /\ s[i] \in Conns
  BY <1>1, AppendProperties, ElementOfSeq
<1>3. DOMAIN t = 1..(Len(s) + 1) /\ DOMAIN s = 1..Len(s) /\ Len(s) \in Nat
  BY <1>1, <1>2, LenProperties
<1>4. \A i \in 1..Len(s) : s[i] # d /\ conn'[s[i]].st = "dead"
  BY <1>2, <1>3 DEF ReapingOK
<1>5. Once(t)
  BY <1>2, <1>3, <1>4 DEF ReapingOK, Once
<1>6. \A i \in DOMAIN t : conn'[t[i]].st = "dead"
  BY <1>2, <1>3, <1>4
<1>7. t # <<>>
  BY <1>2, <1>3
<1>8. reaper'.list = t /\ reaper' \in [list : Seq(Conns), waits : BOOLEAN]
  BY <1>1, <1>2
<1> QED
  BY <1>5, <1>6, <1>7, <1>8 DEF ReapingOK

(* A connection moves and stays with who had it.                           *)
LEMMA OneMoves ==
  ASSUME PollInv, Assumed,
         NEW d \in Conns, NEW p \in Pfd, NEW k \in Conn, Becomes(d, p, k),
         UNCHANGED <<poller, pollq, acceptaio, dialer, reaper, panicked>>,
         link' \in [Fds -> {"none", "new", "connecting", "up", "failed"}],
         data' \in [Fds -> SUBSET Kinds],
         dialaio' \in [DialConns -> {"idle", "pending", "ok", "error"}],
         ConnOK(poller, pollq, d, p, k), conn[d].st = "dead" => k.st = "dead",
         d \in DialConns => (k.st \in {"none", "gone"} <=> conn[d].st \in {"none", "gone"})
  PROVE  PollInv'
<1> USE DEF PollInv
<1>1. PollTypeOK'
  BY BecomesFacts, PollTypeFacts, PollTypeParts
<1>2. FdsOK'
  BY OneFdMoves DEF Assumed
<1>3. CurrentOK'
  BY DEF CurrentOK
<1>4. ReapingOK'
  BY BecomesFacts, ReapingKept
<1>5. DialerOutlives'
  BY BecomesFacts, PollTypeFacts, DialerKept
<1> QED
  BY <1>1, <1>2, <1>3, <1>4, <1>5

(* A connection goes to the reaper.                                        *)
LEMMA OneDies ==
  ASSUME PollInv, Assumed,
         NEW d \in Conns, NEW p \in Pfd, NEW k \in Conn, Becomes(d, p, k),
         UNCHANGED <<link, data, poller, pollq, acceptaio, dialer, panicked>>,
         dialaio' \in [DialConns -> {"idle", "pending", "ok", "error"}], Posix!ToReaper(d),
         ConnOK(poller, pollq, d, p, k), conn[d].st \in {"open", "dialing", "up"}, k.st = "dead"
  PROVE  PollInv'
<1> USE DEF PollInv
<1>1. ReapingOK' /\ reaper' \in [list : Seq(Conns), waits : BOOLEAN]
  BY BecomesFacts, ReapingAppend
<1>2. PollTypeOK'
  BY <1>1, BecomesFacts, PollTypeFacts, PollTypeParts
<1>3. FdsOK'
  BY OneFdMoves DEF Assumed
<1>4. CurrentOK'
  BY DEF CurrentOK
<1>5. DialerOutlives'
  BY BecomesFacts, PollTypeFacts, DialerKept
<1> QED
  BY <1>1, <1>2, <1>3, <1>4, <1>5

-----------------------------------------------------------------------------
(* What the users of connections do.                                       *)

LEMMA SubmitKeeps ==
  ASSUME PollInv, Assumed, NEW d \in Conns, NEW o \in Ops, Posix!Submit(d, o) PROVE PollInv'
<1>1. PollTypeOK /\ ConnOK(poller, pollq, d, pfd[d], conn[d]) /\ pfd[d] \in Pfd
      /\ conn[d] \in Conn /\ data[d] \in SUBSET Kinds /\ o \in Kinds
  BY PollTypeFacts DEF PollInv, FdsOK, Assumed
<1>2. CASE Posix!Able(d, o)
  <2>1. PICK left \in SUBSET Kinds : data' = [data EXCEPT ![d] = left]
    BY <1>1, <1>2 DEF Posix!Submit, Posix!UsesUp
  <2>2. Becomes(d, pfd[d], conn[d]) /\ UNCHANGED <<pfd, conn>>
    BY <1>1, <1>2, PollTypeFacts DEF Becomes, Posix!Submit
  <2>3. data' \in [Fds -> SUBSET Kinds]
    BY <1>1, <2>1, PollTypeFacts
  <2> QED
    BY <1>1, <2>2, <2>3, OneMoves DEF Posix!Submit, PollTypeOK
<1>3. CASE ~Posix!Able(d, o)
  <2> DEFINE p == Posix!Arm(pfd[d], {o})
             k == [conn[d] EXCEPT ![o] = "pending"]
  <2>1. Becomes(d, p, k) /\ data' = data /\ conn[d].st = "up" /\ ~conn[d].closed
    BY <1>1, <1>3, PollTypeFacts DEF Becomes, Posix!Submit
  <2>2. k \in Conn /\ k.st = "up" /\ ~k.closed /\ Pending(k) = Pending(conn[d]) \cup {o}
    BY <1>1, <2>1 DEF Conn, Kinds, Pending
  <2>3. p \in Pfd /\ p.closing = pfd[d].closing /\ p.closed = pfd[d].closed /\ p.cb = pfd[d].cb
        /\ (~p.closing => p.events = pfd[d].events \cup {o} /\ p.events \subseteq p.armed)
    BY <1>1, PfdFacts DEF Assumed
  <2>4. ConnOK(poller, pollq, d, p, k)
    BY <1>1, <2>1, <2>2, <2>3 DEF ConnOK, Shut, Wakes, Looks, WaitsOf, Life
  <2> QED
    BY <1>1, <2>1, <2>2, <2>3, <2>4, OneMoves DEF Posix!Submit, PollTypeOK
<1> QED
  BY <1>2, <1>3

LEMMA CancelKeeps ==
  ASSUME PollInv, Assumed, NEW d \in Conns, NEW o \in Ops, Posix!Cancel(d, o) PROVE PollInv'
<1> DEFINE k == [conn[d] EXCEPT ![o] = "idle"]
<1>1. PollTypeOK /\ ConnOK(poller, pollq, d, pfd[d], conn[d]) /\ pfd[d] \in Pfd
      /\ conn[d] \in Conn /\ o \in Kinds
  BY PollTypeFacts DEF PollInv, FdsOK, Assumed
<1>2. Becomes(d, pfd[d], k)
  BY <1>1, PollTypeFacts DEF Becomes, Posix!Cancel
<1>3. k \in Conn /\ k.st = conn[d].st /\ k.closed = conn[d].closed
      /\ Pending(k) \subseteq Pending(conn[d])
      /\ \A i \in Kinds : conn[d][i] = "idle" => k[i] = "idle"
  BY <1>1 DEF Conn, Kinds, Pending
<1>4. ConnOK(poller, pollq, d, pfd[d], k)
  BY <1>1, <1>3 DEF ConnOK, Shut, Wakes, Looks, WaitsOf, Life, Kinds
<1> QED
  BY <1>1, <1>2, <1>3, <1>4, OneMoves DEF Posix!Cancel, PollTypeOK

LEMMA CloseKeeps ==
  ASSUME PollInv, Assumed, NEW d \in Conns, Posix!Close(d) PROVE PollInv'
<1> DEFINE p == Posix!PfdClose(pfd[d])
           k == [Posix!Ended(conn[d]) EXCEPT !.closed = TRUE]
<1>1. PollTypeOK /\ ConnOK(poller, pollq, d, pfd[d], conn[d]) /\ pfd[d] \in Pfd
      /\ conn[d] \in Conn
  BY PollTypeFacts DEF PollInv, FdsOK, Assumed
<1>2. Becomes(d, p, k)
  BY <1>1, PollTypeFacts DEF Becomes, Posix!Close
<1>3. k \in Conn /\ k.st = "up" /\ conn[d].st = "up"
  BY <1>1 DEF Conn, Posix!Ended, Posix!Close
<1>4. p \in Pfd /\ p.closing /\ p.closed = pfd[d].closed /\ p.cb = pfd[d].cb
  BY <1>1, PfdFacts DEF Assumed
<1>5. ConnOK(poller, pollq, d, p, k)
  BY <1>1, <1>3, <1>4 DEF ConnOK, Shut, Wakes, Life
<1> QED
  BY <1>1, <1>2, <1>3, <1>4, <1>5, OneMoves DEF Posix!Close, PollTypeOK

LEMMA FreeKeeps ==
  ASSUME PollInv, Assumed, NEW d \in Conns, Posix!Free(d) PROVE PollInv'
<1> DEFINE k == [conn[d] EXCEPT !.st = "dead"]
<1>1. PollTypeOK /\ ConnOK(poller, pollq, d, pfd[d], conn[d]) /\ pfd[d] \in Pfd
      /\ conn[d] \in Conn
  BY PollTypeFacts DEF PollInv, FdsOK, Assumed
<1>2. Becomes(d, pfd[d], k)
  BY <1>1, PollTypeFacts DEF Becomes, Posix!Free
<1>3. k \in Conn /\ k.st = "dead" /\ k.closed = conn[d].closed /\ k.in = "idle" /\ k.out = "idle"
      /\ conn[d].st = "up"
  BY <1>1 DEF Conn, Posix!Free
<1>4. ConnOK(poller, pollq, d, pfd[d], k)
  BY <1>1, <1>3 DEF ConnOK, Shut, Wakes, Looks, WaitsOf, Pending, Kinds, Life
<1> QED
  BY <1>1, <1>2, <1>3, <1>4, OneDies DEF Posix!Free, PollTypeOK

-----------------------------------------------------------------------------
(* Dialing.                                                                *)

LEMMA DialOpenKeeps ==
  ASSUME PollInv, Assumed, NEW d \in DialConns, Posix!DialOpen(d) PROVE PollInv'
<1> DEFINE p == Posix!PfdInit(pfd[d], "dial")
           k == [conn[d] EXCEPT !.st = "open"]
<1>1. PollTypeOK /\ ConnOK(poller, pollq, d, pfd[d], conn[d]) /\ pfd[d] \in Pfd /\ d \in Conns
      /\ conn[d] \in Conn /\ dialer \in Dialer
  BY PollTypeFacts DEF PollInv, FdsOK
<1>2. Becomes(d, p, k) /\ conn[d].st = "none" /\ ~dialer.fini
  BY <1>1, PollTypeFacts DEF Becomes, Posix!DialOpen
<1>3. k \in Conn /\ k.st = "open" /\ k.closed = conn[d].closed /\ k.in = "idle" /\ k.out = "idle"
      /\ ~conn[d].closed
  BY <1>1, <1>2 DEF Conn, ConnOK, Life
<1>4. p \in Pfd /\ ~p.closing /\ ~p.closed /\ p.cb = "dial"
  BY DEF Assumed, Pfd, Posix!PfdInit, Posix!Quiet, Posix!Always
<1>5. ConnOK(poller, pollq, d, p, k)
  BY <1>1, <1>2, <1>3, <1>4 DEF ConnOK, Shut, Wakes, WaitsOf, Pending, Kinds, Life
<1>6. dialer' = [dialer EXCEPT !.ref = @ + 1] /\ dialer' \in Dialer
  BY <1>1 DEF Posix!DialOpen, Dialer
<1>7. PollTypeOK'
  BY <1>1, <1>2, <1>3, <1>4, <1>6, BecomesFacts, PollTypeFacts, PollTypeParts
     DEF Posix!DialOpen
<1>8. FdsOK'
  BY <1>1, <1>2, <1>3, <1>4, <1>5, OneFdMoves DEF Assumed, PollInv, Posix!DialOpen
<1>9. CurrentOK' /\ ReapingOK'
  BY <1>1, <1>2, <1>3, <1>4, BecomesFacts, ReapingKept DEF PollInv, CurrentOK, Posix!DialOpen
<1>10. DialerOutlives'
  <2> HIDE DEF p, k
  <2>0. conn'[d].st = "open" /\ \A c \in DialConns \ {d} : conn'[c] = conn[c]
    BY <1>1, <1>2, <1>3, <1>4, BecomesFacts, PollTypeFacts
  <2>1. Alive' = Alive \cup {d} /\ d \notin Alive
    BY <1>2, <2>0 DEF Alive
  <2>2. Cardinality(Alive') = Cardinality(Alive) + 1 /\ Cardinality(Alive) \in Nat
    BY <2>1, AliveFinite, FS_AddElement
  <2>3. dialer.ref = Cardinality(Alive) + 1 /\ (dialer.freed <=> dialer.ref = 0)
    BY <1>1, <1>2 DEF PollInv, DialerOutlives, Alive
  <2>4. dialer'.ref = Cardinality(Alive') + 1 /\ ~dialer'.fini /\ ~dialer'.freed
    BY <1>1, <1>2, <1>6, <2>2, <2>3 DEF Dialer
  <2> QED
    BY <2>2, <2>4 DEF DialerOutlives, Alive
<1> QED
  BY <1>7, <1>8, <1>9, <1>10 DEF PollInv

LEMMA DialNoFdKeeps ==
  ASSUME PollInv, NEW d \in DialConns, Posix!DialNoFd(d) PROVE PollInv'
<1>1. PollTypeOK'
  BY PollTypeFacts, PollTypeParts DEF PollInv, Posix!DialNoFd
<1>2. FdsOK' /\ CurrentOK' /\ ReapingOK'
  BY DEF PollInv, FdsOK, CurrentOK, ReapingOK, Posix!DialNoFd
<1>3. DialerOutlives'
  BY DialerKept DEF PollInv, Posix!DialNoFd
<1> QED
  BY <1>1, <1>2, <1>3 DEF PollInv

(* The dial of a connection ends with an error.                            *)
LEMMA DialEndsKeeps ==
  ASSUME PollInv, Assumed, NEW d \in DialConns, Posix!DialFails(d) \/ Posix!DialCancel(d)
  PROVE  PollInv'
<1> DEFINE k == [conn[d] EXCEPT !.st = "dead"]
<1>1. PollTypeOK /\ ConnOK(poller, pollq, d, pfd[d], conn[d]) /\ pfd[d] \in Pfd /\ d \in Conns
      /\ conn[d] \in Conn
  BY PollTypeFacts DEF PollInv, FdsOK
<1>2. Becomes(d, pfd[d], k) /\ conn[d].st \in {"open", "dialing"}
  BY <1>1, PollTypeFacts DEF Becomes, Posix!DialFails, Posix!DialCancel
<1>3. k \in Conn /\ k.st = "dead" /\ k.closed = conn[d].closed /\ k.in = "idle" /\ k.out = "idle"
  BY <1>1, <1>2 DEF Conn, ConnOK, Life
<1>4. ConnOK(poller, pollq, d, pfd[d], k)
  BY <1>1, <1>2, <1>3 DEF ConnOK, Shut, Wakes, Looks, WaitsOf, Pending, Kinds, Life
<1>5. dialaio' \in [DialConns -> {"idle", "pending", "ok", "error"}] /\ Posix!ToReaper(d)
      /\ UNCHANGED <<link, data, poller, pollq, acceptaio, dialer, panicked>>
  BY <1>1 DEF PollTypeOK, Posix!DialFails, Posix!DialCancel
<1> QED
  BY <1>1, <1>2, <1>3, <1>4, <1>5, OneDies

LEMMA DialStartKeeps ==
  ASSUME PollInv, Assumed, NEW d \in DialConns, Posix!DialStart(d) PROVE PollInv'
<1> DEFINE p == Posix!Arm(pfd[d], {"out"})
           k == [conn[d] EXCEPT !.st = "dialing"]
<1>1. PollTypeOK /\ ConnOK(poller, pollq, d, pfd[d], conn[d]) /\ pfd[d] \in Pfd /\ d \in Conns
      /\ conn[d] \in Conn
  BY PollTypeFacts DEF PollInv, FdsOK
<1>2. Becomes(d, p, k) /\ conn[d].st = "open"
  BY <1>1, PollTypeFacts DEF Becomes, Posix!DialStart
<1>3. k \in Conn /\ k.st = "dialing" /\ k.closed = conn[d].closed
      /\ k.in = "idle" /\ k.out = "idle"
  BY <1>1, <1>2 DEF Conn, ConnOK, Life
<1>4. p \in Pfd /\ p.closing = pfd[d].closing /\ p.closed = pfd[d].closed /\ p.cb = pfd[d].cb
      /\ (~p.closing => p.events = pfd[d].events \cup {"out"} /\ p.events \subseteq p.armed)
  BY <1>1, PfdFacts DEF Assumed, Kinds
<1>5. ConnOK(poller, pollq, d, p, k)
  BY <1>1, <1>2, <1>3, <1>4 DEF ConnOK, Shut, Wakes, WaitsOf, Life
<1>6. link' \in [Fds -> {"none", "new", "connecting", "up", "failed"}]
  BY DEF PollInv, PollTypeOK, Posix!DialStart
<1> QED
  BY <1>1, <1>2, <1>3, <1>4, <1>5, <1>6, OneMoves DEF Posix!DialStart, PollTypeOK

LEMMA DialAtOnceKeeps ==
  ASSUME PollInv, Assumed, NEW d \in DialConns, Posix!DialAtOnce(d) PROVE PollInv'
<1> DEFINE p == [pfd[d] EXCEPT !.cb = "conn"]
           k == [conn[d] EXCEPT !.st = "up"]
<1>1. PollTypeOK /\ ConnOK(poller, pollq, d, pfd[d], conn[d]) /\ pfd[d] \in Pfd /\ d \in Conns
      /\ conn[d] \in Conn
  BY PollTypeFacts DEF PollInv, FdsOK
<1>2. Becomes(d, p, k) /\ conn[d].st = "open"
  BY <1>1, PollTypeFacts DEF Becomes, Posix!DialAtOnce
<1>3. k \in Conn /\ k.st = "up" /\ k.closed = conn[d].closed
      /\ k.in = "idle" /\ k.out = "idle"
  BY <1>1, <1>2 DEF Conn, ConnOK, Life
<1>4. p \in Pfd /\ p.closing = pfd[d].closing /\ p.closed = pfd[d].closed /\ p.cb = "conn"
      /\ p.events = pfd[d].events /\ p.armed = pfd[d].armed
  BY <1>1 DEF Pfd
<1>5. ConnOK(poller, pollq, d, p, k)
  BY <1>1, <1>2, <1>3, <1>4 DEF ConnOK, Shut, Wakes, WaitsOf, Pending, Kinds, Life
<1>6. /\ link' \in [Fds -> {"none", "new", "connecting", "up", "failed"}]
      /\ data' \in [Fds -> SUBSET Kinds]
      /\ dialaio' \in [DialConns -> {"idle", "pending", "ok", "error"}]
  BY DEF PollInv, PollTypeOK, Assumed, Posix!DialAtOnce
<1> QED
  BY <1>1, <1>2, <1>3, <1>4, <1>5, <1>6, OneMoves DEF Posix!DialAtOnce

LEMMA DialerCloseKeeps ==
  ASSUME PollInv, Assumed, Posix!DialerClose PROVE PollInv'
<1> DEFINE dialing == {c \in DialConns : conn[c].st = "dialing"}
           p(c) == IF c \in dialing THEN Posix!PfdClose(pfd[c]) ELSE pfd[c]
           k(c) == IF c \in dialing THEN [conn[c] EXCEPT !.st = "dead", !.closed = TRUE]
                   ELSE conn[c]
           s == reaper.list
           t == Posix!SetToSeq(dialing)
<1>1. PollTypeOK /\ \A c \in Conns : ConnOK(poller, pollq, c, pfd[c], conn[c])
  BY DEF PollInv, FdsOK
<1>2. pfd' = [c \in Fds |-> p(c)] /\ conn' = [c \in Conns |-> k(c)]
      /\ reaper' = [reaper EXCEPT !.list = s \o t]
      /\ dialer' = [dialer EXCEPT !.closed = TRUE]
      /\ UNCHANGED <<link, data, acceptaio, pollq, poller, panicked>>
      /\ dialaio' = [c \in DialConns |-> IF c \in dialing THEN "error" ELSE dialaio[c]]
  BY SameNames DEF Posix!DialerClose
<1>3. ASSUME NEW c \in Conns, c \in dialing
      PROVE  /\ p(c) \in Pfd /\ k(c) \in Conn /\ k(c).st = "dead"
             /\ ConnOK(poller, pollq, c, p(c), k(c))
  <2>1. conn[c] \in Conn /\ pfd[c] \in Pfd /\ conn[c].st = "dialing"
    BY <1>1, <1>3, PollTypeFacts
  <2>2. k(c) \in Conn /\ k(c).st = "dead" /\ k(c).in = "idle" /\ k(c).out = "idle"
    BY <1>1, <1>3, <2>1 DEF Conn, ConnOK, Life
  <2>3. p(c) \in Pfd /\ p(c).closing /\ p(c).closed = pfd[c].closed /\ p(c).cb = pfd[c].cb
    BY <1>3, <2>1, PfdFacts DEF Assumed
  <2> HIDE DEF p, k, dialing
  <2>4. ConnOK(poller, pollq, c, p(c), k(c))
    BY <1>1, <2>1, <2>2, <2>3 DEF ConnOK, Shut, Wakes, Life
  <2> QED
    BY <2>2, <2>3, <2>4
<1>4. \A c \in Conns : k(c) \in Conn /\ p(c) \in Pfd /\ ConnOK(poller, pollq, c, p(c), k(c))
      /\ (c \in dialing => k(c).st = "dead") /\ (c \notin dialing => k(c) = conn[c])
  BY <1>1, <1>3, PollTypeFacts
<1>5. \A c \in Fds : p(c) \in Pfd /\ (c \notin Conns => p(c) = pfd[c])
  BY <1>1, <1>4, PollTypeFacts
<1>6. \A c \in dialing : c \in DialConns /\ c \in Conns /\ conn[c].st = "dialing"
  BY DEF Conns
<1>7. IsFiniteSet(dialing)
  BY <1>6, FS_Subset DEF Assumed, Fds
<1> HIDE DEF p, k, dialing
<1>8. t \in Seq(dialing) /\ Once(t)
  BY <1>7, SetAsSeq
<1>9. /\ s \in Seq(Conns) /\ t \in Seq(Conns) /\ reaper \in [list : Seq(Conns), waits : BOOLEAN]
      /\ DOMAIN s = 1..Len(s) /\ DOMAIN t = 1..Len(t) /\ Len(s) \in Nat /\ Len(t) \in Nat
      /\ \A i \in DOMAIN t : t[i] \in dialing
      /\ \A i \in DOMAIN s : s[i] \in Conns /\ conn[s[i]].st = "dead"
  <2>1. t \in Seq(Conns) /\ \A i \in 1..Len(t) : t[i] \in dialing
    BY <1>6, <1>8, ElementOfSeq
  <2>2. s \in Seq(Conns) /\ reaper \in [list : Seq(Conns), waits : BOOLEAN]
    BY <1>1 DEF PollTypeOK
  <2> QED
    BY <2>1, <2>2, ElementOfSeq, LenProperties DEF PollInv, ReapingOK
<1> HIDE DEF s, t
<1>10. /\ s \o t \in Seq(Conns) /\ DOMAIN (s \o t) = 1..(Len(s) + Len(t))
       /\ \A i \in 1..(Len(s) + Len(t)) : (s \o t)[i] = IF i <= Len(s) THEN s[i] ELSE t[i - Len(s)]
  BY <1>9, ConcatProperties, LenProperties
<1>11. Once(s)
  BY DEF PollInv, ReapingOK, s
<1>12. PollTypeOK'
  <2>1. reaper' \in [list : Seq(Conns), waits : BOOLEAN]
    BY <1>2, <1>9, <1>10
  <2>2. pfd' \in [Fds -> Pfd] /\ conn' \in [Conns -> Conn]
    BY <1>2, <1>4, <1>5
  <2>3. dialer' \in Dialer
    BY <1>1, <1>2, PollTypeFacts DEF Dialer
  <2> QED
    BY <1>1, <1>2, <2>1, <2>2, <2>3, PollTypeFacts, PollTypeParts
<1>13. FdsOK'
  <2>1. \A c \in Conns : pfd'[c] = p(c) /\ conn'[c] = k(c)
    BY <1>1, <1>2, PollTypeFacts
  <2>2. \A l \in Listener : pfd'[l] = pfd[l]
    BY <1>1, <1>2, <1>5, PollTypeFacts DEF Assumed
  <2> QED
    BY <1>2, <1>4, <2>1, <2>2 DEF FdsOK, PollInv
<1>14. CurrentOK'
  BY <1>2 DEF PollInv, CurrentOK
<1>15. ReapingOK'
  <2>1. reaper'.list = s \o t /\ reaper'.waits = reaper.waits
    BY <1>2, <1>9
  <2>2. \A i \in DOMAIN s : conn'[s[i]].st = "dead" /\ s[i] \notin dialing
    BY <1>2, <1>4, <1>6, <1>9
  <2>3. \A i \in DOMAIN t : conn'[t[i]].st = "dead"
    BY <1>2, <1>4, <1>6, <1>9
  <2>4. \A i \in 1..(Len(s) + Len(t)) : i <= Len(s) \/ i - Len(s) \in DOMAIN t
    BY <1>9
  <2>5. \A i \in DOMAIN (s \o t) : conn'[(s \o t)[i]].st = "dead"
    BY <1>9, <1>10, <2>2, <2>3, <2>4
  <2>6. ASSUME NEW i \in DOMAIN (s \o t), NEW j \in DOMAIN (s \o t), (s \o t)[i] = (s \o t)[j]
        PROVE  i = j
    <3>1. CASE i <= Len(s) /\ j <= Len(s)
      BY <1>9, <1>10, <1>11, <2>6, <3>1 DEF Once
    <3>2. CASE i > Len(s) /\ j > Len(s)
      <4>1. t[i - Len(s)] = t[j - Len(s)] /\ i - Len(s) \in DOMAIN t /\ j - Len(s) \in DOMAIN t
        BY <1>9, <1>10, <2>4, <2>6, <3>2
      <4>2. i - Len(s) = j - Len(s)
        BY <1>8, <4>1 DEF Once
      <4> QED
        BY <1>9, <1>10, <4>2
    <3>3. CASE ~(i <= Len(s) /\ j <= Len(s)) /\ ~(i > Len(s) /\ j > Len(s))
      BY <1>9, <1>10, <2>2, <2>4, <2>6, <3>3
    <3> QED
      BY <3>1, <3>2, <3>3
  <2>7. reaper'.waits => s \o t # <<>>
    <3>1. reaper'.waits => s # <<>>
      BY <2>1 DEF PollInv, ReapingOK, s
    <3> QED
      BY <1>9, <3>1, ConcatEmptySeq, EmptySeq
  <2> QED
    BY <2>1, <2>5, <2>6, <2>7 DEF ReapingOK, Once
<1>16. DialerOutlives'
  <2>1. dialer'.ref = dialer.ref /\ dialer'.fini = dialer.fini /\ dialer'.freed = dialer.freed
    BY <1>1, <1>2, PollTypeFacts DEF Dialer
  <2>2. \A c \in DialConns : conn'[c].st \in {"none", "gone"} <=> conn[c].st \in {"none", "gone"}
    BY <1>1, <1>2, <1>4, <1>6, PollTypeFacts
  <2>3. Alive' = Alive
    BY <2>2 DEF Alive
  <2> QED
    BY <2>1, <2>3 DEF PollInv, DialerOutlives, Alive
<1> QED
  BY <1>12, <1>13, <1>14, <1>15, <1>16 DEF PollInv

LEMMA ReledFacts ==
  ASSUME NEW e \in Dialer, e.ref >= 1
  PROVE  /\ Posix!Reled(e) \in Dialer /\ Posix!Reled(e).ref = e.ref - 1
         /\ Posix!Reled(e).fini = e.fini
         /\ Posix!Reled(e).freed <=> e.fini /\ e.ref = 1
<1>1. PICK b \in BOOLEAN : b = (e.fini /\ e.ref = 1)
  OBVIOUS
<1>2. Posix!Reled(e) = [e EXCEPT !.ref = @ - 1, !.freed = b]
  BY <1>1 DEF Posix!Reled
<1>3. e.ref - 1 \in Nat
  BY DEF Dialer
<1> QED
  BY <1>1, <1>2, <1>3 DEF Dialer

LEMMA DialerFiniKeeps ==
  ASSUME PollInv, Assumed, Posix!DialerFini PROVE PollInv'
<1>1. PollTypeOK /\ dialer \in Dialer /\ ~dialer.fini
      /\ UNCHANGED <<link, data, pfd, conn, dialaio, acceptaio, reaper, pollq, poller, panicked>>
      /\ dialer.ref = Cardinality(Alive) + 1 /\ Cardinality(Alive) \in Nat
  BY PollTypeFacts, AliveFinite DEF PollInv, DialerOutlives, Alive, Posix!DialerFini
<1>2. dialer' \in Dialer /\ dialer'.ref = Cardinality(Alive) /\ dialer'.fini
      /\ (dialer'.freed <=> dialer'.ref = 0)
  <2> DEFINE e == [dialer EXCEPT !.fini = TRUE]
  <2>1. e \in Dialer /\ e.ref = dialer.ref /\ e.fini /\ dialer' = Posix!Reled(e)
    BY <1>1 DEF Dialer, Posix!DialerFini
  <2> HIDE DEF e
  <2> QED
    BY <1>1, <2>1, ReledFacts
<1>3. PollTypeOK'
  BY <1>1, <1>2, PollTypeFacts, PollTypeParts
<1>4. FdsOK' /\ CurrentOK' /\ ReapingOK'
  BY <1>1 DEF PollInv, FdsOK, CurrentOK, ReapingOK
<1>5. Alive' = Alive
  BY <1>1 DEF Alive
<1>6. DialerOutlives'
  BY <1>1, <1>2, <1>5 DEF DialerOutlives, Alive
<1> QED
  BY <1>3, <1>4, <1>6 DEF PollInv

-----------------------------------------------------------------------------
(* A callback that ends does not matter to another descriptor.             *)

Returns == poller' = [poller EXCEPT !.cur = Posix!NoFd]

LEMMA ReturnsFacts ==
  ASSUME PollTypeOK, Assumed, Returns
  PROVE  /\ poller' \in Poller /\ poller'.batch = poller.batch /\ poller'.cur = Posix!NoFd
         /\ \A c \in Fds : Has(poller', c) = Has(poller, c) /\ poller'.cur.fd # c
<1>1. Posix!NoFd \in Taken /\ Posix!NoFd.fd = "none"
  BY DEF Posix!NoFd, Taken
<1>2. poller' \in Poller /\ poller'.batch = poller.batch /\ poller'.cur = Posix!NoFd
  BY <1>1, PollTypeFacts DEF Returns, Poller
<1> QED
  BY <1>1, <1>2 DEF Assumed, Has

LEMMA AwayFromReturn ==
  ASSUME PollTypeOK, Assumed, Returns \/ poller' = poller, NEW c \in Fds,
         Returns => poller.cur.fd # c
  PROVE  /\ \A p, k : ConnOK(poller, pollq, c, p, k) => ConnOK(poller', pollq, c, p, k)
         /\ \A p, a : ListenOK(poller, pollq, c, p, a) => ListenOK(poller', pollq, c, p, a)
<1>1. CASE Returns
  BY <1>1, ReturnsFacts DEF ConnOK, ListenOK, Shut, Wakes, Looks, Life
<1>2. CASE poller' = poller
  BY <1>2
<1> QED
  BY <1>1, <1>2

-----------------------------------------------------------------------------
(* Accepting.                                                              *)

LEMMA DoAcceptKeeps ==
  ASSUME PollInv, Assumed, NEW l \in Listener, Posix!DoAccept(l), pollq' = pollq,
         poller' = poller \/ (Returns /\ poller.cur.fd = l)
  PROVE  /\ link' \in [Fds -> {"none", "new", "connecting", "up", "failed"}]
         /\ data' \in [Fds -> SUBSET Kinds] /\ pfd' \in [Fds -> Pfd] /\ conn' \in [Conns -> Conn]
         /\ acceptaio' \in {"idle", "pending"} /\ FdsOK'
         /\ \A c \in DialConns : conn'[c] = conn[c]
         /\ \A c \in Conns : conn[c].st = "dead" => conn'[c].st = "dead"
<1>1. PollTypeOK /\ FdsOK /\ pfd[l] \in Pfd /\ l \in Fds /\ l \notin Conns
      /\ ListenOK(poller, pollq, l, pfd[l], acceptaio)
      /\ \A m \in Listener : m = l
  BY PollTypeFacts DEF PollInv, FdsOK, Assumed
<1>2. ASSUME NEW c \in Conns
      PROVE  \A p, k : ConnOK(poller, pollq, c, p, k) => ConnOK(poller', pollq', c, p, k)
  BY <1>1, AwayFromReturn, PollTypeFacts
<1>3. ASSUME NEW p \in Pfd, ListenOK(poller, pollq, l, pfd[l], acceptaio), p.cb = "listen",
             p.closing = pfd[l].closing, p.closed = pfd[l].closed,
             NEW a, a = "pending" /\ ~p.closing => "in" \in p.events /\ "in" \in p.armed
      PROVE  ListenOK(poller', pollq', l, p, a)
  <2>1. Shut(poller', pollq', l, p)
    BY <1>1, <1>3, ReturnsFacts DEF ListenOK, Shut
  <2> QED
    BY <1>3, <2>1 DEF ListenOK, Wakes
<1>4. CASE \E c \in AcceptConns :
             /\ conn[c].st = "none"
             /\ conn' = [conn EXCEPT ![c].st = "up"]
             /\ link' = [link EXCEPT ![c] = "up"]
             /\ \E left \in {{}, {"in"}} :
                  data' = [data EXCEPT ![l] = left, ![c] = {"out"} \cap Ops]
             /\ pfd' = [pfd EXCEPT ![c] = Posix!PfdInit(@, "conn")]
             /\ acceptaio' = "idle"
  <2>1. PICK c \in AcceptConns : 
             /\ conn[c].st = "none"
             /\ conn' = [conn EXCEPT ![c].st = "up"]
             /\ link' = [link EXCEPT ![c] = "up"]
             /\ \E left \in {{}, {"in"}} :
                  data' = [data EXCEPT ![l] = left, ![c] = {"out"} \cap Ops]
             /\ pfd' = [pfd EXCEPT ![c] = Posix!PfdInit(@, "conn")]
             /\ acceptaio' = "idle"
    BY <1>4
  <2> DEFINE p == Posix!PfdInit(pfd[c], "conn")
             k == [conn[c] EXCEPT !.st = "up"]
  <2>2. ConnOK(poller, pollq, c, pfd[c], conn[c]) /\ c \in Conns /\ conn[c] \in Conn
    BY <1>1, PollTypeFacts DEF FdsOK
  <2>3. Becomes(c, p, k)
    BY <1>1, <2>1, <2>2, PollTypeFacts DEF Becomes
  <2>4. k \in Conn /\ k.st = "up" /\ ~k.closed /\ k.in = "idle" /\ k.out = "idle"
    BY <2>1, <2>2 DEF Conn, ConnOK, Life
  <2>5. p \in Pfd /\ ~p.closing /\ ~p.closed /\ p.cb = "conn"
    BY DEF Assumed, Pfd, Posix!PfdInit, Posix!Quiet, Posix!Always
  <2>6. ConnOK(poller, pollq, c, p, k)
    BY <2>1, <2>2, <2>4, <2>5 DEF ConnOK, Shut, Wakes, WaitsOf, Pending, Kinds, Life
  <2> HIDE DEF p, k
  <2>7. link' \in [Fds -> {"none", "new", "connecting", "up", "failed"}]
        /\ data' \in [Fds -> SUBSET Kinds]
    <3>1. PICK left \in SUBSET Kinds : data' = [data EXCEPT ![l] = left, ![c] = {"out"} \cap Ops]
      BY <2>1 DEF Kinds
    <3>2. {"out"} \cap Ops \in SUBSET Kinds
      BY DEF Assumed
    <3> QED
      BY <1>1, <2>1, <3>1, <3>2 DEF PollTypeOK
  <2>8. pfd'[l] = pfd[l]
    BY <1>1, <2>2, <2>3, <2>4, <2>5, BecomesFacts
  <2>9. ListenOK(poller', pollq', l, pfd'[l], acceptaio')
    BY <1>1, <1>3, <2>1, <2>8 DEF ListenOK
  <2>10. \A d \in Conns : ConnOK(poller', pollq', d, pfd'[d], conn'[d])
    BY <1>1, <1>2, <2>2, <2>3, <2>4, <2>5, <2>6, BecomesFacts, PollTypeFacts DEF FdsOK
  <2>11. FdsOK'
    BY <1>1, <2>9, <2>10 DEF FdsOK
  <2>12. \A d \in Conns : d # c => conn'[d] = conn[d]
    BY <1>1, <2>2, <2>3, <2>4, <2>5, BecomesFacts
  <2>13. pfd' \in [Fds -> Pfd] /\ conn' \in [Conns -> Conn] /\ conn[c].st # "dead"
    BY <1>1, <2>1, <2>2, <2>3, <2>4, <2>5, BecomesFacts
  <2>14. \A d \in DialConns : d \in Conns /\ d # c
    BY DEF Assumed, Conns
  <2> QED
    BY <2>1, <2>7, <2>11, <2>12, <2>13, <2>14
<1>5. CASE /\ acceptaio' = "idle"
           /\ \E left \in {{}, {"in"}} : data' = [data EXCEPT ![l] = left]
           /\ UNCHANGED <<link, pfd, conn>>
  <2>1. PICK left \in SUBSET Kinds : data' = [data EXCEPT ![l] = left]
    BY <1>5 DEF Kinds
  <2>2. data' \in [Fds -> SUBSET Kinds]
    BY <1>1, <2>1 DEF PollTypeOK
  <2>3. FdsOK'
    BY <1>1, <1>2, <1>3, <1>5 DEF FdsOK, ListenOK
  <2> QED
    BY <1>1, <1>5, <2>2, <2>3, PollTypeFacts DEF PollTypeOK
<1>6. CASE /\ pfd' = [pfd EXCEPT ![l] = Posix!Arm(@, {"in"})]
           /\ acceptaio' = "pending"
           /\ UNCHANGED <<link, data, conn>>
  <2> DEFINE p == Posix!Arm(pfd[l], {"in"})
  <2>1. p \in Pfd /\ p.closing = pfd[l].closing /\ p.closed = pfd[l].closed /\ p.cb = pfd[l].cb
        /\ (~p.closing => "in" \in p.events /\ "in" \in p.armed)
    BY <1>1, PfdFacts DEF Assumed, Kinds
  <2>2. pfd' \in [Fds -> Pfd] /\ pfd'[l] = p /\ \A c \in Conns : pfd'[c] = pfd[c]
    BY <1>1, <1>6, <2>1, PollTypeFacts
  <2> HIDE DEF p
  <2>3. ListenOK(poller', pollq', l, pfd'[l], acceptaio')
    BY <1>1, <1>3, <2>1, <2>2 DEF ListenOK
  <2>4. FdsOK'
    BY <1>1, <1>2, <1>6, <2>2, <2>3 DEF FdsOK
  <2> QED
    BY <1>1, <1>6, <2>2, <2>4, PollTypeFacts DEF PollTypeOK
<1> QED
  BY <1>4, <1>5, <1>6 DEF Posix!DoAccept

LEMMA AcceptKeeps ==
  ASSUME PollInv, Assumed, NEW l \in Listener, Posix!Accept(l) PROVE PollInv'
<1>1. /\ link' \in [Fds -> {"none", "new", "connecting", "up", "failed"}]
      /\ data' \in [Fds -> SUBSET Kinds] /\ pfd' \in [Fds -> Pfd] /\ conn' \in [Conns -> Conn]
      /\ acceptaio' \in {"idle", "pending"} /\ FdsOK'
      /\ \A c \in DialConns : conn'[c] = conn[c]
      /\ \A c \in Conns : conn[c].st = "dead" => conn'[c].st = "dead"
  BY DoAcceptKeeps DEF Posix!Accept
<1>2. PollTypeOK'
  BY <1>1, PollTypeFacts, PollTypeParts DEF PollInv, Posix!Accept
<1>3. CurrentOK' /\ ReapingOK' /\ DialerOutlives'
  BY <1>1, ReapingKept, DialerKept DEF PollInv, CurrentOK, Posix!Accept
<1> QED
  BY <1>1, <1>2, <1>3 DEF PollInv

LEMMA ListenerCloseKeeps ==
  ASSUME PollInv, Assumed, NEW l \in Listener, Posix!ListenerClose(l) PROVE PollInv'
<1> DEFINE p == Posix!PfdClose(pfd[l])
<1>1. PollTypeOK /\ FdsOK /\ pfd[l] \in Pfd /\ l \in Fds /\ l \notin Conns
      /\ ListenOK(poller, pollq, l, pfd[l], acceptaio)
      /\ \A m \in Listener : m = l
  BY PollTypeFacts DEF PollInv, FdsOK, Assumed
<1>2. p \in Pfd /\ p.closing /\ p.closed = pfd[l].closed /\ p.cb = pfd[l].cb
  BY <1>1, PfdFacts DEF Assumed
<1>3. pfd' \in [Fds -> Pfd] /\ pfd'[l] = p /\ \A c \in Conns : pfd'[c] = pfd[c]
  BY <1>1, <1>2, PollTypeFacts DEF Posix!ListenerClose
<1>4. PollTypeOK'
  BY <1>1, <1>3, PollTypeFacts, PollTypeParts DEF Posix!ListenerClose
<1>5. ListenOK(poller, pollq, l, pfd'[l], acceptaio')
  BY <1>1, <1>2, <1>3 DEF ListenOK, Shut, Wakes
<1>6. FdsOK'
  BY <1>1, <1>3, <1>5 DEF FdsOK, Posix!ListenerClose
<1>7. CurrentOK' /\ ReapingOK' /\ DialerOutlives'
  BY ReapingKept, DialerKept DEF PollInv, CurrentOK, Posix!ListenerClose
<1> QED
  BY <1>4, <1>6, <1>7 DEF PollInv

-----------------------------------------------------------------------------
(* The poller.                                                             *)

(* What epoll_wait returns: all that is signalled, and nothing else.       *)
LEMMA PollBatch ==
  ASSUME PollInv, Assumed, Posix!Poll
  PROVE  /\ poller' \in Poller /\ poller'.cur = Posix!NoFd /\ poller.cur = Posix!NoFd
         /\ \A c \in Fds : /\ Has(poller', c) <=> c \in Posix!Signalled
                           /\ ~Has(poller, c)
<1> DEFINE S == Posix!Signalled \cup (IF pollq.evfd THEN {"evfd"} ELSE {})
           ev(x) == IF x = "evfd" THEN [fd |-> "evfd", mask |-> {}] ELSE Posix!Event(x)
<1>1. PICK order \in Posix!SetToSeqs(S) :
        poller' = [poller EXCEPT !.batch = [i \in DOMAIN order |-> ev(order[i])]]
  BY DEF Posix!Poll
<1>2. poller \in Poller /\ poller.batch = <<>> /\ poller.cur = Posix!NoFd
  BY PollTypeFacts DEF PollInv, Posix!Poll, Posix!Idle
<1>3. Posix!Signalled \subseteq Fds
  BY SameNames DEF Posix!Signalled
<1>4. IsFiniteSet(S)
  BY <1>3, FS_Subset, FS_AddElement DEF Assumed
<1>5. order \in Seq(S) /\ \A x \in S : \E i \in DOMAIN order : order[i] = x
  <2> HIDE DEF S
  <2> QED
    BY <1>4, SetAsSeq
<1>6. DOMAIN order = 1..Len(order) /\ Len(order) \in Nat /\ \A i \in DOMAIN order : order[i] \in S
  BY <1>5, LenProperties, ElementOfSeq
<1>7. \A x \in S : /\ ev(x) \in [fd : Fds \cup {"evfd"}, mask : SUBSET {"in", "out", "err"}]
                   /\ ev(x).fd = x
  BY <1>3 DEF Posix!Event
<1> HIDE DEF ev
<1> DEFINE b == [i \in DOMAIN order |-> ev(order[i])]
<1>8. b \in Batch
  BY <1>6, <1>7 DEF Batch
<1>9. poller' \in Poller /\ poller'.cur = Posix!NoFd /\ poller'.batch = b
  BY <1>1, <1>2, <1>8 DEF Poller
<1>10. DOMAIN b = DOMAIN order /\ \A i \in DOMAIN order : b[i].fd = order[i]
  BY <1>6, <1>7
<1> HIDE DEF b
<1>11. \A c \in Fds : c \in S <=> c \in Posix!Signalled
  BY DEF Assumed
<1>12. \A c \in Fds : Has(poller', c) <=> c \in Posix!Signalled
  BY <1>5, <1>6, <1>9, <1>10, <1>11 DEF Has
<1>13. \A c \in Fds : ~Has(poller, c)
  BY <1>2 DEF Has
<1> QED
  BY <1>2, <1>9, <1>12, <1>13

LEMMA PollKeeps ==
  ASSUME PollInv, Assumed, Posix!Poll PROVE PollInv'
<1>1. PollTypeOK /\ FdsOK
  BY DEF PollInv
<1>2. pfd' = [c \in Fds |-> IF c \in Posix!Signalled THEN Posix!Shot(pfd[c]) ELSE pfd[c]]
      /\ UNCHANGED <<link, data, conn, dialaio, acceptaio, dialer, reaper, pollq, panicked>>
  BY SameNames DEF Posix!Poll
<1>3. Posix!NoFd.fd = "none" /\ "none" \notin Fds
  BY DEF Posix!NoFd, Assumed
<1>4. ASSUME NEW c \in Fds
      PROVE  /\ pfd'[c] \in Pfd /\ pfd[c] \in Pfd /\ pfd'[c].closing = pfd[c].closing
             /\ pfd'[c].closed = pfd[c].closed /\ pfd'[c].cb = pfd[c].cb
             /\ pfd'[c].events = pfd[c].events
             /\ c \in Posix!Signalled => ~pfd[c].closing /\ pfd[c].armed # {}
             /\ c \notin Posix!Signalled => pfd'[c].armed = pfd[c].armed
  BY <1>1, <1>2, PollTypeFacts, PfdFacts DEF Assumed, Posix!Signalled
<1>5. PollTypeOK'
  <2>1. pfd' \in [Fds -> Pfd]
    BY <1>2, <1>4
  <2> QED
    BY <1>1, <1>2, <2>1, PollBatch, PollTypeFacts, PollTypeParts
<1>6. ASSUME NEW c \in Conns PROVE ConnOK(poller', pollq', c, pfd'[c], conn'[c])
  <2>1. ConnOK(poller, pollq, c, pfd[c], conn[c]) /\ c \in Fds
    BY <1>1, PollTypeFacts DEF FdsOK
  <2> QED
    BY <1>2, <1>3, <1>4, <2>1, PollBatch DEF ConnOK, Shut, Wakes, Looks, Life
<1>7. ASSUME NEW l \in Listener PROVE ListenOK(poller', pollq', l, pfd'[l], acceptaio')
  <2>1. ListenOK(poller, pollq, l, pfd[l], acceptaio) /\ l \in Fds
    BY <1>1, PollTypeFacts DEF FdsOK
  <2> QED
    BY <1>2, <1>3, <1>4, <2>1, PollBatch DEF ListenOK, Shut, Wakes
<1>8. CurrentOK' /\ ReapingOK' /\ DialerOutlives'
  BY <1>2, PollBatch, ReapingKept, DialerKept DEF PollInv, CurrentOK
<1> QED
  BY <1>5, <1>6, <1>7, <1>8 DEF PollInv, FdsOK

(* The first of the batch is taken.                                        *)
LEMMA BatchTail ==
  ASSUME PollTypeOK, poller.batch # <<>>
  PROVE  /\ poller.batch \in Batch /\ Tail(poller.batch) \in Batch
         /\ Head(poller.batch) \in [fd : Fds \cup {"evfd"}, mask : SUBSET {"in", "out", "err"}]
         /\ Has(poller, Head(poller.batch).fd)
         /\ \A q, c : q.batch = Tail(poller.batch) =>
              /\ Has(q, c) => Has(poller, c)
              /\ Has(poller, c) => Has(q, c) \/ c = Head(poller.batch).fd
<1> DEFINE b == poller.batch
<1>1. b \in Batch
  BY PollTypeFacts DEF Poller
<1>2. /\ Tail(b) \in Batch /\ Head(b) = b[1] /\ Len(Tail(b)) = Len(b) - 1
      /\ Head(b) \in [fd : Fds \cup {"evfd"}, mask : SUBSET {"in", "out", "err"}]
      /\ Len(b) \in Nat \ {0}
      /\ \A i \in 1..Len(Tail(b)) : Tail(b)[i] = b[i + 1]
  <2> DEFINE E == [fd : Fds \cup {"evfd"}, mask : SUBSET {"in", "out", "err"}]
  <2>1. b \in Seq(E) /\ b # <<>>
    BY <1>1 DEF Batch
  <2> HIDE DEF E, b
  <2>2. Tail(b) \in Seq(E) /\ Head(b) \in E /\ Len(Tail(b)) = Len(b) - 1 /\ Head(b) = b[1]
        /\ Len(b) \in Nat \ {0} /\ \A i \in 1..Len(Tail(b)) : Tail(b)[i] = b[i + 1]
    BY <2>1, HeadTailProperties, EmptySeq, LenProperties
  <2> QED
    BY <2>2 DEF Batch, E
<1>3. DOMAIN b = 1..Len(b) /\ DOMAIN Tail(b) = 1..(Len(b) - 1)
  BY <1>1, <1>2, LenProperties DEF Batch
<1>4. Has(poller, Head(b).fd)
  BY <1>2, <1>3 DEF Has
<1> HIDE DEF b
<1>5. ASSUME NEW q, NEW c, q.batch = Tail(b)
      PROVE  /\ Has(q, c) => Has(poller, c)
             /\ Has(poller, c) => Has(q, c) \/ c = Head(b).fd
  <2>1. ASSUME Has(q, c) PROVE Has(poller, c)
    <3>1. PICK i \in 1..(Len(b) - 1) : Tail(b)[i].fd = c
      BY <1>3, <1>5, <2>1 DEF Has
    <3>2. i + 1 \in DOMAIN b /\ b[i + 1].fd = c
      BY <1>2, <1>3, <3>1
    <3> QED
      BY <3>2 DEF Has, b
  <2>2. ASSUME Has(poller, c), c # Head(b).fd PROVE Has(q, c)
    <3>1. PICK i \in 1..Len(b) : b[i].fd = c
      BY <1>3, <2>2 DEF Has, b
    <3>2. i - 1 \in 1..(Len(b) - 1) /\ Tail(b)[i - 1] = b[i]
      BY <1>2, <1>3, <2>2, <3>1
    <3> QED
      BY <1>3, <1>5, <3>1, <3>2 DEF Has
  <2> QED
    BY <2>1, <2>2
<1> QED
  BY <1>1, <1>2, <1>4, <1>5 DEF b

LEMMA TakeWakerKeeps ==
  ASSUME PollInv, Assumed, Posix!TakeWaker PROVE PollInv'
<1>1. /\ PollTypeOK /\ FdsOK /\ poller \in Poller /\ pollq \in Pollq
      /\ poller.batch # <<>> /\ Head(poller.batch).fd = "evfd"
      /\ poller' = [poller EXCEPT !.batch = Tail(poller.batch), !.reap = TRUE]
      /\ pollq' = [pollq EXCEPT !.evfd = FALSE]
      /\ UNCHANGED <<link, data, pfd, conn, dialaio, acceptaio, dialer, reaper, panicked>>
  BY PollTypeFacts DEF PollInv, Posix!TakeWaker
<1>2. /\ poller' \in Poller /\ poller'.batch = Tail(poller.batch) /\ poller'.cur = poller.cur
      /\ pollq' \in Pollq /\ pollq'.reapq = pollq.reapq
  BY <1>1, BatchTail DEF Poller, Pollq
<1>3. \A c \in Fds : Has(poller', c) = Has(poller, c)
  <2> SUFFICES ASSUME NEW c \in Fds PROVE Has(poller', c) <=> Has(poller, c)
    BY DEF Has
  <2> QED
    BY <1>1, <1>2, BatchTail DEF Assumed
<1>4. PollTypeOK'
  BY <1>1, <1>2, PollTypeFacts, PollTypeParts
<1>5. ASSUME NEW c \in Conns PROVE ConnOK(poller', pollq', c, pfd'[c], conn'[c])
  BY <1>1, <1>2, <1>3, PollTypeFacts DEF FdsOK, ConnOK, Shut, Wakes, Looks, Life
<1>6. ASSUME NEW l \in Listener PROVE ListenOK(poller', pollq', l, pfd'[l], acceptaio')
  BY <1>1, <1>2, <1>3, PollTypeFacts DEF FdsOK, ListenOK, Shut, Wakes
<1>7. CurrentOK' /\ ReapingOK' /\ DialerOutlives'
  BY <1>1, <1>2, ReapingKept, DialerKept DEF PollInv, CurrentOK
<1> QED
  BY <1>4, <1>5, <1>6, <1>7 DEF PollInv, FdsOK

LEMMA TakeKeeps ==
  ASSUME PollInv, Assumed, Posix!Take PROVE PollInv'
<1> DEFINE e == Head(poller.batch)
           d == e.fd
           p == [pfd[d] EXCEPT !.events = @ \ e.mask]
           r == [fd |-> d, mask |-> e.mask, cb |-> pfd[d].cb]
<1>1. /\ PollTypeOK /\ FdsOK /\ poller \in Poller /\ poller.cur = Posix!NoFd
      /\ poller.batch # <<>> /\ d # "evfd"
      /\ poller' = [poller EXCEPT !.batch = Tail(poller.batch), !.cur = r]
      /\ pfd' = [pfd EXCEPT ![d] = p]
      /\ UNCHANGED <<link, data, conn, dialaio, acceptaio, dialer, reaper, pollq, panicked>>
  BY PollTypeFacts DEF PollInv, Posix!Take
<1>2. e \in [fd : Fds \cup {"evfd"}, mask : SUBSET {"in", "out", "err"}] /\ Has(poller, d)
      /\ Tail(poller.batch) \in Batch
  BY <1>1, BatchTail
<1>3. d \in Fds /\ e.mask \in SUBSET {"in", "out", "err"} /\ pfd[d] \in Pfd
  BY <1>1, <1>2, PollTypeFacts
<1>4. /\ p \in Pfd /\ p.closing = pfd[d].closing /\ p.closed = pfd[d].closed
      /\ p.cb = pfd[d].cb /\ p.armed = pfd[d].armed
  BY <1>3 DEF Pfd
<1>5. r \in Taken /\ r.fd = d /\ r.cb = pfd[d].cb
  BY <1>3 DEF Taken, Pfd
<1> HIDE DEF e, d, p, r
<1>6. poller' \in Poller /\ poller'.batch = Tail(poller.batch) /\ poller'.cur = r
  BY <1>1, <1>2, <1>5 DEF Poller
<1>7. pfd' \in [Fds -> Pfd] /\ pfd'[d] = p /\ \A c \in Fds \ {d} : pfd'[c] = pfd[c]
  BY <1>1, <1>3, <1>4, PollTypeFacts
<1>8. /\ \A c \in Fds : Has(poller', c) => Has(poller, c)
      /\ \A c \in Fds \ {d} : Has(poller, c) => Has(poller', c)
      /\ \A c \in Fds : poller.cur.fd # c /\ (poller'.cur.fd = c <=> c = d)
  <2>1. \A c : /\ Has(poller', c) => Has(poller, c)
               /\ Has(poller, c) => Has(poller', c) \/ c = d
    BY <1>1, <1>6, BatchTail DEF d, e
  <2>2. poller.cur.fd = "none" /\ "none" \notin Fds
    BY <1>1 DEF Posix!NoFd, Assumed
  <2>3. poller'.cur.fd = d
    BY <1>5, <1>6
  <2> QED
    BY <2>1, <2>2, <2>3
<1>9. PollTypeOK'
  BY <1>1, <1>6, <1>7, PollTypeFacts, PollTypeParts
<1>10. ASSUME NEW c \in Conns PROVE ConnOK(poller', pollq', c, pfd'[c], conn'[c])
  <2>1. ConnOK(poller, pollq, c, pfd[c], conn[c]) /\ c \in Fds /\ conn'[c] = conn[c]
        /\ conn[c] \in Conn
    BY <1>1, PollTypeFacts DEF FdsOK
  <2>2. CASE c # d
    BY <1>1, <1>7, <1>8, <2>1, <2>2 DEF ConnOK, Shut, Wakes, Looks, Life
  <2>3. CASE c = d
    <3>1. ~pfd[d].closed /\ conn[d].st # "none"
      BY <1>2, <2>1, <2>3 DEF ConnOK, Shut, Life
    <3>2. p.cb = "dial" /\ conn[d].st # "dialing" => WaitsOf(conn[d]) = {}
      BY <1>4, <2>1, <2>3 DEF ConnOK, Life, WaitsOf, Pending, Kinds
    <3>3. Wakes(poller', d, p, WaitsOf(conn[d]), Looks(poller', d, conn[d]))
      BY <1>4, <1>5, <1>6, <1>8, <3>2 DEF Wakes, Looks
    <3> QED
      BY <1>1, <1>4, <1>5, <1>6, <1>7, <1>8, <2>1, <2>3, <3>1, <3>3 DEF ConnOK, Shut, Life
  <2> QED
    BY <2>2, <2>3
<1>11. ASSUME NEW l \in Listener PROVE ListenOK(poller', pollq', l, pfd'[l], acceptaio')
  <2>1. ListenOK(poller, pollq, l, pfd[l], acceptaio) /\ l \in Fds
    BY <1>1, PollTypeFacts DEF FdsOK
  <2>2. CASE l # d
    BY <1>1, <1>7, <1>8, <2>1, <2>2 DEF ListenOK, Shut, Wakes
  <2>3. CASE l = d
    <3>1. ~pfd[d].closed
      BY <1>2, <2>1, <2>3 DEF ListenOK, Shut
    <3> QED
      BY <1>1, <1>4, <1>7, <1>8, <2>1, <2>3, <3>1 DEF ListenOK, Shut, Wakes
  <2> QED
    BY <2>2, <2>3
<1>12. CurrentOK'
  <2>1. CASE d \in Conns
    <3>1. ConnOK(poller, pollq, d, pfd[d], conn[d])
      BY <1>1, <2>1 DEF FdsOK
    <3>2. pfd[d].cb = "conn" \/ (d \in DialConns /\ pfd[d].cb = "dial")
      BY <1>2, <3>1 DEF ConnOK, Life
    <3> QED
      BY <1>5, <1>6, <2>1, <3>2 DEF CurrentOK
  <2>2. CASE d \in Listener
    BY <1>1, <1>5, <1>6, <2>2 DEF CurrentOK, FdsOK, ListenOK
  <2> QED
    BY <1>3, <2>1, <2>2 DEF Fds
<1>13. ReapingOK' /\ DialerOutlives'
  BY <1>1, ReapingKept, DialerKept DEF PollInv
<1> QED
  BY <1>9, <1>10, <1>11, <1>12, <1>13 DEF PollInv, FdsOK

LEMMA PollReapKeeps ==
  ASSUME PollInv, Assumed, Posix!PollReap PROVE PollInv'
<1>1. /\ PollTypeOK /\ FdsOK /\ poller \in Poller /\ poller.cur = Posix!NoFd
      /\ pollq \in Pollq /\ poller.batch = <<>> /\ poller' = [poller EXCEPT !.reap = FALSE]
      /\ pollq' = [pollq EXCEPT !.reapq = {}]
      /\ pfd' = [c \in Fds |-> IF c \in pollq.reapq THEN [pfd[c] EXCEPT !.closed = TRUE]
                               ELSE pfd[c]]
      /\ UNCHANGED <<link, data, conn, dialaio, acceptaio, dialer, reaper, panicked>>
  BY PollTypeFacts, SameNames DEF PollInv, Posix!PollReap
<1>2. /\ poller' \in Poller /\ poller'.batch = <<>> /\ poller'.cur = poller.cur
      /\ pollq' \in Pollq /\ pollq'.reapq = {}
  BY <1>1 DEF Poller, Pollq
<1>3. \A c \in Fds : ~Has(poller', c) /\ ~Has(poller, c) /\ poller.cur.fd # c
  BY <1>1, <1>2 DEF Has, Posix!NoFd, Assumed
<1>4. ASSUME NEW c \in Fds
      PROVE  /\ pfd'[c] \in Pfd /\ pfd'[c].closing = pfd[c].closing /\ pfd'[c].cb = pfd[c].cb
             /\ pfd'[c].events = pfd[c].events /\ pfd'[c].armed = pfd[c].armed
             /\ c \in pollq.reapq => pfd'[c].closed
             /\ c \notin pollq.reapq => pfd'[c].closed = pfd[c].closed
  <2>1. pfd[c] \in Pfd
    BY <1>1, PollTypeFacts
  <2>2. pfd'[c] = IF c \in pollq.reapq THEN [pfd[c] EXCEPT !.closed = TRUE] ELSE pfd[c]
    BY <1>1
  <2> QED
    BY <2>1, <2>2 DEF Pfd
<1>5. PollTypeOK'
  <2>1. pfd' \in [Fds -> Pfd]
    BY <1>1, <1>4
  <2> QED
    BY <1>1, <1>2, <2>1, PollTypeFacts, PollTypeParts
<1>6. ASSUME NEW c \in Conns PROVE ConnOK(poller', pollq', c, pfd'[c], conn'[c])
  <2>1. ConnOK(poller, pollq, c, pfd[c], conn[c]) /\ c \in Fds /\ conn'[c] = conn[c]
    BY <1>1, PollTypeFacts DEF FdsOK
  <2> QED
    BY <1>2, <1>3, <1>4, <2>1 DEF ConnOK, Shut, Wakes, Looks, Life
<1>7. ASSUME NEW l \in Listener PROVE ListenOK(poller', pollq', l, pfd'[l], acceptaio')
  <2>1. ListenOK(poller, pollq, l, pfd[l], acceptaio) /\ l \in Fds
    BY <1>1, PollTypeFacts DEF FdsOK
  <2> QED
    BY <1>1, <1>2, <1>3, <1>4, <2>1 DEF ListenOK, Shut, Wakes
<1>8. CurrentOK' /\ ReapingOK' /\ DialerOutlives'
  BY <1>1, <1>2, ReapingKept, DialerKept DEF PollInv, CurrentOK
<1> QED
  BY <1>5, <1>6, <1>7, <1>8 DEF PollInv, FdsOK

-----------------------------------------------------------------------------
(* The callbacks.                                                          *)

LEMMA CalledFdMoves ==
  ASSUME PollInv, Assumed, Returns, NEW d \in Conns, poller.cur.fd = d,
         NEW p \in Pfd, NEW k \in Conn, Becomes(d, p, k), UNCHANGED <<pollq, acceptaio>>,
         ConnOK(poller', pollq, d, p, k)
  PROVE  FdsOK' /\ CurrentOK'
<1>1. PollTypeOK /\ FdsOK
  BY DEF PollInv
<1>2. ASSUME NEW c \in Conns PROVE ConnOK(poller, pollq, c, pfd[c], conn[c])'
  <2>1. CASE c = d
    BY <1>1, <2>1, BecomesFacts
  <2>2. CASE c # d
    BY <1>1, <2>2, BecomesFacts, PollTypeFacts, AwayFromReturn DEF FdsOK
  <2> QED
    BY <2>1, <2>2
<1>3. ASSUME NEW l \in Listener PROVE ListenOK(poller, pollq, l, pfd[l], acceptaio)'
  <2>1. l # d /\ l \in Fds
    BY <1>1, PollTypeFacts DEF Assumed
  <2> QED
    BY <1>1, <2>1, BecomesFacts, AwayFromReturn DEF FdsOK
<1>4. CurrentOK'
  BY <1>1, ReturnsFacts DEF CurrentOK
<1> QED
  BY <1>2, <1>3, <1>4 DEF FdsOK

(* The callback leaves the connection with who had it, ...                 *)
LEMMA CalledMoves ==
  ASSUME PollInv, Assumed, Returns, NEW d \in Conns, poller.cur.fd = d,
         NEW p \in Pfd, NEW k \in Conn, Becomes(d, p, k),
         UNCHANGED <<link, pollq, acceptaio, reaper, dialer, panicked>>,
         data' \in [Fds -> SUBSET Kinds],
         dialaio' \in [DialConns -> {"idle", "pending", "ok", "error"}],
         ConnOK(poller', pollq, d, p, k), conn[d].st = "dead" => k.st = "dead",
         d \in DialConns => (k.st \in {"none", "gone"} <=> conn[d].st \in {"none", "gone"})
  PROVE  PollInv'
<1>1. PollTypeOK'
  <2>1. pfd' \in [Fds -> Pfd] /\ conn' \in [Conns -> Conn] /\ poller' \in Poller
    BY BecomesFacts, ReturnsFacts DEF PollInv
  <2> QED
    BY <2>1, PollTypeFacts, PollTypeParts DEF PollInv
<1>2. /\ \A c \in Conns : conn[c].st = "dead" => conn'[c].st = "dead"
      /\ \A c \in DialConns : conn'[c].st \in {"none", "gone"} <=> conn[c].st \in {"none", "gone"}
  <2>1. conn'[d] = k /\ \A c \in Conns \ {d} : conn'[c] = conn[c]
    BY BecomesFacts DEF PollInv
  <2>2. \A c \in DialConns : c \in Conns
    BY DEF Conns
  <2> QED
    BY <2>1, <2>2
<1>3. ReapingOK' /\ DialerOutlives'
  BY <1>2, ReapingKept, DialerKept DEF PollInv
<1> QED
  BY <1>1, <1>3, CalledFdMoves DEF PollInv

(* ... or gives it to the reaper.                                          *)
LEMMA CalledDies ==
  ASSUME PollInv, Assumed, Returns, NEW d \in Conns, poller.cur.fd = d,
         NEW p \in Pfd, NEW k \in Conn, Becomes(d, p, k),
         UNCHANGED <<link, data, pollq, acceptaio, dialer, panicked>>, Posix!ToReaper(d),
         dialaio' \in [DialConns -> {"idle", "pending", "ok", "error"}],
         ConnOK(poller', pollq, d, p, k), conn[d].st = "dialing", k.st = "dead"
  PROVE  PollInv'
<1>1. ReapingOK' /\ reaper' \in [list : Seq(Conns), waits : BOOLEAN]
  BY BecomesFacts, ReapingAppend DEF PollInv
<1>2. PollTypeOK'
  <2>1. pfd' \in [Fds -> Pfd] /\ conn' \in [Conns -> Conn] /\ poller' \in Poller
    BY BecomesFacts, ReturnsFacts DEF PollInv
  <2> QED
    BY <1>1, <2>1, PollTypeFacts, PollTypeParts DEF PollInv
<1>3. DialerOutlives'
  BY BecomesFacts, PollTypeFacts, DialerKept DEF PollInv
<1> QED
  BY <1>1, <1>2, <1>3, CalledFdMoves DEF PollInv

LEMMA ConnCbKeeps ==
  ASSUME PollInv, Assumed, Returns, NEW d \in Conns, poller.cur.fd = d, poller.cur.cb = "conn",
         Posix!ConnCb(d, poller.cur.mask), UNCHANGED <<dialer, pollq, panicked>>
  PROVE  PollInv'
<1> DEFINE mask == poller.cur.mask
<1>1. PollTypeOK /\ ConnOK(poller, pollq, d, pfd[d], conn[d]) /\ pfd[d] \in Pfd /\ d \in Fds
      /\ conn[d] \in Conn /\ data[d] \in SUBSET Kinds /\ mask \in SUBSET {"in", "out", "err"}
  BY PollTypeFacts DEF PollInv, FdsOK, Poller, Taken
<1>2. poller'.cur.fd # d /\ Has(poller', d) = Has(poller, d)
  BY <1>1, ReturnsFacts
<1>3. conn[d].st \notin {"none", "open", "dialing"} /\ ~pfd[d].closed
  BY <1>1 DEF ConnOK, Life, Shut
<1>4. /\ UNCHANGED <<link, acceptaio, reaper>> /\ data \in [Fds -> SUBSET Kinds]
      /\ dialaio' \in [DialConns -> {"idle", "pending", "ok", "error"}]
  BY <1>1 DEF Posix!ConnCb, PollTypeOK
<1>5. CASE "err" \in mask
  <2> DEFINE p == Posix!PfdClose(pfd[d])
             k == Posix!Ended(conn[d])
  <2>1. Becomes(d, p, k) /\ data' = data
    BY <1>1, <1>5, PollTypeFacts DEF Becomes, Posix!ConnCb
  <2>2. k \in Conn /\ k.st = conn[d].st /\ k.closed = conn[d].closed
        /\ k.in = "idle" /\ k.out = "idle"
    BY <1>1 DEF Conn, Posix!Ended
  <2>3. p \in Pfd /\ p.closing /\ p.closed = pfd[d].closed /\ p.cb = pfd[d].cb
    BY <1>1, PfdFacts DEF Assumed
  <2> HIDE DEF p, k
  <2>4. ConnOK(poller', pollq, d, p, k)
    BY <1>1, <1>2, <1>3, <2>2, <2>3 DEF ConnOK, Shut, Wakes, Life
  <2> QED
    BY <1>3, <1>4, <2>1, <2>2, <2>3, <2>4, CalledMoves
<1>6. CASE "err" \notin mask /\ conn[d].closed
  <2>1. Becomes(d, pfd[d], conn[d]) /\ data' = data
    BY <1>1, <1>6, PollTypeFacts DEF Becomes, Posix!ConnCb
  <2>2. ConnOK(poller', pollq, d, pfd[d], conn[d])
    BY <1>1, <1>2, <1>3, <1>6 DEF ConnOK, Shut, Wakes, Life
  <2> QED
    BY <1>1, <1>3, <1>4, <2>1, <2>2, CalledMoves
<1>7. CASE "err" \notin mask /\ ~conn[d].closed
  <2> DEFINE k == Posix!Tried(d, mask)
             rest == Pending(k)
             p == IF rest = {} THEN pfd[d] ELSE Posix!Arm(pfd[d], rest)
  <2>1. conn' = [conn EXCEPT ![d] = k]
        /\ pfd' = (IF rest = {} THEN pfd ELSE [pfd EXCEPT ![d] = Posix!Arm(pfd[d], rest)])
        /\ Posix!UsesUp(d, {o \in mask : conn[d][o] = "pending"})
    BY <1>7, SameNames DEF Posix!ConnCb
  <2>2. k \in Conn /\ k.st = conn[d].st /\ k.closed = conn[d].closed
        /\ (conn[d].in = "idle" => k.in = "idle") /\ (conn[d].out = "idle" => k.out = "idle")
    BY <1>1 DEF Conn, Posix!Tried
  <2>3. rest \in SUBSET Kinds
    BY DEF Pending
  <2> HIDE DEF k
  <2>4. p \in Pfd /\ p.closing = pfd[d].closing /\ p.closed = pfd[d].closed /\ p.cb = pfd[d].cb
        /\ (~p.closing => rest \subseteq p.events /\ rest \subseteq p.armed)
    BY <1>1, <2>3, PfdFacts DEF Assumed
  <2>5. Becomes(d, p, k)
    BY <1>1, <2>1, PollTypeFacts DEF Becomes
  <2>6. data' \in [Fds -> SUBSET Kinds]
    <3>1. PICK left \in SUBSET Kinds : data' = [data EXCEPT ![d] = left]
      BY <1>1, <2>1 DEF Posix!UsesUp
    <3> QED
      BY <1>1, <3>1, PollTypeFacts
  <2>7. WaitsOf(k) = rest
    BY <1>3, <2>2 DEF WaitsOf
  <2> HIDE DEF rest, p
  <2>8. ConnOK(poller', pollq, d, p, k)
    BY <1>1, <1>2, <1>3, <2>2, <2>4, <2>7 DEF ConnOK, Shut, Wakes, Life
  <2> QED
    BY <1>4, <2>2, <2>4, <2>5, <2>6, <2>8, CalledMoves
<1> QED
  BY <1>5, <1>6, <1>7

LEMMA DialCbKeeps ==
  ASSUME PollInv, Assumed, Returns, NEW d \in DialConns, poller.cur.fd = d, poller.cur.cb = "dial",
         Posix!DialCb(d), UNCHANGED <<dialer, pollq, panicked>>
  PROVE  PollInv'
<1>1. PollTypeOK /\ ConnOK(poller, pollq, d, pfd[d], conn[d]) /\ pfd[d] \in Pfd /\ d \in Conns
      /\ d \in Fds /\ conn[d] \in Conn
  BY PollTypeFacts DEF PollInv, FdsOK
<1>2. poller'.cur.fd # d /\ Has(poller', d) = Has(poller, d)
  BY <1>1, ReturnsFacts
<1>3. conn[d].st # "none" /\ ~pfd[d].closed
  BY <1>1 DEF ConnOK, Life, Shut
<1>4. CASE /\ conn[d].st # "dialing"
           /\ UNCHANGED <<link, data, pfd, conn, dialaio, acceptaio, reaper>>
  <2>1. Becomes(d, pfd[d], conn[d])
    BY <1>1, <1>4, PollTypeFacts DEF Becomes
  <2>2. ConnOK(poller', pollq, d, pfd[d], conn[d])
    BY <1>1, <1>2, <1>3, <1>4 DEF ConnOK, Shut, Wakes, Looks, Life
  <2> QED
    BY <1>1, <1>4, <2>1, <2>2, CalledMoves DEF PollTypeOK
<1>5. CASE /\ conn[d].st = "dialing"
           /\ conn' = [conn EXCEPT ![d].st = "dead", ![d].closed = TRUE]
           /\ pfd' = [pfd EXCEPT ![d] = Posix!PfdClose(@)]
           /\ dialaio' = [dialaio EXCEPT ![d] = "error"]
           /\ Posix!ToReaper(d)
           /\ UNCHANGED <<link, data, acceptaio>>
  <2> DEFINE p == Posix!PfdClose(pfd[d])
             k == [conn[d] EXCEPT !.st = "dead", !.closed = TRUE]
  <2>1. Becomes(d, p, k)
    BY <1>1, <1>5, PollTypeFacts DEF Becomes
  <2>2. k \in Conn /\ k.st = "dead" /\ k.in = "idle" /\ k.out = "idle"
    BY <1>1, <1>5 DEF Conn, ConnOK, Life
  <2>3. p \in Pfd /\ p.closing /\ p.closed = pfd[d].closed /\ p.cb = pfd[d].cb
    BY <1>1, PfdFacts DEF Assumed
  <2> HIDE DEF p, k
  <2>4. ConnOK(poller', pollq, d, p, k)
    BY <1>1, <1>2, <1>3, <2>2, <2>3 DEF ConnOK, Shut, Wakes, Life
  <2>5. dialaio' \in [DialConns -> {"idle", "pending", "ok", "error"}]
    BY <1>1, <1>5 DEF PollTypeOK
  <2> QED
    BY <1>1, <1>5, <2>1, <2>2, <2>3, <2>4, <2>5, CalledDies
<1>6. CASE /\ conn[d].st = "dialing"
           /\ conn' = [conn EXCEPT ![d].st = "up"]
           /\ pfd' = [pfd EXCEPT ![d].cb = "conn"]
           /\ dialaio' = [dialaio EXCEPT ![d] = "ok"]
           /\ UNCHANGED <<link, data, acceptaio, reaper>>
  <2> DEFINE p == [pfd[d] EXCEPT !.cb = "conn"]
             k == [conn[d] EXCEPT !.st = "up"]
  <2>1. Becomes(d, p, k)
    BY <1>1, <1>6, PollTypeFacts DEF Becomes
  <2>2. k \in Conn /\ k.st = "up" /\ k.closed = conn[d].closed /\ k.in = "idle" /\ k.out = "idle"
    BY <1>1, <1>6 DEF Conn, ConnOK, Life
  <2>3. p \in Pfd /\ p.closing = pfd[d].closing /\ p.closed = pfd[d].closed /\ p.cb = "conn"
        /\ p.events = pfd[d].events /\ p.armed = pfd[d].armed
    BY <1>1 DEF Pfd
  <2> HIDE DEF p, k
  <2>4. ConnOK(poller', pollq, d, p, k)
    BY <1>1, <1>2, <1>3, <2>2, <2>3 DEF ConnOK, Shut, Wakes, WaitsOf, Pending, Kinds, Life
  <2>5. dialaio' \in [DialConns -> {"idle", "pending", "ok", "error"}]
    BY <1>1, <1>6 DEF PollTypeOK
  <2> QED
    BY <1>1, <1>6, <2>1, <2>2, <2>3, <2>4, <2>5, CalledMoves DEF PollTypeOK
<1> QED
  BY <1>4, <1>5, <1>6 DEF Posix!DialCb

LEMMA ListenCbKeeps ==
  ASSUME PollInv, Assumed, Returns, NEW l \in Listener, poller.cur.fd = l,
         Posix!ListenCb(l), UNCHANGED <<dialer, pollq, panicked>>
  PROVE  PollInv'
<1>1. PollTypeOK /\ FdsOK /\ l \in Fds /\ \A m \in Listener : m = l
  BY PollTypeFacts DEF PollInv, Assumed
<1>2. /\ link' \in [Fds -> {"none", "new", "connecting", "up", "failed"}]
      /\ data' \in [Fds -> SUBSET Kinds] /\ pfd' \in [Fds -> Pfd] /\ conn' \in [Conns -> Conn]
      /\ acceptaio' \in {"idle", "pending"} /\ FdsOK'
      /\ \A c \in DialConns : conn'[c] = conn[c]
      /\ \A c \in Conns : conn[c].st = "dead" => conn'[c].st = "dead"
  <2>1. CASE acceptaio = "pending"
    BY <2>1, DoAcceptKeeps DEF Posix!ListenCb
  <2>2. CASE acceptaio # "pending"
    <3>1. UNCHANGED <<link, data, pfd, conn, acceptaio>>
      BY <2>2 DEF Posix!ListenCb
    <3>2. ASSUME NEW c \in Conns PROVE ConnOK(poller', pollq', c, pfd'[c], conn'[c])
      BY <1>1, <3>1, AwayFromReturn, PollTypeFacts DEF FdsOK, Assumed
    <3>3. ListenOK(poller', pollq', l, pfd'[l], acceptaio')
      BY <1>1, <2>2, <3>1, ReturnsFacts DEF FdsOK, ListenOK, Shut, Wakes
    <3>4. FdsOK'
      BY <1>1, <3>2, <3>3 DEF FdsOK
    <3> QED
      BY <1>1, <3>1, <3>4, PollTypeFacts DEF PollTypeOK
  <2> QED
    BY <2>1, <2>2
<1>3. UNCHANGED <<dialaio, reaper>>
  BY DEF Posix!ListenCb
<1>4. PollTypeOK'
  BY <1>1, <1>2, <1>3, ReturnsFacts, PollTypeFacts, PollTypeParts
<1>5. CurrentOK' /\ ReapingOK' /\ DialerOutlives'
  BY <1>1, <1>2, <1>3, ReturnsFacts, ReapingKept, DialerKept DEF PollInv, CurrentOK
<1> QED
  BY <1>2, <1>4, <1>5 DEF PollInv

LEMMA CallbackKeeps ==
  ASSUME PollInv, Assumed, Posix!Callback PROVE PollInv'
<1>1. poller.cur # Posix!NoFd /\ Returns /\ UNCHANGED <<dialer, pollq, panicked>>
  BY DEF Posix!Callback, Posix!Returned, Returns
<1>2. CASE poller.cur.fd \in Conns /\ poller.cur.cb = "conn"
  <2>1. Posix!ConnCb(poller.cur.fd, poller.cur.mask)
    BY <1>2 DEF Posix!Callback
  <2> QED
    BY <1>1, <1>2, <2>1, ConnCbKeeps
<1>3. CASE poller.cur.fd \in DialConns /\ poller.cur.cb = "dial"
  <2>1. Posix!DialCb(poller.cur.fd)
    BY <1>3 DEF Posix!Callback
  <2> QED
    BY <1>1, <1>3, <2>1, DialCbKeeps
<1>4. CASE poller.cur.fd \in Listener /\ poller.cur.cb = "listen"
  <2>1. Posix!ListenCb(poller.cur.fd)
    BY <1>4 DEF Posix!Callback
  <2> QED
    BY <1>1, <1>4, <2>1, ListenCbKeeps
<1> QED
  BY <1>1, <1>2, <1>3, <1>4 DEF PollInv, CurrentOK

-----------------------------------------------------------------------------
(* The reaper.                                                             *)

LEMMA HeadReaped ==
  ASSUME PollTypeOK, ReapingOK, reaper.list # <<>>
  PROVE  LET c == Head(reaper.list)
         IN /\ c \in Conns /\ conn[c].st = "dead" /\ reaper \in [list : Seq(Conns), waits : BOOLEAN]
            /\ Tail(reaper.list) \in Seq(Conns) /\ Once(Tail(reaper.list))
            /\ \A i \in DOMAIN Tail(reaper.list) :
                 /\ Tail(reaper.list)[i] # c /\ Tail(reaper.list)[i] \in Conns
                 /\ conn[Tail(reaper.list)[i]].st = "dead"
<1> DEFINE s == reaper.list
           c == Head(reaper.list)
           t == Tail(reaper.list)
<1>1. s \in Seq(Conns) /\ reaper \in [list : Seq(Conns), waits : BOOLEAN]
  BY DEF PollTypeOK
<1>2. /\ t \in Seq(Conns) /\ c \in Conns /\ c = s[1] /\ Len(t) = Len(s) - 1
      /\ Len(s) \in Nat \ {0} /\ \A i \in 1..Len(t) : t[i] = s[i + 1]
  BY <1>1, HeadTailProperties, EmptySeq, LenProperties
<1>3. DOMAIN s = 1..Len(s) /\ DOMAIN t = 1..(Len(s) - 1)
  BY <1>1, <1>2, LenProperties
<1>4. Once(s) /\ \A i \in DOMAIN s : conn[s[i]].st = "dead" /\ s[i] \in Conns
  BY <1>1, <1>3, ElementOfSeq DEF ReapingOK
<1> HIDE DEF s, t, c
<1>5. \A i \in DOMAIN t : i + 1 \in DOMAIN s /\ 1 \in DOMAIN s /\ i + 1 # 1 /\ t[i] = s[i + 1]
  BY <1>2, <1>3
<1>6. Once(t)
  BY <1>3, <1>4, <1>5 DEF Once
<1>7. \A i \in DOMAIN t : t[i] # c /\ conn[t[i]].st = "dead" /\ t[i] \in Conns
  BY <1>2, <1>4, <1>5 DEF Once
<1>8. conn[c].st = "dead"
  BY <1>2, <1>3, <1>4
<1> QED
  BY <1>1, <1>2, <1>6, <1>7, <1>8 DEF s, t, c

LEMMA FiniBeginKeeps ==
  ASSUME PollInv, Assumed, Posix!FiniBegin PROVE PollInv'
<1> DEFINE d == Head(reaper.list)
           p == Posix!PfdClose(pfd[d])
           k == [conn[d] EXCEPT !.closed = TRUE]
<1>1. /\ PollTypeOK /\ FdsOK /\ d \in Conns /\ conn[d].st = "dead" /\ reaper.list # <<>>
      /\ reaper \in [list : Seq(Conns), waits : BOOLEAN]
      /\ conn[d] \in Conn /\ pfd[d] \in Pfd /\ ConnOK(poller, pollq, d, pfd[d], conn[d])
      /\ pollq \in Pollq
  BY HeadReaped, PollTypeFacts DEF PollInv, FdsOK, Posix!FiniBegin
<1>2. /\ Becomes(d, p, k)
      /\ pollq' = [reapq |-> pollq.reapq \cup {d}, evfd |-> TRUE]
      /\ reaper' = [reaper EXCEPT !.waits = TRUE]
      /\ UNCHANGED <<link, data, dialaio, acceptaio, dialer, poller, panicked>>
  BY <1>1, PollTypeFacts DEF Becomes, Posix!FiniBegin
<1>3. k \in Conn /\ k.st = "dead" /\ k.in = "idle" /\ k.out = "idle"
  BY <1>1 DEF Conn, ConnOK, Life
<1>4. p \in Pfd /\ p.closing /\ p.closed = pfd[d].closed /\ p.cb = pfd[d].cb
  BY <1>1, PfdFacts DEF Assumed
<1> HIDE DEF d, p, k
<1>5. pollq' \in Pollq /\ pollq'.reapq = pollq.reapq \cup {d}
  BY <1>1, <1>2 DEF Pollq
<1>6. reaper' \in [list : Seq(Conns), waits : BOOLEAN] /\ reaper'.list = reaper.list
  BY <1>1, <1>2
<1>7. PollTypeOK'
  BY <1>1, <1>2, <1>3, <1>4, <1>5, <1>6, BecomesFacts, PollTypeFacts, PollTypeParts
<1>8. ASSUME NEW c \in Conns PROVE ConnOK(poller', pollq', c, pfd'[c], conn'[c])
  <2>1. CASE c = d
    <3>1. pfd'[d] = p /\ conn'[d] = k
      BY <1>1, <1>2, <1>3, <1>4, BecomesFacts
    <3>2. ConnOK(poller', pollq', d, p, k)
      BY <1>1, <1>2, <1>3, <1>4 DEF ConnOK, Shut, Wakes, Life
    <3> QED
      BY <2>1, <3>1, <3>2
  <2>2. CASE c # d
    <3>1. pfd'[c] = pfd[c] /\ conn'[c] = conn[c]
      BY <1>1, <1>2, <1>3, <1>4, <2>2, BecomesFacts, PollTypeFacts
    <3>2. ConnOK(poller, pollq, c, pfd[c], conn[c])
      BY <1>1 DEF FdsOK
    <3> QED
      BY <1>2, <1>5, <2>2, <3>1, <3>2 DEF ConnOK, Shut
  <2> QED
    BY <2>1, <2>2
<1>9. ASSUME NEW l \in Listener PROVE ListenOK(poller', pollq', l, pfd'[l], acceptaio')
  <2>1. l # d /\ l \in Fds
    BY <1>1, PollTypeFacts DEF Assumed
  <2>2. pfd'[l] = pfd[l]
    BY <1>1, <1>2, <1>3, <1>4, <2>1, BecomesFacts
  <2>3. ListenOK(poller, pollq, l, pfd[l], acceptaio)
    BY <1>1 DEF FdsOK
  <2> QED
    BY <1>2, <1>5, <2>1, <2>2, <2>3 DEF ListenOK, Shut
<1>10. \A c \in Conns : conn'[c].st = conn[c].st
  BY <1>1, <1>2, <1>3, <1>4, BecomesFacts
<1>11. CurrentOK' /\ DialerOutlives'
  BY <1>1, <1>2, <1>10, PollTypeFacts, DialerKept DEF PollInv, CurrentOK
<1>12. ReapingOK'
  <2>1. \A i \in DOMAIN reaper.list : reaper.list[i] \in Conns
    BY <1>1, ElementOfSeq
  <2> QED
    BY <1>1, <1>6, <1>10, <2>1 DEF PollInv, ReapingOK
<1> QED
  BY <1>7, <1>8, <1>9, <1>11, <1>12 DEF PollInv, FdsOK

LEMMA FiniEndKeeps ==
  ASSUME PollInv, Assumed, Posix!FiniEnd PROVE PollInv'
<1> DEFINE d == Head(reaper.list)
           k == [conn[d] EXCEPT !.st = "gone"]
           t == Tail(reaper.list)
<1>1. /\ PollTypeOK /\ FdsOK /\ d \in Conns /\ conn[d].st = "dead"
      /\ t \in Seq(Conns) /\ Once(t)
      /\ \A i \in DOMAIN t : t[i] # d /\ t[i] \in Conns /\ conn[t[i]].st = "dead"
      /\ conn[d] \in Conn /\ pfd[d] \in Pfd /\ ConnOK(poller, pollq, d, pfd[d], conn[d])
      /\ dialer \in Dialer
  BY HeadReaped, PollTypeFacts DEF PollInv, FdsOK, ReapingOK, Posix!FiniEnd
<1>2. /\ Becomes(d, pfd[d], k) /\ pfd[d].closed
      /\ dialer' = (IF d \in DialConns THEN Posix!Reled(dialer) ELSE dialer)
      /\ reaper' = [list |-> t, waits |-> FALSE]
      /\ UNCHANGED <<link, data, dialaio, acceptaio, pollq, poller, panicked>>
  BY <1>1, PollTypeFacts DEF Becomes, Posix!FiniEnd
<1>3. k \in Conn /\ k.st = "gone" /\ k.closed = conn[d].closed /\ k.in = "idle" /\ k.out = "idle"
  BY <1>1 DEF Conn, ConnOK, Life
<1> HIDE DEF d, k, t
<1>4. ConnOK(poller, pollq, d, pfd[d], k)
  BY <1>1, <1>2, <1>3 DEF ConnOK, Shut, Wakes, Looks, WaitsOf, Pending, Kinds, Life
<1>5. FdsOK'
  BY <1>1, <1>2, <1>3, <1>4, OneFdMoves DEF Assumed
<1>6. conn'[d] = k /\ conn' \in [Conns -> Conn] /\ pfd' \in [Fds -> Pfd]
      /\ \A c \in Conns \ {d} : conn'[c] = conn[c]
  BY <1>1, <1>2, <1>3, BecomesFacts
<1>7. ReapingOK' /\ reaper' \in [list : Seq(Conns), waits : BOOLEAN]
  BY <1>1, <1>2, <1>6 DEF ReapingOK
<1>8. /\ dialer.ref = Cardinality(Alive) + (IF dialer.fini THEN 0 ELSE 1)
      /\ dialer.freed <=> dialer.ref = 0
      /\ IsFiniteSet(Alive) /\ Cardinality(Alive) \in Nat
  BY AliveFinite DEF PollInv, DialerOutlives, Alive
<1>9. dialer' \in Dialer /\ DialerOutlives'
  <2>1. CASE d \notin DialConns
    <3>1. dialer' = dialer
      BY <1>2, <2>1
    <3>2. \A c \in DialConns : conn'[c].st \in {"none", "gone"} <=> conn[c].st \in {"none", "gone"}
      BY <1>1, <1>6, <2>1, PollTypeFacts
    <3> QED
      BY <1>1, <3>1, <3>2, DialerKept DEF PollInv
  <2>2. CASE d \in DialConns
    <3>1. Alive' = Alive \ {d} /\ d \in Alive
      BY <1>1, <1>3, <1>6, <2>2, PollTypeFacts DEF Alive
    <3>2. Cardinality(Alive') = Cardinality(Alive) - 1
      BY <1>8, <3>1, FS_RemoveElement
    <3>3. Cardinality(Alive) # 0
      BY <1>8, <3>1, FS_EmptySet
    <3>4. dialer.ref >= 1 /\ (dialer.ref = 1 => dialer.fini)
      BY <1>8, <3>3
    <3>5. /\ dialer' \in Dialer /\ dialer'.ref = dialer.ref - 1 /\ dialer'.fini = dialer.fini
          /\ dialer'.freed <=> dialer.fini /\ dialer.ref = 1
      BY <1>1, <1>2, <2>2, <3>4, ReledFacts
    <3>6. dialer'.freed <=> dialer'.ref = 0
      BY <1>1, <3>4, <3>5 DEF Dialer
    <3>7. dialer'.ref = Cardinality(Alive') + (IF dialer'.fini THEN 0 ELSE 1)
      BY <1>8, <3>2, <3>5
    <3> QED
      BY <3>5, <3>6, <3>7 DEF DialerOutlives, Alive
  <2> QED
    BY <2>1, <2>2
<1>10. PollTypeOK'
  BY <1>1, <1>2, <1>6, <1>7, <1>9, PollTypeFacts, PollTypeParts
<1>11. CurrentOK'
  BY <1>2 DEF PollInv, CurrentOK
<1> QED
  BY <1>5, <1>7, <1>9, <1>10, <1>11 DEF PollInv

-----------------------------------------------------------------------------
(* The kernel, and all steps.                                              *)

LEMMA KernelKeeps ==
  ASSUME PollInv, Assumed, NEW d \in Fds,
         (d \in Conns /\ Posix!ConnectDone(d)) \/ Posix!Peer(d)
  PROVE  PollInv'
<1>1. UNCHANGED <<pfd, conn, dialaio, acceptaio, dialer, reaper, pollq, poller, panicked>>
  BY DEF Posix!ConnectDone, Posix!Peer
<1>2. /\ link' \in [Fds -> {"none", "new", "connecting", "up", "failed"}]
      /\ data' \in [Fds -> SUBSET Kinds]
  <2>1. CASE Posix!ConnectDone(d)
    BY <2>1 DEF PollInv, PollTypeOK, Assumed, Posix!ConnectDone
  <2>2. CASE Posix!Peer(d)
    <3>1. link' = link \/ link' = [link EXCEPT ![d] = "failed"]
      BY <2>2 DEF Posix!Peer
    <3>2. data' = data \/ \E o \in Kinds : data' = [data EXCEPT ![d] = @ \cup {o}]
      BY <2>2 DEF Posix!Peer, Assumed, Kinds
    <3>3. link \in [Fds -> {"none", "new", "connecting", "up", "failed"}]
          /\ data \in [Fds -> SUBSET Kinds]
      BY DEF PollInv, PollTypeOK
    <3>4. link' \in [Fds -> {"none", "new", "connecting", "up", "failed"}]
      BY <3>1, <3>3
    <3>5. \A o \in Kinds : data[d] \cup {o} \in SUBSET Kinds
      BY <3>3
    <3>6. data' \in [Fds -> SUBSET Kinds]
      BY <3>2, <3>3, <3>5
    <3> QED
      BY <3>4, <3>6
  <2> QED
    BY <2>1, <2>2
<1>3. PollTypeOK'
  BY <1>1, <1>2, PollTypeFacts, PollTypeParts DEF PollInv
<1>4. FdsOK' /\ CurrentOK' /\ ReapingOK'
  BY <1>1 DEF PollInv, FdsOK, CurrentOK, ReapingOK
<1>5. DialerOutlives'
  BY <1>1, DialerKept DEF PollInv
<1> QED
  BY <1>3, <1>4, <1>5 DEF PollInv

LEMMA PollInvInit ==
  ASSUME Assumed, Posix!Init PROVE PollInv
<1>1. /\ Posix!Quiet \in Pfd /\ [Posix!Quiet EXCEPT !.cb = "listen"] \in Pfd
      /\ Posix!NoConn \in Conn /\ Posix!NoFd \in Taken
  BY DEF Posix!Quiet, Posix!NoConn, Posix!NoFd, Pfd, Conn, Taken
<1>2. /\ link = [c \in Fds |-> IF c \in Listener THEN "up" ELSE "none"]
      /\ data = [c \in Fds |-> {}]
      /\ pfd = [c \in Fds |-> IF c \in Listener THEN [Posix!Quiet EXCEPT !.cb = "listen"]
                              ELSE Posix!Quiet]
      /\ conn = [c \in Conns |-> Posix!NoConn]
      /\ dialaio = [c \in DialConns |-> "idle"] /\ acceptaio = "idle"
      /\ dialer = [closed |-> FALSE, fini |-> FALSE, ref |-> 1, freed |-> FALSE]
      /\ reaper = [list |-> <<>>, waits |-> FALSE]
      /\ pollq = [reapq |-> {}, evfd |-> FALSE]
      /\ poller = [batch |-> <<>>, cur |-> Posix!NoFd, reap |-> FALSE]
      /\ panicked = FALSE
  BY SameNames DEF Posix!Init
<1>3. PollTypeOK
  <2>1. pfd \in [Fds -> Pfd] /\ conn \in [Conns -> Conn]
    BY <1>1, <1>2
  <2>2. poller \in Poller
    BY <1>1, <1>2 DEF Poller, Batch
  <2>3. /\ link \in [Fds -> {"none", "new", "connecting", "up", "failed"}]
        /\ data \in [Fds -> SUBSET Kinds]
    BY <1>2
  <2>4. dialer \in Dialer /\ reaper \in [list : Seq(Conns), waits : BOOLEAN] /\ pollq \in Pollq
    BY <1>2 DEF Dialer, Pollq
  <2>5. /\ dialaio \in [DialConns -> {"idle", "pending", "ok", "error"}]
        /\ acceptaio \in {"idle", "pending"} /\ panicked \in BOOLEAN
    BY <1>2
  <2> QED
    BY <2>1, <2>2, <2>3, <2>4, <2>5
       DEF PollTypeOK, Pfd, Conn, Poller, Batch, Taken, Dialer, Pollq
<1>4. \A c \in Fds : ~Has(poller, c) /\ poller.cur.fd # c
  BY <1>2 DEF Has, Posix!NoFd, Assumed
<1>5. ASSUME NEW c \in Conns PROVE ConnOK(poller, pollq, c, pfd[c], conn[c])
  <2>1. pfd[c] = Posix!Quiet /\ conn[c] = Posix!NoConn /\ c \in Fds
    BY <1>2 DEF Fds, Assumed
  <2>2. /\ pfd[c].events = {} /\ pfd[c].armed = {} /\ ~pfd[c].closing /\ ~pfd[c].closed
        /\ conn[c].st = "none" /\ ~conn[c].closed
        /\ conn[c].in = "idle" /\ conn[c].out = "idle" /\ pollq.reapq = {}
    BY <1>2, <2>1 DEF Posix!Quiet, Posix!NoConn
  <2>3. WaitsOf(conn[c]) = {}
    BY <2>2 DEF WaitsOf, Pending, Kinds
  <2> QED
    BY <1>4, <2>1, <2>2, <2>3 DEF ConnOK, Shut, Wakes, Life
<1>6. ASSUME NEW l \in Listener PROVE ListenOK(poller, pollq, l, pfd[l], acceptaio)
  <2>1. pfd[l] = [Posix!Quiet EXCEPT !.cb = "listen"] /\ l \in Fds
    BY <1>2 DEF Fds
  <2> QED
    BY <1>2, <1>4, <2>1 DEF ListenOK, Shut, Wakes, Posix!Quiet
<1>7. CurrentOK /\ ReapingOK
  BY <1>2 DEF CurrentOK, ReapingOK, Once
<1>8. DialerOutlives
  <2>1. Alive = {}
    BY <1>2 DEF Alive, Posix!NoConn, Conns
  <2>2. Cardinality(Alive) = 0
    BY <2>1, FS_EmptySet
  <2> QED
    BY <1>2, <2>2 DEF DialerOutlives, Alive
<1> QED
  BY <1>3, <1>5, <1>6, <1>7, <1>8 DEF PollInv, FdsOK

LEMMA PollInvNext ==
  ASSUME PollInv, Assumed, [Posix!Next]_pollVars PROVE PollInv'
<1>1. ASSUME UNCHANGED pollVars PROVE PollInv'
  <2>1. PollTypeOK'
    BY <1>1, PollTypeFacts, PollTypeParts DEF PollInv, pollVars
  <2>2. FdsOK' /\ CurrentOK' /\ ReapingOK'
    BY <1>1 DEF PollInv, FdsOK, CurrentOK, ReapingOK, pollVars
  <2>3. DialerOutlives'
    BY <1>1, DialerKept DEF PollInv, pollVars
  <2> QED
    BY <2>1, <2>2, <2>3 DEF PollInv
<1>2. ASSUME Posix!Users PROVE PollInv'
  <2>1. ASSUME NEW d \in Conns,
               \/ \E o \in Ops : Posix!Submit(d, o) \/ Posix!Cancel(d, o)
               \/ Posix!Close(d) \/ Posix!Free(d)
        PROVE  PollInv'
    BY <2>1, SubmitKeeps, CancelKeeps, CloseKeeps, FreeKeeps
  <2>2. ASSUME NEW d \in DialConns,
               \/ Posix!DialOpen(d) \/ Posix!DialNoFd(d) \/ Posix!DialFails(d)
               \/ Posix!DialStart(d) \/ Posix!DialAtOnce(d) \/ Posix!DialCancel(d)
        PROVE  PollInv'
    BY <2>2, DialOpenKeeps, DialNoFdKeeps, DialEndsKeeps, DialStartKeeps, DialAtOnceKeeps
  <2>3. ASSUME NEW l \in Listener, Posix!Accept(l) \/ Posix!ListenerClose(l)
        PROVE  PollInv'
    BY <2>3, AcceptKeeps, ListenerCloseKeeps
  <2> QED
    BY <1>2, <2>1, <2>2, <2>3, DialerCloseKeeps, DialerFiniKeeps, SameNames DEF Posix!Users
<1>3. ASSUME Posix!PollThread \/ Posix!Reaper PROVE PollInv'
  BY <1>3, PollKeeps, TakeWakerKeeps, TakeKeeps, CallbackKeeps, PollReapKeeps,
     FiniBeginKeeps, FiniEndKeeps DEF Posix!PollThread, Posix!Reaper
<1>4. ASSUME NEW d \in Fds, (d \in Conns /\ Posix!ConnectDone(d)) \/ Posix!Peer(d) PROVE PollInv'
  BY <1>4, KernelKeeps
<1>5. \A d \in Conns : d \in Fds
  BY DEF Fds
<1> QED
  BY <1>1, <1>2, <1>3, <1>4, <1>5, SameNames DEF Posix!Next

(* What the invariant says of who waits.                                   *)
LEMMA PollInvSound ==
  ASSUME PollInv, Assumed PROVE PollSound
<1>1. \A c \in Fds : InFlight(c) <=> (poller.cur.fd = c \/ Has(poller, c))
  BY DEF InFlight, Has
<1>2. PfdOutlives
  <2> SUFFICES ASSUME NEW c \in Conns, InFlight(c), conn[c].st = "gone" PROVE FALSE
    BY DEF PfdOutlives
  <2>1. ConnOK(poller, pollq, c, pfd[c], conn[c]) /\ c \in Fds
    BY DEF PollInv, FdsOK, Fds
  <2> QED
    BY <1>1, <2>1 DEF ConnOK, Life, Shut
<1>3. WaitIsArmed
  <2> SUFFICES ASSUME NEW c \in Fds, ~pfd[c].closing, ~InFlight(c)
               PROVE  Waits(c) \subseteq pfd[c].armed
    BY DEF WaitIsArmed
  <2>1. CASE c \in Conns
    <3>1. ConnOK(poller, pollq, c, pfd[c], conn[c]) /\ c \notin Listener
      BY <2>1 DEF PollInv, FdsOK, Assumed
    <3>2. Waits(c) = WaitsOf(conn[c])
      BY <3>1 DEF Waits, WaitsOf
    <3> QED
      BY <1>1, <3>1, <3>2 DEF ConnOK, Wakes, Looks
  <2>2. CASE c \in Listener
    <3>1. ListenOK(poller, pollq, c, pfd[c], acceptaio)
      BY <2>2 DEF PollInv, FdsOK
    <3> QED
      BY <1>1, <2>2, <3>1 DEF ListenOK, Wakes, Waits
  <2> QED
    BY <2>1, <2>2 DEF Fds
<1> QED
  BY <1>2, <1>3 DEF PollInv, PollSound

(* PollSound of PollQueue for any number of connections and any interleaving: *)
(* nni_posix_pfd_fini and the poller never leave the poller with a descriptor *)
(* that is freed, what waits for a descriptor is armed or looked at, and the  *)
(* dialer is freed after the connections that call it.                        *)
THEOREM PollIsSound == Posix!PollAssumption => (Posix!Spec => []PollSound)
<1> SUFFICES ASSUME Posix!PollAssumption PROVE Posix!Spec => []PollSound
  OBVIOUS
<1>1. Assumed
  BY SameNames
<1>2. Posix!Init => PollInv
  BY <1>1, PollInvInit
<1>3. PollInv /\ [Posix!Next]_pollVars => PollInv'
  BY <1>1, PollInvNext
<1>4. PollInv => PollSound
  BY <1>1, PollInvSound
<1>5. Posix!Spec => Posix!Init /\ [][Posix!Next]_pollVars
  BY DEF Posix!Spec, Posix!pollVars, pollVars
<1> QED
  BY <1>2, <1>3, <1>4, <1>5, PTL

===============================================================================
