-------------------------------- MODULE AioState --------------------------------
(***************************************************************************)
(* The aios that share an expiration queue of nng, and what is promised    *)
(* about them.  NniAio says how core/aio.c and core/taskq.c keep it.       *)
(***************************************************************************)
EXTENDS Integers, Sequences, FiniteSets

CONSTANTS
  Aios,      \* aios that share an expiration queue
  MaxOps,    \* bound: operations started on each
  MaxAborts  \* bound: calls of nni_aio_abort

VARIABLES
  a_stop,       \* no more operations
  a_cancel_fn,  \* there is a cancel function
  a_expire,     \* "never", "later" or "past"
  a_expiring,   \* held by the expiration thread
  eq_list,      \* the aios with a deadline that nobody has taken yet
  batch,        \* those the expiration thread has taken
  expirer,      \* "idle", or "called" the cancel function of the first
  task_busy,
  task_prep,
  tq_tasks,     \* the task queue
  running,      \* callbacks in progress
  owned,        \* the consumer may start an operation
  begun,        \* nni_aio_begin done, nni_aio_schedule not yet
  listed,       \* on the provider's list (or a_sleep)
  finishing,    \* where the thread that completes the operation is
  cancelling,   \* who is about to call a cancel function it has taken
  stopper,      \* the thread in nni_aio_stop
  freer,        \* the thread in nni_aio_fini
  \* history
  ops,          \* operations begun
  calls,        \* callbacks begun
  aborts,
  refused,      \* nni_aio_schedule said no
  ended         \* how the last operation ended

-----------------------------------------------------------------------------
(* Properties.                                                             *)

Callers == {"expire", "abort", "stop", "fini"}

(* The types of the variables.                                             *)
AioTypeOK ==
  /\ {a_stop, a_cancel_fn, a_expiring, task_prep, owned, begun, listed, refused}
       \subseteq [Aios -> BOOLEAN]
  /\ a_expire \in [Aios -> {"never", "later", "past"}]
  /\ eq_list \subseteq Aios
  /\ batch \in Seq(Aios) /\ tq_tasks \in Seq(Aios)
  /\ expirer \in {"idle", "called"}
  /\ {task_busy, running, ops, calls} \subseteq [Aios -> Nat]
  /\ finishing \in [Aios -> {"no", "finish", "dispatch", "queue"}]
  /\ cancelling \in [Aios -> SUBSET Callers]
  /\ stopper \in [Aios -> {"no", "cancel", "done"}]
  /\ freer \in [Aios -> {"no", "hold", "cancel", "done"}]

One(b) == IF b THEN 1 ELSE 0
Queued(a) == Cardinality({i \in DOMAIN tq_tasks : tq_tasks[i] = a})

(* Every operation that was begun is in exactly one place until its        *)
(* callback begins: no interleaving of completing, aborting, expiring and  *)
(* stopping loses one or calls back twice.                                 *)
ExactlyOnce ==
  \A a \in Aios :
    ops[a] - calls[a] = One(begun[a]) + One(listed[a]) + One(finishing[a] # "no") + Queued(a)

(* task_busy counts what nni_task_wait waits for: a prepared operation, a  *)
(* callback on its way and those that run.                                 *)
BusyIsExact ==
  \A a \in Aios :
    task_busy[a] = One(task_prep[a]) + One(finishing[a] = "queue") + Queued(a) + running[a]

AtRest(a) ==
  /\ ~begun[a] /\ ~listed[a] /\ finishing[a] = "no"
  /\ Queued(a) = 0 /\ running[a] = 0

(* nni_aio_stop "waits for the callback to complete, if still running"     *)
(* (lines 194 to 196): when it has returned, no callback runs or will, of  *)
(* an aio whose nni_aio_schedule never refused.                            *)
StopIsFinalUnlessRefused ==
  \A a \in Aios : (stopper[a] = "done" /\ ~refused[a]) => AtRest(a)

(* After nni_aio_free nobody has the aio in hand: no thread is about to    *)
(* call its cancel function, to expire it or to run its callback.          *)
FreedIsLetGo ==
  \A a \in Aios : (freer[a] = "done" /\ ~refused[a]) =>
    AtRest(a) /\ ~a_expiring[a] /\ cancelling[a] = {} /\ a \notin eq_list

(* However completing, aborting, expiring, stopping and freeing an aio are *)
(* interleaved - each drops the lock before it calls the provider - every  *)
(* operation calls back exactly once, and what stop and free return is at  *)
(* rest (core/aio.c, core/taskq.c).                                        *)
AioSound ==
  /\ AioTypeOK /\ ExactlyOnce /\ BusyIsExact
  /\ StopIsFinalUnlessRefused /\ FreedIsLetGo

===============================================================================
