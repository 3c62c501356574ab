--------------------------------- MODULE NniAio ---------------------------------
(***************************************************************************)
(* Asynchronous operations of nng: nni_aio (core/aio.c) and the task that  *)
(* runs its callback (core/taskq.c).  All sends, receives, dials and       *)
(* sleeps of the log programs go through them.                             *)
(*                                                                         *)
(* An aio is used for one operation after the other.  Four parties work on *)
(* it at once: the consumer, who starts operations and whose callback is   *)
(* run when they end; the provider, who holds the aio on a list under its  *)
(* own lock; the thread that expires deadlines; and whoever aborts, stops  *)
(* or frees it.  Each action is what one of them does under one lock.      *)
(* The provider is external and behaves as all of nng do: it completes an  *)
(* aio when it takes it off its list, and its cancel function does nothing *)
(* for an aio that is not on the list.                                     *)
(***************************************************************************)
EXTENDS AioState, SequencesExt

AioAssumption == IsFiniteSet(Aios) /\ MaxOps \in Nat /\ MaxAborts \in Nat

task == <<task_busy, task_prep, tq_tasks, running>>
expiry == <<a_expire, a_expiring, eq_list, batch, expirer>>
user == <<owned, stopper, freer>>
history == <<ops, calls, aborts, refused, ended>>
vars == <<a_stop, a_cancel_fn, expiry, task, user, begun, listed, finishing, cancelling, history>>

Result(c) == CASE c = "expire" -> "ETIMEDOUT" [] c = "fini" -> "ECLOSED" [] OTHER -> "ECANCELED"

All(v) == [a \in Aios |-> v]
No == FALSE

Init ==
  /\ a_stop = All(No) /\ a_cancel_fn = All(No)
  /\ a_expire = All("never") /\ a_expiring = All(No)
  /\ eq_list = {} /\ batch = <<>> /\ expirer = "idle"
  /\ task_busy = All(0) /\ task_prep = All(No)
  /\ tq_tasks = <<>> /\ running = All(0)
  /\ owned = All(TRUE) /\ begun = All(No) /\ listed = All(No)
  /\ finishing = All("no") /\ cancelling = All({})
  /\ stopper = All("no") /\ freer = All("no")
  /\ ops = All(0) /\ calls = All(0) /\ aborts = 0
  /\ refused = All(No) /\ ended = All("none")

-----------------------------------------------------------------------------
(* An operation, from its start to its callback.                           *)

(* nni_aio_begin.  A stopped aio is left alone: no callback.               *)
Begin(a) ==
  /\ owned[a] /\ freer[a] = "no" /\ ops[a] < MaxOps
  /\ ~a_stop[a]
  /\ owned' = [owned EXCEPT ![a] = FALSE]
  /\ begun' = [begun EXCEPT ![a] = TRUE]
  /\ task_prep' = [task_prep EXCEPT ![a] = TRUE]
  /\ task_busy' = [task_busy EXCEPT ![a] = @ + 1]
  /\ ops' = [ops EXCEPT ![a] = @ + 1]
  /\ UNCHANGED <<a_stop, a_cancel_fn, expiry, tq_tasks, running, stopper, freer, listed,
                 finishing, cancelling, calls, aborts, refused, ended>>

(* nni_task_abort.                                                         *)
TaskAborted(a) ==
  IF task_prep[a]
  THEN /\ task_prep' = [task_prep EXCEPT ![a] = FALSE]
       /\ task_busy' = [task_busy EXCEPT ![a] = @ - 1]
  ELSE UNCHANGED <<task_prep, task_busy>>

Accepts(a) == ~a_stop[a]

(* nni_aio_schedule and the provider's list, under the provider's lock.  A *)
(* deadline is only kept when there is a way to cancel.                    *)
Schedule(a) ==
  /\ begun[a] /\ Accepts(a)
  /\ begun' = [begun EXCEPT ![a] = FALSE]
  /\ listed' = [listed EXCEPT ![a] = TRUE]
  /\ a_cancel_fn' = [a_cancel_fn EXCEPT ![a] = TRUE]
  /\ \/ a_expire' = [a_expire EXCEPT ![a] = "never"] /\ UNCHANGED eq_list
     \/ a_expire' = [a_expire EXCEPT ![a] = "later"] /\ eq_list' = eq_list \cup {a}
  /\ UNCHANGED <<a_stop, a_expiring, batch, expirer, task, user, finishing, cancelling, history>>

(* nni_aio_schedule refuses: the aio is stopped, or its time-out is zero.  *)
(* The provider then completes it with the error.                          *)
Refuse(a) ==
  /\ begun[a]
  /\ begun' = [begun EXCEPT ![a] = FALSE]
  /\ TaskAborted(a)
  /\ refused' = [refused EXCEPT ![a] = TRUE]
  /\ finishing' = [finishing EXCEPT ![a] = "finish"]
  /\ ended' = [ended EXCEPT ![a] = IF a_stop[a] THEN "ECLOSED" ELSE "ETIMEDOUT"]
  /\ UNCHANGED <<a_stop, a_cancel_fn, expiry, tq_tasks, running, user, listed, cancelling,
                 ops, calls, aborts>>

(* The provider has what the operation waited for.                         *)
Complete(a) ==
  /\ listed[a]
  /\ listed' = [listed EXCEPT ![a] = FALSE]
  /\ finishing' = [finishing EXCEPT ![a] = "finish"]
  /\ ended' = [ended EXCEPT ![a] = "ok"]
  /\ UNCHANGED <<a_stop, a_cancel_fn, expiry, task, user, begun, cancelling,
                 ops, calls, aborts, refused>>

(* nni_aio_finish_impl under the lock of the expiration queue.             *)
Finish(a) ==
  /\ finishing[a] = "finish"
  /\ finishing' = [finishing EXCEPT ![a] = "dispatch"]
  /\ eq_list' = eq_list \ {a}
  /\ a_cancel_fn' = [a_cancel_fn EXCEPT ![a] = FALSE]
  /\ a_expire' = [a_expire EXCEPT ![a] = "never"]
  /\ UNCHANGED <<a_stop, a_expiring, batch, expirer, task, user, begun, listed, cancelling, history>>

(* nni_task_dispatch, nni_task_exec: the task was made busy when it was    *)
(* prepared, or is now.                                                    *)
Prepared(a) ==
  /\ task_prep' = [task_prep EXCEPT ![a] = FALSE]
  /\ task_busy' = IF task_prep[a] THEN task_busy ELSE [task_busy EXCEPT ![a] = @ + 1]

Dispatch(a) ==
  /\ finishing[a] = "dispatch"
  /\ Prepared(a)
  /\ finishing' = [finishing EXCEPT ![a] = "queue"]
  /\ UNCHANGED <<a_stop, a_cancel_fn, expiry, tq_tasks, running, user, begun, listed,
                 cancelling, history>>

CallbackBegins(a) ==
  /\ running' = [running EXCEPT ![a] = @ + 1]
  /\ owned' = [owned EXCEPT ![a] = TRUE]
  /\ calls' = [calls EXCEPT ![a] = @ + 1]

(* The end of nni_task_dispatch - or, with nni_aio_finish_sync, the        *)
(* callback in this thread.                                                *)
Queue(a) ==
  /\ finishing[a] = "queue"
  /\ finishing' = [finishing EXCEPT ![a] = "no"]
  /\ \/ tq_tasks' = Append(tq_tasks, a) /\ UNCHANGED <<running, owned, calls>>
     \/ CallbackBegins(a) /\ UNCHANGED tq_tasks
  /\ UNCHANGED <<a_stop, a_cancel_fn, expiry, task_busy, task_prep, stopper, freer,
                 begun, listed, cancelling, ops, aborts, refused, ended>>

(* nni_taskq_thread, one of several.                                       *)
TaskRuns ==
  /\ tq_tasks # <<>>
  /\ CallbackBegins(Head(tq_tasks))
  /\ tq_tasks' = Tail(tq_tasks)
  /\ UNCHANGED <<a_stop, a_cancel_fn, expiry, task_busy, task_prep, stopper, freer,
                 begun, listed, finishing, cancelling, ops, aborts, refused, ended>>

TaskEnds(a) ==
  /\ running[a] > 0
  /\ running' = [running EXCEPT ![a] = @ - 1]
  /\ task_busy' = [task_busy EXCEPT ![a] = @ - 1]
  /\ UNCHANGED <<a_stop, a_cancel_fn, expiry, task_prep, tq_tasks, user, begun, listed,
                 finishing, cancelling, history>>

-----------------------------------------------------------------------------
(* Cancelling.                                                             *)

(* The cancel function is taken under the lock and called without it.      *)
Take(a, c) ==
  /\ a_cancel_fn' = [a_cancel_fn EXCEPT ![a] = FALSE]
  /\ cancelling' = IF a_cancel_fn[a] THEN [cancelling EXCEPT ![a] = @ \cup {c}] ELSE cancelling

CancelWorks(a) == listed[a]

(* The provider's cancel function, under the provider's lock.              *)
Cancel(a, c) ==
  /\ c \in cancelling[a]
  /\ cancelling' = [cancelling EXCEPT ![a] = @ \ {c}]
  /\ IF CancelWorks(a)
     THEN /\ listed' = [listed EXCEPT ![a] = FALSE]
          /\ finishing' = [finishing EXCEPT ![a] = "finish"]
          /\ ended' = [ended EXCEPT ![a] =
                         IF c = "expire" /\ a_expire[a] # "past" THEN "too early" ELSE Result(c)]
     ELSE UNCHANGED <<listed, finishing, ended>>
  /\ UNCHANGED <<a_stop, a_cancel_fn, expiry, task, user, begun, ops, calls, aborts, refused>>

(* nni_aio_abort.                                                          *)
Abort(a) ==
  /\ aborts < MaxAborts
  /\ freer[a] = "no"
  /\ "abort" \notin cancelling[a]
  /\ aborts' = aborts + 1
  /\ eq_list' = eq_list \ {a}
  /\ Take(a, "abort")
  /\ UNCHANGED <<a_stop, a_expire, a_expiring, batch, expirer, task, user, begun, listed, finishing,
                 ops, calls, refused, ended>>

(* nni_aio_stop; nni_aio_close is the same without the wait.               *)
Stop(a) ==
  /\ stopper[a] = "no"
  /\ stopper' = [stopper EXCEPT ![a] = "cancel"]
  /\ a_stop' = [a_stop EXCEPT ![a] = TRUE]
  /\ eq_list' = eq_list \ {a}
  /\ Take(a, "stop")
  /\ UNCHANGED <<a_expire, a_expiring, batch, expirer, task, owned, freer, begun, listed, finishing, history>>

(* Mutant: it does not wait.                                               *)
TaskIdle_Now(a) == TRUE

(* nni_task_wait.                                                          *)
TaskIdle(a) == task_busy[a] = 0

Stopped(a) ==
  /\ stopper[a] = "cancel"
  /\ "stop" \notin cancelling[a]
  /\ TaskIdle(a)
  /\ stopper' = [stopper EXCEPT ![a] = "done"]
  /\ UNCHANGED <<a_stop, a_cancel_fn, expiry, task, owned, freer, begun, listed, finishing,
                 cancelling, history>>

MayFini(a) == ~a_expiring[a]

(* nni_aio_fini after nni_aio_stop, by whoever knows that nobody aborts:   *)
(* the expiration thread has to let go of the aio, its cancel function is  *)
(* called, and the task must come to rest before the memory goes.          *)
Fini(a) ==
  /\ freer[a] = "no"
  /\ stopper[a] = "done" /\ "abort" \notin cancelling[a]
  /\ freer' = [freer EXCEPT ![a] = "hold"]
  /\ a_stop' = [a_stop EXCEPT ![a] = TRUE]
  /\ UNCHANGED <<a_cancel_fn, expiry, task, owned, stopper, begun, listed, finishing,
                 cancelling, history>>

FiniHeld(a) ==
  /\ freer[a] = "hold"
  /\ MayFini(a)
  /\ freer' = [freer EXCEPT ![a] = "cancel"]
  /\ eq_list' = eq_list \ {a}
  /\ Take(a, "fini")
  /\ UNCHANGED <<a_stop, a_expire, a_expiring, batch, expirer, task, owned, stopper, begun, listed,
                 finishing, history>>

Freed(a) ==
  /\ freer[a] = "cancel"
  /\ "fini" \notin cancelling[a]
  /\ task_busy[a] = 0
  /\ freer' = [freer EXCEPT ![a] = "done"]
  /\ UNCHANGED <<a_stop, a_cancel_fn, expiry, task, owned, stopper, begun, listed, finishing,
                 cancelling, history>>

-----------------------------------------------------------------------------
(* Expiration.                                                             *)

Tick(a) ==
  /\ a_expire[a] = "later"
  /\ a_expire' = [a_expire EXCEPT ![a] = "past"]
  /\ UNCHANGED <<a_stop, a_cancel_fn, a_expiring, eq_list, batch, expirer, task, user, begun, listed,
                 finishing, cancelling, history>>

(* nni_aio_expire_loop scans the list and holds everything overdue.        *)
Scan ==
  /\ batch = <<>>
  /\ LET due == {a \in eq_list : a_expire[a] = "past"}
     IN  /\ due # {}
         /\ batch' \in SetToSeqs(due)
         /\ eq_list' = eq_list \ due
         /\ a_expiring' = [a \in Aios |-> a_expiring[a] \/ a \in due]
  /\ UNCHANGED <<a_stop, a_cancel_fn, a_expire, expirer, task, user, begun, listed, finishing,
                 cancelling, history>>

(* One aio of the batch: its cancel function, as it is now, is taken.      *)
Expire ==
  /\ batch # <<>> /\ expirer = "idle"
  /\ LET a == Head(batch)
     IN  /\ Take(a, "expire")
         /\ IF a_cancel_fn[a]
            THEN expirer' = "called" /\ UNCHANGED <<a_expiring, batch>>
            ELSE /\ a_expiring' = [a_expiring EXCEPT ![a] = FALSE]
                 /\ batch' = Tail(batch)
                 /\ UNCHANGED expirer
  /\ UNCHANGED <<a_stop, a_expire, eq_list, task, user, begun, listed, finishing, history>>

(* Mutant: the hold is not released.                                       *)
Expired_Held ==
  /\ expirer = "called"
  /\ "expire" \notin cancelling[Head(batch)]
  /\ batch' = Tail(batch)
  /\ expirer' = "idle"
  /\ UNCHANGED <<a_stop, a_cancel_fn, a_expire, a_expiring, eq_list, task, user, begun, listed,
                 finishing, cancelling, history>>

Expired ==
  /\ expirer = "called"
  /\ LET a == Head(batch)
     IN  /\ "expire" \notin cancelling[a]
         /\ a_expiring' = [a_expiring EXCEPT ![a] = FALSE]
  /\ batch' = Tail(batch)
  /\ expirer' = "idle"
  /\ UNCHANGED <<a_stop, a_cancel_fn, a_expire, eq_list, task, user, begun, listed,
                 finishing, cancelling, history>>

-----------------------------------------------------------------------------
Completion(a) == Schedule(a) \/ Refuse(a) \/ Finish(a) \/ Dispatch(a) \/ Queue(a)
Ending(a) == Stopped(a) \/ FiniHeld(a) \/ Freed(a)
Cancelled(a) == \E c \in Callers : Cancel(a, c)
Expiration == Scan \/ Expire \/ Expired

Next ==
  \/ \E a \in Aios :
       \/ Begin(a) \/ Complete(a) \/ Abort(a) \/ Stop(a) \/ Fini(a) \/ Tick(a)
       \/ Completion(a) \/ TaskEnds(a) \/ Ending(a) \/ Cancelled(a)
  \/ TaskRuns \/ Expiration

Spec == Init /\ [][Next]_vars

(* Threads run, callbacks return, time passes.  Nothing obliges a provider *)
(* to complete or a user to do anything.                                   *)
FairKinds == {"completes", "task ends", "ending", "cancelled", "tick", "task runs", "expires"}
Fair(k, a) ==
  \/ k = "completes" /\ Completion(a)
  \/ k = "task ends" /\ TaskEnds(a)
  \/ k = "ending" /\ Ending(a)
  \/ k = "cancelled" /\ Cancelled(a)
  \/ k = "tick" /\ Tick(a)
  \/ k = "task runs" /\ TaskRuns
  \/ k = "expires" /\ Expiration

FairSpec == Spec /\ \A k \in FairKinds, a \in Aios : WF_vars(Fair(k, a))

-----------------------------------------------------------------------------
(* Properties.                                                             *)

(* nni_aio_stop "waits for the callback to complete, if still running"     *)
(* (lines 194 to 196): when it has returned, no callback runs or will.     *)
StopIsFinal == \A a \in Aios : stopper[a] = "done" => AtRest(a)

(* "We will not permit an AIO to be marked done if an expiration is        *)
(* outstanding" (lines 47 and 48): no operation is ended by the deadline   *)
(* of the one before it.                                                   *)
ExpiresItself == \A a \in Aios : ended[a] # "too early"

(* nni_aio_stop returns, whatever the provider does.                       *)
StopReturns == \A a \in Aios : []<>(stopper[a] # "cancel")

(* nni_aio_fini does, too.                                                 *)
FiniReturns == \A a \in Aios : []<>(freer[a] \notin {"hold", "cancel"})

(* An operation with a deadline ends, even if the provider never does it.  *)
DeadlineEnds == \A a \in Aios : []<>(owned[a] \/ a_expire[a] \notin {"later", "past"})

-----------------------------------------------------------------------------
(* Parts of the inductive invariants, for the proofs.                      *)

(* An operation is in one place while its consumer does not own the aio.   *)
OnePlace ==
  \A a \in Aios :
    One(begun[a]) + One(listed[a]) + One(finishing[a] # "no") + Queued(a) = One(~owned[a])

UnderWay(a) == begun[a] \/ listed[a] \/ finishing[a] \in {"finish", "dispatch"}

(* A task is prepared from nni_aio_begin to nni_task_dispatch, unless      *)
(* nni_aio_schedule has taken that back.                                   *)
PreparedUnderWay ==
  \A a \in Aios :
    /\ task_prep[a] => UnderWay(a)
    /\ UnderWay(a) /\ ~refused[a] => task_prep[a]

(* The expiration thread holds what is in its batch, each aio once, and    *)
(* calls the cancel function of the first.                                 *)
BatchHeld ==
  /\ \A i, j \in DOMAIN batch : batch[i] = batch[j] => i = j
  /\ \A i \in DOMAIN batch : a_expiring[batch[i]]
  /\ expirer = "called" => batch # <<>>
  /\ \A a \in Aios : "expire" \in cancelling[a] =>
       expirer = "called" /\ a = batch[1]

(* Stopping and freeing go through their stages in order, and what one of  *)
(* them has excluded stays so.                                             *)
EndsInOrder ==
  \A a \in Aios :
    /\ stopper[a] # "no" => a_stop[a]
    /\ stopper[a] = "done" => "stop" \notin cancelling[a]
    /\ freer[a] # "no" => stopper[a] = "done" /\ "abort" \notin cancelling[a]
    /\ freer[a] \in {"cancel", "done"} => ~a_expiring[a] /\ a \notin eq_list
    /\ freer[a] = "done" => "fini" \notin cancelling[a]

=============================================================================
