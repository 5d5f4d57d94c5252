----------------------------- MODULE SlowQueue -----------------------------
(***************************************************************************)
(* core/post_process/slow_queue.py: the in-memory queue of slow tasks and   *)
(* its single worker.  A task is tried 1 + MaxRetries times, with a backoff *)
(* sleep between attempts, and is then written to the dead-letter directory.*)
(*                                                                         *)
(* asyncio gives the grain of atomicity: a step runs from one await to the  *)
(* next.  The worker suspends in queue.get(), in the handler and in the     *)
(* backoff sleep, and nowhere else; _write_dlq() is a coroutine without an  *)
(* await, so giving up on a task and writing it to the DLQ is one step.     *)
(***************************************************************************)
EXTENDS Naturals, Sequences, SequencesExt, FiniteSets

CONSTANTS
  Task,          \* the payloads the process may enqueue, one call each
  Handled,       \* those whose task_type has a registered handler
  MaxRetries,    \* _MAX_RETRIES
  DlqMayFail,    \* whether the file system may refuse the DLQ file
  NoTask

ASSUME TaskAssumption ==
  /\ Handled \subseteq Task
  /\ NoTask \notin Task
  /\ MaxRetries \in Nat
  /\ DlqMayFail \in BOOLEAN

VARIABLES
  queue,       \* _queue: accepted and not yet taken
  unfinished,  \* _queue._unfinished_tasks, what join() waits for
  worker,      \* _worker_task: where its coroutine is suspended
  hand,        \* the item the worker took and has not marked task_done
  attempt,     \* the loop variable of the retry loop
  phase,       \* the life of the process as shutdown() sees it
  outcome,     \* history: how each task ended
  accepted,    \* history: the order in which enqueue() accepted the tasks
  ended        \* history: the order in which the worker ended with them

vars == <<queue, unfinished, worker, hand, attempt, phase, outcome, accepted, ended>>

Outcome == {"open", "done", "dead_letter", "unhandled", "lost"}
WorkerState == {"none", "idle", "handler", "backoff", "crashed"}
Phase == {"up", "draining", "down"}

InHand == IF hand = NoTask THEN <<>> ELSE <<hand>>

TypeOK ==
  /\ queue \in Seq(Task)
  /\ unfinished \in Nat
  /\ worker \in WorkerState
  /\ hand \in Task \cup {NoTask}
  /\ attempt \in 0..MaxRetries
  /\ phase \in Phase
  /\ outcome \in [Task -> Outcome]
  /\ accepted \in Seq(Task)
  /\ ended \in Seq(Task)

Init ==
  /\ queue = <<>>
  /\ unfinished = 0
  /\ worker = "none"
  /\ hand = NoTask
  /\ attempt = 0
  /\ phase = "up"
  /\ outcome = [t \in Task |-> "open"]
  /\ accepted = <<>>
  /\ ended = <<>>

(* main() starts the worker once; nothing starts it a second time. *)
StartWorker ==
  /\ worker = "none"
  /\ phase = "up"
  /\ worker' = "idle"
  /\ UNCHANGED <<queue, unfinished, hand, attempt, phase, outcome, accepted, ended>>

(* The scheduler is not stopped before shutdown(), so tasks still arrive   *)
(* while it drains.                                                        *)
Enqueue(t) ==
  /\ phase # "down"
  /\ t \notin Range(accepted)
  /\ queue' = Append(queue, t)
  /\ unfinished' = unfinished + 1
  /\ accepted' = Append(accepted, t)
  /\ UNCHANGED <<worker, hand, attempt, phase, outcome, ended>>

(* task_done() and back to queue.get(). *)
EndWith(t, how) ==
  /\ unfinished' = unfinished - 1
  /\ outcome' = [outcome EXCEPT ![t] = how]
  /\ ended' = Append(ended, t)
  /\ worker' = "idle"
  /\ hand' = NoTask

TakeUnhandled ==
  /\ worker = "idle"
  /\ queue # <<>>
  /\ Head(queue) \notin Handled
  /\ queue' = Tail(queue)
  /\ EndWith(Head(queue), "unhandled")
  /\ UNCHANGED <<attempt, phase, accepted>>

TakeHandled ==
  /\ worker = "idle"
  /\ queue # <<>>
  /\ Head(queue) \in Handled
  /\ queue' = Tail(queue)
  /\ hand' = Head(queue)
  /\ attempt' = 0
  /\ worker' = "handler"
  /\ UNCHANGED <<unfinished, phase, outcome, accepted, ended>>

HandlerReturns ==
  /\ worker = "handler"
  /\ EndWith(hand, "done")
  /\ UNCHANGED <<queue, attempt, phase, accepted>>

(* Mutant of HandlerRaises: the retry goes back to the end of the queue. *)
HandlerRaisesRequeues ==
  /\ worker = "handler"
  /\ attempt < MaxRetries
  /\ queue' = Append(queue, hand)
  /\ worker' = "idle"
  /\ hand' = NoTask
  /\ UNCHANGED <<unfinished, attempt, phase, outcome, accepted, ended>>

HandlerRaises ==
  /\ worker = "handler"
  /\ attempt < MaxRetries
  /\ worker' = "backoff"
  /\ UNCHANGED <<queue, unfinished, hand, attempt, phase, outcome, accepted, ended>>

BackoffElapses ==
  /\ worker = "backoff"
  /\ attempt' = attempt + 1
  /\ worker' = "handler"
  /\ UNCHANGED <<queue, unfinished, hand, phase, outcome, accepted, ended>>

HandlerRaisesLast ==
  /\ worker = "handler"
  /\ attempt = MaxRetries
  /\ EndWith(hand, "dead_letter")
  /\ UNCHANGED <<queue, attempt, phase, accepted>>

(* mkdir or write_text raises in _write_dlq: the exception leaves worker(), *)
(* task_done() is never called, and the item is in no queue and no file.    *)
DlqWriteFails ==
  /\ DlqMayFail
  /\ worker = "handler"
  /\ attempt = MaxRetries
  /\ worker' = "crashed"
  /\ hand' = NoTask
  /\ outcome' = [outcome EXCEPT ![hand] = "lost"]
  /\ ended' = Append(ended, hand)
  /\ UNCHANGED <<queue, unfinished, attempt, phase, accepted>>

BeginShutdown ==
  /\ phase = "up"
  /\ worker # "none"
  /\ phase' = "draining"
  /\ UNCHANGED <<queue, unfinished, worker, hand, attempt, outcome, accepted, ended>>

(* Cancelling the worker throws CancelledError at its await: a task in hand *)
(* is neither retried nor dead-lettered.                                    *)
CancelWorker ==
  /\ phase' = "down"
  /\ worker' = "none"
  /\ hand' = NoTask
  /\ outcome' = [t \in Task |-> IF t = hand THEN "lost" ELSE outcome[t]]
  /\ ended' = ended \o InHand
  /\ UNCHANGED <<queue, unfinished, attempt, accepted>>

DrainCompletes ==
  /\ phase = "draining"
  /\ unfinished = 0
  /\ CancelWorker

DrainTimesOut ==
  /\ phase = "draining"
  /\ unfinished # 0
  /\ CancelWorker

Next ==
  \/ StartWorker
  \/ \E t \in Task : Enqueue(t)
  \/ TakeUnhandled
  \/ TakeHandled
  \/ HandlerReturns
  \/ HandlerRaises
  \/ BackoffElapses
  \/ HandlerRaisesLast
  \/ DlqWriteFails
  \/ BeginShutdown
  \/ DrainCompletes
  \/ DrainTimesOut

(* The worker's steps: the event loop resumes a coroutine whose await is    *)
(* over, a handler ends because its LLM call has a timeout.                 *)
WorkerStep ==
  \/ TakeUnhandled \/ TakeHandled \/ HandlerReturns \/ HandlerRaises
  \/ BackoffElapses \/ HandlerRaisesLast \/ DlqWriteFails

Spec == Init /\ [][Next]_vars

-----------------------------------------------------------------------------
(* Tasks end in the order in which they were accepted: what has ended, what *)
(* is in hand and what waits is, at every moment, the acceptance order. So  *)
(* the single worker neither drops, nor duplicates, nor reorders the steps  *)
(* of the memory chain (summarize before reflect before consolidate).       *)
FifoConservation == accepted = ended \o InHand \o queue
=============================================================================
