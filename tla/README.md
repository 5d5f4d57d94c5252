# PresenceKit: a TLA+ verification project

PresenceKit is a companion-character server for one owner: a Python asyncio process that
answers the owner's messages, keeps memories of them, speaks up on its own when it has a
reason to, and lets the owner enter "dreams", conversations apart from the ordinary one
("reality"). Everything runs on one event loop; a few producers run on other threads. State
is JSON files, each rewritten whole by `core/safe_write.py`, and in-memory tables that a
restart empties. There is no database, hence no transaction: what must hold across two
files, across an `await`, or across a restart holds only if the order of the steps makes it
hold. This project checks that order.

Contents: 1 the system, 2 what is modelled, 3 the modules, 4 the runs, 5 bounds, 6 fairness,
7 proofs, 8 findings, 9 what is not modelled, 10 the plan, 11 how to run it.

## 1. The system

### 1.1 How the parts interact

```
 owner ──> channels ──> message queue ──> owner turn / pipeline ──> turn sink ──> channels
                                              │  (conversation lock, FIFO)  ▲
                                              ▼                             │
                                          slow queue ──> memories           │ talk_gate
 sensors, triggers ──> autonomy signals ──┐                                 │
 external events ──> wake bridge ──────┐  ▼                                 │
                        scheduler loop ─> autonomy tick ──> autonomy job store
 owner ──> admin API ──> dream session (solo), group dream   (no conversation lock
                                              for enter, wake, exit)
```

- **The conversation lock** (`core/conversation_gate.py`), one FIFO `asyncio.Lock` per owner,
  serialises everything that writes a turn: owner turns, autonomy's talks, dream turns, stage
  turns. It is not taken by the endpoints that enter, wake or leave a dream.
- **The scheduler loop** runs triggers, then the wake bridge, then one autonomy tick under
  `asyncio.wait_for()`: a tick may be cancelled at any of its awaits.
- **Dream guards** are reads of `dream_state.json`. A guard read before an await says nothing
  of the state after it.

### 1.2 Inventory

For each component: its state; its operations; what is hard; what makes it correct.

**Slow queue** (`core/post_process/slow_queue.py`). State: an `asyncio.Queue`, its join
counter, the worker task, the handlers by task type. Operations: `enqueue`, the worker loop
with three attempts and a backoff, the dead-letter file, `shutdown` with a drain timeout.
Hard: the retry happens in place, `task_done()` has to be called exactly once on each path,
tasks are accepted while the drain waits, the dead-letter write may raise. Correct when:
order is kept (the memory chain summarize, reflect, consolidate relies on it), `join()`
counts what is owed, every accepted task ends.

**Autonomy job store** (`core/autonomy/store.py`). State: one file per scope with jobs,
pending signals, delivered correlations, evaluation counters, the circuit. Operations:
`enqueue_signal`, `drain_pending_signals`, `enqueue`, `record_signal_outcome`, `claim_due`,
`renew`, `finish`, `finish_dream_blocked_with_signal_split`, `claim_delivery`. Hard: leases
lapse while their holder still runs, holders come back late, jobs expire and are trimmed in
between. Correct when: only the last holder decides a job, a concluded job stays concluded,
budget and circuit move once a job, no two live jobs share a dedupe key.

**Autonomy runner, admission, talk gate** (`core/autonomy/runner.py`, `policy.py`,
`talk_gate.py`). State: the tick in progress. Operations: the tick (drain, merge, enqueue,
claim, admission, model and tools, one soft confirmation, send, finish or split). Hard: a
dream or an owner message begins at any await; the tick is cancelled at any await; the
process ends anywhere. Correct when: an opportunity is spoken of once, the unanswered cap
holds, a one-shot "desktop reopened" signal that a dream blocked never comes back, and no
signal is in two places.

**Proactive ledger** (`core/scheduler/proactive_ledger.py`). State: the count of unanswered
talks, recent talks. Operations: `record_send`, `record_user_message`. Hard: it is told after
the fanout.

**Turn sink and conversation gate** (`core/turn_sink.py`, `core/conversation_gate.py`).
Operations: capture under the lock, fanout after it. Hard: a cancelled waiter, a failing
capture, channels that go away in between.

**Solo dream** (`core/dream/dream_pipeline.py`, `dream_state.py`, `dream_log.py`,
`admin/routers/dream.py`). State:
`dream_state.json`, the current transcript, the archives. Operations: enter, turn, wake with
retention, resume, soft exit, hard exit, the close. Hard: enter, turn and wake wait for a
snapshot or a model and carry a state they read before; the hard exit may run meanwhile; the
archive may be torn, or may collide with what an earlier attempt left; writes are refused and
nobody looks. Correct when: no turn that was written is lost, an archived transcript is sealed,
a dream is closed once, the hard exit leaves while the disk works.

**Group dream** (`admin/routers/group_dream.py`, `core/stage/dream_*.py`). State: a group
state file, a transcript, an in-memory reservation with a token, a running round. Operations:
enter (reserve, snapshots, commit), send (an asynchronous round), exit. Hard: the exclusion of
solo and group dreams is checked before the snapshots and not after; the reservation survives
a cancelled request; the exit does not stop a round. Correct when: at most one dream is on, an
entrance that was revoked writes nothing.

**Scenario reconciler** (`core/dream/scenario_reconciler.py`). Waits for a model, then moves
the scenario's stage with a compare-and-swap on `state_version`. Hard: every other writer of
the state in between; a version that restarts. Correct when: a verdict about one turn is
applied to the state of that turn or not at all.

**Owner turn service** (`core/owner_turn_service.py`, `owner_turn_receipts.py`). State: a
receipt file per caller and `client_turn_id`, per-key locks, an in-flight table. Hard: the
client repeats a turn while it runs, after it ended, after a restart. Correct when: at most
one execution per id, and an interrupted one is never reported as completed.

**Message queue** (`core/message_queue.py`). State: a queue and a task per session. Hard: the
task ends when its queue is empty and is started again by the next `enqueue`; a cancelled
handler leaves messages behind. Correct when: messages of a session are handled one at a time,
in order, and none is left while the process is up.

**Wake bridge** (`core/wake_bridge.py`). State: a durable inbox per scope and provider, with
claims, tokens and five-minute leases. Hard: a crash between delivery and settlement. Correct
when: an event is never dropped while it is valid, and a stale claim never settles.

**Mobile channel** (`channels/mobile.py`). State: a queue file of 500 items and 24 hours, a
sequence file. Operations: send, long poll with a cursor, acknowledge. Correct when: a client
that polls in order misses nothing that was not pruned, and no number at or below its cursor is
given out while the queue or the number file is at hand.

**Scheduler loop, gating, state machine, defer queue** (`core/scheduler/*.py`). State: the
owner's CHATTING/QUIET/RESTLESS state, deferred proposals, cooldowns. Correct when: at most
one proposal a tick is executed, a deferred one is sent or dropped by its age.

**Memories** (`core/memory`). State: short-term turns, mid-term summaries, episodes, identity,
event store, hidden state. Hard: pipelines that read, wait for a model and write, as slow
tasks. Correct when: a turn is consolidated once and a retry does not write twice.

**Hardware jobs** (`core/hardware/jobs.py`): persisted jobs with a deadline; one active job a
device; a stop that is confirmed. **Stage** (`core/stage/runner.py`): several characters
answer one owner turn under the lock. **Activity** (`core/activity`): chess, gomoku and
reading sessions, one active of each. **Session state** (`core/session_state.py`): one pending
confirmation a session. **Mail** (`core/mail/weekly_contract.py`): a letter a week, with a
lease. **Self management**: grants and undo. **MCP client**: one owner task a server.
**safe_write**: write a temporary file, move the old one to `.bak`, move the new one in place.

The rest (pipeline and prompts, model clients, tools, other channels, formatting, migration,
admin UI, firmware, scripts) is listed in `PROJECT.json` with its reason and in section 9.

## 2. What is modelled

| module | code | grain of a step |
| --- | --- | --- |
| `SlowQueue` | the slow queue | from one await to the next |
| `MessageQueue` | QQ's messages: session queues, `handle_message()` and the hand-over, over `SlowQueue` | from one await to the next |
| `AutonomyQueue` | the job store's queue | one store operation, under the scope lock |
| `JobLifecycle` | abstract: the life of one job | one change of a job's state |
| `AutonomyTick` | runner, admission, talk gate, sink, lock, ledger | one save or one await of the tick |
| `DreamSession` | the solo dream and its files | from one await to the next |
| `DreamLife` | abstract: the dreams of one dreamer and what is said in them | one change of a dream |
| `ScenarioReconcile` | stages of a scenario and the reconciler, over `DreamSession` | the same |
| `MemoryChain` | capture, summarize, reflect, consolidate, sweep, forget | one part of a handler between two waits |
| `GroupDream` | a group's dream, its rounds, the owner's solo dream beside it | from one await to the next, under the group's lock |
| `MobileQueue` | the phone's queue file and its poll | one operation under the condition |
| `PhoneMailbox` | abstract: the messages in line for the phone | one change of the line |
| `OwnerTurn` | owner turn service and receipts, over `MobileQueue` | from one await or save to the next |
| `WakeBridge` | the inbox of external events, its drains and its tick | one save of the inbox or one await |

`MC*` modules give the constants values for TLC; `*_proof` modules hold the theorems.
`AutonomyQueue` refines `JobLifecycle`, `DreamSession` refines `DreamLife` where requests come
one at a time, and `MobileQueue` refines `PhoneMailbox` while no more than two writes or reads fail;
the mailbox gives up its order when a message is numbered with neither file at hand. `MessageQueue` extends `SlowQueue`, `ScenarioReconcile` extends `DreamSession` and
`OwnerTurn` extends `MobileQueue`, each step of the lower module being composed with what it does
to the state of the upper one.

## 3. The modules

### 3.1 SlowQueue and MessageQueue

| variable | code |
| --- | --- |
| `queue`, `unfinished` | `_queue` and its count of unfinished tasks, which `join()` waits for |
| `worker` | where the coroutine of `_worker_task` is suspended: `queue.get()`, the handler, the backoff sleep; `crashed` when an exception left it |
| `hand`, `attempt` | the item taken and not yet marked done; the variable of the retry loop |
| `phase` | up, draining (`shutdown()` waits in `drain()`), down |
| `outcome`, `accepted`, `ended` | history |

`Enqueue`, `TakeUnhandled` / `TakeHandled`, `HandlerReturns`, `HandlerRaises`,
`BackoffElapses`, `HandlerRaisesLast`, `DlqWriteFails`, `BeginShutdown`, `DrainCompletes` and
`DrainTimesOut` are the code between two awaits. `_write_dlq()` is a coroutine without an
await, so giving up and writing the dead letter are one step. Handlers are opaque.

| variable of `MessageQueue` | code |
| --- | --- |
| `queues`, `key` | `_queues`, the session of each message |
| `created` | tasks of `_tasks` that have not run yet; those that run are known by their message |
| `at` | where the coroutine of a message is: queued, looking at media (`entering`), at the conversation lock, with the models (`talking`), sending, over, cancelled |
| `elsewhere` | the locks that turns of the desktop, the phone and the scheduler hold |
| `stage` | `post_process_slow()` of a turn, a task that nobody waits for |
| `said` | history: turns in the order of recording |

`Arrives` is `enqueue()` with the start of a task where none lives; `Starts` the first run of a
task; `Loop` the head of `_process_session()`, which each handler's end runs into without an
await. `Leaves` are the early ends of `handle_message()` and its exceptions, `Cancelled` the
`BaseException` that ends the session's task too. `WaitsForLock` and `TakesLock` stand for the
FIFO lock: messages of a session never compete for it, and `ElsewhereBegins` does not overtake
one that waits. `Records` and `Unrecorded` are the capture, or its absence in a group or when
it raised; `Sent` the visible reply, which is sent either way. `HandsOver` is `Enqueue` of
`SlowQueue`. Media, the tool router and `_reply_with_tool_result()` are choices of these steps.

### 3.2 AutonomyQueue and JobLifecycle

`order` is the list `state["jobs"]`, `rec` the record of each job (status, age, remaining
lease, remaining backoff, token, attempts), `claim` what a caller still holds of the job
`claim_due()` gave it, which is what `run_job()` and `tick()` pass to `renew()` and `finish()`.
`concluded` and `counted` are history.

Each store operation loads, changes and saves the file under the scope lock, so it is one
action: `Enqueue`, `RecordOutcome`, `ClaimDue` / `ClaimNothing` (settle lapsed leases, close
jobs past their time on the way to the first due one, hand it out with a fresh token),
`Renew` / `RenewRefused`, `FinishDone`, `FinishRetry`, `FinishSplit`, `FinishStale`,
`Abandon` (the run is cancelled or the process ends) and `Tick` (time). The save's trimming to
the last `MAX_JOBS` jobs is part of the two actions that append. Times are relative, so the
state space is finite without a bound on the clock.

`JobLifecycle` is what the store promises about one job: absent, waiting, running, expired,
concluded, forgotten; only the last holder concludes or gives back. `AutonomyQueue` is shown
to implement it under `state <- StateOf`, `holder <- rec[j].token`, by TLC on small instances
and by proof for all. The abstract life allows one thing a reader may not expect, because the
code does: `claim_due()` leaves the token in a job it closes for its age, and `finish()`
compares nothing but the token, so a late holder may give back or conclude an *expired* job.

### 3.3 AutonomyTick

The tick of one owner, with what surrounds it. `pc` says where the tick is; at the awaits
(`Await`) the owner, a dream and a cancellation may come in, between them (`Sync`) only a
crash, because it is one event loop; `Produce` may come at any time, producers run on other
threads. The job store appears again, smaller: jobs are `pending`, `processing` or `done`, and
which leases lapsed, which backoffs elapsed and which jobs are late is chosen when
`claim_due()` looks. `delivered` is `delivered_correlations`, `gate` the FIFO conversation
lock with its waiters, `unanswered` the ledger's count. `told`, `heard`, `barred`, `produced`
and `cutTalks` are history.

`Drain`, `Enqueue`, `Claim`, `AdmissionDream`, `AdmissionRefused`, `EnterModel`,
`EndsSilently`, `SoftBlocked`, `SendBlockedByDream`, `SendRefusedUncounted`, `SendRefused`,
`Send`, `Capture`, `CaptureFails`, `Fanout`, `FanoutNobody`, `RecordSend`, `FinishDone`,
`FinishRetry` and `FinishSplit` follow the code from one save or await to the next.
`Cancel` is the scheduler's `wait_for()`; it also takes a waiter off the lock. `Crash` is the
end of the process: the files stay.

### 3.4 DreamSession and DreamLife

`st` is `dream_state.json` (status, dream id, last dream id, the dream for which retention was
offered, whether the volatile fields are there), `current` the transcript, `archive` the files
in `archive/`. `chat`, `entering` and `waking` are requests that wait for a model or a
snapshot, with the state they read before. Turns and dreams are numbered. `broken` and `unmarked`
are history: turns of which a line was refused, and dreams of which the mark of an offer was.

The disk may refuse any write, and the code looks at the answer in few places. `Put` is
`write_state()` where nobody looks: the new state is on disk, or the old one stays and the request
goes on; `Pays` counts the failures. `Logs` is `append_turn()`: a refused line leaves a part of the
turn in the transcript or nothing. Where the code does look (the entrance, resuming) a refused write
is the failure of the request.

`ArchiveSucceeds`, `ArchiveCollides` and `ArchiveFails` are the outcomes of
`archive_current()`; `Close` is `_do_close_dream()`, which may archive the transcript and be refused
the closed state, so that the dream is still on, in DREAM_CLOSING; `ForceExit` is `force_exit_dream()`, the
hard exit that the endpoints call. `EnterBegins` / `EnterReturns` / `EnterFails`,
`ChatBegins` / `ChatReplies` / `ChatFails`, `WakeExits` / `WakeBegins` / `WakeRetains` /
`WakeFails`, `Resume` and `HardExit` are the endpoints, split at their awaits. `Crash`,
`CrashInWrite` (between the two renames of `safe_write_json()`) and `CrashInClose` (between
the archive and the state) are the ends of the process. `Overlap = FALSE` makes requests wait
for one another: the docs' promises are about that case, and so is the reading of the code
that finds them kept.

`DreamLife` is what the session promises then: one dream is on at a time, a turn is said in the
dream that is on and in no other, and a dream is left once and for good, with all that was written
of it kept at once (`Leave`). A turn may be said and not written. The turns may be kept and the dream
not left yet (`Keep`), which is the refused closed state. A dream may also be forgotten, when the process ends between the two renames of
the state file: it is then over without being left, and what was said in it is kept with the
next dream. The turns in the transcript are the open ones, those only in an archive the kept
ones, so the archive of a close is never half of a dream.

### 3.5 ScenarioReconcile

`DreamSession` with stages. `version` is `state_version`; `core` the stage in `scenario_core`
and `last_assistant_turn_id`; `copy` what a waiting wake carries of it; `prompted` the stage
the prompt of the waiting turn was built for; `asked` the requests to the reconciler, waiting
or with the model; `moved` is history, the turns that moved a stage.

`Leaves`, `Enters`, `Wakes`, `Resumes`, `Stops`, `Asks`, `Answers` and `Breaks` are the
requests of `DreamSession` with what they do to version and stage; `Answers` judges the
control block by the stage it reads after the wait. `VerdictSought`, `VerdictApplied` (the
compare-and-swap of `write_state_if_version()`) and `VerdictNone` are the reconciler, which
takes no lock: it runs beside the requests even when those run one at a time. Several writes
of one step count as one version. `Stops` is the end of the process, between requests, between the
two renames of a write (the version is 0 again and the scenario gone) or in a close between the
archive and the state. The disk fails here in no other way: what refused writes and torn archives do
is `DreamSession`'s subject.

### 3.6 MemoryChain

| variable | code |
| --- | --- |
| `lines` | copies of the two lines of a turn in short-term memory and in the event log |
| `mid`, `eps`, `since`, `identity` | the mid-term file, the episodes, the count of reflections since a consolidation, the evidence in the identity file |
| `queue`, `job`, `pc`, `attempt`, `work` | the slow queue's tasks, the one in hand, where its handler is, and what it read before its wait |
| `cons` | each waiting consolidation (the worker's, and the one an admin request starts) with the episodes it read |
| `life`, `judged`, `forgotten`, `torn`, `overlapped` | history |

`Capture` and `CaptureIncomplete` write a turn's lines under the owner's lock,
`HandToSlowQueue` queues it, `CaptureAgain` is the retry of an incomplete capture.
`Summarize...`, `Reflect...` and `Consolidate...` are the three handlers, split where they wait
for a model: what they read, how they fail, what they write on return. A reflection writes
episodes and then marks the mid-term entries, in two files: `CrashInReflect` ends the process
between them. `Sweep` is the scheduler's re-queueing of mid-term entries left behind, `Expire`
the end of an entry's time, `Forget` the admin request, `Crash` the end of the process.

What the model shows and the code does: two overlapping consolidations overwrite one another,
hence `FedIsKept` excepts them; a crash between the identity file and the marks feeds an
episode twice; `load()` rewrites some replies of the short-term file, and such a line is there
twice after a retry, which `CapturedOnce` excepts; the event log tells a repeated line by the
file of its day (`event_log.py:259`), and a retry past midnight is not modelled; a batch of the sweep with one entry already reflected
goes back whole (`fixation_pipeline.py:1066`).

### 3.7 GroupDream

`state` is the group's state file and `tmp` its transcript; `entering` the reservation and
`entry` each request to enter; `active` the group's round and `rounds` the tasks; `conv` the
holder of the conversation lock; `solo` and `soloEntry` the owner's own dream. `outdated`,
`placed`, `late`, `apart` and `unsettled` are history.

`Reserve`, `EntryCommits`, `EntryRefused`, `EntryFails` and `Exit` are the endpoints; `Send`
reserves a round, `RoundBegins` / `RoundRejected` are its start, `OwnerSpeaks`,
`CharacterAsked`, `CharacterAnswers` and `RoundOver` what it says; `RoundSettles`,
`RoundFails`, `RoundTimesOut` and `RoundReleases` how it ends, with a state write that may be
refused. `OwnerTurn` takes the lock for a turn; the `Solo...` actions are the parts of the solo
dream that meet the group's. `Crash` empties what is in memory.

### 3.8 MobileQueue, PhoneMailbox and OwnerTurn

`queue` and `nextSeq` are the two files of the channel, `phone` the cursor and the answer on
its way, `seen`, `sent`, `lost` and `restarted` history. `Send`, `Poll`, `PhoneStores`, `AnswerLost`
and `Ack` are its operations; either file may be unreadable, a write may be refused, items age.
`Readings` are what an operation finds: the queue or nothing, and the stored number or 1, which is
what `_read_stored_next_seq()` makes of a file that is missing or cannot be read (a missing file is
one that each operation cannot read). `Repairs` and `Repaired` are the repair of the number from the
queue; `Send` reads the number a second time. With neither file it starts at 1 again: `restarted`.

`PhoneMailbox` is what the phone may rely on, without numbers to repair, cursors to compare or
files to lose: messages stand in a line in the order they were sent, the phone stores them from the
oldest on, and what leaves the line otherwise is lost, counted so, and never comes back. The order
may be given up (`ordered`), in one step and for good: that is `restarted`. What is in
line is what is queued beyond the cursor (`InLine`); a poll does not change it, an acknowledgement
does not either, unless loading the file drops what is a day old.

`receipt` is what is on disk for each turn, `exec` its tasks, `inflight` the table that lets a
second request wait for the first, `conv` the holder of the lock, `forgotten` history. `Post`
and `StatusAsked` are the endpoints (look, mark a receipt without a task as interrupted, run
or replay), `Listed` the list with its pruning, `TakesLock`, `Captures`, `Delivers`,
`Completes` and `Fails` the execution, `Pushed` a message that needs no turn, `Crash` the end
of the process. A reply becomes an item of the phone's queue in `Delivers`.

### 3.9 WakeBridge

`rec` are the records of the inbox with what of their times has passed, `cursor` the forum
file's; `attempt` the executions of claimed records, `tick` the drain of the scheduler's tick,
`asking` and `poll` the other callers; `told` is history.

`Submit` and `HintArrives` are the endpoints, `PollBegins`, `PollReceives` and `PollCommits`
the poll of a source with its cursor, `Drain`, `TickBegins` and `TickDrains` claim, `Execute`
delivers and `Settle` writes the verdict if the token is still that of the claim. `LeaseEnds`
and `LifeEnds` are time; `Crash` ends the process. A save is one step: it is there or refused.

## 4. The runs

| run | instance | shows |
| --- | --- | --- |
| `message_queue` | 3 messages of a session, turns of other entrances, cancelled handlers, a foreign task without a handler, a retry, failing dead letters, shutdown any time; 222 k states | slow tasks end in order, none twice (`FifoConservation`); turns are recorded in the order of arrival (`ConversationOrder`); every message is settled (`EveryMessageEnds`) |
| `autonomy_queue` | 2 callers, 3 jobs (two of one key, one one-shot with a retry child), a store of 2; 289 k states | `CountedOnce`, the refinement `ImplementsLifecycle`, and `EveryJobEnds` though every run may be abandoned or blocked |
| `autonomy_tick` | a one-shot signal, a queued fact, a sensed fact, 2 jobs, cap 1, an owner message, a cut; 343 k states | `AtMostOneTalk`, `UnansweredCap`, `WakeNotReplayed`, `ToldOnce`, `OwnerServed` |
| `dream_session` | overlapping requests, 2 entrances, a wake, 2 dreams, 3 turns, 2 disk faults, a crash; 1.67 M states | `TurnsKept`, `CloseSeals`, `RetainedOnce` whatever overlaps; a turn is lost only by a refused append of its own, and a dreamer held back twice only by a refused mark |
| `scenario` | requests one at a time, the reconciler beside them, 3 stages, 3 dreams, 3 turns, an end of the process between requests, in a write or in a close; 1.37 M states | the documented promises of the dream, `HardExitLeaves`, `ClosedNotWritten`, the refinement `ImplementsDreamLife`; and `OneStagePerTurn` |
| `scenario_signs` | the same, one dream; **violation** of `SignsOfTheStage` | an exit sign named for one stage moves the next one |
| `memory_chain` | 2 turns, 2 earlier episodes, one request of each kind, 2 faults, a crash; 1.75 M states | `CapturedOnce`, `OneEpisodePerTurn`, `FedIsKept` |
| `memory_forget` | **violation** of `ForgottenStays` | a reflection that waits opens a forgotten episode again |
| `group_dream` | 2 entrances, 2 rounds, 2 characters, one refused write, a crash; 851 k states | `ExitWins`, `RoundInOneDream`, `ExitStopsRound`, `MarkerIsLive`, `RoundEnds` |
| `group_and_solo` | **violation** of `NeverBoth` | a dreamer held back resumes within a group dream |
| `owner_turn` | 2 turns, 2 executions, 3 messages, a queue of 2, pages of 1, 2 faults, an aging, a pruning, a crash; 266 k states, the two turns being interchangeable | `ExecutedOnce`, `VerdictStands`; `ReplyOnPhone` and the refinement `ImplementsMailbox` until a message is numbered with neither file |
| `wake_bridge` | a forum event and a hint, 2 executions, 2 polls, a refused save, a crash; 414 k states | `ToldOnceUnlessLost`, `NothingSkipped`, `EveryEventEnds` |

`TypeOK` is an invariant of every passing run but `scenario`, whose part of the state
`dream_session` types, and `message_queue`, whose types are proved. The two dream runs divide the
work: `dream_session` has the overlapping requests, a turn that waits across a hard exit, two
entrances past the barrier and the refused writes; `scenario` has one request at a time with the ends
of the process, since only there are the docs' promises kept. With overlapping requests `ClosedNotWritten`, `ImplementsDreamLife` (even that a dream is not replaced
by another) and `HardExitLeaves` fail; section 8 says what that means for the code.

Every property of a passing run has a mutant in `PROJECT.json`: a definition of the module
that is the code's with a plausible bug, under which the property is violated. The mutants are
in the modules, marked `Mutant` or `Mutant:`.

## 5. Bounds

- **MessageQueue.** Three messages are one whose handler is cancelled, one stranded behind it
  and one that starts a new task. One session, because sessions share nothing but the slow
  queue; the proofs are about any. One retry distinguishes the first and the last attempt. The
  run also passes with two sessions (498 k states) and with two retries (304 k).
- **AutonomyQueue.** Two callers and three claims of one job are what a stale holder needs; a
  store of two with three jobs trims. `Lease = 1`, `Ttl = 2`, `BackoffCap = 2`: every order of
  lapse, renewal, expiry and backoff occurs. Four tokens are enough: the two jobs in the store
  and the other caller hold three at most, so a claim always finds an unused one. The counters
  need no bound: a job's age ends its attempts. With two different keys for `j1` and `j2` the
  same properties hold too (514 k states; over five minutes with the liveness).
- **AutonomyTick.** Two jobs: a job and the child of its split, or two in file order. One cut:
  the run also passes with `MaxCuts = 2` (969 k states) and, for the invariants, with three
  jobs and cap 2 (6 M states); these are too long to be among the runs.
- **DreamSession.** Two entrances make a race of the barrier, and the second dream is one entered
  while a request of the first still waits; three turns are two that an archive may hold in part and
  one said after it; two faults are a refused closed state and another failure, a torn archive and a
  retry that fails too, or a refused append beside either.
- **ScenarioReconcile.** Three stages leave a stage to move twice; three turns are one that
  asks, one that meets the verdict and one after it; the one fault is that of an end of the process
  in a write or in a close; three dreams, one left, one entered again
  and one more. `MaxVersion = 10` allows each of them its entrance and its exit, with the
  three turns and a verdict; with 12 the run passes too (2.66 M states).
- **MemoryChain.** Two turns with one pair of merged episodes and two earlier ones make a
  consolidation due while a reflection waits. It also passes with three turns, one of which
  asks for a consolidation, and one earlier episode (4.4 M states).
- **GroupDream.** Two entrances overlap each other and an exit; two rounds are one of the
  dream that was left and one of the next; two characters let one answer after the exit.
- **MobileQueue and OwnerTurn.** A queue of two with three messages drops the oldest; a page of
  one makes a poll partial; two executions are a turn and its repetition after a crash. Two
  faults are as many as `ReplyOnPhone` stands: it is proved for up to two failed writes or
  reads, and a third can put a message behind the cursor (the write of the number is refused,
  its repair from the queue is refused, and the queue cannot be read when the next number is
  taken). One is enough where nothing is queued: the number is missing or cannot be read and starts
  at 1 again. That is the exception `restarted`, which the run reaches. The types, which say that no two queued messages share a number, hold for any number.
- **WakeBridge.** One published event and one hint, with two executions that may overlap by a
  lapsed lease. Two published events without a hint were too large to finish.

All bounds are guards of actions, not state constraints, so liveness is not affected by them.
Deadlock is not checked: each of the systems may come to rest (no more tasks, the jobs of the
instance used up, the dreams used up).

## 6. Fairness

- `MessageQueue!FairMessageSpec`: the worker is started, and its steps, those of each handler,
  the hand-over of a turn, a created task and the turns of other entrances are weakly fair:
  asyncio resumes what is ready, models, media and sockets answer or time out, a sleep ends.
  Nothing is assumed of arrivals, cancellations and shutdown. `EveryMessageEnds` names its
  exceptions: shutdown; a dead letter that could not be written, which ends the worker; a
  message left behind a cancelled handler, which stays there for good only if no other message
  of its session comes.
- `AutonomyQueue!FairSpec`: time passes; a caller without a job calls `claim_due()`, as the
  scheduler does each tick; a run ends, because the runner and the scheduler both bound it. An
  abandoned run needs no fairness. `EveryJobEnds` so rests on a scheduler that ticks and on
  autonomy being enabled; while it is off, queued jobs wait for the tick that closes them.
- `AutonomyTick!FairSpec`: the tick's own steps are weakly fair. An owner's turn ends
  (its model calls have timeouts), and is strongly fair, for it is enabled only while the
  tick rests at an await, and the tick does so again and again.
- `GroupDream!Fairness`: each round's own steps are weakly fair, the timer of
  `asyncio.wait_for()` among them. Nothing is assumed of models and of the conversation lock:
  that a round ends although both hang is what `RoundEnds` says.
- `WakeBridge!FairSpec`: the scheduler ticks, each attempt's execution and settlement end
  (they are bounded calls of one coroutine), and time passes. `EveryEventEnds` is about forum
  events: a hint may be renewed for ever.
- `DreamSession` and `ScenarioReconcile` state no liveness: nothing in the code makes an owner
  leave a dream. `MemoryChain` and `OwnerTurn` state none either: that a
  slow task ends is part of `EveryMessageEnds`, and a phone that does not poll gets nothing.

## 7. Proofs

Eight modules hold theorems, checked by tlapm to the last leaf. Each rests on the named
assumption about the constants in its component's module (`TaskAssumption`,
`MessageAssumption`,
`QueueAssumption`, `DreamAssumption`, `TickAssumption`, `MemoryAssumption`,
`GroupDreamAssumption`, `OwnerTurnAssumption` with `MobileQueueAssumption`,
`WakeBridgeAssumption`) and on nothing else: any number of tasks, jobs, callers, tokens,
requests, dreams, turns, rounds, events, faults and crashes.

**MessageQueue_proof**: of the slow queue `TypeCorrect` and `FifoCorrect`. The inductive
invariant adds to `TypeOK` and `FifoConservation` that the worker holds an item exactly when it
is in the handler or the backoff (`HandHeld`), that `unfinished` is at least the work in queue
and hand (`CounterCovers`, so `task_done()` never goes below zero), and that a backoff is only
entered with an attempt left (`RetryLeft`). `ComposedImplementsSlow` (each step of the message
queue is one of the slow queue or leaves it alone) carries both over: `FifoUnderLoad`. Of the
message queue `MessageTypeCorrect`, `SerialCorrect` (one message of a session is handled at a
time) and `OrderCorrect` (`ConversationOrder`). `ConversationOrder` needs that messages of a
session advance in their order (`InTurn`), which needs that the queue holds the queued ones and
no others, in order (`Queued`); that they are handled one at a time needs that a session has at
most one task, created or running (`OneTask`); and what was recorded is past its recording
(`SaidPassed`).

**AutonomyQueue_proof**: `TypeCorrect`, `ClaimsExclusive`, `FinishedStays`, `BudgetOnce`,
`LeaseKept`, `StoreImplementsLifecycle`. `FinishedIsFinal` (which no run checks by itself, the
life of a job says it) and `CountedOnce` are not
inductive as they stand: in a state where a concluded job still had its token, the late holder
of it could reopen the job or count it again. `IInv` adds that a concluded job has no token
(`ConcludedOver`), that only a concluded job was counted (`CountedConcluded`), that no two
callers were handed one token (`OwnTokens`, of which `ExclusiveClaim` is a consequence), and
that the file holds each job once (`OrderOK`, needed for the trimming and for the first loop
of `claim_due()`). From it: whoever owns a job owns one that is neither concluded nor counted.
The refinement has one lemma per action: a job's abstract step is the identity but for the
job that is claimed, closed, given back, concluded, appended or trimmed.

**DreamSession_proof**, whatever overlaps and whichever writes are refused: `TypeCorrect`,
`NoTurnLost`, `ClosedIsSealed`, `RetentionOnce`. The first three follow from `IInv`, which adds that
the transcript and what is sealed hold answered turns only, and that a turn not answered has no dream
(`LoggedAnswered`: else a turn not yet answered could be "sealed" and then appended). `NoTurnLost`
excepts the turns of which a line was refused when they were said (`broken`), and nothing else: no
later failure loses a turn. One lemma says that `Close`, with its archive whole, torn or refused and
its state stored or refused, keeps every turn in the transcript or an archive and seals only what is
archived whole. `RetentionOnce` needs an
invariant of its own, because it must hold through overlapping requests that write back old
states: the mark of the offer (`retention_offered_dream_id`) travels with the dream id in each
copy of the state, on disk or carried by a request. `RInv` says that ids are those given out
(`IdsKnown`), that an entrance's id is in no other state (`EntryFresh`), that a wake carries
its mark (`WakeMarked`), and that a dream some state shows unmarked was never retained
(`UnmarkedFree`), each but for the dreams of which the mark was refused (`unmarked`).

The same module, one request at a time (`~Overlap`) and with or without reconcilers:
`ExitAlwaysLeaves`, `ClosedStaysClosed`, `NeverReplaced`, the refinement `SessionImplementsLife`
of `DreamLife`, and for the scenario `OneStage`. Their
invariant `DInv` says that at most one request waits (`Alone`), that a dream is on exactly when
the state names one (`DreamOn`), that a waiting request carries the dream that is on (`Carried`, which
is what fails with overlapping requests), and that the dream that is on was never closed and,
while no disk failed, has no archive yet (`NotClosed`): so the hard exit finds nothing to collide
with. `ExitAlwaysLeaves` is about a disk that never failed, as the property says; after one failure a
torn archive, or one whose closed state was refused, may hold the dreamer in (section 8).
`ClosedStaysClosed` is about every dream whose closed state was stored, through every failure: a dream
whose closed state was refused is still on, and its chat goes on.
The refinement holds through all failures, too. Each outcome of a close maps to a step of
`DreamLife`: a refused or torn archive to `Stay`, or to none, a whole one to `Leave`, a whole one with the closed state
refused to `Keep`; a turn whose line was refused is `Said` and may or may not be in what is open.
`OneStage` adds `Known`: each reconciler's request
carries a version no newer than the state's, and one whose version is still current was made by
the last turn, in the stage and dream that are on, a turn that moved nothing. Hence a verdict
that passes `write_state_if_version()` moves the stage its own turn left in place. An end of the
process in a write sets the version back to 0, and takes every request to the reconciler with it.

**AutonomyTick_proof**: `TypeCorrect`, `OneTalk`, `CapKept`, `BarredForGood`, `SpokenOnce`. `IInv` adds that
a tick with a job in hand works on a processing one and has an empty batch otherwise
(`InHand`); that a talk is on its way or told only if its delivery was claimed, and on its way
only if it was not told yet (`Talks`); that the talks heard are at most the ledger's count, the
talks whose tick was cut off and the one about to be recorded, and that the count is below the
cap while a talk is on its way (`Counts`); that a queued signal is in one place at most and a
barred one in none (`Places`), without which a barred signal could come back with a split.
`SpokenOnce` counts: the jobs that told of a signal (`Tellers`) are as many as the ticks cut off
after their talk, and one more only once the signal can no longer be told of or its job is about
to be done (`Tally`).

**MemoryChain_proof**: `TypeCorrect`, `LinesOnce`, `ToldInOneEpisode`, `EvidenceKept`. The
invariant says that a turn waits for its summary in one place, or not any more
(`HandedOnce`); that a turn which has a summary, or is being reflected, will not be summarized
again (`Summed`); that each turn an episode tells is in that episode's own list of summaries,
or can no longer be reflected, or lost its mark with the process (`Accounted`); that what a
waiting reflection read is still so and nobody else tells what it is about to tell (`Fresh`);
and that a consolidation which overlapped no other writes over what it has read (`Alone`).

**GroupDream_proof**: `TypeCorrect`, `ExitHasLastWord`, `RoundStaysInDream`, `ExitStops`,
`MarkerCorrect`. The invariant says that a phase which offers the word has room for an answer
(`RoomToAnswer`); that the dream that is on comes of an entry that is over, with none under way
that could replace it, and that no revoked entry holds the reservation (`EntriesOK`); that a
marker is that of a round under way, or of one whose end reached no file (`MarkerOwned`); that
no line is late while a dream is on (`LateOnlyAfter`); and that a round which speaks holds the
conversation lock, and stays in the dream it first spoke in (`PlacedHere`).

**WakeBridge_proof**: `TypeCorrect`, `ToldOnce`, `CursorSkipsNothing`. The parts of the
invariant (`RecsOK`, `AttemptsOK`, `RestOK`, `CountsOK`, `PollOK`) are operators on the
records, so that bringing the records up to date, which every operation of the inbox does
first, is shown to keep them once.

**OwnerTurn_proof**: `OneExecution`, `VerdictIsFinal`, `Types`, `ReplyArrives`,
`ChannelIsMailbox`. `Tied` relates receipt, execution and
in-flight table for the turns whose receipt was kept: the receipt is there once the turn was
started, one execution has the turn, and while that runs the receipt says so and the table
holds it. `VerdictIsFinal` is read off each step from it. The channel's invariant counts the
failed writes and reads (`Spent`): the number file and the queue stand in for each other, so the
next number falls behind a queued message only after one failure, behind what the phone has seen
only after two, and behind that with nothing in the queue to repair it only after three
(`Numbers`). That is so until a message is numbered with neither the queue nor the number at hand
(`restarted`), for which one failure is enough where nothing is queued: the number file is missing or
cannot be read. `ReplyArrives` excepts what comes after it, and `ChannelIsMailbox` gives up the order
with that step. Until then, and up to two failures, what waits below the cursor is stored, the page on its way has no gap, and
nothing sent leaves the queue without being stored or counted lost (`Delivery`); a completed
receipt stands for a reply that was sent (`Promised`). `Types` needs `Numbers` and `Promised`
only, and holds after any number of failures. The refinement `ChannelIsMailbox` has the same
condition, which three failures break: a number may then come twice, and a message start below the
cursor. It needs besides that no message is sent twice (`Unsent`), so that the queue has one item of
each message, and that what a page holds is still queued, or was lost or stored before (`Line`).

Three theorems say what would mend what the violated runs show (section 8), each under the
condition the code does not keep, as a conjunct beside the specification:
`LockedForgetStays` (MemoryChain_proof), `OutFirstKeepsApart` (GroupDream_proof),
`LockedVerdictsKeepSigns` (DreamSession_proof).

Every safety invariant and action property of a passing run is so stated by a theorem. Only
model-checked is the liveness (`EveryMessageEnds`, `EveryJobEnds`, `OwnerServed`, `RoundEnds`,
`EveryEventEnds`): the prover does not reach fairness and ENABLED. No definition of the project is
recursive but for recursive functions; where a proof needs a least or a greatest number it takes it from
the order of the naturals, not by induction.

## 8. Findings

1. `memory_forget`: a reflection that merges its turns into a core episode saves the list it
   read before its wait for the model (`fixation_pipeline.py:1197`): an episode forgotten
   meanwhile is open again, which `episodic_memory.py:748` says ordinary recall cannot do.
   It suffices that `forget_episodes()` waits for the lock the reflection holds
   (`LockedForgetStays`).
2. `group_and_solo`: `dream_resume` makes the solo dream active without asking about group
   dreams (`admin/routers/dream.py:649`), and the entrance of a group dream lets a dreamer in
   who is held back; `docs/stage.md:341` and `core/stage/dream_state.py:89` say the two
   exclude each other. It suffices that the entrance asks for a solo dream that is out, not
   merely not on (`OutFirstKeepsApart`).
3. `scenario_signs`: the control block is judged by the stage that is read after the wait
   (`dream_pipeline.py:618`), and the reconciler moves the stage meanwhile;
   `docs/dream.md:260` says that ids count in their stage only. It suffices that a verdict is
   not written while a turn waits (`LockedVerdictsKeepSigns`).

Met on the way, without a run:

- an exception in `_write_dlq()` leaves the worker loop (`slow_queue.py:136`), whose docstring
  (`:105`) says it never exits;
- `talk_gate.send()` reads the dream guard before it waits for the conversation lock
  (`talk_gate.py:54`, `:83`): a talk may be captured and sent in a dream that began meanwhile
  (`docs/dream.md:31` keeps the two apart);
- with overlapping requests, a turn whose reply accepts the exit sets DREAM_CLOSING on the
  state it reads again (`dream_pipeline.py:800`), also when a hard exit has closed the dream,
  which leaves DREAM_CLOSING without an id that no hard exit leaves, or when a newer dream is
  on, which is then put into closing; a wake writes the state it carried over its wait
  (`admin/routers/dream.py:626`);
- the answer of `append_turn()` (`safe_write.py:155`) is not looked at (`dream_pipeline.py:588`): a
  turn whose append is refused was shown to the dreamer and is in no file, or in part;
- nor is that of the closed state (`dream_pipeline.py:1344`): where it is refused, the close reports
  success and starts the summary, and the dream stays on in DREAM_CLOSING. The next hard exit closes
  and summarizes it again, although the comment at `dream_pipeline.py:1197` says that a second close
  must not; a turn said in between is in a transcript that no longer equals the archive, and every
  later close collides;
- nor is that of the offer's mark (`admin/routers/dream.py:596`): a dream may then hold its dreamer
  back a second time;
- `archive_current()` takes an existing archive for done only if it equals the transcript
  (`dream_log.py:87`): after a torn write every retry collides;
- two dreams entered in one second share an id and an archive (`dream_pipeline.py:1068`);
- the entrance of a group dream stays reserved when the request is cancelled
  (`group_dream.py:187`);
- two consolidations may overlap, the worker's and the one of `character_permissions.py:167`,
  and the later write wins;
- a receipt that cannot be read is taken for none: the turn is executed again
  (`owner_turn_receipts.py:71`); a "completed" that cannot be written is recorded as "failed";
  an unreadable phone queue is overwritten by the next message; a refused queue write loses
  its message; all phones of an owner share one queue and one acknowledgement;
- `_read_stored_next_seq()` makes 1 of a number file that is missing or cannot be read
  (`channels/mobile.py:261`). With messages in the queue the number is repaired from them; with an
  empty queue the next message gets the number 1, at or below the phone's cursor: it is queued, never
  polled, and not counted lost. `docs/channels.md:77` calls the cursor monotonic;
- an exception after a wake was sent is taken for "not sent" and retried; one malformed event
  of a batch keeps the forum cursor where it is for good;
- `delivered_correlations` keeps 100 ids (`store.py:99`), so an id can be evicted while its job
  lives; the proactive ledger swallows a failed write (`proactive_ledger.py:110`);
- `docs/autonomy.md:97` and `:96` describe the talk gate and the retry of blocked jobs
  differently from `talk_gate.py:54` and `store.py:318`; `docs/dream.md:516` has `dream_turn`
  refuse DREAM_EXIT_REQUESTED, `dream_pipeline.py:379` accepts it; `docs/dream.md:206` has the
  reconciler asked when the control block is missing or invalid *and* the stage stalled, the
  code asks for either alone (`dream_pipeline.py:747`); the ledger's docstring names outlets
  that no longer call `record_send()`; an exception inside `talk_gate.send()` is reported as a
  failure of the model; admission looks for `str(uid)` among queue keys of the form
  `user_<uid>` (`policy.py:73`);
- `handle_message()` reads the dream guard (`main.py:237`) before it looks at media and waits
  for the conversation lock (`main.py:415`), and not again: a dream may begin meanwhile;
- `post_process_slow()` of two turns run beside one another, so the slow queue may get the
  later turn first: its order is that of acceptance, not that of the conversation;
- `docs/user-teach/cross_project_interaction_flow.md:315` says QQ does not take the conversation
  lock; `main.py:415` takes it.

## 9. What is not modelled

- Of the job store and the tick: `replace_config`, the per-source clocks and the circuit's
  timing; saves that `safe_write_json()` reports as failed; the daily budget and the gap in the
  talk gate (an outcome of the gate); the policies of the fanout.
- Of the dream's disk: a read that fails where the file is there, a rename that is torn without the
  end of the process, an archive directory that cannot be made; with scenarios, refused writes.
- Of dreams: RPG dreams; the completion of a scenario's last stage and its stall and recovery
  counters (why the reconciler is asked is a choice); what follows a close (summary,
  distillation, afterglow text); the group's tension and body after a round, its settings,
  deletion and audit, the collisions of its archive. The wait for a group's snapshots is taken
  to suspend always, though it may not.
- Of memory: the eviction of storylines, deleting, revising and decay of other stores,
  `activity_summary.write_episode`, refused writes of the episodes and the mid-term file.
- Of QQ's messages: the adapter before `enqueue()`, the order of the capture's own writes
  (`MemoryChain`), the owner's clocks (`AutonomyTick`).
- Of owner turns: a repeated id with another payload, the waiting form of the poll, the
  companion's own service, which is built alike.
- Of the wake bridge: due times and their order (a record is due or not), the deduplication
  window of perceptions (a gate), rejected records, a change of the active character,
  observation counters, `max_items`; a save of the inbox torn between its two renames, which leaves
  none. `poll_source()` has no caller in production; it is
  modelled because it is the code's own protocol for a cursor.
- Texts: prompts, replies, summaries, what tools do. A model's answer is a choice among the
  outcomes the code tells apart.
- External code: model providers, QQ, MCP servers, hardware.
- Components listed as `not_modelled` in `PROJECT.json`: those of the plan below, and those
  that have no protocol: pipeline and prompts, tools, triggers, RPG dreams, dream texts,
  transports, small feature stores, formatting and logs, migration and backup, the admin
  panel, scripts, firmware. They are most of the repository by lines, and what the models
  cover is its concurrent and durable part.

## 10. Plan

Modelling, in this order: the scheduler's gating, state machine and defer queue; hardware jobs; activity
sessions; the weekly letter; self management; the MCP owner task. The number of runs stays
small: a new component joins or replaces a run.

Proofs: what the passing runs check of safety is proved. What is left is to state more: the
promises of the dream with overlapping requests in the weaker form that holds there, and an abstract
specification of the inbox of external events.

## 11. Running it

    tlc -workers 2 -config MCAutonomyQueue.cfg MCAutonomyQueue
    tlapm AutonomyQueue_proof.tla

Each run of section 4 is named in `PROJECT.json` with its module and its .cfg; the longest is
`autonomy_queue` (under three minutes). `PROJECT.json` also maps every definition to the lines
it models, and lists the hazards with the properties that would catch them.
