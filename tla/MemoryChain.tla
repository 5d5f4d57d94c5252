---------------------------- MODULE MemoryChain ----------------------------
(***************************************************************************)
(* core/memory/fixation_pipeline.py: what becomes of an owner's turn.       *)
(* capture writes it to the short-term history and the event log; tasks of  *)
(* the slow queue then summarize it (mid-term), reflect summaries into an   *)
(* episode and consolidate episodes into the identity file.  The sweep      *)
(* trigger reflects what is old, the owner may have an episode forgotten,   *)
(* and the admin panel may run a consolidation of its own.                  *)
(*                                                                         *)
(* The slow queue runs one task at a time, in order (module SlowQueue).     *)
(* uid_lock is held across a wait by reflect alone, so "the lock is free"   *)
(* is "no reflection waits for the model"; every other holder is one step.  *)
(* The texts are gone: an episode is the set of turns it was made of, the   *)
(* identity the set of episodes whose evidence it holds, and what the model *)
(* answers is a choice.  A mid-term id stands for its turn.                 *)
(***************************************************************************)
EXTENDS Naturals, Sequences

CONSTANTS
  Turn,        \* the turns of one owner with one character
  Trigger,     \* those a conversational trigger began: no words of the owner
  Rewritten,   \* those whose reply short_term.load() sanitizes into another text
  Earlier,     \* how many core episodes earlier turns have left, all consolidated
  MaxMid,      \* mid_term.MAX_EVENTS
  MinDue,      \* the least number of reflections that can make a consolidation due
  Attempts,    \* 1 + slow_queue._MAX_RETRIES
  MaxSweeps, MaxRequests, MaxFaults, MaxCrashes   \* bounds

ASSUME MemoryAssumption ==
  /\ Trigger \subseteq Turn /\ Rewritten \subseteq Turn
  /\ Earlier \in Nat /\ MaxMid \in Nat \ {0} /\ MinDue \in Nat \ {0} /\ Attempts \in Nat \ {0}
  /\ {MaxSweeps, MaxRequests, MaxFaults, MaxCrashes} \subseteq Nat

VARIABLES
  life,        \* how far the pipeline is with each turn
  lines,       \* copies of each line of a turn in short_term and event_log
  mid,         \* the mid-term file
  eps,         \* the episodic file
  since,       \* fixation_state: reflections since the last consolidation
  identity,    \* the identity file: the episodes whose evidence it holds
  queue,       \* the slow queue's tasks of this owner
  job,         \* the task in the worker's hand
  pc,          \* where its handler is
  attempt,     \* and the attempt it is in
  work,        \* the locals of a waiting reflection: to_process, existing_eps
  cons,        \* the locals of each waiting consolidation
  judged,      \* history: episodes a synthesis saw that changed no dimension
  forgotten,   \* history: episodes the owner asked to forget
  torn,        \* history: turns merged into an episode by a process that ended there
  overlapped,  \* history: two consolidations were under way at once
  left         \* what is left of each bound

vars == <<life, lines, mid, eps, since, identity, queue, job, pc, attempt, work, cons,
          judged, forgotten, torn, overlapped, left>>
files == <<lines, mid, eps, since, identity>>
worker == <<job, pc, attempt, work>>
history == <<judged, forgotten, torn, overlapped>>

Line == {"short_user", "short_assistant", "log_user", "log_assistant"}
Job == {"capture", "summarize", "reflect", "consolidate"}
Task == [job : Job, turns : SUBSET Turn]
NoTask == [job |-> "none", turns |-> {}]
Mid == [turn : Turn, promoted : BOOLEAN]
Episode == [turns : SUBSET Turn, mids : SUBSET Turn, core : BOOLEAN,
            status : {"open", "resolved", "forgotten"}, fed : BOOLEAN]
Caller == {"worker", "probe"}
NoWork == [todo |-> {}, existing |-> <<>>]
Off == [pc |-> "off", base |-> {}, snap |-> {}]
Bounds == [sweeps |-> MaxSweeps, requests |-> MaxRequests,
           faults |-> MaxFaults, crashes |-> MaxCrashes]

TypeOK ==
  /\ life \in [Turn -> {"none", "captured", "handed"}]
  /\ lines \in [Turn -> [Line -> Nat]]
  /\ mid \in Seq(Mid)
  /\ eps \in Seq(Episode)
  /\ since \in Nat
  /\ identity \subseteq Nat /\ judged \subseteq Nat /\ forgotten \subseteq Nat
  /\ queue \in Seq(Task)
  /\ job \in Task \cup {NoTask}
  /\ pc \in {"idle", "start", "llm"}
  /\ attempt \in 0..(Attempts - 1)
  /\ work \in [todo : SUBSET Turn, existing : Seq(Episode)]
  /\ cons \in [Caller -> [pc : {"off", "llm", "mark"}, base : SUBSET Nat, snap : SUBSET Nat]]
  /\ torn \subseteq Turn
  /\ overlapped \in BOOLEAN
  /\ left \in [{"sweeps", "requests", "faults", "crashes"} -> Nat]

Init ==
  /\ life = [t \in Turn |-> "none"]
  /\ lines = [t \in Turn |-> [l \in Line |-> 0]]
  /\ mid = <<>> /\ since = 0
  /\ eps = [i \in 1..Earlier |-> [turns |-> {}, mids |-> {}, core |-> TRUE,
                                  status |-> "open", fed |-> TRUE]]
  /\ identity = 1..Earlier
  /\ queue = <<>> /\ job = NoTask /\ pc = "idle" /\ attempt = 0 /\ work = NoWork
  /\ cons = [c \in Caller |-> Off]
  /\ judged = {} /\ forgotten = {} /\ torn = {} /\ overlapped = FALSE
  /\ left = Bounds

Spend(what) == left[what] > 0 /\ left' = [left EXCEPT ![what] = @ - 1]

Locked == pc = "llm" /\ job.job = "reflect"

Enqueue(j, T) == queue' = Append(queue, [job |-> j, turns |-> T])

-----------------------------------------------------------------------------
(* Capture *)

LinesOf(t) == IF t \in Trigger THEN {"short_assistant", "log_assistant"} ELSE Line

(* Mutant of AlreadyThere: append without the check of the turn id. *)
AlreadyThereNever(t, l) == FALSE

(* Both stores skip a line they already have; the history compares with     *)
(* what load() returns, which is not what was written if it was sanitized.  *)
AlreadyThere(t, l) ==
  /\ lines[t][l] > 0
  /\ ~(l = "short_assistant" /\ t \in Rewritten)

(* The writes of capture_turn(), the lines in failed being refused. *)
WriteLines(t, failed) ==
  lines' = [lines EXCEPT ![t] =
             [l \in Line |-> IF l \in LinesOf(t) \ failed /\ ~AlreadyThere(t, l)
                             THEN lines[t][l] + 1 ELSE lines[t][l]]]

Refusable(t) == {l \in LinesOf(t) : ~AlreadyThere(t, l)}

Capture(t) ==
  /\ life[t] = "none"
  /\ \A u \in Turn : u < t => life[u] # "none"
  /\ ~Locked
  /\ life' = [life EXCEPT ![t] = "captured"]
  /\ WriteLines(t, {})
  /\ UNCHANGED <<mid, eps, since, identity, queue, worker, cons, history, left>>

(* A write that failed raises after the others were tried; the turn is      *)
(* handed to the slow queue to be captured again.                           *)
CaptureIncomplete(t) ==
  /\ life[t] = "none"
  /\ \A u \in Turn : u < t => life[u] # "none"
  /\ ~Locked
  /\ Spend("faults")
  /\ \E failed \in (SUBSET Refusable(t)) \ {{}} : WriteLines(t, failed)
  /\ life' = [life EXCEPT ![t] = "captured"]
  /\ Enqueue("capture", {t})
  /\ UNCHANGED <<mid, eps, since, identity, worker, cons, history>>

(* post_process_slow(), a task of its own after the answer was sent. *)
HandToSlowQueue(t) ==
  /\ life[t] = "captured"
  /\ ~Locked
  /\ life' = [life EXCEPT ![t] = "handed"]
  /\ Enqueue("summarize", {t})
  /\ UNCHANGED <<files, worker, cons, history, left>>

-----------------------------------------------------------------------------
(* The worker *)

TakeTask ==
  /\ pc = "idle" /\ queue # <<>>
  /\ job' = Head(queue) /\ queue' = Tail(queue)
  /\ pc' = "start" /\ attempt' = 0
  /\ UNCHANGED <<life, files, work, cons, history, left>>

EndTask == job' = NoTask /\ pc' = "idle" /\ attempt' = 0 /\ work' = NoWork

(* Mutant of Raise: one attempt too many. *)
RaiseOnceMore ==
  \/ /\ attempt < Attempts
     /\ attempt' = attempt + 1 /\ pc' = "start" /\ job' = job /\ work' = NoWork
  \/ /\ attempt >= Attempts
     /\ EndTask

(* The handler raised: again, or to the dead letters. *)
Raise ==
  \/ /\ attempt + 1 < Attempts
     /\ attempt' = attempt + 1 /\ pc' = "start" /\ job' = job /\ work' = NoWork
  \/ /\ attempt + 1 >= Attempts
     /\ EndTask

At(where, j) == pc = where /\ job.job = j

TheTurn == CHOOSE t \in Turn : job.turns = {t}

CaptureAgain ==
  /\ At("start", "capture")
  /\ \/ /\ WriteLines(TheTurn, {})
        /\ EndTask
        /\ UNCHANGED left
     \/ /\ \E failed \in (SUBSET Refusable(TheTurn)) \ {{}} : WriteLines(TheTurn, failed)
        /\ Spend("faults")
        /\ Raise
  /\ UNCHANGED <<life, mid, eps, since, identity, queue, cons, history>>

Summarized(t) == \E i \in DOMAIN mid : mid[i].turn = t

(* Already there, isolated by its source, or (after the wait) empty. *)
SummarizeNothing ==
  /\ At("start", "summarize") \/ At("llm", "summarize")
  /\ EndTask
  /\ UNCHANGED <<life, files, queue, cons, history, left>>

SummarizeBegins ==
  /\ At("start", "summarize")
  /\ ~Summarized(TheTurn)
  /\ pc' = "llm"
  /\ UNCHANGED <<life, files, queue, job, attempt, work, cons, history, left>>

SummarizeFails ==
  /\ At("llm", "summarize")
  /\ Spend("faults")
  /\ Raise
  /\ UNCHANGED <<life, files, queue, cons, history>>

(* mid_term.append() keeps the last entries and swallows a refused write;   *)
(* an emotional turn is reflected at once.                                  *)
SummarizeReturns ==
  /\ At("llm", "summarize")
  /\ ~Summarized(TheTurn)
  /\ LET kept == IF Len(mid) >= MaxMid THEN SubSeq(mid, Len(mid) - MaxMid + 2, Len(mid)) ELSE mid
     IN \/ /\ mid' = Append(kept, [turn |-> TheTurn, promoted |-> FALSE])
           /\ UNCHANGED left
        \/ UNCHANGED mid /\ Spend("faults")
  /\ \/ Enqueue("reflect", job.turns)
     \/ UNCHANGED queue
  /\ EndTask
  /\ UNCHANGED <<life, lines, eps, since, identity, cons, history>>

-----------------------------------------------------------------------------
(* Reflection *)

ToProcess == {t \in job.turns \ Trigger :
                \E i \in DOMAIN mid : mid[i].turn = t /\ ~mid[i].promoted}

AlreadyReflected == \E i \in DOMAIN eps : eps[i].mids \cap job.turns # {}

ReflectNothing ==
  /\ At("start", "reflect")
  /\ ToProcess = {} \/ AlreadyReflected
  /\ EndTask
  /\ UNCHANGED <<life, files, queue, cons, history, left>>

ReflectBegins ==
  /\ At("start", "reflect")
  /\ ToProcess # {} /\ ~AlreadyReflected
  /\ pc' = "llm"
  /\ work' = [todo |-> ToProcess, existing |-> eps]
  /\ UNCHANGED <<life, files, queue, job, attempt, cons, history, left>>

ReflectFails ==
  /\ At("llm", "reflect")
  /\ Spend("faults")
  /\ Raise
  /\ UNCHANGED <<life, files, queue, cons, history>>

(* _resolve_matching_open_episodes(), on the file as it is now. *)
Closable == {i \in DOMAIN eps : ~eps[i].core /\ eps[i].status # "resolved"}
Closed(C) == [i \in DOMAIN eps |-> IF i \in C THEN [eps[i] EXCEPT !.status = "resolved"] ELSE eps[i]]

(* An answer that does not parse, or a bland one (which may still close). *)
ReflectSkips ==
  /\ At("llm", "reflect")
  /\ \E C \in SUBSET Closable : eps' = Closed(C)
  /\ EndTask
  /\ UNCHANGED <<life, lines, mid, since, identity, queue, cons, history, left>>

(* A core episode much like the new one takes the turns in; what is saved   *)
(* is the list read before the wait.                                        *)
MergedInto(d) ==
  /\ work.existing[d].core /\ work.existing[d].status # "resolved"
  /\ eps' = [work.existing EXCEPT ![d].turns = @ \cup work.todo]

NewEpisode(core) == [turns |-> work.todo, mids |-> work.todo, core |-> core,
                     status |-> "open", fed |-> FALSE]

SharesEvents == \E i \in DOMAIN eps : eps[i].turns \cap work.todo # {}

(* write_episode(): skipped when an episode has one of its events, or, by   *)
(* its text, when one of the last is similar.                               *)
Written(C, core) ==
  \/ ~SharesEvents /\ eps' = Append(Closed(C), NewEpisode(core))
  \/ eps # <<>> /\ eps' = Closed(C)

Merge == \E d \in DOMAIN work.existing : MergedInto(d)
Write == \E C \in SUBSET Closable, core \in BOOLEAN : Written(C, core)

(* Mutant of ReflectReturns: the summaries are not marked as promoted. *)
ReflectReturnsUnmarked ==
  /\ At("llm", "reflect")
  /\ Merge \/ Write
  /\ since' = since + 1
  /\ \/ since + 1 >= MinDue /\ Enqueue("consolidate", {})
     \/ UNCHANGED queue
  /\ EndTask
  /\ UNCHANGED <<life, lines, mid, identity, cons, history, left>>

ReflectReturns ==
  /\ At("llm", "reflect")
  /\ Merge \/ Write
  /\ mid' = [i \in DOMAIN mid |-> IF mid[i].turn \in work.todo
                                  THEN [mid[i] EXCEPT !.promoted = TRUE] ELSE mid[i]]
  /\ since' = since + 1
  /\ \/ since + 1 >= MinDue /\ Enqueue("consolidate", {})
     \/ UNCHANGED queue
  /\ EndTask
  /\ UNCHANGED <<life, lines, identity, cons, history, left>>

-----------------------------------------------------------------------------
(* Consolidation: a task of the worker, or the admin panel's test of it *)

Unfed == {i \in DOMAIN eps : ~eps[i].fed}

ConsolidationEnds(c) ==
  /\ cons' = [cons EXCEPT ![c] = Off]
  /\ IF c = "worker" THEN EndTask ELSE UNCHANGED worker

Starts(c) ==
  IF c = "worker" THEN At("start", "consolidate") /\ UNCHANGED left
                  ELSE cons[c].pc = "off" /\ Spend("requests")

ConsolidateNothing(c) ==
  /\ Starts(c) /\ ~Locked
  /\ Unfed = {}
  /\ ConsolidationEnds(c)
  /\ UNCHANGED <<life, files, queue, history>>

ConsolidateBegins(c) ==
  /\ Starts(c) /\ ~Locked
  /\ Unfed # {}
  /\ cons' = [cons EXCEPT ![c] = [pc |-> "llm", base |-> identity, snap |-> Unfed]]
  /\ IF c = "worker" THEN pc' = "llm" /\ UNCHANGED <<job, attempt, work>> ELSE UNCHANGED worker
  /\ overlapped' = (overlapped \/ \E o \in Caller \ {c} : cons[o].pc # "off")
  /\ UNCHANGED <<life, files, queue, judged, forgotten, torn>>

(* No usable synthesis, or the identity file refuses the write. *)
ConsolidateFails(c) ==
  /\ cons[c].pc = "llm"
  /\ Spend("faults")
  /\ cons' = [cons EXCEPT ![c] = Off]
  /\ IF c = "worker" THEN Raise ELSE UNCHANGED worker
  /\ UNCHANGED <<life, files, queue, history>>

ConsolidateSaves(c) ==
  /\ cons[c].pc = "llm" /\ ~Locked
  /\ identity' = cons[c].base \cup cons[c].snap
  /\ cons' = [cons EXCEPT ![c].pc = "mark"]
  /\ UNCHANGED <<life, lines, mid, eps, since, queue, worker, history, left>>

ConsolidateUnchanged(c) ==
  /\ cons[c].pc = "llm"
  /\ judged' = judged \cup cons[c].snap
  /\ cons' = [cons EXCEPT ![c].pc = "mark"]
  /\ UNCHANGED <<life, files, queue, worker, forgotten, torn, overlapped, left>>

(* Mutant of ConsolidateMarks: whatever is there by now is marked. *)
ConsolidateMarksAll(c) ==
  /\ cons[c].pc = "mark" /\ ~Locked
  /\ eps' = [i \in DOMAIN eps |-> [eps[i] EXCEPT !.fed = TRUE]]
  /\ since' = 0
  /\ ConsolidationEnds(c)
  /\ UNCHANGED <<life, lines, mid, identity, queue, history, left>>

ConsolidateMarks(c) ==
  /\ cons[c].pc = "mark" /\ ~Locked
  /\ eps' = [i \in DOMAIN eps |-> IF i \in cons[c].snap THEN [eps[i] EXCEPT !.fed = TRUE] ELSE eps[i]]
  /\ since' = 0
  /\ ConsolidationEnds(c)
  /\ UNCHANGED <<life, lines, mid, identity, queue, history, left>>

-----------------------------------------------------------------------------
(* What happens around it *)

(* _sweep_uid(): what is older than eleven hours and not promoted, trigger   *)
(* turns included.  Ages grow with the position in the file; which have     *)
(* passed the limit is chosen when the sweep looks.                         *)
Sweep ==
  /\ \E k \in DOMAIN mid :
       LET old == {mid[i].turn : i \in {n \in 1..k : ~mid[n].promoted}}
       IN old # {} /\ Enqueue("reflect", old)
  /\ Spend("sweeps")
  /\ UNCHANGED <<life, files, worker, cons, history>>

(* After twelve hours load() no longer returns an entry. *)
Expire ==
  /\ mid # <<>>
  /\ mid' = Tail(mid)
  /\ UNCHANGED <<life, lines, eps, since, identity, queue, worker, cons, history, left>>

(* forget_episodes() takes no lock. *)
Forget(i) ==
  /\ i \in DOMAIN eps /\ eps[i].status # "forgotten"
  /\ Spend("requests")
  /\ eps' = [eps EXCEPT ![i].status = "forgotten", ![i].core = FALSE]
  /\ forgotten' = forgotten \cup {i}
  /\ UNCHANGED <<life, lines, mid, since, identity, queue, worker, cons, judged, torn, overlapped>>

ProcessEnds ==
  /\ queue' = <<>>
  /\ EndTask
  /\ cons' = [c \in Caller |-> Off]
  /\ life' = [t \in Turn |-> IF life[t] = "captured" THEN "handed" ELSE life[t]]
  /\ UNCHANGED <<lines, mid, since, identity, judged, forgotten, overlapped>>

Crash ==
  /\ Spend("crashes")
  /\ ProcessEnds
  /\ UNCHANGED <<eps, torn>>

(* The process ends after the episodes were saved and before the mid-term   *)
(* entries were marked.                                                     *)
CrashInReflect ==
  /\ At("llm", "reflect")
  /\ Spend("crashes")
  /\ \/ Merge /\ torn' = torn \cup work.todo
     \/ Write /\ UNCHANGED torn
  /\ ProcessEnds

Next ==
  \/ \E t \in Turn : Capture(t) \/ CaptureIncomplete(t) \/ HandToSlowQueue(t)
  \/ TakeTask \/ CaptureAgain
  \/ SummarizeNothing \/ SummarizeBegins \/ SummarizeFails \/ SummarizeReturns
  \/ ReflectNothing \/ ReflectBegins \/ ReflectFails \/ ReflectSkips \/ ReflectReturns
  \/ \E c \in Caller : ConsolidateNothing(c) \/ ConsolidateBegins(c) \/ ConsolidateFails(c)
                       \/ ConsolidateSaves(c) \/ ConsolidateUnchanged(c) \/ ConsolidateMarks(c)
  \/ Sweep \/ Expire
  \/ \E i \in 1..Len(eps) : Forget(i)
  \/ Crash \/ CrashInReflect

Spec == Init /\ [][Next]_vars

-----------------------------------------------------------------------------
(* However often a turn is captured again after a partial failure, no line  *)
(* of it is in the history or the log twice, unless its reply is one that   *)
(* load() rewrites.                                                         *)
CapturedOnce ==
  \A t \in Turn, l \in Line :
    lines[t][l] > 1 => l = "short_assistant" /\ t \in Rewritten

(* A turn is told in one episode at most, through eager and swept           *)
(* reflections of the same summaries, retries and crashes, unless a crash   *)
(* cut its merge into a core episode from the mark in the mid-term file.    *)
OneEpisodePerTurn ==
  \A i, k \in DOMAIN eps : i # k => eps[i].turns \cap eps[k].turns \subseteq torn

(* An episode that is marked as consolidated was seen by a synthesis whose  *)
(* result is in the identity file (or changed nothing), though reflections  *)
(* went on and the process ended meanwhile; two consolidations at once can  *)
(* overwrite each other's.                                                  *)
FedIsKept ==
  ~overlapped => \A i \in DOMAIN eps : eps[i].fed => i \in identity \cup judged

(* forget_episodes(): "without allowing ordinary recall to restore it". *)
ForgottenStays == \A i \in forgotten \cap DOMAIN eps : eps[i].status # "open"
=============================================================================
