---------------------------- MODULE AutonomyTick ----------------------------
(***************************************************************************)
(* One owner's autonomy: the tick of core/autonomy/runner.py with the run   *)
(* of one job, the talk gate, and the world it runs in: the owner's turns   *)
(* on the conversation lock, dreams that begin and end, the autonomy switch, *)
(* the scheduler's timeout that cancels a tick, and crashes.                *)
(*                                                                         *)
(* Everything runs on one event loop.  Between two awaits a tick is not     *)
(* interleaved with anything but the end of the process, so the owner and   *)
(* the dream act only while it rests at an await (AtRest).                  *)
(*                                                                         *)
(* Time is left out: which leases have lapsed, which backoffs have elapsed, *)
(* which jobs and signals are past their time to live, whether the owner    *)
(* was active of late and whether a switch is on is chosen when the code    *)
(* looks.  Jobs are numbered in file order.                                 *)
(***************************************************************************)
EXTENDS Naturals, Sequences, FiniteSets

CONSTANTS
  Queued,       \* signals a producer stores with enqueue_signal()
  Wake,         \* the one-shot desktop_wake signals among them
  Sensed,       \* signals the tick's own adapters see, again and again
  MaxJob,       \* bound: jobs created
  Cap,          \* unanswered talks after which the talk gate closes
  MaxMessages,  \* bound: owner messages
  MaxCuts       \* bound: cancelled ticks and crashes

ASSUME TickAssumption ==
  /\ Wake \subseteq Queued
  /\ Queued \cap Sensed = {}
  /\ MaxJob \in Nat \ {0}
  /\ Cap \in Nat \ {0}
  /\ MaxMessages \in Nat
  /\ MaxCuts \in Nat

Job == 1..MaxJob
Signal == Queued \cup Sensed
NoJob == 0

VARIABLES
  (* core/autonomy/store.py, on disk *)
  pending,     \* pending_signals
  status,      \* of each job
  sigs,        \* the signals of its opportunity
  wait,        \* whether it is in a dream backoff
  delivered,   \* delivered_correlations
  (* core/scheduler/proactive_ledger.py, on disk *)
  unanswered,  \* consecutive_unanswered_talks
  (* the tick in progress *)
  pc, batch, cur, talkable, result,
  (* its surroundings *)
  gate,        \* the conversation lock: its holder, then its waiters
  dream,
  (* history *)
  produced,    \* signals ever stored
  barred,      \* wake signals whose run a dream blocked
  told,        \* talks fanned out for each job
  heard,       \* talks fanned out since the owner's last message
  cutTalks,    \* ticks cut off between the fanout of a talk and finish()
  messages, cuts

storeVars == <<pending, status, sigs, wait, delivered>>
tickVars  == <<pc, batch, cur, talkable, result>>
histVars  == <<produced, barred, told, heard, cutTalks, messages, cuts>>
vars == <<storeVars, unanswered, tickVars, gate, dream, histVars>>

Sync == {"drained", "queued", "claimed", "finish"}
Await == {"idle", "llm", "confirm", "gate", "fanout", "record"}
Outcome == {"none", "dream", "uncounted", "evaluated"}

TypeOK ==
  /\ pending \subseteq Queued
  /\ status \in [Job -> {"none", "pending", "processing", "done"}]
  /\ sigs \in [Job -> SUBSET Signal]
  /\ wait \in [Job -> BOOLEAN]
  /\ delivered \subseteq Job
  /\ unanswered \in 0..Cap
  /\ pc \in Sync \cup Await
  /\ batch \subseteq Signal
  /\ cur \in Job \cup {NoJob}
  /\ talkable \in BOOLEAN
  /\ result \in Outcome
  /\ gate \in Seq({"owner", "autonomy"})
  /\ dream \in BOOLEAN
  /\ produced \subseteq Queued
  /\ barred \subseteq Wake
  /\ told \in [Job -> Nat]
  /\ {heard, cutTalks, messages, cuts} \subseteq Nat

Init ==
  /\ pending = {}
  /\ status = [j \in Job |-> "none"]
  /\ sigs = [j \in Job |-> {}]
  /\ wait = [j \in Job |-> FALSE]
  /\ delivered = {}
  /\ unanswered = 0
  /\ pc = "idle" /\ batch = {} /\ cur = NoJob
  /\ talkable = FALSE /\ result = "none"
  /\ gate = <<>>
  /\ dream = FALSE
  /\ produced = {} /\ barred = {}
  /\ told = [j \in Job |-> 0]
  /\ heard = 0 /\ cutTalks = 0 /\ messages = 0 /\ cuts = 0

AtRest == pc \in Await
Live(j) == status[j] \in {"pending", "processing"}
Unused == {j \in Job : status[j] = "none"}
NextJob == {j \in Unused : \A k \in Unused : j <= k}
HasWake(j) == sigs[j] \cap Wake # {}

-----------------------------------------------------------------------------
(* The world around the tick. *)

(* enqueue_signal(): producers also run on other threads. A desktop_wake is *)
(* not stored while autonomy is off or a dream is on.                       *)
Produce(s) ==
  /\ s \in Queued \ produced
  /\ s \in Wake => ~dream
  /\ pending' = pending \cup {s}
  /\ produced' = produced \cup {s}
  /\ UNCHANGED <<status, sigs, wait, delivered, unanswered, tickVars, gate, dream,
                 barred, told, heard, cutTalks, messages, cuts>>

(* handle_message(): the dream guard first, then the ledger, then the lock. *)
OwnerMessage ==
  /\ AtRest /\ ~dream
  /\ messages < MaxMessages
  /\ \A i \in DOMAIN gate : gate[i] # "owner"
  /\ unanswered' = 0
  /\ heard' = 0
  /\ gate' = Append(gate, "owner")
  /\ messages' = messages + 1
  /\ UNCHANGED <<storeVars, tickVars, dream, produced, barred, told, cutTalks, cuts>>

HoldsGate(who) == gate # <<>> /\ Head(gate) = who

OwnerTurnEnds ==
  /\ AtRest
  /\ HoldsGate("owner")
  /\ gate' = Tail(gate)
  /\ UNCHANGED <<storeVars, unanswered, tickVars, dream, histVars>>

(* enter_dream() and the close of a dream do not take the lock. *)
DreamTurns ==
  /\ AtRest
  /\ dream' = ~dream
  /\ UNCHANGED <<storeVars, unanswered, tickVars, gate, histVars>>

Surroundings ==
  \/ \E s \in Queued : Produce(s)
  \/ OwnerMessage \/ OwnerTurnEnds \/ DreamTurns

-----------------------------------------------------------------------------
(* tick(): from the signals to the claimed job. *)

(* Switched off: a pending reopen is consumed, it must not surprise later. *)
TickDisabled ==
  /\ pc = "idle"
  /\ pending' = pending \ Wake
  /\ pending' # pending
  /\ UNCHANGED <<status, sigs, wait, delivered, unanswered, tickVars, gate, dream, histVars>>

(* Mutant: the drained signals stay in the file. *)
DrainKeepsPending ==
  /\ pc = "idle"
  /\ \E dropped \in SUBSET pending, sensed \in SUBSET Sensed :
       batch' = (pending \ dropped) \cup sensed
  /\ batch' # {} => Unused # {}
  /\ pc' = "drained"
  /\ UNCHANGED <<pending, status, sigs, wait, delivered, unanswered, cur, talkable,
                 result, gate, dream, histVars>>

(* Every pending signal is taken; those past their time, or of a routine    *)
(* that is switched off, are dropped. The adapters add what they sense.     *)
Drain ==
  /\ pc = "idle"
  /\ \E dropped \in SUBSET pending, sensed \in SUBSET Sensed :
       batch' = (pending \ dropped) \cup sensed
  /\ batch' # {} => Unused # {}
  /\ pending' = {}
  /\ pc' = "drained"
  /\ UNCHANGED <<status, sigs, wait, delivered, unanswered, cur, talkable, result,
                 gate, dream, histVars>>

(* The dedupe key is made of the ids of queued signals, and of what is      *)
(* sensed and the quarter of an hour: it can only collide without a queued  *)
(* signal.                                                                  *)
SameLiveJob == batch \subseteq Sensed /\ \E j \in Job : Live(j) /\ sigs[j] = batch

Enqueue ==
  /\ pc = "drained"
  /\ \/ /\ batch # {}
        /\ \E next \in NextJob : /\ status' = [status EXCEPT ![next] = "pending"]
                                /\ sigs' = [sigs EXCEPT ![next] = batch]
     \/ /\ batch = {} \/ SameLiveJob
        /\ UNCHANGED <<status, sigs>>
  /\ batch' = {}
  /\ pc' = "queued"
  /\ UNCHANGED <<pending, wait, delivered, unanswered, cur, talkable, result, gate,
                 dream, histVars>>

(* claim_due(): lapsed are the leases found expired, elapsed the backoffs   *)
(* that are over, late the jobs past their time to live.                    *)
Claim ==
  /\ pc = "queued"
  /\ \E lapsed \in SUBSET {j \in Job : status[j] = "processing"},
        elapsed \in SUBSET {j \in Job : wait[j]}, late \in SUBSET {j \in Job : Live(j)} :
       LET Waiting(j) == status[j] = "pending" \/ (status[j] = "processing" /\ j \in lapsed)
           Due(j)     == Waiting(j) /\ (wait[j] => j \in elapsed)
           Ready      == {j \in Job : Due(j) /\ j \notin late}
           Before(j)  == \A k \in Ready : j <= k
           closed     == {j \in Job : Due(j) /\ j \in late /\ Before(j)}
       IN  /\ status' = [j \in Job |->
                CASE j \in closed -> "done"
                  [] j \in Ready /\ Before(j) -> "processing"
                  [] OTHER -> IF Waiting(j) THEN "pending" ELSE status[j]]
           /\ wait' = [j \in Job |-> wait[j] /\ j \notin elapsed]
           /\ \/ Ready = {} /\ cur' = NoJob /\ pc' = "idle"
              \/ /\ cur' \in {j \in Ready : Before(j)}
                 /\ pc' = "claimed"
  /\ UNCHANGED <<pending, sigs, delivered, unanswered, batch, talkable, result, gate, dream, histVars>>

-----------------------------------------------------------------------------
(* run_job(): admission, without an await. *)

Ends(outcome) ==
  /\ pc' = "finish"
  /\ result' = outcome
  /\ UNCHANGED <<storeVars, unanswered, batch, cur, talkable, gate, dream, histVars>>

AdmissionDream == pc = "claimed" /\ dream /\ Ends("dream")

(* The owner is active or holds the lock, the circuit is open, the daily    *)
(* budget is used up, or the last evaluation is too recent: no retry.       *)
AdmissionRefused == pc = "claimed" /\ Ends("uncounted")

(* The model is offered talk_owner unless a hard limit already holds. *)
EnterModel ==
  /\ pc = "claimed" /\ ~dream /\ gate = <<>>
  /\ talkable' \in (IF unanswered < Cap THEN BOOLEAN ELSE {FALSE})
  /\ pc' = "llm"
  /\ UNCHANGED <<storeVars, unanswered, batch, cur, result, gate, dream, histVars>>

(* The model says nothing more, works with tools only, fails, times out, or *)
(* the owner became active; a confirmation can also be a cancel.            *)
EndsSilently == pc \in {"llm", "confirm"} /\ Ends("evaluated")

-----------------------------------------------------------------------------
(* talk_gate.send(): checked once more, without an await up to the lock. *)

WantsTalk == pc \in {"llm", "confirm"} /\ talkable

(* No hard limit of talk_gate.check(). *)
Open == ~dream /\ unanswered < Cap

(* A soft limit: the model is asked once to confirm. *)
SoftBlocked ==
  /\ pc = "llm" /\ WantsTalk /\ Open
  /\ pc' = "confirm"
  /\ UNCHANGED <<storeVars, unanswered, batch, cur, talkable, result, gate, dream, histVars>>

SendBlockedByDream == WantsTalk /\ dream /\ unanswered < Cap /\ Ends("dream")

(* proactive talk switched off, the daily budget used up, or a duplicate *)
SendRefusedUncounted == WantsTalk /\ unanswered < Cap /\ Ends("uncounted")

(* unanswered cap, do not disturb, nobody to send to, no pipeline *)
SendRefused == WantsTalk /\ Ends("evaluated")

(* Mutant: the delivery is claimed only when the talk is out. *)
SendWithoutClaim ==
  /\ WantsTalk /\ Open
  /\ cur \notin delivered
  /\ gate' = Append(gate, "autonomy")
  /\ pc' = "gate"
  /\ UNCHANGED <<storeVars, unanswered, batch, cur, talkable, result, dream, histVars>>

Send ==
  /\ WantsTalk /\ Open
  /\ cur \notin delivered
  /\ delivered' = delivered \cup {cur}
  /\ gate' = Append(gate, "autonomy")
  /\ pc' = "gate"
  /\ UNCHANGED <<pending, status, sigs, wait, unanswered, batch, cur, talkable,
                 result, dream, histVars>>

(* record_assistant_turn(): the turn is written under the lock ... *)
Capture ==
  /\ pc = "gate" /\ HoldsGate("autonomy")
  /\ gate' = Tail(gate)
  /\ pc' = "fanout"
  /\ UNCHANGED <<storeVars, unanswered, batch, cur, talkable, result, dream, histVars>>

(* ... or fails to be: run_job() takes it for a failure of the model. *)
CaptureFails ==
  /\ pc = "gate" /\ HoldsGate("autonomy")
  /\ gate' = Tail(gate)
  /\ pc' = "finish" /\ result' = "evaluated"
  /\ UNCHANGED <<storeVars, unanswered, batch, cur, talkable, dream, histVars>>

(* ... and sent to the channels after the lock was released. *)
Fanout ==
  /\ pc = "fanout"
  /\ told' = [told EXCEPT ![cur] = @ + 1]
  /\ heard' = heard + 1
  /\ pc' = "record"
  /\ UNCHANGED <<storeVars, unanswered, batch, cur, talkable, result, gate, dream,
                 produced, barred, cutTalks, messages, cuts>>

(* Every channel went away since send() looked. *)
FanoutNobody == pc = "fanout" /\ Ends("evaluated")

(* Mutant: the ledger is not told. *)
RecordSendSkipped ==
  /\ pc = "record"
  /\ pc' = "finish" /\ result' = "evaluated"
  /\ UNCHANGED <<storeVars, unanswered, batch, cur, talkable, gate, dream, histVars>>

(* Mutant: counted by talk_gate.send() and by the path that delivered it. *)
RecordSendTwice ==
  /\ pc = "record"
  /\ unanswered' = unanswered + 2
  /\ pc' = "finish" /\ result' = "evaluated"
  /\ UNCHANGED <<storeVars, batch, cur, talkable, gate, dream, histVars>>

RecordSend ==
  /\ pc = "record"
  /\ unanswered' = unanswered + 1
  /\ pc' = "finish" /\ result' = "evaluated"
  /\ UNCHANGED <<storeVars, batch, cur, talkable, gate, dream, histVars>>

-----------------------------------------------------------------------------
(* The end of tick(): finish() or the split of a wake job. *)

TickOver ==
  /\ pc' = "idle" /\ cur' = NoJob /\ talkable' = FALSE /\ result' = "none"
  /\ UNCHANGED <<pending, delivered, unanswered, batch, gate, dream, produced, told, heard,
                 cutTalks, messages, cuts>>

FinishDone ==
  /\ pc = "finish" /\ result # "dream"
  /\ status' = [status EXCEPT ![cur] = "done"]
  /\ TickOver
  /\ UNCHANGED <<sigs, wait, barred>>

(* Blocked by a dream, nothing one-shot in the job: it is retried. *)
FinishRetry ==
  /\ pc = "finish" /\ result = "dream" /\ ~HasWake(cur)
  /\ status' = [status EXCEPT ![cur] = "pending"]
  /\ wait' = [wait EXCEPT ![cur] = TRUE]
  /\ TickOver
  /\ UNCHANGED <<sigs, barred>>

(* Mutant: a blocked job is retried whatever its signals. *)
FinishSplitRetries ==
  /\ pc = "finish" /\ result = "dream" /\ HasWake(cur)
  /\ status' = [status EXCEPT ![cur] = "pending"]
  /\ wait' = [wait EXCEPT ![cur] = TRUE]
  /\ barred' = barred \cup (sigs[cur] \cap Wake)
  /\ TickOver
  /\ UNCHANGED sigs

(* Blocked by a dream with a wake signal: the job is over, the other        *)
(* signals still in time go to a child job.                                 *)
FinishSplit ==
  /\ pc = "finish" /\ result = "dream" /\ HasWake(cur)
  /\ \E rest \in SUBSET (sigs[cur] \ Wake) :
       IF rest = {}
       THEN /\ status' = [status EXCEPT ![cur] = "done"]
            /\ UNCHANGED <<sigs, wait>>
       ELSE \E next \in NextJob :
              /\ status' = [status EXCEPT ![cur] = "done", ![next] = "pending"]
              /\ sigs' = [sigs EXCEPT ![next] = rest]
              /\ wait' = [wait EXCEPT ![next] = TRUE]
  /\ barred' = barred \cup (sigs[cur] \cap Wake)
  /\ TickOver

-----------------------------------------------------------------------------
(* A tick that is cut off: the scheduler's wait_for() cancels it at an      *)
(* await, or the process ends anywhere. The job stays "processing".         *)

CutOff ==
  /\ cuts < MaxCuts /\ cuts' = cuts + 1
  /\ cutTalks' = IF pc = "record" \/ (pc = "finish" /\ told[cur] > 0)
                 THEN cutTalks + 1 ELSE cutTalks
  /\ pc' = "idle" /\ batch' = {} /\ cur' = NoJob
  /\ talkable' = FALSE /\ result' = "none"
  /\ UNCHANGED <<storeVars, unanswered, produced, barred, told, heard, messages>>

(* Mutant: a cancelled waiter keeps its place on the lock. *)
CancelKeepsGate ==
  /\ pc \in Await \ {"idle"}
  /\ CutOff
  /\ UNCHANGED <<gate, dream>>

(* The tick leaves the lock or its place in the queue to the owner's turn. *)
Cancel ==
  /\ pc \in Await \ {"idle"}
  /\ CutOff
  /\ gate' = IF \E i \in DOMAIN gate : gate[i] = "owner" THEN <<"owner">> ELSE <<>>
  /\ UNCHANGED dream

Crash ==
  /\ CutOff
  /\ gate' = <<>>
  /\ UNCHANGED dream

-----------------------------------------------------------------------------
TickStep ==
  \/ TickDisabled \/ Drain \/ Enqueue \/ Claim
  \/ AdmissionDream \/ AdmissionRefused \/ EnterModel
  \/ EndsSilently \/ SoftBlocked
  \/ SendBlockedByDream \/ SendRefusedUncounted \/ SendRefused \/ Send
  \/ Capture \/ CaptureFails \/ Fanout \/ FanoutNobody \/ RecordSend
  \/ FinishDone \/ FinishRetry \/ FinishSplit

Next == Surroundings \/ TickStep \/ Cancel \/ Crash

Spec == Init /\ [][Next]_vars

(* The loop runs what is ready; an owner's turn ends, though it is ready only *)
(* while the tick rests at an await.                                        *)
FairSpec == Spec /\ WF_vars(TickStep) /\ SF_vars(OwnerTurnEnds)

-----------------------------------------------------------------------------
(* One opportunity is spoken of at most once, however often its job is cut  *)
(* off, lapses and is claimed again: the delivery is claimed on disk before *)
(* the talk waits for the lock.                                             *)
AtMostOneTalk == \A j \in Job : told[j] <= 1

(* The owner never hears more than Cap talks without having answered, but   *)
(* for talks whose tick was cut off before the ledger was told.             *)
UnansweredCap == heard <= Cap + cutTalks

(* A desktop reopen that a dream blocked is never evaluated again, while    *)
(* the signals it was merged with are.                                      *)
WakeNotReplayed ==
  \A s \in barred : s \notin pending \cup batch /\ \A j \in Job : Live(j) => s \notin sigs[j]

(* A queued signal is spoken of once, but for ticks cut off after the talk  *)
(* went out and before the job was finished.                                *)
ToldOnce ==
  \A s \in Queued : Cardinality({j \in Job : told[j] > 0 /\ s \in sigs[j]}) <= 1 + cutTalks

(* An owner's message gets its turn: neither a talk, nor a cancelled one,   *)
(* keeps the lock.                                                          *)
OwnerServed ==
  (\E i \in DOMAIN gate : gate[i] = "owner") ~> (\A i \in DOMAIN gate : gate[i] # "owner")
=============================================================================
