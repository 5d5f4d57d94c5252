--------------------------- MODULE AutonomyQueue ---------------------------
(***************************************************************************)
(* The durable job queue of core/autonomy/store.py: enqueue, claim_due,     *)
(* renew, finish and finish_dream_blocked_with_signal_split over one scope  *)
(* (uid, char_id).  Every operation loads the state file, changes it and    *)
(* saves it under the scope's lock, so it is one step.  A caller keeps only *)
(* the Job it was handed: its id and its lease token.  It may be slow, may  *)
(* be cancelled in the middle of its run, and may come back after its lease *)
(* was given to another.                                                    *)
(*                                                                         *)
(* Times are relative: how old a job is, how long its lease and its backoff *)
(* still last. A uuid lease token is a value no job and no caller holds.    *)
(***************************************************************************)
EXTENDS Naturals, Sequences

CONSTANTS
  Job,         \* job ids
  Key,         \* dedupe keys
  KeyOf,       \* the dedupe key each job is enqueued with
  Wake,        \* the jobs that carry a one-shot desktop_wake signal
  Child,       \* the retry child a wake job leaves its other signals to
  NoJob,       \* ... or that it has none
  Worker,      \* callers of claim_due()
  NoClaim,
  Token,       \* lease tokens
  NoToken,     \* the empty token of a job nobody holds
  MaxJobs,     \* MAX_JOBS
  Lease,       \* LEASE_SECONDS
  Ttl,         \* a job's ttl_seconds
  BackoffCap   \* the longest backoff of finish()

ASSUME QueueAssumption ==
  /\ KeyOf \in [Job -> Key]
  /\ Wake \subseteq Job
  /\ NoJob \notin Job
  /\ Child \in [Wake -> Job \cup {NoJob}]
  /\ \A j \in Wake : Child[j] \notin Wake
  /\ NoToken \notin Token
  /\ NoClaim \notin [job : Job, token : Token, lost : BOOLEAN]
  /\ MaxJobs \in Nat \ {0}
  /\ Lease \in Nat \ {0}
  /\ Ttl \in Nat
  /\ BackoffCap \in Nat \ {0}

VARIABLES
  order,      \* state["jobs"]: the job ids in file order, oldest first
  rec,        \* the record of each job
  claim,      \* what each worker still holds of its claim_due()
  concluded,  \* history: jobs the holder finished for good
  counted     \* history: how often each job burnt budget and circuit

vars == <<order, rec, claim, concluded, counted>>

Status == {"none", "pending", "processing", "done", "dropped"}

JobRecord ==
  [status : Status, age : 0..(Ttl + 1), lease : 0..Lease, wait : 0..BackoffCap,
   token : Token \cup {NoToken}, attempts : Nat]

Claim == [job : Job, token : Token, lost : BOOLEAN]

TypeOK ==
  /\ order \in Seq(Job)
  /\ rec \in [Job -> JobRecord]
  /\ claim \in [Worker -> Claim \cup {NoClaim}]
  /\ concluded \subseteq Job
  /\ counted \in [Job -> Nat]

(* A record as it enters the file; a child inherits its parent's age. *)
Record(status, age, wait) ==
  [status |-> status, age |-> age, lease |-> 0, wait |-> wait, token |-> NoToken, attempts |-> 0]

Init ==
  /\ order = <<>>
  /\ rec = [j \in Job |-> Record("none", 0, 0)]
  /\ claim = [w \in Worker |-> NoClaim]
  /\ concluded = {}
  /\ counted = [j \in Job |-> 0]

Live(j) == rec[j].status \in {"pending", "processing"}

Smaller(a, b) == IF a <= b THEN a ELSE b

(* Mutant: the backoff is not capped. *)
BackoffUncapped(attempts) == 2 ^ (attempts - 1)

(* min(30 * 2 ** (attempts - 1), 15 * 60), in units of the first backoff. *)
Backoff(attempts) ==
  LET doubled == 2 ^ (attempts - 1) IN
  IF doubled \in 0..BackoffCap THEN doubled ELSE BackoffCap

-----------------------------------------------------------------------------

InStore(j) == rec[j].status \in {"pending", "processing", "done"}

(* Appending to state["jobs"]: _save_unlocked() keeps the last MaxJobs jobs *)
(* and drops the oldest, whatever its status.                               *)
Trimmed == IF Len(order) < MaxJobs THEN {} ELSE {Head(order)}

AppendJob(j, r, others) ==
  /\ order' = Append(IF Trimmed = {} THEN order ELSE Tail(order), j)
  /\ rec' = [k \in Job |-> IF k = j THEN r
                           ELSE IF k \in Trimmed THEN Record("dropped", 0, 0)
                           ELSE others[k]]

(* record_signal_outcome(): a job that is over before it starts, kept for   *)
(* the audit; it takes a place in the file like any other.                  *)
RecordOutcome(j) ==
  /\ rec[j].status = "none"
  /\ \A p \in Wake : Child[p] # j
  /\ AppendJob(j, Record("done", 0, 0), rec)
  /\ UNCHANGED <<claim, concluded, counted>>

(* enqueue(): a live job with the same key makes it return "duplicate".     *)
Enqueue(j) ==
  /\ rec[j].status = "none"
  /\ \A p \in Wake : Child[p] # j
  /\ \A k \in Job : Live(k) => KeyOf[k] # KeyOf[j]
  /\ AppendJob(j, Record("pending", 0, 0), rec)
  /\ UNCHANGED <<claim, concluded, counted>>

-----------------------------------------------------------------------------
(* claim_due(), first loop: a lapsed lease makes its job pending again. The *)
(* token of the lapsed holder stays in the record.                          *)
Settled(j) ==
  IF rec[j].status = "processing" /\ rec[j].lease = 0
  THEN [rec[j] EXCEPT !.status = "pending"]
  ELSE rec[j]

Due(j) == Settled(j).status = "pending" /\ rec[j].wait = 0

InTime(j) == rec[j].age <= Ttl

(* Mutant: a due job past its time to live is only skipped. *)
PassedSkipped(j) == Settled(j)

(* Second loop: due jobs past their time to live are closed on the way.     *)
Passed(j) == IF Due(j) THEN [Settled(j) EXCEPT !.status = "done"] ELSE Settled(j)

TokensInUse ==
  {rec[j].token : j \in Job} \cup {claim[w].token : w \in {v \in Worker : claim[v] # NoClaim}}

Before(i) == {order[k] : k \in 1..(i - 1)}

(* A due job in its claimer's hands. *)
Handed(j, t) ==
  [status |-> "processing", age |-> rec[j].age, lease |-> Lease, wait |-> 0,
   token |-> t, attempts |-> rec[j].attempts + 1]

(* The first due job in file order that is in time is handed out. *)
ClaimDue(w) ==
  /\ claim[w] = NoClaim
  /\ \E i \in DOMAIN order, t \in Token \ TokensInUse :
       /\ Due(order[i]) /\ InTime(order[i])
       /\ \A j \in Before(i) : ~(Due(j) /\ InTime(j))
       /\ rec' = [j \in Job |->
                    IF j = order[i] THEN Handed(j, t)
                    ELSE IF j \in Before(i) THEN Passed(j) ELSE Settled(j)]
       /\ claim' = [claim EXCEPT ![w] = [job |-> order[i], token |-> t, lost |-> FALSE]]
  /\ UNCHANGED <<order, concluded, counted>>

ClaimNothing(w) ==
  /\ claim[w] = NoClaim
  /\ \A j \in Job : ~(Due(j) /\ InTime(j))
  /\ rec' = [j \in Job |-> Passed(j)]
  /\ UNCHANGED <<order, claim, concluded, counted>>

-----------------------------------------------------------------------------
Holds(w) == claim[w] # NoClaim

(* The claim is still the job's last one. *)
Owns(w) ==
  /\ Holds(w)
  /\ InStore(claim[w].job)
  /\ rec[claim[w].job].token = claim[w].token

OwnsLease(w) == Owns(w) /\ rec[claim[w].job].status = "processing"

(* The keeper of run_job() renews while the run lasts; one refusal makes it *)
(* stop and marks the run lease_lost.                                       *)
Renew(w) ==
  /\ OwnsLease(w)
  /\ ~claim[w].lost
  /\ rec' = [rec EXCEPT ![claim[w].job].lease = Lease]
  /\ UNCHANGED <<order, claim, concluded, counted>>

RenewRefused(w) ==
  /\ Holds(w)
  /\ ~OwnsLease(w)
  /\ claim' = [claim EXCEPT ![w].lost = TRUE]
  /\ UNCHANGED <<order, rec, concluded, counted>>

(* The run is over: finish() with a disposition that entered the model      *)
(* counts as an evaluation and moves the circuit; an admission-only one     *)
(* does not. lease_lost counts.                                             *)
LetGo(w) == claim' = [claim EXCEPT ![w] = NoClaim]

(* Mutant: the token of the last holder stays in a closed record. *)
ClosedKeepsToken(r) == [r EXCEPT !.status = "done", !.lease = 0, !.wait = 0]

Closed(r) == [r EXCEPT !.status = "done", !.lease = 0, !.token = NoToken, !.wait = 0]

FinishDone(w, evaluated) ==
  /\ Owns(w)
  /\ claim[w].lost => evaluated
  /\ LET j == claim[w].job IN
       /\ rec' = [rec EXCEPT ![j] = Closed(@)]
       /\ concluded' = concluded \cup {j}
       /\ counted' = IF evaluated THEN [counted EXCEPT ![j] = @ + 1] ELSE counted
  /\ LetGo(w)
  /\ UNCHANGED order

(* Blocked by a dream: finish(retry=True), admission-only, with a backoff.  *)
FinishRetry(w) ==
  /\ Owns(w)
  /\ ~claim[w].lost
  /\ claim[w].job \notin Wake
  /\ LET j == claim[w].job IN
       rec' = [rec EXCEPT ![j].status = "pending", ![j].lease = 0, ![j].token = NoToken,
                          ![j].wait = Backoff(rec[j].attempts)]
  /\ LetGo(w)
  /\ UNCHANGED <<order, concluded, counted>>

(* Blocked by a dream with a one-shot signal in the job: the job is over,   *)
(* the other signals that are still in time go to a child that does not     *)
(* outlive its parent.                                                      *)
FinishSplit(w) ==
  /\ OwnsLease(w)
  /\ ~claim[w].lost
  /\ claim[w].job \in Wake
  /\ LET j == claim[w].job
         parentDone == [rec EXCEPT ![j] = Closed(@)]
     IN  /\ \/ rec' = parentDone /\ UNCHANGED order
            \/ /\ Child[j] # NoJob
               /\ rec[Child[j]].status = "none"
               /\ \E age \in rec[j].age..(Ttl - 1) :
                    AppendJob(Child[j], Record("pending", age, Backoff(rec[j].attempts)), parentDone)
         /\ concluded' = concluded \cup {j}
  /\ LetGo(w)
  /\ UNCHANGED counted

(* Mutant: the counters move whoever finishes. *)
FinishStaleCounts(w) ==
  /\ Holds(w)
  /\ ~Owns(w) \/ (claim[w].job \in Wake /\ ~OwnsLease(w))
  /\ counted' = [counted EXCEPT ![claim[w].job] = @ + 1]
  /\ LetGo(w)
  /\ UNCHANGED <<order, rec, concluded>>

(* The job has another holder, or is gone: only the audit run is appended.  *)
FinishStale(w) ==
  /\ Holds(w)
  /\ ~Owns(w) \/ (claim[w].job \in Wake /\ ~OwnsLease(w))
  /\ LetGo(w)
  /\ UNCHANGED <<order, rec, concluded, counted>>

(* The run is cancelled by the scheduler's timeout, or the process dies:    *)
(* nothing is finished, the job stays "processing" until its lease lapses.  *)
Abandon(w) ==
  /\ Holds(w)
  /\ LetGo(w)
  /\ UNCHANGED <<order, rec, concluded, counted>>

Less(n) == IF n = 0 THEN 0 ELSE n - 1

Older(r) ==
  [r EXCEPT !.age = Smaller(r.age + 1, Ttl + 1), !.lease = Less(r.lease), !.wait = Less(r.wait)]

Tick ==
  /\ rec' = [j \in Job |-> IF Live(j) THEN Older(rec[j]) ELSE rec[j]]
  /\ UNCHANGED <<order, claim, concluded, counted>>

Finish(w) ==
  \/ \E evaluated \in BOOLEAN : FinishDone(w, evaluated)
  \/ FinishRetry(w) \/ FinishSplit(w) \/ FinishStale(w)

Next ==
  \/ \E j \in Job : Enqueue(j) \/ RecordOutcome(j)
  \/ \E w \in Worker :
       \/ ClaimDue(w) \/ ClaimNothing(w)
       \/ Renew(w) \/ RenewRefused(w)
       \/ Finish(w) \/ Abandon(w)
  \/ Tick

Spec == Init /\ [][Next]_vars

(* The scheduler ticks for ever, and a run has a timeout. *)
FairSpec ==
  /\ Spec
  /\ WF_vars(Tick)
  /\ \A w \in Worker : WF_vars(ClaimDue(w) \/ ClaimNothing(w)) /\ WF_vars(Finish(w))

-----------------------------------------------------------------------------
(* Two callers never both hold a job: whoever is late finds another's token *)
(* in the record. The scope lock alone does not give this, a run spans many *)
(* load-save steps.                                                         *)
ExclusiveClaim ==
  \A v, w \in Worker : v # w /\ Owns(v) /\ Owns(w) => claim[v].job # claim[w].job

(* A finished job never runs again, however late a stale holder comes back. *)
FinishedIsFinal == \A j \in concluded : rec[j].status \in {"done", "dropped"}

(* One job burns the daily budget and moves the circuit at most once, over  *)
(* all its attempts and all the callers that ran it.                        *)
CountedOnce == \A j \in Job : counted[j] <= 1

(* While its lease runs, a caller loses its job only to the trimming of the *)
(* store.                                                                   *)
LeaseRespected ==
  [][\A w \in Worker :
       OwnsLease(w) /\ rec[claim[w].job].lease > 0 /\ claim'[w] = claim[w] =>
         Owns(w)' \/ rec'[claim[w].job].status = "dropped"]_vars

(* Every job ends: it is run to an end, or its time to live runs out, or it *)
(* is trimmed. A dream that never ends cannot keep one alive.               *)
EveryJobEnds == \A j \in Job : Live(j) ~> ~Live(j)

-----------------------------------------------------------------------------
StateOf(j) ==
  CASE rec[j].status = "none" -> "absent"
    [] rec[j].status = "pending" -> "waiting"
    [] rec[j].status = "processing" -> "running"
    [] rec[j].status = "dropped" -> "forgotten"
    [] rec[j].status = "done" -> IF j \in concluded THEN "concluded" ELSE "expired"

Lifecycle == INSTANCE JobLifecycle WITH
  state <- [j \in Job |-> StateOf(j)],
  holder <- [j \in Job |-> rec[j].token]

(* The store keeps its promise: each job moves along the abstract life, and *)
(* is decided by its last holder only.                                      *)
ImplementsLifecycle == Lifecycle!Spec
=============================================================================
