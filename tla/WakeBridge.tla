----------------------------- MODULE WakeBridge -----------------------------
(***************************************************************************)
(* core/wake_bridge.py: the durable inbox of outside events.  A forum event *)
(* is received once, by the request that reports it or by a poll of its     *)
(* source; a garden hint is a level that may be reported again and starts a *)
(* new cycle when the last one ended.  The scheduler's tick, and the drains  *)
(* that requests and polls start, claim a due record under a lease, offer   *)
(* it to the gates and the pipeline (scheduler/gating.py,                   *)
(* scheduler/loop.py, perceive_event.py) and settle what came of it.        *)
(*                                                                         *)
(* No clock: a lease and the life of a record end at any moment, by actions *)
(* of their own; which of the waiting records are due, and so which is the  *)
(* oldest due one, is left open, and so is what the gates say (the window   *)
(* of 90 s in which perceive_event.py refuses the same key is a gate, too). *)
(* A claim has the number of its attempt, which is its token and is used    *)
(* again when no record holds it.  Records that fail validation, a change   *)
(* of the active character and the counters for observation are left out.   *)
(***************************************************************************)
EXTENDS Integers, FiniteSets

CONSTANTS
  Published,  \* number of events the forum source has, in the order of its cursor
  Hint,       \* reasons of garden hints
  MaxRuns,    \* bound: attempts under way, or cut off and not recovered
  Allowed     \* bounds: refused writes, crashes, polls

ASSUME WakeBridgeAssumption ==
  /\ Published \in Nat /\ MaxRuns \in Nat
  /\ IsFiniteSet(Hint) /\ Hint \cap (0..Published) = {}
  /\ Allowed \in [{"refused", "crashes", "polls"} -> Nat]

VARIABLES
  rec,      \* events[key] on disk, with what of its times has passed
  cursor,   \* last_cursor of the forum file
  attempt,  \* the executions of claimed records
  tick,     \* the drain of the scheduler's tick
  asking,   \* drains that requests and polls are about to make
  poll,     \* poll_source()
  left,     \* what the bounds leave
  told      \* history: how often a key was told, in its cycle, with the verdict
            \* stored under a lease that had not run out

vars == <<rec, cursor, attempt, tick, asking, poll, left, told>>

Forum == 1..Published
Key == Forum \cup Hint
Scope == {"forum", "garden"}
KeysOf(s) == IF s = "forum" THEN Forum ELSE Hint
ScopeOf(k) == IF k \in Forum THEN "forum" ELSE "garden"
Run == 1..MaxRuns
None == 0
AnyKey == 0

Waiting == {"pending", "processing"}
Unfinished == {"running", "sent", "retry", "final"}

Record(status) == [status |-> status, token |-> None, lapsed |-> FALSE, old |-> FALSE]
NoAttempt == [key |-> None, pc |-> "done", counts |-> FALSE]
NoTick == [todo |-> {}, run |-> None]
NoPoll == [todo |-> {}, upto |-> 0, ok |-> TRUE]

(* A record has a token, and a lease that may lapse, while it is processing *)
(* and then only; two records never have the same token.                    *)
TypeOK ==
  /\ rec \in [Key -> [status : Waiting \cup {"none", "consumed", "expired"},
                      token : Run \cup {None}, lapsed : BOOLEAN, old : BOOLEAN]]
  /\ \A k \in Key : (rec[k].status = "processing") = (rec[k].token # None)
  /\ \A k \in Key : rec[k].lapsed => rec[k].status = "processing"
  /\ \A j, k \in Key : rec[j].token = rec[k].token => j = k \/ rec[k].token = None
  /\ cursor \in 0..Published
  /\ attempt \in [Run -> [key : Key \cup {None}, pc : Unfinished \cup {"done"}, counts : BOOLEAN]]
  /\ tick \in [todo : SUBSET Scope, run : Run \cup {None}]
  /\ asking \subseteq Forum \cup {AnyKey}
  /\ poll \in [todo : SUBSET Forum, upto : 0..Published, ok : BOOLEAN]
  /\ left \in [DOMAIN Allowed -> Nat]
  /\ told \in [Key -> Nat]

Init ==
  /\ rec = [k \in Key |-> Record("none")]
  /\ cursor = 0 /\ asking = {}
  /\ attempt = [a \in Run |-> NoAttempt]
  /\ tick = NoTick /\ poll = NoPoll
  /\ left = Allowed
  /\ told = [k \in Key |-> 0]

Spend(what) == left[what] > 0 /\ left' = [left EXCEPT ![what] = @ - 1]

(* _save_state_sync(): the new records are in the file, or the write is     *)
(* refused, which raises.                                                   *)
Saved(records) == rec' = records /\ UNCHANGED left
Refused == Spend("refused") /\ UNCHANGED rec

-----------------------------------------------------------------------------
(* Receipt *)

(* _receive(): a key that is in the file, whatever became of it, is a       *)
(* duplicate.                                                               *)
Known(k) == rec[k].status # "none"

Receive(k) ==
  /\ ~Known(k)
  /\ Saved([rec EXCEPT ![k] = Record("pending")])

(* submit(): the request that received the event makes a drain of its own.  *)
(* A refused receipt changes nothing.                                       *)
Submit(k) ==
  /\ Receive(k)
  /\ asking' = asking \cup {k}
  /\ UNCHANGED <<cursor, attempt, tick, poll, told>>

(* Mutant of Recovered: the token of the lost claim stays. *)
RecoveredWithToken(r) == IF r.lapsed THEN [r EXCEPT !.status = "pending"] ELSE r

(* _recover_and_expire() for one record. *)
Recovered(r) == IF r.lapsed THEN [Record("pending") EXCEPT !.old = r.old] ELSE r

Current(k) ==
  IF rec[k].status \in Waiting /\ rec[k].old THEN Record("expired") ELSE Recovered(rec[k])

AllCurrent(s) == [k \in Key |-> IF k \in KeysOf(s) THEN Current(k) ELSE rec[k]]

(* _receive_garden_hint(): a hint that waits or is being told absorbs the    *)
(* new one, any other starts a cycle.                                       *)
HintAbsorbed(h) ==
  /\ Current(h).status \in Waiting
  /\ Saved(AllCurrent("garden"))
  /\ UNCHANGED <<attempt, told>>

HintFresh(h) ==
  /\ Current(h).status \notin Waiting
  /\ Saved([AllCurrent("garden") EXCEPT ![h] = Record("pending")])
  /\ attempt' = [a \in Run |-> [attempt[a] EXCEPT !.counts = @ /\ attempt[a].key # h]]
  /\ told' = [told EXCEPT ![h] = 0]

HintArrives(h) ==
  /\ HintAbsorbed(h) \/ HintFresh(h)
  /\ UNCHANGED <<cursor, tick, asking, poll>>

-----------------------------------------------------------------------------
(* poll_source(): the events after the cursor are received one by one, and   *)
(* the cursor is written when all of them are in the file.                  *)

PollBegins ==
  /\ poll = NoPoll /\ Spend("polls")
  /\ \E n \in cursor + 1..Published :
       poll' = [todo |-> cursor + 1..n, upto |-> n, ok |-> TRUE]
  /\ UNCHANGED <<rec, cursor, attempt, tick, asking, told>>

NextPolled == CHOOSE k \in poll.todo : \A j \in poll.todo : k <= j

(* Mutant of Missed: an event that could not be stored is passed over. *)
MissedUnseen == [poll EXCEPT !.todo = @ \ {NextPolled}]

Missed == [poll EXCEPT !.todo = @ \ {NextPolled}, !.ok = FALSE]

PollReceives ==
  /\ poll.todo # {}
  /\ \/ /\ IF Known(NextPolled) THEN UNCHANGED <<rec, left>> ELSE Receive(NextPolled)
        /\ poll' = [poll EXCEPT !.todo = @ \ {NextPolled}]
     \/ /\ ~Known(NextPolled) /\ Refused
        /\ poll' = Missed
  /\ UNCHANGED <<cursor, attempt, tick, asking, told>>

(* _record_poll_success(), and the drain after it. *)
PollCommits ==
  /\ poll # NoPoll /\ poll.todo = {}
  /\ poll' = NoPoll
  /\ \/ poll.ok /\ cursor' = poll.upto /\ asking' = asking \cup {AnyKey} /\ UNCHANGED left
     \/ poll.ok /\ Spend("refused") /\ UNCHANGED <<cursor, asking>>
     \/ ~poll.ok /\ UNCHANGED <<cursor, asking, left>>
  /\ UNCHANGED <<rec, attempt, tick, told>>

-----------------------------------------------------------------------------
(* Claims *)

Claimable(k) == Current(k).status = "pending"

Unused(a) == attempt[a].pc = "done" /\ \A k \in Key : rec[k].token # a

(* _claim() of the preferred record, or of any. *)
Claim(s, preferred, a) ==
  /\ Unused(a) /\ \A b \in 1..a - 1 : ~Unused(b)
  /\ \E k \in KeysOf(s) :
       /\ preferred \in {AnyKey, k} /\ Claimable(k)
       /\ Saved([AllCurrent(s) EXCEPT ![k] = [Record("processing") EXCEPT !.token = a]])
       /\ attempt' = [attempt EXCEPT ![a] = [key |-> k, pc |-> "running", counts |-> TRUE]]

(* Nothing due, or the write refused, which is as if nothing had been done. *)
ClaimsNothing(s) ==
  /\ rec' \in {rec, AllCurrent(s)}
  /\ UNCHANGED <<attempt, left>>

(* _drain_scope() of a request or a poll: the claim; the rest is the        *)
(* attempt's.                                                               *)
Drain(preferred) ==
  /\ preferred \in asking
  /\ asking' = asking \ {preferred}
  /\ (\E a \in Run : Claim("forum", preferred, a)) \/ ClaimsNothing("forum")
  /\ UNCHANGED <<cursor, tick, poll, told>>

(* Mutant of Prepared: what ran out is noticed and not written. *)
PreparedUnsaved(k) == rec[k]

(* _prepare_scope() for one record. *)
Prepared(k) == Current(k)

(* drain_due(): every file is brought up to date, those with a due record   *)
(* are drained one after the other.  A file whose write is refused is left  *)
(* as it is, and not drained.                                               *)
TickBegins ==
  /\ tick = NoTick
  /\ \E spared \in {{}} \cup {{s} : s \in Scope} :
       /\ \A s \in spared : \E k \in KeysOf(s) : Prepared(k) # rec[k]
       /\ IF spared = {} THEN UNCHANGED left ELSE Spend("refused")
       /\ rec' = [k \in Key |-> IF ScopeOf(k) \in spared THEN rec[k] ELSE Prepared(k)]
       /\ \E due \in SUBSET {s \in Scope \ spared : \E k \in KeysOf(s) : Claimable(k)} :
            tick' = [todo |-> due, run |-> None]
  /\ UNCHANGED <<cursor, attempt, asking, poll, told>>

TickDrains(s) ==
  /\ s \in tick.todo /\ tick.run = None
  /\ \/ \E a \in Run : Claim(s, AnyKey, a) /\ tick' = [todo |-> tick.todo \ {s}, run |-> a]
     \/ ClaimsNothing(s) /\ tick' = [tick EXCEPT !.todo = @ \ {s}]
  /\ UNCHANGED <<cursor, asking, poll, told>>

-----------------------------------------------------------------------------
(* Execution *)

(* decide_and_execute_event(): the gates, a dream, an empty answer or a     *)
(* failure send it back; the owner does not want it, or left too much       *)
(* unanswered, and it is over; or _pipeline_send() records the turn and     *)
(* sends it.  An exception on the way is swallowed as "not sent", even one  *)
(* after the sending.                                                       *)
Execute(a) ==
  /\ attempt[a].pc = "running"
  /\ \E to \in {"sent", "retry", "final"} : attempt' = [attempt EXCEPT ![a].pc = to]
  /\ UNCHANGED <<rec, cursor, tick, asking, poll, left, told>>

(* Mutant of Holds: the token of the claim is not compared. *)
HoldsAny(a) == rec[attempt[a].key].status = "processing"

Holds(a) == rec[attempt[a].key].status = "processing" /\ rec[attempt[a].key].token = a

Verdict(a) ==
  IF attempt[a].pc = "retry"
  THEN [Record("pending") EXCEPT !.old = rec[attempt[a].key].old] ELSE Record("consumed")

ToldInTime(a) == IF attempt[a].pc = "sent" /\ attempt[a].counts THEN 1 ELSE 0

(* _settle() and _settle_pending(); a refused write leaves the claim.  The  *)
(* tick goes on when the attempt it waited for is over.                     *)
Settle(a) ==
  /\ attempt[a].pc \in {"sent", "retry", "final"}
  /\ attempt' = [attempt EXCEPT ![a] = NoAttempt]
  /\ tick' = IF tick.run = a THEN [tick EXCEPT !.run = None] ELSE tick
  /\ \/ /\ IF Holds(a) THEN Saved([rec EXCEPT ![attempt[a].key] = Verdict(a)])
                       ELSE UNCHANGED <<rec, left>>
        /\ told' = [told EXCEPT ![attempt[a].key] = @ + ToldInTime(a)]
     \/ Holds(a) /\ Refused /\ UNCHANGED told
  /\ UNCHANGED <<cursor, asking, poll>>

-----------------------------------------------------------------------------
(* Time and the process *)

LeaseEnds(k) ==
  /\ rec[k].status = "processing" /\ ~rec[k].lapsed
  /\ rec' = [rec EXCEPT ![k].lapsed = TRUE]
  /\ attempt' = [attempt EXCEPT ![rec[k].token].counts = FALSE]
  /\ UNCHANGED <<cursor, tick, asking, poll, left, told>>

LifeEnds(k) ==
  /\ rec[k].status \in Waiting /\ ~rec[k].old
  /\ rec' = [rec EXCEPT ![k].old = TRUE]
  /\ UNCHANGED <<cursor, attempt, tick, asking, poll, left, told>>

Crash ==
  /\ Spend("crashes")
  /\ attempt' = [a \in Run |-> NoAttempt]
  /\ tick' = NoTick /\ asking' = {} /\ poll' = NoPoll
  /\ UNCHANGED <<rec, cursor, told>>

TickStep == TickBegins \/ \E s \in Scope : TickDrains(s)

Next ==
  \/ \E k \in Forum : Submit(k)
  \/ \E h \in Hint : HintArrives(h)
  \/ PollBegins \/ PollReceives \/ PollCommits
  \/ \E p \in Forum \cup {AnyKey} : Drain(p)
  \/ TickStep
  \/ \E a \in Run : Execute(a) \/ Settle(a)
  \/ \E k \in Key : LeaseEnds(k) \/ LifeEnds(k)
  \/ Crash

Spec == Init /\ [][Next]_vars

(* The scheduler ticks, an execution ends (the model has a time limit) and  *)
(* the life of a record passes; nothing is said of the gates.               *)
FairSpec ==
  /\ Spec
  /\ WF_vars(TickStep)
  /\ \A a \in Run : WF_vars(Execute(a) \/ Settle(a))
  /\ \A k \in Key : WF_vars(LifeEnds(k))

-----------------------------------------------------------------------------
(* An event, or one cycle of a hint, is told and its verdict stored by one  *)
(* attempt at most: it is told again only when an attempt lost its lease,   *)
(* was cut off, broke off after the sending or could not write its verdict. *)
ToldOnceUnlessLost == \A k \in Key : told[k] <= 1

(* The cursor never passes an event that is not in the file: what a lost    *)
(* receipt, a refused cursor or a crash leaves out is fetched again.        *)
NothingSkipped == \A k \in 1..cursor : Known(k)

(* A forum event that was received is told, suppressed or expired in the    *)
(* end, whatever the gates say, the garden does and the crash cut off.  (A  *)
(* hint may be renewed by its level for ever.)                              *)
EveryEventEnds == \A k \in Forum : rec[k].status \in Waiting ~> rec[k].status \notin Waiting
=============================================================================
