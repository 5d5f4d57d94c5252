------------------------------ MODULE OwnerTurn ------------------------------
(***************************************************************************)
(* core/owner_turn_service.py with core/owner_turn_receipts.py: a turn the  *)
(* owner's client names by an id of its own, and may ask for again.  The    *)
(* first request writes a receipt and starts the execution as a task; the   *)
(* task is the reality chat turn (admin/routers/chat.py): it waits for the  *)
(* conversation lock, lets the model answer, captures the turn and leaves   *)
(* the reply in the mobile queue (core/turn_sink.py, MobileQueue).          *)
(*                                                                         *)
(* An execution has the number of its start, which stands for the canonical *)
(* turn id, too.  Requests with the same id and another payload change      *)
(* nothing and are left out; the answers are what the receipts say.         *)
(***************************************************************************)
EXTENDS MobileQueue

CONSTANTS
  Turn,     \* client turn ids of one caller
  MaxExec   \* bound: executions ever started

ASSUME OwnerTurnAssumption ==
  /\ IsFiniteSet(Turn) /\ 0 \notin Turn /\ MaxExec \in Nat /\ 1..MaxExec \subseteq Msg
  /\ {"crashes", "prunes"} \subseteq DOMAIN Allowed

VARIABLES
  receipt,   \* the receipts on disk
  exec,      \* the tasks: their turn and where they are
  inflight,  \* _INFLIGHT: the task of each turn
  conv,      \* the execution that holds the owner's conversation lock
  forgotten  \* history: turns whose receipt was pruned, or not readable once

vars == <<mobileVars, left, receipt, exec, inflight, conv, forgotten>>

Exec == 1..MaxExec
Push == Msg \ Exec
None == 0

NoReceipt == [status |-> "none", turn |-> None]
Verdict == {"completed", "failed", "interrupted_unknown"}
NoExec == [turn |-> None, pc |-> "new"]

TypeOK ==
  /\ MobileTypeOK
  /\ receipt \in [Turn -> [status : Verdict \cup {"none", "running"}, turn : Exec \cup {None}]]
  /\ exec \in [Exec -> [turn : Turn \cup {None},
                        pc : {"new", "queued", "thinking", "captured", "sent", "done"}]]
  /\ inflight \in [Turn -> Exec \cup {None}]
  /\ conv \in Exec \cup {None}
  /\ forgotten \subseteq Turn

Init ==
  /\ MobileInit
  /\ receipt = [k \in Turn |-> NoReceipt]
  /\ exec = [e \in Exec |-> NoExec]
  /\ inflight = [k \in Turn |-> None]
  /\ conv = None /\ forgotten = {}

-----------------------------------------------------------------------------
(* Receipts *)

(* is_currently_inflight() *)
Live(k) == inflight[k] # None /\ exec[inflight[k]].pc # "done"

(* Mutant of Orphan: whether a task still runs is not asked. *)
OrphanUnasked(k) == receipt[k].status = "running"

Orphan(k) == receipt[k].status = "running" /\ ~Live(k)

(* The orphans among the turns looked at become interrupted, but for those  *)
(* whose write is refused.                                                  *)
Marked(looked, refused) ==
  [k \in Turn |-> IF k \in looked \ refused /\ Orphan(k)
                  THEN [receipt[k] EXCEPT !.status = "interrupted_unknown"] ELSE receipt[k]]

PayFor(what, n) == left[what] >= n /\ left' = [left EXCEPT ![what] = @ - n]

(* The status of one turn is asked, or all receipts are listed. *)
Look(looked) ==
  /\ \E k \in looked : Orphan(k)
  /\ \E refused \in SUBSET {k \in looked : Orphan(k)} :
       /\ PayFor("faults", Cardinality(refused))
       /\ receipt' = Marked(looked, refused)
  /\ UNCHANGED <<mobileVars, exec, inflight, conv, forgotten>>

StatusAsked(k) == Look({k})
Listed == Look(Turn)

(* prune(), the first thing a request does: orphans are marked, and         *)
(* receipts that are old or too many are removed.                           *)
Tidied(refused, removed) ==
  [k \in Turn |-> IF k \in removed THEN NoReceipt ELSE Marked(Turn, refused)[k]]

-----------------------------------------------------------------------------
(* Requests *)

Unstarted == {e \in Exec : exec[e].pc = "new"}

(* Mutant of Runs: a turn that was interrupted is run again. *)
RunsAgain(row) == row.status \in {"none", "interrupted_unknown"}

(* Whether a request with this receipt starts an execution. *)
Runs(row) == row.status = "none"

(* The execution is started when its first write succeeds; otherwise, the   *)
(* request fails before a task exists.                                      *)
Answer(k, rows, runs, written) ==
  \/ /\ runs /\ written
     /\ receipt' = [rows EXCEPT ![k] = [status |-> "running", turn |-> None]]
     /\ \E e \in Unstarted :
          /\ \A f \in Unstarted : e <= f
          /\ exec' = [exec EXCEPT ![e] = [turn |-> k, pc |-> "queued"]]
          /\ inflight' = [inflight EXCEPT ![k] = e]
  \/ /\ runs => ~written
     /\ receipt' = rows
     /\ UNCHANGED <<exec, inflight>>

(* A receipt that cannot be read is none. *)
Post(k) ==
  \E readable, written \in BOOLEAN, refused, removed \in SUBSET Turn :
    LET rows == Tidied(refused, removed)
        runs == Runs(rows[k]) \/ ~readable
        faults == Cardinality(refused) + (IF readable THEN 0 ELSE 1)
                  + (IF runs /\ ~written THEN 1 ELSE 0)
    IN /\ refused \subseteq {j \in Turn : Orphan(j)} \ {k}
       /\ removed \subseteq {j \in Turn : receipt[j].status # "none" /\ ~Live(j)} \ refused
       /\ readable \/ rows[k].status # "none"
       /\ left.faults >= faults /\ (removed # {} => left.prunes > 0)
       /\ left' = [left EXCEPT !.faults = @ - faults,
                               !.prunes = IF removed # {} THEN @ - 1 ELSE @]
       /\ forgotten' = forgotten \cup removed \cup (IF readable THEN {} ELSE {k})
       /\ Answer(k, rows, runs, written)
       /\ UNCHANGED <<mobileVars, conv>>

-----------------------------------------------------------------------------
(* An execution *)

At(e, from, to) == exec[e].pc = from /\ exec' = [exec EXCEPT ![e].pc = to]

TakesLock(e) ==
  /\ At(e, "queued", "thinking")
  /\ conv = None /\ conv' = e
  /\ UNCHANGED <<mobileVars, left, receipt, inflight, forgotten>>

(* The model answered; MemoryChain says what capturing does and may fail. *)
Captures(e) ==
  /\ At(e, "thinking", "captured")
  /\ UNCHANGED <<mobileVars, left, receipt, inflight, conv, forgotten>>

(* The phone is always among the targets, and a channel that fails is passed over. *)
Delivers(e) ==
  /\ At(e, "captured", "sent")
  /\ Send(e)
  /\ UNCHANGED <<receipt, inflight, conv, forgotten>>

Unlocked(e) == conv' = IF conv = e THEN None ELSE conv

(* A refused "completed" raises, and what is raised is recorded as "failed".*)
Completes(e) ==
  /\ At(e, "sent", "done")
  /\ Unlocked(e)
  /\ \E refused \in 0..2 :
       /\ PayFor("faults", refused)
       /\ receipt' = [receipt EXCEPT ![exec[e].turn] =
            CASE refused = 0 -> [status |-> "completed", turn |-> e]
              [] refused = 1 -> [status |-> "failed", turn |-> None]
              [] refused = 2 -> @]
  /\ UNCHANGED <<mobileVars, inflight, forgotten>>

(* No scope, no answer of the model, an empty one. *)
Fails(e) ==
  /\ exec[e].pc \in {"queued", "thinking"}
  /\ exec' = [exec EXCEPT ![e].pc = "done"]
  /\ Unlocked(e)
  /\ \E refused \in 0..1 :
       /\ PayFor("faults", refused)
       /\ receipt' = [receipt EXCEPT ![exec[e].turn] =
            IF refused = 0 THEN [status |-> "failed", turn |-> None] ELSE @]
  /\ UNCHANGED <<mobileVars, inflight, forgotten>>

(* A proactive message, or one pushed by the admin panel. *)
Pushed(m) ==
  /\ m \in Push \ sent
  /\ Send(m)
  /\ UNCHANGED <<receipt, exec, inflight, conv, forgotten>>

(* The process ends: its tasks, even cancelled ones, write no receipt. *)
Crash ==
  /\ PayFor("crashes", 1)
  /\ exec' = [e \in Exec |-> IF exec[e].pc = "new" THEN exec[e] ELSE [exec[e] EXCEPT !.pc = "done"]]
  /\ inflight' = [k \in Turn |-> None]
  /\ conv' = None
  /\ phone' = [phone EXCEPT !.busy = FALSE, !.page = {}]
  /\ UNCHANGED <<fileVars, seen, sent, lost, restarted, receipt, forgotten>>

Next ==
  \/ \E k \in Turn : Post(k) \/ StatusAsked(k)
  \/ Listed
  \/ \E e \in Exec : TakesLock(e) \/ Captures(e) \/ Delivers(e) \/ Completes(e) \/ Fails(e)
  \/ \E m \in Push : Pushed(m)
  \/ MobileNext /\ UNCHANGED <<receipt, exec, inflight, conv, forgotten>>
  \/ Crash

Spec == Init /\ [][Next]_vars

-----------------------------------------------------------------------------
(* A turn is executed once, however often it is asked for, through ends of  *)
(* the process and refused writes, while its receipt is kept and readable.  *)
ExecutedOnce ==
  \A k \in Turn \ forgotten : Cardinality({e \in Exec : exec[e].turn = k}) <= 1

(* What a receipt says of a turn that is over, it says for good: no task    *)
(* comes back to a turn that was called interrupted.                        *)
VerdictStands ==
  [][\A k \in Turn \ forgotten' :
       receipt[k].status \in Verdict => receipt'[k] = receipt[k]]_vars

(* The reply of a completed turn, and every message handed to the channel,  *)
(* is on the phone or ahead of its cursor, unless the queue lost it; while  *)
(* no message was numbered with neither the queue nor its number at hand,   *)
(* which begins the numbers again, below the cursor (mobile.py:261).        *)
Owed == sent \cup {receipt[k].turn : k \in {j \in Turn : receipt[j].status = "completed"}}
ReplyOnPhone == ~restarted => Owed \ lost \subseteq seen \cup Ahead
=============================================================================
