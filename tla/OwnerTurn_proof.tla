--------------------------- MODULE OwnerTurn_proof ---------------------------
(***************************************************************************)
(* Proofs about OwnerTurn: for every set of turns and number of executions, *)
(* every queue of the phone, and any number of refused writes, prunings and *)
(* ends of the process.                                                     *)
(*                                                                         *)
(* The first part is about the turns.  Its properties rest on what ties an  *)
(* execution to its receipt: while it runs, the receipt of its turn says so *)
(* and _INFLIGHT names it, so nobody takes it for an orphan and nobody      *)
(* starts it again.  The second is about the channel: the file of the next  *)
(* number and the numbers in the queue stand in for each other, so that a   *)
(* new message comes after all that the phone has seen, unless neither was  *)
(* at hand when a message was numbered.  The last part shows that the       *)
(* channel is a mailbox until then (PhoneMailbox).                          *)
(***************************************************************************)
EXTENDS OwnerTurn, FiniteSetTheorems, TLAPS

Status == Verdict \cup {"none", "running"}

RowT == [status : Status, turn : Exec \cup {None}]
ExecT == [turn : Turn \cup {None},
          pc : {"new", "queued", "thinking", "captured", "sent", "done"}]

TurnsTyped ==
  /\ receipt \in [Turn -> RowT]
  /\ exec \in [Exec -> ExecT]
  /\ inflight \in [Turn -> Exec \cup {None}]
  /\ forgotten \subseteq Turn
  /\ \A e \in Exec : exec[e].pc = "new" => exec[e].turn = None

Running(e) == exec[e].pc \notin {"new", "done"}

(* Of the turns whose receipt was kept: it is there once the turn was       *)
(* started, one execution has it, and while that runs both tables know.     *)
Tied ==
  /\ \A e \in Exec : exec[e].turn \in Turn \ forgotten => receipt[exec[e].turn].status # "none"
  /\ \A e, f \in Exec : exec[e].turn \in Turn \ forgotten /\ exec[e].turn = exec[f].turn => e = f
  /\ \A e \in Exec : Running(e) =>
       /\ exec[e].turn \in Turn
       /\ exec[e].turn \notin forgotten =>
            receipt[exec[e].turn].status = "running" /\ inflight[exec[e].turn] = e

IInv == TurnsTyped /\ Tied

(* What a step may do to the receipts of turns that are not forgotten. *)
Stands == \A k \in Turn \ forgotten' : receipt[k].status \in Verdict => receipt'[k] = receipt[k]

-----------------------------------------------------------------------------
(* Zero is neither a turn nor an execution. *)
LEMMA Zero ==
  None \notin Turn /\ None \notin Exec
  BY OwnerTurnAssumption, SMT DEF None, Exec

(* Orphans change to interrupted, and nothing else changes. *)
LEMMA MarkedFacts ==
  ASSUME TurnsTyped, NEW looked, NEW refused, NEW k \in Turn
  PROVE  LET row == Marked(looked, refused)[k]
         IN /\ row \in RowT
            /\ row.status = "none" <=> receipt[k].status = "none"
            /\ row = receipt[k] \/ (Orphan(k) /\ row.status = "interrupted_unknown")
<1>1. receipt[k] \in RowT
  BY DEF TurnsTyped
<1>2. Marked(looked, refused)[k] =
        IF k \in looked \ refused /\ Orphan(k)
        THEN [receipt[k] EXCEPT !.status = "interrupted_unknown"] ELSE receipt[k]
  BY DEF Marked
<1>3. ASSUME NEW x \in RowT
      PROVE  LET y == [x EXCEPT !.status = "interrupted_unknown"]
             IN y \in RowT /\ y.status = "interrupted_unknown"
  BY DEF RowT, Status, Verdict
<1>4. Orphan(k) => receipt[k].status # "none"
  BY DEF Orphan
<1> QED BY <1>1, <1>2, <1>3, <1>4

(* The turn of an execution that runs is no orphan. *)
LEMMA RunningIsNoOrphan ==
  ASSUME IInv, NEW e \in Exec, Running(e), exec[e].turn \notin forgotten
  PROVE  ~Orphan(exec[e].turn)
  BY Zero DEF IInv, Tied, Running, Orphan, Live

(* Receipts that are those of before or marked orphans keep the ties. *)
LEMMA LookStep ==
  ASSUME IInv, NEW looked, Look(looked)
  PROVE  IInv' /\ Stands
<1>1. PICK refused : receipt' = Marked(looked, refused)
  BY DEF Look
<1>2. UNCHANGED <<exec, inflight, forgotten>>
  BY DEF Look
<1>3. \A k \in Turn : /\ receipt'[k] \in RowT
                      /\ receipt'[k].status = "none" <=> receipt[k].status = "none"
                      /\ receipt'[k] = receipt[k] \/ Orphan(k)
  BY <1>1, MarkedFacts DEF IInv
<1>4. TurnsTyped'
  <2>1. receipt' = [k \in Turn |-> receipt'[k]]
    BY <1>1 DEF Marked
  <2> QED BY <1>2, <1>3, <2>1 DEF IInv, TurnsTyped
<1>5. Tied'
  BY <1>2, <1>3, RunningIsNoOrphan DEF IInv, Tied, Running
<1>6. Stands
  BY <1>2, <1>3 DEF Stands, Orphan, Verdict
<1> QED BY <1>4, <1>5, <1>6 DEF IInv

(* A request: it marks orphans and removes what is pruned, and starts an    *)
(* execution of a turn without a receipt.                                   *)
LEMMA PostStep ==
  ASSUME IInv, NEW k \in Turn, Post(k)
  PROVE  IInv' /\ Stands
<1>1. PICK readable \in BOOLEAN, written \in BOOLEAN,
           refused \in SUBSET Turn, removed \in SUBSET Turn :
        /\ forgotten' = forgotten \cup removed \cup (IF readable THEN {} ELSE {k})
        /\ Answer(k, Tidied(refused, removed), Runs(Tidied(refused, removed)[k]) \/ ~readable, written)
  BY DEF Post
<1>2. PICK rows : rows = Tidied(refused, removed)
  OBVIOUS
<1>3. forgotten \subseteq forgotten' /\ removed \subseteq forgotten' /\ forgotten' \subseteq Turn
  BY <1>1 DEF IInv, TurnsTyped
<1>4. rows \in [Turn -> RowT]
  <2>1. NoReceipt \in RowT
    BY DEF NoReceipt, RowT, Status
  <2>2. rows = [j \in Turn |-> IF j \in removed THEN NoReceipt ELSE Marked(Turn, refused)[j]]
    BY <1>2 DEF Tidied
  <2> QED BY <2>1, <2>2, MarkedFacts DEF IInv
<1>5. \A j \in Turn \ forgotten' : /\ rows[j].status = "none" <=> receipt[j].status = "none"
                                   /\ rows[j] = receipt[j] \/ Orphan(j)
  <2>1. \A j \in Turn \ forgotten' : rows[j] = Marked(Turn, refused)[j]
    BY <1>2, <1>3 DEF Tidied
  <2> QED BY <2>1, MarkedFacts DEF IInv
<1>6. CASE receipt' = rows /\ UNCHANGED <<exec, inflight>>
  <2>1. TurnsTyped'
    BY <1>3, <1>4, <1>6 DEF IInv, TurnsTyped
  <2>2. Tied'
    BY <1>3, <1>5, <1>6, RunningIsNoOrphan DEF IInv, Tied, Running
  <2>3. Stands
    BY <1>5, <1>6 DEF Stands, Orphan, Verdict
  <2> QED BY <2>1, <2>2, <2>3 DEF IInv
<1>7. ASSUME NEW e \in Unstarted,
             Runs(rows[k]) \/ ~readable,
             receipt' = [rows EXCEPT ![k] = [status |-> "running", turn |-> None]],
             exec' = [exec EXCEPT ![e] = [turn |-> k, pc |-> "queued"]],
             inflight' = [inflight EXCEPT ![k] = e]
      PROVE  IInv' /\ Stands
  <2>1. e \in Exec /\ exec[e].pc = "new" /\ exec[e].turn = None
    BY <1>7 DEF Unstarted, IInv, TurnsTyped
  <2>2. k \notin forgotten' => receipt[k].status = "none"
    BY <1>1, <1>5, <1>7 DEF Runs
  <2>3. k \notin forgotten' => \A f \in Exec : exec[f].turn # k
    BY <1>3, <2>2 DEF IInv, Tied
  <2>4. /\ receipt'[k].status = "running" /\ \A j \in Turn \ {k} : receipt'[j] = rows[j]
        /\ exec'[e].turn = k /\ exec'[e].pc = "queued" /\ \A f \in Exec \ {e} : exec'[f] = exec[f]
        /\ inflight'[k] = e /\ \A j \in Turn \ {k} : inflight'[j] = inflight[j]
    BY <1>4, <1>7, <2>1 DEF IInv, TurnsTyped
  <2>5. TurnsTyped'
    <3>1. [status |-> "running", turn |-> None] \in RowT /\ [turn |-> k, pc |-> "queued"] \in ExecT
      BY DEF RowT, Status, ExecT
    <3> QED BY <1>3, <1>4, <1>7, <2>1, <2>4, <3>1 DEF IInv, TurnsTyped
  <2>6. \A f \in Exec : exec'[f].turn \in Turn \ forgotten' => receipt'[exec'[f].turn].status # "none"
    BY <1>3, <1>5, <2>1, <2>4 DEF IInv, Tied
  <2>7. \A f, g \in Exec : exec'[f].turn \in Turn \ forgotten' /\ exec'[f].turn = exec'[g].turn => f = g
    BY <1>3, <2>1, <2>3, <2>4 DEF IInv, Tied
  <2>8. ASSUME NEW f \in Exec, Running(f)'
        PROVE  /\ exec'[f].turn \in Turn
               /\ exec'[f].turn \notin forgotten' =>
                    receipt'[exec'[f].turn].status = "running" /\ inflight'[exec'[f].turn] = f
    <3>1. CASE f = e
      BY <2>4, <3>1
    <3>2. CASE f # e
      <4>1. Running(f) /\ exec'[f] = exec[f]
        BY <2>4, <2>8, <3>2 DEF Running
      <4>2. exec[f].turn \in Turn
        BY <4>1 DEF IInv, Tied
      <4>3. exec[f].turn \notin forgotten' => exec[f].turn # k /\ ~Orphan(exec[f].turn)
        BY <1>3, <2>3, <4>1, RunningIsNoOrphan
      <4> QED BY <1>3, <1>5, <2>4, <4>1, <4>2, <4>3 DEF IInv, Tied
    <3> QED BY <3>1, <3>2
  <2>9. Stands
    BY <1>5, <2>2, <2>4 DEF Stands, Orphan, Verdict
  <2> QED BY <2>5, <2>6, <2>7, <2>8, <2>9 DEF IInv, Tied
<1> QED BY <1>1, <1>2, <1>6, <1>7 DEF Answer

(* An execution that moves on, its receipt as before. *)
LEMMA MoveStep ==
  ASSUME IInv, NEW e \in Exec, Running(e), NEW p \in {"thinking", "captured", "sent"},
         exec' = [exec EXCEPT ![e].pc = p], UNCHANGED <<receipt, inflight, forgotten>>
  PROVE  IInv' /\ Stands
<1>1. \A f \in Exec : /\ exec'[f] \in ExecT /\ exec'[f].turn = exec[f].turn
                      /\ exec'[f].pc = exec[f].pc \/ (f = e /\ exec'[f].pc = p)
  BY DEF IInv, TurnsTyped, ExecT
<1>2. TurnsTyped'
  BY <1>1 DEF IInv, TurnsTyped
<1>3. Tied'
  BY <1>1 DEF IInv, Tied, Running
<1> QED BY <1>2, <1>3 DEF IInv, Stands

(* An execution that ends, and may write its receipt. *)
LEMMA EndStep ==
  ASSUME IInv, NEW e \in Exec, Running(e), exec' = [exec EXCEPT ![e].pc = "done"],
         UNCHANGED <<inflight, forgotten>>, NEW row \in RowT, row.status # "none",
         receipt' = receipt \/ receipt' = [receipt EXCEPT ![exec[e].turn] = row]
  PROVE  IInv' /\ Stands
<1>1. \A f \in Exec : /\ exec'[f] \in ExecT /\ exec'[f].turn = exec[f].turn
                      /\ exec'[f].pc = exec[f].pc \/ (f = e /\ exec'[f].pc = "done")
  BY DEF IInv, TurnsTyped, ExecT
<1>2. /\ \A k \in Turn : receipt'[k] = receipt[k] \/ (k = exec[e].turn /\ receipt'[k] = row)
      /\ receipt' \in [Turn -> RowT]
  BY DEF IInv, TurnsTyped
<1>3. TurnsTyped'
  BY <1>1, <1>2 DEF IInv, TurnsTyped
<1>4. \A f \in Exec : Running(f)' => Running(f) /\ f # e
  BY <1>1 DEF Running, IInv, TurnsTyped
<1>5. Tied'
  BY <1>1, <1>2, <1>4 DEF IInv, Tied
<1>6. Stands
  BY <1>2 DEF IInv, Tied, Stands, Verdict
<1> QED BY <1>3, <1>5, <1>6 DEF IInv

(* The end of the process leaves no execution that runs. *)
LEMMA CrashStep ==
  ASSUME IInv, Crash
  PROVE  IInv' /\ Stands
<1>1. /\ exec' = [e \in Exec |-> IF exec[e].pc = "new" THEN exec[e] ELSE [exec[e] EXCEPT !.pc = "done"]]
      /\ inflight' = [k \in Turn |-> None] /\ UNCHANGED <<receipt, forgotten>>
  BY DEF Crash
<1>2. ASSUME NEW x \in ExecT
      PROVE  LET y == [x EXCEPT !.pc = "done"]
             IN y \in ExecT /\ y.pc = "done" /\ y.turn = x.turn
  BY DEF ExecT
<1>3. \A e \in Exec : /\ exec'[e] \in ExecT /\ exec'[e].turn = exec[e].turn
                      /\ exec'[e].pc \in {"new", "done"}
                      /\ exec'[e].pc = "new" => exec[e].pc = "new"
  BY <1>1, <1>2 DEF IInv, TurnsTyped
<1>4. TurnsTyped'
  BY <1>1, <1>3 DEF IInv, TurnsTyped
<1>5. Tied'
  BY <1>1, <1>3 DEF IInv, Tied, Running
<1> QED BY <1>1, <1>4, <1>5 DEF IInv, Stands

-----------------------------------------------------------------------------
(* The theorems *)

(* Every step keeps the ties, and what the receipts say. *)
LEMMA Step ==
  ASSUME IInv, [Next]_vars
  PROVE  IInv' /\ Stands
<1>1. ASSUME UNCHANGED <<receipt, exec, inflight, forgotten>>
      PROVE  IInv' /\ Stands
  BY <1>1 DEF IInv, TurnsTyped, Tied, Running, Stands
<1>2. ASSUME NEW e \in Exec, TakesLock(e) \/ Captures(e) \/ Delivers(e)
      PROVE  IInv' /\ Stands
  <2>1. /\ Running(e) /\ UNCHANGED <<receipt, inflight, forgotten>>
        /\ \E p \in {"thinking", "captured", "sent"} : exec' = [exec EXCEPT ![e].pc = p]
    BY <1>2 DEF TakesLock, Captures, Delivers, At, Running
  <2> QED BY <2>1, MoveStep
<1>3. ASSUME NEW e \in Exec, Completes(e)
      PROVE  IInv' /\ Stands
  <2>1. Running(e) /\ exec' = [exec EXCEPT ![e].pc = "done"] /\ UNCHANGED <<inflight, forgotten>>
    BY <1>3 DEF Completes, At, Running
  <2>2. PICK refused \in 0..2 :
          receipt' = [receipt EXCEPT ![exec[e].turn] =
            CASE refused = 0 -> [status |-> "completed", turn |-> e]
              [] refused = 1 -> [status |-> "failed", turn |-> None]
              [] refused = 2 -> @]
    BY <1>3 DEF Completes
  <2>3. /\ [status |-> "completed", turn |-> e] \in RowT
        /\ [status |-> "failed", turn |-> None] \in RowT
    BY DEF RowT, Status, Verdict
  <2>4. CASE refused = 0
    <3>1. receipt' = [receipt EXCEPT ![exec[e].turn] = [status |-> "completed", turn |-> e]]
      BY <2>2, <2>4
    <3> QED BY <2>1, <2>3, <3>1, EndStep
  <2>5. CASE refused = 1
    <3>1. receipt' = [receipt EXCEPT ![exec[e].turn] = [status |-> "failed", turn |-> None]]
      BY <2>2, <2>5
    <3> QED BY <2>1, <2>3, <3>1, EndStep
  <2>6. CASE refused = 2
    <3>1. receipt' = receipt
      BY <2>2, <2>6 DEF IInv, TurnsTyped
    <3> QED BY <2>1, <2>3, <3>1, EndStep
  <2> QED BY <2>4, <2>5, <2>6
<1>4. ASSUME NEW e \in Exec, Fails(e)
      PROVE  IInv' /\ Stands
  <2>1. Running(e) /\ exec' = [exec EXCEPT ![e].pc = "done"] /\ UNCHANGED <<inflight, forgotten>>
    BY <1>4 DEF Fails, Running
  <2>2. PICK refused \in 0..1 :
          receipt' = [receipt EXCEPT ![exec[e].turn] =
            IF refused = 0 THEN [status |-> "failed", turn |-> None] ELSE @]
    BY <1>4 DEF Fails
  <2>3. [status |-> "failed", turn |-> None] \in RowT
    BY DEF RowT, Status, Verdict
  <2>4. receipt' = receipt \/ receipt' = [receipt EXCEPT ![exec[e].turn] = [status |-> "failed", turn |-> None]]
    BY <2>2 DEF IInv, TurnsTyped
  <2> QED BY <2>1, <2>3, <2>4, EndStep
<1> QED
  BY <1>1, <1>2, <1>3, <1>4, LookStep, PostStep, CrashStep
     DEF Next, vars, StatusAsked, Listed, Pushed

(* The ties hold at the start, and throughout. *)
LEMMA InitTied == Init => IInv
  BY Zero DEF Init, IInv, TurnsTyped, Tied, Running, NoReceipt, NoExec, RowT, ExecT, Status

LEMMA Invariance ==
  Spec => []IInv
<1>1. IInv /\ [Next]_vars => IInv'
  BY Step
<1> QED BY <1>1, InitTied, PTL DEF Spec

(* A turn is executed once, however often the client asks for it, while its *)
(* receipt is kept and readable (execute_owner_turn()).                     *)
THEOREM OneExecution == Spec => []ExecutedOnce
<1>1. ASSUME NEW S, \A c, d \in S : c = d
      PROVE  Cardinality(S) <= 1
  <2>1. CASE S = {}
    BY <2>1, FS_EmptySet
  <2>2. CASE S # {}
    <3>1. PICK c \in S : TRUE
      BY <2>2
    <3>2. S = {c}
      BY <1>1, <3>1
    <3>3. Cardinality({c}) = 1
      BY FS_Singleton
    <3> QED BY <3>2, <3>3
  <2> QED BY <2>1, <2>2
<1>2. IInv => ExecutedOnce
  <2> SUFFICES ASSUME IInv, NEW k \in Turn \ forgotten
               PROVE  Cardinality({e \in Exec : exec[e].turn = k}) <= 1
    BY DEF ExecutedOnce
  <2>1. \A e, f \in {g \in Exec : exec[g].turn = k} : e = f
    BY DEF IInv, Tied
  <2> QED BY <1>1, <2>1
<1> QED BY <1>2, Invariance, PTL

(* No step, of an execution that comes back or of a request that tidies,    *)
(* changes the receipt of a turn that is over (mark_orphans(), prune()).    *)
THEOREM VerdictIsFinal == Spec => VerdictStands
<1>1. IInv /\ [Next]_vars => [Stands]_vars
  BY Step
<1>2. Spec => [][Stands]_vars
  BY <1>1, Invariance, PTL DEF Spec
<1> QED BY <1>2, PTL DEF VerdictStands, Stands

-----------------------------------------------------------------------------
(* The channel.  Its number and its queue protect each other: while one of  *)
(* them is at hand whenever a message is numbered (~restarted), the number  *)
(* falls behind what the phone has seen only when three writes or reads     *)
(* fail.  Spent says how many did.                                          *)

Spent == Allowed.faults - left.faults
Highs == {phone.cursor} \cup {x.seq : x \in phone.page}

ChannelTyped ==
  /\ MobileTypeOK
  /\ IsFiniteSet(queue) /\ IsFiniteSet(phone.page)
  /\ ~phone.busy => phone.page = {}
  /\ \E b \in Nat : \A x \in queue \cup phone.page : x.seq < b
  /\ Spent \in Nat

(* What the number is ahead of, after so many faults; and a queue that is   *)
(* not empty knows a number beyond all the phone has seen, too.             *)
Numbers ==
  /\ \A v \in Highs : v >= nextSeq => Spent >= 2
  /\ \A x \in queue : x.seq >= nextSeq => Spent >= 1
  /\ \A v \in Highs : v >= nextSeq /\ (\A x \in queue : x.seq < v) => Spent >= 3
  /\ Spent <= 2 /\ queue # {} => \E x \in queue : \A v \in Highs : v <= x.seq

(* What waits below the cursor is stored, the page on its way has no gap,   *)
(* and nothing sent leaves the queue without being stored or counted lost.  *)
InOrder ==
  /\ \A x \in queue : x.seq <= phone.cursor => x.id \in seen
  /\ \A x \in queue, y \in phone.page :
       phone.cursor < x.seq /\ x.seq <= y.seq => x \in phone.page
  /\ sent \ lost \subseteq seen \cup Ids(queue)

Delivery == Spent <= 2 => InOrder

Channel == ChannelTyped /\ (~restarted => Numbers /\ Delivery)

(* A set of naturals that is not empty has a least element ... *)
LEMMA Least ==
  ASSUME NEW S \in SUBSET Nat, S # {}
  PROVE  \E x \in S : \A y \in S : x <= y
<1> DEFINE R == {ss \in Nat \X Nat : ss[1] < ss[2]}
<1>1. IsWellFoundedOn(R, Nat)
  <2>1. R = OpToRel(<, Nat)
    BY DEF OpToRel
  <2> QED BY <2>1, NatLessThanWellFounded
<1>2. PICK x \in S : \A y \in S : <<y, x>> \notin R
  BY <1>1, WFMin
<1>3. ASSUME NEW y \in S PROVE x <= y
  <2>1. x \in Nat /\ y \in Nat /\ ~(y < x)
    BY <1>2
  <2> QED BY <2>1
<1> QED BY <1>3

(* ... and a bounded one a greatest, which is its Max. *)
LEMMA Greatest ==
  ASSUME NEW S \in SUBSET Nat, S # {}, NEW b \in Nat, \A x \in S : x < b
  PROVE  Max(S) \in S /\ \A y \in S : y <= Max(S)
<1> DEFINE U == {u \in Nat : \A x \in S : x <= u}
<1>1. PICK m \in U : \A u \in U : m <= u
  <2>1. b \in U
    OBVIOUS
  <2> HIDE DEF U
  <2> QED BY <2>1, Least DEF U
<1>2. m \in S
  <2> SUFFICES ASSUME m \notin S PROVE FALSE
    OBVIOUS
  <2>1. PICK x \in S : TRUE
    OBVIOUS
  <2>2. m > 0 /\ m - 1 \in Nat
    BY <2>1
  <2>3. m - 1 \in U
    BY <2>2
  <2> QED BY <1>1, <2>2, <2>3
<1>3. \E x \in S : \A y \in S : x >= y
  BY <1>1, <1>2
<1> QED BY <1>3 DEF Max

(* _next_seq(): the number after the stored one and all that is queued. *)
LEMMA FollowingFacts ==
  ASSUME NEW s \in Nat \ {0}, NEW q \in SUBSET Item, NEW b \in Nat, \A x \in q : x.seq < b
  PROVE  /\ Following(s, q) \in Nat \ {0} /\ s <= Following(s, q)
         /\ \A x \in q : x.seq < Following(s, q)
         /\ s < Following(s, q) => \E x \in q : s <= x.seq
<1> DEFINE S == {s} \cup {x.seq + 1 : x \in q}
<1>1. \A x \in q : x.seq \in Nat /\ x.seq < b
  BY DEF Item
<1>2. S \in SUBSET Nat /\ S # {} /\ s + b + 1 \in Nat /\ \A n \in S : n < s + b + 1
  BY <1>1
<1> HIDE DEF S
<1>3. Max(S) \in S /\ \A n \in S : n <= Max(S)
  BY <1>2, Greatest
<1>4. Following(s, q) = Max(S)
  BY DEF Following, S
<1>5. Max(S) = s \/ \E x \in q : Max(S) = x.seq + 1
  BY <1>3 DEF S
<1>6. s <= Max(S) /\ \A x \in q : x.seq + 1 <= Max(S)
  BY <1>3 DEF S
<1>7. Max(S) \in Nat
  BY <1>2, <1>3
<1>8. s \in Nat /\ s > 0
  OBVIOUS
<1> QED BY <1>1, <1>4, <1>5, <1>6, <1>7, <1>8

(* The last n of a queue are at most n. *)
LEMMA LastFacts ==
  ASSUME NEW q \in SUBSET Item, IsFiniteSet(q), \A x, y \in q : x.seq = y.seq => x = y,
         NEW n \in Nat
  PROVE  Last(q, n) \subseteq q /\ Cardinality(Last(q, n)) <= n
<1>1. Last(q, n) \subseteq q
  BY DEF Last
<1>2. CASE Last(q, n) = {}
  BY <1>1, <1>2, FS_EmptySet
<1>3. CASE Last(q, n) # {}
  <2> DEFINE T == Last(q, n)
             S == {x.seq : x \in T}
  <2>1. S \in SUBSET Nat /\ S # {}
    BY <1>1, <1>3 DEF Item
  <2>2. PICK m \in T : \A x \in T : m.seq <= x.seq
    <3> HIDE DEF S
    <3>1. \E s \in S : \A t \in S : s <= t
      BY <2>1, Least
    <3> QED BY <3>1 DEF S
  <2>3. T \ {m} \subseteq {y \in q : y.seq > m.seq}
    <3> SUFFICES ASSUME NEW x \in T, x # m PROVE x \in q /\ x.seq > m.seq
      OBVIOUS
    <3>1. x \in q /\ m \in q /\ x.seq \in Nat /\ m.seq \in Nat
      BY <1>1, <2>2 DEF Item
    <3> QED BY <2>2, <3>1
  <2>4. Cardinality({y \in q : y.seq > m.seq}) < n
    BY <2>2 DEF Last
  <2>5. IsFiniteSet({y \in q : y.seq > m.seq}) /\ IsFiniteSet(T)
    BY <1>1, FS_Subset
  <2>6. Cardinality({y \in q : y.seq > m.seq}) \in Nat /\ Cardinality(T) \in Nat
    BY <2>5, FS_CardinalityType
  <2>7. /\ Cardinality(T \ {m}) <= Cardinality({y \in q : y.seq > m.seq})
        /\ Cardinality(T \ {m}) = Cardinality(T) - 1
    BY <2>2, <2>3, <2>5, FS_Subset, FS_RemoveElement
  <2> HIDE DEF T
  <2>8. Cardinality(T) <= n
    BY <2>4, <2>6, <2>7
  <2> QED BY <1>1, <2>8 DEF T
<1> QED BY <1>2, <1>3

(* The first n have no gap. *)
LEMMA FirstFacts ==
  ASSUME NEW q \in SUBSET Item, IsFiniteSet(q), NEW n \in Nat
  PROVE  /\ First(q, n) \subseteq q
         /\ \A y \in First(q, n), x \in q : x.seq <= y.seq => x \in First(q, n)
<1> SUFFICES ASSUME NEW y \in First(q, n), NEW x \in q, x.seq <= y.seq PROVE x \in First(q, n)
  BY DEF First
<1> DEFINE B(z) == {w \in q : w.seq < z.seq}
<1>1. B(x) \subseteq B(y) /\ IsFiniteSet(B(y))
  <2>1. y \in q /\ \A w \in q : w.seq \in Nat
    BY DEF First, Item
  <2>2. B(x) \subseteq B(y)
    BY <2>1
  <2> QED BY <2>2, FS_Subset
<1>2. IsFiniteSet(B(x)) /\ Cardinality(B(x)) <= Cardinality(B(y))
  BY <1>1, FS_Subset
<1>3. Cardinality(B(x)) \in Nat /\ Cardinality(B(y)) \in Nat
  BY <1>1, <1>2, FS_CardinalityType
<1>4. Cardinality(B(y)) < n
  BY DEF First
<1>5. Cardinality(B(x)) < n
  <2> HIDE DEF B
  <2> QED BY <1>2, <1>3, <1>4
<1> QED BY <1>5 DEF First

LEMMA PayFacts ==
  ASSUME left \in [DOMAIN Allowed -> Nat], NEW f \in Nat, NEW d \in Nat, Pay(f, d)
  PROVE  /\ left' \in [DOMAIN Allowed -> Nat] /\ left'.faults = left.faults - f
         /\ Spent \in Nat => Spent' \in Nat /\ Spent' = Spent + f
<1>1. "faults" \in DOMAIN Allowed /\ "days" \in DOMAIN Allowed /\ Allowed.faults \in Nat
  BY MobileQueueAssumption
<1>2. left.faults \in Nat /\ left.days \in Nat
  BY <1>1
<1>3. left' = [left EXCEPT !.faults = @ - f, !.days = @ - d] /\ left.faults >= f /\ left.days >= d
  BY DEF Pay
<1>4. left'.faults = left.faults - f /\ left' \in [DOMAIN Allowed -> Nat]
  <2> DEFINE one == [left EXCEPT !.faults = @ - f]
  <2>1. one \in [DOMAIN Allowed -> Nat] /\ one.faults = left.faults - f /\ one.days = left.days
    BY <1>1, <1>2, <1>3
  <2>2. left' = [one EXCEPT !.days = @ - d]
    BY <1>3
  <2> HIDE DEF one
  <2>3. one.days - d \in Nat
    BY <1>2, <1>3, <2>1
  <2> QED BY <1>1, <2>1, <2>2, <2>3
<1>5. Spent' = Allowed.faults - left'.faults
  BY DEF Spent
<1> QED BY <1>1, <1>2, <1>4, <1>5 DEF Spent

LEMMA RefusedFacts ==
  ASSUME NEW R \in SUBSET {"repair", "seq", "queue"}
  PROVE  Cardinality(R) \in Nat /\ (R # {} => Cardinality(R) >= 1)
<1>1. IsFiniteSet({"repair", "seq", "queue"})
  <2>1. IsFiniteSet({"repair"})
    BY FS_Singleton
  <2>2. IsFiniteSet({"repair", "seq"})
    <3>1. {"repair", "seq"} = {"repair"} \cup {"seq"}
      OBVIOUS
    <3> QED BY <2>1, <3>1, FS_AddElement
  <2>3. {"repair", "seq", "queue"} = {"repair", "seq"} \cup {"queue"}
    OBVIOUS
  <2> QED BY <2>2, <2>3, FS_AddElement
<1>2. IsFiniteSet(R)
  BY <1>1, FS_Subset
<1>3. Cardinality(R) \in Nat /\ (Cardinality(R) = 0 <=> R = {})
  BY <1>2, FS_CardinalityType, FS_EmptySet
<1>4. \A c \in Nat : c = 0 \/ c >= 1
  OBVIOUS
<1> QED BY <1>3, <1>4

(* The last n have no gap either, and unless there are none the newest is    *)
(* among them.                                                              *)
LEMMA NewestStays ==
  ASSUME NEW q \in SUBSET Item, IsFiniteSet(q), NEW b \in Nat, \A x \in q : x.seq < b,
         NEW n \in Nat, Last(q, n) # {}
  PROVE  \E y \in Last(q, n) : \A x \in q : x.seq <= y.seq
<1> DEFINE S == {x.seq : x \in q}
           After(z) == {w \in q : w.seq > z.seq}
<1>1. /\ \A x \in q : x.seq \in Nat
      /\ Last(q, n) \subseteq q
  BY DEF Item, Last
<1>2. PICK y \in q : \A x \in q : x.seq <= y.seq
  <2>1. S \in SUBSET Nat /\ S # {} /\ \A s \in S : s < b
    BY <1>1
  <2> HIDE DEF S
  <2>2. Max(S) \in S /\ \A s \in S : s <= Max(S)
    BY <2>1, Greatest
  <2> QED BY <2>2 DEF S
<1>3. PICK z \in Last(q, n) : TRUE
  OBVIOUS
<1>4. Cardinality(After(z)) < n
  BY <1>3 DEF Last
<1>5. After(y) \subseteq After(z) /\ IsFiniteSet(After(z))
  <2>1. After(y) = {}
    BY <1>1, <1>2
  <2>2. IsFiniteSet(After(z))
    BY FS_Subset
  <2> QED BY <2>1, <2>2
<1>6. /\ Cardinality(After(y)) <= Cardinality(After(z))
      /\ Cardinality(After(y)) \in Nat /\ Cardinality(After(z)) \in Nat
  BY <1>5, FS_Subset, FS_CardinalityType
<1>7. Cardinality(After(y)) < n
  <2> HIDE DEF After
  <2> QED BY <1>4, <1>6
<1> QED BY <1>2, <1>7 DEF Last

LEMMA ReadingFacts ==
  ASSUME ChannelTyped, NEW r \in Readings
  PROVE  /\ r.q \subseteq queue /\ IsFiniteSet(r.q) /\ r.days \in Nat
         /\ r.faults \in Nat /\ r.number \in {nextSeq, 1}
         /\ r.found = queue \/ (r.faults >= 1 /\ r.found = {} /\ r.q = {})
         /\ r.number = nextSeq \/ r.faults >= 1
         /\ r.q # {} => \E y \in r.q : \A x \in queue : x.seq <= y.seq
<1>1. PICK l \in Queues, n \in {nextSeq, 1} :
        r = [found |-> l.found, q |-> l.q, number |-> n, days |-> l.days,
             faults |-> l.faults + (IF n = nextSeq THEN 0 ELSE 1)]
  BY DEF Readings
<1>2. /\ r.found = l.found /\ r.q = l.q /\ r.number = n /\ r.days = l.days
      /\ r.faults = l.faults + (IF n = nextSeq THEN 0 ELSE 1)
  BY <1>1
<1>3. PICK b \in Nat : \A x \in queue : x.seq < b
  BY DEF ChannelTyped
<1>4. queue \in SUBSET Item /\ IsFiniteSet(queue) /\ Cardinality(queue) \in Nat
  BY FS_CardinalityType DEF ChannelTyped, MobileTypeOK
<1>5. \/ l = [found |-> queue, q |-> queue, faults |-> 0, days |-> 0]
      \/ l = [found |-> {}, q |-> {}, faults |-> 1, days |-> 0]
      \/ \E k \in 0..(Cardinality(queue) - 1) :
           l = [found |-> queue, q |-> Last(queue, k), faults |-> 0, days |-> 1]
  BY DEF Queues
<1>6. /\ l.q \subseteq queue /\ l.days \in Nat /\ l.faults \in {0, 1}
      /\ l.found = queue \/ (l.faults = 1 /\ l.found = {} /\ l.q = {})
      /\ l.q = queue \/ l.q = {} \/ \E k \in Nat : l.q = Last(queue, k)
  <2>1. \A k : Last(queue, k) \subseteq queue
    BY DEF Last
  <2> QED BY <1>4, <1>5, <2>1
<1>7. ASSUME r.q # {} PROVE \E y \in r.q : \A x \in queue : x.seq <= y.seq
  <2>1. CASE l.q = queue
    <3>1. Last(queue, Cardinality(queue) + 1) = queue
      <4> SUFFICES ASSUME NEW x \in queue
                   PROVE  Cardinality({y \in queue : y.seq > x.seq}) < Cardinality(queue) + 1
        BY DEF Last
      <4>1. {y \in queue : y.seq > x.seq} \subseteq queue
        OBVIOUS
      <4>2. /\ Cardinality({y \in queue : y.seq > x.seq}) <= Cardinality(queue)
            /\ Cardinality({y \in queue : y.seq > x.seq}) \in Nat
        BY <1>4, <4>1, FS_Subset, FS_CardinalityType
      <4> QED BY <1>4, <4>2
    <3>2. Cardinality(queue) + 1 \in Nat
      BY <1>4
    <3>3. Last(queue, Cardinality(queue) + 1) # {}
      BY <1>2, <1>7, <2>1, <3>1
    <3> QED BY <1>2, <1>3, <1>4, <2>1, <3>1, <3>2, <3>3, NewestStays
  <2>2. ASSUME NEW k \in Nat, l.q = Last(queue, k) PROVE \E y \in r.q : \A x \in queue : x.seq <= y.seq
    BY <1>2, <1>3, <1>4, <1>7, <2>2, NewestStays
  <2> QED BY <1>2, <1>6, <1>7, <2>1, <2>2
<1>8. IsFiniteSet(r.q)
  BY <1>2, <1>4, <1>6, FS_Subset
<1> QED BY <1>2, <1>6, <1>7, <1>8

(* The number the load writes: it is not less than before, or the queue was *)
(* found, and nothing in it has that number or one beyond.                  *)
LEMMA RepairFacts ==
  ASSUME ChannelTyped, NEW r \in Readings
  PROVE  /\ Repaired(r) \in Nat \ {0}
         /\ nextSeq <= Repaired(r) \/ (queue # {} /\ \A x \in queue : x.seq < Repaired(r))
         /\ r.found = queue => \A x \in queue : x.seq < Repaired(r)
<1>1. /\ nextSeq \in Nat \ {0} /\ r.number \in Nat \ {0} /\ r.number \in {nextSeq, 1}
      /\ r.found \in SUBSET Item /\ (r.found = queue \/ r.found = {})
  BY ReadingFacts DEF ChannelTyped, MobileTypeOK
<1>2. PICK b \in Nat : \A x \in queue : x.seq < b
  BY DEF ChannelTyped
<1>3. \A x \in r.found : x.seq < b /\ x.seq \in Nat \ {0}
  BY <1>1, <1>2 DEF Item
<1>4. /\ Following(r.number, r.found) \in Nat \ {0} /\ r.number <= Following(r.number, r.found)
      /\ \A x \in r.found : x.seq < Following(r.number, r.found)
  BY <1>1, <1>3, FollowingFacts
<1>5. /\ Following(1, r.found) \in Nat \ {0} /\ 1 \in Nat \ {0}
      /\ \A x \in r.found : x.seq < Following(1, r.found)
      /\ 1 < Following(1, r.found) => \E x \in r.found : 1 <= x.seq
  BY <1>1, <1>3, FollowingFacts
<1>6. CASE Repairs(r)
  <2>1. Repaired(r) = Following(r.number, r.found)
    BY <1>6 DEF Repaired
  <2>2. r.number < Following(1, r.found)
    BY <1>6 DEF Repairs
  <2>3. \E x \in r.found : TRUE
    BY <1>1, <1>5, <2>2
  <2>4. r.found = queue /\ queue # {}
    BY <1>1, <2>3
  <2> QED BY <1>4, <2>1, <2>4
<1>7. CASE ~Repairs(r)
  <2>1. Repaired(r) = nextSeq
    BY <1>7 DEF Repaired
  <2>2. ~(r.number < Following(1, r.found))
    BY <1>7 DEF Repairs
  <2>3. r.number <= nextSeq
    BY <1>1
  <2>4. \A x \in r.found : x.seq < nextSeq
    BY <1>1, <1>3, <1>5, <2>2, <2>3
  <2> QED BY <1>1, <2>1, <2>4
<1> QED BY <1>6, <1>7

(* What is beyond all that is queued is beyond all the phone has seen. *)
LEMMA BeyondQueue ==
  ASSUME ChannelTyped, Numbers, Spent <= 2, queue # {}, NEW n \in Nat,
         \A x \in queue : x.seq < n
  PROVE  \A v \in Highs : v < n
<1>1. PICK x \in queue : \A v \in Highs : v <= x.seq
  BY DEF Numbers
<1>2. x.seq \in Nat /\ \A v \in Highs : v \in Nat
  BY DEF ChannelTyped, MobileTypeOK, Item, Highs
<1> QED BY <1>1, <1>2

(* A step that costs f faults keeps the number ahead. *)
LEMMA NumbersKept ==
  ASSUME ChannelTyped, ChannelTyped', Numbers, NEW f \in Nat, Spent' = Spent + f,
         nextSeq <= nextSeq' \/ (Spent' <= 2 => \A v \in Highs' : v < nextSeq'),
         \A v \in Highs' : v \in Highs \/
           ((v >= nextSeq' => Spent' >= 2) /\ \E x \in queue' : x.seq >= v),
         f = 0 => \A x \in queue \cup queue' : x.seq < nextSeq',
         Spent' <= 2 /\ queue' # {} => \E x \in queue' : \A v \in Highs' : v <= x.seq
  PROVE  Numbers'
<1>1. /\ nextSeq \in Nat /\ nextSeq' \in Nat /\ Spent \in Nat /\ Spent' \in Nat
      /\ \A x \in queue \cup queue' : x.seq \in Nat
      /\ \A v \in Highs \cup Highs' : v \in Nat
  BY DEF ChannelTyped, MobileTypeOK, Item, Highs
<1>2. \A x \in queue' : x.seq >= nextSeq' => Spent' >= 1
  BY <1>1
<1>3. CASE nextSeq <= nextSeq'
  <2>1. \A v \in Highs : v >= nextSeq' => v >= nextSeq
    BY <1>1, <1>3
  <2>2. \A v \in Highs' : v >= nextSeq' => Spent' >= 2
    BY <1>1, <2>1 DEF Numbers
  <2>3. ASSUME NEW v \in Highs', v >= nextSeq', \A x \in queue' : x.seq < v PROVE Spent' >= 3
    <3>1. v \in Highs /\ v >= nextSeq
      BY <1>1, <2>1, <2>3
    <3>2. Spent >= 2
      BY <3>1 DEF Numbers
    <3>3. CASE f = 0
      BY <1>1, <1>3, <2>3, <3>1, <3>3 DEF Numbers
    <3>4. CASE f # 0
      BY <1>1, <3>2, <3>4
    <3> QED BY <3>3, <3>4
  <2> QED BY <1>2, <2>2, <2>3 DEF Numbers
<1>4. CASE Spent' <= 2 => \A v \in Highs' : v < nextSeq'
  <2>1. \A v \in Highs' : v >= nextSeq' => Spent' >= 3
    BY <1>1, <1>4
  <2>2. \A v \in Highs' : v >= nextSeq' => Spent' >= 2
    BY <1>1, <2>1
  <2> QED BY <1>2, <2>1, <2>2 DEF Numbers
<1> QED BY <1>3, <1>4

(* The message is queued, the last one, beyond what the phone has seen.     *)
Queued(m) ==
  \E new \in queue' :
    /\ new.id = m /\ queue' \ {new} \subseteq queue
    /\ \A x \in queue' \ {new} : x.seq < new.seq
    /\ Spent' <= 2 /\ ~restarted' => new.seq > phone.cursor

(* _write_to_queue(): the new message comes after all the phone has seen.   *)
LEMMA SendStep ==
  ASSUME Channel, NEW m \in Msg, Send(m)
  PROVE  /\ Channel' /\ sent' = sent \cup {m}
         /\ UNCHANGED <<phone, seen>> /\ Spent <= Spent'
         /\ lost' = lost \cup ((Ids(queue) \cup {m}) \ Ids(queue'))
         /\ queue' = queue \/ Queued(m)
         /\ ~restarted' => ~restarted
<1>1. PICK r \in Readings, refused \in SUBSET {"repair", "seq", "queue"} :
        LET stored == IF "repair" \in refused THEN nextSeq ELSE Repaired(r)
        IN \E again \in {stored, 1} :
             LET seq == Following(again, r.q)
                 unread == IF again = stored \/ r.number # nextSeq THEN 0 ELSE 1
             IN /\ "repair" \in refused => Repairs(r)
                /\ Pay(r.faults + unread + Cardinality(refused), r.days)
                /\ nextSeq' = IF "seq" \in refused THEN stored ELSE seq + 1
                /\ queue' = IF "queue" \in refused THEN queue
                            ELSE Pruned(r.q, [id |-> m, seq |-> seq])
                /\ sent' = sent \cup {m}
                /\ lost' = lost \cup ((Ids(queue) \cup {m}) \ Ids(queue'))
                /\ restarted' = (restarted \/ (again < stored /\ r.q = {}))
                /\ UNCHANGED <<phone, seen>>
  BY Zenon DEF Send
<1> DEFINE stored == IF "repair" \in refused THEN nextSeq ELSE Repaired(r)
<1>a. PICK again \in {stored, 1} :
        LET seq == Following(again, r.q)
            unread == IF again = stored \/ r.number # nextSeq THEN 0 ELSE 1
        IN /\ "repair" \in refused => Repairs(r)
           /\ Pay(r.faults + unread + Cardinality(refused), r.days)
           /\ nextSeq' = IF "seq" \in refused THEN stored ELSE seq + 1
           /\ queue' = IF "queue" \in refused THEN queue
                       ELSE Pruned(r.q, [id |-> m, seq |-> seq])
           /\ sent' = sent \cup {m}
           /\ lost' = lost \cup ((Ids(queue) \cup {m}) \ Ids(queue'))
           /\ restarted' = (restarted \/ (again < stored /\ r.q = {}))
           /\ UNCHANGED <<phone, seen>>
  BY <1>1, Zenon
<1> DEFINE seq == Following(again, r.q)
           unread == IF again = stored \/ r.number # nextSeq THEN 0 ELSE 1
           new == [id |-> m, seq |-> seq]
           f == r.faults + unread + Cardinality(refused)
<1>2. /\ Pay(f, r.days)
      /\ nextSeq' = IF "seq" \in refused THEN stored ELSE seq + 1
      /\ queue' = queue \/ queue' = Last(r.q \cup {new}, MaxItems)
      /\ sent' = sent \cup {m}
      /\ lost' = lost \cup ((Ids(queue) \cup {m}) \ Ids(queue'))
      /\ restarted' = (restarted \/ (again < stored /\ r.q = {}))
      /\ UNCHANGED <<phone, seen>>
  BY <1>a DEF Pruned
<1>3. /\ f \in Nat /\ r.days \in Nat
      /\ f = 0 => r.found = queue /\ refused = {} /\ again = stored
  <2>1. Cardinality(refused) \in Nat /\ (refused # {} => Cardinality(refused) >= 1)
    BY RefusedFacts
  <2>2. /\ r.faults \in Nat /\ r.days \in Nat
        /\ r.found = queue \/ r.faults >= 1
        /\ r.number = nextSeq \/ r.faults >= 1
    BY ReadingFacts DEF Channel
  <2>3. unread \in {0, 1} /\ (unread = 0 => again = stored \/ r.number # nextSeq)
    OBVIOUS
  <2>4. f = r.faults + unread + Cardinality(refused)
    OBVIOUS
  <2> HIDE DEF unread, stored, f
  <2>5. f \in Nat /\ (f = 0 => r.faults = 0 /\ unread = 0 /\ Cardinality(refused) = 0)
    BY <2>1, <2>2, <2>3, <2>4
  <2>6. Cardinality(refused) = 0 => refused = {}
    BY <2>1
  <2>7. r.faults = 0 => r.found = queue /\ r.number = nextSeq
    BY <2>2
  <2> QED BY <2>2, <2>3, <2>5, <2>6, <2>7
<1>b. ~restarted' => ~restarted /\ (r.q = {} => ~(again < stored))
  BY <1>2
<1>4. /\ nextSeq \in Nat \ {0} /\ queue \in SUBSET Item /\ IsFiniteSet(queue) /\ MaxItems \in Nat
      /\ \A x, y \in queue : x.seq = y.seq => x = y
      /\ left \in [DOMAIN Allowed -> Nat] /\ Spent \in Nat
  BY MobileQueueAssumption DEF Channel, ChannelTyped, MobileTypeOK
<1>5. PICK b \in Nat : \A x \in queue \cup phone.page : x.seq < b
  BY DEF Channel, ChannelTyped
<1>6. r.q \in SUBSET queue /\ IsFiniteSet(r.q) /\ \A x \in r.q : x.seq < b
  BY <1>5, ReadingFacts DEF Channel
<1>7. /\ stored \in Nat \ {0}
      /\ nextSeq <= stored \/ (queue # {} /\ \A x \in queue : x.seq < stored)
      /\ f = 0 => \A x \in queue : x.seq < stored
  BY <1>3, <1>4, RepairFacts DEF Channel
<1>c. again \in Nat \ {0} /\ (r.q = {} /\ ~restarted' => again = stored)
  <2> HIDE DEF stored
  <2> QED BY <1>7, <1>b
<1>8. seq \in Nat \ {0} /\ again <= seq /\ \A x \in r.q : x.seq < seq
  <2>1. r.q \in SUBSET Item
    BY <1>4, <1>6
  <2> HIDE DEF stored
  <2> QED BY <1>6, <1>c, <2>1, FollowingFacts
<1>9. left' \in [DOMAIN Allowed -> Nat] /\ Spent' \in Nat /\ Spent' = Spent + f
  BY <1>2, <1>3, <1>4, PayFacts
<1>10. new \in Item /\ new.seq = seq /\ new.id = m
  BY <1>8 DEF Item
<1>11. f = 0 => nextSeq' = seq + 1
  BY <1>2, <1>3
<1>12. nextSeq' \in Nat \ {0} /\ (nextSeq' = stored \/ nextSeq' = seq + 1)
  <2> HIDE DEF stored, seq
  <2> QED BY <1>2, <1>4, <1>7, <1>8
<1> HIDE DEF stored, seq, new, f
<1>13. /\ r.q \cup {new} \in SUBSET Item /\ IsFiniteSet(r.q \cup {new})
       /\ \A x, y \in r.q \cup {new} : x.seq = y.seq => x = y
  <2>1. \A x \in r.q : x.seq \in Nat /\ x.seq # new.seq
    BY <1>4, <1>6, <1>8, <1>10 DEF Item
  <2>2. IsFiniteSet(r.q \cup {new})
    BY <1>6, FS_AddElement
  <2> QED BY <1>4, <1>6, <1>10, <2>1, <2>2
<1>14. /\ queue' \subseteq queue \cup {new}
       /\ queue' = queue \/ (queue' \subseteq r.q \cup {new} /\ Cardinality(queue') <= MaxItems)
  BY <1>2, <1>4, <1>6, <1>13, LastFacts
<1>15. ChannelTyped'
  <2>1. queue' \subseteq Item /\ IsFiniteSet(queue') /\ Cardinality(queue') <= MaxItems
    BY <1>4, <1>13, <1>14, FS_Subset DEF Channel, ChannelTyped, MobileTypeOK
  <2>2. \A x, y \in queue' : x.seq = y.seq => x = y
    BY <1>4, <1>13, <1>14
  <2>3. \E c \in Nat : \A x \in queue' \cup phone'.page : x.seq < c
    <3>1. b + seq + 1 \in Nat
      BY <1>8
    <3>2. \A x \in queue \cup phone.page : x.seq \in Nat
      BY DEF Channel, ChannelTyped, MobileTypeOK, Item
    <3>3. \A x \in queue \cup phone.page : x.seq < b + seq + 1
      BY <1>5, <1>8, <3>2
    <3>4. new.seq < b + seq + 1
      BY <1>8, <1>10
    <3>5. \A x \in queue' \cup phone'.page : x.seq < b + seq + 1
      BY <1>2, <1>14, <3>3, <3>4
    <3> QED BY <3>1, <3>5
  <2>4. lost' \subseteq Msg /\ sent' \subseteq Msg
    BY <1>2, <1>4 DEF Channel, ChannelTyped, MobileTypeOK, Ids, Item
  <2>5. restarted' \in BOOLEAN
    BY <1>2 DEF Channel, ChannelTyped, MobileTypeOK
  <2> QED BY <1>2, <1>9, <1>12, <2>1, <2>2, <2>3, <2>4, <2>5 DEF Channel, ChannelTyped, MobileTypeOK
<1>16. \A x \in queue : x.seq \in Nat
  BY <1>4 DEF Item
<1>17. ASSUME Spent' <= 2, ~restarted' PROVE \A v \in Highs : v < seq
  <2> SUFFICES ASSUME NEW v \in Highs, ~(v < seq) PROVE FALSE
    OBVIOUS
  <2>1. v \in Nat
    BY DEF Highs, Channel, ChannelTyped, MobileTypeOK, Item
  <2>2. Numbers /\ Spent <= 2
    BY <1>3, <1>4, <1>9, <1>17, <1>b DEF Channel
  <2>3. CASE r.q # {}
    <3>1. PICK y \in r.q : \A x \in queue : x.seq <= y.seq
      BY <2>3, ReadingFacts DEF Channel
    <3>2. queue # {} /\ \A x \in queue : x.seq < seq
      BY <1>6, <1>8, <1>16, <3>1
    <3> QED BY <1>8, <2>2, <3>2, BeyondQueue DEF Channel
  <2>4. CASE r.q = {} /\ queue # {} /\ \A x \in queue : x.seq < stored
    <3>1. v < stored
      BY <1>7, <2>2, <2>4, BeyondQueue DEF Channel
    <3> QED BY <1>7, <1>8, <1>17, <1>c, <2>1, <2>4, <3>1
  <2>5. CASE r.q = {} /\ nextSeq <= stored
    <3>1. v >= stored /\ v >= nextSeq
      BY <1>4, <1>7, <1>8, <1>17, <1>c, <2>1, <2>5
    <3>2. Spent >= 2
      BY <2>2, <3>1 DEF Numbers
    <3>3. f = 0
      BY <1>3, <1>4, <1>9, <1>17, <3>2
    <3>4. \A x \in queue : x.seq < v
      BY <1>7, <1>16, <2>1, <3>1, <3>3
    <3>5. Spent >= 3
      BY <2>2, <3>1, <3>4 DEF Numbers
    <3> QED BY <1>4, <2>2, <3>5
  <2> QED BY <1>7, <2>3, <2>4, <2>5
<1>d. queue' # queue => new \in queue'
  <2> SUFFICES ASSUME queue' # queue PROVE new \in queue'
    OBVIOUS
  <2>1. queue' = Last(r.q \cup {new}, MaxItems)
    BY <1>2
  <2>2. \A x \in r.q : x.seq \in Nat /\ x.seq < new.seq
    BY <1>6, <1>8, <1>10, <1>16
  <2>3. {y \in r.q \cup {new} : y.seq > new.seq} = {}
    BY <1>8, <1>10, <2>2
  <2> QED BY <2>1, <2>3, FS_EmptySet, MobileQueueAssumption DEF Last
<1>18. ASSUME ~restarted' PROVE Numbers'
  <2>0. Numbers /\ Highs' = Highs /\ \A v \in Highs : v \in Nat
    BY <1>2, <1>18, <1>b DEF Channel, Highs, ChannelTyped, MobileTypeOK, Item
  <2>1. f = 0 => \A x \in queue \cup queue' : x.seq < nextSeq'
    BY <1>3, <1>7, <1>8, <1>10, <1>11, <1>14, <1>16
  <2>2. nextSeq <= nextSeq' \/ (Spent' <= 2 => \A v \in Highs' : v < nextSeq')
    <3>1. CASE nextSeq' = seq + 1
      BY <1>8, <1>17, <1>18, <2>0, <3>1
    <3>2. CASE nextSeq' = stored
      <4>1. Spent' <= 2 => Spent <= 2
        BY <1>3, <1>4, <1>9
      <4> QED BY <1>7, <2>0, <3>2, <4>1, BeyondQueue DEF Channel
    <3> QED BY <1>12, <3>1, <3>2
  <2>3. Spent' <= 2 /\ queue' # {} => \E x \in queue' : \A v \in Highs' : v <= x.seq
    <3> SUFFICES ASSUME Spent' <= 2, queue' # {} PROVE \E x \in queue' : \A v \in Highs' : v <= x.seq
      OBVIOUS
    <3>1. CASE queue' = queue
      <4>1. Spent <= 2
        BY <1>3, <1>4, <1>9
      <4> QED BY <2>0, <3>1, <4>1 DEF Numbers
    <3>2. CASE new \in queue'
      <4>1. \A v \in Highs' : v <= new.seq
        BY <1>8, <1>10, <1>17, <1>18, <2>0
      <4> QED BY <3>2, <4>1
    <3> QED BY <1>d, <3>1, <3>2
  <2> QED BY <1>3, <1>9, <1>15, <2>0, <2>1, <2>2, <2>3, NumbersKept DEF Channel
<1>19. ASSUME ~restarted' PROVE Delivery'
  <2> SUFFICES ASSUME Spent' <= 2 PROVE InOrder'
    BY DEF Delivery
  <2>1. \A v \in Highs : v < seq
    BY <1>17, <1>19
  <2>2. InOrder
    BY <1>3, <1>4, <1>9, <1>19, <1>b DEF Channel, Delivery
  <2>3. ~(new.seq <= phone.cursor) /\ \A y \in phone.page : ~(new.seq <= y.seq)
    <3>1. phone.cursor \in Highs /\ \A y \in phone.page : y.seq \in Highs
      BY DEF Highs
    <3>2. phone.cursor \in Nat /\ \A y \in phone.page : y.seq \in Nat
      BY DEF Channel, ChannelTyped, MobileTypeOK, Item
    <3> QED BY <1>8, <1>10, <2>1, <3>1, <3>2
  <2>4. /\ \A x \in queue' : x.seq <= phone'.cursor => x.id \in seen'
        /\ \A x \in queue', y \in phone'.page :
             phone'.cursor < x.seq /\ x.seq <= y.seq => x \in phone'.page
    BY <1>2, <1>14, <2>2, <2>3 DEF InOrder
  <2>5. sent' \ lost' \subseteq seen' \cup Ids(queue')
    BY <1>2, <2>2 DEF InOrder
  <2> QED BY <2>4, <2>5 DEF InOrder
<1>20. ASSUME queue' # queue PROVE Queued(m)
  <2>1. queue' = Last(r.q \cup {new}, MaxItems)
    BY <1>2, <1>20
  <2>2. \A x \in r.q : x.seq < new.seq
    BY <1>8, <1>10
  <2>3. queue' \ {new} \subseteq r.q
    BY <2>1 DEF Last
  <2>4. Spent' <= 2 /\ ~restarted' => new.seq > phone.cursor
    <3>1. phone.cursor \in Highs /\ phone.cursor \in Nat
      BY DEF Highs, Channel, ChannelTyped, MobileTypeOK
    <3> QED BY <1>8, <1>10, <1>17, <3>1
  <2> QED BY <1>6, <1>10, <1>20, <1>d, <2>2, <2>3, <2>4 DEF Queued
<1>21. Spent <= Spent'
  BY <1>3, <1>4, <1>9
<1> QED BY <1>2, <1>15, <1>18, <1>19, <1>20, <1>21, <1>b DEF Channel

(* Loading the queue, at the cost of f faults: the number is that repaired, *)
(* or, when that write is refused, the one of before.                       *)
LEMMA LoadFacts ==
  ASSUME ChannelTyped, NEW r \in Readings, NEW f \in Nat, r.faults <= f,
         nextSeq' = Repaired(r) \/ (nextSeq' = nextSeq /\ f >= 1),
         Spent' = Spent + f, queue' \subseteq queue
  PROVE  /\ nextSeq' \in Nat \ {0}
         /\ nextSeq <= nextSeq' \/ (queue # {} /\ \A x \in queue : x.seq < nextSeq')
         /\ f = 0 => \A x \in queue \cup queue' : x.seq < nextSeq'
         /\ Numbers => \A x \in r.q : x.seq >= nextSeq' => Spent' >= 2
<1>1. nextSeq \in Nat \ {0} /\ Spent \in Nat /\ \A x \in queue : x.seq \in Nat
  BY DEF ChannelTyped, MobileTypeOK, Item
<1>2. /\ nextSeq' \in Nat \ {0}
      /\ nextSeq <= nextSeq' \/ (queue # {} /\ \A x \in queue : x.seq < nextSeq')
  BY <1>1, RepairFacts
<1>3. /\ r.q \subseteq queue /\ r.faults \in Nat
      /\ r.q = {} \/ r.found = queue
      /\ r.faults = 0 => r.found = queue
  BY ReadingFacts
<1>4. f = 0 => r.faults = 0 /\ nextSeq' = Repaired(r)
  BY <1>3
<1>5. f = 0 => \A x \in queue \cup queue' : x.seq < nextSeq'
  BY <1>3, <1>4, RepairFacts
<1>6. ASSUME Numbers, NEW x \in r.q, x.seq >= nextSeq' PROVE Spent' >= 2
  <2>1. r.found = queue /\ x \in queue /\ x.seq \in Nat
    BY <1>1, <1>3
  <2>2. ~(nextSeq' = Repaired(r))
    BY <1>2, <1>6, <2>1, RepairFacts
  <2>3. f >= 1 /\ x.seq >= nextSeq
    BY <1>6, <2>2
  <2>4. Spent >= 1
    BY <1>6, <2>1, <2>3 DEF Numbers
  <2> QED BY <1>1, <2>3, <2>4
<1> QED BY <1>2, <1>5, <1>6

(* What such a step keeps of the types. *)
LEMMA LoadTyped ==
  ASSUME Channel, queue' \subseteq queue, nextSeq' \in Nat \ {0},
         left' \in [DOMAIN Allowed -> Nat], Spent' \in Nat,
         phone' \in [cursor : Nat, busy : BOOLEAN, page : SUBSET Item],
         phone'.page \subseteq queue \cup phone.page, ~phone'.busy => phone'.page = {},
         restarted' = restarted, sent' = sent, lost' \subseteq lost \cup Ids(queue), seen' \subseteq seen \cup Ids(phone.page)
  PROVE  ChannelTyped'
<1>1. queue \subseteq Item /\ IsFiniteSet(queue) /\ IsFiniteSet(phone.page) /\ phone.page \subseteq Item
  BY DEF Channel, ChannelTyped, MobileTypeOK
<1>2. /\ IsFiniteSet(queue') /\ Cardinality(queue') <= Cardinality(queue)
      /\ Cardinality(queue') \in Nat /\ Cardinality(queue) \in Nat
  BY <1>1, FS_Subset, FS_CardinalityType
<1>3. IsFiniteSet(phone'.page)
  BY <1>1, FS_Subset, FS_Union
<1>4. Cardinality(queue) <= MaxItems /\ MaxItems \in Nat
  BY MobileQueueAssumption DEF Channel, ChannelTyped, MobileTypeOK
<1>5. Cardinality(queue') <= MaxItems
  BY <1>2, <1>4
<1>6. \E b \in Nat : \A x \in queue' \cup phone'.page : x.seq < b
  <2>1. PICK b \in Nat : \A x \in queue \cup phone.page : x.seq < b
    BY DEF Channel, ChannelTyped
  <2> QED BY <2>1
<1>7. lost' \subseteq Msg /\ seen' \subseteq Msg
  BY <1>1 DEF Channel, ChannelTyped, MobileTypeOK, Ids, Item
<1> QED BY <1>1, <1>2, <1>3, <1>5, <1>6, <1>7 DEF Channel, ChannelTyped, MobileTypeOK

LEMMA PollStep ==
  ASSUME Channel, Poll
  PROVE  Channel' /\ sent' = sent /\ Spent <= Spent' /\ restarted' = restarted
<1>1. PICK r \in Readings :
        LET page == First({x \in r.q : x.seq > phone.cursor}, Page)
        IN /\ Load(r)
           /\ queue' = Kept(r)
           /\ lost' = lost \cup (Ids(queue) \ Ids(queue'))
           /\ phone' = [phone EXCEPT !.busy = (page # {}), !.page = page]
  BY DEF Poll
<1> DEFINE beyond == {x \in r.q : x.seq > phone.cursor}
           page == First(beyond, Page)
<1>2. ~phone.busy /\ UNCHANGED <<seen, sent, restarted>>
  BY DEF Poll
<1>3. /\ r.q \subseteq queue /\ IsFiniteSet(r.q) /\ r.days \in Nat /\ r.faults \in Nat
      /\ r.q = {} \/ r.found = queue
      /\ r.q # {} => \E y \in r.q : \A x \in queue : x.seq <= y.seq
  BY ReadingFacts DEF Channel
<1>4. /\ queue \subseteq Item /\ left \in [DOMAIN Allowed -> Nat] /\ Spent \in Nat /\ Page \in Nat
      /\ phone \in [cursor : Nat, busy : BOOLEAN, page : SUBSET Item] /\ phone.page = {}
  BY <1>2, MobileQueueAssumption DEF Channel, ChannelTyped, MobileTypeOK
<1>5. /\ queue' \subseteq queue /\ r.q \subseteq queue'
      /\ r.q # {} => queue' = r.q
      /\ queue' = r.q \/ queue' = queue
  BY <1>1, <1>3 DEF Kept
<1>6. /\ page \subseteq r.q /\ \A x \in page : x.seq > phone.cursor
      /\ \A y \in page, x \in r.q : phone.cursor < x.seq /\ x.seq <= y.seq => x \in page
  <2>1. beyond \in SUBSET Item /\ IsFiniteSet(beyond) /\ beyond \subseteq r.q
        /\ \A x \in r.q : x.seq \in Nat
    BY <1>3, <1>4, FS_Subset DEF Item
  <2>2. page \subseteq beyond /\ \A y \in page, x \in beyond : x.seq <= y.seq => x \in page
    <3> HIDE DEF beyond
    <3> QED BY <1>4, <2>1, FirstFacts
  <2> HIDE DEF page
  <2> QED BY <1>4, <2>1, <2>2
<1>7. phone' = [phone EXCEPT !.busy = (page # {}), !.page = page]
  BY <1>1
<1> HIDE DEF page, beyond
<1>8. /\ phone'.page = page /\ phone'.cursor = phone.cursor /\ (~phone'.busy => page = {})
      /\ phone' \in [cursor : Nat, busy : BOOLEAN, page : SUBSET Item]
  BY <1>3, <1>4, <1>6, <1>7
<1>9. PICK f \in Nat :
        /\ r.faults <= f /\ Pay(f, r.days)
        /\ nextSeq' = Repaired(r) \/ (nextSeq' = nextSeq /\ f >= 1)
  <2>1. CASE nextSeq' = Repaired(r) /\ Pay(r.faults, r.days)
    BY <1>3, <2>1
  <2>2. CASE nextSeq' = nextSeq /\ Pay(r.faults + 1, r.days)
    BY <1>3, <2>2
  <2> QED BY <1>1, <2>1, <2>2 DEF Load
<1>10. left' \in [DOMAIN Allowed -> Nat] /\ Spent' \in Nat /\ Spent' = Spent + f
  BY <1>3, <1>4, <1>9, PayFacts
<1>11. /\ nextSeq' \in Nat \ {0}
       /\ nextSeq <= nextSeq' \/ (queue # {} /\ \A x \in queue : x.seq < nextSeq')
       /\ f = 0 => \A x \in queue \cup queue' : x.seq < nextSeq'
       /\ Numbers => \A x \in r.q : x.seq >= nextSeq' => Spent' >= 2
  BY <1>5, <1>9, <1>10, LoadFacts DEF Channel
<1>12. ChannelTyped'
  <2>1. phone'.page \subseteq queue \cup phone.page /\ (~phone'.busy => phone'.page = {})
    BY <1>3, <1>6, <1>8
  <2>2. lost' \subseteq lost \cup Ids(queue) /\ seen' \subseteq seen \cup Ids(phone.page)
    BY <1>1, <1>2
  <2> QED BY <1>2, <1>5, <1>8, <1>10, <1>11, <2>1, <2>2, LoadTyped
<1>13. ASSUME ~restarted' PROVE Numbers'
  <2>0. Numbers /\ (Spent' <= 2 => Spent <= 2) /\ \A v \in Highs : v \in Nat
    BY <1>2, <1>4, <1>10, <1>13 DEF Channel, ChannelTyped, MobileTypeOK, Highs, Item
  <2>1. \A v \in Highs' : v \in Highs \/ \E x \in page : v = x.seq
    BY <1>8 DEF Highs
  <2>2. page # {} => queue' = r.q /\ r.q # {}
    BY <1>5, <1>6
  <2>3. \A x \in page : (x.seq >= nextSeq' => Spent' >= 2) /\ \E y \in queue' : y.seq >= x.seq
    <3> SUFFICES ASSUME NEW x \in page
                 PROVE  (x.seq >= nextSeq' => Spent' >= 2) /\ \E y \in queue' : y.seq >= x.seq
      OBVIOUS
    <3>1. x \in r.q /\ x \in queue' /\ x.seq \in Nat
      BY <1>3, <1>4, <1>5, <1>6, <2>2 DEF Item
    <3>2. x.seq >= x.seq
      BY <3>1
    <3> QED BY <1>11, <2>0, <3>1, <3>2
  <2>4. nextSeq <= nextSeq' \/ (Spent' <= 2 => \A v \in Highs' : v < nextSeq')
    <3> SUFFICES ASSUME queue # {}, \A x \in queue : x.seq < nextSeq', Spent' <= 2
                 PROVE  \A v \in Highs' : v < nextSeq'
      BY <1>11
    <3>1. \A v \in Highs : v < nextSeq'
      BY <1>11, <2>0, BeyondQueue DEF Channel
    <3> QED BY <1>3, <1>6, <2>1, <3>1
  <2>5. Spent' <= 2 /\ queue' # {} => \E x \in queue' : \A v \in Highs' : v <= x.seq
    <3> SUFFICES ASSUME Spent' <= 2, queue' # {} PROVE \E x \in queue' : \A v \in Highs' : v <= x.seq
      OBVIOUS
    <3>1. PICK top \in queue : \A v \in Highs : v <= top.seq
      BY <1>5, <2>0 DEF Numbers
    <3>2. CASE r.q # {}
      <4>1. PICK y \in r.q : \A x \in queue : x.seq <= y.seq
        BY <1>3, <3>2
      <4>2. y \in queue' /\ y.seq \in Nat /\ top.seq \in Nat /\ top.seq <= y.seq
        BY <1>3, <1>4, <1>5, <4>1 DEF Item
      <4>3. \A v \in Highs' : v <= y.seq
        BY <1>3, <1>6, <2>0, <2>1, <3>1, <4>1, <4>2
      <4> QED BY <4>2, <4>3
    <3>3. CASE r.q = {}
      <4>1. queue' = queue /\ page = {}
        BY <1>5, <1>6, <3>3
      <4> QED BY <2>1, <3>1, <4>1
    <3> QED BY <3>2, <3>3
  <2> QED BY <1>10, <1>11, <1>12, <2>0, <2>1, <2>3, <2>4, <2>5, NumbersKept DEF Channel
<1>14. ASSUME ~restarted' PROVE Delivery'
  <2> SUFFICES ASSUME Spent' <= 2 PROVE InOrder'
    BY DEF Delivery
  <2>1. InOrder
    BY <1>2, <1>4, <1>10, <1>14 DEF Channel, Delivery
  <2>2. page # {} => queue' = r.q
    BY <1>3, <1>5, <1>6
  <2> QED BY <1>1, <1>2, <1>5, <1>6, <1>8, <2>1, <2>2 DEF InOrder
<1>15. Spent <= Spent'
  BY <1>4, <1>9, <1>10
<1> QED BY <1>2, <1>12, <1>13, <1>14, <1>15 DEF Channel

LEMMA AckStep ==
  ASSUME Channel, Ack
  PROVE  Channel' /\ sent' = sent /\ Spent <= Spent' /\ restarted' = restarted
<1>1. PICK n \in 0..phone.cursor, r \in Readings, refused \in SUBSET {"repair", "queue"} :
        LET rest == {x \in r.q : x.seq > n}
        IN /\ rest # r.q
           /\ "repair" \in refused => Repairs(r)
           /\ Pay(r.faults + Cardinality(refused), r.days)
           /\ nextSeq' = IF "repair" \in refused THEN nextSeq ELSE Repaired(r)
           /\ queue' = IF "queue" \in refused THEN r.q ELSE rest
           /\ lost' = lost \cup (Ids(queue) \ Ids(r.q))
           /\ UNCHANGED <<phone, seen, sent, restarted>>
  BY DEF Ack
<1> DEFINE f == r.faults + Cardinality(refused)
<1>2. /\ r.q \subseteq queue /\ r.days \in Nat /\ r.faults \in Nat
      /\ r.q # {} => \E y \in r.q : \A x \in queue : x.seq <= y.seq
  BY ReadingFacts DEF Channel
<1>3. f \in Nat /\ r.faults <= f /\ ("repair" \in refused => f >= 1)
  <2>1. Cardinality(refused) \in Nat /\ (refused # {} => Cardinality(refused) >= 1)
    BY RefusedFacts
  <2> QED BY <1>2, <2>1
<1>4. /\ queue \subseteq Item /\ left \in [DOMAIN Allowed -> Nat] /\ Spent \in Nat
      /\ phone \in [cursor : Nat, busy : BOOLEAN, page : SUBSET Item]
      /\ ~phone.busy => phone.page = {}
  BY DEF Channel, ChannelTyped, MobileTypeOK
<1>5. /\ Pay(f, r.days)
      /\ nextSeq' = Repaired(r) \/ (nextSeq' = nextSeq /\ f >= 1)
  BY <1>1, <1>3
<1> HIDE DEF f
<1>6. left' \in [DOMAIN Allowed -> Nat] /\ Spent' \in Nat /\ Spent' = Spent + f
  BY <1>2, <1>3, <1>4, <1>5, PayFacts
<1>7. /\ queue' \subseteq r.q
      /\ \A x \in r.q \ queue' : x.seq <= phone.cursor
      /\ \A x \in queue', y \in r.q : x.seq <= y.seq => y \in queue'
  <2>1. \A x \in r.q : x.seq \in Nat /\ n \in Nat /\ n <= phone.cursor /\ phone.cursor \in Nat
    BY <1>2, <1>4 DEF Item
  <2>2. queue' = r.q \/ queue' = {x \in r.q : x.seq > n}
    BY <1>1
  <2> QED BY <2>1, <2>2
<1>8. /\ nextSeq' \in Nat \ {0}
      /\ nextSeq <= nextSeq' \/ (queue # {} /\ \A x \in queue : x.seq < nextSeq')
      /\ f = 0 => \A x \in queue \cup queue' : x.seq < nextSeq'
  BY <1>2, <1>3, <1>5, <1>6, <1>7, LoadFacts DEF Channel
<1>9. UNCHANGED <<phone, seen, sent, restarted>> /\ lost' = lost \cup (Ids(queue) \ Ids(r.q))
  BY <1>1
<1>10. ChannelTyped'
  BY <1>2, <1>4, <1>6, <1>7, <1>8, <1>9, LoadTyped
<1>11. ASSUME ~restarted' PROVE Numbers'
  <2>1. /\ Numbers /\ Highs' = Highs /\ (Spent' <= 2 => Spent <= 2)
        /\ \A v \in Highs : v \in Nat
    BY <1>3, <1>4, <1>6, <1>9, <1>11 DEF Channel, ChannelTyped, MobileTypeOK, Highs, Item
  <2>2. nextSeq <= nextSeq' \/ (Spent' <= 2 => \A v \in Highs' : v < nextSeq')
    BY <1>8, <2>1, BeyondQueue DEF Channel
  <2>3. Spent' <= 2 /\ queue' # {} => \E x \in queue' : \A v \in Highs' : v <= x.seq
    <3> SUFFICES ASSUME Spent' <= 2, queue' # {} PROVE \E x \in queue' : \A v \in Highs' : v <= x.seq
      OBVIOUS
    <3>1. PICK top \in queue : \A v \in Highs : v <= top.seq
      BY <1>2, <1>7, <2>1 DEF Numbers
    <3>2. PICK y \in r.q : \A x \in queue : x.seq <= y.seq
      BY <1>2, <1>7
    <3>3. y \in queue' /\ top.seq <= y.seq /\ top.seq \in Nat /\ y.seq \in Nat
      BY <1>2, <1>4, <1>7, <3>2 DEF Item
    <3>4. \A v \in Highs' : v <= y.seq
      BY <2>1, <3>1, <3>3
    <3> QED BY <3>3, <3>4
  <2> QED BY <1>3, <1>6, <1>8, <1>10, <2>1, <2>2, <2>3, NumbersKept DEF Channel
<1>12. ASSUME ~restarted' PROVE Delivery'
  <2> SUFFICES ASSUME Spent' <= 2 PROVE InOrder'
    BY DEF Delivery
  <2>1. InOrder
    BY <1>3, <1>4, <1>6, <1>9, <1>12 DEF Channel, Delivery
  <2>2. Ids(r.q) \subseteq seen \cup Ids(queue')
    BY <1>2, <1>7, <2>1 DEF InOrder, Ids
  <2> QED BY <1>2, <1>7, <1>9, <2>1, <2>2 DEF InOrder, Ids
<1>13. Spent <= Spent'
  BY <1>3, <1>4, <1>6
<1> QED BY <1>9, <1>10, <1>11, <1>12, <1>13 DEF Channel

(* The phone stores what it was given, or never sees it. *)
LEMMA PhoneStep ==
  ASSUME Channel, PhoneStores \/ AnswerLost
  PROVE  Channel' /\ sent' = sent /\ restarted' = restarted
<1>1. /\ UNCHANGED <<queue, nextSeq, sent, lost, restarted, left>>
      /\ phone'.page = {} /\ seen' \subseteq seen \cup Ids(phone.page) /\ seen \subseteq seen'
      /\ phone' \in [cursor : Nat, busy : BOOLEAN, page : SUBSET Item]
      /\ phone'.cursor \in Highs
      /\ \A x \in queue : x.seq <= phone'.cursor /\ Spent <= 2 /\ ~restarted => x.id \in seen'
  <2>1. /\ phone \in [cursor : Nat, busy : BOOLEAN, page : SUBSET Item] /\ queue \subseteq Item
        /\ \E b \in Nat : \A x \in queue \cup phone.page : x.seq < b
    BY DEF Channel, ChannelTyped, MobileTypeOK
  <2>2. Spent <= 2 /\ ~restarted => InOrder
    BY DEF Channel, Delivery
  <2>3. CASE AnswerLost
    BY <2>1, <2>2, <2>3 DEF AnswerLost, Highs, InOrder
  <2>4. CASE PhoneStores
    <3> DEFINE top == Max({phone.cursor} \cup {x.seq : x \in phone.page})
    <3>1. /\ phone' = [cursor |-> top, busy |-> FALSE, page |-> {}]
          /\ seen' = seen \cup Ids(phone.page) /\ UNCHANGED <<queue, nextSeq, sent, lost, restarted, left>>
      BY <2>4 DEF PhoneStores
    <3>2. Highs \in SUBSET Nat /\ Highs # {}
      BY <2>1 DEF Highs, Item
    <3>3. PICK b \in Nat : \A v \in Highs : v < b
      <4>1. PICK c \in Nat : \A x \in queue \cup phone.page : x.seq < c
        BY <2>1
      <4>2. phone.cursor \in Nat /\ \A x \in phone.page : x.seq \in Nat
        BY <2>1 DEF Item
      <4>3. c + phone.cursor + 1 \in Nat /\ \A v \in Highs : v < c + phone.cursor + 1
        BY <4>1, <4>2 DEF Highs
      <4> QED BY <4>3
    <3>4. top \in Highs /\ \A v \in Highs : v <= top
      BY <3>2, <3>3, Greatest DEF Highs
    <3> HIDE DEF top
    <3>5. ASSUME NEW x \in queue, x.seq <= top, Spent <= 2, ~restarted PROVE x.id \in seen'
      <4>1. x.seq \in Nat /\ phone.cursor \in Nat
        BY <2>1 DEF Item
      <4>2. CASE x.seq <= phone.cursor
        BY <2>2, <3>1, <3>5, <4>2 DEF InOrder
      <4>3. CASE phone.cursor < x.seq
        <5>1. PICK y \in phone.page : top = y.seq
          BY <3>4, <3>5, <4>1, <4>3 DEF Highs
        <5>2. x \in phone.page
          BY <2>2, <3>5, <4>3, <5>1 DEF InOrder
        <5> QED BY <3>1, <5>2 DEF Ids
      <4> QED BY <4>1, <4>2, <4>3
    <3>6. top \in Nat
      BY <3>2, <3>4
    <3> QED BY <3>1, <3>4, <3>5, <3>6
  <2> QED BY <2>3, <2>4
<1>2. Spent' = Spent /\ Spent \in Nat /\ left' \in [DOMAIN Allowed -> Nat] /\ nextSeq' \in Nat \ {0}
  BY <1>1 DEF Spent, Channel, ChannelTyped, MobileTypeOK
<1>3. ChannelTyped'
  BY <1>1, <1>2, LoadTyped
<1>4. Highs' \subseteq Highs
  BY <1>1 DEF Highs
<1>5. ASSUME ~restarted' PROVE Numbers'
  BY <1>1, <1>2, <1>4, <1>5 DEF Numbers, Channel
<1>6. ASSUME ~restarted' PROVE Delivery'
  BY <1>1, <1>2, <1>6 DEF Delivery, InOrder, Channel
<1> QED BY <1>1, <1>3, <1>5, <1>6 DEF Channel

(* A step elsewhere: of the channel, no more than an answer is lost. *)
Aside ==
  /\ UNCHANGED <<queue, seen, sent, lost, restarted>> /\ Spent <= Spent'
  /\ phone'.cursor = phone.cursor /\ phone'.page \subseteq phone.page

(* Steps elsewhere, which may cost faults, and the end of the process,      *)
(* which forgets the answer on its way.                                     *)
LEMMA ElsewhereStep ==
  ASSUME Channel, UNCHANGED <<queue, nextSeq, seen, sent, lost, restarted>>,
         left' \in [DOMAIN Allowed -> Nat], left'.faults <= left.faults,
         phone' = phone \/ phone' = [phone EXCEPT !.busy = FALSE, !.page = {}]
  PROVE  Channel' /\ Aside
<1>1. /\ phone'.page \subseteq phone.page /\ phone'.cursor = phone.cursor
      /\ phone' \in [cursor : Nat, busy : BOOLEAN, page : SUBSET Item]
      /\ ~phone'.busy => phone'.page = {}
  BY DEF Channel, ChannelTyped, MobileTypeOK
<1>2. Spent' \in Nat /\ Spent \in Nat /\ Spent' >= Spent
  <2>1. "faults" \in DOMAIN Allowed /\ Allowed.faults \in Nat
    BY MobileQueueAssumption
  <2>2. left.faults \in Nat /\ left'.faults \in Nat /\ Spent \in Nat
    BY <2>1 DEF Channel, ChannelTyped, MobileTypeOK
  <2>3. Spent' = Allowed.faults - left'.faults
    BY DEF Spent
  <2> QED BY <2>1, <2>2, <2>3 DEF Spent
<1>3. ChannelTyped'
  <2>1. nextSeq' \in Nat \ {0}
    BY DEF Channel, ChannelTyped, MobileTypeOK
  <2> QED BY <1>1, <1>2, <2>1, LoadTyped
<1>4. Highs' \subseteq Highs
  BY <1>1 DEF Highs
<1>5. ASSUME ~restarted' PROVE Numbers'
  BY <1>2, <1>4, <1>5 DEF Numbers, Channel
<1>6. ASSUME ~restarted' PROVE Delivery'
  <2> SUFFICES ASSUME Spent' <= 2 PROVE InOrder'
    BY DEF Delivery
  <2>1. InOrder
    BY <1>2, <1>6 DEF Channel, Delivery
  <2>2. phone'.page = phone.page \/ phone'.page = {}
    BY DEF Channel, ChannelTyped, MobileTypeOK
  <2> QED BY <1>1, <2>1, <2>2 DEF InOrder, Ids
<1>7. Aside
  BY <1>1, <1>2 DEF Aside
<1> QED BY <1>3, <1>5, <1>6, <1>7 DEF Channel

-----------------------------------------------------------------------------
(* Executions and receipts on the one side, the channel on the other: what  *)
(* an execution has sent, and what a receipt promises, was handed over.     *)
Promised ==
  /\ conv \in Exec \cup {None}
  /\ \A e \in Exec : exec[e].pc = "sent" => e \in sent
  /\ \A k \in Turn : receipt[k].status = "completed" => receipt[k].turn \in sent

LEMMA PayForFacts ==
  ASSUME left \in [DOMAIN Allowed -> Nat], NEW what \in DOMAIN Allowed, NEW n \in Nat,
         PayFor(what, n)
  PROVE  left' \in [DOMAIN Allowed -> Nat] /\ left'.faults <= left.faults
<1>1. "faults" \in DOMAIN Allowed
  BY MobileQueueAssumption
<1>2. left[what] \in Nat /\ left.faults \in Nat
  BY <1>1
<1>3. left' = [left EXCEPT ![what] = left[what] - n] /\ left[what] >= n
  BY DEF PayFor
<1>4. left[what] - n \in Nat /\ left[what] - n <= left[what]
  BY <1>2, <1>3
<1>5. left'.faults = left.faults \/ (left'.faults = left[what] - n /\ what = "faults")
  BY <1>1, <1>3
<1>6. left.faults <= left.faults
  BY <1>2
<1> QED BY <1>3, <1>4, <1>5, <1>6

LEMMA TurnsFinite ==
  ASSUME NEW S \in SUBSET Turn
  PROVE  Cardinality(S) \in Nat
  BY OwnerTurnAssumption, FS_Subset, FS_CardinalityType

LEMMA PostChannel ==
  ASSUME IInv, Channel, Promised, NEW k \in Turn, Post(k)
  PROVE  Channel' /\ Promised' /\ Aside
<1>1. PICK readable \in BOOLEAN, written \in BOOLEAN,
           refused \in SUBSET Turn, removed \in SUBSET Turn :
        LET rows == Tidied(refused, removed)
            runs == Runs(rows[k]) \/ ~readable
            faults == Cardinality(refused) + (IF readable THEN 0 ELSE 1)
                      + (IF runs /\ ~written THEN 1 ELSE 0)
        IN /\ refused \subseteq {j \in Turn : Orphan(j)} \ {k}
           /\ removed \subseteq {j \in Turn : receipt[j].status # "none" /\ ~Live(j)} \ refused
           /\ readable \/ rows[k].status # "none"
           /\ left.faults >= faults /\ (removed # {} => left.prunes > 0)
           /\ left' = [left EXCEPT !.faults = @ - faults,
                                   !.prunes = IF removed # {} THEN @ - 1 ELSE @]
           /\ forgotten' = forgotten \cup removed \cup (IF readable THEN {} ELSE {k})
           /\ Answer(k, rows, runs, written)
           /\ UNCHANGED <<mobileVars, conv>>
  BY Zenon DEF Post
<1> DEFINE rows == Tidied(refused, removed)
           runs == Runs(rows[k]) \/ ~readable
           faults == Cardinality(refused) + (IF readable THEN 0 ELSE 1)
                     + (IF runs /\ ~written THEN 1 ELSE 0)
           prunes == IF removed # {} THEN left.prunes - 1 ELSE left.prunes
<1>2. UNCHANGED <<mobileVars, conv>>
  BY DEF Post
<1>3. left' \in [DOMAIN Allowed -> Nat] /\ left'.faults <= left.faults
  <2>1. Cardinality(refused) \in Nat
    BY TurnsFinite
  <2>2. faults \in Nat
    BY <2>1
  <2>3. /\ "faults" \in DOMAIN Allowed /\ "prunes" \in DOMAIN Allowed
        /\ left \in [DOMAIN Allowed -> Nat]
    BY MobileQueueAssumption, OwnerTurnAssumption DEF Channel, ChannelTyped, MobileTypeOK
  <2>4. left.faults \in Nat /\ left.prunes \in Nat
    BY <2>3
  <2>5. left.faults >= faults /\ prunes \in Nat
    BY <1>1, <2>4
  <2>6. left' = [[left EXCEPT !.faults = left.faults - faults] EXCEPT !.prunes = prunes]
    BY <1>1
  <2> HIDE DEF faults, prunes
  <2>7. left.faults - faults \in Nat /\ left.faults - faults <= left.faults
    BY <2>2, <2>4, <2>5
  <2> QED BY <2>3, <2>5, <2>6, <2>7
<1>4. Channel' /\ Aside
  BY <1>2, <1>3, ElsewhereStep DEF mobileVars
<1>5. \A j \in Turn : rows[j].status = "completed" => rows[j] = receipt[j]
  <2>1. \A j \in Turn : rows[j] = NoReceipt \/ rows[j] = Marked(Turn, refused)[j]
    BY DEF Tidied
  <2> HIDE DEF rows
  <2> QED BY <2>1, MarkedFacts DEF IInv, NoReceipt
<1>6. rows \in [Turn -> RowT]
  <2>1. NoReceipt \in RowT
    BY DEF NoReceipt, RowT, Status
  <2>2. rows = [j \in Turn |-> IF j \in removed THEN NoReceipt ELSE Marked(Turn, refused)[j]]
    BY DEF Tidied
  <2> QED BY <2>1, <2>2, MarkedFacts DEF IInv
<1>7. Answer(k, rows, runs, written)
  BY <1>1
<1> HIDE DEF rows, runs
<1>8. \A j \in Turn : receipt'[j].status = "completed" => receipt'[j] = receipt[j]
  BY <1>5, <1>6, <1>7 DEF Answer
<1>9. \A e \in Exec : exec'[e].pc = "sent" => exec[e].pc = "sent"
  BY <1>7 DEF Answer, IInv, TurnsTyped
<1> QED BY <1>2, <1>4, <1>8, <1>9 DEF Promised, mobileVars

LEMMA LookChannel ==
  ASSUME IInv, Channel, Promised, NEW looked \in SUBSET Turn, Look(looked)
  PROVE  Channel' /\ Promised' /\ Aside
<1>1. PICK refused \in SUBSET Turn :
        PayFor("faults", Cardinality(refused)) /\ receipt' = Marked(looked, refused)
  BY DEF Look
<1>2. UNCHANGED <<mobileVars, exec, inflight, conv, forgotten>>
  BY DEF Look
<1>3. left \in [DOMAIN Allowed -> Nat] /\ "faults" \in DOMAIN Allowed
  BY MobileQueueAssumption DEF Channel, ChannelTyped, MobileTypeOK
<1>4. left' \in [DOMAIN Allowed -> Nat] /\ left'.faults <= left.faults
  BY <1>1, <1>3, TurnsFinite, PayForFacts
<1>5. Channel' /\ Aside
  BY <1>2, <1>4, ElsewhereStep DEF mobileVars
<1>6. \A j \in Turn : receipt'[j].status = "completed" => receipt'[j] = receipt[j]
  BY <1>1, MarkedFacts DEF IInv
<1> QED BY <1>2, <1>5, <1>6 DEF Promised, mobileVars

LEMMA MovedFacts ==
  ASSUME TurnsTyped, NEW e \in Exec, NEW p, exec' = [exec EXCEPT ![e].pc = p]
  PROVE  \A f \in Exec : exec'[f].pc = IF f = e THEN p ELSE exec[f].pc
  BY DEF TurnsTyped, ExecT

LEMMA ExecutionChannel ==
  ASSUME IInv, Channel, Promised, NEW e \in Exec,
         TakesLock(e) \/ Captures(e) \/ Delivers(e) \/ Completes(e) \/ Fails(e)
  PROVE  Channel' /\ Promised' /\ (Delivers(e) \/ Aside)
<1>1. left \in [DOMAIN Allowed -> Nat] /\ "faults" \in DOMAIN Allowed /\ left.faults <= left.faults
  <2>1. left \in [DOMAIN Allowed -> Nat] /\ "faults" \in DOMAIN Allowed
    BY MobileQueueAssumption DEF Channel, ChannelTyped, MobileTypeOK
  <2>2. left.faults \in Nat
    BY <2>1
  <2> QED BY <2>1, <2>2
<1>2. CASE TakesLock(e) \/ Captures(e)
  <2>0. PICK p \in {"thinking", "captured"} : exec' = [exec EXCEPT ![e].pc = p]
    BY <1>2 DEF TakesLock, Captures, At
  <2>1. /\ UNCHANGED <<mobileVars, left, receipt>> /\ conv' \in Exec \cup {None}
        /\ \A f \in Exec : exec'[f].pc = "sent" => exec[f].pc = "sent"
    <3>1. \A f \in Exec : exec'[f].pc = "sent" => exec[f].pc = "sent"
      BY <2>0, MovedFacts DEF IInv
    <3>2. UNCHANGED <<mobileVars, left, receipt>> /\ conv' \in Exec \cup {None}
      BY <1>2 DEF TakesLock, Captures, Promised
    <3> QED BY <3>1, <3>2
  <2>2. Channel' /\ Aside
    BY <1>1, <2>1, ElsewhereStep DEF mobileVars
  <2> QED BY <2>1, <2>2 DEF Promised, mobileVars
<1>3. CASE Delivers(e)
  <2>1. Send(e) /\ e \in Msg /\ UNCHANGED <<receipt, conv>>
    BY <1>3, OwnerTurnAssumption DEF Delivers, Exec
  <2>2. Channel' /\ sent' = sent \cup {e}
    BY <2>1, SendStep
  <2>3. \A f \in Exec : exec'[f].pc = "sent" => exec[f].pc = "sent" \/ f = e
    BY <1>3, MovedFacts DEF Delivers, At, IInv
  <2> QED BY <1>3, <2>1, <2>2, <2>3 DEF Promised
<1>4. CASE Completes(e) \/ Fails(e)
  <2>1. /\ UNCHANGED mobileVars /\ conv' \in Exec \cup {None}
        /\ \A f \in Exec : exec'[f].pc = "sent" => exec[f].pc = "sent"
    BY <1>4, MovedFacts DEF Completes, Fails, At, Unlocked, IInv, Promised
  <2>2. \E n \in Nat : PayFor("faults", n)
    BY <1>4 DEF Completes, Fails
  <2>3. left' \in [DOMAIN Allowed -> Nat] /\ left'.faults <= left.faults
    BY <1>1, <2>2, PayForFacts
  <2>4. Channel' /\ Aside
    BY <2>1, <2>3, ElsewhereStep DEF mobileVars
  <2>5. \A k \in Turn : receipt'[k].status = "completed" =>
          receipt'[k] = receipt[k] \/ (exec[e].pc = "sent" /\ receipt'[k].turn = e)
    <3>1. CASE Completes(e)
      <4>1. PICK refused \in 0..2 :
              receipt' = [receipt EXCEPT ![exec[e].turn] =
                CASE refused = 0 -> [status |-> "completed", turn |-> e]
                  [] refused = 1 -> [status |-> "failed", turn |-> None]
                  [] refused = 2 -> @]
        BY <3>1 DEF Completes
      <4>2. exec[e].pc = "sent"
        BY <3>1 DEF Completes, At
      <4>3. CASE refused = 0
        <5>1. receipt' = [receipt EXCEPT ![exec[e].turn] = [status |-> "completed", turn |-> e]]
          BY <4>1, <4>3
        <5> QED BY <4>2, <5>1 DEF IInv, TurnsTyped
      <4>4. CASE refused = 1
        <5>1. receipt' = [receipt EXCEPT ![exec[e].turn] = [status |-> "failed", turn |-> None]]
          BY <4>1, <4>4
        <5> QED BY <5>1 DEF IInv, TurnsTyped
      <4>5. CASE refused = 2
        <5>1. receipt' = receipt
          BY <4>1, <4>5 DEF IInv, TurnsTyped
        <5> QED BY <5>1
      <4> QED BY <4>3, <4>4, <4>5
    <3>2. CASE Fails(e)
      BY <3>2 DEF Fails, IInv, TurnsTyped
    <3> QED BY <1>4, <3>1, <3>2
  <2> QED BY <2>1, <2>4, <2>5 DEF Promised, mobileVars
<1> QED BY <1>2, <1>3, <1>4

LEMMA CrashChannel ==
  ASSUME IInv, Channel, Promised, Crash
  PROVE  Channel' /\ Promised' /\ Aside
<1>1. left \in [DOMAIN Allowed -> Nat] /\ "crashes" \in DOMAIN Allowed
  BY OwnerTurnAssumption DEF Channel, ChannelTyped, MobileTypeOK
<1>2. left' \in [DOMAIN Allowed -> Nat] /\ left'.faults <= left.faults
  BY <1>1, PayForFacts DEF Crash
<1>3. Channel' /\ Aside
  BY <1>2, ElsewhereStep DEF Crash, fileVars
<1>4. \A e \in Exec : exec'[e].pc \in {"new", "done"}
  BY DEF Crash, IInv, TurnsTyped, ExecT
<1> QED BY <1>3, <1>4 DEF Crash, Promised

(* Every step keeps the channel in order and its promises. *)
LEMMA ChannelSteps ==
  ASSUME IInv, Channel, Promised, [Next]_vars
  PROVE  Channel' /\ Promised'
<1>1. CASE UNCHANGED vars
  <2>1. left \in [DOMAIN Allowed -> Nat] /\ left.faults <= left.faults
    <3>1. left \in [DOMAIN Allowed -> Nat] /\ "faults" \in DOMAIN Allowed
      BY MobileQueueAssumption DEF Channel, ChannelTyped, MobileTypeOK
    <3>2. left.faults \in Nat
      BY <3>1
    <3> QED BY <3>1, <3>2
  <2>2. Channel'
    BY <1>1, <2>1, ElsewhereStep DEF vars, mobileVars
  <2> QED BY <1>1, <2>2 DEF vars, mobileVars, Promised
<1>2. ASSUME NEW k \in Turn, StatusAsked(k) \/ Listed PROVE Channel' /\ Promised'
  BY <1>2, LookChannel DEF StatusAsked, Listed
<1>3. ASSUME NEW m \in Push, Pushed(m) PROVE Channel' /\ Promised'
  <2>1. m \in Msg /\ Send(m) /\ UNCHANGED <<receipt, exec, conv>>
    BY <1>3 DEF Pushed, Push
  <2> QED BY <2>1, SendStep DEF Promised
<1>4. CASE MobileNext /\ UNCHANGED <<receipt, exec, inflight, conv, forgotten>>
  BY <1>4, PollStep, AckStep, PhoneStep DEF MobileNext, Promised
<1>5. CASE Listed
  BY <1>5, LookChannel DEF Listed
<1> QED
  BY <1>1, <1>2, <1>3, <1>4, <1>5, PostChannel, ExecutionChannel, CrashChannel DEF Next

LEMMA ChannelInvariance ==
  Spec => [](IInv /\ Channel /\ Promised)
<1>1. Init => Channel /\ Promised
  <2> SUFFICES ASSUME Init PROVE Channel /\ Promised
    OBVIOUS
  <2>1. MobileTypeOK
    <3>1. Cardinality({}) <= MaxItems
      BY FS_EmptySet, MobileQueueAssumption
    <3>2. restarted \in BOOLEAN
      BY Zenon DEF Init, MobileInit
    <3> QED BY <3>1, <3>2, MobileQueueAssumption DEF Init, MobileInit, MobileTypeOK
  <2>2. Spent = 0
    <3>1. "faults" \in DOMAIN Allowed /\ Allowed.faults \in Nat
      BY MobileQueueAssumption
    <3> QED BY <3>1 DEF Init, MobileInit, Spent
  <2>3. ChannelTyped
    <3>1. IsFiniteSet(queue) /\ IsFiniteSet(phone.page) /\ 0 \in Nat
          /\ \A x \in queue \cup phone.page : x.seq < 0
      BY FS_EmptySet DEF Init, MobileInit
    <3>2. \E b \in Nat : \A x \in queue \cup phone.page : x.seq < b
      BY <3>1
    <3> QED BY <2>1, <2>2, <3>1, <3>2 DEF ChannelTyped, Init, MobileInit
  <2>4. Numbers /\ Delivery
    BY DEF Init, MobileInit, Numbers, Highs, Delivery, InOrder
  <2>5. Promised
    BY DEF Init, Promised, NoReceipt, NoExec
  <2> QED BY <2>3, <2>4, <2>5 DEF Channel
<1>2. IInv /\ Channel /\ Promised /\ [Next]_vars => IInv' /\ Channel' /\ Promised'
  BY Step, ChannelSteps
<1> QED BY <1>1, <1>2, InitTied, PTL DEF Spec

(* The files, the phone and the turns keep their shape: above all, two      *)
(* queued messages never have the same number, and the queue never holds    *)
(* more than its limit, whatever is refused or cannot be read.              *)
THEOREM Types == Spec => []TypeOK
<1>1. IInv /\ Channel /\ Promised => TypeOK
  <2> SUFFICES ASSUME IInv, Channel, Promised PROVE TypeOK
    OBVIOUS
  <2>1. receipt \in [Turn -> [status : Verdict \cup {"none", "running"}, turn : Exec \cup {None}]]
    BY DEF IInv, TurnsTyped, RowT, Status
  <2>2. exec \in [Exec -> [turn : Turn \cup {None},
                           pc : {"new", "queued", "thinking", "captured", "sent", "done"}]]
    BY DEF IInv, TurnsTyped, ExecT
  <2> QED BY <2>1, <2>2 DEF TypeOK, IInv, TurnsTyped, Channel, ChannelTyped, Promised
<1> QED BY <1>1, ChannelInvariance, PTL

(* As long as no more than two writes or reads have failed, and no message  *)
(* was numbered with neither the queue nor its number at hand, the reply of *)
(* a completed turn, and every message handed to the channel, is on the     *)
(* phone or ahead of its cursor, unless the queue lost it                   *)
(* (_write_to_queue(), poll(), ack(), _read_stored_next_seq()).  Three      *)
(* failures can put a message behind the cursor, and so can one, of the     *)
(* number when nothing is queued.                                           *)
THEOREM ReplyArrives == Spec => [](Spent <= 2 => ReplyOnPhone)
<1>1. IInv /\ Channel /\ Promised => (Spent <= 2 => ReplyOnPhone)
  <2> SUFFICES ASSUME Channel, Promised, Spent <= 2, ~restarted
               PROVE  Owed \ lost \subseteq seen \cup Ahead
    BY DEF ReplyOnPhone
  <2>1. InOrder
    BY DEF Channel, Delivery
  <2>2. Owed \subseteq sent
    BY DEF Owed, Promised
  <2>3. Ids(queue) \subseteq seen \cup Ahead
    <3>1. \A x \in queue : x.seq \in Nat /\ phone.cursor \in Nat
      BY DEF Channel, ChannelTyped, MobileTypeOK, Item
    <3>2. \A x \in queue : x.seq <= phone.cursor \/ x.seq > phone.cursor
      BY <3>1
    <3> QED BY <2>1, <3>2 DEF InOrder, Ids, Ahead, InLine
  <2> QED BY <2>1, <2>2, <2>3 DEF InOrder
<1> QED BY <1>1, ChannelInvariance, PTL

-----------------------------------------------------------------------------
(* The line.  No message is sent twice, so that a queued message is known   *)
(* by its id; and what the phone was given is still queued, or was lost or  *)
(* stored before.                                                           *)
PageKnown == \A x \in phone.page : x \in queue \/ x.id \in lost \cup seen

Line ==
  /\ Ids(queue) \cup Ids(phone.page) \cup seen \cup lost \subseteq sent
  /\ \A x, y \in queue : x.id = y.id => x = y
  /\ Spent <= 2 /\ ~restarted => PageKnown

Unsent == \A e \in Exec : exec[e].pc \in {"new", "queued", "thinking", "captured"} => e \notin sent

MailStep == Mailbox!Next \/ UNCHANGED Mailbox!vars

(* A step that keeps the promise, and what ends it. *)
LEMMA MailSteps ==
  /\ Mailbox!Kept /\ restarted' = restarted => MailStep
  /\ restarted' => MailStep
<1>1. ASSUME Mailbox!Kept, restarted' = restarted PROVE Mailbox!Next
  BY <1>1 DEF Mailbox!Next
<1>2. ASSUME restarted' PROVE Mailbox!Next
  BY <1>2 DEF Mailbox!Next
<1> QED BY <1>1, <1>2 DEF MailStep

LEMMA InLineFacts ==
  ASSUME Channel
  PROVE  /\ InLine \subseteq queue /\ \A x \in queue : x.seq \in Nat /\ phone.cursor \in Nat
         /\ \A x \in queue \ InLine : x.seq <= phone.cursor
         /\ Mailbox!Ids(InLine) = Ids(InLine)
<1>1. \A x \in queue : x.seq \in Nat /\ phone.cursor \in Nat
  BY DEF Channel, ChannelTyped, MobileTypeOK, Item
<1> QED BY <1>1 DEF InLine, Ids, Mailbox!Ids

(* Messages leave the queue, but for those that leave below the cursor they *)
(* are lost.                                                                *)
LEMMA ShrinkLine ==
  ASSUME Channel, Line, Channel', sent' = sent, NEW kept \in SUBSET queue,
         queue' \subseteq kept, \A x \in kept \ queue' : x.seq <= phone.cursor,
         phone'.cursor = phone.cursor, seen' = seen, restarted' = restarted, Spent <= Spent',
         lost' = lost \cup (Ids(queue) \ Ids(kept)),
         phone'.page \subseteq queue' \/ phone'.page \subseteq phone.page
  PROVE  Line' /\ (Spent' <= 2 => MailStep)
<1>0. Spent \in Nat /\ Spent' \in Nat
  BY DEF Channel, ChannelTyped
<1>1. /\ Ids(queue') \cup Ids(phone'.page) \cup seen' \cup lost' \subseteq sent'
      /\ \A x, y \in queue' : x.id = y.id => x = y
  BY DEF Line, Ids
<1>2. \A x \in queue \ kept : x.id \in lost'
  <2> SUFFICES ASSUME NEW x \in queue \ kept PROVE x.id \in Ids(queue) \ Ids(kept)
    OBVIOUS
  <2> QED BY DEF Line, Ids
<1>3. ASSUME Spent' <= 2, ~restarted PROVE \A x \in queue \ queue' : x.id \in lost' \cup seen
  <2>1. InOrder
    BY <1>0, <1>3 DEF Channel, Delivery
  <2> QED BY <1>2, <2>1 DEF InOrder
<1>4. ASSUME Spent' <= 2, ~restarted PROVE PageKnown'
  <2>1. PageKnown
    BY <1>0, <1>4 DEF Line
  <2> QED BY <1>3, <1>4, <2>1 DEF PageKnown
<1>5. ASSUME Spent' <= 2, ~restarted PROVE Mailbox!Lose
  <2> DEFINE S == InLine \ queue'
  <2>1. InOrder
    BY <1>0, <1>5 DEF Channel, Delivery
  <2>2. InLine' = InLine \ S /\ S \subseteq InLine
    BY DEF InLine
  <2>3. S \subseteq queue \ kept
    BY InLineFacts DEF InLine
  <2>4. Ids(S) \subseteq lost'
    BY <1>2, <2>3 DEF Ids
  <2>5. lost' \subseteq lost \cup Ids(S) \cup seen
    <3> SUFFICES ASSUME NEW x \in queue, x \notin kept PROVE x \in S \/ x.id \in seen
      BY DEF Ids
    <3>1. x \in InLine \/ x.seq <= phone.cursor
      BY InLineFacts
    <3> QED BY <2>1, <3>1 DEF InOrder
  <2>6. Mailbox!Ids(S) = Ids(S)
    BY DEF Ids, Mailbox!Ids
  <2> HIDE DEF S
  <2>7. Mailbox!Losing(S)
    BY <2>4, <2>5, <2>6 DEF Mailbox!Losing
  <2> QED BY <2>2, <2>7 DEF Mailbox!Lose
<1>6. Line'
  BY <1>1, <1>4 DEF Line
<1>7. restarted \/ (~restarted /\ restarted' = restarted)
  BY DEF Channel, ChannelTyped, MobileTypeOK
<1>8. Spent' <= 2 => MailStep
  BY <1>5, <1>7, MailSteps DEF Mailbox!Kept
<1> QED BY <1>6, <1>8

LEMMA PollLine ==
  ASSUME Channel, Line, Poll
  PROVE  Line' /\ (Spent' <= 2 => MailStep)
<1>1. PICK r \in Readings :
        LET page == First({x \in r.q : x.seq > phone.cursor}, Page)
        IN /\ Load(r)
           /\ queue' = Kept(r)
           /\ lost' = lost \cup (Ids(queue) \ Ids(queue'))
           /\ phone' = [phone EXCEPT !.busy = (page # {}), !.page = page]
  BY DEF Poll
<1> DEFINE page == First({x \in r.q : x.seq > phone.cursor}, Page)
<1>2. r.q \subseteq queue
  BY ReadingFacts DEF Channel
<1>3. queue' \subseteq queue /\ r.q \subseteq queue'
  BY <1>1, <1>2 DEF Kept
<1>4. page \subseteq r.q
  BY DEF First
<1>5. phone'.page = page /\ phone'.cursor = phone.cursor
  <2>1. phone \in [cursor : Nat, busy : BOOLEAN, page : SUBSET Item]
    BY DEF Channel, ChannelTyped, MobileTypeOK
  <2> QED BY <1>1, <2>1
<1>6. Channel' /\ sent' = sent /\ Spent <= Spent' /\ seen' = seen /\ restarted' = restarted
  BY PollStep DEF Poll
<1>7. lost' = lost \cup (Ids(queue) \ Ids(queue'))
  BY <1>1
<1>8. phone'.page \subseteq queue'
  BY <1>3, <1>4, <1>5
<1> HIDE DEF page
<1> QED BY <1>3, <1>5, <1>6, <1>7, <1>8, ShrinkLine

LEMMA AckLine ==
  ASSUME Channel, Line, Ack
  PROVE  Line' /\ (Spent' <= 2 => MailStep)
<1>1. PICK n \in 0..phone.cursor, r \in Readings, refused \in SUBSET {"repair", "queue"} :
        LET rest == {x \in r.q : x.seq > n}
        IN /\ rest # r.q
           /\ "repair" \in refused => Repairs(r)
           /\ Pay(r.faults + Cardinality(refused), r.days)
           /\ nextSeq' = IF "repair" \in refused THEN nextSeq ELSE Repaired(r)
           /\ queue' = IF "queue" \in refused THEN r.q ELSE rest
           /\ lost' = lost \cup (Ids(queue) \ Ids(r.q))
           /\ UNCHANGED <<phone, seen, sent, restarted>>
  BY DEF Ack
<1>2. r.q \subseteq queue
  BY ReadingFacts DEF Channel
<1>3. queue' \subseteq r.q /\ \A x \in r.q \ queue' : x.seq <= phone.cursor
  <2>1. \A x \in r.q : x.seq \in Nat /\ n \in Nat /\ n <= phone.cursor /\ phone.cursor \in Nat
    BY <1>2, InLineFacts
  <2> QED BY <1>1, <2>1
<1>4. UNCHANGED <<phone, seen, sent, restarted>> /\ lost' = lost \cup (Ids(queue) \ Ids(r.q))
  BY <1>1
<1>5. Channel' /\ Spent <= Spent'
  BY AckStep
<1> QED BY <1>2, <1>3, <1>4, <1>5, ShrinkLine

(* The phone stores the oldest of the line: those up to the last it got.    *)
LEMMA StoresLine ==
  ASSUME Channel, Line, PhoneStores
  PROVE  Line' /\ (Spent' <= 2 => MailStep)
<1> DEFINE top == Max({phone.cursor} \cup {x.seq : x \in phone.page})
           S == {x \in InLine : x.seq <= top}
           late == Ids(phone.page) \cap lost
<1>1. /\ seen' = seen \cup Ids(phone.page)
      /\ phone'.cursor = top /\ phone'.page = {}
      /\ UNCHANGED <<queue, nextSeq, sent, lost, restarted, left>>
  BY DEF PhoneStores
<1>2. Line' /\ Spent' = Spent
  BY <1>1 DEF Line, Ids, PageKnown, Spent
<1>3. top \in Highs /\ (\A v \in Highs : v <= top) /\ Highs \in SUBSET Nat
  <2>1. Highs \in SUBSET Nat /\ Highs # {}
    BY DEF Highs, Channel, ChannelTyped, MobileTypeOK, Item
  <2>2. PICK b \in Nat : \A x \in queue \cup phone.page : x.seq < b
    BY DEF Channel, ChannelTyped
  <2>3. phone.cursor \in Nat /\ b + phone.cursor + 1 \in Nat
        /\ \A v \in Highs : v < b + phone.cursor + 1
    <3>1. phone.cursor \in Nat /\ \A x \in phone.page : x.seq \in Nat
      BY DEF Channel, ChannelTyped, MobileTypeOK, Item
    <3> QED BY <2>2, <3>1 DEF Highs
  <2>4. top = Max(Highs)
    BY DEF Highs
  <2> QED BY <2>1, <2>3, <2>4, Greatest
<1> HIDE DEF top
<1>4. ASSUME Spent' <= 2, ~restarted PROVE Mailbox!Store
  <2>1. InOrder /\ PageKnown
    BY <1>2, <1>4 DEF Channel, Delivery, Line
  <2>2. InLine' = InLine \ S /\ \A x \in S, y \in InLine \ S : x.seq < y.seq
    <3>1. top \in Nat /\ top >= phone.cursor
      BY <1>3 DEF Highs
    <3>2. \A x \in queue : x.seq \in Nat /\ phone.cursor \in Nat
      BY InLineFacts
    <3> QED BY <1>1, <3>1, <3>2 DEF InLine
  <2>3. S \subseteq phone.page
    <3> SUFFICES ASSUME NEW x \in S PROVE x \in phone.page
      OBVIOUS
    <3>1. x \in queue /\ phone.cursor < x.seq /\ x.seq <= top /\ x.seq \in Nat /\ phone.cursor \in Nat
      BY InLineFacts DEF InLine
    <3>2. PICK y \in phone.page : top = y.seq
      BY <1>3, <3>1 DEF Highs
    <3> QED BY <2>1, <3>1, <3>2 DEF InOrder
  <2>4. \A x \in phone.page : x.id \in Ids(S) \cup seen \cup late
    <3> SUFFICES ASSUME NEW x \in phone.page, x \in queue PROVE x \in S \/ x.id \in seen
      BY <2>1 DEF PageKnown, Ids
    <3>1. x.seq \in Highs
      BY DEF Highs
    <3>2. x \in S \/ x.seq <= phone.cursor
      BY <1>3, <3>1, InLineFacts
    <3> QED BY <2>1, <3>2 DEF InOrder
  <2>5. seen' = seen \cup Ids(S) \cup late
    BY <1>1, <2>3, <2>4 DEF Ids
  <2>6. Mailbox!Ids(S) = Ids(S)
    BY DEF Ids, Mailbox!Ids
  <2>7. S \in SUBSET InLine /\ late \in SUBSET lost
    OBVIOUS
  <2> HIDE DEF S, late
  <2> QED BY <1>1, <2>2, <2>5, <2>6, <2>7 DEF Mailbox!Store
<1>5. Spent' <= 2 /\ ~restarted => MailStep
  BY <1>1, <1>4, MailSteps DEF Mailbox!Kept
<1>6. restarted => MailStep
  BY <1>1, MailSteps
<1> QED BY <1>2, <1>5, <1>6

(* A new message joins the line, or is lost at once. *)
LEMMA SendLine ==
  ASSUME Channel, Line, NEW m \in Msg \ sent, Send(m)
  PROVE  Line' /\ (Spent' <= 2 => MailStep)
<1>1. /\ Channel' /\ sent' = sent \cup {m}
      /\ UNCHANGED <<phone, seen>> /\ Spent <= Spent'
      /\ lost' = lost \cup ((Ids(queue) \cup {m}) \ Ids(queue'))
      /\ queue' = queue \/ Queued(m)
      /\ ~restarted' => ~restarted
  BY SendStep
<1>0. ~restarted' => restarted' = restarted
  BY <1>1 DEF Channel, ChannelTyped, MobileTypeOK
<1>2. Spent \in Nat /\ Spent' \in Nat
  BY <1>1 DEF Channel, ChannelTyped
<1>3. m \notin Ids(queue) \cup seen \cup lost
  BY DEF Line
<1>4. Mailbox!New(m)
  <2>1. Mailbox!Ids(InLine) \subseteq Ids(queue)
    BY InLineFacts DEF Ids
  <2> QED BY <1>3, <2>1 DEF Mailbox!New
<1>5. CASE queue' = queue
  <2>1. lost' = lost \cup {m}
    BY <1>1, <1>3, <1>5
  <2>2. Line'
    BY <1>1, <1>2, <1>5, <2>1 DEF Line, PageKnown
  <2>3. InLine' = InLine
    BY <1>1, <1>5 DEF InLine
  <2>4. Mailbox!Refuse(m)
    BY <1>1, <1>4, <2>1, <2>3 DEF Mailbox!Refuse
  <2>5. ~restarted' => MailStep
    BY <1>0, <2>4, MailSteps DEF Mailbox!Kept
  <2> QED BY <2>2, <2>5, MailSteps
<1>6. CASE Queued(m)
  <2>1. PICK new \in queue' :
          /\ new.id = m /\ queue' \ {new} \subseteq queue
          /\ \A x \in queue' \ {new} : x.seq < new.seq
          /\ Spent' <= 2 /\ ~restarted' => new.seq > phone.cursor
    BY <1>6 DEF Queued
  <2>2. \A x \in queue : x \notin queue' => x.id \in lost' /\ x.id \notin Ids(queue')
    <3> SUFFICES ASSUME NEW x \in queue, x \notin queue' PROVE x.id \in Ids(queue) \ Ids(queue')
      BY <1>1
    <3>1. \A y \in queue' : x.id # y.id
      BY <1>3, <2>1 DEF Line, Ids
    <3> QED BY <3>1 DEF Ids
  <2>3. Line'
    <3>1. Ids(queue') \subseteq Ids(queue) \cup {m}
      BY <2>1 DEF Ids
    <3>2. Ids(queue') \cup Ids(phone'.page) \cup seen' \cup lost' \subseteq sent'
      BY <1>1, <3>1 DEF Line
    <3>3. \A x, y \in queue' : x.id = y.id => x = y
      BY <1>3, <2>1 DEF Line, Ids
    <3>4. Spent' <= 2 /\ ~restarted' => PageKnown'
      BY <1>1, <1>2, <2>2 DEF Line, PageKnown
    <3> QED BY <3>2, <3>3, <3>4 DEF Line
  <2>4. ASSUME Spent' <= 2, ~restarted' PROVE Mailbox!Take(m)
    <3> DEFINE S == InLine \ queue'
    <3>1. InOrder
      BY <1>1, <1>2, <2>4 DEF Channel, Delivery
    <3>2. InLine' = (InLine \ S) \cup {new} /\ S \subseteq InLine
      BY <1>1, <2>1, <2>4 DEF InLine
    <3>3. new \notin queue
      BY <1>3, <2>1 DEF Ids
    <3>4. \A y \in InLine \ S : y.seq < new.seq
      BY <2>1, <3>3 DEF InLine
    <3>5. Ids(S) \subseteq lost'
      BY <2>2 DEF Ids, InLine
    <3>6. lost' \subseteq lost \cup Ids(S) \cup seen
      <4>1. m \in Ids(queue')
        BY <2>1 DEF Ids
      <4> SUFFICES ASSUME NEW x \in queue, x \notin queue' PROVE x \in S \/ x.id \in seen
        BY <1>1, <4>1 DEF Ids
      <4>2. x \in InLine \/ x.seq <= phone.cursor
        BY InLineFacts
      <4> QED BY <3>1, <4>2 DEF InOrder
    <3>7. Mailbox!Ids(S) = Ids(S)
      BY DEF Ids, Mailbox!Ids
    <3> HIDE DEF S
    <3>8. Mailbox!Losing(S)
      BY <1>1, <3>5, <3>6, <3>7 DEF Mailbox!Losing
    <3> QED BY <1>1, <1>4, <2>1, <3>2, <3>4, <3>8 DEF Mailbox!Take
  <2>5. Spent' <= 2 /\ ~restarted' => MailStep
    BY <1>0, <2>4, MailSteps DEF Mailbox!Kept
  <2> QED BY <2>3, <2>5, MailSteps
<1> QED BY <1>1, <1>5, <1>6

(* Steps elsewhere, and the end of the process, leave the line as it is. *)
LEMMA AsideLine ==
  ASSUME Line, Channel, Channel', Aside
  PROVE  Line' /\ (Spent' <= 2 => MailStep)
<1>1. Spent \in Nat /\ Spent' \in Nat
  BY DEF Channel, ChannelTyped
<1>2. Line'
  BY <1>1 DEF Line, Ids, PageKnown, Aside
<1>3. InLine' = InLine
  BY DEF InLine, Aside
<1> QED BY <1>2, <1>3 DEF MailStep, Mailbox!vars, Aside

(* Sending its reply is the last but one step of an execution. *)
LEMMA UnsentStep ==
  ASSUME IInv, Channel, Promised, Unsent, [Next]_vars
  PROVE  Unsent'
<1> DEFINE Early == {"new", "queued", "thinking", "captured"}
<1>1. ASSUME UNCHANGED sent, \A e \in Exec : exec'[e].pc \in Early => exec[e].pc \in Early
      PROVE  Unsent'
  BY <1>1 DEF Unsent
<1> HIDE DEF Early
<1>2. CASE UNCHANGED vars
  BY <1>1, <1>2 DEF vars, mobileVars
<1>3. ASSUME NEW k \in Turn, Post(k) PROVE Unsent'
  <2>1. PICK rows, runs, written : Answer(k, rows, runs, written)
    BY <1>3 DEF Post
  <2>2. \A e \in Exec : exec'[e].pc = exec[e].pc \/ exec[e].pc = "new"
    BY <2>1 DEF Answer, Unstarted, IInv, TurnsTyped
  <2>3. UNCHANGED sent
    BY <1>3 DEF Post, mobileVars
  <2> QED BY <1>1, <2>2, <2>3 DEF Early
<1>4. ASSUME NEW looked, Look(looked) PROVE Unsent'
  BY <1>1, <1>4 DEF Look, mobileVars
<1>5. ASSUME NEW e \in Exec,
             TakesLock(e) \/ Captures(e) \/ Completes(e) \/ Fails(e)
      PROVE  Unsent'
  <2>1. PICK p : exec' = [exec EXCEPT ![e].pc = p] /\ (exec[e].pc \in Early \/ p = "done")
    BY <1>5 DEF TakesLock, Captures, Completes, Fails, At, Early
  <2>2. \A f \in Exec : exec'[f].pc = IF f = e THEN p ELSE exec[f].pc
    BY <2>1, MovedFacts DEF IInv
  <2>3. UNCHANGED sent
    BY <1>5 DEF TakesLock, Captures, Completes, Fails, mobileVars
  <2> QED BY <1>1, <2>1, <2>2, <2>3 DEF Early
<1>6. ASSUME NEW e \in Exec, Delivers(e) PROVE Unsent'
  <2>1. sent' = sent \cup {e}
    BY <1>6 DEF Delivers, Send
  <2>2. exec' = [exec EXCEPT ![e].pc = "sent"]
    BY <1>6 DEF Delivers, At
  <2>3. \A f \in Exec : exec'[f].pc = IF f = e THEN "sent" ELSE exec[f].pc
    BY <2>2, MovedFacts DEF IInv
  <2> QED BY <2>1, <2>3 DEF Unsent
<1>7. ASSUME NEW m \in Push, Pushed(m) PROVE Unsent'
  BY <1>7 DEF Pushed, Send, Push, Unsent
<1>8. CASE MobileNext /\ UNCHANGED <<receipt, exec, inflight, conv, forgotten>>
  BY <1>1, <1>8 DEF MobileNext, Poll, PhoneStores, AnswerLost, Ack
<1>9. CASE Crash
  <2>1. \A e \in Exec : exec'[e].pc \in Early => exec[e].pc \in Early
    BY <1>9 DEF Crash, Early, IInv, TurnsTyped, ExecT
  <2> QED BY <1>1, <1>9, <2>1 DEF Crash
<1> QED
  BY <1>2, <1>3, <1>4, <1>5, <1>6, <1>7, <1>8, <1>9 DEF Next, StatusAsked, Listed

(* While no more than two writes or reads have failed, every step is one of *)
(* the mailbox, or does not touch it.                                       *)
LEMMA LineSteps ==
  ASSUME IInv, Channel, Promised, Line, Unsent, [Next]_vars
  PROVE  Line' /\ (Spent' <= 2 => MailStep)
<1>0. Channel' /\ left.faults \in Nat
  <2>1. "faults" \in DOMAIN Allowed
    BY MobileQueueAssumption
  <2> QED BY <2>1, ChannelSteps DEF Channel, ChannelTyped, MobileTypeOK
<1>1. CASE UNCHANGED vars
  <2>1. Aside
    <3>1. left \in [DOMAIN Allowed -> Nat] /\ left.faults <= left.faults
      BY <1>0 DEF Channel, ChannelTyped, MobileTypeOK
    <3> QED BY <1>1, <3>1, ElsewhereStep DEF vars, mobileVars
  <2> QED BY <1>0, <2>1, AsideLine
<1>2. ASSUME NEW k \in Turn, Post(k) \/ StatusAsked(k)
      PROVE  Line' /\ (Spent' <= 2 => MailStep)
  <2>1. Aside
    BY <1>2, PostChannel, LookChannel DEF StatusAsked
  <2> QED BY <1>0, <2>1, AsideLine
<1>3. CASE Listed
  <2>1. Aside
    BY <1>3, LookChannel DEF Listed
  <2> QED BY <1>0, <2>1, AsideLine
<1>4. ASSUME NEW e \in Exec,
             TakesLock(e) \/ Captures(e) \/ Delivers(e) \/ Completes(e) \/ Fails(e)
      PROVE  Line' /\ (Spent' <= 2 => MailStep)
  <2>1. CASE Aside
    BY <1>0, <2>1, AsideLine
  <2>2. CASE Delivers(e)
    <3>1. e \in Msg \ sent
      BY <2>2, OwnerTurnAssumption DEF Delivers, At, Unsent, Exec
    <3> QED BY <2>2, <3>1, SendLine DEF Delivers
  <2> QED BY <1>4, <2>1, <2>2, ExecutionChannel
<1>5. ASSUME NEW m \in Push, Pushed(m) PROVE Line' /\ (Spent' <= 2 => MailStep)
  BY <1>5, SendLine DEF Pushed, Push
<1>6. CASE MobileNext /\ UNCHANGED <<receipt, exec, inflight, conv, forgotten>>
  <2>1. CASE AnswerLost
    <3>1. Aside
      <4>1. left \in [DOMAIN Allowed -> Nat] /\ left' = left /\ left.faults <= left.faults
        BY <1>0, <2>1 DEF AnswerLost, Channel, ChannelTyped, MobileTypeOK
      <4> QED BY <2>1, <4>1, ElsewhereStep DEF AnswerLost
    <3> QED BY <1>0, <3>1, AsideLine
  <2> QED BY <1>6, <2>1, PollLine, AckLine, StoresLine DEF MobileNext
<1>7. CASE Crash
  <2>1. Aside
    BY <1>7, CrashChannel
  <2> QED BY <1>0, <2>1, AsideLine
<1> QED BY <1>1, <1>2, <1>3, <1>4, <1>5, <1>6, <1>7 DEF Next

(* As long as no more than two writes or reads have failed, the file, the   *)
(* numbers and the cursor are a mailbox: a message joins the line as the    *)
(* last one, the phone stores the oldest first, none that waits is passed   *)
(* over, and none comes back (_write_to_queue(), poll(), ack()).  The       *)
(* mailbox may give up its order in one step only, the one that numbers a   *)
(* message with neither the queue nor its number at hand.                   *)
THEOREM ChannelIsMailbox == Spec /\ [](Spent <= 2) => ImplementsMailbox
<1>1. Init => Line /\ Unsent /\ Mailbox!Init
  BY DEF Init, MobileInit, Line, PageKnown, Ids, Unsent, InLine, Mailbox!Init
<1>2. /\ IInv /\ Channel /\ Promised /\ Line /\ Unsent /\ [Next]_vars
      => Line' /\ Unsent' /\ ((Spent <= 2)' => MailStep)
  BY LineSteps, UnsentStep
<1>3. MailStep <=> [Mailbox!Next]_(Mailbox!vars)
  BY DEF MailStep
<1> QED BY <1>1, <1>2, <1>3, ChannelInvariance, PTL DEF Spec, ImplementsMailbox, Mailbox!Spec
=============================================================================
