------------------------ MODULE AutonomyQueue_proof ------------------------
(***************************************************************************)
(* Proofs about AutonomyQueue, for every number of jobs, callers, tokens,   *)
(* places in the store and every length of leases and backoffs.             *)
(*                                                                         *)
(* A job's lease token is the only thing that tells its last holder from    *)
(* the ones before, so the inductive invariant is about tokens: no two      *)
(* callers hold the same one, a concluded job has none, and so whoever owns  *)
(* a job owns one that is not concluded and was not counted.                *)
(***************************************************************************)
EXTENDS AutonomyQueue, SequenceTheorems, TLAPS

(* The file holds each job once, and only jobs that are in the store. *)
OrderOK ==
  /\ \A i \in 1..Len(order) : InStore(order[i])
  /\ \A i, k \in 1..Len(order) : order[i] = order[k] => i = k

(* A concluded job has no holder and is over. *)
ConcludedOver ==
  \A j \in concluded : rec[j].status \in {"done", "dropped"} /\ rec[j].token = NoToken

(* No two callers were handed the same token. *)
OwnTokens ==
  \A v, w \in Worker : v # w /\ Holds(v) /\ Holds(w) => claim[v].token # claim[w].token

(* Only a concluded job was counted, and once. *)
CountedConcluded ==
  \A j \in Job : counted[j] = 0 \/ (counted[j] = 1 /\ j \in concluded)

IInv == TypeOK /\ OrderOK /\ ConcludedOver /\ OwnTokens /\ CountedConcluded

-----------------------------------------------------------------------------
LEMMA RecordType ==
  ASSUME NEW s \in Status, NEW age \in 0..(Ttl + 1), NEW wait \in 0..BackoffCap
  PROVE  Record(s, age, wait) \in JobRecord
  BY QueueAssumption DEF Record, JobRecord

LEMMA BackoffType == \A n : Backoff(n) \in 0..BackoffCap
  BY QueueAssumption DEF Backoff

(* What appending a record to the file leaves of it. *)
LEMMA AppendKeeps ==
  ASSUME TypeOK, OrderOK, NEW j \in Job, NEW r \in JobRecord,
         NEW others \in [Job -> JobRecord],
         rec[j].status = "none", r.status \in {"pending", "done"},
         \A k \in Job : InStore(k) => others[k].status \in {"pending", "processing", "done"},
         AppendJob(j, r, others)
  PROVE  /\ order' \in Seq(Job)
         /\ rec' \in [Job -> JobRecord]
         /\ OrderOK'
         /\ Trimmed \subseteq Job
         /\ \A k \in Trimmed : InStore(k)
<1>0. order \in Seq(Job) /\ MaxJobs \in Nat \ {0} /\ Len(order) \in Nat
  BY QueueAssumption, LenProperties DEF TypeOK
<1>1. ASSUME Trimmed # {}
      PROVE  /\ order # <<>>
             /\ Trimmed = {order[1]}
  <2>1. Len(order) >= MaxJobs /\ Trimmed = {Head(order)}
    BY <1>0, <1>1 DEF Trimmed
  <2>2. order # <<>>
    BY <1>0, <2>1
  <2>3. Head(order) = order[1]
    BY <1>0, <2>2
  <2> QED
    BY <2>1, <2>2, <2>3
<1>2. CASE Trimmed = {}
  <2>1. order' = Append(order, j)
    BY <1>2 DEF AppendJob
  <2>2. rec' = [k \in Job |-> IF k = j THEN r ELSE others[k]]
    BY <1>2 DEF AppendJob
  <2>3. /\ order' \in Seq(Job) /\ Len(order') = Len(order) + 1
        /\ \A i \in 1..Len(order) : order'[i] = order[i] /\ order[i] \in Job
        /\ order'[Len(order) + 1] = j
    BY <1>0, <2>1
  <2>4. \A i \in 1..Len(order) : order[i] # j /\ InStore(order[i])
    BY <1>0, <2>3 DEF OrderOK, InStore
  <2>5. OrderOK'
    BY <1>0, <2>2, <2>3, <2>4 DEF OrderOK, InStore
  <2> QED
    BY <1>2, <2>2, <2>3, <2>5
<1>3. CASE Trimmed # {}
  <2>1. order' = Append(Tail(order), j)
    BY <1>3 DEF AppendJob
  <2>2. rec' = [k \in Job |-> IF k = j THEN r
                              ELSE IF k = order[1] THEN Record("dropped", 0, 0) ELSE others[k]]
    BY <1>1, <1>3 DEF AppendJob
  <2>3. /\ order' \in Seq(Job) /\ Len(order') = Len(order)
        /\ Len(order) >= 1
        /\ \A i \in 1..Len(order) : order[i] \in Job
        /\ \A i \in 1..(Len(order) - 1) : order'[i] = order[i + 1]
        /\ order'[Len(order)] = j
    BY <1>0, <1>1, <1>3, <2>1
  <2>4. \A i \in 1..Len(order) : order[i] # j /\ InStore(order[i])
    BY <1>0, <2>3 DEF OrderOK, InStore
  <2>5. \A i \in 1..(Len(order) - 1) : order'[i] \in Job \ {order[1], j} /\ InStore(order'[i])
    BY <1>0, <2>3, <2>4 DEF OrderOK
  <2>6. \A i \in 1..Len(order) : order'[i] = j \/ (i < Len(order) /\ order'[i] \in Job \ {order[1], j} /\ InStore(order'[i]))
    BY <1>0, <2>3, <2>5
  <2>7. \A i \in 1..Len(order') : InStore(order[i])'
    BY <2>2, <2>3, <2>6 DEF InStore
  <2>8. ASSUME NEW i \in 1..Len(order'), NEW k \in 1..Len(order'), order'[i] = order'[k]
        PROVE  i = k
    <3>1. CASE i = Len(order) \/ k = Len(order)
      BY <1>0, <2>3, <2>5, <2>8, <3>1
    <3>2. CASE i # Len(order) /\ k # Len(order)
      <4>1. i + 1 \in 1..Len(order) /\ k + 1 \in 1..Len(order)
        BY <1>0, <2>3, <3>2
      <4>2. order[i + 1] = order[k + 1]
        BY <1>0, <2>3, <2>8, <3>2
      <4>3. i + 1 = k + 1
        BY <4>1, <4>2 DEF OrderOK
      <4> QED
        BY <1>0, <4>1, <4>3
    <3> QED
      BY <3>1, <3>2
  <2>9. Record("dropped", 0, 0) \in JobRecord
    BY RecordType, QueueAssumption DEF Status
  <2> QED
    BY <1>1, <1>3, <2>2, <2>3, <2>4, <2>7, <2>8, <2>9 DEF OrderOK
<1> QED
  BY <1>2, <1>3

-----------------------------------------------------------------------------
(* What the first and the second loop of claim_due() leave of a record. *)
LEMMA SettledFacts ==
  ASSUME TypeOK, NEW j \in Job
  PROVE  /\ Settled(j) \in JobRecord /\ Settled(j).token = rec[j].token
         /\ Passed(j) \in JobRecord /\ Passed(j).token = rec[j].token
         /\ rec[j].status \in {"none", "done", "dropped"} =>
              Settled(j) = rec[j] /\ Passed(j) = rec[j]
         /\ rec[j].status = "pending" =>
              Settled(j) = rec[j] /\ Passed(j).status \in {"pending", "done"}
         /\ rec[j].status = "processing" =>
              /\ Settled(j).status \in {"pending", "processing"}
              /\ Passed(j).status \in {"pending", "processing", "done"}
         /\ rec[j].status = "processing" /\ rec[j].lease > 0 =>
              Settled(j) = rec[j] /\ Passed(j) = rec[j] /\ ~Due(j)
         /\ Due(j) => Live(j)
<1>1. rec[j] \in JobRecord
  BY DEF TypeOK
<1>2. /\ Settled(j) \in JobRecord /\ Settled(j).token = rec[j].token
      /\ rec[j].status # "processing" => Settled(j) = rec[j]
      /\ rec[j].status = "processing" => Settled(j).status \in {"pending", "processing"}
      /\ rec[j].status = "processing" /\ rec[j].lease > 0 => Settled(j) = rec[j]
  BY <1>1 DEF Settled, JobRecord, Status
<1>3. Due(j) => Settled(j).status = "pending"
  BY DEF Due
<1>4. \/ Passed(j) = Settled(j)
      \/ Due(j) /\ Passed(j) = [Settled(j) EXCEPT !.status = "done"]
  BY DEF Passed
<1>5. Passed(j) \in JobRecord /\ Passed(j).token = rec[j].token
  BY <1>2, <1>4 DEF JobRecord, Status
<1>6. Due(j) => Live(j)
  BY <1>1, <1>2, <1>3 DEF Live, JobRecord, Status
<1> HIDE DEF Settled, Passed, Due
<1>7. Passed(j) # Settled(j) => Passed(j).status = "done" /\ Live(j) /\ Due(j)
  BY <1>2, <1>4, <1>6 DEF JobRecord
<1>8. rec[j].status = "processing" /\ rec[j].lease > 0 =>
        Settled(j) = rec[j] /\ Passed(j) = rec[j] /\ ~Due(j)
  BY <1>2, <1>3, <1>7
<1>9. rec[j].status \in {"none", "done", "dropped"} =>
        Settled(j) = rec[j] /\ Passed(j) = rec[j]
  BY <1>2, <1>7 DEF Live
<1>10. rec[j].status = "pending" =>
         Settled(j) = rec[j] /\ Passed(j).status \in {"pending", "done"}
  BY <1>2, <1>7
<1>11. rec[j].status = "processing" =>
         /\ Settled(j).status \in {"pending", "processing"}
         /\ Passed(j).status \in {"pending", "processing", "done"}
  BY <1>2, <1>7
<1> QED
  BY <1>2, <1>5, <1>6, <1>8, <1>9, <1>10, <1>11

(* The owner of a job holds a token, so its job is not concluded and was    *)
(* not counted.                                                             *)
LEMMA OwnerFacts ==
  ASSUME IInv, NEW w \in Worker, Owns(w)
  PROVE  /\ claim[w] \in Claim
         /\ claim[w].job \in Job
         /\ rec[claim[w].job].token \in Token
         /\ rec[claim[w].job].token # NoToken
         /\ InStore(claim[w].job)
         /\ claim[w].job \notin concluded
         /\ counted[claim[w].job] = 0
<1>1. claim[w] \in Claim
  BY DEF IInv, TypeOK, Owns, Holds
<1>2. claim[w].job \in Job /\ claim[w].token \in Token
  BY <1>1 DEF Claim
<1>3. rec[claim[w].job].token = claim[w].token /\ InStore(claim[w].job)
  BY DEF Owns
<1>4. rec[claim[w].job].token # NoToken
  BY <1>2, <1>3, QueueAssumption
<1> QED
  BY <1>1, <1>2, <1>3, <1>4 DEF IInv, ConcludedOver, CountedConcluded

(* A step that keeps the file's order and every stored job in the store     *)
(* keeps the file in order.                                                 *)
LEMMA OrderKept ==
  ASSUME OrderOK, TypeOK, order' = order,
         \A j \in Job : InStore(j) => InStore(j)'
  PROVE  OrderOK'
<1>1. \A i \in 1..Len(order) : order[i] \in Job
  BY DEF TypeOK
<1> QED
  BY <1>1 DEF OrderOK

(* A step that lets go of one claim, or of none, keeps the tokens apart. *)
LEMMA TokensKept ==
  ASSUME OwnTokens, NEW w \in Worker, claim \in [Worker -> Claim \cup {NoClaim}],
         LetGo(w) \/ claim' = claim
  PROVE  /\ OwnTokens'
         /\ claim' \in [Worker -> Claim \cup {NoClaim}]
  BY DEF OwnTokens, LetGo, Holds

-----------------------------------------------------------------------------
LEMMA InitIInv == Init => IInv
<1> SUFFICES ASSUME Init PROVE IInv
  OBVIOUS
<1>1. Record("none", 0, 0) \in JobRecord
  BY RecordType, QueueAssumption DEF Status
<1>2. Len(order) = 0 /\ order \in Seq(Job)
  BY DEF Init
<1>3. TypeOK
  BY <1>1, <1>2 DEF Init, TypeOK
<1> QED
  BY <1>2, <1>3 DEF Init, IInv, OrderOK, ConcludedOver, OwnTokens, CountedConcluded, Holds

(* enqueue() and record_signal_outcome(). *)
LEMMA NewJobInv ==
  ASSUME IInv, NEW j \in Job, Enqueue(j) \/ RecordOutcome(j)
  PROVE  IInv'
<1>1. PICK r \in JobRecord : /\ r.status \in {"pending", "done"}
                             /\ AppendJob(j, r, rec)
  <2>1. /\ Record("pending", 0, 0) \in JobRecord /\ Record("pending", 0, 0).status = "pending"
        /\ Record("done", 0, 0) \in JobRecord /\ Record("done", 0, 0).status = "done"
    BY RecordType, QueueAssumption DEF Status, Record
  <2> QED
    BY <2>1 DEF Enqueue, RecordOutcome
<1>2. /\ rec[j].status = "none"
      /\ claim' = claim /\ concluded' = concluded /\ counted' = counted
  BY DEF Enqueue, RecordOutcome
<1>3. /\ rec \in [Job -> JobRecord]
      /\ \A k \in Job : InStore(k) => rec[k].status \in {"pending", "processing", "done"}
  BY DEF IInv, TypeOK, InStore
<1>4. /\ order' \in Seq(Job)
      /\ rec' \in [Job -> JobRecord]
      /\ OrderOK'
  BY <1>1, <1>2, <1>3, AppendKeeps DEF IInv
<1>5. TypeOK'
  BY <1>2, <1>4 DEF IInv, TypeOK
<1>6. \A k \in Job \ {j} : rec'[k] = rec[k] \/ rec'[k] = Record("dropped", 0, 0)
  BY <1>1 DEF AppendJob
<1>7. j \notin concluded
  BY <1>2 DEF IInv, ConcludedOver
<1>8. ConcludedOver'
  <2>1. \A k \in concluded : k \in Job \ {j}
    BY <1>7 DEF IInv, TypeOK
  <2>2. /\ Record("dropped", 0, 0).status = "dropped"
        /\ Record("dropped", 0, 0).token = NoToken
    BY DEF Record
  <2> QED
    BY <1>2, <1>6, <2>1, <2>2 DEF IInv, ConcludedOver
<1>9. OwnTokens' /\ CountedConcluded'
  BY <1>2 DEF IInv, OwnTokens, CountedConcluded, Holds
<1> QED
  BY <1>4, <1>5, <1>8, <1>9 DEF IInv

(* claim_due() with a job to hand out. *)
LEMMA ClaimDueInv ==
  ASSUME IInv, NEW w \in Worker, ClaimDue(w)
  PROVE  IInv'
<1>1. PICK i \in DOMAIN order, t \in Token \ TokensInUse :
         /\ Due(order[i])
         /\ rec' = [j \in Job |->
                      IF j = order[i] THEN Handed(j, t)
                      ELSE IF j \in Before(i) THEN Passed(j) ELSE Settled(j)]
         /\ claim' = [claim EXCEPT ![w] = [job |-> order[i], token |-> t, lost |-> FALSE]]
  BY DEF ClaimDue
<1>2. order' = order /\ concluded' = concluded /\ counted' = counted
  BY DEF ClaimDue
<1>3. order[i] \in Job
  BY DEF IInv, TypeOK
<1> DEFINE given == order[i]
<1>4. Live(given)
  BY <1>1, <1>3, SettledFacts DEF IInv
<1>5. rec'[given] \in JobRecord /\ rec'[given].status = "processing"
  <2>1. rec[given] \in JobRecord /\ t \in Token /\ Lease \in 0..Lease /\ 0 \in 0..BackoffCap
    BY <1>3, QueueAssumption DEF IInv, TypeOK
  <2>2. rec'[given] = Handed(given, t)
    BY <1>1, <1>3
  <2>3. rec[given].age \in 0..(Ttl + 1) /\ rec[given].attempts \in Nat
    BY <2>1 DEF JobRecord
  <2>4. Handed(given, t) \in JobRecord
    BY <2>1, <2>3 DEF Handed, JobRecord, Status
  <2> QED
    BY <2>2, <2>4 DEF Handed
<1>6. \A j \in Job \ {given} : rec'[j] = Passed(j) \/ rec'[j] = Settled(j)
  BY <1>1
<1>7. rec' \in [Job -> JobRecord]
  <2>1. \A j \in Job : rec'[j] \in JobRecord
    BY <1>5, <1>6, SettledFacts DEF IInv
  <2> QED
    BY <1>1, <2>1
<1>8. [job |-> given, token |-> t, lost |-> FALSE] \in Claim
  BY <1>3 DEF Claim
<1>9. TypeOK'
  BY <1>1, <1>2, <1>7, <1>8 DEF IInv, TypeOK
<1>10. \A j \in Job : InStore(j) => InStore(j)'
  <2>1. \A j \in Job \ {given} : InStore(j) => rec'[j].status \in {"pending", "processing", "done"}
    BY <1>6, SettledFacts DEF IInv, InStore
  <2> QED
    BY <1>5, <2>1 DEF InStore
<1>11. OrderOK'
  BY <1>2, <1>10, OrderKept DEF IInv
<1>12. given \notin concluded
  BY <1>4 DEF IInv, ConcludedOver, Live
<1>13. \A j \in concluded : rec'[j] = rec[j]
  BY <1>6, <1>12, SettledFacts DEF IInv, ConcludedOver, TypeOK
<1>14. ConcludedOver'
  BY <1>2, <1>13 DEF IInv, ConcludedOver
<1>15. OwnTokens'
  <2>1. \A v \in Worker : claim[v] # NoClaim => claim[v].token # t
    BY DEF TokensInUse
  <2>2. claim'[w].token = t /\ \A v \in Worker \ {w} : claim'[v] = claim[v]
    BY <1>1 DEF IInv, TypeOK
  <2> QED
    BY <2>1, <2>2 DEF IInv, OwnTokens, Holds
<1>16. CountedConcluded'
  BY <1>2 DEF IInv, CountedConcluded
<1> QED
  BY <1>9, <1>11, <1>14, <1>15, <1>16 DEF IInv

(* claim_due() without one: the lapsed leases and the expired jobs it found *)
(* are settled all the same.                                                *)
LEMMA ClaimNothingInv ==
  ASSUME IInv, NEW w \in Worker, ClaimNothing(w)
  PROVE  IInv'
<1>1. /\ rec' = [j \in Job |-> Passed(j)]
      /\ order' = order /\ claim' = claim /\ concluded' = concluded /\ counted' = counted
  BY DEF ClaimNothing
<1>2. \A j \in Job : rec'[j] = Passed(j)
  BY <1>1
<1>3. TypeOK'
  <2>1. \A j \in Job : Passed(j) \in JobRecord
    BY SettledFacts DEF IInv
  <2>2. rec' \in [Job -> JobRecord]
    BY <1>1, <2>1
  <2> QED
    BY <1>1, <2>2 DEF IInv, TypeOK
<1>4. \A j \in Job : InStore(j) => InStore(j)'
  BY <1>2, SettledFacts DEF IInv, InStore
<1>5. OrderOK'
  BY <1>1, <1>4, OrderKept DEF IInv
<1>6. \A j \in concluded : rec'[j] = rec[j]
  BY <1>2, SettledFacts DEF IInv, ConcludedOver, TypeOK
<1> QED
  BY <1>1, <1>3, <1>5, <1>6 DEF IInv, ConcludedOver, OwnTokens, Holds, CountedConcluded

LEMMA OlderFacts ==
  ASSUME NEW r \in JobRecord
  PROVE  Older(r) \in JobRecord /\ Older(r).status = r.status /\ Older(r).token = r.token
<1>1. r.age \in 0..(Ttl + 1) /\ r.lease \in 0..Lease /\ r.wait \in 0..BackoffCap
  BY DEF JobRecord
<1>2. /\ Smaller(r.age + 1, Ttl + 1) \in 0..(Ttl + 1)
      /\ Less(r.lease) \in 0..Lease
      /\ Less(r.wait) \in 0..BackoffCap
  BY <1>1, QueueAssumption DEF Smaller, Less
<1> HIDE DEF Smaller, Less
<1>3. PICK a \in 0..(Ttl + 1), l \in 0..Lease, b \in 0..BackoffCap :
        Older(r) = [r EXCEPT !.age = a, !.lease = l, !.wait = b]
  BY <1>2 DEF Older
<1> QED
  BY <1>3 DEF JobRecord

LEMMA TickInv ==
  ASSUME IInv, Tick
  PROVE  IInv'
<1>1. /\ rec' = [j \in Job |-> IF Live(j) THEN Older(rec[j]) ELSE rec[j]]
      /\ order' = order /\ claim' = claim /\ concluded' = concluded /\ counted' = counted
  BY DEF Tick
<1>2. \A j \in Job : /\ rec'[j] \in JobRecord
                     /\ rec'[j].status = rec[j].status
                     /\ rec'[j].token = rec[j].token
  BY <1>1, OlderFacts DEF IInv, TypeOK
<1>3. TypeOK'
  <2>1. rec' \in [Job -> JobRecord]
    BY <1>1, <1>2
  <2> QED
    BY <1>1, <2>1 DEF IInv, TypeOK
<1>4. OrderOK'
  BY <1>1, <1>2, OrderKept DEF IInv, InStore
<1>5. ConcludedOver'
  BY <1>1, <1>2 DEF IInv, TypeOK, ConcludedOver
<1> QED
  BY <1>1, <1>3, <1>4, <1>5 DEF IInv, OwnTokens, Holds, CountedConcluded

(* renew(), granted or refused, and a run that ends without a finish() that *)
(* counts: the records keep their status and their token.                   *)
LEMMA RenewInv ==
  ASSUME IInv, NEW w \in Worker,
         Renew(w) \/ RenewRefused(w) \/ FinishStale(w) \/ Abandon(w)
  PROVE  IInv'
<1>1. order' = order /\ concluded' = concluded /\ counted' = counted
  BY DEF Renew, RenewRefused, FinishStale, Abandon
<1>2. /\ rec' \in [Job -> JobRecord]
      /\ \A j \in Job : rec'[j].status = rec[j].status /\ rec'[j].token = rec[j].token
  <2>1. Lease \in 0..Lease /\ rec \in [Job -> JobRecord]
    BY QueueAssumption DEF IInv, TypeOK
  <2>2. CASE Renew(w)
    BY <2>1, <2>2 DEF Renew, JobRecord
  <2>3. CASE rec' = rec
    BY <2>1, <2>3
  <2> QED
    BY <2>2, <2>3 DEF RenewRefused, FinishStale, Abandon
<1>3. OwnTokens' /\ claim' \in [Worker -> Claim \cup {NoClaim}]
  <2>1. OwnTokens /\ claim \in [Worker -> Claim \cup {NoClaim}]
    BY DEF IInv, TypeOK
  <2>2. CASE RenewRefused(w)
    <3>1. claim[w] \in Claim
      BY <2>1, <2>2 DEF RenewRefused, Holds
    <3>2. [claim[w] EXCEPT !.lost = TRUE] \in Claim /\ [claim[w] EXCEPT !.lost = TRUE].token = claim[w].token
      BY <3>1 DEF Claim
    <3>3. claim' = [claim EXCEPT ![w] = [claim[w] EXCEPT !.lost = TRUE]]
      BY <2>2 DEF RenewRefused
    <3> QED
      BY <2>1, <2>2, <3>2, <3>3 DEF OwnTokens, Holds, RenewRefused
  <2>3. CASE ~RenewRefused(w)
    BY <2>1, <2>3, TokensKept DEF Renew, FinishStale, Abandon
  <2> QED
    BY <2>2, <2>3
<1>4. OrderOK'
  BY <1>1, <1>2, OrderKept DEF IInv, InStore
<1>5. ConcludedOver'
  BY <1>1, <1>2 DEF IInv, TypeOK, ConcludedOver
<1> QED
  BY <1>1, <1>2, <1>3, <1>4, <1>5 DEF IInv, TypeOK, CountedConcluded

LEMMA ClosedFacts ==
  ASSUME NEW r \in JobRecord
  PROVE  Closed(r) \in JobRecord /\ Closed(r).status = "done" /\ Closed(r).token = NoToken
<1>1. 0 \in 0..Lease /\ 0 \in 0..BackoffCap
  BY QueueAssumption
<1> QED
  BY <1>1 DEF Closed, JobRecord, Status

(* finish() by the owner, with a final disposition. *)
LEMMA FinishDoneInv ==
  ASSUME IInv, NEW w \in Worker, NEW e \in BOOLEAN, FinishDone(w, e)
  PROVE  IInv'
<1> DEFINE job == claim[w].job
<1>1. /\ order' = order /\ LetGo(w)
      /\ rec' = [rec EXCEPT ![job] = Closed(@)]
      /\ concluded' = concluded \cup {job}
      /\ counted' = IF e THEN [counted EXCEPT ![job] = @ + 1] ELSE counted
  BY DEF FinishDone
<1>2. job \in Job /\ counted[job] = 0
  BY OwnerFacts DEF FinishDone
<1> HIDE DEF job
<1>3. rec \in [Job -> JobRecord] /\ counted \in [Job -> Nat] /\ concluded \subseteq Job
  BY DEF IInv, TypeOK
<1>4. /\ rec' \in [Job -> JobRecord]
      /\ rec'[job].status = "done" /\ rec'[job].token = NoToken
      /\ \A j \in Job \ {job} : rec'[j] = rec[j]
  BY <1>1, <1>2, <1>3, ClosedFacts
<1>5. OwnTokens' /\ claim' \in [Worker -> Claim \cup {NoClaim}]
  BY <1>1, TokensKept DEF IInv, TypeOK
<1>6. \A j \in Job : counted'[j] = counted[j] \/ (j = job /\ counted'[j] = 1)
  BY <1>1, <1>2, <1>3
<1>7. counted' \in [Job -> Nat]
  BY <1>1, <1>2, <1>3
<1>8. OrderOK'
  BY <1>1, <1>4, OrderKept DEF IInv, InStore
<1>9. ConcludedOver'
  BY <1>1, <1>3, <1>4 DEF IInv, ConcludedOver
<1>10. CountedConcluded'
  BY <1>1, <1>6 DEF IInv, CountedConcluded
<1>11. TypeOK'
  BY <1>1, <1>2, <1>3, <1>4, <1>5, <1>7 DEF IInv, TypeOK
<1> QED
  BY <1>5, <1>8, <1>9, <1>10, <1>11 DEF IInv

(* finish(retry=True) by the owner. *)
LEMMA FinishRetryInv ==
  ASSUME IInv, NEW w \in Worker, FinishRetry(w)
  PROVE  IInv'
<1> DEFINE job == claim[w].job
<1>1. /\ order' = order /\ concluded' = concluded /\ counted' = counted /\ LetGo(w)
      /\ rec' = [rec EXCEPT ![job].status = "pending", ![job].lease = 0, ![job].token = NoToken,
                            ![job].wait = Backoff(rec[job].attempts)]
  BY DEF FinishRetry
<1>2. job \in Job /\ job \notin concluded
  BY OwnerFacts DEF FinishRetry
<1> HIDE DEF job
<1>3. rec \in [Job -> JobRecord] /\ concluded \subseteq Job
  BY DEF IInv, TypeOK
<1>4. PICK b \in 0..BackoffCap :
        rec' = [rec EXCEPT ![job].status = "pending", ![job].lease = 0, ![job].token = NoToken,
                           ![job].wait = b]
  BY <1>1, BackoffType
<1>5. /\ rec' \in [Job -> JobRecord]
      /\ rec'[job].status = "pending"
      /\ \A j \in Job \ {job} : rec'[j] = rec[j]
  <2>1. 0 \in 0..Lease /\ rec[job] \in JobRecord
    BY <1>2, <1>3, QueueAssumption
  <2>2. [rec[job] EXCEPT !.status = "pending", !.lease = 0, !.token = NoToken, !.wait = b]
          \in JobRecord
    BY <2>1 DEF JobRecord, Status
  <2>3. rec' = [rec EXCEPT ![job] = [rec[job] EXCEPT !.status = "pending", !.lease = 0,
                                                     !.token = NoToken, !.wait = b]]
    BY <1>2, <1>3, <1>4
  <2>4. [rec[job] EXCEPT !.status = "pending", !.lease = 0, !.token = NoToken, !.wait = b].status
          = "pending"
    BY <2>1 DEF JobRecord
  <2> QED
    BY <1>2, <1>3, <2>2, <2>3, <2>4
<1>6. OwnTokens' /\ claim' \in [Worker -> Claim \cup {NoClaim}]
  BY <1>1, TokensKept DEF IInv, TypeOK
<1>7. OrderOK'
  BY <1>1, <1>5, OrderKept DEF IInv, InStore
<1>8. ConcludedOver'
  BY <1>1, <1>2, <1>3, <1>5 DEF IInv, ConcludedOver
<1> QED
  BY <1>1, <1>5, <1>6, <1>7, <1>8 DEF IInv, TypeOK, CountedConcluded

(* The owner of a job that a dream blocked, with or without a retry child. *)
LEMMA FinishSplitInv ==
  ASSUME IInv, NEW w \in Worker, FinishSplit(w)
  PROVE  IInv'
<1> DEFINE job == claim[w].job
           parentDone == [rec EXCEPT ![job] = Closed(@)]
<1>1. /\ concluded' = concluded \cup {job} /\ counted' = counted /\ LetGo(w)
      /\ rec[job].status = "processing" /\ job \in Wake
      /\ \/ rec' = parentDone /\ order' = order
         \/ /\ Child[job] # NoJob
            /\ rec[Child[job]].status = "none"
            /\ \E age \in rec[job].age..(Ttl - 1) :
                 AppendJob(Child[job], Record("pending", age, Backoff(rec[job].attempts)), parentDone)
  BY DEF FinishSplit, OwnsLease
<1>2. job \in Job
  BY OwnerFacts DEF FinishSplit, OwnsLease
<1>3. rec \in [Job -> JobRecord] /\ concluded \subseteq Job
  BY DEF IInv, TypeOK
<1> HIDE DEF job
<1>4. /\ parentDone \in [Job -> JobRecord]
      /\ parentDone[job].status = "done" /\ parentDone[job].token = NoToken
      /\ \A j \in Job \ {job} : parentDone[j] = rec[j]
  BY <1>2, <1>3, ClosedFacts
<1> HIDE DEF parentDone
<1>5. \A j \in Job : InStore(j) => parentDone[j].status \in {"pending", "processing", "done"}
  BY <1>4 DEF InStore
<1>6. /\ order' \in Seq(Job) /\ rec' \in [Job -> JobRecord] /\ OrderOK'
      /\ \A j \in concluded' : rec'[j].status \in {"done", "dropped"} /\ rec'[j].token = NoToken
  <2>1. CASE rec' = parentDone /\ order' = order
    <3>1. OrderOK'
      BY <1>4, <2>1, OrderKept DEF IInv, InStore
    <3> QED
      BY <1>1, <1>3, <1>4, <2>1, <3>1 DEF IInv, TypeOK, ConcludedOver
  <2>2. CASE /\ Child[job] # NoJob
             /\ rec[Child[job]].status = "none"
             /\ \E age \in rec[job].age..(Ttl - 1) :
                  AppendJob(Child[job], Record("pending", age, Backoff(rec[job].attempts)), parentDone)
    <3> DEFINE child == Child[job]
    <3>1. child \in Job
      BY <1>1, <2>2, QueueAssumption
    <3>2. rec[job].age \in 0..(Ttl + 1)
      BY <1>2, <1>3 DEF JobRecord
    <3>3. PICK age \in rec[job].age..(Ttl - 1) :
            AppendJob(child, Record("pending", age, Backoff(rec[job].attempts)), parentDone)
      BY <2>2
    <3>4. age \in 0..(Ttl + 1)
      BY <3>2, <3>3, QueueAssumption
    <3> DEFINE r == Record("pending", age, Backoff(rec[job].attempts))
    <3>5. r \in JobRecord
      BY <3>4, RecordType, BackoffType DEF Status
    <3>6. r.status \in {"pending", "done"}
      BY DEF Record
    <3> HIDE DEF child, r
    <3>7. AppendJob(child, r, parentDone) /\ rec[child].status = "none"
      BY <2>2, <3>3 DEF child, r
    <3>8. order' \in Seq(Job) /\ rec' \in [Job -> JobRecord] /\ OrderOK'
      BY <1>4, <1>5, <3>1, <3>5, <3>6, <3>7, AppendKeeps DEF IInv
    <3>9. \A j \in Job \ {child} : rec'[j] = parentDone[j] \/ rec'[j] = Record("dropped", 0, 0)
      BY <3>7 DEF AppendJob
    <3>10. /\ Record("dropped", 0, 0).status = "dropped"
           /\ Record("dropped", 0, 0).token = NoToken
      BY DEF Record
    <3>11. child # job /\ child \notin concluded
      BY <1>1, <3>7 DEF IInv, ConcludedOver
    <3>12. \A j \in concluded \cup {job} : j \in Job \ {child}
      BY <1>2, <1>3, <3>11
    <3>13. \A j \in concluded \cup {job} :
             parentDone[j].status \in {"done", "dropped"} /\ parentDone[j].token = NoToken
      BY <1>3, <1>4 DEF IInv, ConcludedOver
    <3> QED
      BY <1>1, <3>8, <3>9, <3>10, <3>12, <3>13
  <2> QED
    BY <1>1, <2>1, <2>2
<1>7. OwnTokens' /\ claim' \in [Worker -> Claim \cup {NoClaim}]
  BY <1>1, TokensKept DEF IInv, TypeOK
<1> QED
  BY <1>1, <1>2, <1>3, <1>6, <1>7 DEF IInv, TypeOK, ConcludedOver, CountedConcluded

LEMMA StepIInv == IInv /\ [Next]_vars => IInv'
<1> SUFFICES ASSUME IInv, [Next]_vars PROVE IInv'
  OBVIOUS
<1>1. CASE \E j \in Job : Enqueue(j) \/ RecordOutcome(j)
  BY <1>1, NewJobInv
<1>2. ASSUME NEW w \in Worker, ClaimDue(w)
      PROVE  IInv'
  BY <1>2, ClaimDueInv
<1>3. ASSUME NEW w \in Worker, ClaimNothing(w)
      PROVE  IInv'
  BY <1>3, ClaimNothingInv
<1>4. ASSUME NEW w \in Worker,
             Renew(w) \/ RenewRefused(w) \/ FinishStale(w) \/ Abandon(w)
      PROVE  IInv'
  BY <1>4, RenewInv
<1>5. ASSUME NEW w \in Worker, NEW e \in BOOLEAN, FinishDone(w, e)
      PROVE  IInv'
  BY <1>5, FinishDoneInv
<1>6. ASSUME NEW w \in Worker, FinishRetry(w)
      PROVE  IInv'
  BY <1>6, FinishRetryInv
<1>7. ASSUME NEW w \in Worker, FinishSplit(w)
      PROVE  IInv'
  BY <1>7, FinishSplitInv
<1>8. CASE Tick
  BY <1>8, TickInv
<1>9. CASE UNCHANGED vars
  BY <1>9 DEF vars, IInv, TypeOK, OrderOK, InStore, ConcludedOver, OwnTokens, Holds,
              CountedConcluded
<1> QED
  BY <1>1, <1>2, <1>3, <1>4, <1>5, <1>6, <1>7, <1>8, <1>9 DEF Next, Finish

LEMMA Inductive == Spec => []IInv
  BY InitIInv, StepIInv, PTL DEF Spec

(* The records keep their types: leases, backoffs and ages stay within the  *)
(* bounds store.py computes them with.                                      *)
THEOREM TypeCorrect == Spec => []TypeOK
<1>1. IInv => TypeOK
  BY DEF IInv
<1> QED
  BY <1>1, Inductive, PTL

(* However many callers claim, lose their leases and come back late, two    *)
(* never both own a job: finish() and renew() of all but the last holder    *)
(* are refused.                                                             *)
THEOREM ClaimsExclusive == Spec => []ExclusiveClaim
<1>1. IInv => ExclusiveClaim
  BY DEF IInv, OwnTokens, ExclusiveClaim, Owns
<1> QED
  BY <1>1, Inductive, PTL

(* A job its owner finished for good is never pending or processing again. *)
THEOREM FinishedStays == Spec => []FinishedIsFinal
<1>1. IInv => FinishedIsFinal
  BY DEF IInv, ConcludedOver, FinishedIsFinal
<1> QED
  BY <1>1, Inductive, PTL

(* Over all its attempts a job moves the daily budget and the circuit       *)
(* breaker at most once.                                                    *)
THEOREM BudgetOnce == Spec => []CountedOnce
<1>1. IInv => CountedOnce
  <2> SUFFICES ASSUME IInv, NEW j \in Job PROVE counted[j] <= 1
    BY DEF CountedOnce
  <2>1. counted[j] \in {0, 1}
    BY DEF IInv, CountedConcluded
  <2> QED
    BY <2>1
<1> QED
  BY <1>1, Inductive, PTL

-----------------------------------------------------------------------------
(* No step takes a job from a caller whose lease runs, except trimming.     *)
LEMMA StepLease ==
  ASSUME IInv, [Next]_vars, NEW w \in Worker,
         OwnsLease(w), rec[claim[w].job].lease > 0, claim'[w] = claim[w]
  PROVE  Owns(w)' \/ rec'[claim[w].job].status = "dropped"
<1> DEFINE job == claim[w].job
<1>1. /\ job \in Job /\ rec[job].status = "processing" /\ rec[job].lease > 0
      /\ claim[w] # NoClaim /\ claim[w] \in Claim
      /\ rec[job].token = claim[w].token
  BY OwnerFacts DEF OwnsLease, Owns, Holds
<1>2. rec \in [Job -> JobRecord] /\ claim \in [Worker -> Claim \cup {NoClaim}]
  BY DEF IInv, TypeOK
<1> HIDE DEF job
<1>3. SUFFICES \/ rec'[job].token = rec[job].token
                  /\ rec'[job].status \in {"pending", "processing", "done"}
               \/ rec'[job].status = "dropped"
  BY <1>1 DEF Owns, Holds, InStore, job
<1>4. ASSUME NEW j \in Job, NEW r, NEW others \in [Job -> JobRecord], AppendJob(j, r, others),
             j # job, others[job] = rec[job]
      PROVE  rec'[job].status = "dropped" \/ rec'[job] = rec[job]
  BY <1>1, <1>4 DEF AppendJob, Record
<1>5. ASSUME NEW j \in Job, Enqueue(j) \/ RecordOutcome(j)
      PROVE  rec'[job].status = "dropped" \/ rec'[job] = rec[job]
  <2>1. j # job
    BY <1>1, <1>5 DEF Enqueue, RecordOutcome
  <2> QED
    BY <1>2, <1>4, <1>5, <2>1 DEF Enqueue, RecordOutcome
<1>7. ASSUME NEW v \in Worker, LetGo(v), Owns(v)
      PROVE  claim[v].job # job
  <2>1. claim'[v] = NoClaim
    BY <1>2, <1>7 DEF LetGo
  <2>2. v # w
    BY <1>1, <2>1
  <2>3. claim[v].token # claim[w].token
    BY <1>1, <1>7, <2>2 DEF IInv, OwnTokens, Holds, Owns
  <2> QED
    BY <1>1, <1>7, <2>3 DEF Owns
<1>8. ASSUME NEW v \in Worker, ClaimDue(v) \/ ClaimNothing(v)
      PROVE  rec'[job] = rec[job]
  <2>1. Settled(job) = rec[job] /\ Passed(job) = rec[job] /\ ~Due(job)
    BY <1>1, SettledFacts DEF IInv
  <2>2. CASE ClaimNothing(v)
    BY <1>1, <2>1, <2>2 DEF ClaimNothing
  <2>3. CASE ClaimDue(v)
    <3>1. PICK i \in DOMAIN order, t \in Token \ TokensInUse :
            /\ Due(order[i])
            /\ rec' = [j \in Job |->
                         IF j = order[i] THEN Handed(j, t)
                         ELSE IF j \in Before(i) THEN Passed(j) ELSE Settled(j)]
      BY <2>3 DEF ClaimDue
    <3>2. job # order[i]
      BY <2>1, <3>1
    <3> QED
      BY <1>1, <2>1, <3>1, <3>2
  <2> QED
    BY <1>8, <2>2, <2>3
<1>9. ASSUME NEW v \in Worker, Renew(v)
      PROVE  rec'[job].token = rec[job].token /\ rec'[job].status = rec[job].status
  <2>1. rec[job] \in JobRecord
    BY <1>1, <1>2
  <2> QED
    BY <1>1, <1>2, <1>9, <2>1 DEF Renew, JobRecord
<1>10. ASSUME NEW v \in Worker, Finish(v)
       PROVE  rec'[job].status = "dropped" \/ rec'[job] = rec[job]
  <2>1. ASSUME NEW e \in BOOLEAN, FinishDone(v, e)
        PROVE  rec'[job] = rec[job]
    BY <1>1, <1>2, <1>7, <2>1 DEF FinishDone
  <2>2. CASE FinishRetry(v)
    BY <1>1, <1>2, <1>7, <2>2 DEF FinishRetry
  <2>3. CASE FinishStale(v)
    BY <2>3 DEF FinishStale
  <2>4. CASE FinishSplit(v)
    <3> DEFINE other == claim[v].job
               parentDone == [rec EXCEPT ![other] = Closed(@)]
    <3>1. other # job /\ other \in Job
      BY <1>7, <2>4, OwnerFacts DEF FinishSplit, OwnsLease
    <3>2. parentDone \in [Job -> JobRecord] /\ parentDone[job] = rec[job]
      BY <1>1, <1>2, <3>1, ClosedFacts
    <3>3. CASE rec' = parentDone
      BY <3>2, <3>3
    <3>4. CASE /\ Child[other] # NoJob /\ other \in Wake
               /\ rec[Child[other]].status = "none"
               /\ \E r : AppendJob(Child[other], r, parentDone)
      <4>1. Child[other] \in Job /\ Child[other] # job
        BY <1>1, <3>4, QueueAssumption
      <4> HIDE DEF parentDone
      <4> QED
        BY <1>4, <3>2, <3>4, <4>1
    <3> QED
      BY <2>4, <3>3, <3>4 DEF FinishSplit
  <2> QED
    BY <1>10, <2>1, <2>2, <2>3, <2>4 DEF Finish
<1>11. CASE Tick
  <2>1. rec[job] \in JobRecord
    BY <1>1, <1>2
  <2>2. rec'[job] = Older(rec[job]) \/ rec'[job] = rec[job]
    BY <1>1, <1>11 DEF Tick
  <2> QED
    BY <1>1, <2>1, <2>2, OlderFacts
<1>12. CASE UNCHANGED rec
  BY <1>1, <1>12
<1> QED
  BY <1>1, <1>5, <1>8, <1>9, <1>10, <1>11, <1>12 DEF Next, vars, RenewRefused, Abandon

(* While its lease runs, a caller keeps the job it was handed; only the     *)
(* trimming of the store may take it away.                                  *)
THEOREM LeaseKept == Spec => LeaseRespected
<1>1. IInv /\ [Next]_vars =>
        [\A w \in Worker :
           OwnsLease(w) /\ rec[claim[w].job].lease > 0 /\ claim'[w] = claim[w] =>
             Owns(w)' \/ rec'[claim[w].job].status = "dropped"]_vars
  BY StepLease
<1> QED
  BY <1>1, Inductive, PTL DEF Spec, LeaseRespected

-----------------------------------------------------------------------------
(* Where a record puts its job in the abstract life, before and after a     *)
(* step.                                                                    *)
LEMMA StateFacts ==
  ASSUME NEW j \in Job
  PROVE  /\ rec[j].status = "none" => StateOf(j) = "absent"
         /\ rec[j].status = "pending" => StateOf(j) = "waiting"
         /\ rec[j].status = "processing" => StateOf(j) = "running"
         /\ rec[j].status = "dropped" => StateOf(j) = "forgotten"
         /\ rec[j].status = "done" /\ j \in concluded => StateOf(j) = "concluded"
         /\ rec[j].status = "done" /\ j \notin concluded => StateOf(j) = "expired"
  BY DEF StateOf

LEMMA NextStateFacts ==
  ASSUME NEW j \in Job
  PROVE  /\ rec'[j].status = "none" => StateOf(j)' = "absent"
         /\ rec'[j].status = "pending" => StateOf(j)' = "waiting"
         /\ rec'[j].status = "processing" => StateOf(j)' = "running"
         /\ rec'[j].status = "dropped" => StateOf(j)' = "forgotten"
         /\ rec'[j].status = "done" /\ j \in concluded' => StateOf(j)' = "concluded"
         /\ rec'[j].status = "done" /\ j \notin concluded' => StateOf(j)' = "expired"
  BY DEF StateOf

LifeStep(j) ==
  \/ Lifecycle!Keep(j) \/ Lifecycle!Submit(j) \/ Lifecycle!Archive(j) \/ Lifecycle!Take(j)
  \/ Lifecycle!Lapse(j) \/ Lifecycle!Expire(j) \/ Lifecycle!GiveBack(j)
  \/ Lifecycle!Conclude(j) \/ Lifecycle!Forget(j)

(* The edges of the abstract life, read off the states and the tokens. *)
LEMMA Edges ==
  ASSUME NEW j \in Job
  PROVE  /\ StateOf(j)' = StateOf(j) /\ rec'[j].token = rec[j].token => LifeStep(j)
         /\ StateOf(j) = "absent" /\ StateOf(j)' \in {"waiting", "expired"}
            /\ rec'[j].token = NoToken => LifeStep(j)
         /\ StateOf(j) \in {"waiting", "running"} /\ StateOf(j)' = "running"
            /\ rec'[j].token \in Token \ {rec[j].token} => LifeStep(j)
         /\ StateOf(j) = "running" /\ StateOf(j)' = "waiting"
            /\ rec'[j].token = rec[j].token => LifeStep(j)
         /\ StateOf(j) \in {"waiting", "running"} /\ StateOf(j)' = "expired"
            /\ rec'[j].token = rec[j].token => LifeStep(j)
         /\ StateOf(j) \in {"waiting", "running", "expired"} /\ rec[j].token # NoToken
            /\ StateOf(j)' \in {"waiting", "concluded"} /\ rec'[j].token = NoToken => LifeStep(j)
         /\ StateOf(j) \in {"waiting", "running", "expired", "concluded"}
            /\ StateOf(j)' = "forgotten" /\ rec'[j].token = NoToken => LifeStep(j)
  BY DEF LifeStep, Lifecycle!Keep, Lifecycle!Submit, Lifecycle!Archive, Lifecycle!Take,
         Lifecycle!Lapse, Lifecycle!Expire, Lifecycle!GiveBack, Lifecycle!Conclude,
         Lifecycle!Forget, Lifecycle!State, Lifecycle!Undecided

(* A job that a step leaves alone, and one that leaves the store. *)
LEMMA KeptLife ==
  ASSUME NEW j \in Job, IInv,
         rec'[j].status = rec[j].status, rec'[j].token = rec[j].token,
         j \in concluded <=> j \in concluded'
  PROVE  LifeStep(j)
<1>1. rec[j].status \in Status
  BY DEF IInv, TypeOK, JobRecord
<1> QED
  BY <1>1, StateFacts, NextStateFacts, Edges DEF Status

LEMMA DroppedLife ==
  ASSUME NEW j \in Job, InStore(j), rec'[j] = Record("dropped", 0, 0)
  PROVE  LifeStep(j)
<1>1. StateOf(j) \in {"waiting", "running", "expired", "concluded"}
  BY StateFacts DEF InStore
<1>2. rec'[j].status = "dropped" /\ rec'[j].token = NoToken
  BY DEF Record
<1> QED
  BY <1>1, <1>2, NextStateFacts, Edges

(* A job its owner decides. *)
LEMMA DecidedLife ==
  ASSUME IInv, NEW w \in Worker, Owns(w), NEW j \in Job, j = claim[w].job,
         rec'[j].token = NoToken,
         \/ rec'[j].status = "pending"
         \/ rec'[j].status = "done" /\ j \in concluded'
  PROVE  LifeStep(j)
<1>1. InStore(j) /\ rec[j].token # NoToken /\ j \notin concluded
  BY OwnerFacts
<1>2. StateOf(j) \in {"waiting", "running", "expired"}
  BY <1>1, StateFacts DEF InStore
<1>3. StateOf(j)' \in {"waiting", "concluded"}
  BY NextStateFacts
<1> QED
  BY <1>1, <1>2, <1>3, Edges

(* A job new in the file, and what its append leaves of the others. *)
LEMMA AppendLife ==
  ASSUME IInv, NEW new \in Job, NEW r \in JobRecord, NEW others \in [Job -> JobRecord],
         AppendJob(new, r, others), rec[new].status = "none",
         r.status \in {"pending", "done"}, r.token = NoToken, new \notin concluded',
         \A k \in Trimmed : InStore(k),
         NEW j \in Job,
         j = new \/ j \in Trimmed \/ (others[j] = rec[j] /\ (j \in concluded <=> j \in concluded'))
  PROVE  LifeStep(j)
<1>1. CASE j = new
  <2>1. rec'[j] = r
    BY <1>1 DEF AppendJob
  <2>2. StateOf(j) = "absent" /\ StateOf(j)' \in {"waiting", "expired"}
    BY <1>1, <2>1, StateFacts, NextStateFacts
  <2> QED
    BY <2>1, <2>2, Edges
<1>2. CASE j # new /\ j \in Trimmed
  <2>1. rec'[j] = Record("dropped", 0, 0)
    BY <1>2 DEF AppendJob
  <2> QED
    BY <1>2, <2>1, DroppedLife
<1>3. CASE j # new /\ j \notin Trimmed
  <2>1. rec'[j] = rec[j]
    BY <1>3 DEF AppendJob
  <2> QED
    BY <1>3, <2>1, KeptLife
<1> QED
  BY <1>1, <1>2, <1>3

LEMMA NewJobLife ==
  ASSUME IInv, NEW new \in Job, Enqueue(new) \/ RecordOutcome(new), NEW j \in Job
  PROVE  LifeStep(j)
<1>1. PICK r \in JobRecord : /\ r.status \in {"pending", "done"} /\ r.token = NoToken
                             /\ AppendJob(new, r, rec)
  <2>1. /\ Record("pending", 0, 0) \in JobRecord /\ Record("pending", 0, 0).status = "pending"
        /\ Record("done", 0, 0) \in JobRecord /\ Record("done", 0, 0).status = "done"
        /\ Record("pending", 0, 0).token = NoToken /\ Record("done", 0, 0).token = NoToken
    BY RecordType, QueueAssumption DEF Status, Record
  <2> QED
    BY <2>1 DEF Enqueue, RecordOutcome
<1>2. rec[new].status = "none" /\ concluded' = concluded
  BY DEF Enqueue, RecordOutcome
<1>3. /\ rec \in [Job -> JobRecord]
      /\ \A k \in Job : InStore(k) => rec[k].status \in {"pending", "processing", "done"}
  BY DEF IInv, TypeOK, InStore
<1>4. new \notin concluded'
  BY <1>2 DEF IInv, ConcludedOver
<1>5. \A k \in Trimmed : InStore(k)
  BY <1>1, <1>2, <1>3, AppendKeeps DEF IInv
<1> QED
  BY <1>1, <1>2, <1>3, <1>4, <1>5, AppendLife

LEMMA ClaimLife ==
  ASSUME IInv, NEW w \in Worker, ClaimDue(w) \/ ClaimNothing(w), NEW j \in Job
  PROVE  LifeStep(j)
<1>1. rec[j] \in JobRecord /\ rec[j].status \in Status
  BY DEF IInv, TypeOK, JobRecord
<1>2. concluded' = concluded
  BY DEF ClaimDue, ClaimNothing
<1>3. ASSUME rec'[j] = Settled(j) \/ rec'[j] = Passed(j)
      PROVE  LifeStep(j)
  <2>1. rec'[j].token = rec[j].token
    BY <1>3, SettledFacts DEF IInv
  <2>2. CASE rec[j].status \in {"none", "done", "dropped"}
    BY <1>2, <1>3, <2>2, SettledFacts, KeptLife DEF IInv
  <2>3. CASE rec[j].status \in {"pending", "processing"}
    <3>1. j \notin concluded
      BY <2>3 DEF IInv, ConcludedOver
    <3>2. \/ rec'[j].status = rec[j].status
          \/ rec[j].status = "processing" /\ rec'[j].status = "pending"
          \/ rec'[j].status = "done"
      BY <1>3, <2>3, SettledFacts DEF IInv
    <3>3. CASE rec'[j].status = rec[j].status
      BY <1>2, <2>1, <3>3, KeptLife
    <3>4. CASE rec[j].status = "processing" /\ rec'[j].status = "pending"
      BY <2>1, <3>4, StateFacts, NextStateFacts, Edges
    <3>5. CASE rec'[j].status = "done"
      <4>1. StateOf(j) \in {"waiting", "running"} /\ StateOf(j)' = "expired"
        BY <1>2, <2>3, <3>1, <3>5, StateFacts, NextStateFacts
      <4> QED
        BY <2>1, <4>1, Edges
    <3> QED
      BY <3>2, <3>3, <3>4, <3>5
  <2> QED
    BY <1>1, <2>2, <2>3 DEF Status
<1>4. CASE ClaimNothing(w)
  BY <1>3, <1>4 DEF ClaimNothing
<1>5. CASE ClaimDue(w)
  <2>1. PICK i \in DOMAIN order, t \in Token \ TokensInUse :
          /\ Due(order[i])
          /\ rec' = [k \in Job |->
                       IF k = order[i] THEN Handed(k, t)
                       ELSE IF k \in Before(i) THEN Passed(k) ELSE Settled(k)]
    BY <1>5 DEF ClaimDue
  <2>2. CASE j = order[i]
    <3>1. Live(j)
      BY <2>1, <2>2, SettledFacts DEF IInv
    <3>2. StateOf(j) \in {"waiting", "running"}
      BY <3>1, StateFacts DEF Live
    <3>3. rec'[j].status = "processing" /\ rec'[j].token = t
      BY <2>1, <2>2 DEF Handed
    <3>4. t # rec[j].token
      BY DEF TokensInUse
    <3> QED
      BY <3>2, <3>3, <3>4, NextStateFacts, Edges
  <2>3. CASE j # order[i]
    BY <1>3, <2>1, <2>3
  <2> QED
    BY <2>2, <2>3
<1> QED
  BY <1>4, <1>5

LEMMA FinishLife ==
  ASSUME IInv, NEW w \in Worker, Finish(w), NEW j \in Job
  PROVE  LifeStep(j)
<1> DEFINE job == claim[w].job
<1>1. rec \in [Job -> JobRecord] /\ concluded \subseteq Job
  BY DEF IInv, TypeOK
<1>2. ASSUME Owns(w)
      PROVE  job \in Job /\ rec[job] \in JobRecord
  BY <1>1, <1>2, OwnerFacts
<1>3. ASSUME NEW e \in BOOLEAN, FinishDone(w, e)
      PROVE  LifeStep(j)
  <2>1. /\ Owns(w) /\ concluded' = concluded \cup {job}
        /\ rec' = [rec EXCEPT ![job] = Closed(@)]
    BY <1>3 DEF FinishDone
  <2>2. CASE j = job
    <3>1. rec'[j] = Closed(rec[j])
      BY <1>1, <1>2, <2>1, <2>2
    <3>2. rec'[j].status = "done" /\ rec'[j].token = NoToken /\ j \in concluded'
      BY <1>2, <2>1, <2>2, <3>1, ClosedFacts
    <3> QED
      BY <2>1, <2>2, <3>2, DecidedLife
  <2>3. CASE j # job
    BY <1>1, <2>1, <2>3, KeptLife
  <2> QED
    BY <2>2, <2>3
<1>4. CASE FinishRetry(w)
  <2>1. /\ Owns(w) /\ concluded' = concluded
        /\ rec' = [rec EXCEPT ![job].status = "pending", ![job].lease = 0, ![job].token = NoToken,
                              ![job].wait = Backoff(rec[job].attempts)]
    BY <1>4 DEF FinishRetry
  <2>2. CASE j = job
    <3>1. rec'[j].status = "pending" /\ rec'[j].token = NoToken
      BY <1>1, <1>2, <2>1, <2>2 DEF JobRecord
    <3> QED
      BY <2>1, <2>2, <3>1, DecidedLife
  <2>3. CASE j # job
    BY <1>1, <2>1, <2>3, KeptLife
  <2> QED
    BY <2>2, <2>3
<1>5. CASE FinishSplit(w)
  <2> DEFINE parentDone == [rec EXCEPT ![job] = Closed(@)]
  <2>1. /\ Owns(w) /\ concluded' = concluded \cup {job}
        /\ rec[job].status = "processing" /\ job \in Wake
    BY <1>5 DEF FinishSplit, OwnsLease
  <2>2. job \in Job /\ rec[job] \in JobRecord
    BY <1>2, <2>1
  <2> HIDE DEF job
  <2>3. /\ parentDone \in [Job -> JobRecord]
        /\ parentDone[job].status = "done" /\ parentDone[job].token = NoToken
        /\ \A k \in Job \ {job} : parentDone[k] = rec[k]
    BY <1>1, <2>2, ClosedFacts
  <2> HIDE DEF parentDone
  <2>4. ASSUME rec'[j] = parentDone[j]
        PROVE  LifeStep(j)
    <3>1. CASE j = job
      BY <2>1, <2>3, <2>4, <3>1, DecidedLife DEF job
    <3>2. CASE j # job
      BY <2>1, <2>3, <2>4, <3>2, KeptLife
    <3> QED
      BY <3>1, <3>2
  <2>5. CASE rec' = parentDone
    BY <2>4, <2>5
  <2>6. CASE /\ Child[job] # NoJob
             /\ rec[Child[job]].status = "none"
             /\ \E age \in rec[job].age..(Ttl - 1) :
                  AppendJob(Child[job], Record("pending", age, Backoff(rec[job].attempts)), parentDone)
    <3> DEFINE child == Child[job]
    <3>1. child \in Job
      BY <2>1, <2>6, QueueAssumption
    <3>2. PICK age \in rec[job].age..(Ttl - 1) :
            AppendJob(child, Record("pending", age, Backoff(rec[job].attempts)), parentDone)
      BY <2>6
    <3>3. age \in 0..(Ttl + 1)
      <4>1. rec[job].age \in 0..(Ttl + 1)
        BY <2>2 DEF JobRecord
      <4> QED
        BY <3>2, <4>1, QueueAssumption
    <3> DEFINE r == Record("pending", age, Backoff(rec[job].attempts))
    <3>4. r \in JobRecord
      BY <3>3, RecordType, BackoffType DEF Status
    <3>5. r.status \in {"pending", "done"} /\ r.token = NoToken
      BY DEF Record
    <3> HIDE DEF child, r
    <3>6. AppendJob(child, r, parentDone) /\ rec[child].status = "none"
      BY <2>6, <3>2 DEF child, r
    <3>7. \A k \in Job : InStore(k) => parentDone[k].status \in {"pending", "processing", "done"}
      BY <2>3 DEF InStore
    <3>8. \A k \in Trimmed : InStore(k)
      BY <2>3, <3>1, <3>4, <3>5, <3>6, <3>7, AppendKeeps DEF IInv
    <3>9. child # job /\ child \notin concluded'
      BY <2>1, <3>6 DEF IInv, ConcludedOver
    <3>10. CASE j # job \/ j \in Trimmed
      BY <2>1, <2>3, <3>1, <3>4, <3>5, <3>6, <3>8, <3>9, <3>10, AppendLife
    <3>11. CASE j = job /\ j \notin Trimmed
      <4>1. rec'[j] = parentDone[j]
        BY <3>6, <3>9, <3>11 DEF AppendJob
      <4> QED
        BY <2>4, <4>1
    <3> QED
      BY <3>10, <3>11
  <2> QED
    BY <1>5, <2>5, <2>6 DEF FinishSplit, job, parentDone
<1>6. CASE FinishStale(w)
  BY <1>6, KeptLife DEF FinishStale
<1> QED
  BY <1>3, <1>4, <1>5, <1>6 DEF Finish

LEMMA StepLife == IInv /\ [Next]_vars => [Lifecycle!Next]_(Lifecycle!vars)
<1> SUFFICES ASSUME IInv, [Next]_vars, NEW j \in Job PROVE LifeStep(j)
  BY DEF Lifecycle!Next, LifeStep
<1>1. ASSUME NEW new \in Job, Enqueue(new) \/ RecordOutcome(new)
      PROVE  LifeStep(j)
  BY <1>1, NewJobLife
<1>2. ASSUME NEW w \in Worker, ClaimDue(w) \/ ClaimNothing(w)
      PROVE  LifeStep(j)
  BY <1>2, ClaimLife
<1>3. ASSUME NEW w \in Worker, Finish(w)
      PROVE  LifeStep(j)
  BY <1>3, FinishLife
<1>4. rec[j] \in JobRecord /\ rec \in [Job -> JobRecord]
  BY DEF IInv, TypeOK
<1>5. ASSUME NEW w \in Worker, Renew(w) \/ RenewRefused(w) \/ Abandon(w)
      PROVE  LifeStep(j)
  <2>1. rec'[j].status = rec[j].status /\ rec'[j].token = rec[j].token
    BY <1>4, <1>5 DEF Renew, RenewRefused, Abandon, JobRecord
  <2>2. concluded' = concluded
    BY <1>5 DEF Renew, RenewRefused, Abandon
  <2> QED
    BY <2>1, <2>2, KeptLife
<1>6. CASE Tick
  <2>1. (rec'[j] = Older(rec[j]) \/ rec'[j] = rec[j]) /\ concluded' = concluded
    BY <1>6 DEF Tick
  <2> QED
    BY <1>4, <2>1, OlderFacts, KeptLife
<1>7. CASE UNCHANGED vars
  BY <1>7, KeptLife DEF vars
<1> QED
  BY <1>1, <1>2, <1>3, <1>5, <1>6, <1>7 DEF Next

(* The store implements the life of a job: whatever callers, leases, the    *)
(* clock and the trimming do, a job is decided only by the holder of its    *)
(* last token, and a concluded one never comes back.                        *)
THEOREM StoreImplementsLifecycle == Spec => ImplementsLifecycle
<1>1. Init => Lifecycle!Init
  BY DEF Init, Lifecycle!Init, StateOf, Record
<1> QED
  BY <1>1, StepLife, Inductive, PTL DEF Spec, ImplementsLifecycle, Lifecycle!Spec
=============================================================================
