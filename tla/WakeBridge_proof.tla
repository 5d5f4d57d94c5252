-------------------------- MODULE WakeBridge_proof --------------------------
(***************************************************************************)
(* Proofs about WakeBridge: for every number of events and attempts, every  *)
(* set of hints, and any number of refused writes, polls and ends of the    *)
(* process.                                                                 *)
(*                                                                         *)
(* Most steps bring some records up to date and change one of them; so the  *)
(* parts of the invariant are operators on the records, and what bringing   *)
(* them up to date preserves is said once.                                  *)
(***************************************************************************)
EXTENDS WakeBridge, TLAPS

RecT == [status : Waiting \cup {"none", "consumed", "expired"},
         token : Run \cup {None}, lapsed : BOOLEAN, old : BOOLEAN]
RunT == [key : Key \cup {None}, pc : Unfinished \cup {"done"}, counts : BOOLEAN]

RecsOK(rs) ==
  /\ rs \in [Key -> RecT]
  /\ \A k \in Key : (rs[k].status = "processing") = (rs[k].token # None)
  /\ \A k \in Key : rs[k].lapsed => rs[k].status = "processing"
  /\ \A j, k \in Key : rs[j].token = rs[k].token => j = k \/ rs[k].token = None

AttemptsOK(as) ==
  /\ as \in [Run -> RunT]
  /\ \A a \in Run : as[a].pc # "done" => as[a].key \in Key

RestOK ==
  /\ cursor \in 0..Published
  /\ tick \in [todo : SUBSET Scope, run : Run \cup {None}]
  /\ asking \subseteq Forum \cup {AnyKey}
  /\ poll \in [todo : SUBSET Forum, upto : 0..Published, ok : BOOLEAN]
  /\ left \in [DOMAIN Allowed -> Nat]
  /\ told \in [Key -> Nat]

(* An attempt counts while its claim stands, or since its record expired    *)
(* under it; then nobody else counts for the key, and it was not told.      *)
CountsOK(rs, as, ts) ==
  /\ \A a \in Run : as[a].counts =>
       /\ as[a].pc # "done"
       /\ ts[as[a].key] = 0
       /\ \/ rs[as[a].key].status = "expired"
          \/ rs[as[a].key].token = a /\ ~rs[as[a].key].lapsed
  /\ \A a, b \in Run : as[a].counts /\ as[b].counts /\ as[a].key = as[b].key => a = b
  /\ \A k \in Key : ts[k] # 0 => ts[k] = 1 /\ rs[k].status \in {"consumed", "expired"}

(* What a poll that missed nothing has gone past is in the file. *)
PollOK == poll.ok => \A k \in 1..poll.upto : Known(k) \/ k \in poll.todo

IInv ==
  /\ RecsOK(rec) /\ AttemptsOK(attempt) /\ RestOK
  /\ CountsOK(rec, attempt, told)
  /\ PollOK /\ NothingSkipped

-----------------------------------------------------------------------------
(* Records *)

(* No key is zero, and each belongs to one scope. *)
LEMMA Keys ==
  /\ None \notin Key /\ None \notin Run /\ Forum \subseteq Key /\ Hint \subseteq Key
  /\ \A s \in Scope : KeysOf(s) \subseteq Key
  BY WakeBridgeAssumption, SMT DEF None, Key, Forum, Run, Scope, KeysOf

(* A record that is not processing. *)
LEMMA Plain ==
  ASSUME NEW p \in {"none", "pending", "consumed", "expired"}
  PROVE  /\ Record(p) \in RecT /\ Record(p).status = p /\ Record(p).token = None
         /\ Record(p).lapsed = FALSE
  BY DEF Record, RecT, Waiting

(* What bringing a record up to date makes of it. *)
LEMMA CurrentFacts ==
  ASSUME RecsOK(rec), NEW k \in Key
  PROVE  /\ Current(k) \in RecT
         /\ \/ Current(k) = rec[k]
            \/ /\ Current(k).token = None /\ Current(k).lapsed = FALSE
               /\ \/ Current(k).status = "expired" /\ rec[k].status \in Waiting
                  \/ Current(k).status = "pending" /\ rec[k].lapsed
  BY Plain DEF RecsOK, RecT, Current, Recovered, Record, Waiting

(* A record whose life has ended. *)
LEMMA OldFacts ==
  ASSUME NEW r \in RecT, NEW s, s = [r EXCEPT !.old = TRUE]
  PROVE  s \in RecT /\ s.status = r.status /\ s.token = r.token /\ (s.lapsed => r.lapsed)
  BY DEF RecT

(* A record without a token may stand in for any. *)
LEMMA PutPlain ==
  ASSUME NEW rs, RecsOK(rs), NEW k \in Key, NEW r \in RecT,
         r.token = None, r.lapsed = FALSE, r.status # "processing"
  PROVE  RecsOK([rs EXCEPT ![k] = r])
  BY Keys DEF RecsOK

(* Some records brought up to date. *)
LEMMA UpToDate ==
  ASSUME RecsOK(rec), NEW rs, rs = [k \in Key |-> rs[k]],
         \A k \in Key : rs[k] = rec[k] \/ rs[k] = Current(k)
  PROVE  /\ RecsOK(rs)
         /\ \A k \in Key : Known(k) => rs[k].status # "none"
<1>1. \A k \in Key : rs[k] \in RecT
  BY CurrentFacts DEF RecsOK
<1>2. \A k \in Key : \/ rs[k] = rec[k]
                     \/ /\ rs[k].token = None /\ rs[k].lapsed = FALSE
                        /\ rs[k].status \in {"expired", "pending"}
  BY CurrentFacts
<1> QED BY <1>1, <1>2, Keys DEF RecsOK, Known

(* A record with a new token. *)
LEMMA PutClaim ==
  ASSUME NEW rs, RecsOK(rs), NEW k \in Key, NEW a \in Run,
         \A j \in Key : rs[j].token # a
  PROVE  RecsOK([rs EXCEPT ![k] = [Record("processing") EXCEPT !.token = a]])
<1> DEFINE r == [Record("processing") EXCEPT !.token = a]
<1>1. r \in RecT /\ r.status = "processing" /\ r.token = a /\ r.lapsed = FALSE
  BY DEF Record, RecT, Waiting
<1> HIDE DEF r
<1>2. RecsOK([rs EXCEPT ![k] = r])
  BY <1>1, Keys DEF RecsOK
<1> QED BY <1>2 DEF r

-----------------------------------------------------------------------------
(* Counting attempts *)

(* Bringing records up to date disturbs no attempt that counts. *)
LEMMA CountsUpToDate ==
  ASSUME RecsOK(rec), AttemptsOK(attempt), CountsOK(rec, attempt, told), NEW rs,
         \A k \in Key : rs[k] = rec[k] \/ rs[k] = Current(k)
  PROVE  CountsOK(rs, attempt, told)
<1>1. ASSUME NEW k \in Key, rs[k] # rec[k]
      PROVE  /\ rs[k].status \in {"expired", "pending"}
             /\ rec[k].status \in Waiting
             /\ rs[k].status = "pending" => rec[k].lapsed
  <2>1. rs[k] = Current(k) /\ Current(k) # rec[k]
    BY <1>1
  <2>2. \/ Current(k).status = "expired" /\ rec[k].status \in Waiting
        \/ Current(k).status = "pending" /\ rec[k].lapsed
    BY <2>1, CurrentFacts
  <2>3. rec[k].lapsed => rec[k].status = "processing"
    BY DEF RecsOK
  <2> QED BY <2>1, <2>2, <2>3 DEF Waiting
<1>2. ASSUME NEW a \in Run, attempt[a].counts, NEW k, k = attempt[a].key
      PROVE  rs[k].status = "expired" \/ (rs[k].token = a /\ ~rs[k].lapsed)
  <2>1. k \in Key /\ (rec[k].status = "expired" \/ (rec[k].token = a /\ ~rec[k].lapsed))
    BY <1>2 DEF CountsOK, AttemptsOK
  <2>2. CASE rs[k] = rec[k]
    BY <2>1, <2>2
  <2>3. CASE rs[k] # rec[k]
    BY <1>1, <2>1, <2>3 DEF Waiting
  <2> QED BY <2>2, <2>3
<1>3. \A k \in Key : told[k] # 0 => rs[k].status \in {"consumed", "expired"}
  BY <1>1 DEF CountsOK, Waiting
<1> QED BY <1>2, <1>3 DEF CountsOK

(* Nobody counts for a record that may be claimed, and it was not told. *)
LEMMA NobodyCounts ==
  ASSUME RecsOK(rec), AttemptsOK(attempt), CountsOK(rec, attempt, told),
         NEW k \in Key, Claimable(k)
  PROVE  told[k] = 0 /\ \A a \in Run : attempt[a].counts => attempt[a].key # k
<1>1. rec[k].status = "pending" \/ rec[k].lapsed
  BY CurrentFacts DEF Claimable
<1>2. rec[k].status \in Waiting
  BY <1>1 DEF RecsOK, Waiting
<1> QED BY <1>1, <1>2, Keys DEF CountsOK, AttemptsOK, RecsOK, RecT, Waiting

(* A record that does not count, changed to one nobody counts for. *)
LEMMA CountsPut ==
  ASSUME NEW rs, rs \in [Key -> RecT], NEW as, AttemptsOK(as), NEW ts, CountsOK(rs, as, ts),
         NEW k \in Key, NEW r, ts[k] = 0,
         \A a \in Run : as[a].counts => as[a].key # k
  PROVE  CountsOK([rs EXCEPT ![k] = r], as, ts)
  BY DEF CountsOK, AttemptsOK

(* A key that no attempt counts for is told. *)
LEMMA CountsTold ==
  ASSUME NEW rs, NEW as, AttemptsOK(as), NEW ts, ts \in [Key -> Nat], CountsOK(rs, as, ts),
         NEW k \in Key, rs[k].status \in {"consumed", "expired"},
         \A a \in Run : as[a].counts => as[a].key # k
  PROVE  CountsOK(rs, as, [ts EXCEPT ![k] = 1])
  BY DEF CountsOK, AttemptsOK

(* The end of an attempt takes no count from another. *)
LEMMA CountsDone ==
  ASSUME NEW rs, NEW as, AttemptsOK(as), NEW ts, CountsOK(rs, as, ts), NEW a \in Run
  PROVE  /\ AttemptsOK([as EXCEPT ![a] = NoAttempt])
         /\ CountsOK(rs, [as EXCEPT ![a] = NoAttempt], ts)
         /\ as[a].counts => \A b \in Run \ {a} : as[b].counts => as[b].key # as[a].key
<1>1. NoAttempt \in RunT /\ NoAttempt.counts = FALSE /\ NoAttempt.pc = "done"
  BY DEF NoAttempt, RunT
<1> QED BY <1>1 DEF CountsOK, AttemptsOK

(* A claim: the record, brought up to date with its scope, gets the number  *)
(* of the attempt, which counts.                                            *)
LEMMA ClaimFacts ==
  ASSUME RecsOK(rec), AttemptsOK(attempt), CountsOK(rec, attempt, told),
         NEW s \in Scope, NEW p, NEW a \in Run, Claim(s, p, a)
  PROVE  /\ RecsOK(rec') /\ AttemptsOK(attempt') /\ CountsOK(rec', attempt', told)
         /\ \A k \in Key : Known(k) => rec'[k].status # "none"
         /\ UNCHANGED left
<1> DEFINE rs == AllCurrent(s)
           put(k) == [rs EXCEPT ![k] = [Record("processing") EXCEPT !.token = a]]
           run(k) == [key |-> k, pc |-> "running", counts |-> TRUE]
<1>1. PICK k \in Key :
        /\ Claimable(k) /\ rec' = put(k)
        /\ attempt' = [attempt EXCEPT ![a] = run(k)]
        /\ UNCHANGED left
  BY Keys DEF Claim, Saved
<1>2. rs = [j \in Key |-> rs[j]] /\ \A j \in Key : rs[j] = rec[j] \/ rs[j] = Current(j)
  BY DEF AllCurrent
<1>3. RecsOK(rs) /\ CountsOK(rs, attempt, told) /\ \A j \in Key : Known(j) => rs[j].status # "none"
  <2> HIDE DEF rs
  <2> QED BY <1>2, UpToDate, CountsUpToDate
<1>4. told[k] = 0 /\ \A b \in Run : attempt[b].counts => attempt[b].key # k
  BY <1>1, NobodyCounts
<1>5. \A j \in Key : rec[j].token # a
  BY <1>1 DEF Claim, Unused
<1>6. \A j \in Key : rs[j].token # a
  <2> HIDE DEF rs
  <2> QED BY <1>2, <1>5, CurrentFacts, Keys
<1> HIDE DEF rs
<1>7. RecsOK(rec')
  BY <1>1, <1>3, <1>6, PutClaim
<1>8. CountsOK(rec', attempt, told)
  BY <1>1, <1>3, <1>4, CountsPut DEF RecsOK
<1>9. run(k) \in RunT /\ run(k).key = k /\ run(k).pc = "running" /\ run(k).counts = TRUE
  BY DEF RunT, Unfinished
<1>10. rec'[k].token = a /\ ~rec'[k].lapsed /\ rec'[k].status = "processing"
  BY <1>1, <1>3 DEF RecsOK, Record
<1>11. \A j \in Key : Known(j) => rec'[j].status # "none"
  BY <1>1, <1>3, <1>10 DEF RecsOK
<1> HIDE DEF run
<1>12. AttemptsOK(attempt')
  BY <1>1, <1>9 DEF AttemptsOK
<1>13. CountsOK(rec', attempt', told)
  BY <1>1, <1>4, <1>8, <1>9, <1>10, Keys DEF CountsOK, AttemptsOK
<1> QED BY <1>1, <1>7, <1>11, <1>12, <1>13

-----------------------------------------------------------------------------
(* Steps *)

(* What a step does to the records, the attempts and the tellings. *)
Kept ==
  /\ RecsOK(rec') /\ AttemptsOK(attempt') /\ CountsOK(rec', attempt', told')
  /\ \A k \in Key : Known(k) => Known(k)'

(* A step that brings records up to date, or none. *)
LEMMA KeptUpToDate ==
  ASSUME RecsOK(rec), AttemptsOK(attempt), CountsOK(rec, attempt, told),
         UNCHANGED <<attempt, told>>, rec' = [k \in Key |-> rec'[k]],
         \A k \in Key : rec'[k] = rec[k] \/ rec'[k] = Current(k)
  PROVE  Kept
<1>1. RecsOK(rec') /\ \A k \in Key : Known(k) => rec'[k].status # "none"
  BY UpToDate
<1>2. CountsOK(rec', attempt, told)
  BY CountsUpToDate
<1> QED BY <1>1, <1>2 DEF Kept, Known

(* The file of a scope brought up to date, or left. *)
LEMMA AllCurrentFacts ==
  ASSUME RecsOK(rec), NEW s
  PROVE  /\ AllCurrent(s) = [k \in Key |-> AllCurrent(s)[k]]
         /\ rec = [k \in Key |-> rec[k]]
         /\ \A k \in Key : AllCurrent(s)[k] = rec[k] \/ AllCurrent(s)[k] = Current(k)
  BY DEF AllCurrent, RecsOK

(* A new record, of a key that was not in the file. *)
LEMMA KeptReceive ==
  ASSUME RecsOK(rec), AttemptsOK(attempt), CountsOK(rec, attempt, told),
         NEW k \in Key, Receive(k), UNCHANGED <<attempt, told>>
  PROVE  Kept
<1> DEFINE r == Record("pending")
<1>1. r \in RecT /\ r.token = None /\ r.lapsed = FALSE /\ r.status = "pending"
  BY Plain
<1>2. rec' = [rec EXCEPT ![k] = r] /\ rec[k].status = "none"
  BY DEF Receive, Saved, Known
<1> HIDE DEF r
<1>3. told[k] = 0 /\ \A a \in Run : attempt[a].counts => attempt[a].key # k
  BY <1>2, Keys DEF CountsOK, AttemptsOK, RecsOK
<1>4. RecsOK(rec')
  BY <1>1, <1>2, PutPlain
<1>5. CountsOK(rec', attempt, told)
  BY <1>2, <1>3, CountsPut DEF RecsOK
<1>6. \A j \in Key : Known(j) => Known(j)'
  BY <1>1, <1>2 DEF Known, RecsOK
<1> QED BY <1>4, <1>5, <1>6 DEF Kept

(* A new cycle of a hint: who told the one before does not count. *)
LEMMA KeptFresh ==
  ASSUME RecsOK(rec), AttemptsOK(attempt), CountsOK(rec, attempt, told), told \in [Key -> Nat],
         NEW h \in Key, HintFresh(h)
  PROVE  Kept
<1> DEFINE rs == AllCurrent("garden")
           r == Record("pending")
<1>1. r \in RecT /\ r.token = None /\ r.lapsed = FALSE /\ r.status = "pending"
  BY Plain
<1>2. /\ rec' = [rs EXCEPT ![h] = r]
      /\ attempt' = [a \in Run |-> [attempt[a] EXCEPT !.counts = @ /\ attempt[a].key # h]]
      /\ told' = [told EXCEPT ![h] = 0]
  BY DEF HintFresh, Saved
<1>3. rs = [k \in Key |-> rs[k]] /\ \A k \in Key : rs[k] = rec[k] \/ rs[k] = Current(k)
  BY AllCurrentFacts
<1> HIDE DEF rs, r
<1>4. /\ RecsOK(rs) /\ CountsOK(rs, attempt, told)
      /\ \A k \in Key : Known(k) => rs[k].status # "none"
  BY <1>3, UpToDate, CountsUpToDate
<1>5. RecsOK(rec')
  BY <1>1, <1>2, <1>4, PutPlain
<1>6. \A a \in Run : /\ attempt'[a] \in RunT
                     /\ attempt'[a].key = attempt[a].key /\ attempt'[a].pc = attempt[a].pc
                     /\ attempt'[a].counts => attempt[a].counts /\ attempt[a].key # h
  BY <1>2 DEF AttemptsOK, RunT
<1>7. AttemptsOK(attempt')
  BY <1>2, <1>6 DEF AttemptsOK
<1>8. \A k \in Key \ {h} : rec'[k] = rs[k] /\ told'[k] = told[k]
  BY <1>2, <1>4 DEF RecsOK
<1>9. told'[h] = 0
  BY <1>2
<1>10. CountsOK(rec', attempt', told')
  BY <1>4, <1>6, <1>8, <1>9 DEF CountsOK, AttemptsOK
<1>11. \A k \in Key : Known(k) => Known(k)'
  BY <1>1, <1>2, <1>4 DEF Known, RecsOK
<1> QED BY <1>5, <1>7, <1>10, <1>11 DEF Kept

(* The end of an attempt, with what it stores and tells. *)
LEMMA KeptSettle ==
  ASSUME RecsOK(rec), AttemptsOK(attempt), CountsOK(rec, attempt, told), told \in [Key -> Nat],
         NEW a \in Run, Settle(a)
  PROVE  Kept
<1> DEFINE k == attempt[a].key
           as == [attempt EXCEPT ![a] = NoAttempt]
<1>1. k \in Key /\ attempt' = as
  BY DEF Settle, AttemptsOK
<1>2. AttemptsOK(as) /\ CountsOK(rec, as, told)
  BY CountsDone
<1>3. ASSUME ToldInTime(a) = 1
      PROVE  /\ attempt[a].pc = "sent" /\ told[k] = 0
             /\ \A b \in Run : as[b].counts => as[b].key # k
             /\ ~Holds(a) => rec[k].status = "expired"
  <2>1. attempt[a].counts /\ attempt[a].pc = "sent"
    BY <1>3 DEF ToldInTime
  <2>2. \A b \in Run \ {a} : attempt[b].counts => attempt[b].key # k
    BY <2>1, CountsDone
  <2>3. \A b \in Run : as[b].counts => b # a /\ attempt[b].counts /\ as[b].key = attempt[b].key
    BY DEF NoAttempt, AttemptsOK
  <2>4. told[k] = 0 /\ (rec[k].status = "expired" \/ rec[k].token = a)
    BY <2>1 DEF CountsOK
  <2>5. rec[k].token = a => rec[k].status = "processing"
    BY <1>1, Keys DEF RecsOK
  <2> QED BY <2>1, <2>2, <2>3, <2>4, <2>5 DEF Holds
<1>4. ToldInTime(a) \in {0, 1}
  BY DEF ToldInTime
<1>5. CASE ~Holds(a) /\ UNCHANGED rec /\ told' = [told EXCEPT ![k] = @ + ToldInTime(a)]
  <2>1. CASE ToldInTime(a) = 0
    <3>1. told' = told
      BY <1>5, <2>1
    <3> QED BY <1>1, <1>2, <1>5, <3>1 DEF Kept, Known
  <2>2. CASE ToldInTime(a) = 1
    <3>1. told' = [told EXCEPT ![k] = 1] /\ rec[k].status = "expired"
      <4>1. told[k] = 0 /\ rec[k].status = "expired"
        BY <1>3, <1>5, <2>2
      <4> QED BY <1>5, <2>2, <4>1
    <3>2. \A b \in Run : as[b].counts => as[b].key # k
      BY <1>3, <2>2
    <3> HIDE DEF k, as
    <3>3. CountsOK(rec, as, told')
      BY <1>1, <1>2, <3>1, <3>2, CountsTold
    <3> QED BY <1>1, <1>2, <1>5, <3>3 DEF Kept, Known
  <2> QED BY <1>4, <2>1, <2>2
<1>6. CASE /\ Holds(a) /\ rec' = [rec EXCEPT ![k] = Verdict(a)]
           /\ told' = [told EXCEPT ![k] = @ + ToldInTime(a)]
  <2> DEFINE v == Verdict(a)
  <2>1. rec[k] \in RecT /\ rec[k].status = "processing" /\ rec[k].token = a
    BY <1>1, <1>6 DEF Holds, RecsOK
  <2>2. v \in RecT /\ v.token = None /\ v.lapsed = FALSE /\ v.status \in {"pending", "consumed"}
    BY <2>1, Plain DEF Verdict, RecT, Record
  <2>3. attempt[a].pc = "sent" => v.status = "consumed"
    BY Plain DEF Verdict
  <2>4. told[k] = 0
    BY <1>1, <2>1 DEF CountsOK
  <2>5. \A b \in Run : as[b].counts => as[b].key # k
    <3>1. \A b \in Run : as[b].counts => b # a
      BY DEF NoAttempt, AttemptsOK
    <3>2. \A b \in Run : as[b].counts /\ as[b].key = k => rec[k].token = b
      BY <1>2, <2>1 DEF CountsOK
    <3> QED BY <2>1, <3>1, <3>2
  <2> HIDE DEF k, as, v
  <2>6. RecsOK(rec')
    BY <1>1, <1>6, <2>2, PutPlain DEF v
  <2>7. CountsOK(rec', as, told)
    BY <1>1, <1>2, <1>6, <2>4, <2>5, CountsPut DEF RecsOK, v
  <2>8. rec'[k] = v
    BY <1>1, <1>6 DEF RecsOK, v
  <2>9. CountsOK(rec', as, told')
    <3>1. CASE ToldInTime(a) = 0
      <4>1. told' = told
        BY <1>1, <1>6, <3>1
      <4> QED BY <2>7, <4>1
    <3>2. CASE ToldInTime(a) = 1
      <4>1. told' = [told EXCEPT ![k] = 1] /\ rec'[k].status = "consumed"
        BY <1>3, <1>6, <2>3, <2>4, <2>8, <3>2
      <4>2. CountsOK(rec', as, [told EXCEPT ![k] = 1])
        BY <1>1, <1>2, <2>5, <2>7, <4>1, CountsTold
      <4> QED BY <4>1, <4>2
    <3> QED BY <1>4, <3>1, <3>2
  <2>10. \A j \in Key : Known(j) => Known(j)'
    BY <1>1, <1>6, <2>2, <2>8 DEF Known, RecsOK, v
  <2> QED BY <1>1, <1>2, <2>6, <2>9, <2>10 DEF Kept
<1>7. CASE UNCHANGED <<rec, told>>
  BY <1>1, <1>2, <1>7 DEF Kept, Known
<1> QED BY <1>5, <1>6, <1>7 DEF Settle, Saved, Refused

(* A lease that ends takes its attempt from those that count. *)
LEMMA KeptLease ==
  ASSUME RecsOK(rec), AttemptsOK(attempt), CountsOK(rec, attempt, told),
         NEW k \in Key, LeaseEnds(k)
  PROVE  Kept
<1> DEFINE a == rec[k].token
<1>1. /\ rec' = [rec EXCEPT ![k].lapsed = TRUE]
      /\ attempt' = [attempt EXCEPT ![a].counts = FALSE]
      /\ told' = told /\ rec[k].status = "processing"
  BY DEF LeaseEnds
<1>2. a \in Run
  BY <1>1 DEF RecsOK, RecT
<1>3. /\ \A j \in Key : /\ rec'[j] \in RecT
                        /\ rec'[j].status = rec[j].status /\ rec'[j].token = rec[j].token
      /\ \A j \in Key \ {k} : rec'[j] = rec[j]
  BY <1>1 DEF RecsOK, RecT
<1>4. RecsOK(rec')
  <2>1. rec' \in [Key -> RecT]
    BY <1>1, <1>3 DEF RecsOK
  <2>2. \A j \in Key : rec'[j].lapsed => rec[j].status = "processing"
    BY <1>1, <1>3 DEF RecsOK
  <2> QED BY <1>3, <2>1, <2>2 DEF RecsOK
<1>5. \A b \in Run : /\ attempt'[b] \in RunT
                     /\ attempt'[b].key = attempt[b].key /\ attempt'[b].pc = attempt[b].pc
                     /\ attempt'[b].counts => attempt[b].counts /\ b # a
  BY <1>1, <1>2 DEF AttemptsOK, RunT
<1>6. AttemptsOK(attempt')
  BY <1>1, <1>5 DEF AttemptsOK
<1>7. \A b \in Run : attempt'[b].counts => attempt[b].key # k
  BY <1>1, <1>5 DEF CountsOK
<1> HIDE DEF a
<1>8. CountsOK(rec', attempt', told')
  BY <1>1, <1>3, <1>5, <1>7 DEF CountsOK, AttemptsOK
<1> QED BY <1>3, <1>4, <1>6, <1>8 DEF Kept, Known

(* Every step keeps the records, the attempts and the tellings in order. *)
LEMMA KeptStep ==
  ASSUME IInv, [Next]_vars
  PROVE  Kept
<1>1. /\ RecsOK(rec) /\ AttemptsOK(attempt) /\ CountsOK(rec, attempt, told)
      /\ told \in [Key -> Nat] /\ rec = [k \in Key |-> rec[k]]
  BY DEF IInv, RestOK, RecsOK
<1>2. ASSUME UNCHANGED <<rec, attempt, told>>
      PROVE  Kept
  BY <1>1, <1>2 DEF Kept, Known
<1>3. ASSUME NEW s, ClaimsNothing(s), UNCHANGED told
      PROVE  Kept
  <2>1. rec' = rec \/ rec' = AllCurrent(s)
    BY <1>3 DEF ClaimsNothing
  <2>2. rec' = [k \in Key |-> rec'[k]] /\ \A k \in Key : rec'[k] = rec[k] \/ rec'[k] = Current(k)
    BY <1>1, <2>1, AllCurrentFacts
  <2> QED BY <1>1, <1>3, <2>2, KeptUpToDate DEF ClaimsNothing
<1>4. ASSUME NEW s \in Scope, NEW p, NEW a \in Run, Claim(s, p, a), UNCHANGED told
      PROVE  Kept
  BY <1>1, <1>4, ClaimFacts DEF Kept, Known
<1>5. ASSUME NEW k \in Forum, Submit(k)
      PROVE  Kept
  BY <1>1, <1>5, KeptReceive, Keys DEF Submit, Receive, Saved
<1>6. ASSUME NEW h \in Hint, HintArrives(h)
      PROVE  Kept
  <2>1. CASE HintAbsorbed(h)
    <3>1. rec' = AllCurrent("garden") /\ UNCHANGED <<attempt, told>>
      BY <2>1 DEF HintAbsorbed, Saved
    <3>2. /\ rec' = [k \in Key |-> rec'[k]]
          /\ \A k \in Key : rec'[k] = rec[k] \/ rec'[k] = Current(k)
      BY <1>1, <3>1, AllCurrentFacts
    <3> QED BY <1>1, <3>1, <3>2, KeptUpToDate
  <2>2. CASE HintFresh(h)
    BY <1>1, <2>2, KeptFresh, Keys
  <2> QED BY <1>6, <2>1, <2>2 DEF HintArrives
<1>7. ASSUME PollReceives
      PROVE  Kept
  <2>1. CASE UNCHANGED rec
    BY <1>2, <1>7, <2>1 DEF PollReceives
  <2>2. CASE Receive(NextPolled)
    <3>1. CASE NextPolled \in Key
      BY <1>1, <1>7, <2>2, <3>1, KeptReceive DEF PollReceives
    <3>2. CASE NextPolled \notin Key
      <4>1. rec' = rec
        BY <1>1, <2>2, <3>2 DEF Receive, Saved, RecsOK
      <4> QED BY <1>2, <1>7, <4>1 DEF PollReceives
    <3> QED BY <3>1, <3>2
  <2> QED BY <1>7, <2>1, <2>2 DEF PollReceives, Refused
<1>8. ASSUME NEW p, Drain(p)
      PROVE  Kept
  BY <1>3, <1>4, <1>8 DEF Drain, Scope
<1>9. ASSUME TickBegins
      PROVE  Kept
  <2>1. PICK spared :
          rec' = [k \in Key |-> IF ScopeOf(k) \in spared THEN rec[k] ELSE Prepared(k)]
    BY <1>9 DEF TickBegins
  <2>2. rec' = [k \in Key |-> rec'[k]] /\ \A k \in Key : rec'[k] = rec[k] \/ rec'[k] = Current(k)
    BY <2>1 DEF Prepared
  <2>3. UNCHANGED <<attempt, told>>
    BY <1>9 DEF TickBegins
  <2> QED BY <1>1, <2>2, <2>3, KeptUpToDate
<1>10. ASSUME NEW s \in Scope, TickDrains(s)
      PROVE  Kept
  BY <1>3, <1>4, <1>10 DEF TickDrains
<1>11. ASSUME NEW a \in Run, Execute(a)
      PROVE  Kept
  <2>1. PICK to \in {"sent", "retry", "final"} : attempt' = [attempt EXCEPT ![a].pc = to]
    BY <1>11 DEF Execute
  <2>2. UNCHANGED <<rec, told>> /\ attempt[a].key \in Key
    BY <1>1, <1>11 DEF Execute, AttemptsOK
  <2>3. \A b \in Run : /\ attempt'[b] \in RunT
                       /\ attempt'[b].key = attempt[b].key /\ attempt'[b].counts = attempt[b].counts
                       /\ attempt'[b].pc = attempt[b].pc \/ (b = a /\ attempt'[b].pc = to)
    BY <1>1, <2>1 DEF AttemptsOK, RunT, Unfinished
  <2>4. AttemptsOK(attempt')
    BY <1>1, <2>1, <2>2, <2>3 DEF AttemptsOK
  <2>5. CountsOK(rec, attempt', told)
    BY <1>1, <2>3 DEF CountsOK
  <2> QED BY <1>1, <2>2, <2>4, <2>5 DEF Kept, Known
<1>12. ASSUME NEW a \in Run, Settle(a)
      PROVE  Kept
  BY <1>1, <1>12, KeptSettle
<1>13. ASSUME NEW k \in Key, LeaseEnds(k)
      PROVE  Kept
  BY <1>1, <1>13, KeptLease
<1>14. ASSUME NEW k \in Key, LifeEnds(k)
      PROVE  Kept
  <2>1. rec' = [rec EXCEPT ![k].old = TRUE] /\ UNCHANGED <<attempt, told>>
    BY <1>14 DEF LifeEnds
  <2>2. \A j \in Key : /\ rec'[j] \in RecT
                       /\ rec'[j].status = rec[j].status /\ rec'[j].token = rec[j].token
                       /\ rec'[j].lapsed => rec[j].lapsed
    <3>1. rec'[k] = [rec[k] EXCEPT !.old = TRUE] /\ \A j \in Key \ {k} : rec'[j] = rec[j]
      BY <1>1, <2>1 DEF RecsOK
    <3> QED BY <1>1, <3>1, OldFacts DEF RecsOK
  <2>3. RecsOK(rec')
    <3>1. rec' \in [Key -> RecT]
      BY <1>1, <2>1, <2>2 DEF RecsOK
    <3>2. \A j \in Key : rec'[j].lapsed => rec[j].status = "processing"
      BY <1>1, <2>2 DEF RecsOK
    <3> QED BY <1>1, <2>2, <3>1, <3>2 DEF RecsOK
  <2>4. CountsOK(rec', attempt, told)
    BY <1>1, <2>2, Keys DEF CountsOK, AttemptsOK
  <2> QED BY <1>1, <2>1, <2>2, <2>3, <2>4 DEF Kept, Known
<1>15. ASSUME Crash
      PROVE  Kept
  <2>1. /\ attempt' = [a \in Run |-> NoAttempt] /\ UNCHANGED <<rec, told>>
        /\ NoAttempt \in RunT /\ NoAttempt.counts = FALSE /\ NoAttempt.pc = "done"
    BY <1>15 DEF Crash, NoAttempt, RunT
  <2>2. AttemptsOK(attempt') /\ CountsOK(rec, attempt', told)
    BY <1>1, <2>1 DEF AttemptsOK, CountsOK
  <2> QED BY <1>1, <2>1, <2>2 DEF Kept, Known
<1> QED
  BY <1>2, <1>5, <1>6, <1>7, <1>8, <1>9, <1>10, <1>11, <1>12, <1>13, <1>14, <1>15
     DEF Next, TickStep, vars, PollBegins, PollCommits

(* The other variables keep their types. *)
LEMMA SpendTyped ==
  ASSUME left \in [DOMAIN Allowed -> Nat], NEW w, Spend(w)
  PROVE  left' \in [DOMAIN Allowed -> Nat]
<1>1. CASE w \in DOMAIN Allowed
  BY <1>1, SMT DEF Spend
<1>2. CASE w \notin DOMAIN Allowed
  BY <1>2 DEF Spend
<1> QED BY <1>1, <1>2

(* What the bounds leave is never negative. *)
LEMMA LeftStep ==
  ASSUME left \in [DOMAIN Allowed -> Nat], [Next]_vars
  PROVE  left' \in [DOMAIN Allowed -> Nat]
<1>1. ASSUME NEW s, NEW p, NEW a, Claim(s, p, a)
      PROVE  left' \in [DOMAIN Allowed -> Nat]
  BY <1>1 DEF Claim, Saved
<1>2. ASSUME NEW s, ClaimsNothing(s)
      PROVE  left' \in [DOMAIN Allowed -> Nat]
  BY <1>2 DEF ClaimsNothing
<1>3. ASSUME NEW k, Receive(k)
      PROVE  left' \in [DOMAIN Allowed -> Nat]
  BY <1>3 DEF Receive, Saved
<1>4. ASSUME NEW h, HintArrives(h)
      PROVE  left' \in [DOMAIN Allowed -> Nat]
  BY <1>4 DEF HintArrives, HintAbsorbed, HintFresh, Saved
<1>5. ASSUME PollBegins \/ PollReceives \/ PollCommits \/ TickBegins \/ Crash
      PROVE  left' \in [DOMAIN Allowed -> Nat]
  BY <1>3, <1>5, SpendTyped DEF PollBegins, PollReceives, PollCommits, Refused, TickBegins, Crash
<1>6. ASSUME NEW a, Settle(a)
      PROVE  left' \in [DOMAIN Allowed -> Nat]
  BY <1>6, SpendTyped DEF Settle, Saved, Refused
<1> QED
  BY <1>1, <1>2, <1>3, <1>4, <1>5, <1>6
     DEF Next, vars, Submit, Drain, TickStep, TickDrains, Execute, LeaseEnds, LifeEnds

(* The tick, the polls, the cursor and the histories keep their types. *)
LEMMA RestStep ==
  ASSUME RestOK, [Next]_vars
  PROVE  RestOK'
<1> USE Keys
<1>1. left' \in [DOMAIN Allowed -> Nat]
  BY LeftStep DEF RestOK
<1>2. asking' \subseteq Forum \cup {AnyKey}
  BY DEF RestOK, Next, vars, Submit, HintArrives, PollBegins, PollReceives, PollCommits, Drain,
         TickStep, TickBegins, TickDrains, Execute, Settle, LeaseEnds, LifeEnds, Crash
<1>3. tick' \in [todo : SUBSET Scope, run : Run \cup {None}]
  <2>1. ASSUME TickBegins
        PROVE  tick' \in [todo : SUBSET Scope, run : Run \cup {None}]
    BY <2>1 DEF TickBegins
  <2>2. ASSUME NEW s \in Scope, TickDrains(s)
        PROVE  tick' \in [todo : SUBSET Scope, run : Run \cup {None}]
    BY <2>2 DEF RestOK, TickDrains
  <2>3. ASSUME NEW a \in Run, Settle(a)
        PROVE  tick' \in [todo : SUBSET Scope, run : Run \cup {None}]
    BY <2>3 DEF RestOK, Settle
  <2>4. ASSUME Crash
        PROVE  tick' \in [todo : SUBSET Scope, run : Run \cup {None}]
    BY <2>4 DEF Crash, NoTick
  <2> QED
    BY <2>1, <2>2, <2>3, <2>4
       DEF RestOK, Next, vars, Submit, HintArrives, PollBegins, PollReceives, PollCommits, Drain,
           TickStep, Execute, LeaseEnds, LifeEnds
<1>4. poll' \in [todo : SUBSET Forum, upto : 0..Published, ok : BOOLEAN] /\ cursor' \in 0..Published
  <2>1. ASSUME PollBegins
        PROVE  poll' \in [todo : SUBSET Forum, upto : 0..Published, ok : BOOLEAN] /\ cursor' = cursor
    <3>1. PICK n \in cursor + 1..Published : poll' = [todo |-> cursor + 1..n, upto |-> n, ok |-> TRUE]
      BY <2>1 DEF PollBegins
    <3>2. n \in 0..Published /\ cursor + 1..n \subseteq Forum
      BY WakeBridgeAssumption, SMT DEF RestOK, Forum
    <3> QED BY <2>1, <3>1, <3>2 DEF PollBegins
  <2>2. ASSUME PollReceives
        PROVE  poll' \in [todo : SUBSET Forum, upto : 0..Published, ok : BOOLEAN] /\ cursor' = cursor
    BY <2>2 DEF RestOK, PollReceives, Missed
  <2>3. ASSUME PollCommits \/ Crash
        PROVE  poll' \in [todo : SUBSET Forum, upto : 0..Published, ok : BOOLEAN]
               /\ cursor' \in {cursor, poll.upto}
    <3>1. NoPoll \in [todo : SUBSET Forum, upto : 0..Published, ok : BOOLEAN]
      BY WakeBridgeAssumption, SMT DEF NoPoll
    <3> QED BY <2>3, <3>1 DEF PollCommits, Crash
  <2> QED
    BY <2>1, <2>2, <2>3
       DEF RestOK, Next, vars, Submit, HintArrives, Drain, TickStep, TickBegins, TickDrains,
           Execute, Settle, LeaseEnds, LifeEnds
<1>5. told' \in [Key -> Nat]
  <2>1. ASSUME NEW h, HintArrives(h)
        PROVE  told' \in [Key -> Nat]
    BY <2>1 DEF RestOK, HintArrives, HintAbsorbed, HintFresh
  <2>2. ASSUME NEW a, Settle(a)
        PROVE  told' \in [Key -> Nat]
    <3>1. ToldInTime(a) \in Nat
      BY DEF ToldInTime
    <3>2. \A k \in Key : told[k] \in Nat /\ told[k] + ToldInTime(a) \in Nat
      BY <3>1 DEF RestOK
    <3>3. \/ told' = told
          \/ told' = [told EXCEPT ![attempt[a].key] = told[attempt[a].key] + ToldInTime(a)]
      BY <2>2 DEF Settle
    <3> QED BY <3>2, <3>3 DEF RestOK
  <2> QED
    BY <2>1, <2>2
       DEF RestOK, Next, vars, Submit, PollBegins, PollReceives, PollCommits, Drain, TickStep,
           TickBegins, TickDrains, Execute, LeaseEnds, LifeEnds, Crash
<1> QED BY <1>1, <1>2, <1>3, <1>4, <1>5 DEF RestOK

(* The poll and the cursor pass only what is in the file. *)
LEMMA PollStep ==
  ASSUME IInv, [Next]_vars
  PROVE  PollOK' /\ NothingSkipped'
<1>1. /\ RestOK /\ PollOK /\ NothingSkipped
      /\ \A k \in Key : Known(k) => Known(k)'
  BY KeptStep DEF IInv, Kept
<1>2. cursor \in 0..Published /\ poll.upto \in 0..Published /\ poll.todo \subseteq Forum
  BY <1>1 DEF RestOK
<1>3. 1..cursor \subseteq Key /\ 1..poll.upto \subseteq Key
  BY <1>2, WakeBridgeAssumption, SMT DEF Key, Forum
<1>4. (\A k \in 1..cursor : Known(k)') /\ (poll.ok => \A k \in 1..poll.upto : Known(k)' \/ k \in poll.todo)
  BY <1>1, <1>3 DEF PollOK, NothingSkipped
<1>5. ASSUME UNCHANGED <<cursor, poll>>
      PROVE  PollOK' /\ NothingSkipped'
  BY <1>4, <1>5 DEF PollOK, NothingSkipped
<1>6. ASSUME PollBegins
      PROVE  PollOK' /\ NothingSkipped'
  <2>1. PICK n \in cursor + 1..Published : poll' = [todo |-> cursor + 1..n, upto |-> n, ok |-> TRUE]
    BY <1>6 DEF PollBegins
  <2>2. \A k \in 1..n : k \in 1..cursor \/ k \in cursor + 1..n
    BY <1>2, WakeBridgeAssumption, SMT
  <2>3. cursor' = cursor
    BY <1>6 DEF PollBegins
  <2> QED BY <1>4, <2>1, <2>2, <2>3 DEF PollOK, NothingSkipped
<1>7. ASSUME PollReceives
      PROVE  PollOK' /\ NothingSkipped'
  <2>0. PICK n : n = NextPolled
    OBVIOUS
  <2>1. /\ cursor' = cursor /\ poll'.upto = poll.upto /\ poll'.todo = poll.todo \ {n}
        /\ poll'.ok => poll.ok
    BY <1>1, <1>7, <2>0 DEF RestOK, PollReceives, Missed
  <2>2. ASSUME poll'.ok, n \in Key
        PROVE  Known(n)'
    <3>1. Known(n) \/ Receive(n)
      BY <1>1, <1>7, <2>0, <2>2 DEF RestOK, PollReceives, Missed
    <3>2. Receive(n) => rec' = [rec EXCEPT ![n] = Record("pending")] /\ rec = [k \in Key |-> rec[k]]
      BY DEF Receive, Saved, IInv, RecsOK
    <3>3. Receive(n) => rec'[n] = Record("pending")
      BY <2>2, <3>2
    <3> QED BY <1>1, <2>2, <3>1, <3>3, Plain DEF Known
  <2> QED BY <1>2, <1>3, <1>4, <2>1, <2>2 DEF PollOK, NothingSkipped
<1>8. ASSUME PollCommits
      PROVE  PollOK' /\ NothingSkipped'
  <2>1. poll' = NoPoll /\ poll.todo = {} /\ (cursor' = cursor \/ (poll.ok /\ cursor' = poll.upto))
    BY <1>8 DEF PollCommits
  <2> QED BY <1>4, <2>1 DEF PollOK, NothingSkipped, NoPoll
<1>9. ASSUME Crash
      PROVE  PollOK' /\ NothingSkipped'
  BY <1>4, <1>9 DEF Crash, PollOK, NothingSkipped, NoPoll
<1> QED
  BY <1>5, <1>6, <1>7, <1>8, <1>9
     DEF Next, vars, Submit, HintArrives, Drain, TickStep, TickBegins, TickDrains,
         Execute, Settle, LeaseEnds, LifeEnds

-----------------------------------------------------------------------------
(* The theorems *)

(* The invariant holds at the start. *)
LEMMA InitIInv ==
  Init => IInv
<1> SUFFICES ASSUME Init PROVE IInv
  OBVIOUS
<1> USE Keys, Plain DEF Init
<1>1. RecsOK(rec)
  BY DEF RecsOK
<1>2. AttemptsOK(attempt) /\ CountsOK(rec, attempt, told)
  BY DEF AttemptsOK, CountsOK, NoAttempt, RunT
<1>3. RestOK
  BY WakeBridgeAssumption, SMT DEF RestOK, NoTick, NoPoll
<1>4. PollOK /\ NothingSkipped
  BY SMT DEF PollOK, NothingSkipped, NoPoll
<1> QED BY <1>1, <1>2, <1>3, <1>4 DEF IInv

(* It holds throughout. *)
LEMMA Invariance ==
  Spec => []IInv
<1>1. IInv /\ [Next]_vars => IInv'
  BY KeptStep, RestStep, PollStep DEF IInv, Kept
<1> QED BY InitIInv, <1>1, PTL DEF Spec

(* A record is processing while it has a token, which no other record has,  *)
(* and everything keeps its type (_claim(), _settle(), _recover_and_expire).*)
THEOREM TypeCorrect == Spec => []TypeOK
<1>1. IInv => TypeOK
  BY DEF IInv, RecsOK, AttemptsOK, RestOK, RecT, RunT, TypeOK
<1> QED BY <1>1, Invariance, PTL

(* An event, or a cycle of a hint, is told once and its verdict stored, for *)
(* each claim that kept its lease (_settle(), drain_due()).                 *)
THEOREM ToldOnce == Spec => []ToldOnceUnlessLost
<1>1. IInv => ToldOnceUnlessLost
  BY DEF IInv, CountsOK, ToldOnceUnlessLost
<1> QED BY <1>1, Invariance, PTL

(* The cursor of a source stands at an event only when that event and all   *)
(* before it are in the inbox (poll_source(), _record_poll_success()).      *)
THEOREM CursorSkipsNothing == Spec => []NothingSkipped
<1>1. IInv => NothingSkipped
  BY DEF IInv
<1> QED BY <1>1, Invariance, PTL
=============================================================================
