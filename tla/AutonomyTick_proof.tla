-------------------------- MODULE AutonomyTick_proof --------------------------
(***************************************************************************)
(* Proofs about AutonomyTick: for every set of signals, any number of jobs, *)
(* any unanswered cap, and any number of messages, cut ticks and crashes.   *)
(*                                                                         *)
(* The invariant is a conjunction of four parts, each about its own         *)
(* variables: the job in the tick's hand, the talk of each job, the count   *)
(* of unanswered talks, and the place of each queued signal.  There is one  *)
(* lemma per part, and one for the types.  A fifth part, which rests on     *)
(* them, counts how often each queued signal was spoken of.                 *)
(***************************************************************************)
EXTENDS AutonomyTick, FiniteSetTheorems, TLAPS

Holding == {"claimed", "llm", "confirm", "gate", "fanout", "record", "finish"}
Talking == {"gate", "fanout", "record"}

(* The tick works on a job that is being processed, and on no signals then. *)
InHand ==
  /\ pc \in Holding => cur \in Job /\ status[cur] = "processing"
  /\ pc # "drained" => batch = {}

(* A talk is on its way or told only if its delivery was claimed, and on    *)
(* its way only if it was not told.                                         *)
Talks ==
  /\ \A j \in Job : told[j] <= 1
  /\ \A j \in Job : told[j] > 0 => j \in delivered
  /\ pc \in Talking => cur \in delivered
  /\ pc \in {"gate", "fanout"} => told[cur] = 0

(* What was heard is counted, but for the talk about to be and those cut.   *)
Counts ==
  /\ pc \in Talking => unanswered < Cap
  /\ heard <= unanswered + cutTalks + (IF pc = "record" THEN 1 ELSE 0)

(* A queued signal is in one place at most, and a barred one in none. *)
Places ==
  /\ barred \cup pending \cup (batch \cap Queued) \subseteq produced
  /\ pending \cap batch = {}
  /\ \A j \in Job : Live(j) =>
       /\ sigs[j] \cap Queued \subseteq produced
       /\ sigs[j] \cap (pending \cup (batch \cap Queued)) = {}
  /\ \A j, k \in Job : Live(j) /\ Live(k) /\ j # k => sigs[j] \cap sigs[k] \cap Queued = {}
  /\ WakeNotReplayed

IInv == TypeOK /\ InHand /\ Talks /\ Counts /\ Places

typedVars == <<pending, status, sigs, wait, delivered, unanswered, pc, batch, cur,
               talkable, result, gate, dream, produced, barred, told, heard, cutTalks,
               messages, cuts>>

LEMMA Bounds ==
  /\ Job \subseteq Nat /\ NoJob \notin Job
  /\ Cap \in Nat \ {0} /\ MaxMessages \in Nat /\ MaxCuts \in Nat
  /\ Wake \subseteq Queued /\ Queued \cap Sensed = {}
  BY TickAssumption DEF Job, NoJob

(* What the lock's queue becomes. *)
LEMMA Queues ==
  /\ {<<>>, <<"owner">>} \subseteq Seq({"owner", "autonomy"})
  /\ \A g \in Seq({"owner", "autonomy"}) : g # <<>> => Tail(g) \in Seq({"owner", "autonomy"})
  /\ \A g \in Seq({"owner", "autonomy"}) : Append(g, "owner") \in Seq({"owner", "autonomy"})
<1>1. <<>> \in Seq({"owner", "autonomy"}) /\ <<"owner">> \in Seq({"owner", "autonomy"})
  OBVIOUS
<1>2. ASSUME NEW S, NEW g \in Seq(S), g # <<>> PROVE Tail(g) \in Seq(S)
  BY <1>2
<1>3. ASSUME NEW S, NEW g \in Seq(S), NEW x \in S PROVE Append(g, x) \in Seq(S)
  OBVIOUS
<1> QED BY <1>1, <1>2, <1>3

LEMMA InitHolds == Init => IInv
<1> SUFFICES ASSUME Init PROVE IInv
  OBVIOUS
<1>1. gate \in Seq({"owner", "autonomy"}) /\ unanswered \in 0..Cap
  BY Bounds, Queues DEF Init
<1>2. TypeOK
  <2>1. /\ status \in [Job -> {"none", "pending", "processing", "done"}]
        /\ sigs \in [Job -> SUBSET Signal] /\ wait \in [Job -> BOOLEAN] /\ told \in [Job -> Nat]
    BY DEF Init
  <2>2. /\ pending \subseteq Queued /\ delivered \subseteq Job /\ batch \subseteq Signal
        /\ produced \subseteq Queued /\ barred \subseteq Wake
        /\ {heard, cutTalks, messages, cuts} \subseteq Nat
    BY DEF Init
  <2>3. /\ pc \in Sync \cup Await /\ cur \in Job \cup {NoJob} /\ result \in Outcome
        /\ talkable \in BOOLEAN /\ dream \in BOOLEAN
    BY DEF Init, Sync, Await, Outcome
  <2> QED BY <1>1, <2>1, <2>2, <2>3 DEF TypeOK
<1>3. InHand /\ Talks /\ Counts
  BY Bounds DEF Init, InHand, Talks, Counts, Holding, Talking
<1>4. Places
  BY DEF Init, Places, WakeNotReplayed, Live
<1> QED BY <1>2, <1>3, <1>4 DEF IInv

-----------------------------------------------------------------------------
(* The steps of the tick that begin, that only move it, and that end it. *)
Moves ==
  \/ AdmissionDream \/ AdmissionRefused \/ EnterModel \/ EndsSilently \/ SoftBlocked
  \/ SendBlockedByDream \/ SendRefusedUncounted \/ SendRefused \/ CaptureFails \/ Capture
  \/ FanoutNobody

LEMMA MovesFacts ==
  ASSUME IInv, Moves
  PROVE  /\ UNCHANGED <<pending, status, sigs, wait, delivered, unanswered, batch, cur, dream,
                        produced, barred, told, heard, cutTalks, messages, cuts>>
         /\ pc \in Holding /\ pc # "record"
         /\ pc' \in {"llm", "confirm", "finish"} \/ (pc = "gate" /\ pc' = "fanout")
         /\ talkable' \in BOOLEAN /\ result' \in Outcome
         /\ gate' = gate \/ (gate # <<>> /\ gate' = Tail(gate))
<1>1. CASE AdmissionDream
  BY <1>1 DEF AdmissionDream, Ends, storeVars, histVars, Holding, Outcome, IInv, TypeOK
<1>2. CASE AdmissionRefused
  BY <1>2 DEF AdmissionRefused, Ends, storeVars, histVars, Holding, Outcome, IInv, TypeOK
<1>3. CASE EnterModel
  BY <1>3 DEF EnterModel, storeVars, histVars, Holding, Outcome, IInv, TypeOK
<1>4. CASE EndsSilently
  BY <1>4 DEF EndsSilently, Ends, storeVars, histVars, Holding, Outcome, IInv, TypeOK
<1>5. CASE SoftBlocked
  BY <1>5 DEF SoftBlocked, storeVars, histVars, Holding, Outcome, IInv, TypeOK
<1>6. CASE SendBlockedByDream
  BY <1>6 DEF SendBlockedByDream, WantsTalk, Ends, storeVars, histVars, Holding, Outcome, IInv, TypeOK
<1>7. CASE SendRefusedUncounted
  BY <1>7 DEF SendRefusedUncounted, WantsTalk, Ends, storeVars, histVars, Holding, Outcome, IInv, TypeOK
<1>8. CASE SendRefused
  BY <1>8 DEF SendRefused, WantsTalk, Ends, storeVars, histVars, Holding, Outcome, IInv, TypeOK
<1>9. CASE CaptureFails
  BY <1>9 DEF CaptureFails, HoldsGate, storeVars, histVars, Holding, Outcome, IInv, TypeOK
<1>10. CASE Capture
  BY <1>10 DEF Capture, HoldsGate, storeVars, histVars, Holding, Outcome, IInv, TypeOK
<1>11. CASE FanoutNobody
  BY <1>11 DEF FanoutNobody, Ends, storeVars, histVars, Holding, Outcome, IInv, TypeOK
<1> QED BY <1>1, <1>2, <1>3, <1>4, <1>5, <1>6, <1>7, <1>8, <1>9, <1>10, <1>11 DEF Moves

LEMMA MovesStep ==
  ASSUME IInv, Moves
  PROVE  IInv'
<1>1. TypeOK'
  <2>1. gate' \in Seq({"owner", "autonomy"})
    BY MovesFacts, Queues, Zenon DEF IInv, TypeOK
  <2>2. pc' \in Sync \cup Await
    BY MovesFacts DEF Sync, Await
  <2> QED BY <2>1, <2>2, MovesFacts DEF IInv, TypeOK
<1>2. InHand' /\ Talks' /\ Counts'
  BY MovesFacts DEF IInv, InHand, Talks, Counts, Holding, Talking
<1>3. Places'
  BY MovesFacts DEF IInv, Places, WakeNotReplayed, Live
<1> QED BY <1>1, <1>2, <1>3 DEF IInv

(* What surrounds the tick. *)
LEMMA SurroundingsStep ==
  ASSUME IInv, Surroundings
  PROVE  IInv'
<1>1. ASSUME NEW s \in Queued, Produce(s) PROVE IInv'
  <2>1. TypeOK'
    BY <1>1 DEF Produce, tickVars, IInv, TypeOK
  <2>2. InHand' /\ Talks' /\ Counts'
    BY <1>1 DEF Produce, tickVars, IInv, InHand, Talks, Counts
  <2>3. Places'
    BY <1>1 DEF Produce, tickVars, IInv, Places, WakeNotReplayed, Live, TypeOK
  <2> QED BY <2>1, <2>2, <2>3 DEF IInv
<1>2. CASE OwnerMessage
  <2>1. TypeOK'
    <3>1. /\ UNCHANGED <<storeVars, tickVars, dream, produced, barred, told, cutTalks, cuts>>
          /\ unanswered' = 0 /\ heard' = 0 /\ messages' = messages + 1
          /\ gate' = Append(gate, "owner")
      BY <1>2 DEF OwnerMessage
    <3>2. gate' \in Seq({"owner", "autonomy"})
      BY <3>1, Queues, Zenon DEF IInv, TypeOK
    <3>3. unanswered' \in 0..Cap /\ {heard', cutTalks', messages', cuts'} \subseteq Nat
      BY <3>1, Bounds DEF IInv, TypeOK
    <3> QED BY <3>1, <3>2, <3>3 DEF storeVars, tickVars, IInv, TypeOK
  <2>2. InHand' /\ Talks' /\ Counts'
    BY <1>2, Bounds DEF OwnerMessage, storeVars, tickVars, IInv, InHand, Talks, Counts, TypeOK
  <2>3. Places'
    BY <1>2 DEF OwnerMessage, storeVars, tickVars, IInv, Places, WakeNotReplayed, Live
  <2> QED BY <2>1, <2>2, <2>3 DEF IInv
<1>3. CASE OwnerTurnEnds \/ DreamTurns
  <2>1. /\ UNCHANGED <<storeVars, unanswered, tickVars, histVars>>
        /\ dream' \in BOOLEAN
        /\ gate' = gate \/ (gate # <<>> /\ gate' = Tail(gate))
    BY <1>3 DEF OwnerTurnEnds, DreamTurns, HoldsGate, IInv, TypeOK
  <2>2. TypeOK'
    <3>1. gate' \in Seq({"owner", "autonomy"})
      BY <2>1, Queues, Zenon DEF IInv, TypeOK
    <3> QED BY <2>1, <3>1 DEF storeVars, tickVars, histVars, IInv, TypeOK
  <2>3. InHand' /\ Talks' /\ Counts'
    BY <2>1 DEF storeVars, tickVars, histVars, IInv, InHand, Talks, Counts
  <2>4. Places'
    BY <2>1 DEF storeVars, tickVars, histVars, IInv, Places, WakeNotReplayed, Live
  <2> QED BY <2>2, <2>3, <2>4 DEF IInv
<1> QED BY <1>1, <1>2, <1>3 DEF Surroundings

-----------------------------------------------------------------------------
(* From the signals to the claimed job. *)
LEMMA DrainStep ==
  ASSUME IInv, TickDisabled \/ Drain
  PROVE  IInv'
<1>1. CASE TickDisabled
  <2>1. TypeOK'
    BY <1>1 DEF TickDisabled, tickVars, histVars, IInv, TypeOK
  <2>2. InHand' /\ Talks' /\ Counts'
    BY <1>1 DEF TickDisabled, tickVars, histVars, IInv, InHand, Talks, Counts
  <2>3. Places'
    BY <1>1 DEF TickDisabled, tickVars, histVars, IInv, Places, WakeNotReplayed, Live
  <2> QED BY <2>1, <2>2, <2>3 DEF IInv
<1>2. CASE Drain
  <2>1. PICK dropped \in SUBSET pending, sensed \in SUBSET Sensed :
          batch' = (pending \ dropped) \cup sensed
    BY <1>2 DEF Drain
  <2>2. TypeOK'
    BY <1>2, <2>1 DEF Drain, histVars, IInv, TypeOK, Sync, Signal
  <2>3. InHand' /\ Talks' /\ Counts'
    BY <1>2 DEF Drain, histVars, IInv, InHand, Talks, Counts, Holding, Talking
  <2>4. Places'
    BY <1>2, <2>1, Bounds DEF Drain, histVars, IInv, Places, WakeNotReplayed, Live, TypeOK
  <2> QED BY <2>2, <2>3, <2>4 DEF IInv
<1> QED BY <1>1, <1>2

LEMMA EnqueueStep ==
  ASSUME IInv, Enqueue
  PROVE  IInv'
<1>1. /\ pc = "drained" /\ pc' = "queued" /\ batch' = {}
      /\ UNCHANGED <<pending, wait, delivered, unanswered, cur, talkable, result, gate,
                     dream, produced, barred, told, heard, cutTalks, messages, cuts>>
  BY DEF Enqueue, histVars
<1>2. \/ UNCHANGED <<status, sigs>>
      \/ \E next \in Job :
           /\ status[next] = "none"
           /\ status' = [status EXCEPT ![next] = "pending"]
           /\ sigs' = [sigs EXCEPT ![next] = batch]
  BY DEF Enqueue, NextJob, Unused
<1>3. TypeOK'
  BY <1>1, <1>2 DEF IInv, TypeOK, Sync
<1>4. InHand' /\ Talks' /\ Counts'
  BY <1>1 DEF IInv, InHand, Talks, Counts, Holding, Talking
<1>5. Places'
  <2>1. CASE UNCHANGED <<status, sigs>>
    BY <1>1, <2>1 DEF IInv, Places, WakeNotReplayed, Live
  <2>2. ASSUME NEW next \in Job, status[next] = "none",
               status' = [status EXCEPT ![next] = "pending"],
               sigs' = [sigs EXCEPT ![next] = batch]
        PROVE  Places'
    <3>1. \A j \in Job : Live(j)' => \/ j = next /\ sigs'[j] = batch
                                     \/ j # next /\ Live(j) /\ sigs'[j] = sigs[j]
      BY <2>2 DEF IInv, TypeOK, Live
    <3> QED BY <1>1, <3>1 DEF IInv, Places, WakeNotReplayed
  <2> QED BY <1>2, <2>1, <2>2
<1> QED BY <1>3, <1>4, <1>5 DEF IInv

LEMMA ClaimFacts ==
  ASSUME IInv, Claim
  PROVE  /\ pc = "queued"
         /\ UNCHANGED <<pending, sigs, delivered, unanswered, batch, talkable, result, gate,
                        dream, produced, barred, told, heard, cutTalks, messages, cuts>>
         /\ status' \in [Job -> {"none", "pending", "processing", "done"}]
         /\ wait' \in [Job -> BOOLEAN]
         /\ \/ pc' = "idle" /\ cur' = NoJob
            \/ pc' = "claimed" /\ cur' \in Job /\ status'[cur'] = "processing"
         /\ \A j \in Job : (Live(j)' => Live(j)) /\ (status'[j] = "none" => status[j] = "none")
<1>0. /\ pc = "queued"
      /\ UNCHANGED <<pending, sigs, delivered, unanswered, batch, talkable, result, gate,
                     dream, produced, barred, told, heard, cutTalks, messages, cuts>>
  BY DEF Claim, histVars
<1>1. PICK lapsed \in SUBSET {j \in Job : status[j] = "processing"},
           elapsed \in SUBSET {j \in Job : wait[j]}, late \in SUBSET {j \in Job : Live(j)} :
        LET Waiting(j) == status[j] = "pending" \/ (status[j] = "processing" /\ j \in lapsed)
            Due(j)     == Waiting(j) /\ (wait[j] => j \in elapsed)
            Ready      == {j \in Job : Due(j) /\ j \notin late}
            Before(j)  == \A k \in Ready : j <= k
            closed     == {j \in Job : Due(j) /\ j \in late /\ Before(j)}
        IN  /\ status' = [j \in Job |->
                 CASE j \in closed -> "done"
                   [] j \in Ready /\ Before(j) -> "processing"
                   [] OTHER -> IF Waiting(j) THEN "pending" ELSE status[j]]
            /\ wait' = [j \in Job |-> wait[j] /\ j \notin elapsed]
            /\ \/ Ready = {} /\ cur' = NoJob /\ pc' = "idle"
               \/ /\ cur' \in {j \in Ready : Before(j)}
                  /\ pc' = "claimed"
  BY DEF Claim
<1> DEFINE Waiting(j) == status[j] = "pending" \/ (status[j] = "processing" /\ j \in lapsed)
           Due(j)     == Waiting(j) /\ (wait[j] => j \in elapsed)
           Ready      == {j \in Job : Due(j) /\ j \notin late}
           Before(j)  == \A k \in Ready : j <= k
           closed     == {j \in Job : Due(j) /\ j \in late /\ Before(j)}
<1>2. status' = [j \in Job |->
         CASE j \in closed -> "done"
           [] j \in Ready /\ Before(j) -> "processing"
           [] OTHER -> IF Waiting(j) THEN "pending" ELSE status[j]]
  BY <1>1
<1>3. \A j \in Ready : j \in Job /\ Waiting(j) /\ j \notin closed
  OBVIOUS
<1>4. \A j \in closed : Waiting(j)
  OBVIOUS
<1>5. \A j \in Job : Waiting(j) => Live(j)
  BY DEF Live
<1>6. \/ Ready = {} /\ cur' = NoJob /\ pc' = "idle"
      \/ cur' \in Ready /\ Before(cur') /\ pc' = "claimed"
  BY <1>1
<1>7. wait' \in [Job -> BOOLEAN]
  BY <1>1
<1>8. \A j \in Job : /\ status'[j] \in {"none", "pending", "processing", "done"}
                     /\ status'[j] \in {"pending", "processing"} => Waiting(j) \/ status'[j] = status[j]
                     /\ j \in Ready /\ Before(j) => status'[j] = "processing"
                     /\ status'[j] = "none" => status[j] = "none"
  <2> HIDE DEF Waiting, Ready, Before, closed
  <2> SUFFICES ASSUME NEW j \in Job
               PROVE  /\ status'[j] \in {"none", "pending", "processing", "done"}
                      /\ status'[j] \in {"pending", "processing"} => Waiting(j) \/ status'[j] = status[j]
                      /\ j \in Ready /\ Before(j) => status'[j] = "processing"
                      /\ status'[j] = "none" => status[j] = "none"
    OBVIOUS
  <2>1. status[j] \in {"none", "pending", "processing", "done"}
    BY DEF IInv, TypeOK
  <2> QED BY <1>2, <1>3, <2>1
<1>9. status' \in [Job -> {"none", "pending", "processing", "done"}]
  <2> HIDE DEF Waiting, Ready, Before, closed
  <2> QED BY <1>2, <1>8
<1> HIDE DEF Waiting, Ready, Before, closed
<1> QED BY <1>0, <1>3, <1>5, <1>6, <1>7, <1>8, <1>9 DEF Live

LEMMA ClaimStep ==
  ASSUME IInv, Claim
  PROVE  IInv'
<1>3. TypeOK'
  BY ClaimFacts DEF IInv, TypeOK, Sync, Await
<1>4. InHand' /\ Talks' /\ Counts'
  BY ClaimFacts DEF IInv, InHand, Talks, Counts, Holding, Talking
<1>5. Places'
  BY ClaimFacts DEF IInv, Places, WakeNotReplayed
<1> QED BY <1>3, <1>4, <1>5 DEF IInv

-----------------------------------------------------------------------------
(* The talk: the claim of its delivery, the fanout, the ledger. *)
LEMMA TalkStep ==
  ASSUME IInv, Send \/ Fanout \/ RecordSend
  PROVE  IInv'
<1>1. CASE Send
  <2>1. TypeOK'
    BY <1>1 DEF Send, WantsTalk, histVars, IInv, TypeOK, Await, InHand, Holding
  <2>2. InHand' /\ Talks' /\ Counts'
    BY <1>1 DEF Send, WantsTalk, Open, histVars, IInv, InHand, Talks, Counts, Holding, Talking, TypeOK
  <2>3. Places'
    BY <1>1 DEF Send, histVars, IInv, Places, WakeNotReplayed, Live
  <2> QED BY <2>1, <2>2, <2>3 DEF IInv
<1>2. CASE Fanout
  <2>1. TypeOK'
    BY <1>2 DEF Fanout, storeVars, IInv, TypeOK, Await, InHand, Holding
  <2>2. InHand' /\ Talks' /\ Counts'
    BY <1>2 DEF Fanout, storeVars, IInv, InHand, Talks, Counts, Holding, Talking, TypeOK
  <2>3. Places'
    BY <1>2 DEF Fanout, storeVars, IInv, Places, WakeNotReplayed, Live
  <2> QED BY <2>1, <2>2, <2>3 DEF IInv
<1>3. CASE RecordSend
  <2>1. TypeOK'
    <3>1. unanswered' \in 0..Cap
      BY <1>3, Bounds DEF RecordSend, IInv, TypeOK, Counts, Talking
    <3>2. pc' \in Sync \cup Await /\ result' \in Outcome
      BY <1>3 DEF RecordSend, Sync, Outcome
    <3> QED BY <1>3, <3>1, <3>2 DEF RecordSend, storeVars, histVars, IInv, TypeOK
  <2>2. InHand' /\ Talks' /\ Counts'
    BY <1>3 DEF RecordSend, storeVars, histVars, IInv, InHand, Talks, Counts, Holding, Talking, TypeOK
  <2>3. Places'
    BY <1>3 DEF RecordSend, storeVars, histVars, IInv, Places, WakeNotReplayed, Live
  <2> QED BY <2>1, <2>2, <2>3 DEF IInv
<1> QED BY <1>1, <1>2, <1>3

(* The end of the tick. *)
LEMMA FinishStep ==
  ASSUME IInv, FinishDone \/ FinishRetry \/ FinishSplit
  PROVE  IInv'
<1>1. pc = "finish" /\ TickOver
  BY DEF FinishDone, FinishRetry, FinishSplit
<1>2. cur \in Job /\ status[cur] = "processing"
  BY <1>1 DEF IInv, InHand, Holding
<1>3. InHand' /\ Talks' /\ Counts'
  BY <1>1 DEF TickOver, IInv, InHand, Talks, Counts, Holding, Talking
<1>4. CASE FinishDone
  <2>1. TypeOK'
    BY <1>1, <1>2, <1>4 DEF FinishDone, TickOver, IInv, TypeOK, Await, Outcome
  <2>2. Places'
    BY <1>1, <1>2, <1>4 DEF FinishDone, TickOver, IInv, TypeOK, Places, WakeNotReplayed, Live
  <2> QED BY <1>3, <2>1, <2>2 DEF IInv
<1>5. CASE FinishRetry
  <2>1. TypeOK'
    BY <1>1, <1>2, <1>5 DEF FinishRetry, TickOver, IInv, TypeOK, Await, Outcome
  <2>2. Places'
    BY <1>1, <1>2, <1>5 DEF FinishRetry, TickOver, IInv, TypeOK, Places, WakeNotReplayed, Live
  <2> QED BY <1>3, <2>1, <2>2 DEF IInv
<1>6. CASE FinishSplit
  <2>1. barred' = barred \cup (sigs[cur] \cap Wake)
    BY <1>6 DEF FinishSplit
  <2>2. PICK rest \in SUBSET (sigs[cur] \ Wake) :
          \/ /\ status' = [status EXCEPT ![cur] = "done"]
             /\ UNCHANGED <<sigs, wait>>
          \/ \E next \in Job :
               /\ status[next] = "none"
               /\ status' = [status EXCEPT ![cur] = "done", ![next] = "pending"]
               /\ sigs' = [sigs EXCEPT ![next] = rest]
               /\ wait' = [wait EXCEPT ![next] = TRUE]
    BY <1>6 DEF FinishSplit, NextJob, Unused
  <2>3. TypeOK'
    BY <1>1, <1>2, <2>1, <2>2, Bounds DEF TickOver, IInv, TypeOK, Await, Outcome
  <2>4. \A j \in Job : Live(j)' => \/ Live(j) /\ j # cur /\ sigs'[j] = sigs[j]
                                   \/ ~Live(j) /\ sigs'[j] = rest
    BY <1>2, <2>2 DEF IInv, TypeOK, Live
  <2>5. \A j, k \in Job : Live(j)' /\ Live(k)' /\ ~Live(j) /\ ~Live(k) => j = k
    BY <1>2, <2>2 DEF IInv, TypeOK, Live
  <2>6. Live(cur)
    BY <1>2 DEF Live
  <2>7. pending' = pending /\ batch' = batch /\ produced' = produced
    BY <1>1 DEF TickOver
  <2>8. Places'
    BY <1>2, <2>1, <2>4, <2>5, <2>6, <2>7, Bounds DEF IInv, Places, WakeNotReplayed
  <2> QED BY <1>3, <2>3, <2>8 DEF IInv
<1> QED BY <1>4, <1>5, <1>6

-----------------------------------------------------------------------------
(* A tick that is cut off, by its timeout or by the end of the process. *)
LEMMA CutStep ==
  ASSUME IInv, Cancel \/ Crash
  PROVE  IInv'
<1>1. CutOff /\ gate' \in {gate, <<"owner">>, <<>>} /\ UNCHANGED dream
  BY DEF Cancel, Crash
<1>2. TypeOK'
  <2>1. gate' \in Seq({"owner", "autonomy"})
    BY <1>1, Queues DEF IInv, TypeOK
  <2>2. cuts' \in Nat /\ cutTalks' \in Nat
    BY <1>1 DEF CutOff, IInv, TypeOK
  <2> QED BY <1>1, <2>1, <2>2 DEF CutOff, storeVars, IInv, TypeOK, Await, Outcome
<1>3. InHand' /\ Talks' /\ Counts'
  BY <1>1 DEF CutOff, storeVars, IInv, InHand, Talks, Counts, Holding, Talking, TypeOK
<1>4. Places'
  BY <1>1 DEF CutOff, storeVars, IInv, Places, WakeNotReplayed, Live
<1> QED BY <1>2, <1>3, <1>4 DEF IInv

LEMMA StepKeeps == IInv /\ [Next]_vars => IInv'
<1> SUFFICES ASSUME IInv, [Next]_vars PROVE IInv'
  OBVIOUS
<1>1. CASE UNCHANGED vars
  <2>1. UNCHANGED typedVars
    BY <1>1 DEF vars, storeVars, tickVars, histVars, typedVars
  <2> QED BY <2>1 DEF typedVars, IInv, TypeOK, InHand, Talks, Counts, Places, WakeNotReplayed, Live
<1>2. CASE Surroundings
  BY <1>2, SurroundingsStep
<1>3. CASE TickStep
  BY <1>3, DrainStep, EnqueueStep, ClaimStep, MovesStep, TalkStep, FinishStep DEF TickStep, Moves
<1>4. CASE Cancel \/ Crash
  BY <1>4, CutStep
<1> QED BY <1>1, <1>2, <1>3, <1>4 DEF Next

THEOREM IInvHolds == Spec => []IInv
  BY InitHolds, StepKeeps, PTL DEF Spec

-----------------------------------------------------------------------------
(* Every variable keeps its type: in particular the ledger never counts     *)
(* more than the cap, and no index of a job is outside those created.       *)
THEOREM TypeCorrect == Spec => []TypeOK
<1>1. IInv => TypeOK
  BY DEF IInv
<1> QED BY <1>1, IInvHolds, PTL

(* One opportunity is spoken of at most once, through every cut tick, every *)
(* lapsed lease and every further claim of its job: talk_gate.send() claims *)
(* the delivery on disk before it waits for the lock.                       *)
THEOREM OneTalk == Spec => []AtMostOneTalk
<1>1. IInv => AtMostOneTalk
  BY DEF IInv, Talks, AtMostOneTalk
<1> QED BY <1>1, IInvHolds, PTL

(* Whatever interleaves with the wait for the conversation lock, the owner  *)
(* hears at most Cap talks unanswered, but for those whose tick was cut off *)
(* before the ledger was told.                                              *)
THEOREM CapKept == Spec => []UnansweredCap
<1>1. IInv => UnansweredCap
  BY Bounds DEF IInv, Counts, Talking, TypeOK, UnansweredCap
<1> QED BY <1>1, IInvHolds, PTL

(* A desktop reopen that a dream blocked is in no place from which it could *)
(* be evaluated again, whatever it was merged with.                         *)
THEOREM BarredForGood == Spec => []WakeNotReplayed
<1>1. IInv => WakeNotReplayed
  BY DEF IInv, Places
<1> QED BY <1>1, IInvHolds, PTL
-----------------------------------------------------------------------------
(* How often a queued signal was spoken of.  A job that told ends done, and *)
(* its signals with it, unless its tick was cut off: so for each time but   *)
(* the last there is a tick that was cut off after a talk.                  *)

Tellers(s) == {j \in Job : told[j] > 0 /\ s \in sigs[j]}

(* It may be spoken of yet: it waits, or is in a job that is not over. *)
Alive(s) == s \in pending \cup batch \/ \E j \in Job : Live(j) /\ s \in sigs[j]

(* The talk about it went out, and its job is about to be done. *)
Ending(s) ==
  /\ pc \in {"record", "finish"} /\ s \in sigs[cur]
  /\ pc = "record" \/ (result # "dream" /\ told[cur] > 0)

Bound(s) == cutTalks + (IF Alive(s) /\ ~Ending(s) THEN 0 ELSE 1)

ToldJobs ==
  /\ \A j \in Job : status[j] = "none" => told[j] = 0
  /\ \A j \in Job : sigs[j] \cap Queued \subseteq produced
  /\ pc = "record" => told[cur] > 0

Tally == ToldJobs /\ \A s \in Queued : Cardinality(Tellers(s)) <= Bound(s)

LEMMA TellersFinite ==
  ASSUME NEW S \in SUBSET Job
  PROVE  IsFiniteSet(S) /\ Cardinality(S) \in Nat
<1>1. IsFiniteSet(Job)
  <2>1. 1 \in Int /\ MaxJob \in Int
    BY TickAssumption
  <2> QED BY <2>1, FS_Interval DEF Job
<1>2. IsFiniteSet(S)
  BY <1>1, FS_Subset
<1> QED BY <1>2, FS_CardinalityType

(* A step of which nobody hears keeps the tally when the signals that may   *)
(* be spoken of after it could be so before, or when it is a counted cut.   *)
LEMMA SilentStep ==
  ASSUME IInv, IInv', Tally, ToldJobs',
         \A s \in Queued : Tellers(s)' \subseteq Tellers(s),
         cutTalks' = cutTalks \/ cutTalks' = cutTalks + 1,
         \A s \in Queued : Alive(s)' /\ ~Ending(s)' =>
           Alive(s) /\ (~Ending(s) \/ cutTalks' = cutTalks + 1)
  PROVE  Tally'
<1> SUFFICES ASSUME NEW s \in Queued PROVE Cardinality(Tellers(s)') <= Bound(s)'
  BY DEF Tally
<1>1. Tellers(s) \in SUBSET Job
  BY DEF Tellers
<1>2. /\ Cardinality(Tellers(s)) \in Nat /\ Cardinality(Tellers(s)') \in Nat
      /\ Cardinality(Tellers(s)') <= Cardinality(Tellers(s))
  BY <1>1, TellersFinite, FS_Subset
<1>3. Cardinality(Tellers(s)) <= Bound(s)
  BY DEF Tally
<1>4. cutTalks \in Nat
  BY DEF IInv, TypeOK
<1> QED BY <1>2, <1>3, <1>4 DEF Bound

(* The steps that leave the jobs and their signals alone. *)
LEMMA TallyMoves ==
  ASSUME IInv, IInv', Tally, UNCHANGED <<pending, status, sigs, batch, produced, told, cutTalks>>,
         pc' # "record",
         UNCHANGED <<pc, cur, result>> \/ pc \notin {"record", "finish"}
           \/ (pc = "record" /\ pc' = "finish" /\ result' # "dream" /\ cur' = cur)
  PROVE  Tally'
<1>1. ToldJobs'
  BY DEF Tally, ToldJobs
<1>2. \A s \in Queued : Tellers(s)' = Tellers(s) /\ Alive(s)' = Alive(s)
  BY DEF Tellers, Alive, Live
<1>3. \A s \in Queued : ~Ending(s)' => ~Ending(s)
  BY DEF Ending, Tally, ToldJobs
<1> QED BY <1>1, <1>2, <1>3, SilentStep

LEMMA TallySurroundings ==
  ASSUME IInv, IInv', Tally, Surroundings
  PROVE  Tally'
<1>1. ASSUME NEW p \in Queued, Produce(p) PROVE Tally'
  <2>1. /\ p \notin produced /\ pending' = pending \cup {p} /\ produced' = produced \cup {p}
        /\ UNCHANGED <<status, sigs, batch, told, cutTalks, pc, cur, result>>
    BY <1>1 DEF Produce, tickVars
  <2>2. ToldJobs'
    BY <2>1 DEF Tally, ToldJobs
  <2>3. \A s \in Queued : Tellers(s)' = Tellers(s) /\ Ending(s)' = Ending(s)
    BY <2>1 DEF Tellers, Ending
  <2>4. \A s \in Queued \ {p} : Alive(s)' = Alive(s)
    BY <2>1 DEF Alive, Live
  <2>5. Tellers(p) = {}
    BY <2>1 DEF Tellers, Tally, ToldJobs
  <2> SUFFICES ASSUME NEW s \in Queued PROVE Cardinality(Tellers(s)') <= Bound(s)'
    BY <2>2 DEF Tally
  <2>6. CASE s = p
    <3>1. Cardinality(Tellers(s)') = 0
      BY <2>3, <2>5, <2>6, FS_EmptySet
    <3>2. cutTalks \in Nat /\ cutTalks' = cutTalks
      BY <2>1 DEF IInv, TypeOK
    <3>3. Bound(s)' = cutTalks \/ Bound(s)' = cutTalks + 1
      <4>1. CASE Alive(s)' /\ ~Ending(s)'
        BY <3>2, <4>1 DEF Bound
      <4>2. CASE ~(Alive(s)' /\ ~Ending(s)')
        BY <3>2, <4>2 DEF Bound
      <4> QED BY <4>1, <4>2
    <3> QED BY <3>1, <3>2, <3>3
  <2>7. CASE s # p
    <3>1. Bound(s)' = Bound(s)
      BY <2>1, <2>3, <2>4, <2>7 DEF Bound
    <3> QED BY <2>3, <3>1 DEF Tally
  <2> QED BY <2>6, <2>7
<1>2. CASE OwnerMessage \/ OwnerTurnEnds \/ DreamTurns
  <2>1. UNCHANGED <<pending, status, sigs, batch, produced, told, cutTalks, pc, cur, result>>
    BY <1>2 DEF OwnerMessage, OwnerTurnEnds, DreamTurns, storeVars, tickVars, histVars
  <2>2. ToldJobs'
    BY <2>1 DEF Tally, ToldJobs
  <2>3. \A s \in Queued : Tellers(s)' = Tellers(s) /\ Bound(s)' = Bound(s)
    BY <2>1 DEF Tellers, Bound, Alive, Live, Ending
  <2> QED BY <2>2, <2>3 DEF Tally
<1> QED BY <1>1, <1>2 DEF Surroundings

(* From the signals to the claimed job: they only move on, or are dropped. *)
LEMMA TallyClaims ==
  ASSUME IInv, IInv', Tally, TickDisabled \/ Drain \/ Enqueue \/ Claim
  PROVE  Tally'
<1>1. /\ pc \in {"idle", "drained", "queued"} /\ pc' \notin {"record", "finish"}
      /\ UNCHANGED <<produced, told, cutTalks>>
  BY DEF TickDisabled, Drain, Enqueue, Claim, tickVars, histVars
<1>2. CASE TickDisabled \/ Drain
  <2>1. UNCHANGED <<status, sigs>> /\ (pending' \cup batch') \cap Queued \subseteq pending \cup batch
    BY <1>2, Bounds DEF TickDisabled, Drain, tickVars
  <2>2. ToldJobs'
    BY <1>1, <2>1 DEF Tally, ToldJobs
  <2>3. \A s \in Queued : Tellers(s)' = Tellers(s) /\ (Alive(s)' => Alive(s)) /\ ~Ending(s)
    BY <1>1, <2>1 DEF Tellers, Alive, Live, Ending
  <2> QED BY <1>1, <2>2, <2>3, SilentStep
<1>3. CASE Enqueue
  <2>1. /\ pending' = pending /\ batch' = {}
        /\ \/ UNCHANGED <<status, sigs>>
           \/ \E next \in Job :
                /\ status[next] = "none"
                /\ status' = [status EXCEPT ![next] = "pending"]
                /\ sigs' = [sigs EXCEPT ![next] = batch]
    BY <1>3 DEF Enqueue, NextJob, Unused
  <2>2. \A j \in Job : \/ status'[j] = status[j] /\ sigs'[j] = sigs[j]
                       \/ status[j] = "none" /\ status'[j] = "pending" /\ sigs'[j] = batch
    BY <2>1 DEF IInv, TypeOK
  <2>3. batch \cap Queued \subseteq produced
    BY DEF IInv, Places
  <2>4. ToldJobs'
    BY <1>1, <2>2, <2>3 DEF Tally, ToldJobs
  <2>5. \A s \in Queued : Tellers(s)' \subseteq Tellers(s) /\ (Alive(s)' => Alive(s)) /\ ~Ending(s)
    BY <1>1, <2>1, <2>2 DEF Tellers, Alive, Live, Ending, Tally, ToldJobs
  <2> QED BY <1>1, <2>4, <2>5, SilentStep
<1>4. CASE Claim
  <2>1. /\ UNCHANGED <<pending, sigs, batch>>
        /\ \A j \in Job : (Live(j)' => Live(j)) /\ (status'[j] = "none" => status[j] = "none")
    BY <1>4, ClaimFacts
  <2>2. ToldJobs'
    BY <1>1, <2>1 DEF Tally, ToldJobs
  <2>3. \A s \in Queued : Tellers(s)' = Tellers(s) /\ (Alive(s)' => Alive(s)) /\ ~Ending(s)
    BY <1>1, <2>1 DEF Tellers, Alive, Ending
  <2> QED BY <1>1, <2>2, <2>3, SilentStep
<1> QED BY <1>2, <1>3, <1>4

(* A talk goes out: its signals were alive, and their job is to end. *)
LEMMA TallyFanout ==
  ASSUME IInv, IInv', Tally, Fanout
  PROVE  Tally'
<1>1. /\ pc = "fanout" /\ pc' = "record" /\ told' = [told EXCEPT ![cur] = @ + 1]
      /\ UNCHANGED <<pending, status, sigs, batch, cur, produced, cutTalks>>
  BY DEF Fanout, storeVars
<1>2. cur \in Job /\ status[cur] = "processing"
  BY <1>1 DEF IInv, InHand, Holding
<1>3. \A j \in Job : told[j] \in Nat
  BY DEF IInv, TypeOK
<1>4. told'[cur] = told[cur] + 1 /\ \A j \in Job \ {cur} : told'[j] = told[j]
  BY <1>1, <1>2 DEF IInv, TypeOK
<1>5. ToldJobs'
  BY <1>1, <1>2, <1>3, <1>4 DEF Tally, ToldJobs
<1> SUFFICES ASSUME NEW s \in Queued PROVE Cardinality(Tellers(s)') <= Bound(s)'
  BY <1>5 DEF Tally
<1>6. cutTalks \in Nat /\ Tellers(s) \in SUBSET Job /\ Cardinality(Tellers(s)) <= Bound(s) /\ ~Ending(s)
  BY <1>1 DEF Tally, IInv, TypeOK, Tellers, Ending
<1>7. CASE s \in sigs[cur]
  <2>1. Tellers(s)' \subseteq Tellers(s) \cup {cur}
    BY <1>1, <1>4 DEF Tellers
  <2>2. /\ IsFiniteSet(Tellers(s) \cup {cur})
        /\ Cardinality(Tellers(s) \cup {cur}) <= Cardinality(Tellers(s)) + 1
        /\ Cardinality(Tellers(s) \cup {cur}) \in Nat /\ Cardinality(Tellers(s)) \in Nat
    BY <1>6, TellersFinite, FS_AddElement, FS_CardinalityType
  <2>3. Cardinality(Tellers(s)') <= Cardinality(Tellers(s) \cup {cur}) /\ Cardinality(Tellers(s)') \in Nat
    BY <2>1, <2>2, FS_Subset, FS_CardinalityType
  <2>4. Alive(s) /\ Ending(s)'
    BY <1>1, <1>2, <1>7 DEF Alive, Live, Ending
  <2> QED BY <1>1, <1>6, <2>2, <2>3, <2>4 DEF Bound
<1>8. CASE s \notin sigs[cur]
  <2>1. Tellers(s)' = Tellers(s) /\ Alive(s)' = Alive(s) /\ ~Ending(s)'
    BY <1>1, <1>4, <1>8 DEF Tellers, Alive, Live, Ending
  <2> QED BY <1>1, <1>6, <2>1 DEF Bound
<1> QED BY <1>7, <1>8

(* The end of a tick: done, the job takes its signals with it. *)
LEMMA TallyFinish ==
  ASSUME IInv, IInv', Tally, FinishDone \/ FinishRetry \/ FinishSplit
  PROVE  Tally'
<1>1. /\ pc = "finish" /\ pc' = "idle" /\ UNCHANGED <<pending, batch, produced, told, cutTalks>>
  BY DEF FinishDone, FinishRetry, FinishSplit, TickOver
<1>2. cur \in Job /\ status[cur] = "processing"
  BY <1>1 DEF IInv, InHand, Holding
<1>3. CASE FinishDone
  <2>1. sigs' = sigs /\ status' = [status EXCEPT ![cur] = "done"] /\ result # "dream"
    BY <1>3 DEF FinishDone
  <2>2. \A j \in Job : status'[j] = IF j = cur THEN "done" ELSE status[j]
    BY <1>2, <2>1 DEF IInv, TypeOK
  <2>3. ToldJobs'
    BY <1>1, <2>1, <2>2 DEF Tally, ToldJobs
  <2>4. \A s \in Queued : Tellers(s)' = Tellers(s)
    BY <1>1, <2>1 DEF Tellers
  <2>5. \A s \in Queued \cap sigs[cur] : ~Alive(s)'
    BY <1>1, <1>2, <2>1, <2>2 DEF Alive, Live, IInv, Places
  <2>6. \A s \in Queued \ sigs[cur] : (Alive(s)' => Alive(s)) /\ ~Ending(s)
    BY <1>1, <2>1, <2>2 DEF Alive, Live, Ending
  <2> QED BY <1>1, <2>3, <2>4, <2>5, <2>6, SilentStep
<1>4. CASE FinishRetry \/ FinishSplit
  <2>1. /\ result = "dream"
        /\ \E next \in Job, rest \in SUBSET sigs[cur] :
             \A j \in Job : \/ sigs'[j] = sigs[j] /\ (status'[j] = status[j] \/ (j = cur /\ status'[j] \in {"pending", "done"}))
                            \/ j = next /\ status[j] = "none" /\ status'[j] = "pending" /\ sigs'[j] = rest
    <3>1. CASE FinishRetry
      <4>1. sigs' = sigs /\ \A j \in Job : status'[j] = IF j = cur THEN "pending" ELSE status[j]
        BY <1>2, <3>1 DEF FinishRetry, IInv, TypeOK
      <4> QED BY <1>2, <3>1, <4>1 DEF FinishRetry
    <3>2. CASE FinishSplit
      <4>1. PICK rest \in SUBSET (sigs[cur] \ Wake) :
              \/ status' = [status EXCEPT ![cur] = "done"] /\ UNCHANGED sigs
              \/ \E next \in Job :
                   /\ status[next] = "none"
                   /\ status' = [status EXCEPT ![cur] = "done", ![next] = "pending"]
                   /\ sigs' = [sigs EXCEPT ![next] = rest]
        BY <3>2 DEF FinishSplit, NextJob, Unused
      <4>2. CASE status' = [status EXCEPT ![cur] = "done"] /\ UNCHANGED sigs
        <5>1. \A j \in Job : status'[j] = IF j = cur THEN "done" ELSE status[j]
          BY <1>2, <4>2 DEF IInv, TypeOK
        <5> QED BY <1>2, <3>2, <4>2, <5>1 DEF FinishSplit
      <4>3. ASSUME NEW next \in Job, status[next] = "none",
                   status' = [status EXCEPT ![cur] = "done", ![next] = "pending"],
                   sigs' = [sigs EXCEPT ![next] = rest]
            PROVE  result = "dream" /\ \A j \in Job :
                     \/ sigs'[j] = sigs[j] /\ (status'[j] = status[j] \/ (j = cur /\ status'[j] \in {"pending", "done"}))
                     \/ j = next /\ status[j] = "none" /\ status'[j] = "pending" /\ sigs'[j] = rest
        <5>1. next # cur
          BY <1>2, <4>3
        <5>2. \A j \in Job : /\ status'[j] = IF j = cur THEN "done" ELSE IF j = next THEN "pending" ELSE status[j]
                             /\ sigs'[j] = IF j = next THEN rest ELSE sigs[j]
          BY <1>2, <4>3, <5>1 DEF IInv, TypeOK
        <5> QED BY <3>2, <4>3, <5>1, <5>2 DEF FinishSplit
      <4> QED BY <4>1, <4>2, <4>3
    <3> QED BY <1>4, <3>1, <3>2
  <2>2. PICK next \in Job, rest \in SUBSET sigs[cur] :
             \A j \in Job : \/ sigs'[j] = sigs[j] /\ (status'[j] = status[j] \/ (j = cur /\ status'[j] \in {"pending", "done"}))
                            \/ j = next /\ status[j] = "none" /\ status'[j] = "pending" /\ sigs'[j] = rest
    BY <2>1
  <2>3. ToldJobs'
    BY <1>1, <1>2, <2>2 DEF Tally, ToldJobs
  <2>4. \A s \in Queued : Tellers(s)' \subseteq Tellers(s)
    BY <1>1, <2>2 DEF Tellers, Tally, ToldJobs
  <2>5. \A s \in Queued : (Alive(s)' => Alive(s)) /\ ~Ending(s)
    BY <1>1, <1>2, <2>1, <2>2 DEF Alive, Live, Ending
  <2> QED BY <1>1, <2>3, <2>4, <2>5, SilentStep
<1> QED BY <1>3, <1>4

(* A cut between the talk and finish() is counted. *)
LEMMA TallyCut ==
  ASSUME IInv, IInv', Tally, Cancel \/ Crash
  PROVE  Tally'
<1>1. /\ pc' = "idle" /\ batch' = {} /\ UNCHANGED <<pending, status, sigs, produced, told>>
      /\ cutTalks' = IF pc = "record" \/ (pc = "finish" /\ told[cur] > 0)
                     THEN cutTalks + 1 ELSE cutTalks
  BY DEF Cancel, Crash, CutOff, storeVars
<1>2. ToldJobs'
  BY <1>1 DEF Tally, ToldJobs
<1>3. \A s \in Queued : Tellers(s)' = Tellers(s) /\ (Alive(s)' => Alive(s))
  BY <1>1 DEF Tellers, Alive, Live
<1>4. \A s \in Queued : Ending(s) => cutTalks' = cutTalks + 1
  BY <1>1 DEF Ending
<1> QED BY <1>1, <1>2, <1>3, <1>4, SilentStep

LEMMA TallyKept == IInv /\ IInv' /\ Tally /\ [Next]_vars => Tally'
<1> SUFFICES ASSUME IInv, IInv', Tally, [Next]_vars PROVE Tally'
  OBVIOUS
<1>1. CASE UNCHANGED vars
  BY <1>1 DEF vars, storeVars, tickVars, histVars, Tally, ToldJobs, Tellers, Bound, Alive, Live, Ending
<1>2. CASE Moves
  <2>1. /\ UNCHANGED <<pending, status, sigs, batch, cur, produced, told, cutTalks>>
        /\ pc' # "record" /\ pc # "record"
    BY <1>2, MovesFacts
  <2>2. pc # "finish"
    BY <1>2 DEF Moves, AdmissionDream, AdmissionRefused, EnterModel, EndsSilently, SoftBlocked,
                SendBlockedByDream, SendRefusedUncounted, SendRefused, WantsTalk, CaptureFails,
                Capture, FanoutNobody
  <2> QED BY <2>1, <2>2, TallyMoves
<1>3. CASE Send \/ RecordSend
  BY <1>3, TallyMoves DEF Send, WantsTalk, RecordSend, storeVars, histVars
<1> QED
  BY <1>1, <1>2, <1>3, TallySurroundings, TallyClaims, TallyFanout, TallyFinish, TallyCut
     DEF Next, TickStep, Moves

(* A queued signal, merged, retried, split off and claimed again as often   *)
(* as may be, is spoken of once, but for ticks that were cut off after the  *)
(* talk and before finish() (tick(), finish_dream_blocked_with_signal_split()). *)
THEOREM SpokenOnce == Spec => []ToldOnce
<1>1. Init => Tally
  <2> SUFFICES ASSUME Init PROVE Tally
    OBVIOUS
  <2>1. ToldJobs
    BY DEF Init, ToldJobs
  <2>2. \A s \in Queued : Tellers(s) = {} /\ cutTalks = 0
    BY DEF Init, Tellers
  <2> QED BY <2>1, <2>2, FS_EmptySet DEF Tally, Bound
<1>2. IInv /\ Tally => ToldOnce
  <2> SUFFICES ASSUME IInv, Tally, NEW s \in Queued
               PROVE  Cardinality({j \in Job : told[j] > 0 /\ s \in sigs[j]}) <= 1 + cutTalks
    BY DEF ToldOnce
  <2>1. Cardinality(Tellers(s)) <= Bound(s) /\ cutTalks \in Nat
    BY DEF Tally, IInv, TypeOK
  <2>2. Tellers(s) \in SUBSET Job
    BY DEF Tellers
  <2> QED BY <2>1, <2>2, TellersFinite DEF Tellers, Bound
<1> QED BY <1>1, <1>2, IInvHolds, TallyKept, PTL DEF Spec
=============================================================================
