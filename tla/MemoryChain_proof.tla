-------------------------- MODULE MemoryChain_proof --------------------------
(***************************************************************************)
(* Proofs about MemoryChain: for every set of turns, every size of the      *)
(* mid-term file, any number of attempts, and any number of sweeps,         *)
(* requests, refused writes and ends of the process.  The last theorem      *)
(* states what would keep a forgotten episode forgotten.                    *)
(***************************************************************************)
EXTENDS MemoryChain, TLAPS

(* A task of one turn names one turn. *)
OneTurn(task) == task.job \in {"capture", "summarize"} => \E t \in Turn : task.turns = {t}
Tasks == OneTurn(job) /\ \A i \in DOMAIN queue : OneTurn(queue[i])

Typed == TypeOK /\ Tasks

(* The turn is still to be summarized: it is not yet handed to the queue,   *)
(* or waits there, or is in the worker's hand.                              *)
InQueue(t) == \E i \in DOMAIN queue : queue[i].job = "summarize" /\ t \in queue[i].turns
InHand(t) == job.job = "summarize" /\ t \in job.turns
Owed(t) == life[t] # "handed" \/ InQueue(t) \/ InHand(t)

(* A turn is handed over once. *)
HandedOnce ==
  /\ \A t \in Turn : InQueue(t) => life[t] = "handed" /\ ~InHand(t)
  /\ \A t \in Turn : InHand(t) => life[t] = "handed"
  /\ \A t \in Turn, i, k \in DOMAIN queue :
       /\ queue[i].job = "summarize" /\ t \in queue[i].turns
       /\ queue[k].job = "summarize" /\ t \in queue[k].turns
       => i = k

(* Hence what was summarized will not be summarized again. *)
InMid(t) == \E n \in DOMAIN mid : mid[n].turn = t
Open(t) == \E n \in DOMAIN mid : mid[n].turn = t /\ ~mid[n].promoted
Summed == \A t \in Turn : InMid(t) \/ t \in work.todo => ~Owed(t)

(* What an episode tells is in its own list of summaries, or can no longer  *)
(* be reflected, or its mark was lost with the process.                     *)
Accounted ==
  \A i \in DOMAIN eps : \A t \in eps[i].turns :
    \/ t \in torn
    \/ t \in eps[i].mids
    \/ ~Open(t) /\ ~Owed(t)

(* What two lists of episodes agree on. *)
Same(e, f) ==
  /\ DOMAIN e = DOMAIN f
  /\ \A i \in DOMAIN e : e[i].turns = f[i].turns /\ e[i].mids = f[i].mids /\ e[i].fed = f[i].fed

(* What a waiting reflection read is still so, and nobody else tells what   *)
(* it is about to tell.                                                     *)
Fresh ==
  Locked => /\ Same(work.existing, eps)
            /\ \A i \in DOMAIN eps : eps[i].turns \cap work.todo \subseteq torn

(* A consolidation that is alone writes over what it has read. *)
Alone ==
  ~overlapped =>
    /\ \A c, o \in Caller : cons[c].pc # "off" /\ cons[o].pc # "off" => c = o
    /\ \A c \in Caller : cons[c].pc = "llm" => cons[c].base = identity
    /\ \A c \in Caller : cons[c].pc = "mark" => cons[c].snap \subseteq identity \cup judged

IInv == Typed /\ HandedOnce /\ Summed /\ Accounted /\ OneEpisodePerTurn /\ Fresh
        /\ CapturedOnce /\ Alone /\ FedIsKept
-----------------------------------------------------------------------------
(* Sequences and records. *)
LEMMA SameLength ==
  ASSUME NEW S, NEW s \in Seq(S), NEW f, f = [i \in DOMAIN s |-> f[i]],
         \A i \in DOMAIN s : f[i] \in S
  PROVE  f \in Seq(S) /\ DOMAIN f = DOMAIN s
<1>1. DOMAIN s = 1..Len(s) /\ Len(s) \in Nat
  OBVIOUS
<1>2. f \in [1..Len(s) -> S]
  BY <1>1, Zenon
<1> QED BY <1>1, <1>2

LEMMA SameUpTo ==
  ASSUME NEW m \in Nat, NEW n \in Nat, 1..m = 1..n
  PROVE  m = n
<1>1. \A i \in Nat : i \in 1..m <=> i \in 1..n
  OBVIOUS
<1> QED BY <1>1

LEMMA Appended ==
  ASSUME NEW S, NEW s \in Seq(S), NEW x \in S
  PROVE  /\ Append(s, x) \in Seq(S)
         /\ DOMAIN s = 1..Len(s) /\ Len(s) \in Nat
         /\ DOMAIN Append(s, x) = 1..(Len(s) + 1)
         /\ \A i \in 1..Len(s) : Append(s, x)[i] = s[i]
         /\ Append(s, x)[Len(s) + 1] = x
  OBVIOUS

LEMMA EpisodeFields ==
  ASSUME NEW x \in Episode
  PROVE  /\ x.turns \in SUBSET Turn /\ x.mids \in SUBSET Turn /\ x.fed \in BOOLEAN
         /\ LET y == [x EXCEPT !.status = "resolved"]
            IN y \in Episode /\ y.turns = x.turns /\ y.mids = x.mids /\ y.fed = x.fed
         /\ LET y == [x EXCEPT !.status = "forgotten", !.core = FALSE]
            IN y \in Episode /\ y.turns = x.turns /\ y.mids = x.mids /\ y.fed = x.fed
         /\ LET y == [x EXCEPT !.fed = TRUE]
            IN y \in Episode /\ y.turns = x.turns /\ y.mids = x.mids /\ y.fed = TRUE
  BY DEF Episode

LEMMA OneChanged ==
  ASSUME NEW e \in Seq(Episode), NEW d \in DOMAIN e, NEW T
  PROVE  LET f == [e EXCEPT ![d].turns = @ \cup T]
         IN /\ f = [i \in DOMAIN e |-> f[i]]
            /\ \A i \in DOMAIN e :
                 f[i] = IF i = d THEN [e[i] EXCEPT !.turns = @ \cup T] ELSE e[i]
  OBVIOUS

(* Closing episodes changes nothing that two lists are compared by. *)
LEMMA ClosedFacts ==
  ASSUME TypeOK, NEW C
  PROVE  Closed(C) \in Seq(Episode) /\ Same(Closed(C), eps)
<1>1. eps \in Seq(Episode)
  BY DEF TypeOK
<1>2. \A i \in DOMAIN eps : eps[i] \in Episode
  BY <1>1
<1>3. PICK f : f = Closed(C)
  OBVIOUS
<1>4. f = [i \in DOMAIN eps |-> IF i \in C THEN [eps[i] EXCEPT !.status = "resolved"] ELSE eps[i]]
  BY <1>3 DEF Closed
<1>5. DOMAIN f = DOMAIN eps
      /\ \A i \in DOMAIN eps : /\ f[i] \in Episode
                               /\ f[i].turns = eps[i].turns /\ f[i].mids = eps[i].mids
                               /\ f[i].fed = eps[i].fed
  BY <1>2, <1>4, EpisodeFields
<1>6. f = [i \in DOMAIN eps |-> f[i]]
  BY <1>4
<1>7. f \in Seq(Episode)
  BY <1>1, <1>5, <1>6, SameLength
<1> QED BY <1>3, <1>5, <1>7 DEF Same

(* What a written episode adds. *)
Adds ==
  /\ \A i \in DOMAIN eps : eps[i].turns \cap work.todo = {}
  /\ DOMAIN eps' = DOMAIN eps \cup {Len(eps) + 1} /\ Len(eps) + 1 \notin DOMAIN eps
  /\ \A i \in DOMAIN eps : /\ eps'[i].turns = eps[i].turns /\ eps'[i].mids = eps[i].mids
                           /\ eps'[i].fed = eps[i].fed
  /\ LET new == eps'[Len(eps) + 1]
     IN new.turns = work.todo /\ new.mids = work.todo /\ new.fed = FALSE

LEMMA WriteFacts ==
  ASSUME TypeOK, Write
  PROVE  eps' \in Seq(Episode) /\ (Same(eps', eps) \/ Adds)
<1>1. PICK C \in SUBSET Closable, core \in BOOLEAN : Written(C, core)
  BY DEF Write
<1>2. PICK f : f = Closed(C)
  OBVIOUS
<1>3. f \in Seq(Episode) /\ Same(f, eps)
  BY <1>2, ClosedFacts
<1>4. CASE eps' = f
  BY <1>3, <1>4
<1>5. CASE ~SharesEvents /\ eps' = Append(f, NewEpisode(core))
  <2>1. PICK new : new = NewEpisode(core)
    OBVIOUS
  <2>2. new \in Episode /\ new.turns = work.todo /\ new.mids = work.todo /\ new.fed = FALSE
    <3>1. work.todo \in SUBSET Turn
      BY DEF TypeOK
    <3> QED BY <2>1, <3>1 DEF NewEpisode, Episode
  <2>3. eps' = Append(f, new) /\ eps' \in Seq(Episode)
    BY <1>3, <1>5, <2>1, <2>2
  <2>4. /\ DOMAIN f = 1..Len(f) /\ Len(f) \in Nat
        /\ DOMAIN eps = 1..Len(eps) /\ Len(eps) \in Nat
        /\ DOMAIN eps' = 1..(Len(f) + 1)
        /\ \A i \in 1..Len(f) : eps'[i] = f[i]
        /\ eps'[Len(f) + 1] = new
    <3>1. DOMAIN eps = 1..Len(eps) /\ Len(eps) \in Nat
      BY DEF TypeOK
    <3>2. PICK g : g = Append(f, new)
      OBVIOUS
    <3>3. /\ DOMAIN f = 1..Len(f) /\ Len(f) \in Nat
          /\ DOMAIN g = 1..(Len(f) + 1)
          /\ \A i \in 1..Len(f) : g[i] = f[i]
          /\ g[Len(f) + 1] = new
      BY <1>3, <2>2, <3>2, Appended
    <3>4. g = eps'
      BY <2>3, <3>2
    <3> QED BY <3>1, <3>3, <3>4
  <2>5. Len(f) = Len(eps)
    <3>1. 1..Len(f) = 1..Len(eps)
      BY <1>3, <2>4 DEF Same
    <3> QED BY <2>4, <3>1, SameUpTo
  <2>6. \A i \in DOMAIN eps : eps[i].turns \cap work.todo = {}
    BY <1>5 DEF SharesEvents
  <2>7. DOMAIN eps' = DOMAIN eps \cup {Len(eps) + 1} /\ Len(eps) + 1 \notin DOMAIN eps
    BY <2>4, <2>5
  <2>8. \A i \in DOMAIN eps : eps'[i] = f[i]
    BY <2>4, <2>5
  <2> QED BY <1>3, <2>2, <2>3, <2>4, <2>5, <2>6, <2>7, <2>8 DEF Same, Adds
<1> QED BY <1>1, <1>2, <1>4, <1>5 DEF Written

(* What a merge saves. *)
Merged ==
  /\ DOMAIN eps' = DOMAIN work.existing
  /\ \E d \in DOMAIN eps' : \A i \in DOMAIN eps' :
       /\ eps'[i].mids = work.existing[i].mids /\ eps'[i].fed = work.existing[i].fed
       /\ eps'[i].turns = work.existing[i].turns \cup (IF i = d THEN work.todo ELSE {})

LEMMA MergeFacts ==
  ASSUME TypeOK, Merge
  PROVE  eps' \in Seq(Episode) /\ Merged
<1>1. PICK d \in DOMAIN work.existing : MergedInto(d)
  BY DEF Merge
<1>2. PICK e, T : e = work.existing /\ T = work.todo
  OBVIOUS
<1>3. e \in Seq(Episode) /\ T \in SUBSET Turn
  BY <1>2 DEF TypeOK
<1>4. eps' = [e EXCEPT ![d].turns = @ \cup T]
  BY <1>1, <1>2 DEF MergedInto
<1>5. \A i \in DOMAIN e : e[i] \in Episode
  BY <1>3
<1>6. /\ eps' = [i \in DOMAIN e |-> eps'[i]]
      /\ \A i \in DOMAIN e : eps'[i] = IF i = d THEN [e[i] EXCEPT !.turns = @ \cup T] ELSE e[i]
  <2>1. PICK f : f = [e EXCEPT ![d].turns = @ \cup T]
    OBVIOUS
  <2>2. /\ f = [i \in DOMAIN e |-> f[i]]
        /\ \A i \in DOMAIN e : f[i] = IF i = d THEN [e[i] EXCEPT !.turns = @ \cup T] ELSE e[i]
    BY <1>1, <1>2, <1>3, <2>1, OneChanged
  <2>3. f = eps'
    BY <1>4, <2>1
  <2> QED BY <2>2, <2>3, Zenon
<1>7. \A i \in DOMAIN e :
        /\ eps'[i] \in Episode /\ eps'[i].mids = e[i].mids /\ eps'[i].fed = e[i].fed
        /\ eps'[i].turns = e[i].turns \cup (IF i = d THEN T ELSE {})
  <2> SUFFICES ASSUME NEW i \in DOMAIN e
               PROVE  /\ eps'[i] \in Episode /\ eps'[i].mids = e[i].mids /\ eps'[i].fed = e[i].fed
                      /\ eps'[i].turns = e[i].turns \cup (IF i = d THEN T ELSE {})
    OBVIOUS
  <2>1. PICK x : x = e[i]
    OBVIOUS
  <2>2. PICK y : y = [x EXCEPT !.turns = @ \cup T]
    OBVIOUS
  <2>3. x \in Episode
    BY <1>5, <2>1
  <2>4. y \in Episode /\ y.turns = x.turns \cup T /\ y.mids = x.mids /\ y.fed = x.fed
    BY <1>3, <2>2, <2>3 DEF Episode
  <2>5. eps'[i] = IF i = d THEN y ELSE x
    BY <1>6, <2>1, <2>2, Zenon
  <2> QED BY <2>1, <2>3, <2>4, <2>5
<1>8. eps' \in Seq(Episode) /\ DOMAIN eps' = DOMAIN e
  BY <1>3, <1>6, <1>7, SameLength
<1> QED BY <1>1, <1>2, <1>7, <1>8 DEF Merged
-----------------------------------------------------------------------------
(* Types *)
LEMMA InitTyped == Init => Typed
<1> SUFFICES ASSUME Init PROVE Typed
  OBVIOUS
<1>1. /\ life \in [Turn -> {"none", "captured", "handed"}]
      /\ lines \in [Turn -> [Line -> Nat]]
  BY DEF Init
<1>2. mid \in Seq(Mid) /\ queue \in Seq(Task) /\ since \in Nat
  BY DEF Init
<1>3. eps \in Seq(Episode)
  <2>1. PICK x : x = [turns |-> {}, mids |-> {}, core |-> TRUE, status |-> "open", fed |-> TRUE]
    OBVIOUS
  <2>2. x \in Episode
    BY <2>1 DEF Episode
  <2>3. eps = [i \in 1..Earlier |-> x]
    BY <2>1 DEF Init
  <2> QED BY <2>2, <2>3, MemoryAssumption
<1>4. identity \subseteq Nat /\ judged \subseteq Nat /\ forgotten \subseteq Nat
      /\ torn \subseteq Turn /\ overlapped \in BOOLEAN
  <2>1. Earlier \in Nat /\ 1..Earlier \subseteq Nat
    BY MemoryAssumption
  <2> QED BY <2>1 DEF Init
<1>5. job \in Task \cup {NoTask} /\ pc \in {"idle", "start", "llm"} /\ attempt \in 0..(Attempts - 1)
  BY MemoryAssumption DEF Init
<1>6. work \in [todo : SUBSET Turn, existing : Seq(Episode)]
  <2>1. <<>> \in Seq(Episode)
    OBVIOUS
  <2> QED BY <2>1 DEF Init, NoWork
<1>7. cons \in [Caller -> [pc : {"off", "llm", "mark"}, base : SUBSET Nat, snap : SUBSET Nat]]
  BY DEF Init, Off
<1>8. left \in [{"sweeps", "requests", "faults", "crashes"} -> Nat]
  <2>1. MaxSweeps \in Nat /\ MaxRequests \in Nat /\ MaxFaults \in Nat /\ MaxCrashes \in Nat
    BY MemoryAssumption
  <2> QED BY <2>1 DEF Init, Bounds
<1>9. Tasks
  BY DEF Init, Tasks, OneTurn, NoTask
<1> QED BY <1>1, <1>2, <1>3, <1>4, <1>5, <1>6, <1>7, <1>8, <1>9 DEF Typed, TypeOK

(* A bound that is spent stays a number. *)
Kinds == {"sweeps", "requests", "faults", "crashes"}
LeftT == [Kinds -> Nat]
LEMMA Spent ==
  ASSUME left \in LeftT, NEW w \in Kinds, Spend(w)
  PROVE  left' \in LeftT
  BY DEF LeftT, Spend

(* The worker's variables after its handler ended or raised. *)
LEMMA Ended ==
  ASSUME TypeOK, EndTask \/ Raise
  PROVE  /\ job' = NoTask \/ job' = job
         /\ pc' \in {"idle", "start"}
         /\ attempt' \in 0..(Attempts - 1)
         /\ work' = NoWork
<1>1. Attempts \in Nat \ {0} /\ attempt \in 0..(Attempts - 1)
  BY MemoryAssumption DEF TypeOK
<1>2. CASE EndTask
  BY <1>1, <1>2 DEF EndTask
<1>3. CASE attempt + 1 < Attempts /\ attempt' = attempt + 1 /\ pc' = "start" /\ job' = job /\ work' = NoWork
  BY <1>1, <1>3
<1> QED BY <1>2, <1>3 DEF Raise

LEMMA NoWorkTyped == NoWork \in [todo : SUBSET Turn, existing : Seq(Episode)]
<1>1. <<>> \in Seq(Episode)
  OBVIOUS
<1> QED BY <1>1 DEF NoWork

(* The queue after a task is put into it. *)
LEMMA Enqueued ==
  ASSUME Typed, NEW j \in Job, NEW T \in SUBSET Turn, Enqueue(j, T),
         j \in {"capture", "summarize"} => \E t \in Turn : T = {t}
  PROVE  queue' \in Seq(Task) /\ \A i \in DOMAIN queue' : OneTurn(queue'[i])
<1>1. PICK x : x = [job |-> j, turns |-> T]
  OBVIOUS
<1>2. x \in Task /\ OneTurn(x)
  BY <1>1 DEF Task, OneTurn
<1>3. queue' = Append(queue, x)
  BY <1>1 DEF Enqueue
<1>4. queue \in Seq(Task)
  BY DEF Typed, TypeOK
<1>5. queue' \in Seq(Task) /\ DOMAIN queue' = 1..(Len(queue) + 1)
      /\ DOMAIN queue = 1..Len(queue) /\ Len(queue) \in Nat
      /\ (\A i \in 1..Len(queue) : queue'[i] = queue[i]) /\ queue'[Len(queue) + 1] = x
  BY <1>2, <1>3, <1>4, Appended
<1>6. \A i \in DOMAIN queue' : i \in DOMAIN queue \/ i = Len(queue) + 1
  BY <1>5
<1> QED BY <1>2, <1>5, <1>6 DEF Typed, Tasks

LEMMA LinesWritten ==
  ASSUME TypeOK, NEW t \in Turn, NEW failed, WriteLines(t, failed)
  PROVE  lines' \in [Turn -> [Line -> Nat]]
<1>1. lines[t] \in [Line -> Nat]
  BY DEF TypeOK
<1>2. PICK g : g = [l \in Line |-> IF l \in LinesOf(t) \ failed /\ ~AlreadyThere(t, l)
                                 THEN lines[t][l] + 1 ELSE lines[t][l]]
  OBVIOUS
<1>3. g \in [Line -> Nat]
  BY <1>1, <1>2
<1>4. lines' = [lines EXCEPT ![t] = g]
  BY <1>2 DEF WriteLines
<1> QED BY <1>3, <1>4 DEF TypeOK

(* The turn of a task of one turn is that turn. *)
LEMMA ItsTurn ==
  ASSUME Typed, job.job \in {"capture", "summarize"}
  PROVE  TheTurn \in Turn /\ job.turns = {TheTurn}
  BY DEF Typed, Tasks, OneTurn, TheTurn

(* What is kept of the mid-term file. *)
LEMMA Suffix ==
  ASSUME NEW S, NEW s \in Seq(S), NEW k \in 1..(Len(s) + 1)
  PROVE  LET f == SubSeq(s, k, Len(s))
         IN f \in Seq(S) /\ \A n \in DOMAIN f : \E m \in DOMAIN s : f[n] = s[m]
<1>1. PICK f : f = SubSeq(s, k, Len(s))
  OBVIOUS
<1>2. f \in Seq(S)
  BY <1>1
<1>3. DOMAIN f = 1..(Len(s) - k + 1)
  BY <1>1
<1>4. \A n \in DOMAIN f : f[n] = s[k + n - 1] /\ k + n - 1 \in DOMAIN s
  BY <1>1, <1>3
<1> QED BY <1>1, <1>2, <1>4
(* The summaries of a reflection are marked. *)
LEMMA Promoted ==
  ASSUME TypeOK,
         mid' = [i \in DOMAIN mid |-> IF mid[i].turn \in work.todo
                                      THEN [mid[i] EXCEPT !.promoted = TRUE] ELSE mid[i]]
  PROVE  /\ mid' \in Seq(Mid) /\ DOMAIN mid' = DOMAIN mid
         /\ \A i \in DOMAIN mid : /\ mid'[i].turn = mid[i].turn
                                  /\ mid[i].turn \in work.todo => mid'[i].promoted
                                  /\ mid[i].promoted => mid'[i].promoted
<1>1. mid \in Seq(Mid) /\ \A i \in DOMAIN mid : mid[i] \in Mid
  BY DEF TypeOK
<1>2. ASSUME NEW x \in Mid
      PROVE  LET y == [x EXCEPT !.promoted = TRUE] IN y \in Mid /\ y.turn = x.turn /\ y.promoted
  BY DEF Mid
<1>3. \A i \in DOMAIN mid :
        /\ mid'[i] \in Mid /\ mid'[i].turn = mid[i].turn
        /\ mid[i].turn \in work.todo => mid'[i].promoted
        /\ mid[i].promoted => mid'[i].promoted
  BY <1>1, <1>2
<1>4. mid' = [i \in DOMAIN mid |-> mid'[i]]
  OBVIOUS
<1> QED BY <1>1, <1>3, <1>4, SameLength

(* An episode that is forgotten keeps what it tells. *)
LEMMA ForgetFacts ==
  ASSUME TypeOK, NEW i, Forget(i)
  PROVE  eps' \in Seq(Episode) /\ Same(eps', eps)
<1>1. eps \in Seq(Episode) /\ \A k \in DOMAIN eps : eps[k] \in Episode
  BY DEF TypeOK
<1>2. i \in DOMAIN eps /\ eps' = [eps EXCEPT ![i].status = "forgotten", ![i].core = FALSE]
  BY DEF Forget
<1>3. \A k \in DOMAIN eps :
        /\ eps'[k] \in Episode /\ eps'[k].turns = eps[k].turns
        /\ eps'[k].mids = eps[k].mids /\ eps'[k].fed = eps[k].fed
  BY <1>1, <1>2 DEF Episode
<1>4. eps' = [k \in DOMAIN eps |-> eps'[k]]
  BY <1>1, <1>2
<1>5. eps' \in Seq(Episode) /\ DOMAIN eps' = DOMAIN eps
  BY <1>1, <1>3, <1>4, SameLength
<1> QED BY <1>3, <1>5 DEF Same

ConsolidationStep(c) ==
  \/ ConsolidateNothing(c) \/ ConsolidateBegins(c) \/ ConsolidateFails(c)
  \/ ConsolidateSaves(c) \/ ConsolidateUnchanged(c) \/ ConsolidateMarks(c)

ConsT == [pc : {"off", "llm", "mark"}, base : SUBSET Nat, snap : SUBSET Nat]

(* What a consolidation marks. *)
LEMMA MarksFacts ==
  ASSUME TypeOK, NEW c \in Caller, ConsolidateMarks(c)
  PROVE  /\ eps' \in Seq(Episode) /\ DOMAIN eps' = DOMAIN eps
         /\ \A i \in DOMAIN eps :
              /\ eps'[i].turns = eps[i].turns /\ eps'[i].mids = eps[i].mids
              /\ eps'[i].fed => eps[i].fed \/ i \in cons[c].snap
<1>1. eps \in Seq(Episode) /\ \A i \in DOMAIN eps : eps[i] \in Episode
  BY DEF TypeOK
<1>2. eps' = [i \in DOMAIN eps |-> IF i \in cons[c].snap THEN [eps[i] EXCEPT !.fed = TRUE] ELSE eps[i]]
  BY DEF ConsolidateMarks
<1>3. \A i \in DOMAIN eps :
        /\ eps'[i] \in Episode
        /\ eps'[i].turns = eps[i].turns /\ eps'[i].mids = eps[i].mids
        /\ eps'[i].fed => eps[i].fed \/ i \in cons[c].snap
  BY <1>1, <1>2, EpisodeFields
<1>4. eps' = [i \in DOMAIN eps |-> eps'[i]]
  BY <1>2
<1> QED BY <1>1, <1>3, <1>4, SameLength

LEMMA ConsolidationFacts ==
  ASSUME TypeOK, NEW c \in Caller, ConsolidationStep(c)
  PROVE  /\ cons' \in [Caller -> ConsT]
         /\ eps' \in Seq(Episode) /\ identity' \subseteq Nat /\ judged' \subseteq Nat
         /\ since' \in Nat /\ overlapped' \in BOOLEAN
<1> USE DEF ConsT
<1>1. cons \in [Caller -> ConsT] /\ cons[c] \in ConsT /\ Off \in ConsT
  BY DEF TypeOK, Off
<1>2. CASE ConsolidateNothing(c) \/ ConsolidateFails(c)
  <2>1. cons' = [cons EXCEPT ![c] = Off]
    BY <1>2 DEF ConsolidateNothing, ConsolidateFails, ConsolidationEnds
  <2>2. cons' \in [Caller -> ConsT]
    BY <1>1, <2>1
  <2> QED BY <1>2, <2>2 DEF ConsolidateNothing, ConsolidateFails, files, history, TypeOK
<1>3. CASE ConsolidateBegins(c)
  <2>1. identity \subseteq Nat /\ Unfed \subseteq Nat
    BY DEF TypeOK, Unfed
  <2>2. PICK x : x = [pc |-> "llm", base |-> identity, snap |-> Unfed]
    OBVIOUS
  <2>3. x \in ConsT /\ cons' = [cons EXCEPT ![c] = x]
    BY <1>3, <2>1, <2>2 DEF ConsolidateBegins
  <2>4. cons' \in [Caller -> ConsT]
    BY <1>1, <2>3
  <2> QED BY <1>3, <2>4 DEF ConsolidateBegins, files, TypeOK
<1>4. CASE ConsolidateSaves(c) \/ ConsolidateUnchanged(c)
  <2>1. cons' = [cons EXCEPT ![c].pc = "mark"]
    BY <1>4 DEF ConsolidateSaves, ConsolidateUnchanged
  <2>2. cons' \in [Caller -> ConsT]
    BY <1>1, <2>1
  <2>3. cons[c].base \subseteq Nat /\ cons[c].snap \subseteq Nat
    BY <1>1
  <2> QED BY <1>4, <2>2, <2>3 DEF ConsolidateSaves, ConsolidateUnchanged, files, history, TypeOK
<1>5. CASE ConsolidateMarks(c)
  <2>1. cons' = [cons EXCEPT ![c] = Off]
    BY <1>5 DEF ConsolidateMarks, ConsolidationEnds
  <2>2. cons' \in [Caller -> ConsT]
    BY <1>1, <2>1
  <2> QED BY <1>5, <2>2, MarksFacts DEF ConsolidateMarks, history, TypeOK
<1> QED BY <1>2, <1>3, <1>4, <1>5 DEF ConsolidationStep

(* The variables that a step leaves alone keep their types. *)
LEMMA StepTyped ==
  ASSUME Typed, [Next]_vars
  PROVE  Typed'
<1> USE DEF Typed
<1> DEFINE WorkT == [todo : SUBSET Turn, existing : Seq(Episode)]
           QueueOK == queue' \in Seq(Task) /\ \A i \in DOMAIN queue' : OneTurn(queue'[i])
           JobOK == job' \in Task \cup {NoTask} /\ OneTurn(job')
<1>0. /\ left \in LeftT /\ OneTurn(job) /\ OneTurn(NoTask)
      /\ \A i \in DOMAIN queue : OneTurn(queue[i])
  BY DEF TypeOK, LeftT, Kinds, Tasks, OneTurn, NoTask
<1>1. ASSUME NEW t \in Turn, Capture(t) PROVE Typed'
  <2>1. lines' \in [Turn -> [Line -> Nat]]
    BY <1>1, LinesWritten DEF Capture
  <2> QED BY <1>1, <2>1 DEF Capture, worker, history, TypeOK, Tasks
<1>2. ASSUME NEW t \in Turn, CaptureIncomplete(t) PROVE Typed'
  <2>1. lines' \in [Turn -> [Line -> Nat]]
    BY <1>2, LinesWritten DEF CaptureIncomplete
  <2>2. left' \in LeftT
    BY <1>0, <1>2, Spent DEF CaptureIncomplete, Kinds
  <2>3. QueueOK
    <3>1. Enqueue("capture", {t})
      BY <1>2 DEF CaptureIncomplete
    <3> QED BY <3>1, Enqueued DEF Job
  <2> QED BY <1>2, <2>1, <2>2, <2>3 DEF CaptureIncomplete, worker, history, TypeOK, Tasks, LeftT, Kinds
<1>3. ASSUME NEW t \in Turn, HandToSlowQueue(t) PROVE Typed'
  <2>1. QueueOK
    <3>1. Enqueue("summarize", {t})
      BY <1>3 DEF HandToSlowQueue
    <3> QED BY <3>1, Enqueued DEF Job
  <2> QED BY <1>3, <2>1 DEF HandToSlowQueue, files, worker, history, TypeOK, Tasks
<1>4. CASE TakeTask
  <2>1. queue \in Seq(Task) /\ queue # <<>> /\ job' = Head(queue) /\ queue' = Tail(queue)
    BY <1>4 DEF TakeTask, TypeOK
  <2>2. /\ job' = queue[1] /\ 1 \in DOMAIN queue /\ queue[1] \in Task
        /\ queue' \in Seq(Task)
        /\ \A i \in DOMAIN queue' : i + 1 \in DOMAIN queue /\ queue'[i] = queue[i + 1]
    BY <2>1
  <2>3. QueueOK /\ JobOK
    BY <1>0, <2>2
  <2>4. attempt' \in 0..(Attempts - 1) /\ pc' \in {"idle", "start", "llm"}
    BY <1>4, MemoryAssumption DEF TakeTask
  <2> QED BY <1>4, <2>3, <2>4 DEF TakeTask, files, history, TypeOK, Tasks
<1> DEFINE Rest == UNCHANGED <<life, lines, mid, eps, since, identity, queue, cons, judged, forgotten,
                               torn, overlapped, left>>
           WorkerOK == /\ JobOK /\ pc' \in {"idle", "start", "llm"}
                       /\ attempt' \in 0..(Attempts - 1) /\ work' \in WorkT
<1>5. EndTask \/ Raise => WorkerOK
  BY <1>0, Ended, NoWorkTyped DEF TypeOK
<1>6. CASE CaptureAgain
  <2>1. TheTurn \in Turn
    BY <1>6, ItsTurn DEF CaptureAgain, At
  <2>2. lines' \in [Turn -> [Line -> Nat]]
    BY <1>6, <2>1, LinesWritten DEF CaptureAgain
  <2>3. left' \in LeftT
    BY <1>0, <1>6, Spent DEF CaptureAgain, Kinds
  <2>4. WorkerOK
    BY <1>5, <1>6 DEF CaptureAgain
  <2> QED BY <1>0, <1>6, <2>2, <2>3, <2>4 DEF CaptureAgain, history, TypeOK, Tasks, LeftT, Kinds
<1>7. CASE SummarizeNothing \/ ReflectNothing
  <2>1. WorkerOK /\ Rest
    BY <1>5, <1>7 DEF SummarizeNothing, ReflectNothing, files, history
  <2> QED BY <1>0, <2>1 DEF TypeOK, Tasks
<1>8. CASE SummarizeBegins \/ ReflectBegins
  <2>1. /\ Rest /\ job' = job /\ attempt' = attempt /\ pc' = "llm"
        /\ work' = work \/ work' = [todo |-> ToProcess, existing |-> eps]
    BY <1>8 DEF SummarizeBegins, ReflectBegins, files, history
  <2>2. ToProcess \subseteq Turn
    <3>1. \A t \in ToProcess : \E i \in DOMAIN mid : mid[i].turn = t
      BY DEF ToProcess
    <3>2. \A i \in DOMAIN mid : mid[i].turn \in Turn
      <4>1. \A i \in DOMAIN mid : mid[i] \in Mid
        BY DEF TypeOK
      <4> QED BY <4>1 DEF Mid
    <3> QED BY <3>1, <3>2
  <2>3. work' \in WorkT
    BY <2>1, <2>2 DEF TypeOK
  <2> QED BY <1>0, <2>1, <2>3 DEF TypeOK, Tasks
<1>9. CASE SummarizeFails \/ ReflectFails
  <2>1. left' \in LeftT
    BY <1>0, <1>9, Spent DEF SummarizeFails, ReflectFails, Kinds
  <2>2. WorkerOK
    BY <1>5, <1>9 DEF SummarizeFails, ReflectFails
  <2> QED BY <1>0, <1>9, <2>1, <2>2 DEF SummarizeFails, ReflectFails, files, history, TypeOK, Tasks, LeftT, Kinds
<1>10. CASE SummarizeReturns
  <2>1. TheTurn \in Turn /\ job.turns = {TheTurn}
    BY <1>10, ItsTurn DEF SummarizeReturns, At
  <2>2. WorkerOK
    BY <1>5, <1>10 DEF SummarizeReturns
  <2>3. QueueOK
    <3>1. CASE Enqueue("reflect", job.turns)
      BY <2>1, <3>1, Enqueued DEF Job
    <3>2. CASE UNCHANGED queue
      BY <1>0, <3>2 DEF TypeOK
    <3> QED BY <1>10, <3>1, <3>2 DEF SummarizeReturns
  <2>4. left' \in LeftT
    BY <1>0, <1>10, Spent DEF SummarizeReturns, Kinds
  <2>5. mid' \in Seq(Mid)
    <3>1. PICK kept, x : kept = (IF Len(mid) >= MaxMid THEN SubSeq(mid, Len(mid) - MaxMid + 2, Len(mid)) ELSE mid)
                         /\ x = [turn |-> TheTurn, promoted |-> FALSE]
      OBVIOUS
    <3>2. x \in Mid
      BY <2>1, <3>1 DEF Mid
    <3>3. kept \in Seq(Mid)
      <4>1. mid \in Seq(Mid) /\ Len(mid) \in Nat /\ MaxMid \in Nat \ {0}
        BY MemoryAssumption DEF TypeOK
      <4>2. CASE Len(mid) >= MaxMid
        <5>1. Len(mid) - MaxMid + 2 \in 1..(Len(mid) + 1)
          BY <4>1, <4>2
        <5> QED BY <3>1, <4>1, <4>2, <5>1, Suffix
      <4>3. CASE ~(Len(mid) >= MaxMid)
        BY <3>1, <4>1, <4>3
      <4> QED BY <4>2, <4>3
    <3>4. mid' = Append(kept, x) \/ mid' = mid
      BY <1>10, <3>1 DEF SummarizeReturns
    <3>5. Append(kept, x) \in Seq(Mid)
      BY <3>2, <3>3, Appended
    <3>6. mid \in Seq(Mid)
      BY DEF TypeOK
    <3> QED BY <3>4, <3>5, <3>6, Zenon
  <2> QED BY <1>10, <2>2, <2>3, <2>4, <2>5 DEF SummarizeReturns, history, TypeOK, Tasks, LeftT, Kinds
<1>11. CASE ReflectSkips
  <2>1. eps' \in Seq(Episode)
    BY <1>11, ClosedFacts DEF ReflectSkips
  <2>2. WorkerOK
    BY <1>5, <1>11 DEF ReflectSkips
  <2> QED BY <1>0, <1>11, <2>1, <2>2 DEF ReflectSkips, history, TypeOK, Tasks
<1>12. CASE ReflectReturns
  <2>1. eps' \in Seq(Episode)
    BY <1>12, MergeFacts, WriteFacts DEF ReflectReturns
  <2>2. WorkerOK
    BY <1>5, <1>12 DEF ReflectReturns
  <2>3. QueueOK
    <3>1. CASE Enqueue("consolidate", {})
      BY <3>1, Enqueued DEF Job
    <3>2. CASE UNCHANGED queue
      BY <1>0, <3>2 DEF TypeOK
    <3> QED BY <1>12, <3>1, <3>2 DEF ReflectReturns
  <2>4. mid' \in Seq(Mid)
    BY <1>12, Promoted DEF ReflectReturns
  <2>5. /\ since' \in Nat
        /\ UNCHANGED <<life, lines, identity, cons, judged, forgotten, torn, overlapped, left>>
    BY <1>12 DEF ReflectReturns, history, TypeOK
  <2> QED BY <2>1, <2>2, <2>3, <2>4, <2>5 DEF TypeOK, Tasks
<1>13. ASSUME NEW c \in Caller, ConsolidationStep(c) PROVE Typed'
  <2>1. cons' \in [Caller -> ConsT]
    BY <1>13, ConsolidationFacts
  <2>2. WorkerOK
    <3>1. \/ EndTask \/ Raise \/ UNCHANGED worker
          \/ pc' = "llm" /\ UNCHANGED <<job, attempt, work>>
      BY <1>13 DEF ConsolidationStep, ConsolidateNothing, ConsolidateBegins, ConsolidateFails, ConsolidateSaves,
         ConsolidateUnchanged, ConsolidateMarks, ConsolidationEnds
    <3>2. /\ job \in Task \cup {NoTask} /\ pc \in {"idle", "start", "llm"}
          /\ attempt \in 0..(Attempts - 1) /\ work \in WorkT
      BY DEF TypeOK
    <3>3. CASE UNCHANGED worker
      BY <1>0, <3>2, <3>3 DEF worker
    <3>4. CASE pc' = "llm" /\ UNCHANGED <<job, attempt, work>>
      BY <1>0, <3>2, <3>4
    <3> QED BY <1>5, <3>1, <3>3, <3>4
  <2>3. left' \in LeftT
    BY <1>0, <1>13, Spent DEF ConsolidationStep, ConsolidateNothing, ConsolidateBegins, ConsolidateFails, ConsolidateSaves,
       ConsolidateUnchanged, ConsolidateMarks, Starts, Kinds
  <2>4. eps' \in Seq(Episode) /\ identity' \subseteq Nat /\ judged' \subseteq Nat /\ since' \in Nat
        /\ overlapped' \in BOOLEAN
    BY <1>13, ConsolidationFacts
  <2>5. UNCHANGED <<life, lines, mid, queue, forgotten, torn>>
    BY <1>13 DEF ConsolidationStep, ConsolidateNothing, ConsolidateBegins, ConsolidateFails, ConsolidateSaves,
       ConsolidateUnchanged, ConsolidateMarks, files, history
  <2> QED BY <1>0, <2>1, <2>2, <2>3, <2>4, <2>5 DEF TypeOK, Tasks, LeftT, Kinds, ConsT
<1>14. CASE Sweep
  <2>1. left' \in LeftT
    BY <1>0, <1>14, Spent DEF Sweep, Kinds
  <2>2. PICK k \in DOMAIN mid : Enqueue("reflect", {mid[i].turn : i \in {n \in 1..k : ~mid[n].promoted}})
    BY <1>14 DEF Sweep
  <2>3. {mid[i].turn : i \in {n \in 1..k : ~mid[n].promoted}} \subseteq Turn
    <3>1. \A i \in 1..k : mid[i] \in Mid
      BY DEF TypeOK
    <3> QED BY <3>1 DEF Mid
  <2>4. QueueOK
    BY <2>2, <2>3, Enqueued DEF Job
  <2> QED BY <1>0, <1>14, <2>1, <2>4 DEF Sweep, files, worker, history, TypeOK, Tasks, LeftT, Kinds
<1>15. CASE Expire
  <2>1. mid' \in Seq(Mid)
    BY <1>15 DEF Expire, TypeOK
  <2> QED BY <1>0, <1>15, <2>1 DEF Expire, worker, history, TypeOK, Tasks
<1>16. ASSUME NEW i \in 1..Len(eps), Forget(i) PROVE Typed'
  <2>1. left' \in LeftT
    BY <1>0, <1>16, Spent DEF Forget, Kinds
  <2>2. eps' \in Seq(Episode)
    BY <1>16, ForgetFacts
  <2>3. forgotten' \subseteq Nat
    BY <1>16 DEF Forget, TypeOK
  <2> QED BY <1>0, <1>16, <2>1, <2>2, <2>3 DEF Forget, worker, TypeOK, Tasks, LeftT, Kinds
<1>17. CASE Crash \/ CrashInReflect
  <2>1. left' \in LeftT /\ ProcessEnds
    BY <1>0, <1>17, Spent DEF Crash, CrashInReflect, Kinds
  <2>2. eps' \in Seq(Episode) /\ torn' \subseteq Turn
    BY <1>17, MergeFacts, WriteFacts DEF Crash, CrashInReflect, TypeOK
  <2>3. WorkerOK /\ cons' \in [Caller -> ConsT] /\ queue' = <<>>
    BY <1>5, <2>1 DEF ProcessEnds, Off, ConsT
  <2>4. life' \in [Turn -> {"none", "captured", "handed"}]
    BY <2>1 DEF ProcessEnds, TypeOK
  <2>5. QueueOK
    BY <2>3
  <2> QED BY <2>1, <2>2, <2>3, <2>4, <2>5 DEF ProcessEnds, TypeOK, Tasks, LeftT, Kinds, ConsT
<1>18. CASE UNCHANGED vars
  BY <1>18 DEF vars, TypeOK, Tasks, OneTurn
<1> QED BY <1>1, <1>2, <1>3, <1>4, <1>6, <1>7, <1>8, <1>9, <1>10, <1>11, <1>12, <1>13, <1>14, <1>15,
        <1>16, <1>17, <1>18 DEF Next, ConsolidationStep
-----------------------------------------------------------------------------
(* A turn is handed to the queue once, and summarized once. *)

(* What a step does to the pipeline of turns, the queue and the task. *)
Begun ==
  \E t \in Turn : /\ life[t] = "none" /\ life' = [life EXCEPT ![t] = "captured"]
                  /\ queue' = queue \/ Enqueue("capture", {t})
                  /\ job' = job
Handed ==
  \E t \in Turn : /\ life[t] = "captured" /\ life' = [life EXCEPT ![t] = "handed"]
                  /\ Enqueue("summarize", {t})
                  /\ job' = job
Taken == /\ life' = life /\ queue # <<>> /\ job' = Head(queue) /\ queue' = Tail(queue)
         /\ pc = "idle"
Worked == /\ life' = life
          /\ job' = job \/ job' = NoTask
          /\ \/ queue' = queue
             \/ \E j \in {"reflect", "consolidate"}, T \in SUBSET Turn : Enqueue(j, T)

LEMMA Moved ==
  ASSUME Typed, [Next]_vars
  PROVE  Begun \/ Handed \/ Taken \/ Worked \/ ProcessEnds
<1>1. ASSUME NEW t \in Turn, Capture(t) \/ CaptureIncomplete(t) PROVE Begun
  BY <1>1 DEF Capture, CaptureIncomplete, Begun, worker
<1>2. ASSUME NEW t \in Turn, HandToSlowQueue(t) PROVE Handed
  BY <1>2 DEF HandToSlowQueue, Handed, worker
<1>3. CASE TakeTask
  BY <1>3 DEF TakeTask, Taken
<1>4. EndTask \/ Raise => job' = job \/ job' = NoTask
  BY DEF EndTask, Raise
<1>5. CASE CaptureAgain
  BY <1>4, <1>5 DEF CaptureAgain, Worked
<1>6. CASE SummarizeNothing \/ SummarizeBegins \/ SummarizeFails
  BY <1>4, <1>6 DEF SummarizeNothing, SummarizeBegins, SummarizeFails, Worked
<1>7. CASE SummarizeReturns
  <2>1. job.turns \subseteq Turn
    BY <1>7, ItsTurn DEF SummarizeReturns, At
  <2> QED BY <1>4, <1>7, <2>1 DEF SummarizeReturns, Worked
<1>8. CASE ReflectNothing \/ ReflectBegins \/ ReflectFails \/ ReflectSkips \/ ReflectReturns
  BY <1>4, <1>8 DEF ReflectNothing, ReflectBegins, ReflectFails, ReflectSkips, ReflectReturns, Worked
<1>9. ASSUME NEW c \in Caller, ConsolidationStep(c) PROVE Worked
  <2>1. life' = life /\ queue' = queue
    BY <1>9 DEF ConsolidationStep, ConsolidateNothing, ConsolidateBegins, ConsolidateFails, ConsolidateSaves,
       ConsolidateUnchanged, ConsolidateMarks
  <2>2. job' = job \/ job' = NoTask
    BY <1>4, <1>9 DEF ConsolidationStep, ConsolidateNothing, ConsolidateBegins, ConsolidateFails, ConsolidateSaves,
       ConsolidateUnchanged, ConsolidateMarks, ConsolidationEnds, worker
  <2> QED BY <2>1, <2>2 DEF Worked
<1>10. CASE Sweep
  <2>1. PICK k \in DOMAIN mid : Enqueue("reflect", {mid[i].turn : i \in {n \in 1..k : ~mid[n].promoted}})
    BY <1>10 DEF Sweep
  <2>2. {mid[i].turn : i \in {n \in 1..k : ~mid[n].promoted}} \subseteq Turn
    <3>1. \A i \in 1..k : mid[i] \in Mid
      BY DEF Typed, TypeOK
    <3> QED BY <3>1 DEF Mid
  <2> QED BY <1>10, <2>1, <2>2 DEF Sweep, worker, Worked
<1>11. CASE Expire \/ (\E i \in 1..Len(eps) : Forget(i)) \/ UNCHANGED vars
  BY <1>11 DEF Expire, Forget, vars, worker, Worked
<1>12. CASE Crash \/ CrashInReflect
  BY <1>12 DEF Crash, CrashInReflect
<1> QED BY <1>1, <1>2, <1>3, <1>5, <1>6, <1>7, <1>8, <1>9, <1>10, <1>11, <1>12 DEF Next, ConsolidationStep

(* A queue with one more task. *)
LEMMA Longer ==
  ASSUME Typed, NEW j, NEW T, Enqueue(j, T)
  PROVE  \E n \in Nat :
           /\ n \notin DOMAIN queue /\ DOMAIN queue' = DOMAIN queue \cup {n}
           /\ queue'[n].job = j /\ queue'[n].turns = T
           /\ \A i \in DOMAIN queue : queue'[i] = queue[i]
<1>1. PICK x : x = [job |-> j, turns |-> T]
  OBVIOUS
<1>2. queue' = Append(queue, x)
  BY <1>1 DEF Enqueue
<1>3. queue \in Seq(Task)
  BY DEF Typed, TypeOK
<1>4. DOMAIN queue' = 1..(Len(queue) + 1) /\ DOMAIN queue = 1..Len(queue) /\ Len(queue) \in Nat
      /\ (\A i \in 1..Len(queue) : queue'[i] = queue[i]) /\ queue'[Len(queue) + 1] = x
  BY <1>2, <1>3
<1> WITNESS Len(queue) + 1 \in Nat
<1> QED BY <1>1, <1>4

(* Nothing is owed that was not owed before. *)
LEMMA OwedStep ==
  ASSUME Typed, HandedOnce, [Next]_vars
  PROVE  HandedOnce' /\ \A t \in Turn : Owed(t)' => Owed(t)
<1>0. life \in [Turn -> {"none", "captured", "handed"}]
  BY DEF Typed, TypeOK
<1>1. CASE Begun
  <2>1. PICK t \in Turn : /\ life[t] = "none" /\ life' = [life EXCEPT ![t] = "captured"]
                          /\ queue' = queue \/ Enqueue("capture", {t})
                          /\ job' = job
    BY <1>1 DEF Begun
  <2>2. CASE queue' = queue
    BY <1>0, <2>1, <2>2 DEF HandedOnce, Owed, InQueue, InHand
  <2>3. CASE Enqueue("capture", {t})
    <3>1. PICK n \in Nat :
           /\ n \notin DOMAIN queue /\ DOMAIN queue' = DOMAIN queue \cup {n}
           /\ queue'[n].job = "capture"
           /\ \A i \in DOMAIN queue : queue'[i] = queue[i]
      BY <2>3, Longer
    <3> QED BY <1>0, <2>1, <3>1 DEF HandedOnce, Owed, InQueue, InHand
  <2> QED BY <2>1, <2>2, <2>3
<1>2. CASE Handed
  <2>1. PICK t \in Turn : /\ life[t] = "captured" /\ life' = [life EXCEPT ![t] = "handed"]
                          /\ Enqueue("summarize", {t})
                          /\ job' = job
    BY <1>2 DEF Handed
  <2>2. PICK n \in Nat :
           /\ n \notin DOMAIN queue /\ DOMAIN queue' = DOMAIN queue \cup {n}
           /\ queue'[n].job = "summarize" /\ queue'[n].turns = {t}
           /\ \A i \in DOMAIN queue : queue'[i] = queue[i]
    BY <2>1, Longer
  <2>3. ~InQueue(t) /\ ~InHand(t)
    BY <2>1 DEF HandedOnce
  <2> QED BY <1>0, <2>1, <2>2, <2>3 DEF HandedOnce, Owed, InQueue, InHand
<1>3. CASE Taken
  <2>1. queue \in Seq(Task) /\ queue # <<>> /\ job' = Head(queue) /\ queue' = Tail(queue) /\ life' = life
    BY <1>3 DEF Taken, Typed, TypeOK
  <2>2. /\ job' = queue[1] /\ 1 \in DOMAIN queue
        /\ \A i \in DOMAIN queue' : i \in Nat /\ i # 0 /\ i + 1 \in DOMAIN queue /\ queue'[i] = queue[i + 1]
    BY <2>1
  <2>3. \A t \in Turn : InQueue(t)' => InQueue(t)
    BY <2>2 DEF InQueue
  <2>4. \A t \in Turn : InHand(t)' => InQueue(t)
    BY <2>2 DEF InQueue, InHand
  <2>5. \A t \in Turn : InQueue(t)' => ~InHand(t)'
    BY <2>2 DEF InQueue, InHand, HandedOnce
  <2>6. \A t \in Turn, i, k \in DOMAIN queue' :
          /\ queue'[i].job = "summarize" /\ t \in queue'[i].turns
          /\ queue'[k].job = "summarize" /\ t \in queue'[k].turns
          => i = k
    <3> SUFFICES ASSUME NEW t \in Turn, NEW i \in DOMAIN queue', NEW k \in DOMAIN queue',
                        queue'[i].job = "summarize", t \in queue'[i].turns,
                        queue'[k].job = "summarize", t \in queue'[k].turns
                 PROVE  i = k
      OBVIOUS
    <3>1. i + 1 = k + 1
      BY <2>2 DEF HandedOnce
    <3> QED BY <2>2, <3>1
  <2> QED BY <2>1, <2>3, <2>4, <2>5, <2>6 DEF HandedOnce, Owed
<1>4. CASE Worked
  <2>1. life' = life /\ (job' = job \/ job' = NoTask)
    BY <1>4 DEF Worked
  <2>2. NoTask.job # "summarize"
    BY DEF NoTask
  <2>3. CASE queue' = queue
    BY <2>1, <2>2, <2>3 DEF HandedOnce, Owed, InQueue, InHand
  <2>4. CASE \E j \in {"reflect", "consolidate"}, T \in SUBSET Turn : Enqueue(j, T)
    <3>1. PICK n \in Nat :
           /\ n \notin DOMAIN queue /\ DOMAIN queue' = DOMAIN queue \cup {n}
           /\ queue'[n].job # "summarize"
           /\ \A i \in DOMAIN queue : queue'[i] = queue[i]
      BY <2>4, Longer
    <3> QED BY <2>1, <2>2, <3>1 DEF HandedOnce, Owed, InQueue, InHand
  <2> QED BY <1>4, <2>3, <2>4 DEF Worked
<1>5. CASE ProcessEnds
  <2>1. /\ queue' = <<>> /\ job' = NoTask
        /\ life' = [t \in Turn |-> IF life[t] = "captured" THEN "handed" ELSE life[t]]
    BY <1>5 DEF ProcessEnds, EndTask
  <2>2. NoTask.job # "summarize" /\ DOMAIN queue' = {}
    BY <2>1 DEF NoTask
  <2> QED BY <1>0, <2>1, <2>2 DEF HandedOnce, Owed, InQueue, InHand
<1> QED BY <1>1, <1>2, <1>3, <1>4, <1>5, Moved
-----------------------------------------------------------------------------
(* What the steps do to the summaries, to the waiting reflection and to what *)
(* episodes tell.                                                           *)
Quiet == UNCHANGED <<mid, eps, work, torn>>

LEMMA QuietSteps ==
  ASSUME [Next]_vars
  PROVE  \/ Quiet
         \/ work' = NoWork /\ UNCHANGED <<mid, eps, torn>>
         \/ SummarizeReturns \/ ReflectBegins \/ ReflectSkips \/ ReflectReturns
         \/ \E c \in Caller : ConsolidateMarks(c)
         \/ Expire \/ (\E i \in 1..Len(eps) : Forget(i)) \/ CrashInReflect
<1> USE DEF Quiet
<1>1. ASSUME NEW t \in Turn, Capture(t) \/ CaptureIncomplete(t) \/ HandToSlowQueue(t) PROVE Quiet
  BY <1>1 DEF Capture, CaptureIncomplete, HandToSlowQueue, files, worker, history
<1>2. CASE TakeTask \/ SummarizeBegins \/ Sweep \/ UNCHANGED vars
  BY <1>2 DEF TakeTask, SummarizeBegins, Sweep, files, worker, history, vars
<1>3. EndTask \/ Raise => work' = NoWork
  BY DEF EndTask, Raise
<1>4. CASE CaptureAgain \/ SummarizeNothing \/ SummarizeFails \/ ReflectNothing \/ ReflectFails
  BY <1>3, <1>4 DEF CaptureAgain, SummarizeNothing, SummarizeFails, ReflectNothing, ReflectFails, files, history
<1>5. ASSUME NEW c \in Caller, ConsolidationStep(c), ~ConsolidateMarks(c)
      PROVE  (work' = work \/ work' = NoWork) /\ UNCHANGED <<mid, eps, torn>>
  BY <1>3, <1>5 DEF ConsolidationStep, ConsolidateNothing, ConsolidateBegins, ConsolidateFails, ConsolidateSaves,
     ConsolidateUnchanged, ConsolidationEnds, files, worker, history
<1>6. CASE Crash
  BY <1>6 DEF Crash, ProcessEnds, EndTask
<1> QED BY <1>1, <1>2, <1>4, <1>5, <1>6 DEF Next, ConsolidationStep

(* A summary that is new is that of the task in the worker's hand. *)
New(t) == SummarizeReturns /\ job.turns = {t} /\ InHand(t)

LEMMA MidStep ==
  ASSUME Typed, [Next]_vars, NEW t \in Turn
  PROVE  /\ InMid(t)' => InMid(t) \/ New(t)
         /\ Open(t)' => Open(t) \/ New(t)
         /\ t \in work'.todo => t \in work.todo \/ Open(t)
<1>1. NoWork.todo = {}
  BY DEF NoWork
<1>2. CASE UNCHANGED mid /\ work' \in {work, NoWork}
  BY <1>1, <1>2 DEF InMid, Open
<1>3. CASE SummarizeReturns
  <2>1. TheTurn \in Turn /\ job.turns = {TheTurn} /\ job.job = "summarize"
    BY <1>3, ItsTurn DEF SummarizeReturns, At
  <2>2. work' = NoWork
    BY <1>3 DEF SummarizeReturns, EndTask
  <2>3. \A n \in DOMAIN mid' : mid'[n].turn = TheTurn \/ \E m \in DOMAIN mid : mid'[n] = mid[m]
    <3>1. PICK kept, x : kept = (IF Len(mid) >= MaxMid THEN SubSeq(mid, Len(mid) - MaxMid + 2, Len(mid)) ELSE mid)
                         /\ x = [turn |-> TheTurn, promoted |-> FALSE]
      OBVIOUS
    <3>2. x \in Mid /\ x.turn = TheTurn
      BY <2>1, <3>1 DEF Mid
    <3>3. kept \in Seq(Mid) /\ \A n \in DOMAIN kept : \E m \in DOMAIN mid : kept[n] = mid[m]
      <4>1. mid \in Seq(Mid) /\ Len(mid) \in Nat /\ MaxMid \in Nat \ {0}
        BY MemoryAssumption DEF Typed, TypeOK
      <4>2. CASE Len(mid) >= MaxMid
        <5>1. Len(mid) - MaxMid + 2 \in 1..(Len(mid) + 1)
          BY <4>1, <4>2
        <5> QED BY <3>1, <4>1, <4>2, <5>1, Suffix
      <4>3. CASE ~(Len(mid) >= MaxMid)
        BY <3>1, <4>1, <4>3
      <4> QED BY <4>2, <4>3
    <3>4. mid' = Append(kept, x) \/ mid' = mid
      BY <1>3, <3>1 DEF SummarizeReturns
    <3>5. CASE mid' = Append(kept, x)
      <4>1. \A n \in DOMAIN mid' : mid'[n] = x \/ (n \in DOMAIN kept /\ mid'[n] = kept[n])
        BY <3>2, <3>3, <3>5
      <4> QED BY <3>2, <3>3, <4>1
    <3> QED BY <3>4, <3>5
  <2> QED BY <1>1, <1>3, <2>1, <2>2, <2>3 DEF InMid, Open, New, InHand
<1>4. CASE ReflectBegins
  <2>1. mid' = mid /\ work'.todo = ToProcess
    BY <1>4 DEF ReflectBegins, files
  <2> QED BY <2>1 DEF InMid, Open, ToProcess
<1>5. CASE ReflectReturns
  <2>1. work' = NoWork
    BY <1>5 DEF ReflectReturns, EndTask
  <2> QED BY <1>1, <1>5, <2>1, Promoted DEF ReflectReturns, Typed, InMid, Open
<1>6. CASE Expire
  <2>1. \A n \in DOMAIN mid' : \E m \in DOMAIN mid : mid'[n] = mid[m]
    <3>1. mid \in Seq(Mid) /\ mid # <<>> /\ mid' = Tail(mid)
      BY <1>6 DEF Expire, Typed, TypeOK
    <3>2. \A n \in DOMAIN mid' : n + 1 \in DOMAIN mid /\ mid'[n] = mid[n + 1]
      BY <3>1
    <3> QED BY <3>2
  <2>2. work' = work
    BY <1>6 DEF Expire, worker
  <2> QED BY <2>1, <2>2 DEF InMid, Open
<1>7. CASE \/ ReflectSkips \/ CrashInReflect
           \/ (\E i \in 1..Len(eps) : Forget(i)) \/ (\E c \in Caller : ConsolidateMarks(c))
  <2>1. mid' = mid /\ work' \in {work, NoWork}
    BY <1>7 DEF ReflectSkips, CrashInReflect, ProcessEnds, Forget, ConsolidateMarks, ConsolidationEnds,
       EndTask, worker
  <2> QED BY <1>2, <2>1
<1> QED BY <1>2, <1>3, <1>4, <1>5, <1>6, <1>7, QuietSteps DEF Quiet

LEMMA SummedStep ==
  ASSUME Typed, HandedOnce, Summed, [Next]_vars
  PROVE  Summed'
<1> SUFFICES ASSUME NEW t \in Turn, InMid(t)' \/ t \in work'.todo PROVE ~Owed(t)'
  BY DEF Summed
<1>1. CASE InMid(t) \/ t \in work.todo
  BY <1>1, OwedStep DEF Summed
<1>2. CASE New(t)
  <2>1. InHand(t) /\ life[t] = "handed" /\ ~InQueue(t)
    BY <1>2 DEF New, HandedOnce
  <2>2. job' = NoTask /\ life' = life
    BY <1>2 DEF New, SummarizeReturns, EndTask
  <2>3. ~InHand(t)'
    BY <2>2 DEF InHand, NoTask
  <2>4. ~InQueue(t)'
    <3>1. queue' = queue \/ Enqueue("reflect", job.turns)
      BY <1>2 DEF New, SummarizeReturns
    <3>2. CASE queue' = queue
      BY <2>1, <3>2 DEF InQueue
    <3>3. CASE Enqueue("reflect", job.turns)
      <4>1. PICK n \in Nat :
             /\ DOMAIN queue' = DOMAIN queue \cup {n}
             /\ queue'[n].job = "reflect"
             /\ \A i \in DOMAIN queue : queue'[i] = queue[i]
        BY <3>3, Longer
      <4> QED BY <2>1, <4>1 DEF InQueue
    <3> QED BY <3>1, <3>2, <3>3
  <2> QED BY <2>1, <2>2, <2>3, <2>4 DEF Owed
<1>3. Open(t) => InMid(t)
  BY DEF Open, InMid
<1> QED BY <1>1, <1>2, <1>3, MidStep
-----------------------------------------------------------------------------
(* What episodes tell. *)

(* The list tells what it told. *)
SameTold ==
  /\ DOMAIN eps' = DOMAIN eps
  /\ \A i \in DOMAIN eps : eps'[i].turns = eps[i].turns /\ eps'[i].mids = eps[i].mids

(* A reflection is told: its summaries are marked, or the process ended. *)
Told ==
  /\ Locked
  /\ (Merged /\ (ReflectReturns \/ work.todo \subseteq torn')) \/ Adds

LEMMA EpisodesStep ==
  ASSUME Typed, [Next]_vars
  PROVE  torn \subseteq torn' /\ (SameTold \/ Told)
<1>0. TypeOK
  BY DEF Typed
<1>1. CASE UNCHANGED <<eps, torn>>
  BY <1>1 DEF SameTold
<1>2. CASE SummarizeReturns \/ ReflectBegins \/ Expire
  BY <1>1, <1>2 DEF SummarizeReturns, ReflectBegins, Expire, files, history
<1>3. CASE ReflectSkips
  <2>1. torn' = torn /\ \E C : eps' = Closed(C)
    BY <1>3 DEF ReflectSkips, history
  <2> QED BY <1>0, <2>1, ClosedFacts DEF SameTold, Same
<1>4. CASE ReflectReturns
  <2>1. torn' = torn /\ Locked /\ (Merge \/ Write)
    BY <1>4 DEF ReflectReturns, history, Locked, At
  <2> QED BY <1>0, <1>4, <2>1, MergeFacts, WriteFacts DEF SameTold, Same, Told
<1>5. ASSUME NEW c \in Caller, ConsolidateMarks(c) PROVE torn' = torn /\ SameTold
  BY <1>0, <1>5, MarksFacts DEF ConsolidateMarks, history, SameTold
<1>6. ASSUME NEW i, Forget(i) PROVE torn' = torn /\ SameTold
  BY <1>0, <1>6, ForgetFacts DEF Forget, SameTold, Same
<1>7. CASE CrashInReflect
  <2>1. Locked /\ torn \subseteq torn' /\ ((Merge /\ work.todo \subseteq torn') \/ Write)
    BY <1>7 DEF CrashInReflect, Locked, At
  <2> QED BY <1>0, <2>1, MergeFacts, WriteFacts DEF SameTold, Same, Told
<1> QED BY <1>1, <1>2, <1>3, <1>4, <1>5, <1>6, <1>7, QuietSteps DEF Quiet

(* A reflection that still waits has seen nothing change but what was forgotten. *)
LEMMA WaitStep ==
  ASSUME Typed, [Next]_vars, Locked'
  PROVE  \/ ReflectBegins
         \/ Locked /\ work' = work /\ (eps' = eps \/ \E i \in 1..Len(eps) : Forget(i))
<1>1. EndTask \/ Raise => pc' # "llm"
  BY DEF EndTask, Raise
<1>2. ASSUME NEW t \in Turn, Capture(t) \/ CaptureIncomplete(t) \/ HandToSlowQueue(t)
      PROVE  UNCHANGED worker /\ eps' = eps
  BY <1>2 DEF Capture, CaptureIncomplete, HandToSlowQueue, files
<1>3. CASE Sweep \/ Expire \/ UNCHANGED vars
  BY <1>3 DEF Sweep, Expire, files, worker, vars, Locked
<1>4. CASE \/ TakeTask \/ CaptureAgain \/ SummarizeNothing \/ SummarizeFails \/ SummarizeReturns
           \/ ReflectNothing \/ ReflectFails \/ ReflectSkips \/ ReflectReturns
           \/ Crash \/ CrashInReflect
  BY <1>1, <1>4 DEF TakeTask, CaptureAgain, SummarizeNothing, SummarizeFails, SummarizeReturns,
     ReflectNothing, ReflectFails, ReflectSkips, ReflectReturns, Crash, CrashInReflect, ProcessEnds, Locked
<1>5. CASE SummarizeBegins
  BY <1>5 DEF SummarizeBegins, At, Locked
<1>6. ASSUME NEW c \in Caller, ConsolidationStep(c)
      PROVE  UNCHANGED worker /\ eps' = eps
  <2>1. CASE ConsolidateBegins(c)
    <3>1. c = "worker" => job.job = "consolidate" /\ job' = job
      BY <2>1 DEF ConsolidateBegins, Starts, At
    <3>2. c # "worker"
      BY <3>1 DEF Locked
    <3> QED BY <2>1, <3>2 DEF ConsolidateBegins, files
  <2>2. CASE ConsolidateMarks(c)
    <3>1. ~Locked /\ (EndTask \/ UNCHANGED worker)
      BY <2>2 DEF ConsolidateMarks, ConsolidationEnds
    <3> QED BY <1>1, <3>1 DEF Locked, worker
  <2>3. CASE ConsolidateNothing(c) \/ ConsolidateFails(c) \/ ConsolidateSaves(c) \/ ConsolidateUnchanged(c)
    <3>1. eps' = eps /\ (EndTask \/ Raise \/ UNCHANGED worker)
      BY <2>3 DEF ConsolidateNothing, ConsolidateFails, ConsolidateSaves, ConsolidateUnchanged,
         ConsolidationEnds, files
    <3> QED BY <1>1, <3>1 DEF Locked
  <2> QED BY <1>6, <2>1, <2>2, <2>3 DEF ConsolidationStep
<1>7. ASSUME NEW i, Forget(i) PROVE UNCHANGED worker
  BY <1>7 DEF Forget
<1> QED BY <1>2, <1>3, <1>4, <1>5, <1>6, <1>7 DEF Next, ConsolidationStep, worker, Locked

LEMMA FreshStep ==
  ASSUME Typed, HandedOnce, Summed, Accounted, Fresh, [Next]_vars
  PROVE  Fresh'
<1> SUFFICES ASSUME Locked' PROVE /\ Same(work'.existing, eps')
                                  /\ \A i \in DOMAIN eps' : eps'[i].turns \cap work'.todo \subseteq torn'
  BY DEF Fresh
<1>1. torn \subseteq torn'
  BY EpisodesStep
<1>2. CASE Locked /\ work' = work /\ (eps' = eps \/ \E i \in 1..Len(eps) : Forget(i))
  <2>1. Same(eps', eps)
    BY <1>2, ForgetFacts DEF Typed, Same
  <2> QED BY <1>1, <1>2, <2>1 DEF Fresh, Same
<1>3. CASE ReflectBegins
  <2>1. work'.existing = eps /\ work'.todo = ToProcess /\ eps' = eps /\ ~AlreadyReflected
    BY <1>3 DEF ReflectBegins, files
  <2>2. \A t \in ToProcess : t \in job.turns /\ Open(t)
    BY DEF ToProcess, Open
  <2>3. ASSUME NEW i \in DOMAIN eps, NEW t \in eps[i].turns, t \in ToProcess PROVE t \in torn
    <3>1. t \notin eps[i].mids
      BY <2>1, <2>2, <2>3 DEF AlreadyReflected
    <3> QED BY <2>2, <2>3, <3>1 DEF Accounted
  <2> QED BY <1>1, <2>1, <2>3 DEF Same
<1> QED BY <1>2, <1>3, WaitStep

(* What is told stays accounted for, and is told once. *)
LEMMA ToldStep ==
  ASSUME Typed, HandedOnce, Summed, Accounted, OneEpisodePerTurn, Fresh, [Next]_vars
  PROVE  Accounted' /\ OneEpisodePerTurn'
<1>1. torn \subseteq torn'
  BY EpisodesStep
<1>2. \A i \in DOMAIN eps : eps[i].turns \subseteq Turn
  <2>1. \A i \in DOMAIN eps : eps[i] \in Episode
    BY DEF Typed, TypeOK
  <2> QED BY <2>1, EpisodeFields
<1>3. work.todo \subseteq Turn
  BY DEF Typed, TypeOK
<1>4. \A t \in Turn : ~Open(t) /\ ~Owed(t) => ~Open(t)' /\ ~Owed(t)'
  BY MidStep, OwedStep DEF New, Owed
<1>5. CASE SameTold
  <2>1. Accounted'
    BY <1>1, <1>2, <1>4, <1>5 DEF Accounted, SameTold
  <2>2. OneEpisodePerTurn'
    BY <1>1, <1>5 DEF OneEpisodePerTurn, SameTold
  <2> QED BY <2>1, <2>2
<1>6. CASE Locked /\ Merged /\ (ReflectReturns \/ work.todo \subseteq torn')
  <2>1. PICK d \in DOMAIN eps' : \A i \in DOMAIN eps' :
          /\ eps'[i].mids = work.existing[i].mids
          /\ eps'[i].turns = work.existing[i].turns \cup (IF i = d THEN work.todo ELSE {})
    BY <1>6 DEF Merged
  <2>2. DOMAIN eps' = DOMAIN eps
        /\ \A i \in DOMAIN eps : /\ eps'[i].mids = eps[i].mids
                                 /\ eps'[i].turns = eps[i].turns \cup (IF i = d THEN work.todo ELSE {})
    BY <1>6, <2>1 DEF Fresh, Same, Merged
  <2>3. \A i \in DOMAIN eps : eps[i].turns \cap work.todo \subseteq torn
    BY <1>6 DEF Fresh
  <2>4. OneEpisodePerTurn'
    <3> SUFFICES ASSUME NEW i \in DOMAIN eps, NEW k \in DOMAIN eps, i # k,
                        NEW t \in eps'[i].turns, t \in eps'[k].turns
                 PROVE  t \in torn
      BY <1>1, <2>2 DEF OneEpisodePerTurn
    <3>1. CASE t \in eps[i].turns /\ t \in eps[k].turns
      BY <3>1 DEF OneEpisodePerTurn
    <3>2. CASE t \in work.todo
      BY <2>2, <2>3, <3>2
    <3> QED BY <2>2, <3>1, <3>2
  <2>5. \A t \in work.todo : t \in torn' \/ (~Open(t)' /\ ~Owed(t)')
    <3>1. CASE ReflectReturns
      <4>1. /\ DOMAIN mid' = DOMAIN mid
            /\ \A i \in DOMAIN mid : /\ mid'[i].turn = mid[i].turn
                                     /\ mid[i].turn \in work.todo => mid'[i].promoted
        BY <3>1, Promoted DEF ReflectReturns, Typed
      <4>2. \A t \in work.todo : ~Open(t)'
        BY <4>1 DEF Open
      <4>3. \A t \in work.todo : ~Owed(t)'
        BY <1>3, OwedStep DEF Summed
      <4> QED BY <4>2, <4>3
    <3>2. CASE work.todo \subseteq torn'
      BY <3>2
    <3> QED BY <1>6, <3>1, <3>2
  <2>6. Accounted'
    <3> SUFFICES ASSUME NEW i \in DOMAIN eps, NEW t \in eps'[i].turns
                 PROVE  t \in torn' \/ t \in eps'[i].mids \/ (~Open(t)' /\ ~Owed(t)')
      BY <2>2 DEF Accounted
    <3>1. CASE t \in eps[i].turns
      BY <1>1, <1>2, <1>4, <2>2, <3>1 DEF Accounted
    <3>2. CASE t \in work.todo
      BY <2>5, <3>2
    <3> QED BY <2>2, <3>1, <3>2
  <2> QED BY <2>4, <2>6
<1>7. CASE Adds
  <2>1. PICK n : n = Len(eps) + 1
    OBVIOUS
  <2>2. /\ \A i \in DOMAIN eps : eps[i].turns \cap work.todo = {}
        /\ DOMAIN eps' = DOMAIN eps \cup {n} /\ n \notin DOMAIN eps
        /\ \A i \in DOMAIN eps : eps'[i].turns = eps[i].turns /\ eps'[i].mids = eps[i].mids
        /\ eps'[n].turns = work.todo /\ eps'[n].mids = work.todo
    BY <1>7, <2>1 DEF Adds
  <2>3. OneEpisodePerTurn'
    BY <1>1, <2>2 DEF OneEpisodePerTurn
  <2>4. Accounted'
    BY <1>1, <1>2, <1>4, <2>2 DEF Accounted
  <2> QED BY <2>3, <2>4
<1> QED BY <1>5, <1>6, <1>7, EpisodesStep DEF Told

-----------------------------------------------------------------------------
(* What is captured. *)
LEMMA CapturedStep ==
  ASSUME Typed, CapturedOnce, [Next]_vars
  PROVE  CapturedOnce'
<1>0. lines \in [Turn -> [Line -> Nat]]
  BY DEF Typed, TypeOK
<1>1. ASSUME NEW t \in Turn, NEW failed, WriteLines(t, failed) PROVE CapturedOnce'
  <2>1. PICK g : g = [l \in Line |-> IF l \in LinesOf(t) \ failed /\ ~AlreadyThere(t, l)
                                   THEN lines[t][l] + 1 ELSE lines[t][l]]
    OBVIOUS
  <2>2. lines' = [lines EXCEPT ![t] = g]
    BY <1>1, <2>1 DEF WriteLines
  <2>3. \A l \in Line : g[l] > 1 => l = "short_assistant" /\ t \in Rewritten
    <3> SUFFICES ASSUME NEW l \in Line, g[l] > 1 PROVE l = "short_assistant" /\ t \in Rewritten
      OBVIOUS
    <3>1. lines[t][l] \in Nat
      BY <1>0
    <3>2. CASE lines[t][l] > 1
      BY <3>2 DEF CapturedOnce
    <3>3. CASE lines[t][l] = 1
      BY <2>1, <3>3 DEF AlreadyThere
    <3>4. CASE lines[t][l] = 0
      BY <2>1, <3>4
    <3> QED BY <3>1, <3>2, <3>3, <3>4
  <2> QED BY <1>0, <2>2, <2>3 DEF CapturedOnce
<1>2. CASE UNCHANGED lines
  BY <1>2 DEF CapturedOnce
<1>3. ASSUME NEW t \in Turn, Capture(t) \/ CaptureIncomplete(t) PROVE CapturedOnce'
  BY <1>1, <1>3 DEF Capture, CaptureIncomplete
<1>4. CASE CaptureAgain
  <2>1. TheTurn \in Turn
    BY <1>4, ItsTurn DEF CaptureAgain, At
  <2> QED BY <1>1, <1>4, <2>1 DEF CaptureAgain
<1>5. ASSUME NEW t \in Turn, HandToSlowQueue(t) PROVE UNCHANGED lines
  BY <1>5 DEF HandToSlowQueue, files
<1>6. CASE \/ TakeTask \/ SummarizeNothing \/ SummarizeBegins \/ SummarizeFails \/ SummarizeReturns
           \/ ReflectNothing \/ ReflectBegins \/ ReflectFails \/ ReflectSkips \/ ReflectReturns
           \/ Sweep \/ Expire \/ Crash \/ CrashInReflect \/ UNCHANGED vars
           \/ \E i \in 1..Len(eps) : Forget(i)
  <2>1. UNCHANGED lines
    BY <1>6 DEF TakeTask, SummarizeNothing, SummarizeBegins, SummarizeFails, SummarizeReturns,
       ReflectNothing, ReflectBegins, ReflectFails, ReflectSkips, ReflectReturns,
       Sweep, Expire, Crash, CrashInReflect, ProcessEnds, Forget, files, vars
  <2> QED BY <1>2, <2>1
<1>7. ASSUME NEW c \in Caller, ConsolidationStep(c) PROVE UNCHANGED lines
  BY <1>7 DEF ConsolidationStep, ConsolidateNothing, ConsolidateBegins, ConsolidateFails, ConsolidateSaves,
     ConsolidateUnchanged, ConsolidateMarks, files
<1> QED BY <1>2, <1>3, <1>4, <1>5, <1>6, <1>7 DEF Next, ConsolidationStep
-----------------------------------------------------------------------------
(* Consolidation *)

(* What a step does to the marks of the episodes. *)
LEMMA MarksStep ==
  ASSUME Typed, Fresh, [Next]_vars,
         NEW i \in DOMAIN eps', eps'[i].fed
  PROVE  \/ i \in DOMAIN eps /\ eps[i].fed
         \/ \E c \in Caller : ConsolidateMarks(c) /\ i \in cons[c].snap
<1>0. TypeOK
  BY DEF Typed
<1>1. CASE eps' = eps
  BY <1>1
<1>2. CASE Same(eps', eps)
  BY <1>2 DEF Same
<1>3. CASE Locked /\ (Merge \/ Write)
  <2>1. Same(eps', eps) \/ Adds \/ Merged
    BY <1>0, <1>3, MergeFacts, WriteFacts
  <2>2. Same(work.existing, eps)
    BY <1>3 DEF Fresh
  <2>3. CASE Adds
    <3>1. PICK n : n = Len(eps) + 1
      OBVIOUS
    <3>2. /\ DOMAIN eps' = DOMAIN eps \cup {n} /\ eps'[n].fed = FALSE
          /\ \A k \in DOMAIN eps : eps'[k].fed = eps[k].fed
      BY <2>3, <3>1 DEF Adds
    <3> QED BY <3>2
  <2>4. CASE Merged
    BY <2>2, <2>4 DEF Merged, Same
  <2> QED BY <1>2, <2>1, <2>3, <2>4
<1>4. CASE ReflectSkips
  <2>1. \E C : eps' = Closed(C)
    BY <1>4 DEF ReflectSkips
  <2> QED BY <1>0, <1>2, <2>1, ClosedFacts
<1>5. CASE ReflectReturns \/ CrashInReflect
  BY <1>3, <1>5 DEF ReflectReturns, CrashInReflect, Locked, At
<1>6. ASSUME NEW c \in Caller, ConsolidateMarks(c)
      PROVE  i \in DOMAIN eps /\ (eps[i].fed \/ i \in cons[c].snap)
  BY <1>0, <1>6, MarksFacts
<1>7. ASSUME NEW k, Forget(k) PROVE Same(eps', eps)
  BY <1>0, <1>7, ForgetFacts
<1>8. CASE SummarizeReturns \/ ReflectBegins \/ Expire
  BY <1>1, <1>8 DEF SummarizeReturns, ReflectBegins, Expire, files
<1> QED BY <1>1, <1>2, <1>4, <1>5, <1>6, <1>7, <1>8, QuietSteps DEF Quiet

(* The variables of the consolidations. *)
Untouched == UNCHANGED <<cons, identity, judged, overlapped>>

LEMMA UntouchedSteps ==
  ASSUME [Next]_vars
  PROVE  \/ Untouched
         \/ cons' = [c \in Caller |-> Off] /\ UNCHANGED <<identity, judged, overlapped>>
         \/ \E c \in Caller : ConsolidationStep(c)
<1> USE DEF Untouched
<1>1. ASSUME NEW t \in Turn, Capture(t) \/ CaptureIncomplete(t) \/ HandToSlowQueue(t) PROVE Untouched
  BY <1>1 DEF Capture, CaptureIncomplete, HandToSlowQueue, files, history
<1>2. CASE \/ TakeTask \/ CaptureAgain \/ SummarizeNothing \/ SummarizeBegins \/ SummarizeFails
           \/ SummarizeReturns \/ ReflectNothing \/ ReflectBegins \/ ReflectFails \/ ReflectSkips
           \/ ReflectReturns \/ Sweep \/ Expire \/ UNCHANGED vars
           \/ \E i \in 1..Len(eps) : Forget(i)
  BY <1>2 DEF TakeTask, CaptureAgain, SummarizeNothing, SummarizeBegins, SummarizeFails, SummarizeReturns,
     ReflectNothing, ReflectBegins, ReflectFails, ReflectSkips, ReflectReturns, Sweep, Expire, Forget,
     files, history, vars
<1>3. CASE Crash \/ CrashInReflect
  BY <1>3 DEF Crash, CrashInReflect, ProcessEnds
<1> QED BY <1>1, <1>2, <1>3 DEF Next, ConsolidationStep

LEMMA AloneStep ==
  ASSUME Typed, Alone, [Next]_vars
  PROVE  Alone' /\ (~overlapped' => ~overlapped /\ identity \cup judged \subseteq identity' \cup judged')
<1>0. cons \in [Caller -> ConsT]
  BY DEF Typed, TypeOK, ConsT
<1>1. CASE Untouched
  BY <1>1 DEF Untouched, Alone
<1>2. CASE cons' = [c \in Caller |-> Off] /\ UNCHANGED <<identity, judged, overlapped>>
  BY <1>2 DEF Alone, Off
<1>3. ASSUME NEW c \in Caller, ConsolidationStep(c)
      PROVE  Alone' /\ (~overlapped' => ~overlapped /\ identity \cup judged \subseteq identity' \cup judged')
  <2>1. CASE ConsolidateNothing(c) \/ ConsolidateFails(c) \/ ConsolidateMarks(c)
    <3>1. cons' = [cons EXCEPT ![c] = Off] /\ UNCHANGED <<identity, judged, overlapped>>
      BY <2>1 DEF ConsolidateNothing, ConsolidateFails, ConsolidateMarks, ConsolidationEnds, files, history
    <3>2. \A o \in Caller : cons'[o] = Off \/ cons'[o] = cons[o]
      BY <1>0, <3>1
    <3> QED BY <3>1, <3>2 DEF Alone, Off
  <2>2. CASE ConsolidateBegins(c)
    <3>1. PICK x : x = [pc |-> "llm", base |-> identity, snap |-> Unfed]
      OBVIOUS
    <3>2. x.pc = "llm" /\ x.base = identity
      BY <3>1
    <3>3. /\ cons' = [cons EXCEPT ![c] = x] /\ UNCHANGED <<identity, judged>>
          /\ ~overlapped' => ~overlapped /\ \A o \in Caller \ {c} : cons[o].pc = "off"
      BY <2>2, <3>1 DEF ConsolidateBegins, files
    <3>4. cons'[c] = x /\ \A o \in Caller \ {c} : cons'[o] = cons[o]
      BY <1>0, <3>3
    <3> QED BY <3>2, <3>3, <3>4 DEF Alone
  <2>3. CASE ConsolidateSaves(c) \/ ConsolidateUnchanged(c)
    <3>1. /\ cons[c].pc = "llm" /\ overlapped' = overlapped
          /\ cons' = [cons EXCEPT ![c].pc = "mark"]
          /\ \/ identity' = cons[c].base \cup cons[c].snap /\ judged' = judged
             \/ identity' = identity /\ judged' = judged \cup cons[c].snap
      BY <2>3 DEF ConsolidateSaves, ConsolidateUnchanged, files, history
    <3>2. /\ cons'[c].pc = "mark" /\ cons'[c].snap = cons[c].snap
          /\ \A o \in Caller \ {c} : cons'[o] = cons[o]
      BY <1>0, <3>1 DEF ConsT
    <3>3. SUFFICES ASSUME ~overlapped
                   PROVE  Alone' /\ identity \cup judged \subseteq identity' \cup judged'
      BY <3>1 DEF Alone
    <3>4. cons[c].base = identity /\ \A o \in Caller \ {c} : cons[o].pc = "off"
      BY <3>1, <3>3 DEF Alone
    <3>5. cons'[c].snap \subseteq identity' \cup judged'
      BY <3>1, <3>2
    <3>6. \A o \in Caller \ {c} : cons'[o].pc = "off"
      BY <3>2, <3>4
    <3>7. Alone'
      BY <3>2, <3>5, <3>6 DEF Alone
    <3> QED BY <3>1, <3>4, <3>7
  <2> QED BY <1>3, <2>1, <2>2, <2>3 DEF ConsolidationStep
<1> QED BY <1>1, <1>2, <1>3, UntouchedSteps

LEMMA FedStep ==
  ASSUME Typed, Fresh, Alone, FedIsKept, [Next]_vars
  PROVE  FedIsKept'
<1> SUFFICES ASSUME ~overlapped', NEW i \in DOMAIN eps', eps'[i].fed PROVE i \in identity' \cup judged'
  BY DEF FedIsKept
<1>1. ~overlapped /\ identity \cup judged \subseteq identity' \cup judged'
  BY AloneStep
<1>2. CASE i \in DOMAIN eps /\ eps[i].fed
  BY <1>1, <1>2 DEF FedIsKept
<1>3. ASSUME NEW c \in Caller, ConsolidateMarks(c), i \in cons[c].snap PROVE i \in identity \cup judged
  BY <1>1, <1>3 DEF ConsolidateMarks, Alone
<1> QED BY <1>1, <1>2, <1>3, MarksStep

-----------------------------------------------------------------------------
LEMMA InitHolds == Init => IInv
<1> SUFFICES ASSUME Init PROVE IInv
  OBVIOUS
<1>1. /\ DOMAIN queue = {} /\ DOMAIN mid = {} /\ job = NoTask /\ work = NoWork /\ pc = "idle"
      /\ cons = [c \in Caller |-> Off]
  BY DEF Init
<1>2. Typed
  BY InitTyped
<1>3. NoTask.job = "none" /\ NoWork.todo = {} /\ Off.pc = "off"
  BY DEF NoTask, NoWork, Off
<1>4. HandedOnce /\ Summed /\ Fresh /\ Alone
  BY <1>1, <1>3 DEF HandedOnce, InQueue, InHand, Summed, InMid, Fresh, Locked, Alone
<1>5. \A i \in DOMAIN eps : eps[i].turns = {} /\ i \in identity
  BY DEF Init
<1>6. Accounted /\ OneEpisodePerTurn /\ FedIsKept
  BY <1>5 DEF Accounted, OneEpisodePerTurn, FedIsKept
<1>7. CapturedOnce
  BY DEF Init, CapturedOnce
<1> QED BY <1>2, <1>4, <1>6, <1>7 DEF IInv

LEMMA StepKeeps == IInv /\ [Next]_vars => IInv'
  BY StepTyped, OwedStep, SummedStep, ToldStep, FreshStep, CapturedStep, AloneStep, FedStep DEF IInv

THEOREM IInvHolds == Spec => []IInv
  BY InitHolds, StepKeeps, PTL DEF Spec

-----------------------------------------------------------------------------
(* Every variable keeps its type: the retries end where slow_queue's do, an *)
(* index of the identity is that of an episode, a waiting handler has what  *)
(* it read.                                                                 *)
THEOREM TypeCorrect == Spec => []TypeOK
<1>1. IInv => TypeOK
  BY DEF IInv, Typed
<1> QED BY <1>1, IInvHolds, PTL

(* However often a turn is captured again, capture_turn() writes no line of *)
(* it twice, but for a reply that short_term.load() rewrites.               *)
THEOREM LinesOnce == Spec => []CapturedOnce
<1>1. IInv => CapturedOnce
  BY DEF IInv
<1> QED BY <1>1, IInvHolds, PTL

(* A turn is told in one episode at most, through every reflection, sweep,  *)
(* retry and crash, unless a crash cut its merge from the mark.             *)
THEOREM ToldInOneEpisode == Spec => []OneEpisodePerTurn
<1>1. IInv => OneEpisodePerTurn
  BY DEF IInv
<1> QED BY <1>1, IInvHolds, PTL

(* While no two consolidations overlapped, what is marked as consolidated   *)
(* is in the identity file, or changed nothing there.                       *)
THEOREM EvidenceKept == Spec => []FedIsKept
<1>1. IInv => FedIsKept
  BY DEF IInv
<1> QED BY <1>1, IInvHolds, PTL

-----------------------------------------------------------------------------
(* What is forgotten comes back only when a merge saves the list it read    *)
(* before its wait: forget_episodes() does not take the lock that a         *)
(* reflection holds.                                                        *)
ForgetLocked == \A i \in 1..Len(eps) : Forget(i) => ~Locked

Gone ==
  /\ forgotten \subseteq DOMAIN eps
  /\ ForgottenStays
  /\ Locked => work.existing = eps

(* No step opens an episode. *)
NoneOpened ==
  /\ DOMAIN eps \subseteq DOMAIN eps'
  /\ \A i \in DOMAIN eps : eps[i].status # "open" => eps'[i].status # "open"

LEMMA MergeOpens ==
  ASSUME TypeOK, Merge, work.existing = eps
  PROVE  NoneOpened
<1>1. PICK d \in DOMAIN eps : eps' = [eps EXCEPT ![d].turns = @ \cup work.todo]
  BY DEF Merge, MergedInto
<1>2. eps \in Seq(Episode) /\ \A i \in DOMAIN eps : eps[i] \in Episode
  BY DEF TypeOK
<1>3. PICK T : T = work.todo
  OBVIOUS
<1>4. DOMAIN eps' = DOMAIN eps /\ \A i \in DOMAIN eps :
        eps'[i] = IF i = d THEN [eps[i] EXCEPT !.turns = @ \cup T] ELSE eps[i]
  BY <1>1, <1>2, <1>3
<1>5. \A i \in DOMAIN eps : eps'[i].status = eps[i].status
  BY <1>2, <1>4 DEF Episode
<1> QED BY <1>4, <1>5 DEF NoneOpened

LEMMA ClosedOpens ==
  ASSUME TypeOK, NEW C
  PROVE  /\ Closed(C) \in Seq(Episode) /\ DOMAIN Closed(C) = DOMAIN eps
         /\ \A i \in DOMAIN eps : eps[i].status # "open" => Closed(C)[i].status # "open"
<1>1. eps \in Seq(Episode) /\ \A i \in DOMAIN eps : eps[i] \in Episode
  BY DEF TypeOK
<1>2. Closed(C) \in Seq(Episode) /\ DOMAIN Closed(C) = DOMAIN eps
  BY ClosedFacts DEF Same
<1>3. \A i \in DOMAIN eps : Closed(C)[i].status \in {eps[i].status, "resolved"}
  BY <1>1 DEF Closed, Episode
<1> QED BY <1>2, <1>3

LEMMA WriteOpens ==
  ASSUME TypeOK, Write
  PROVE  NoneOpened
<1>1. PICK C \in SUBSET Closable, core \in BOOLEAN : Written(C, core)
  BY DEF Write
<1>2. PICK f, x : f = Closed(C) /\ x = NewEpisode(core)
  OBVIOUS
<1>3. /\ f \in Seq(Episode) /\ DOMAIN f = DOMAIN eps
      /\ \A i \in DOMAIN eps : eps[i].status # "open" => f[i].status # "open"
  BY <1>2, ClosedOpens
<1>4. eps' = f \/ eps' = Append(f, x)
  BY <1>1, <1>2 DEF Written
<1>5. DOMAIN f \subseteq DOMAIN eps' /\ \A i \in DOMAIN f : eps'[i] = f[i]
  BY <1>3, <1>4
<1> QED BY <1>3, <1>5 DEF NoneOpened

LEMMA MarksOpens ==
  ASSUME TypeOK, NEW c \in Caller, ConsolidateMarks(c)
  PROVE  NoneOpened
<1>1. eps \in Seq(Episode) /\ \A i \in DOMAIN eps : eps[i] \in Episode
  BY DEF TypeOK
<1>2. eps' = [i \in DOMAIN eps |-> IF i \in cons[c].snap THEN [eps[i] EXCEPT !.fed = TRUE] ELSE eps[i]]
  BY DEF ConsolidateMarks
<1>3. \A i \in DOMAIN eps : eps'[i].status = eps[i].status
  BY <1>1, <1>2 DEF Episode
<1> QED BY <1>2, <1>3 DEF NoneOpened

LEMMA ForgetOpens ==
  ASSUME TypeOK, NEW i, Forget(i)
  PROVE  NoneOpened /\ i \in DOMAIN eps /\ eps'[i].status = "forgotten"
<1>1. eps \in Seq(Episode) /\ \A k \in DOMAIN eps : eps[k] \in Episode
  BY DEF TypeOK
<1>2. i \in DOMAIN eps /\ eps' = [eps EXCEPT ![i].status = "forgotten", ![i].core = FALSE]
  BY DEF Forget
<1>3. PICK x : x = eps[i]
  OBVIOUS
<1>4. PICK y : y = [x EXCEPT !.status = "forgotten", !.core = FALSE]
  OBVIOUS
<1>5. y.status = "forgotten"
  BY <1>1, <1>2, <1>3, <1>4 DEF Episode
<1>6. DOMAIN eps' = DOMAIN eps /\ \A k \in DOMAIN eps : eps'[k] = IF k = i THEN y ELSE eps[k]
  BY <1>1, <1>2, <1>3, <1>4
<1> QED BY <1>2, <1>5, <1>6 DEF NoneOpened

LEMMA NothingOpens ==
  ASSUME TypeOK, [Next]_vars, Locked => work.existing = eps
  PROVE  NoneOpened
<1>1. CASE eps' = eps
  BY <1>1 DEF NoneOpened
<1>2. CASE SummarizeReturns \/ ReflectBegins \/ Expire
  BY <1>1, <1>2 DEF SummarizeReturns, ReflectBegins, Expire, files
<1>3. CASE ReflectSkips
  <2>1. \E C : eps' = Closed(C)
    BY <1>3 DEF ReflectSkips
  <2> QED BY <2>1, ClosedOpens DEF NoneOpened
<1>4. CASE ReflectReturns \/ CrashInReflect
  <2>1. Locked /\ (Merge \/ Write)
    BY <1>4 DEF ReflectReturns, CrashInReflect, Locked, At
  <2> QED BY <2>1, MergeOpens, WriteOpens
<1>5. CASE (\E c \in Caller : ConsolidateMarks(c)) \/ \E i \in 1..Len(eps) : Forget(i)
  BY <1>5, MarksOpens, ForgetOpens
<1> QED BY <1>1, <1>2, <1>3, <1>4, <1>5, QuietSteps DEF Quiet

LEMMA ForgottenSteps ==
  ASSUME [Next]_vars
  PROVE  \/ forgotten' = forgotten
         \/ \E i \in 1..Len(eps) : Forget(i) /\ forgotten' = forgotten \cup {i}
<1>1. ASSUME NEW t \in Turn, Capture(t) \/ CaptureIncomplete(t) \/ HandToSlowQueue(t)
      PROVE  forgotten' = forgotten
  BY <1>1 DEF Capture, CaptureIncomplete, HandToSlowQueue, history
<1>2. CASE \/ TakeTask \/ CaptureAgain \/ SummarizeNothing \/ SummarizeBegins \/ SummarizeFails
           \/ SummarizeReturns \/ ReflectNothing \/ ReflectBegins \/ ReflectFails \/ ReflectSkips
           \/ ReflectReturns \/ Sweep \/ Expire \/ UNCHANGED vars
  BY <1>2 DEF TakeTask, CaptureAgain, SummarizeNothing, SummarizeBegins, SummarizeFails, SummarizeReturns,
     ReflectNothing, ReflectBegins, ReflectFails, ReflectSkips, ReflectReturns, Sweep, Expire, history, vars
<1>3. CASE Crash \/ CrashInReflect
  BY <1>3 DEF Crash, CrashInReflect, ProcessEnds
<1>4. ASSUME NEW c \in Caller, ConsolidationStep(c)
      PROVE  forgotten' = forgotten
  BY <1>4 DEF ConsolidationStep, ConsolidateNothing, ConsolidateBegins, ConsolidateFails,
     ConsolidateSaves, ConsolidateUnchanged, ConsolidateMarks, history
<1>5. ASSUME NEW i \in 1..Len(eps), Forget(i)
      PROVE  forgotten' = forgotten \cup {i}
  BY <1>5 DEF Forget
<1> QED BY <1>1, <1>2, <1>3, <1>4, <1>5 DEF Next, ConsolidationStep

LEMMA GoneStep ==
  ASSUME Typed, Gone, ForgetLocked, [Next]_vars
  PROVE  Gone'
<1>1. TypeOK /\ NoneOpened
  BY NothingOpens DEF Typed, Gone
<1>2. forgotten' \subseteq DOMAIN eps' /\ ForgottenStays'
  <2>1. CASE forgotten' = forgotten
    BY <1>1, <2>1 DEF Gone, NoneOpened, ForgottenStays
  <2>2. ASSUME NEW i \in 1..Len(eps), Forget(i), forgotten' = forgotten \cup {i}
        PROVE  forgotten' \subseteq DOMAIN eps' /\ ForgottenStays'
    <3>1. i \in DOMAIN eps /\ eps'[i].status = "forgotten"
      BY <1>1, <2>2, ForgetOpens
    <3> QED BY <1>1, <2>2, <3>1 DEF Gone, NoneOpened, ForgottenStays
  <2> QED BY <2>1, <2>2, ForgottenSteps
<1>3. Locked' => work'.existing = eps'
  <2> SUFFICES ASSUME Locked' PROVE work'.existing = eps'
    OBVIOUS
  <2>1. CASE ReflectBegins
    BY <2>1 DEF ReflectBegins, files
  <2>2. CASE Locked /\ work' = work /\ eps' = eps
    BY <2>2 DEF Gone
  <2> QED BY <2>1, <2>2, WaitStep DEF ForgetLocked
<1> QED BY <1>2, <1>3 DEF Gone

(* What the run that sees a forgotten episode come back comes down to: if    *)
(* forget_episodes() waited for the lock that reflect() holds across its    *)
(* model call, no step of any reflection, consolidation or crash would open  *)
(* again what was forgotten.                                                *)
THEOREM LockedForgetStays == Spec /\ [][ForgetLocked]_vars => []ForgottenStays
<1>1. Init => Gone
  BY DEF Init, Gone, ForgottenStays, Locked
<1>2. Typed /\ Gone /\ [Next]_vars /\ [ForgetLocked]_vars => Gone'
  <2>1. UNCHANGED vars => (Gone => Gone')
    BY DEF vars, Gone, ForgottenStays, Locked
  <2> QED BY <2>1, GoneStep
<1>3. IInv => Typed
  BY DEF IInv
<1>4. Gone => ForgottenStays
  BY DEF Gone
<1> QED BY <1>1, <1>2, <1>3, <1>4, IInvHolds, PTL DEF Spec
=============================================================================
