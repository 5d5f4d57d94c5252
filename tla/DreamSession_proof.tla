------------------------ MODULE DreamSession_proof ------------------------
(***************************************************************************)
(* Proofs about DreamSession: for every number of requests that enter and   *)
(* wake at once, of dreams, turns, failures of the disk and ends of the     *)
(* process.  The disk may refuse every single write of a request.           *)
(*                                                                         *)
(* An archive that is there is never written over, and the transcript is    *)
(* only emptied when an archive holds the whole of it: with the types, that *)
(* is all the two safety properties of the close need.                      *)
(*                                                                         *)
(* What the dream promises beyond that, it promises only where requests     *)
(* come one at a time (~Overlap): then what a waiting request carries is    *)
(* what is on disk.  The last part is about the stages of a scenario, with  *)
(* any number of reconcilers beside the one request.                        *)
(***************************************************************************)
EXTENDS ScenarioReconcile, SequenceTheorems, TLAPS

(* Only what was answered is in a file; a turn has no dream before that. *)
LoggedAnswered ==
  /\ sealed \subseteq 1..turns
  /\ \A t : In(t, current) \/ Archived(t) => t \in 1..turns
  /\ \A t \in Turn : t > turns => dreamOf[t] = NoDream

IInv == TypeOK /\ TurnsKept /\ CloseSeals /\ LoggedAnswered

-----------------------------------------------------------------------------
(* The transcript and the archives, typed. *)
FilesOK ==
  /\ current \in Seq(Turn)
  /\ DOMAIN archive \subseteq Dream /\ \A d \in DOMAIN archive : archive[d] \in Seq(Turn)

(* No archive is removed or changed. *)
ArchivesKept ==
  /\ DOMAIN archive \subseteq DOMAIN archive'
  /\ \A d \in DOMAIN archive : archive'[d] = archive[d]

LEMMA KeptArchived ==
  ASSUME ArchivesKept, NEW t, Archived(t)
  PROVE  Archived(t)'
  BY DEF ArchivesKept, Archived

(* archive_current(), when it acknowledges the archive. *)
LEMMA SucceedsFacts ==
  ASSUME FilesOK, NEW cur \in Seq(Turn), NEW d \in Dream, ArchiveSucceeds(cur, d)
  PROVE  /\ FilesOK' /\ ArchivesKept
         /\ current' = <<>>
         /\ \A t : In(t, cur) => Archived(t)'
         /\ \A t : Archived(t)' => Archived(t) \/ In(t, cur)
<1>1. current' = <<>> /\ current' \in Seq(Turn)
  BY DEF ArchiveSucceeds
<1>2. CASE cur = <<>> /\ archive' = archive
  BY <1>1, <1>2 DEF FilesOK, ArchivesKept, In, Archived
<1>3. CASE d \in DOMAIN archive /\ archive[d] = cur /\ archive' = archive
  BY <1>1, <1>3 DEF FilesOK, ArchivesKept, Archived
<1>4. CASE d \notin DOMAIN archive /\ archive' = Stored(d, cur)
  BY <1>1, <1>4 DEF FilesOK, ArchivesKept, Archived, Stored
<1> QED
  BY <1>2, <1>3, <1>4 DEF ArchiveSucceeds

(* ... and when the disk fails under it. *)
LEMMA FailsFacts ==
  ASSUME FilesOK, NEW cur \in Seq(Turn), NEW d \in Dream, ArchiveFails(cur, d)
  PROVE  /\ FilesOK' /\ ArchivesKept /\ current' = cur
         /\ \A t : Archived(t)' => Archived(t) \/ In(t, cur)
<1>1. current' = cur
  BY DEF ArchiveFails
<1>2. CASE archive' = archive
  BY <1>1, <1>2 DEF FilesOK, ArchivesKept, Archived
<1>3. CASE d \notin DOMAIN archive /\ \E k \in 0..Len(cur) : archive' = Stored(d, SubSeq(cur, 1, k))
  <2>1. PICK k \in 0..Len(cur) : archive' = Stored(d, SubSeq(cur, 1, k))
    BY <1>3
  <2> DEFINE part == SubSeq(cur, 1, k)
  <2>2. part \in Seq(Turn) /\ \A t : In(t, part) => In(t, cur)
    <3>1. Len(cur) \in Nat /\ DOMAIN cur = 1..Len(cur) /\ \A i \in 1..k : cur[i] \in Turn
      BY LenProperties, ElementOfSeq
    <3>2. part \in Seq(Turn) /\ DOMAIN part = 1..k /\ \A i \in 1..k : part[i] = cur[i]
      BY <3>1, SubSeqProperties
    <3> QED
      BY <3>1, <3>2 DEF In
  <2>3. archive' = Stored(d, part)
    BY <2>1
  <2> HIDE DEF part
  <2> QED
    BY <1>1, <1>3, <2>2, <2>3 DEF FilesOK, ArchivesKept, Stored, Archived
<1> QED
  BY <1>2, <1>3 DEF ArchiveFails

(* What a close makes of a transcript: an archive, or itself. *)
CloseKeeps(cur) ==
  /\ FilesOK' /\ ArchivesKept
  /\ \A t : In(t, cur) => In(t, current') \/ Archived(t)'
  /\ \A t : In(t, current') => In(t, cur)
  /\ \A t : Archived(t)' => Archived(t) \/ In(t, cur)
  /\ \/ sealed' = sealed
     \/ /\ current' = <<>>
        /\ \A t \in sealed' : t \in sealed \/ (In(t, cur) /\ Archived(t)')

LEMMA AfterglowType ==
  ASSUME NEW s \in State
  PROVE  Afterglow(s) \in State
  BY DEF Afterglow, State, Idle

(* What the disk leaves of a write. *)
LEMMA PutFacts ==
  ASSUME NEW old, NEW new, NEW p \in Put(old, new)
  PROVE  /\ p.st \in {old, new} /\ p.failed \in {0, 1}
         /\ p.failed = 0 => p.st = new
  BY DEF Put

LEMMA PaysFacts ==
  ASSUME faults \in 0..MaxFaults, NEW n \in Nat, Pays(n)
  PROVE  faults' \in 0..MaxFaults
  BY DreamAssumption DEF Pays

LEMMA CloseFacts ==
  ASSUME FilesOK, closes \in [Dream -> Nat], faults \in 0..MaxFaults, NEW n \in Nat,
         NEW s \in State, NEW cur \in Seq(Turn), NEW d \in Dream, Close(s, cur, d, n)
  PROVE  /\ st' \in State /\ closes' \in [Dream -> Nat] /\ faults' \in 0..MaxFaults
         /\ CloseKeeps(cur)
<1>1. n + 1 \in Nat
  OBVIOUS
<1>2. CASE d # s.dream \/ s.status \notin Active
  <2>1. /\ st' = s /\ current' = cur /\ archive' = archive /\ closes' = closes
        /\ sealed' = sealed /\ Pays(n)
    BY <1>2 DEF Close
  <2> QED
    BY <2>1, PaysFacts DEF CloseKeeps, FilesOK, ArchivesKept, Archived
<1>3. CASE ~(d # s.dream \/ s.status \notin Active)
  <2>1. CASE /\ ArchiveSucceeds(cur, d)
             /\ sealed' = sealed \cup {cur[i] : i \in DOMAIN cur}
             /\ \/ st' = Afterglow(s) /\ closes' = [closes EXCEPT ![d] = @ + 1] /\ Pays(n)
                \/ st' = s /\ UNCHANGED closes /\ Pays(n + 1)
    <3>1. /\ FilesOK' /\ ArchivesKept /\ current' = <<>>
          /\ \A t : In(t, cur) => Archived(t)'
          /\ \A t : Archived(t)' => Archived(t) \/ In(t, cur)
      BY <2>1, SucceedsFacts
    <3>2. \A t : ~In(t, current')
      BY <3>1 DEF In
    <3>3. \A t \in sealed' : t \in sealed \/ In(t, cur)
      BY <2>1 DEF In
    <3>4. closes' \in [Dream -> Nat] /\ st' \in State
      BY <2>1, AfterglowType
    <3>5. faults' \in 0..MaxFaults
      BY <1>1, <2>1, PaysFacts
    <3> QED
      BY <3>1, <3>2, <3>3, <3>4, <3>5 DEF CloseKeeps
  <2>2. CASE ArchiveCollides(cur, d) /\ Held(s) /\ Pays(n)
    BY <2>2, PaysFacts DEF ArchiveCollides, Held, CloseKeeps, FilesOK, ArchivesKept, Archived
  <2>3. CASE ArchiveFails(cur, d) /\ Held(s) /\ Pays(n + 1)
    <3>1. /\ FilesOK' /\ ArchivesKept /\ current' = cur
          /\ \A t : Archived(t)' => Archived(t) \/ In(t, cur)
      BY <2>3, FailsFacts
    <3>2. faults' \in 0..MaxFaults
      BY <1>1, <2>3, PaysFacts
    <3> QED
      BY <2>3, <3>1, <3>2 DEF Held, CloseKeeps
  <2> QED
    BY <1>3, <2>1, <2>2, <2>3 DEF Close
<1> QED
  BY <1>2, <1>3

(* Files that a step leaves alone. *)
LEMMA UnchangedKeeps ==
  ASSUME FilesOK, UNCHANGED diskVars \/ UNCHANGED <<current, archive>>, UNCHANGED sealed
  PROVE  CloseKeeps(current)
  BY DEF diskVars, CloseKeeps, FilesOK, ArchivesKept, Archived

(* What the log is after the step, up to its close: as it was, or a turn    *)
(* was answered, and is in it unless a line of it was refused.              *)
LogStep(cur) ==
  \/ cur = current /\ UNCHANGED logVars
  \/ /\ turns' = turns + 1 /\ broken \subseteq broken'
     /\ \A t \in Turn : t # turns' => dreamOf'[t] = dreamOf[t]
     /\ cur = Append(current, turns') \/ (cur = current /\ turns' \in broken')

(* A transcript, with the turn just answered or without, that is kept or    *)
(* archived whole keeps the three invariants.                               *)
LEMMA TranscriptKept ==
  ASSUME TypeOK, TurnsKept, CloseSeals, LoggedAnswered,
         NEW cur, CloseKeeps(cur), LogStep(cur)
  PROVE  TurnsKept' /\ CloseSeals' /\ LoggedAnswered'
<1>1. /\ current \in Seq(Turn) /\ turns \in Nat
      /\ turns' \in Nat /\ (turns' = turns \/ turns' = turns + 1)
      /\ broken \subseteq broken'
  BY DreamAssumption DEF TypeOK, LogStep, logVars
<1>2. \A t : In(t, current) => In(t, cur)
  <2>1. CASE cur = Append(current, turns')
    BY <1>1, <2>1 DEF In
  <2> QED
    BY <2>1 DEF LogStep
<1>3. \A t : In(t, cur) => In(t, current) \/ (t = turns' /\ turns' = turns + 1)
  <2>1. CASE cur = Append(current, turns') /\ turns' = turns + 1
    BY <1>1, <2>1 DEF In
  <2> QED
    BY <2>1 DEF LogStep
<1>4. turns' # turns => In(turns', cur) \/ turns' \in broken'
  <2>1. CASE cur = Append(current, turns')
    <3>1. Len(current) + 1 \in DOMAIN cur /\ cur[Len(current) + 1] = turns'
      BY <1>1, <2>1
    <3> QED
      BY <3>1 DEF In
  <2> QED
    BY <1>1, <2>1 DEF LogStep, logVars
<1>5. \A t : Archived(t) => Archived(t)'
  BY KeptArchived DEF CloseKeeps
<1>6. TurnsKept'
  <2> SUFFICES ASSUME NEW t \in (1..turns') \ broken' PROVE In(t, current') \/ Archived(t)'
    BY DEF TurnsKept, In
  <2>1. CASE t \in 1..turns
    <3>1. In(t, current) \/ Archived(t)
      BY <1>1, <2>1 DEF TurnsKept
    <3> QED
      BY <1>2, <1>5, <3>1 DEF CloseKeeps
  <2>2. CASE t = turns' /\ turns' # turns
    BY <1>4, <2>2 DEF CloseKeeps
  <2> QED
    BY <1>1, <2>1, <2>2
<1>7. \A t \in sealed : t # turns + 1
  BY <1>1 DEF LoggedAnswered
<1>8. \A t \in sealed' : t \in sealed \/ (In(t, cur) /\ Archived(t)' /\ current' = <<>>)
  BY DEF CloseKeeps
<1>9. \A t \in sealed : Archived(t)' /\ ~In(t, current')
  BY <1>3, <1>5, <1>7 DEF CloseSeals, CloseKeeps
<1>10. CloseSeals'
  <2> SUFFICES ASSUME NEW t \in sealed' PROVE Archived(t)' /\ ~In(t, current')
    BY DEF CloseSeals, In
  <2> QED
    BY <1>8, <1>9 DEF In
<1>11. LoggedAnswered'
  <2>1. \A t : In(t, cur) \/ Archived(t) => t \in 1..turns'
    BY <1>1, <1>3 DEF LoggedAnswered
  <2>2. ASSUME NEW t \in sealed'
        PROVE  t \in 1..turns'
    <3>1. CASE t \in sealed
      <4>1. t \in 1..turns
        BY <3>1 DEF LoggedAnswered
      <4> QED
        BY <1>1, <4>1
    <3> QED
      BY <1>8, <2>1, <3>1
  <2>3. \A t : In(t, current') \/ Archived(t)' => t \in 1..turns'
    BY <2>1 DEF CloseKeeps
  <2>4. \A t \in Turn : t > turns' => dreamOf'[t] = NoDream
    BY <1>1, DreamAssumption DEF LoggedAnswered, LogStep, logVars, Turn
  <2> QED
    BY <2>2, <2>3, <2>4 DEF LoggedAnswered, In
<1> QED
  BY <1>6, <1>10, <1>11

-----------------------------------------------------------------------------
(* The states a request carries, and what is on disk, typed. *)
RequestsOK ==
  /\ chat \in {None} \cup [waiting : {TRUE}, dream : Dream, exiting : BOOLEAN]
  /\ entering \in [Enterers -> {None} \cup [waiting : {TRUE}, state : State]]
  /\ waking \in [Wakers -> {None} \cup [waiting : {TRUE}, state : State]]

LogOK ==
  /\ dreams \in 0..MaxDream
  /\ turns \in 0..MaxTurn
  /\ dreamOf \in [Turn -> Dream \cup {NoDream}]
  /\ broken \subseteq Turn

PastOK ==
  /\ closes \in [Dream -> Nat]
  /\ retained \in [Dream -> Nat] /\ unmarked \subseteq Dream \cup {NoDream}
  /\ faults \in 0..MaxFaults /\ crashes \in 0..MaxCrashes

LEMMA TypeParts ==
  TypeOK <=> /\ st \in State /\ FilesOK /\ RequestsOK /\ LogOK /\ PastOK
             /\ sealed \subseteq Turn
             /\ exit \in {"none", "left", "failed", "stuck"}
  BY DEF TypeOK, FilesOK, RequestsOK, LogOK, PastOK

(* What is left to show for a step that closes, or touches no file: the     *)
(* types of the rest.                                                       *)
LEMMA StepParts ==
  ASSUME IInv, st' \in State, RequestsOK', LogOK', PastOK',
         exit' \in {"none", "left", "failed", "stuck"},
         NEW cur, CloseKeeps(cur), LogStep(cur)
  PROVE  IInv'
<1>1. TurnsKept' /\ CloseSeals' /\ LoggedAnswered'
  BY TranscriptKept DEF IInv
<1>2. sealed' \subseteq Turn
  BY <1>1, DreamAssumption DEF LoggedAnswered, LogOK, Turn
<1>3. FilesOK'
  BY DEF CloseKeeps
<1>4. TypeOK'
  BY <1>2, <1>3 DEF TypeOK, FilesOK, RequestsOK, LogOK, PastOK
<1> QED
  BY <1>1, <1>4 DEF IInv

LEMMA InitIInv == Init => IInv
<1> SUFFICES ASSUME Init PROVE IInv
  OBVIOUS
<1>1. st \in State
  BY DEF Init, Default, State, Idle
<1>2. current \in Seq(Turn) /\ \A t : ~In(t, current) /\ ~Archived(t)
  BY DEF Init, In, Archived
<1>3. TypeOK
  BY <1>1, <1>2, DreamAssumption DEF Init, TypeOK, Turn, Dream
<1> QED
  BY <1>2, <1>3 DEF Init, IInv, TurnsKept, CloseSeals, LoggedAnswered

-----------------------------------------------------------------------------
(* force_exit_dream() on a state: left as it is, or closed. *)
LEMMA ForceExitFacts ==
  ASSUME TypeOK, NEW s \in State, NEW n \in Nat, ForceExit(s, n)
  PROVE  /\ st' \in State /\ closes' \in [Dream -> Nat] /\ faults' \in 0..MaxFaults
         /\ CloseKeeps(current)
<1>1. FilesOK /\ PastOK
  BY TypeParts
<1>2. CASE s.status \notin Active \/ s.dream = NoDream
  <2>1. st' = s /\ Pays(n) /\ UNCHANGED <<current, archive, closes, sealed>>
    BY <1>2 DEF ForceExit
  <2> QED
    BY <1>1, <2>1, UnchangedKeeps, PaysFacts DEF PastOK
<1>3. CASE ~(s.status \notin Active \/ s.dream = NoDream)
  <2>1. PICK p \in Put(s, Closing(s)) : Close(p.st, current, s.dream, n + p.failed)
    BY <1>3 DEF ForceExit
  <2>2. Closing(s) \in State /\ s.dream \in Dream
    BY <1>3 DEF Closing, State, Active
  <2>3. p.st \in State /\ n + p.failed \in Nat
    BY <2>2, PutFacts
  <2>4. current \in Seq(Turn)
    BY <1>1 DEF FilesOK
  <2> QED
    BY <1>1, <2>1, <2>2, <2>3, <2>4, CloseFacts DEF PastOK
<1> QED
  BY <1>2, <1>3

(* /dream/exit and the three ways of a wake that reach the chokepoint. *)
LEMMA ExitInv ==
  ASSUME IInv, HardExit \/ WakeExits \/ \E w \in Wakers : WakeFails(w)
  PROVE  IInv'
<1>1. TypeOK /\ st \in State /\ RequestsOK /\ LogOK /\ PastOK
  BY TypeParts DEF IInv
<1>2. CASE HardExit
  <2>1. ForceExit(st, 0) /\ UNCHANGED <<waitVars, logVars, heldVars, crashes>>
        /\ exit' \in {"none", "left", "failed", "stuck"}
    BY <1>2 DEF HardExit
  <2>2. RequestsOK' /\ LogOK' /\ LogStep(current)
    BY <1>1, <2>1 DEF RequestsOK, LogOK, LogStep, waitVars, logVars
  <2>3. st' \in State /\ PastOK' /\ CloseKeeps(current)
    BY <1>1, <2>1, ForceExitFacts DEF PastOK, heldVars
  <2> QED
    BY <2>1, <2>2, <2>3, StepParts
<1>3. CASE WakeExits
  <2>1. ForceExit(st, 0) /\ UNCHANGED <<waitVars, logVars, heldVars, crashes>> /\ exit' = "none"
    BY <1>3 DEF WakeExits
  <2>2. RequestsOK' /\ LogOK' /\ LogStep(current)
    BY <1>1, <2>1 DEF RequestsOK, LogOK, LogStep, waitVars, logVars
  <2>3. st' \in State /\ PastOK' /\ CloseKeeps(current)
    BY <1>1, <2>1, ForceExitFacts DEF PastOK, heldVars
  <2> QED
    BY <2>1, <2>2, <2>3, StepParts
<1>4. ASSUME NEW w \in Wakers, WakeFails(w)
      PROVE  IInv'
  <2>1. /\ waking[w] # None
        /\ waking' = [waking EXCEPT ![w] = None]
        /\ UNCHANGED <<chat, entering, logVars, heldVars, crashes>> /\ exit' = "none"
    BY <1>4 DEF WakeFails
  <2>2. PICK p \in Put(st, waking[w].state) : ForceExit(p.st, p.failed)
    BY <1>4 DEF WakeFails
  <2>3. p.st \in State /\ p.failed \in Nat
    <3>1. waking[w].state \in State
      BY <1>1, <2>1 DEF RequestsOK
    <3> QED
      BY <1>1, <3>1, PutFacts
  <2>4. RequestsOK' /\ LogOK' /\ LogStep(current)
    BY <1>1, <2>1 DEF RequestsOK, LogOK, LogStep, logVars
  <2>5. st' \in State /\ PastOK' /\ CloseKeeps(current)
    BY <1>1, <2>1, <2>2, <2>3, ForceExitFacts DEF PastOK, heldVars
  <2> QED
    BY <2>1, <2>4, <2>5, StepParts
<1> QED
  BY <1>2, <1>3, <1>4

(* What append_turn() leaves of the transcript. *)
LEMMA LogsFacts ==
  ASSUME NEW t, NEW log \in Logs(t)
  PROVE  /\ log.file \in {Append(current, t), current} /\ log.failed \in {0, 1}
         /\ log.failed = 0 => log.file = Append(current, t)
  BY DEF Logs

(* The state that a reply is closed in, and how often the disk failed by    *)
(* then.                                                                    *)
LEMMA RepliesFacts ==
  ASSUME NEW accepted \in BOOLEAN, ChatReplies(accepted)
  PROVE  \E log \in Logs(turns'), p \in Put(st, [st EXCEPT !.local = TRUE]) :
           /\ broken' = IF log.failed = 0 THEN broken ELSE broken \cup {turns'}
           /\ \/ \E q \in Put(p.st, Closing(p.st)) :
                   Close(q.st, log.file, chat.dream, log.failed + p.failed + q.failed)
              \/ /\ st' = p.st /\ current' = log.file /\ Pays(log.failed + p.failed)
                 /\ ~accepted
                 /\ UNCHANGED <<archive, closes, sealed>>
<1>1. PICK log \in Logs(turns'), p \in Put(st, [st EXCEPT !.local = TRUE]) :
         /\ broken' = IF log.failed = 0 THEN broken ELSE broken \cup {turns'}
         /\ IF accepted
            THEN \E q \in Put(p.st, Closing(p.st)) :
                   Close(q.st, log.file, chat.dream, log.failed + p.failed + q.failed)
            ELSE /\ st' = p.st /\ current' = log.file /\ Pays(log.failed + p.failed)
                 /\ UNCHANGED <<archive, closes, sealed>>
  BY Zenon DEF ChatReplies
<1> QED
  BY <1>1

(* A reply: the turn is logged, and an accepted exit closes. *)
LEMMA ChatRepliesInv ==
  ASSUME IInv, NEW accepted \in BOOLEAN, ChatReplies(accepted)
  PROVE  IInv'
<1>1. TypeOK /\ st \in State /\ FilesOK /\ RequestsOK /\ LogOK /\ PastOK
  BY TypeParts DEF IInv
<1>2. /\ chat # None /\ chat' = None /\ exit' = "none"
      /\ turns < MaxTurn /\ turns' = turns + 1
      /\ dreamOf' = [dreamOf EXCEPT ![turns'] = chat.dream]
      /\ UNCHANGED <<entering, waking, dreams, heldVars, crashes>>
  BY DEF ChatReplies
<1>3. PICK log \in Logs(turns'), p \in Put(st, [st EXCEPT !.local = TRUE]) :
        /\ broken' = IF log.failed = 0 THEN broken ELSE broken \cup {turns'}
        /\ \/ \E q \in Put(p.st, Closing(p.st)) :
                Close(q.st, log.file, chat.dream, log.failed + p.failed + q.failed)
           \/ /\ st' = p.st /\ current' = log.file /\ Pays(log.failed + p.failed)
              /\ ~accepted
              /\ UNCHANGED <<archive, closes, sealed>>
  BY RepliesFacts
<1>4. chat.dream \in Dream
  BY <1>1, <1>2 DEF RequestsOK
<1>5. turns' \in Turn /\ turns' \in 0..MaxTurn /\ log.file \in Seq(Turn)
  <2>1. turns' \in 1..MaxTurn /\ turns' \in 0..MaxTurn
    BY <1>1, <1>2, DreamAssumption DEF LogOK
  <2>2. turns' \in Turn /\ current \in Seq(Turn)
    BY <1>1, <2>1 DEF Turn, FilesOK
  <2>3. Append(current, turns') \in Seq(Turn)
    BY <2>2
  <2>4. log.file \in {Append(current, turns'), current}
    BY LogsFacts
  <2> QED
    BY <2>1, <2>2, <2>3, <2>4
<1>6. broken' \subseteq Turn
  BY <1>1, <1>3, <1>5 DEF LogOK
<1>7. RequestsOK' /\ LogOK'
  BY <1>1, <1>2, <1>4, <1>5, <1>6 DEF RequestsOK, LogOK
<1>8. p.st \in State /\ Closing(p.st) \in State
  <2>1. [st EXCEPT !.local = TRUE] \in State
    BY <1>1 DEF State
  <2>2. p.st \in State
    BY <1>1, <2>1, PutFacts
  <2> QED
    BY <2>2 DEF Closing, State, Active
<1>9. log.failed \in Nat /\ p.failed \in Nat
  BY PutFacts, LogsFacts
<1>10. st' \in State /\ PastOK' /\ CloseKeeps(log.file)
  <2>1. ASSUME NEW q \in Put(p.st, Closing(p.st)),
               Close(q.st, log.file, chat.dream, log.failed + p.failed + q.failed)
        PROVE  st' \in State /\ PastOK' /\ CloseKeeps(log.file)
    <3>1. q.st \in State /\ log.failed + p.failed + q.failed \in Nat
      BY <1>8, <1>9, PutFacts
    <3> QED
      BY <1>1, <1>2, <1>4, <1>5, <2>1, <3>1, CloseFacts DEF PastOK, heldVars
  <2>2. CASE /\ st' = p.st /\ current' = log.file /\ Pays(log.failed + p.failed)
             /\ UNCHANGED <<archive, closes, sealed>>
    <3>1. faults' \in 0..MaxFaults
      BY <1>1, <1>9, <2>2, PaysFacts DEF PastOK
    <3>2. CloseKeeps(log.file)
      BY <1>1, <1>5, <2>2 DEF CloseKeeps, FilesOK, ArchivesKept, Archived
    <3> QED
      BY <1>1, <1>2, <1>8, <2>2, <3>1, <3>2 DEF PastOK, heldVars
  <2> QED
    BY <1>3, <2>1, <2>2
<1>11. LogStep(log.file)
  <2>1. \A t \in Turn : t # turns' => dreamOf'[t] = dreamOf[t]
    BY <1>1, <1>2 DEF LogOK
  <2>2. log.file = Append(current, turns') \/ (log.file = current /\ turns' \in broken')
    BY <1>3, LogsFacts
  <2> QED
    BY <1>2, <1>3, <2>1, <2>2 DEF LogStep
<1> QED
  BY <1>2, <1>7, <1>10, <1>11, StepParts

(* The steps that read or write the state and touch no transcript. *)
LEMMA StateOnlyInv ==
  ASSUME IInv, st' \in State, RequestsOK', LogOK', PastOK', exit' = "none",
         UNCHANGED <<current, archive, sealed, turns, dreamOf, broken>>
  PROVE  IInv'
<1>1. FilesOK /\ TypeOK
  BY TypeParts DEF IInv
<1>2. CloseKeeps(current)
  BY <1>1, UnchangedKeeps
<1>3. TurnsKept' /\ CloseSeals' /\ LoggedAnswered'
  BY DEF IInv, TurnsKept, CloseSeals, LoggedAnswered, In, Archived
<1>4. sealed' \subseteq Turn /\ FilesOK'
  BY <1>1, <1>2 DEF TypeOK, CloseKeeps
<1>5. TypeOK'
  BY <1>4 DEF TypeOK, FilesOK, RequestsOK, LogOK, PastOK
<1> QED
  BY <1>3, <1>5 DEF IInv

LEMMA EnterInv ==
  ASSUME IInv, NEW e \in Enterers, EnterBegins(e) \/ EnterReturns(e) \/ EnterFails(e)
  PROVE  IInv'
<1>1. TypeOK /\ st \in State /\ RequestsOK /\ LogOK /\ PastOK
  BY TypeParts DEF IInv
<1>2. CASE EnterBegins(e)
  <2>1. dreams' \in 0..MaxDream /\ dreams' \in Dream
    BY <1>1, <1>2, DreamAssumption DEF EnterBegins, LogOK, Dream
  <2>2. [st EXCEPT !.dream = dreams'] \in State
    BY <1>1, <2>1 DEF State
  <2>3. RequestsOK'
    BY <1>1, <1>2, <2>2 DEF EnterBegins, RequestsOK, Waiting
  <2>4. LogOK' /\ PastOK'
    BY <1>1, <1>2, <2>1 DEF EnterBegins, LogOK, PastOK, heldVars, pastVars
  <2> QED
    BY <1>1, <1>2, <2>3, <2>4, StateOnlyInv DEF EnterBegins, diskVars, heldVars, pastVars
<1>3. CASE EnterReturns(e)
  <2>1. entering[e].state \in State
    BY <1>1, <1>3 DEF EnterReturns, RequestsOK
  <2>2. st' \in State
    BY <1>3, <2>1 DEF EnterReturns, State, Active
  <2>3. RequestsOK' /\ LogOK' /\ PastOK'
    BY <1>1, <1>3 DEF EnterReturns, RequestsOK, LogOK, PastOK, logVars, heldVars, pastVars
  <2> QED
    BY <1>3, <2>2, <2>3, StateOnlyInv DEF EnterReturns, logVars, heldVars, pastVars
<1>4. CASE EnterFails(e)
  <2>1. RequestsOK' /\ LogOK' /\ PastOK'
    BY <1>1, <1>4 DEF EnterFails, RequestsOK, LogOK, PastOK, logVars, heldVars, pastVars
  <2> QED
    BY <1>1, <1>4, <2>1, StateOnlyInv DEF EnterFails, diskVars, logVars, heldVars, pastVars
<1> QED
  BY <1>2, <1>3, <1>4

LEMMA ChatInv ==
  ASSUME IInv, (\E b \in BOOLEAN : ChatBegins(b)) \/ ChatFails
  PROVE  IInv'
<1>1. TypeOK /\ st \in State /\ RequestsOK /\ LogOK /\ PastOK
  BY TypeParts DEF IInv
<1>2. ASSUME NEW b \in BOOLEAN, ChatBegins(b)
      PROVE  IInv'
  <2>1. /\ exit' = "none"
        /\ UNCHANGED <<current, archive, entering, waking, turns, dreamOf, broken, closes, sealed,
                       retained, unmarked, crashes>>
    BY <1>2 DEF ChatBegins, heldVars
  <2>2. CASE st.dream # NoDream /\ chat' = Chatting(st.dream, b) /\ UNCHANGED <<st, dreams, faults>>
    <3>1. st.dream \in Dream
      BY <1>1, <2>2 DEF State
    <3>2. RequestsOK'
      BY <1>1, <2>1, <2>2, <3>1 DEF RequestsOK, Chatting
    <3>3. LogOK' /\ PastOK'
      BY <1>1, <2>1, <2>2 DEF LogOK, PastOK
    <3> QED
      BY <1>1, <2>1, <2>2, <3>2, <3>3, StateOnlyInv
  <2>3. CASE /\ dreams < MaxDream /\ dreams' = dreams + 1
             /\ \E p \in Put(st, [st EXCEPT !.dream = EnsuredDream]) : st' = p.st /\ Pays(p.failed)
             /\ chat' = Chatting(EnsuredDream, b)
    <3>1. EnsuredDream \in Dream /\ dreams' \in 0..MaxDream
      BY <1>1, <2>3, DreamAssumption DEF LogOK, Dream, EnsuredDream
    <3>2. st' \in State /\ faults' \in 0..MaxFaults
      <4>1. [st EXCEPT !.dream = EnsuredDream] \in State
        BY <1>1, <3>1 DEF State
      <4>2. PICK p \in Put(st, [st EXCEPT !.dream = EnsuredDream]) : st' = p.st /\ Pays(p.failed)
        BY <2>3
      <4>3. p.st \in State /\ p.failed \in Nat
        BY <1>1, <4>1, PutFacts
      <4> QED
        BY <1>1, <4>2, <4>3, PaysFacts DEF PastOK
    <3>3. RequestsOK'
      BY <1>1, <2>1, <2>3, <3>1 DEF RequestsOK, Chatting
    <3>4. LogOK' /\ PastOK'
      BY <1>1, <2>1, <3>1, <3>2 DEF LogOK, PastOK
    <3> QED
      BY <2>1, <3>2, <3>3, <3>4, StateOnlyInv
  <2> QED
    BY <1>2, <2>2, <2>3 DEF ChatBegins
<1>3. CASE ChatFails
  <2>1. RequestsOK' /\ LogOK' /\ PastOK'
    BY <1>1, <1>3 DEF ChatFails, RequestsOK, LogOK, PastOK, logVars, heldVars, pastVars
  <2> QED
    BY <1>1, <1>3, <2>1, StateOnlyInv DEF ChatFails, diskVars, logVars, heldVars, pastVars
<1> QED
  BY <1>2, <1>3

LEMMA WakeInv ==
  ASSUME IInv, Resume \/ \E w \in Wakers : WakeBegins(w) \/ WakeRetains(w)
  PROVE  IInv'
<1>1. TypeOK /\ st \in State /\ RequestsOK /\ LogOK /\ PastOK
  BY TypeParts DEF IInv
<1>2. ASSUME NEW w \in Wakers, WakeBegins(w)
      PROVE  IInv'
  <2> DEFINE marked == [st EXCEPT !.status = "DREAM_EXIT_REQUESTED", !.offered = st.dream]
  <2>1. /\ waking' = [waking EXCEPT ![w] = Waiting(marked)] /\ exit' = "none"
        /\ st.status = "DREAM_ACTIVE" /\ st.offered # st.dream
        /\ \/ st' = marked /\ UNCHANGED <<unmarked, faults>>
           \/ UNCHANGED st /\ unmarked' = unmarked \cup {st.dream} /\ Pays(1)
        /\ UNCHANGED <<current, archive, chat, entering, logVars, closes, sealed, retained, crashes>>
    BY <1>2 DEF WakeBegins
  <2>2. marked \in State
    BY <1>1 DEF State, Active
  <2> HIDE DEF marked
  <2>3. RequestsOK'
    BY <1>1, <2>1, <2>2 DEF RequestsOK, Waiting
  <2>4. faults' \in 0..MaxFaults
    BY <1>1, <2>1, PaysFacts DEF PastOK
  <2>5. LogOK' /\ turns' = turns /\ dreamOf' = dreamOf /\ broken' = broken
    BY <1>1, <2>1 DEF LogOK, logVars
  <2>6. unmarked' \subseteq Dream \cup {NoDream}
    <3>1. st.dream \in Dream \cup {NoDream}
      BY <1>1 DEF State
    <3> QED
      BY <1>1, <2>1, <3>1 DEF PastOK
  <2> QED
    BY <1>1, <2>1, <2>2, <2>3, <2>4, <2>5, <2>6, StateOnlyInv DEF PastOK
<1>3. ASSUME NEW w \in Wakers, WakeRetains(w)
      PROVE  IInv'
  <2>1. /\ waking[w] # None /\ waking' = [waking EXCEPT ![w] = None] /\ exit' = "none"
        /\ retained' = [retained EXCEPT ![waking[w].state.dream] = @ + 1]
        /\ UNCHANGED <<current, archive, chat, entering, logVars, closes, sealed, unmarked, crashes>>
    BY <1>3 DEF WakeRetains
  <2>2. waking[w].state \in State
    BY <1>1, <2>1 DEF RequestsOK
  <2>3. st' \in State /\ faults' \in 0..MaxFaults
    <3>1. PICK p \in Put(st, waking[w].state) : st' = p.st /\ Pays(p.failed)
      BY <1>3 DEF WakeRetains
    <3>2. p.st \in State /\ p.failed \in Nat
      BY <1>1, <2>2, PutFacts
    <3> QED
      BY <1>1, <3>1, <3>2, PaysFacts DEF PastOK
  <2>4. RequestsOK' /\ LogOK' /\ turns' = turns /\ dreamOf' = dreamOf /\ broken' = broken
    BY <1>1, <2>1 DEF RequestsOK, LogOK, logVars
  <2>5. retained' \in [Dream -> Nat]
    <3> DEFINE d == waking[w].state.dream
    <3>1. retained' = [retained EXCEPT ![d] = @ + 1] /\ retained \in [Dream -> Nat]
      BY <1>1, <2>1 DEF PastOK
    <3> HIDE DEF d
    <3>2. CASE d \in Dream
      BY <3>1, <3>2
    <3>3. CASE d \notin Dream
      BY <3>1, <3>3
    <3> QED
      BY <3>2, <3>3
  <2>6. PastOK'
    BY <1>1, <2>1, <2>3, <2>5 DEF PastOK
  <2> QED
    BY <2>1, <2>3, <2>4, <2>6, StateOnlyInv
<1>4. CASE Resume
  <2>1. st' \in State
    BY <1>1, <1>4 DEF Resume, State, Active
  <2>2. RequestsOK' /\ LogOK' /\ PastOK'
    BY <1>1, <1>4 DEF Resume, RequestsOK, LogOK, PastOK, waitVars, logVars, heldVars, pastVars
  <2> QED
    BY <1>4, <2>1, <2>2, StateOnlyInv DEF Resume, logVars, heldVars, pastVars
<1> QED
  BY <1>2, <1>3, <1>4

(* The process ends, between two writes or in one. *)
LEMMA StopInv ==
  ASSUME IInv, Crash \/ CrashInWrite \/ CrashInClose
  PROVE  IInv'
<1>1. TypeOK /\ st \in State /\ FilesOK /\ RequestsOK /\ LogOK /\ PastOK
  BY TypeParts DEF IInv
<1>2. /\ RequestsOK' /\ LogOK' /\ exit' = "none" /\ turns' = turns
      /\ crashes' \in 0..MaxCrashes /\ UNCHANGED <<closes, sealed, retained, unmarked>>
      /\ dreamOf' = dreamOf /\ broken' = broken
  <2>1. Stop
    BY DEF Crash, CrashInWrite, CrashInClose
  <2>2. RequestsOK' /\ LogOK'
    BY <1>1, <2>1 DEF Stop, RequestsOK, LogOK, logVars
  <2>3. crashes' \in 0..MaxCrashes
    BY <1>1, <2>1, DreamAssumption DEF Stop, PastOK
  <2> QED
    BY <2>1, <2>2, <2>3 DEF Stop, logVars, heldVars
<1>3. PastOK'
  <2>1. faults' \in 0..MaxFaults
    <3>1. \/ faults' = faults \/ Pays(1)
          \/ \E p \in Put(st, Closing(st)) : Pays(1 + p.failed)
      BY DEF Crash, CrashInWrite, CrashInClose
    <3>2. \A p \in Put(st, Closing(st)) : 1 + p.failed \in Nat
      BY PutFacts
    <3> QED
      BY <1>1, <3>1, <3>2, PaysFacts DEF PastOK
  <2> QED
    BY <1>1, <1>2, <2>1 DEF PastOK
<1>4. CASE Crash
  BY <1>1, <1>2, <1>3, <1>4, StateOnlyInv DEF Crash, diskVars
<1>5. CASE CrashInWrite
  <2>1. st' \in State
    BY <1>5 DEF CrashInWrite, Default, State, Idle
  <2> QED
    BY <1>2, <1>3, <1>5, <2>1, StateOnlyInv DEF CrashInWrite
<1>6. CASE CrashInClose
  <2>1. st.dream \in Dream /\ ArchiveSucceeds(current, st.dream)
    BY <1>1, <1>6 DEF CrashInClose, State
  <2>2. st' \in State
    <3>1. Closing(st) \in State
      BY <1>1 DEF Closing, State, Active
    <3> QED
      BY <1>1, <1>6, <3>1, PutFacts DEF CrashInClose
  <2>3. current \in Seq(Turn)
    BY <1>1 DEF FilesOK
  <2>4. /\ FilesOK' /\ ArchivesKept /\ current' = <<>>
        /\ \A t : In(t, current) => Archived(t)'
        /\ \A t : Archived(t)' => Archived(t) \/ In(t, current)
    BY <1>1, <2>1, <2>3, SucceedsFacts
  <2>5. CloseKeeps(current)
    BY <1>2, <2>4 DEF CloseKeeps, In
  <2>6. LogStep(current)
    BY <1>6 DEF CrashInClose, Stop, LogStep
  <2> QED
    BY <1>2, <1>3, <2>2, <2>5, <2>6, StepParts
<1> QED
  BY <1>4, <1>5, <1>6

LEMMA StepIInv == IInv /\ [Next]_vars => IInv'
<1> SUFFICES ASSUME IInv, [Next]_vars PROVE IInv'
  OBVIOUS
<1>1. CASE UNCHANGED vars
  <2>1. st \in State /\ RequestsOK /\ LogOK /\ PastOK
        /\ exit \in {"none", "left", "failed", "stuck"} /\ FilesOK
    BY TypeParts DEF IInv
  <2>2. /\ UNCHANGED <<st, current, archive, chat, entering, waking>>
        /\ UNCHANGED <<dreams, turns, dreamOf, broken, closes, sealed, retained, unmarked>>
        /\ UNCHANGED <<faults, crashes, exit>>
    BY <1>1 DEF vars, diskVars, waitVars, logVars, heldVars, pastVars
  <2>3. RequestsOK' /\ LogOK' /\ PastOK' /\ LogStep(current)
    BY <1>1, <2>1, <2>2 DEF RequestsOK, LogOK, PastOK, LogStep, logVars
  <2> QED
    BY <2>1, <2>2, <2>3, UnchangedKeeps, StepParts
<1>2. CASE HardExit \/ WakeExits \/ \E w \in Wakers : WakeFails(w)
  BY <1>2, ExitInv
<1>3. CASE \E e \in Enterers : EnterBegins(e) \/ EnterReturns(e) \/ EnterFails(e)
  BY <1>3, EnterInv
<1>4. CASE \E b \in BOOLEAN : ChatReplies(b)
  BY <1>4, ChatRepliesInv
<1>5. CASE (\E b \in BOOLEAN : ChatBegins(b)) \/ ChatFails
  BY <1>5, ChatInv
<1>6. CASE Resume \/ \E w \in Wakers : WakeBegins(w) \/ WakeRetains(w)
  BY <1>6, WakeInv
<1>7. CASE Crash \/ CrashInWrite \/ CrashInClose
  BY <1>7, StopInv
<1> QED
  BY <1>1, <1>2, <1>3, <1>4, <1>5, <1>6, <1>7 DEF Next

LEMMA Inductive == Spec => []IInv
  BY InitIInv, StepIInv, PTL DEF Spec

(* The state file, the transcript, the archives and what the requests carry *)
(* stay well typed, whatever overlaps, fails or ends.                       *)
THEOREM TypeCorrect == Spec => []TypeOK
<1>1. IInv => TypeOK
  BY DEF IInv
<1> QED
  BY <1>1, Inductive, PTL

(* An answered turn of a dream is lost only when it is said, by an append    *)
(* that the disk refused: never afterwards, between the transcript and the  *)
(* archives, through torn and refused archives, states that were not        *)
(* written, overlapping exits and ends of the process.                      *)
THEOREM NoTurnLost == Spec => []TurnsKept
<1>1. IInv => TurnsKept
  BY DEF IInv
<1> QED
  BY <1>1, Inductive, PTL

(* A close that archived its transcript has archived the whole of it, and   *)
(* no turn of it is in the transcript again, whether the closed state was   *)
(* stored or not.                                                           *)
THEOREM ClosedIsSealed == Spec => []CloseSeals
<1>1. IInv => CloseSeals
  BY DEF IInv
<1> QED
  BY <1>1, Inductive, PTL

-----------------------------------------------------------------------------
(* Why a dream retains once: the mark of the offer travels with the dream   *)
(* id in every state a request carries or writes, so a dream that has       *)
(* retained, or has a wake waiting for its line, is never seen unmarked,    *)
(* but where the disk refused the mark itself.                              *)
InEnter(e) == entering[e] # None
InWake(w) == waking[w] # None

IdsKnown ==
  /\ st.dream \in 0..dreams
  /\ st.status \in {"DREAM_ACTIVE", "DREAM_EXIT_REQUESTED"} => st.dream # NoDream
  /\ \A d \in Dream : d > dreams => retained[d] = 0

(* The id of an entry that still waits is nobody else's. *)
EntryFresh ==
  \A e \in Enterers : InEnter(e) =>
    /\ entering[e].state.dream \in 1..dreams
    /\ entering[e].state.dream # st.dream
    /\ retained[entering[e].state.dream] = 0
    /\ \A w \in Wakers : InWake(w) => waking[w].state.dream # entering[e].state.dream
    /\ \A f \in Enterers : f # e /\ InEnter(f) =>
         entering[f].state.dream # entering[e].state.dream

(* A wake that waits carries a marked state, and its dream has not retained. *)
WakeMarked ==
  \A w \in Wakers : InWake(w) =>
    /\ waking[w].state.dream \in 1..dreams
    /\ waking[w].state.offered = waking[w].state.dream
    /\ waking[w].state.status = "DREAM_EXIT_REQUESTED"
    /\ waking[w].state.dream \notin unmarked =>
         /\ retained[waking[w].state.dream] = 0
         /\ \A v \in Wakers : v # w /\ InWake(v) => waking[v].state.dream # waking[w].state.dream

(* A dream without the mark has no wake that waits, and has not retained. *)
UnmarkedFree ==
  st.dream # NoDream /\ st.offered # st.dream /\ st.dream \notin unmarked =>
    /\ retained[st.dream] = 0
    /\ \A w \in Wakers : InWake(w) => waking[w].state.dream # st.dream

RetainedAtMost == \A d \in Dream \ unmarked : retained[d] \in {0, 1}

RInv == IdsKnown /\ EntryFresh /\ WakeMarked /\ UnmarkedFree /\ RetainedAtMost

(* What a close leaves of a state. *)
CloseOf(s) ==
  /\ st'.dream \in {s.dream, NoDream}
  /\ st'.dream # NoDream => st'.offered = s.offered
  /\ st'.status \in {"DREAM_ACTIVE", "DREAM_EXIT_REQUESTED"} =>
       st'.dream = s.dream /\ s.status \in {"DREAM_ACTIVE", "DREAM_EXIT_REQUESTED"}

LEMMA CloseStates ==
  ASSUME NEW s \in State, NEW cur, NEW d, NEW n, Close(s, cur, d, n)
  PROVE  CloseOf(s)
<1>1. st' = s \/ st' = Afterglow(s)
  BY DEF Close, Held
<1>2. /\ Afterglow(s).dream = NoDream
      /\ Afterglow(s).status = "REALITY_AFTERGLOW"
  BY DEF Afterglow, State
<1> QED
  BY <1>1, <1>2 DEF CloseOf

(* A close of the state that is being left, or of the one before it. *)
LEMMA ClosingStates ==
  ASSUME NEW s \in State, NEW p \in Put(s, Closing(s)), CloseOf(p.st)
  PROVE  CloseOf(s)
<1>1. /\ Closing(s).dream = s.dream /\ Closing(s).offered = s.offered
      /\ Closing(s).status = "DREAM_CLOSING"
  BY DEF Closing, State, Active
<1>2. p.st = s \/ p.st = Closing(s)
  BY PutFacts
<1> QED
  BY <1>1, <1>2 DEF CloseOf

LEMMA ClosingType ==
  ASSUME NEW s \in State, NEW p \in Put(s, Closing(s))
  PROVE  p.st \in State
<1>1. Closing(s) \in State
  BY DEF Closing, State, Active
<1> QED
  BY <1>1, PutFacts

LEMMA ForceExitStates ==
  ASSUME NEW s \in State, NEW n, ForceExit(s, n)
  PROVE  CloseOf(s)
<1>1. CASE st' = s
  BY <1>1 DEF CloseOf
<1>2. ASSUME NEW p \in Put(s, Closing(s)), Close(p.st, current, s.dream, n + p.failed)
      PROVE  CloseOf(s)
  BY <1>2, ClosingType, CloseStates, ClosingStates
<1> QED
  BY <1>1, <1>2 DEF ForceExit

(* A step after which the state is a close of the one before, the requests   *)
(* of the dreams are at most fewer, and nothing is retained or entered.     *)
LEMMA FewerRInv ==
  ASSUME TypeOK, RInv, CloseOf(st), UNCHANGED <<dreams, heldVars>>,
         \A e \in Enterers : entering'[e] \in {entering[e], None},
         \A w \in Wakers : waking'[w] \in {waking[w], None}
  PROVE  RInv'
<1>1. dreams \in Nat /\ dreams' = dreams /\ retained' = retained /\ unmarked' = unmarked
  BY DreamAssumption DEF TypeOK, heldVars
<1>2. IdsKnown'
  BY <1>1 DEF RInv, IdsKnown, CloseOf, NoDream
<1>3. EntryFresh'
  BY <1>1 DEF RInv, EntryFresh, CloseOf, InEnter, InWake, NoDream
<1>4. WakeMarked'
  BY <1>1 DEF RInv, WakeMarked, InWake
<1>5. UnmarkedFree'
  BY <1>1 DEF RInv, UnmarkedFree, CloseOf, InWake
<1> QED
  BY <1>1, <1>2, <1>3, <1>4, <1>5 DEF RInv, RetainedAtMost

(* The requests that carry no state of their own into the file. *)
LEMMA SimpleRInv ==
  ASSUME TypeOK, RInv,
         \/ HardExit \/ WakeExits \/ Resume \/ ChatFails \/ Crash \/ CrashInWrite \/ CrashInClose
         \/ \E b \in BOOLEAN : ChatReplies(b)
         \/ \E e \in Enterers : EnterFails(e)
         \/ UNCHANGED vars
  PROVE  RInv'
<1>1. /\ st \in State /\ RequestsOK
      /\ entering \in [Enterers -> {None} \cup [waiting : {TRUE}, state : State]]
      /\ waking \in [Wakers -> {None} \cup [waiting : {TRUE}, state : State]]
  BY TypeParts DEF RequestsOK
<1>2. UNCHANGED st => CloseOf(st)
  BY DEF CloseOf
<1>3. CASE HardExit \/ WakeExits
  <2>1. CloseOf(st)
    BY <1>1, <1>3, ForceExitStates DEF HardExit, WakeExits
  <2> QED
    BY <1>3, <2>1, FewerRInv DEF HardExit, WakeExits, waitVars, logVars
<1>4. CASE Resume
  <2>1. CloseOf(st)
    BY <1>1, <1>4 DEF Resume, CloseOf, State
  <2> QED
    BY <1>4, <2>1, FewerRInv DEF Resume, waitVars, logVars, heldVars, pastVars
<1>5. CASE ChatFails \/ UNCHANGED vars
  BY <1>2, <1>5, FewerRInv DEF ChatFails, vars, diskVars, waitVars, logVars, heldVars, pastVars
<1>6. CASE Crash \/ CrashInWrite \/ CrashInClose
  <2>1. ASSUME CrashInWrite
        PROVE  CloseOf(st)
    BY <2>1 DEF CrashInWrite, CloseOf, Default, NoDream
  <2>2. ASSUME CrashInClose
        PROVE  CloseOf(st)
    <3>1. PICK p \in Put(st, Closing(st)) : st' = p.st
      BY <2>2 DEF CrashInClose
    <3>2. CloseOf(p.st)
      BY <3>1 DEF CloseOf
    <3> QED
      BY <1>1, <3>2, ClosingStates
  <2>3. CloseOf(st)
    BY <1>2, <1>6, <2>1, <2>2 DEF Crash, diskVars
  <2>4. Stop
    BY <1>6 DEF Crash, CrashInWrite, CrashInClose
  <2> QED
    BY <2>3, <2>4, FewerRInv DEF Stop, logVars
<1>7. ASSUME NEW b \in BOOLEAN, ChatReplies(b)
      PROVE  RInv'
  <2> DEFINE patched == [st EXCEPT !.local = TRUE]
  <2>1. /\ patched \in State /\ patched.dream = st.dream /\ patched.offered = st.offered
        /\ patched.status = st.status
    BY <1>1 DEF State
  <2>2. PICK log \in Logs(turns'), p \in Put(st, patched) :
          \/ \E q \in Put(p.st, Closing(p.st)) :
               Close(q.st, log.file, chat.dream, log.failed + p.failed + q.failed)
          \/ st' = p.st
    BY <1>7, RepliesFacts
  <2>3. UNCHANGED <<entering, waking, dreams, heldVars>>
    BY <1>7 DEF ChatReplies
  <2> HIDE DEF patched
  <2>4. p.st \in {st, patched} /\ p.st \in State
    BY <1>1, <2>1, PutFacts
  <2>5. CloseOf(p.st)
    <3>1. ASSUME NEW q \in Put(p.st, Closing(p.st)),
                 Close(q.st, log.file, chat.dream, log.failed + p.failed + q.failed)
          PROVE  CloseOf(p.st)
      BY <2>4, <3>1, ClosingType, CloseStates, ClosingStates
    <3>2. CASE st' = p.st
      BY <3>2 DEF CloseOf
    <3> QED
      BY <2>2, <3>1, <3>2
  <2>6. CloseOf(st)
    BY <2>1, <2>4, <2>5 DEF CloseOf
  <2> QED
    BY <2>3, <2>6, FewerRInv
<1>8. ASSUME NEW e \in Enterers, EnterFails(e)
      PROVE  RInv'
  <2>1. \A f \in Enterers : entering'[f] \in {entering[f], None}
    BY <1>1, <1>8 DEF EnterFails
  <2> QED
    BY <1>2, <1>8, <2>1, FewerRInv DEF EnterFails, diskVars, logVars, heldVars, pastVars
<1> QED
  BY <1>3, <1>4, <1>5, <1>6, <1>7, <1>8

(* An id just given out: no request knows it, and nothing is retained.      *)
LEMMA FreshId ==
  ASSUME TypeOK, RInv, dreams < MaxDream
  PROVE  /\ dreams + 1 \in Dream /\ dreams + 1 \in 1..(dreams + 1)
         /\ dreams + 1 # st.dream
         /\ retained[dreams + 1] = 0
         /\ \A e \in Enterers : InEnter(e) => entering[e].state.dream # dreams + 1
         /\ \A w \in Wakers : InWake(w) => waking[w].state.dream # dreams + 1
<1>1. dreams \in Nat /\ dreams + 1 \in Dream /\ dreams + 1 > dreams
  BY DreamAssumption DEF TypeOK, Dream
<1> QED
  BY <1>1 DEF RInv, IdsKnown, EntryFresh, WakeMarked

LEMMA EnterBeginsRInv ==
  ASSUME TypeOK, RInv, NEW e \in Enterers, EnterBegins(e)
  PROVE  RInv'
<1> DEFINE new == dreams + 1
<1>1. /\ dreams \in Nat /\ dreams' = new /\ st' = st /\ retained' = retained /\ waking' = waking
      /\ unmarked' = unmarked
      /\ entering' = [entering EXCEPT ![e] = Waiting([st EXCEPT !.dream = new])]
      /\ dreams < MaxDream
  BY DreamAssumption DEF EnterBegins, diskVars, heldVars, pastVars, TypeOK
<1>2. /\ entering'[e].state.dream = new
      /\ \A f \in Enterers \ {e} : entering'[f] = entering[f]
  BY <1>1 DEF TypeOK, Waiting, State
<1>3. IdsKnown'
  BY <1>1, DreamAssumption DEF RInv, IdsKnown, TypeOK, Dream
<1>4. EntryFresh'
  BY <1>1, <1>2, FreshId DEF RInv, EntryFresh, InEnter, InWake
<1>5. WakeMarked'
  BY <1>1 DEF RInv, WakeMarked, InWake
<1> QED
  BY <1>1, <1>3, <1>4, <1>5 DEF RInv, UnmarkedFree, RetainedAtMost, InWake

LEMMA EnterReturnsRInv ==
  ASSUME TypeOK, RInv, NEW e \in Enterers, EnterReturns(e)
  PROVE  RInv'
<1> DEFINE d == entering[e].state.dream
<1>1. /\ dreams \in Nat /\ dreams' = dreams /\ retained' = retained /\ waking' = waking
      /\ unmarked' = unmarked
      /\ entering' = [entering EXCEPT ![e] = None]
      /\ InEnter(e)
  BY DreamAssumption DEF EnterReturns, logVars, heldVars, pastVars, TypeOK, InEnter
<1>2. st'.dream = d
  <2>1. entering[e].state \in State
    BY <1>1, TypeParts DEF RequestsOK, InEnter
  <2> QED
    BY <2>1 DEF EnterReturns, State
<1>3. \A f \in Enterers : InEnter(f)' => f # e /\ InEnter(f) /\ entering'[f] = entering[f]
  BY <1>1 DEF TypeOK, InEnter
<1>4. /\ d \in 1..dreams /\ retained[d] = 0
      /\ \A w \in Wakers : InWake(w) => waking[w].state.dream # d
      /\ \A f \in Enterers : f # e /\ InEnter(f) => entering[f].state.dream # d
  BY <1>1 DEF RInv, EntryFresh
<1> HIDE DEF d
<1>5. IdsKnown'
  BY <1>1, <1>2, <1>4 DEF RInv, IdsKnown, NoDream
<1>6. EntryFresh'
  BY <1>1, <1>2, <1>3, <1>4 DEF RInv, EntryFresh, InEnter, InWake
<1>7. WakeMarked'
  BY <1>1 DEF RInv, WakeMarked, InWake
<1>8. UnmarkedFree'
  BY <1>1, <1>2, <1>4 DEF UnmarkedFree, InWake
<1> QED
  BY <1>1, <1>5, <1>6, <1>7, <1>8 DEF RInv, RetainedAtMost

LEMMA ChatBeginsRInv ==
  ASSUME TypeOK, RInv, NEW b \in BOOLEAN, ChatBegins(b)
  PROVE  RInv'
<1>1. UNCHANGED <<entering, waking, retained, unmarked>> /\ dreams \in Nat
  BY DreamAssumption DEF ChatBegins, heldVars, TypeOK
<1>2. CASE UNCHANGED <<st, dreams>>
  <2>1. CloseOf(st)
    BY <1>2 DEF CloseOf
  <2> QED
    BY <1>1, <1>2, <2>1, FewerRInv DEF heldVars
<1>3. CASE dreams < MaxDream /\ dreams' = dreams + 1 /\ st' = [st EXCEPT !.dream = EnsuredDream]
  <2>1. st'.dream = dreams + 1
    BY <1>3 DEF TypeOK, State, EnsuredDream
  <2>2. IdsKnown'
    BY <1>1, <1>3, <2>1, DreamAssumption DEF RInv, IdsKnown, NoDream, TypeOK, Dream
  <2>3. EntryFresh'
    BY <1>1, <1>3, <2>1, FreshId DEF RInv, EntryFresh, InEnter, InWake
  <2>4. WakeMarked'
    BY <1>1, <1>3 DEF RInv, WakeMarked, InWake
  <2>5. UnmarkedFree'
    BY <1>1, <1>3, <2>1, FreshId DEF UnmarkedFree, InWake
  <2> QED
    BY <1>1, <2>2, <2>3, <2>4, <2>5 DEF RInv, RetainedAtMost
<1>4. CASE dreams' = dreams + 1 /\ st' = st
  <2>1. IdsKnown'
    BY <1>1, <1>4, DreamAssumption DEF RInv, IdsKnown, TypeOK, Dream
  <2>2. EntryFresh'
    BY <1>1, <1>4 DEF RInv, EntryFresh, InEnter, InWake
  <2>3. WakeMarked' /\ UnmarkedFree'
    BY <1>1, <1>4 DEF RInv, WakeMarked, UnmarkedFree, InWake
  <2> QED
    BY <1>1, <2>1, <2>2, <2>3 DEF RInv, RetainedAtMost
<1> QED
  BY <1>2, <1>3, <1>4, PutFacts DEF ChatBegins

LEMMA WakeBeginsRInv ==
  ASSUME TypeOK, RInv, NEW w \in Wakers, WakeBegins(w)
  PROVE  RInv'
<1> DEFINE d == st.dream
           marked == [st EXCEPT !.status = "DREAM_EXIT_REQUESTED", !.offered = d]
<1>1. /\ UNCHANGED <<dreams, retained, entering>> /\ dreams \in Nat
      /\ waking' = [waking EXCEPT ![w] = Waiting(marked)]
      /\ waking \in [Wakers -> {None} \cup [waiting : {TRUE}, state : State]]
      /\ \/ st' = marked /\ unmarked' = unmarked
         \/ st' = st /\ unmarked' = unmarked \cup {d}
  <2>1. dreams \in Nat
    BY DreamAssumption DEF TypeOK
  <2> QED
    BY <2>1, TypeParts DEF WakeBegins, logVars, RequestsOK
<1>2. /\ marked.dream = d /\ marked.offered = d /\ marked.status = "DREAM_EXIT_REQUESTED"
      /\ st.status = "DREAM_ACTIVE" /\ st.offered # d
  BY DEF WakeBegins, TypeOK, State
<1>3. waking'[w].state = marked /\ \A v \in Wakers \ {w} : waking'[v] = waking[v]
  BY <1>1 DEF Waiting
<1>4. /\ d \in 1..dreams
      /\ d \notin unmarked => /\ retained[d] = 0
                            /\ \A v \in Wakers : InWake(v) => waking[v].state.dream # d
      /\ \A e \in Enterers : InEnter(e) => entering[e].state.dream # d
  BY <1>1, <1>2 DEF RInv, IdsKnown, UnmarkedFree, EntryFresh, NoDream
<1>5. st.dream = d
  OBVIOUS
<1> HIDE DEF d, marked
<1>6. IdsKnown'
  BY <1>1, <1>2, <1>4, <1>5 DEF RInv, IdsKnown, NoDream
<1>7. st'.dream = d
  BY <1>1, <1>2, <1>5
<1>8. EntryFresh'
  BY <1>1, <1>2, <1>3, <1>4, <1>5, <1>7 DEF RInv, EntryFresh, InEnter, InWake
<1>9. WakeMarked'
  <2> SUFFICES ASSUME NEW v \in Wakers, InWake(v)'
               PROVE  /\ waking'[v].state.dream \in 1..dreams'
                      /\ waking'[v].state.offered = waking'[v].state.dream
                      /\ waking'[v].state.status = "DREAM_EXIT_REQUESTED"
                      /\ waking'[v].state.dream \notin unmarked' =>
                           /\ retained'[waking'[v].state.dream] = 0
                           /\ \A u \in Wakers : u # v /\ InWake(u)' =>
                                waking'[u].state.dream # waking'[v].state.dream
    BY DEF WakeMarked, InWake
  <2>1. unmarked \subseteq unmarked'
    BY <1>1
  <2>2. CASE v = w
    BY <1>1, <1>2, <1>3, <1>4, <2>1, <2>2 DEF InWake
  <2>3. CASE v # w
    <3>1. InWake(v) /\ waking'[v] = waking[v]
      BY <1>3, <2>3 DEF InWake
    <3> QED
      BY <1>1, <1>2, <1>3, <1>4, <2>1, <2>3, <3>1 DEF RInv, WakeMarked, InWake
  <2> QED
    BY <2>2, <2>3
<1>10. UnmarkedFree'
  BY <1>1, <1>2, <1>5 DEF UnmarkedFree
<1>11. RetainedAtMost'
  BY <1>1 DEF RInv, RetainedAtMost
<1> QED
  BY <1>6, <1>8, <1>9, <1>10, <1>11 DEF RInv

LEMMA WakeEndsRInv ==
  ASSUME TypeOK, RInv, NEW w \in Wakers, WakeRetains(w) \/ WakeFails(w)
  PROVE  RInv'
<1> DEFINE d == waking[w].state.dream
<1>1. /\ UNCHANGED <<dreams, entering, unmarked>> /\ dreams \in Nat /\ InWake(w)
      /\ waking' = [waking EXCEPT ![w] = None]
      /\ waking \in [Wakers -> {None} \cup [waiting : {TRUE}, state : State]]
      /\ retained \in [Dream -> Nat] /\ st \in State
  <2>1. dreams \in Nat
    BY DreamAssumption DEF TypeOK
  <2> QED
    BY <2>1, TypeParts DEF WakeRetains, WakeFails, logVars, heldVars, RequestsOK, PastOK, InWake
<1>2. waking[w].state \in State
  BY <1>1 DEF InWake
<1>3. /\ d \in 1..dreams /\ waking[w].state.offered = d
      /\ waking[w].state.status = "DREAM_EXIT_REQUESTED"
      /\ d \notin unmarked => /\ retained[d] = 0
                            /\ \A v \in Wakers : v # w /\ InWake(v) => waking[v].state.dream # d
      /\ \A e \in Enterers : InEnter(e) => entering[e].state.dream # d
  BY <1>1 DEF RInv, WakeMarked, EntryFresh
<1>4. d \in Dream
  <2>1. dreams \in 0..MaxDream
    BY DEF TypeOK
  <2> QED BY <1>3, <2>1, DreamAssumption DEF Dream
<1>5. \A v \in Wakers : InWake(v)' => v # w /\ InWake(v) /\ waking'[v] = waking[v]
  BY <1>1 DEF InWake
<1>6. \/ /\ st'.dream \in {d, NoDream}
         /\ st'.dream # NoDream => st'.offered = d
         /\ st'.status \in {"DREAM_ACTIVE", "DREAM_EXIT_REQUESTED"} => st'.dream = d
      \/ CloseOf(st)
  <2>1. CASE WakeRetains(w)
    <3>1. st' = st \/ st' = waking[w].state
      BY <2>1, PutFacts DEF WakeRetains
    <3> QED
      BY <1>3, <3>1 DEF CloseOf
  <2>2. CASE WakeFails(w)
    <3>1. PICK p \in Put(st, waking[w].state) : ForceExit(p.st, p.failed)
      BY <2>2 DEF WakeFails
    <3>2. p.st = st \/ p.st = waking[w].state
      BY PutFacts
    <3>3. CloseOf(p.st)
      BY <1>1, <1>2, <3>1, <3>2, ForceExitStates
    <3> QED
      BY <1>3, <3>2, <3>3 DEF CloseOf
  <2> QED
    BY <2>1, <2>2
<1> HIDE DEF d
<1>7. /\ d \notin unmarked => retained'[d] \in {0, 1}
      /\ \A x \in Dream \ {d} : retained'[x] = retained[x]
  <2>1. CASE WakeRetains(w)
    <3>1. retained' = [retained EXCEPT ![d] = @ + 1]
      BY <2>1 DEF WakeRetains, d
    <3> QED
      BY <1>1, <1>3, <1>4, <3>1
  <2>2. CASE WakeFails(w)
    BY <1>3, <2>2 DEF WakeFails, heldVars
  <2> QED
    BY <2>1, <2>2
<1>8. IdsKnown'
  <2>1. \A x \in Dream : x > dreams => x # d
    BY <1>1, <1>3, DreamAssumption DEF Dream
  <2>2. st'.dream \in 0..dreams
        /\ (st'.status \in {"DREAM_ACTIVE", "DREAM_EXIT_REQUESTED"} => st'.dream # NoDream)
    BY <1>1, <1>3, <1>6 DEF RInv, IdsKnown, NoDream, CloseOf
  <2> QED
    BY <1>1, <1>7, <2>1, <2>2 DEF RInv, IdsKnown
<1>9. \A x \in 1..dreams : x \in Dream
  BY DreamAssumption DEF TypeOK, Dream
<1>10. EntryFresh'
  <2>1. \A e \in Enterers : InEnter(e) => retained'[entering[e].state.dream] = 0
    BY <1>3, <1>7, <1>9 DEF RInv, EntryFresh
  <2>2. \A e \in Enterers : InEnter(e) => entering[e].state.dream # st'.dream
    BY <1>1, <1>3, <1>6 DEF RInv, EntryFresh, NoDream, CloseOf
  <2> QED
    BY <1>1, <1>5, <2>1, <2>2 DEF RInv, EntryFresh, InEnter
<1>11. WakeMarked'
  <2>1. \A v \in Wakers : InWake(v)' /\ waking[v].state.dream \notin unmarked
                         => retained'[waking[v].state.dream] = 0
    <3> SUFFICES ASSUME NEW v \in Wakers, InWake(v)', waking[v].state.dream \notin unmarked
                 PROVE  retained'[waking[v].state.dream] = 0
      OBVIOUS
    <3>1. v # w /\ InWake(v) /\ InWake(w)
      BY <1>1, <1>5
    <3>2. waking[v].state.dream # d /\ retained[waking[v].state.dream] = 0
          /\ waking[v].state.dream \in Dream
      BY <1>9, <3>1 DEF RInv, WakeMarked, d
    <3> QED
      BY <1>7, <3>2
  <2> QED
    BY <1>1, <1>5, <2>1 DEF RInv, WakeMarked
<1>12. UnmarkedFree'
  <2>1. CASE st'.dream # NoDream => st'.offered = d /\ st'.dream = d
    BY <2>1 DEF UnmarkedFree
  <2>2. CASE CloseOf(st)
    <3> SUFFICES ASSUME st'.dream # NoDream, st'.offered # st'.dream, st'.dream \notin unmarked
                 PROVE  /\ retained'[st'.dream] = 0
                        /\ \A v \in Wakers : InWake(v)' => waking'[v].state.dream # st'.dream
      BY <1>1 DEF UnmarkedFree, InWake
    <3>1. st'.dream = st.dream /\ st'.offered = st.offered
      BY <2>2 DEF CloseOf
    <3>2. /\ retained[st.dream] = 0 /\ st.dream \in Dream
          /\ \A v \in Wakers : InWake(v) => waking[v].state.dream # st.dream
      BY <1>1, <3>1 DEF RInv, UnmarkedFree, State
    <3>3. st.dream # d
      BY <1>1, <3>2 DEF d
    <3> QED
      BY <1>5, <1>7, <3>1, <3>2, <3>3
  <2> QED
    BY <1>6, <2>1, <2>2
<1>13. RetainedAtMost'
  BY <1>1, <1>7 DEF RInv, RetainedAtMost
<1> QED
  BY <1>8, <1>10, <1>11, <1>12, <1>13 DEF RInv

LEMMA StepRInv == TypeOK /\ RInv /\ [Next]_vars => RInv'
<1> SUFFICES ASSUME TypeOK, RInv, [Next]_vars PROVE RInv'
  OBVIOUS
<1>1. ASSUME NEW e \in Enterers, EnterBegins(e)
      PROVE  RInv'
  BY <1>1, EnterBeginsRInv
<1>2. ASSUME NEW e \in Enterers, EnterReturns(e)
      PROVE  RInv'
  BY <1>2, EnterReturnsRInv
<1>3. ASSUME NEW b \in BOOLEAN, ChatBegins(b)
      PROVE  RInv'
  BY <1>3, ChatBeginsRInv
<1>4. ASSUME NEW w \in Wakers, WakeBegins(w)
      PROVE  RInv'
  BY <1>4, WakeBeginsRInv
<1>5. ASSUME NEW w \in Wakers, WakeRetains(w) \/ WakeFails(w)
      PROVE  RInv'
  BY <1>5, WakeEndsRInv
<1>6. CASE \/ HardExit \/ WakeExits \/ Resume \/ ChatFails \/ Crash \/ CrashInWrite \/ CrashInClose
           \/ \E b \in BOOLEAN : ChatReplies(b)
           \/ \E e \in Enterers : EnterFails(e)
           \/ UNCHANGED vars
  BY <1>6, SimpleRInv
<1> QED
  BY <1>1, <1>2, <1>3, <1>4, <1>5, <1>6 DEF Next

(* However often its dreamer wakes and resumes, and however many wakes wait *)
(* at once, a dream holds the dreamer back once, unless a mark of its offer *)
(* was refused by the disk.                                                 *)
THEOREM RetentionOnce == Spec => []RetainedOnce
<1>1. Init => RInv
  <2> SUFFICES ASSUME Init PROVE RInv
    OBVIOUS
  <2>1. st.dream = 0 /\ st.status = "REALITY_CHAT" /\ dreams = 0
    BY DEF Init, Default, NoDream
  <2> QED
    BY <2>1 DEF Init, RInv, IdsKnown, EntryFresh, WakeMarked, UnmarkedFree, RetainedAtMost,
                InEnter, InWake, NoDream
<1>2. RInv => RetainedOnce
  <2> SUFFICES ASSUME RInv, NEW d \in Dream \ unmarked PROVE retained[d] <= 1
    BY DEF RetainedOnce
  <2>1. retained[d] \in {0, 1}
    BY DEF RInv, RetainedAtMost
  <2> QED
    BY <2>1
<1> QED
  BY <1>1, <1>2, StepRInv, TypeCorrect, PTL DEF Spec

-----------------------------------------------------------------------------
(* One request at a time.  Then at most one request waits, a dream is on    *)
(* exactly when the state names one, and a waiting request carries the dream *)
(* that is on; so only a disk that failed can leave a file where the archive *)
(* of a dream that is on would go.                                          *)
Nobody == chat = None /\ (\A e \in Enterers : ~InEnter(e)) /\ (\A w \in Wakers : ~InWake(w))

Alone ==
  /\ chat # None => (\A e \in Enterers : ~InEnter(e)) /\ (\A w \in Wakers : ~InWake(w))
  /\ \A e, f \in Enterers : InEnter(e) /\ InEnter(f) => e = f
  /\ \A e \in Enterers, w \in Wakers : ~(InEnter(e) /\ InWake(w))
  /\ \A w, v \in Wakers : InWake(w) /\ InWake(v) => w = v

DreamOn == (st.status \in Active) <=> (st.dream # NoDream)

Carried ==
  /\ \A e \in Enterers : InEnter(e) =>
       /\ st.status \in Idle
       /\ entering[e].state.dream \in 1..dreams /\ closes[entering[e].state.dream] = 0
  /\ chat # None => chat.dream = st.dream /\ st.status \in Active
  /\ \A w \in Wakers : InWake(w) =>
       /\ waking[w].state.dream = st.dream /\ waking[w].state.status = "DREAM_EXIT_REQUESTED"
       /\ st.status \in Active

(* The dream that is on was not closed, and while no disk failed its        *)
(* archive does not exist.                                                  *)
NotClosed ==
  /\ st.dream # NoDream => st.dream \in 1..dreams /\ closes[st.dream] = 0
  /\ \A d \in Dream : d > dreams => closes[d] = 0
  /\ faults = 0 => \A d \in DOMAIN archive : closes[d] # 0

DInv == IInv /\ Alone /\ DreamOn /\ Carried /\ NotClosed /\ HardExitLeaves

(* A step that leaves the dream alone. *)
Aside == UNCHANGED <<diskVars, waitVars, logVars, pastVars>> /\ exit' = "none"

LEMMA QuietNobody ==
  ASSUME ~Overlap, MayBegin
  PROVE  Nobody
  BY DEF MayBegin, Quiet, Nobody, InEnter, InWake

LEMMA IdleOrActive ==
  ASSUME NEW s \in State
  PROVE  /\ s.status \in Idle <=> s.status \notin Active
         /\ s.dream # NoDream => s.dream \in Dream
  BY DEF State, Idle, Active

(* Nothing waits after the step: what is left to show of the invariant. *)
LEMMA NobodyDInv ==
  ASSUME IInv', Nobody', DreamOn', NotClosed', HardExitLeaves'
  PROVE  DInv'
  BY DEF DInv, Nobody, Alone, Carried, InEnter, InWake

(* A close of the dream that is on: with a disk that never failed, the      *)
(* dream is left.                                                           *)
LEMMA CloseLeaves ==
  ASSUME TypeOK, NotClosed, NEW s \in State, NEW cur \in Seq(Turn), NEW n \in Nat,
         s.status \in Active, s.dream = st.dream, s.dream # NoDream,
         Close(s, cur, s.dream, n), dreams' = dreams
  PROVE  /\ DreamOn' /\ NotClosed' /\ st'.dream \in {st.dream, NoDream}
         /\ faults' = 0 => st'.status \in Idle
<1> DEFINE d == s.dream
<1>1. /\ d \in Dream /\ d \in 1..dreams /\ closes[d] = 0
      /\ closes \in [Dream -> Nat] /\ faults \in Nat /\ dreams \in Nat
  BY DreamAssumption DEF NotClosed, TypeOK, State
<1>2. CASE /\ ArchiveSucceeds(cur, d)
           /\ st' = Afterglow(s) /\ closes' = [closes EXCEPT ![d] = @ + 1] /\ Pays(n)
  <2>1. st'.status = "REALITY_AFTERGLOW" /\ st'.dream = NoDream
    BY <1>2 DEF Afterglow, State
  <2>2. DOMAIN archive' \subseteq DOMAIN archive \cup {d}
    BY <1>2 DEF ArchiveSucceeds, Stored
  <2>3. closes'[d] = 1 /\ \A x \in Dream \ {d} : closes'[x] = closes[x]
    BY <1>1, <1>2
  <2>4. DOMAIN archive \subseteq Dream
    BY DEF TypeOK
  <2>5. faults' = 0 => faults = 0
    BY <1>1, <1>2 DEF Pays
  <2>6. NotClosed'
    <3>1. \A x \in Dream : x > dreams => closes'[x] = 0
      BY <1>1, <2>3 DEF NotClosed
    <3>2. ASSUME faults' = 0, NEW x \in DOMAIN archive'
          PROVE  closes'[x] # 0
      <4>1. CASE x = d
        BY <2>3, <4>1
      <4>2. CASE x # d
        BY <2>2, <2>3, <2>4, <2>5, <3>2, <4>2 DEF NotClosed
      <4> QED
        BY <4>1, <4>2
    <3> QED
      BY <2>1, <3>1, <3>2 DEF NotClosed
  <2> QED
    BY <2>1, <2>6 DEF DreamOn, Idle, Active
<1>3. CASE ArchiveCollides(cur, d) /\ Held(s) /\ Pays(n)
  <2>1. st' = s /\ closes' = closes /\ archive' = archive /\ d \in DOMAIN archive
    BY <1>3 DEF Held, ArchiveCollides
  <2>2. faults # 0 /\ faults' # 0
    <3>1. faults # 0
      BY <1>1, <2>1 DEF NotClosed
    <3> QED
      BY <1>1, <1>3, <3>1 DEF Pays
  <2> QED
    BY <2>1, <2>2 DEF NotClosed, DreamOn
<1>4. CASE st' = s /\ closes' = closes /\ Pays(n + 1)
  <2>1. faults' # 0
    BY <1>1, <1>4 DEF Pays
  <2> QED
    BY <1>4, <2>1 DEF NotClosed, DreamOn
<1> QED
  BY <1>2, <1>3, <1>4 DEF Close, Held

(* The state that is left names the dream that is on, or none is. *)
LEMMA ForceExitLeaves ==
  ASSUME TypeOK, NotClosed, NEW s \in State, NEW n \in Nat, s.dream = st.dream,
         (s.status \in Active) <=> (s.dream # NoDream), ForceExit(s, n), dreams' = dreams
  PROVE  /\ DreamOn' /\ NotClosed' /\ st'.dream \in {st.dream, NoDream}
         /\ faults' = 0 => st'.status \in Idle
<1>1. current \in Seq(Turn) /\ faults \in Nat
  BY DreamAssumption DEF TypeOK
<1>2. CASE s.status \notin Active \/ s.dream = NoDream
  <2>1. st' = s /\ Pays(n) /\ UNCHANGED <<current, archive, closes, sealed>>
    BY <1>2 DEF ForceExit
  <2>2. s.status \in Idle
    BY <1>2, IdleOrActive
  <2>3. faults' = 0 => faults = 0
    BY <1>1, <2>1 DEF Pays
  <2> QED
    BY <2>1, <2>2, <2>3 DEF DreamOn, NotClosed
<1>3. CASE ~(s.status \notin Active \/ s.dream = NoDream)
  <2>1. PICK p \in Put(s, Closing(s)) : Close(p.st, current, s.dream, n + p.failed)
    BY <1>3 DEF ForceExit
  <2>2. p.st \in {s, Closing(s)} /\ n + p.failed \in Nat
    BY PutFacts
  <2>3. p.st \in State /\ p.st.status \in Active /\ p.st.dream = s.dream
    BY <1>3, <2>2 DEF Closing, State, Active
  <2> QED
    BY <1>1, <1>3, <2>1, <2>2, <2>3, CloseLeaves
<1> QED
  BY <1>2, <1>3

-----------------------------------------------------------------------------
(* The two promises about steps. *)
DreamStays == st.dream # NoDream /\ st'.dream # st.dream => st'.dream = NoDream
LogsOpen ==
  current' # current /\ current' # <<>> => closes[dreamOf'[current'[Len(current')]]] = 0

Promises == DInv' /\ DreamStays /\ LogsOpen

(* A transcript that a close empties or keeps. *)
LEMMA ClosedTranscript ==
  ASSUME NEW s, NEW cur, NEW d, NEW n, Close(s, cur, d, n)
  PROVE  current' \in {cur, <<>>}
  BY DEF Close, ArchiveSucceeds, ArchiveCollides, ArchiveFails

LEMMA ForceExitTranscript ==
  ASSUME NEW s, NEW n, ForceExit(s, n)
  PROVE  current' \in {current, <<>>}
<1>1. CASE s.status \notin Active \/ s.dream = NoDream
  BY <1>1 DEF ForceExit
<1>2. CASE ~(s.status \notin Active \/ s.dream = NoDream)
  <2>1. PICK p \in Put(s, Closing(s)) : Close(p.st, current, s.dream, n + p.failed)
    BY <1>2 DEF ForceExit
  <2> QED
    BY <2>1, ClosedTranscript
<1> QED
  BY <1>1, <1>2

(* The exits, when nobody waits after them: of what is on disk, or of a     *)
(* state of the dream that is on.                                           *)
LEMMA ExitPromises ==
  ASSUME DInv, IInv', Nobody', NEW s \in State, NEW n \in Nat, s.dream = st.dream,
         (s.status \in Active) <=> (s.dream # NoDream), ForceExit(s, n), dreams' = dreams,
         \/ exit' = "none"
         \/ exit' = CASE st'.status \in Idle -> "left"
                      [] faults' # faults -> "failed"
                      [] OTHER -> "stuck"
  PROVE  Promises
<1>1. TypeOK
  BY DEF DInv, IInv
<1>2. /\ DreamOn' /\ NotClosed' /\ st'.dream \in {st.dream, NoDream}
      /\ faults' = 0 => st'.status \in Idle
  BY <1>1, ForceExitLeaves DEF DInv
<1>3. HardExitLeaves'
  BY <1>2 DEF HardExitLeaves
<1>4. LogsOpen
  BY ForceExitTranscript DEF LogsOpen
<1> QED
  BY <1>2, <1>3, <1>4, NobodyDInv DEF Promises, DreamStays

LEMMA ExitsPromises ==
  ASSUME ~Overlap, DInv, IInv', HardExit \/ WakeExits
  PROVE  Promises /\ Nobody'
<1>1. Nobody /\ UNCHANGED <<waitVars, logVars>> /\ ForceExit(st, 0)
  BY QuietNobody DEF HardExit, WakeExits
<1>2. Nobody' /\ dreams' = dreams
  BY <1>1 DEF Nobody, InEnter, InWake, waitVars, logVars
<1>3. st \in State /\ ((st.status \in Active) <=> (st.dream # NoDream))
  BY DEF DInv, IInv, TypeOK, DreamOn
<1>4. \/ exit' = "none"
      \/ exit' = CASE st'.status \in Idle -> "left"
                   [] faults' # faults -> "failed"
                   [] OTHER -> "stuck"
  BY DEF HardExit, WakeExits
<1> QED
  BY <1>1, <1>2, <1>3, <1>4, ExitPromises

(* The steps after which somebody waits. *)
LEMMA EnterBeginsPromises ==
  ASSUME ~Overlap, DInv, IInv', NEW e \in Enterers, EnterBegins(e)
  PROVE  Promises
<1> DEFINE new == dreams + 1
<1>1. TypeOK /\ TypeOK' /\ dreams \in Nat
  <2>1. TypeOK /\ TypeOK'
    BY DEF DInv, IInv
  <2>2. dreams \in 0..MaxDream
    BY <2>1 DEF TypeOK
  <2> QED
    BY <2>1, <2>2, DreamAssumption
<1>2. /\ Nobody /\ st.status \in Idle /\ dreams' = new /\ new \in Dream
      /\ entering' = [entering EXCEPT ![e] = Waiting([st EXCEPT !.dream = new])]
      /\ exit' = "none"
      /\ UNCHANGED <<st, current, archive, chat, waking, closes, faults>>
  BY <1>1, QuietNobody, DreamAssumption DEF EnterBegins, diskVars, heldVars, pastVars, Dream, TypeOK
<1>3. /\ entering'[e].state.dream = new
      /\ \A f \in Enterers : InEnter(f)' => f = e
  BY <1>1, <1>2 DEF TypeOK, Waiting, State, Nobody, InEnter
<1>4. \A w \in Wakers : ~InWake(w)'
  BY <1>2 DEF Nobody, InWake
<1>5. chat' = None
  BY <1>2 DEF Nobody
<1>6. st.dream = NoDream
  BY <1>1, <1>2, IdleOrActive DEF DInv, DreamOn, TypeOK
<1>7. closes'[new] = 0 /\ new \in 1..dreams'
  BY <1>1, <1>2 DEF DInv, NotClosed
<1> HIDE DEF new
<1>8. Alone'
  BY <1>3, <1>4, <1>5 DEF Alone
<1>9. Carried'
  BY <1>2, <1>3, <1>4, <1>5, <1>7 DEF Carried
<1>10. NotClosed'
  <2>1. \A d \in Dream : d > dreams' => d > dreams
    BY <1>1, <1>2, DreamAssumption DEF Dream, new
  <2> QED
    BY <1>2, <1>6, <2>1 DEF DInv, NotClosed
<1> QED
  BY <1>2, <1>8, <1>9, <1>10
     DEF Promises, DreamStays, LogsOpen, DInv, DreamOn, HardExitLeaves

LEMMA ChatBeginsPromises ==
  ASSUME ~Overlap, DInv, IInv', NEW b \in BOOLEAN, ChatBegins(b)
  PROVE  Promises /\ UNCHANGED <<st, faults>>
<1>1. /\ Nobody /\ st.status \in Active /\ exit' = "none"
      /\ UNCHANGED <<current, archive, entering, waking, turns, dreamOf, closes>>
  BY QuietNobody DEF ChatBegins
<1>2. st.dream # NoDream
  BY <1>1 DEF DInv, DreamOn
<1>3. chat' = Chatting(st.dream, b) /\ UNCHANGED <<st, dreams, faults>>
  BY <1>2 DEF ChatBegins
<1>4. (\A e \in Enterers : ~InEnter(e)') /\ (\A w \in Wakers : ~InWake(w)')
  BY <1>1 DEF Nobody, InEnter, InWake
<1>5. chat'.dream = st'.dream
  BY <1>3 DEF Chatting
<1>6. Alone' /\ Carried'
  BY <1>1, <1>3, <1>4, <1>5 DEF Alone, Carried
<1> QED
  BY <1>1, <1>3, <1>6
     DEF Promises, DreamStays, LogsOpen, DInv, DreamOn, NotClosed, HardExitLeaves

LEMMA WakeBeginsPromises ==
  ASSUME ~Overlap, DInv, IInv', NEW w \in Wakers, WakeBegins(w)
  PROVE  Promises /\ Nobody /\ st'.dream = st.dream
<1> DEFINE marked == [st EXCEPT !.status = "DREAM_EXIT_REQUESTED", !.offered = st.dream]
<1>1. TypeOK /\ faults \in Nat
  <2>1. TypeOK
    BY DEF DInv, IInv
  <2>2. faults \in 0..MaxFaults
    BY <2>1 DEF TypeOK
  <2>3. MaxFaults \in Nat
    BY DreamAssumption
  <2> QED
    BY <2>1, <2>2, <2>3
<1>2. /\ Nobody /\ st.status = "DREAM_ACTIVE" /\ exit' = "none"
      /\ waking' = [waking EXCEPT ![w] = Waiting(marked)]
      /\ UNCHANGED <<current, archive, chat, entering, dreams, turns, dreamOf, closes>>
      /\ st' \in {st, marked}
  BY QuietNobody DEF WakeBegins, logVars
<1>3. faults' = 0 => faults = 0
  BY <1>1 DEF WakeBegins, Pays
<1>4. marked.dream = st.dream /\ marked.status = "DREAM_EXIT_REQUESTED"
  BY <1>1 DEF TypeOK, State
<1> HIDE DEF marked
<1>5. st'.dream = st.dream /\ st'.status \in Active
  BY <1>2, <1>4 DEF Active
<1>6. /\ waking'[w].state = marked
      /\ \A v \in Wakers : InWake(v)' => v = w
  BY <1>1, <1>2 DEF TypeOK, Waiting, Nobody, InWake
<1>7. chat' = None /\ (\A e \in Enterers : ~InEnter(e)')
  BY <1>2 DEF Nobody, InEnter
<1>8. Alone' /\ Carried'
  BY <1>4, <1>5, <1>6, <1>7 DEF Alone, Carried
<1>9. DreamOn' /\ NotClosed'
  <2>1. st.dream # NoDream
    BY <1>2 DEF DInv, DreamOn, Active
  <2> QED
    BY <1>2, <1>3, <1>5, <2>1 DEF DInv, DreamOn, NotClosed
<1> QED
  BY <1>2, <1>5, <1>8, <1>9 DEF Promises, DreamStays, LogsOpen, DInv, HardExitLeaves

(* The answers: whoever waited was alone. *)
LEMMA EnterEndsPromises ==
  ASSUME DInv, IInv', NEW e \in Enterers, EnterReturns(e) \/ EnterFails(e)
  PROVE  Promises /\ Nobody' /\ st.dream = NoDream
<1>1. TypeOK
  BY DEF DInv, IInv
<1>2. /\ InEnter(e) /\ entering' = [entering EXCEPT ![e] = None] /\ exit' = "none"
      /\ UNCHANGED <<current, archive, chat, waking, dreams, turns, dreamOf, closes, faults>>
  BY DEF EnterReturns, EnterFails, InEnter, diskVars, logVars, heldVars, pastVars
<1>3. Nobody'
  BY <1>1, <1>2 DEF DInv, Alone, Nobody, InEnter, InWake, TypeOK
<1>4. /\ st.status \in Idle /\ entering[e].state.dream \in 1..dreams
      /\ closes[entering[e].state.dream] = 0
  BY <1>2 DEF DInv, Carried
<1>5. st.dream = NoDream
  BY <1>1, <1>4, IdleOrActive DEF DInv, DreamOn, TypeOK
<1>6. DreamOn' /\ NotClosed'
  <2>1. CASE EnterReturns(e)
    <3>1. entering[e].state \in State
      BY <1>1, <1>2 DEF TypeOK, InEnter
    <3>2. st'.dream = entering[e].state.dream /\ st'.status = "DREAM_ACTIVE"
      BY <2>1, <3>1 DEF EnterReturns, State
    <3>3. st'.dream # NoDream
      BY <1>1, <1>4, <3>2, DreamAssumption DEF TypeOK, NoDream
    <3> QED
      BY <1>2, <1>4, <3>2, <3>3 DEF DInv, NotClosed, DreamOn, Active
  <2>2. CASE EnterFails(e)
    BY <1>2, <2>2 DEF EnterFails, diskVars, DInv, DreamOn, NotClosed
  <2> QED
    BY <2>1, <2>2
<1>7. HardExitLeaves'
  BY <1>2 DEF HardExitLeaves
<1> QED
  BY <1>2, <1>3, <1>5, <1>6, <1>7, NobodyDInv DEF Promises, DreamStays, LogsOpen

(* The local state is patched, or that was refused. *)
LEMMA LocalFacts ==
  ASSUME st \in State, NEW p \in Put(st, [st EXCEPT !.local = TRUE])
  PROVE  /\ p.st \in State /\ p.st.dream = st.dream /\ p.st.status = st.status
         /\ p.failed \in Nat
<1> DEFINE patched == [st EXCEPT !.local = TRUE]
<1>1. patched \in State /\ patched.dream = st.dream /\ patched.status = st.status
  BY DEF State
<1>2. p \in Put(st, patched)
  OBVIOUS
<1> HIDE DEF patched
<1>3. p.st \in {st, patched} /\ p.failed \in {0, 1}
  BY <1>2, PutFacts
<1> QED
  BY <1>1, <1>3

LEMMA ChatEndsPromises ==
  ASSUME DInv, IInv', ChatFails \/ \E b \in BOOLEAN : ChatReplies(b)
  PROVE  Promises /\ Nobody'
<1>1. TypeOK
  BY DEF DInv, IInv
<1>2. chat # None /\ chat' = None /\ exit' = "none" /\ UNCHANGED <<entering, waking, dreams>>
  BY DEF ChatFails, ChatReplies, logVars
<1>3. Nobody'
  BY <1>2 DEF DInv, Alone, Nobody, InEnter, InWake
<1>4. HardExitLeaves'
  BY <1>2 DEF HardExitLeaves
<1>5. CASE ChatFails
  <2>1. UNCHANGED <<st, current, archive, dreamOf, closes, faults>>
    BY <1>5 DEF ChatFails, diskVars, logVars, heldVars, pastVars
  <2>2. DreamOn' /\ NotClosed'
    BY <1>2, <2>1 DEF DInv, DreamOn, NotClosed
  <2> QED
    BY <1>3, <1>4, <2>1, <2>2, NobodyDInv DEF Promises, DreamStays, LogsOpen
<1>6. ASSUME NEW b \in BOOLEAN, ChatReplies(b)
      PROVE  Promises
  <2>1. /\ turns < MaxTurn /\ turns' = turns + 1
        /\ dreamOf' = [dreamOf EXCEPT ![turns'] = chat.dream]
    BY <1>6 DEF ChatReplies
  <2>2. PICK log \in Logs(turns'), p \in Put(st, [st EXCEPT !.local = TRUE]) :
          \/ \E q \in Put(p.st, Closing(p.st)) :
               Close(q.st, log.file, chat.dream, log.failed + p.failed + q.failed)
          \/ /\ st' = p.st /\ current' = log.file /\ Pays(log.failed + p.failed)
             /\ UNCHANGED <<archive, closes, sealed>>
    <3>1. \E log \in Logs(turns'), p \in Put(st, [st EXCEPT !.local = TRUE]) :
            /\ broken' = IF log.failed = 0 THEN broken ELSE broken \cup {turns'}
            /\ \/ \E q \in Put(p.st, Closing(p.st)) :
                    Close(q.st, log.file, chat.dream, log.failed + p.failed + q.failed)
               \/ /\ st' = p.st /\ current' = log.file /\ Pays(log.failed + p.failed)
                  /\ ~b
                  /\ UNCHANGED <<archive, closes, sealed>>
      BY <1>6, RepliesFacts
    <3> QED
      BY <3>1
  <2>3. chat.dream = st.dream /\ st.status \in Active /\ st.dream # NoDream
    BY <1>2 DEF DInv, Carried, DreamOn
  <2>4. turns' \in Turn
    BY <1>1, <2>1, DreamAssumption DEF TypeOK, Turn
  <2>5. log.file \in {Append(current, turns'), current} /\ log.failed \in Nat
    BY LogsFacts
  <2>6. /\ log.file \in Seq(Turn)
        /\ log.file = current \/ log.file[Len(log.file)] = turns'
    <3>1. current \in Seq(Turn)
      BY <1>1 DEF TypeOK
    <3>2. Append(current, turns') \in Seq(Turn)
          /\ Append(current, turns')[Len(Append(current, turns'))] = turns'
      BY <2>4, <3>1
    <3> QED
      BY <2>5, <3>1, <3>2
  <2>7. /\ p.failed \in Nat /\ p.st \in State
        /\ p.st.dream = st.dream /\ p.st.status = st.status
    <3>1. st \in State
      BY <1>1 DEF TypeOK
    <3> QED
      BY <3>1, LocalFacts
  <2>8. current' \in {log.file, <<>>}
    BY <2>2, ClosedTranscript
  <2>9. LogsOpen
    <3>1. dreamOf'[turns'] = st.dream
      BY <1>1, <2>1, <2>3, <2>4 DEF TypeOK
    <3>2. closes[st.dream] = 0
      BY <2>3 DEF DInv, NotClosed
    <3> QED
      BY <2>6, <2>8, <3>1, <3>2 DEF LogsOpen
  <2>10. DreamOn' /\ NotClosed' /\ st'.dream \in {st.dream, NoDream}
    <3>1. ASSUME NEW q \in Put(p.st, Closing(p.st)),
                 Close(q.st, log.file, chat.dream, log.failed + p.failed + q.failed)
          PROVE  DreamOn' /\ NotClosed' /\ st'.dream \in {st.dream, NoDream}
      <4>1. q.st \in {p.st, Closing(p.st)} /\ log.failed + p.failed + q.failed \in Nat
        BY <2>5, <2>7, PutFacts
      <4>2. q.st \in State /\ q.st.status \in Active /\ q.st.dream = st.dream
        BY <2>3, <2>7, <4>1 DEF Closing, State, Active
      <4> QED
        BY <1>1, <1>2, <2>3, <2>6, <3>1, <4>1, <4>2, CloseLeaves DEF DInv
    <3>2. CASE st' = p.st /\ Pays(log.failed + p.failed) /\ UNCHANGED <<archive, closes>>
      <4>1. faults' = 0 => faults = 0
        BY <1>1, <2>5, <2>7, <3>2, DreamAssumption DEF Pays, TypeOK
      <4> QED
        BY <1>2, <2>3, <2>7, <3>2, <4>1 DEF DInv, NotClosed, DreamOn
    <3> QED
      BY <2>2, <3>1, <3>2
  <2> QED
    BY <1>3, <1>4, <2>9, <2>10, NobodyDInv DEF Promises, DreamStays
<1> QED
  BY <1>3, <1>5, <1>6

LEMMA WakeEndsPromises ==
  ASSUME DInv, IInv', NEW w \in Wakers, WakeRetains(w) \/ WakeFails(w)
  PROVE  Promises /\ Nobody'
<1>1. TypeOK
  BY DEF DInv, IInv
<1>2. /\ InWake(w) /\ waking' = [waking EXCEPT ![w] = None] /\ exit' = "none"
      /\ UNCHANGED <<chat, entering, dreams>>
  BY DEF WakeRetains, WakeFails, InWake, logVars
<1>3. Nobody'
  BY <1>1, <1>2 DEF DInv, Alone, Nobody, InEnter, InWake, TypeOK
<1>4. /\ waking[w].state.dream = st.dream /\ waking[w].state.status \in Active
      /\ st.status \in Active /\ st.dream # NoDream
      /\ waking[w].state \in State /\ st \in State
  BY <1>1, <1>2 DEF DInv, Carried, DreamOn, Active, TypeOK, InWake
<1>5. \A p \in Put(st, waking[w].state) :
         p.st \in State /\ p.st.dream = st.dream /\ p.st.status \in Active /\ p.failed \in Nat
  BY <1>4, PutFacts
<1>6. CASE WakeRetains(w)
  <2>1. PICK p \in Put(st, waking[w].state) : st' = p.st /\ Pays(p.failed)
    BY <1>6 DEF WakeRetains
  <2>2. UNCHANGED <<current, archive, closes>>
    BY <1>6 DEF WakeRetains
  <2>3. faults' = 0 => faults = 0
    BY <1>1, <1>5, <2>1, DreamAssumption DEF Pays, TypeOK
  <2>4. DreamOn' /\ NotClosed' /\ HardExitLeaves'
    BY <1>2, <1>4, <1>5, <2>1, <2>2, <2>3 DEF DInv, DreamOn, NotClosed, HardExitLeaves
  <2> QED
    BY <1>3, <1>5, <2>1, <2>2, <2>4, NobodyDInv DEF Promises, DreamStays, LogsOpen
<1>7. CASE WakeFails(w)
  <2>1. PICK p \in Put(st, waking[w].state) : ForceExit(p.st, p.failed)
    BY <1>7 DEF WakeFails
  <2>2. (p.st.status \in Active) <=> (p.st.dream # NoDream)
    BY <1>4, <1>5
  <2> QED
    BY <1>2, <1>3, <1>5, <2>1, <2>2, ExitPromises
<1> QED
  BY <1>3, <1>6, <1>7

LEMMA ResumePromises ==
  ASSUME ~Overlap, DInv, IInv', Resume
  PROVE  Promises /\ Nobody' /\ st'.dream = st.dream
<1>1. TypeOK
  BY DEF DInv, IInv
<1>2. /\ Nobody /\ st.status = "DREAM_EXIT_REQUESTED" /\ exit' = "none"
      /\ UNCHANGED <<current, archive, chat, entering, waking, dreams, closes, faults>>
  BY QuietNobody DEF Resume, waitVars, logVars, heldVars, pastVars
<1>3. st'.dream = st.dream /\ st'.status = "DREAM_ACTIVE"
  BY <1>1 DEF Resume, TypeOK, State
<1>4. Nobody' /\ DreamOn' /\ NotClosed' /\ HardExitLeaves'
  BY <1>2, <1>3 DEF Nobody, InEnter, InWake, DInv, DreamOn, NotClosed, HardExitLeaves, Active
<1> QED
  BY <1>2, <1>3, <1>4, NobodyDInv DEF Promises, DreamStays, LogsOpen

LEMMA StopPromises ==
  ASSUME DInv, IInv', Crash \/ CrashInWrite \/ CrashInClose
  PROVE  Promises /\ Nobody'
<1>1. TypeOK
  BY DEF DInv, IInv
<1>2. Stop
  BY DEF Crash, CrashInWrite, CrashInClose
<1>3. Nobody' /\ HardExitLeaves' /\ dreams' = dreams /\ closes' = closes
  BY <1>2 DEF Stop, Nobody, InEnter, InWake, HardExitLeaves, logVars
<1>4. faults \in Nat
  BY <1>1, DreamAssumption DEF TypeOK
<1>5. CASE Crash
  <2>1. UNCHANGED <<st, current, archive, faults>>
    BY <1>5 DEF Crash, diskVars
  <2>2. DreamOn' /\ NotClosed'
    BY <1>3, <2>1 DEF DInv, DreamOn, NotClosed
  <2> QED
    BY <1>3, <2>1, <2>2, NobodyDInv DEF Promises, DreamStays, LogsOpen
<1>6. CASE CrashInWrite
  <2>1. st'.dream = NoDream /\ st'.status = "REALITY_CHAT" /\ current' = current /\ faults' # 0
    BY <1>4, <1>6 DEF CrashInWrite, Default, Pays
  <2>2. DreamOn' /\ NotClosed'
    BY <1>3, <2>1 DEF DInv, DreamOn, NotClosed, Active
  <2> QED
    BY <1>3, <2>1, <2>2, NobodyDInv DEF Promises, DreamStays, LogsOpen
<1>7. CASE CrashInClose
  <2>1. PICK p \in Put(st, Closing(st)) : st' = p.st /\ Pays(1 + p.failed)
    BY <1>7 DEF CrashInClose
  <2>2. /\ current' = <<>> /\ st.dream # NoDream
        /\ st'.dream = st.dream /\ st'.status \in Active
    <3>1. current' = <<>> /\ st.dream # NoDream /\ st.status \in Active
      BY <1>7 DEF CrashInClose, ArchiveSucceeds
    <3>2. Closing(st).dream = st.dream /\ Closing(st).status \in Active
      BY <1>1 DEF TypeOK, State, Closing, Active
    <3>3. st' \in {st, Closing(st)}
      BY <2>1, PutFacts
    <3> QED
      BY <3>1, <3>2, <3>3
  <2>3. faults' # 0
    BY <1>4, <2>1, PutFacts DEF Pays
  <2>4. DreamOn' /\ NotClosed'
    BY <1>3, <2>2, <2>3 DEF DInv, DreamOn, NotClosed
  <2> QED
    BY <1>3, <2>2, <2>4, NobodyDInv DEF Promises, DreamStays, LogsOpen
<1> QED
  BY <1>3, <1>5, <1>6, <1>7

LEMMA AsidePromises ==
  ASSUME DInv, Aside \/ UNCHANGED vars
  PROVE  Promises
<1>1. /\ UNCHANGED <<st, current, archive, chat, entering, waking>>
      /\ UNCHANGED <<dreams, turns, dreamOf, broken, closes, sealed, retained, unmarked>>
      /\ UNCHANGED <<faults, crashes>>
      /\ exit' = exit \/ exit' = "none"
  BY DEF Aside, vars, diskVars, waitVars, logVars, heldVars, pastVars
<1>2. TypeOK'
  <2>1. TypeOK
    BY DEF DInv, IInv
  <2> QED
    BY <1>1, <2>1 DEF TypeOK
<1>3. TurnsKept' /\ CloseSeals' /\ LoggedAnswered'
  BY <1>1 DEF DInv, IInv, TurnsKept, CloseSeals, LoggedAnswered, In, Archived
<1>4. Alone' /\ Carried'
  BY <1>1 DEF DInv, Alone, Carried, InEnter, InWake
<1>5. DreamOn' /\ NotClosed' /\ HardExitLeaves'
  BY <1>1 DEF DInv, DreamOn, NotClosed, HardExitLeaves
<1> QED
  BY <1>1, <1>2, <1>3, <1>4, <1>5 DEF Promises, DInv, IInv, DreamStays, LogsOpen

LEMMA StepPromises ==
  ASSUME ~Overlap, DInv, [Next]_vars \/ Aside
  PROVE  Promises
<1>1. CASE Aside \/ UNCHANGED vars
  BY <1>1, AsidePromises
<1>2. CASE Next
  <2>1. IInv'
    BY <1>2, StepIInv DEF DInv
  <2>2. CASE HardExit \/ WakeExits \/ Resume
    BY <2>1, <2>2, ExitsPromises, ResumePromises
  <2>3. ASSUME NEW e \in Enterers, EnterBegins(e) \/ EnterReturns(e) \/ EnterFails(e)
        PROVE  Promises
    BY <2>1, <2>3, EnterBeginsPromises, EnterEndsPromises
  <2>4. ASSUME NEW b \in BOOLEAN, ChatBegins(b)
        PROVE  Promises
    BY <2>1, <2>4, ChatBeginsPromises
  <2>5. CASE ChatFails \/ \E b \in BOOLEAN : ChatReplies(b)
    BY <2>1, <2>5, ChatEndsPromises
  <2>6. ASSUME NEW w \in Wakers, WakeBegins(w) \/ WakeRetains(w) \/ WakeFails(w)
        PROVE  Promises
    BY <2>1, <2>6, WakeBeginsPromises, WakeEndsPromises
  <2>7. CASE Crash \/ CrashInWrite \/ CrashInClose
    BY <2>1, <2>7, StopPromises
  <2> QED
    BY <1>2, <2>2, <2>3, <2>4, <2>5, <2>6, <2>7 DEF Next
<1> QED
  BY <1>1, <1>2

LEMMA InitDInv == Init => DInv
<1> SUFFICES ASSUME Init PROVE DInv
  OBVIOUS
<1>1. /\ Nobody /\ st.dream = NoDream /\ st.status = "REALITY_CHAT" /\ exit = "none"
      /\ \A d \in Dream : closes[d] = 0
      /\ DOMAIN archive = {}
  BY DEF Init, Nobody, InEnter, InWake, Default
<1> QED
  BY <1>1, InitIInv
     DEF DInv, Alone, Carried, Nobody, DreamOn, NotClosed, HardExitLeaves, Active

(* Every step of a scenario is a step of the dream, or leaves it alone. *)
LEMMA ScenarioSteps ==
  ASSUME [ScenarioNext]_<<vars, scenarioVars>>
  PROVE  [Next]_vars \/ Aside
<1>0. CASE UNCHANGED <<vars, scenarioVars>>
  BY <1>0
<1>1. CASE Leaves \/ Resumes \/ Breaks \/ Stops
  BY <1>1 DEF Leaves, Resumes, Breaks, Stops, Next
<1>2. CASE \E e \in Enterers : Enters(e)
  BY <1>2 DEF Enters, Next
<1>3. CASE \E w \in Wakers : Wakes(w)
  BY <1>3 DEF Wakes, Next
<1>4. CASE \E b \in BOOLEAN : Asks(b) \/ Answers(b)
  BY <1>4 DEF Asks, Answers, Next
<1>5. CASE \E r \in asked : VerdictSought(r) \/ VerdictNone(r) \/ VerdictApplied(r)
  BY <1>5 DEF VerdictSought, VerdictNone, VerdictApplied, Aside
<1> QED
  BY <1>0, <1>1, <1>2, <1>3, <1>4, <1>5 DEF ScenarioNext

(* With or without a scenario, one request at a time keeps the invariant. *)
LEMMA OneAtATime ==
  ASSUME ~Overlap
  PROVE  Spec \/ ScenarioSpec => []DInv
<1>1. DInv /\ [Next]_vars => DInv'
  BY StepPromises DEF Promises
<1>2. DInv /\ [ScenarioNext]_<<vars, scenarioVars>> => DInv'
  BY StepPromises, ScenarioSteps DEF Promises
<1>3. ScenarioInit => DInv
  BY InitDInv DEF ScenarioInit
<1> QED
  BY <1>1, <1>2, <1>3, InitDInv, PTL DEF Spec, ScenarioSpec

(* While requests come one at a time and the disk has never failed, the     *)
(* hard exit leaves the dream: a dreamer is only kept in by what a failure  *)
(* of the disk left behind.                                                 *)
THEOREM ExitAlwaysLeaves ==
  ASSUME ~Overlap
  PROVE  Spec \/ ScenarioSpec => []HardExitLeaves
<1>1. DInv => HardExitLeaves
  BY DEF DInv
<1> QED
  BY <1>1, OneAtATime, PTL

(* One request at a time, a turn is never logged for a dream whose closed   *)
(* state was stored, whichever writes the disk refuses and wherever the      *)
(* process ends.  A dream whose closed state was refused is still on.       *)
THEOREM ClosedStaysClosed ==
  ASSUME ~Overlap
  PROVE  Spec \/ ScenarioSpec => ClosedNotWritten
<1>1. DInv /\ ([Next]_vars \/ Aside) => LogsOpen
  BY StepPromises DEF Promises
<1>2. DInv /\ [Next]_vars => [LogsOpen]_vars
  BY <1>1
<1>3. DInv /\ [ScenarioNext]_<<vars, scenarioVars>> => [LogsOpen]_vars
  BY <1>1, ScenarioSteps
<1> QED
  BY <1>2, <1>3, OneAtATime, PTL DEF Spec, ScenarioSpec, ClosedNotWritten, LogsOpen

(* One request at a time, a dream that is on is left before another begins. *)
THEOREM NeverReplaced ==
  ASSUME ~Overlap
  PROVE  Spec \/ ScenarioSpec => DreamNotReplaced
<1>1. DInv /\ ([Next]_vars \/ Aside) => DreamStays
  BY StepPromises DEF Promises
<1>2. DInv /\ [Next]_vars => [DreamStays]_vars
  BY <1>1
<1>3. DInv /\ [ScenarioNext]_<<vars, scenarioVars>> => [DreamStays]_vars
  BY <1>1, ScenarioSteps
<1> QED
  BY <1>2, <1>3, OneAtATime, PTL DEF Spec, ScenarioSpec, DreamNotReplaced, DreamStays

-----------------------------------------------------------------------------
(* The dream's life: each step of the session, one request at a time, is    *)
(* one of DreamLife, or none.                                               *)
LifeStep == Life!Next \/ UNCHANGED Life!vars

LEMMA SameLife ==
  ASSUME st'.dream = st.dream, UNCHANGED <<current, archive, turns, dreamOf, closes>>
  PROVE  LifeStep
<1>1. OpenTurns' = OpenTurns /\ LeftDreams' = LeftDreams /\ KeptTurns' = KeptTurns
  BY DEF OpenTurns, LeftDreams, KeptTurns, In, Archived
<1> QED
  BY <1>1 DEF LifeStep, Life!vars

(* cur is the transcript, with what is written of the turn just answered.   *)
Logged(cur, new) ==
  /\ \A t : In(t, cur) <=> In(t, current) \/ t \in new
  /\ \/ turns' = turns /\ new = {}
     \/ turns' = turns + 1 /\ new \subseteq {turns'}

(* What is open and what is kept, after a close and without one. *)
LEMMA OpenAndKept ==
  ASSUME IInv, NEW cur, NEW new, CloseKeeps(cur), Logged(cur, new)
  PROVE  /\ current' = <<>> => OpenTurns' = {} /\ KeptTurns' = KeptTurns \cup OpenTurns \cup new
         /\ current' = cur => OpenTurns' = OpenTurns \cup new /\ KeptTurns' = KeptTurns
<1>1. turns \in Nat /\ new \subseteq 1..turns' /\ 1..turns \subseteq 1..turns'
  BY DreamAssumption DEF IInv, TypeOK, Logged
<1>2. \A t : In(t, current) \/ Archived(t) => t \in 1..turns
  BY DEF IInv, LoggedAnswered
<1>3. \A t \in new : t \notin 1..turns
  BY <1>1 DEF Logged
<1>4. \A t : Archived(t) => Archived(t)'
  BY KeptArchived DEF CloseKeeps
<1>5. ASSUME current' = <<>>
      PROVE  OpenTurns' = {} /\ KeptTurns' = KeptTurns \cup OpenTurns \cup new
  <2>1. \A t : ~In(t, current')
    BY <1>5 DEF In
  <2>2. \A t : Archived(t)' <=> Archived(t) \/ In(t, current) \/ t \in new
    BY <1>4, <2>1 DEF CloseKeeps, Logged
  <2>3. OpenTurns' = {} /\ KeptTurns' = {t \in 1..turns' : Archived(t)'}
    BY <2>1 DEF OpenTurns, KeptTurns, In
  <2> QED
    BY <1>1, <1>2, <2>2, <2>3 DEF OpenTurns, KeptTurns
<1>6. ASSUME current' = cur
      PROVE  OpenTurns' = OpenTurns \cup new /\ KeptTurns' = KeptTurns
  <2>1. \A t : In(t, current') <=> In(t, current) \/ t \in new
    BY <1>6 DEF Logged
  <2>2. \A t : (Archived(t)' /\ ~In(t, current')) <=> (Archived(t) /\ ~In(t, current))
    BY <1>2, <1>3, <1>4, <1>6, <2>1 DEF CloseKeeps
  <2>3. /\ OpenTurns' = {t \in 1..turns' : In(t, current')}
        /\ KeptTurns' = {t \in 1..turns' : Archived(t)' /\ ~In(t, current')}
    BY DEF OpenTurns, KeptTurns, In
  <2> QED
    BY <1>1, <1>2, <2>1, <2>2, <2>3 DEF OpenTurns, KeptTurns
<1> QED
  BY <1>5, <1>6

(* A close of the dream that is on holds it, archives what it said, or      *)
(* leaves it as well.                                                       *)
DreamOutcome(cur, d) ==
  \/ st'.dream = d /\ current' \in {cur, <<>>} /\ LeftDreams' = LeftDreams
  \/ st'.dream = NoDream /\ current' = <<>> /\ LeftDreams' = LeftDreams \cup {d}

LEMMA CloseOutcome ==
  ASSUME TypeOK, NEW s \in State, NEW cur, NEW n, s.status \in Active, s.dream \in Dream,
         Close(s, cur, s.dream, n)
  PROVE  DreamOutcome(cur, s.dream)
<1>1. CASE ArchiveSucceeds(cur, s.dream) /\ st' = Afterglow(s)
           /\ closes' = [closes EXCEPT ![s.dream] = @ + 1]
  <2>1. st'.dream = NoDream /\ current' = <<>>
    BY <1>1 DEF Afterglow, State, ArchiveSucceeds
  <2>2. closes \in [Dream -> Nat]
    BY DEF TypeOK
  <2>3. LeftDreams' = LeftDreams \cup {s.dream}
    BY <1>1, <2>2 DEF LeftDreams
  <2> QED
    BY <2>1, <2>3 DEF DreamOutcome
<1>2. CASE st' = s /\ UNCHANGED closes
  <2>1. current' \in {cur, <<>>}
    BY ClosedTranscript
  <2>2. LeftDreams' = LeftDreams
    BY <1>2 DEF LeftDreams
  <2> QED
    BY <1>2, <2>1, <2>2 DEF DreamOutcome
<1> QED
  BY <1>1, <1>2 DEF Close, Held

LEMMA OutcomeGoesOn ==
  ASSUME IInv, NEW cur, NEW new, CloseKeeps(cur), Logged(cur, new),
         st.dream # NoDream, DreamOutcome(cur, st.dream)
  PROVE  Life!GoesOn(new)
<1>1. CASE st'.dream = st.dream /\ current' = cur /\ LeftDreams' = LeftDreams
  <2>1. OpenTurns' = OpenTurns \cup new /\ KeptTurns' = KeptTurns
    BY <1>1, OpenAndKept
  <2> QED
    BY <1>1, <2>1 DEF Life!GoesOn, Life!Stay
<1>2. ASSUME current' = <<>>
      PROVE  OpenTurns' = {} /\ KeptTurns' = KeptTurns \cup OpenTurns \cup new
  BY <1>2, OpenAndKept
<1>3. CASE st'.dream = st.dream /\ current' = <<>> /\ LeftDreams' = LeftDreams
  BY <1>2, <1>3 DEF Life!GoesOn, Life!Keep, Life!KeepAll
<1>4. CASE st'.dream = NoDream /\ current' = <<>> /\ LeftDreams' = LeftDreams \cup {st.dream}
  BY <1>2, <1>4 DEF Life!GoesOn, Life!Leave, Life!KeepAll
<1> QED
  BY <1>1, <1>3, <1>4 DEF DreamOutcome

(* No turn was answered. *)
LEMMA SilentLife ==
  ASSUME IInv, CloseKeeps(current), UNCHANGED <<turns, dreamOf>>,
         st.dream # NoDream, DreamOutcome(current, st.dream)
  PROVE  LifeStep
<1>1. Logged(current, {})
  BY DEF Logged
<1>2. Life!GoesOn({})
  BY <1>1, OutcomeGoesOn
<1> QED
  BY <1>2 DEF LifeStep, Life!Next

LEMMA ExitLife ==
  ASSUME IInv, NEW s \in State, NEW n \in Nat, s.dream = st.dream, ForceExit(s, n),
         UNCHANGED <<turns, dreamOf>>
  PROVE  LifeStep
<1>1. TypeOK
  BY DEF IInv
<1>2. CASE s.status \notin Active \/ s.dream = NoDream
  BY <1>2, SameLife DEF ForceExit
<1>3. CASE ~(s.status \notin Active \/ s.dream = NoDream)
  <2>1. PICK p \in Put(s, Closing(s)) : Close(p.st, current, s.dream, n + p.failed)
    BY <1>3 DEF ForceExit
  <2>2. p.st \in State /\ p.st.status \in Active /\ p.st.dream = s.dream /\ s.dream \in Dream
    BY <1>3, PutFacts DEF Closing, State, Active
  <2>3. DreamOutcome(current, st.dream)
    BY <1>1, <2>1, <2>2, CloseOutcome
  <2>4. CloseKeeps(current)
    BY <1>1, ForceExitFacts
  <2> QED
    BY <1>3, <2>3, <2>4, SilentLife
<1> QED
  BY <1>2, <1>3

(* The turn that is answered is new, and is said in the dream that is on. *)
LEMMA ReplyLife ==
  ASSUME DInv, NEW b \in BOOLEAN, ChatReplies(b)
  PROVE  LifeStep
<1>1. IInv /\ TypeOK /\ st \in State /\ FilesOK /\ current \in Seq(Turn)
  BY DEF DInv, IInv, TypeOK, FilesOK
<1>2. /\ turns < MaxTurn /\ turns' = turns + 1
      /\ dreamOf' = [dreamOf EXCEPT ![turns'] = chat.dream]
  BY DEF ChatReplies
<1>3. chat.dream = st.dream /\ st.status \in Active /\ st.dream # NoDream
  BY DEF DInv, Carried, DreamOn, ChatReplies
<1>4. PICK log \in Logs(turns'), p \in Put(st, [st EXCEPT !.local = TRUE]) :
        \/ \E q \in Put(p.st, Closing(p.st)) :
             Close(q.st, log.file, chat.dream, log.failed + p.failed + q.failed)
        \/ /\ st' = p.st /\ current' = log.file
           /\ UNCHANGED <<archive, closes, sealed>>
  <2>1. \E log \in Logs(turns'), p \in Put(st, [st EXCEPT !.local = TRUE]) :
          /\ broken' = IF log.failed = 0 THEN broken ELSE broken \cup {turns'}
          /\ \/ \E q \in Put(p.st, Closing(p.st)) :
                  Close(q.st, log.file, chat.dream, log.failed + p.failed + q.failed)
             \/ /\ st' = p.st /\ current' = log.file /\ Pays(log.failed + p.failed)
                /\ ~b
                /\ UNCHANGED <<archive, closes, sealed>>
    BY RepliesFacts
  <2> QED
    BY <2>1
<1>5. turns \in Nat /\ turns' \in Turn /\ turns' > turns /\ st.dream \in Dream
  BY <1>1, <1>2, <1>3, DreamAssumption DEF TypeOK, Turn, State
<1>6. /\ p.st \in State /\ p.st.dream = st.dream /\ p.st.status = st.status /\ p.failed \in Nat
  BY <1>1, LocalFacts
<1>7. log.file \in {Append(current, turns'), current} /\ log.failed \in Nat
  BY LogsFacts
<1>8. PICK new \in SUBSET {turns'} : \A u : In(u, log.file) <=> In(u, current) \/ u \in new
  <2>1. CASE log.file = current
    <3>1. {} \in SUBSET {turns'} /\ \A u : In(u, log.file) <=> In(u, current) \/ u \in {}
      BY <2>1
    <3> QED
      BY <3>1
  <2>2. CASE log.file = Append(current, turns')
    <3>1. Len(current) \in Nat /\ DOMAIN current = 1..Len(current)
          /\ DOMAIN log.file = 1..(Len(current) + 1)
          /\ log.file[Len(current) + 1] = turns'
          /\ \A i \in 1..Len(current) : log.file[i] = current[i]
      BY <1>1, <1>5, <2>2
    <3>2. \A u : In(u, log.file) <=> In(u, current) \/ u \in {turns'}
      BY <3>1 DEF In
    <3> QED
      BY <3>2
  <2> QED
    BY <1>7, <2>1, <2>2
<1>9. Logged(log.file, new)
  BY <1>2, <1>8 DEF Logged
<1>10. log.file \in Seq(Turn)
  <2>1. Append(current, turns') \in Seq(Turn)
    BY <1>1, <1>5
  <2> QED
    BY <1>1, <1>7, <2>1
<1>11. CloseKeeps(log.file) /\ DreamOutcome(log.file, st.dream)
  <2>1. ASSUME NEW q \in Put(p.st, Closing(p.st)),
               Close(q.st, log.file, chat.dream, log.failed + p.failed + q.failed)
        PROVE  CloseKeeps(log.file) /\ DreamOutcome(log.file, st.dream)
    <3>1. q.st \in {p.st, Closing(p.st)} /\ log.failed + p.failed + q.failed \in Nat
      BY <1>6, <1>7, PutFacts
    <3>2. q.st \in State /\ q.st.status \in Active /\ q.st.dream = st.dream
      BY <1>3, <1>6, <3>1 DEF Closing, State, Active
    <3>3. closes \in [Dream -> Nat] /\ faults \in 0..MaxFaults
      BY <1>1 DEF TypeOK
    <3>4. Close(q.st, log.file, st.dream, log.failed + p.failed + q.failed)
      BY <1>3, <2>1
    <3>5. CloseKeeps(log.file)
      BY <1>1, <1>5, <1>10, <3>1, <3>2, <3>3, <3>4, CloseFacts
    <3>6. DreamOutcome(log.file, st.dream)
      BY <1>1, <1>5, <3>2, <3>4, CloseOutcome
    <3> QED
      BY <3>5, <3>6
  <2>2. CASE st' = p.st /\ current' = log.file /\ UNCHANGED <<archive, closes, sealed>>
    <3>1. CloseKeeps(log.file)
      BY <1>1, <1>10, <2>2 DEF CloseKeeps, FilesOK, ArchivesKept, Archived
    <3>2. LeftDreams' = LeftDreams
      BY <2>2 DEF LeftDreams
    <3> QED
      BY <1>6, <2>2, <3>1, <3>2 DEF DreamOutcome
  <2> QED
    BY <1>4, <2>1, <2>2
<1>12. Life!GoesOn(new)
  BY <1>1, <1>3, <1>9, <1>11, OutcomeGoesOn
<1>13. Life!Said(turns')
  <2>1. dreamOf[turns'] = NoDream
    BY <1>1, <1>5 DEF IInv, LoggedAnswered
  <2> QED
    BY <1>2, <1>3, <2>1 DEF Life!Said
<1> QED
  BY <1>5, <1>12, <1>13 DEF LifeStep, Life!Next

(* The process ends: the dream goes on, or is forgotten, or was archived    *)
(* and is still to be left.                                                 *)
LEMMA StopLife ==
  ASSUME IInv, Crash \/ CrashInWrite \/ CrashInClose
  PROVE  LifeStep
<1>1. UNCHANGED <<turns, dreamOf, closes, sealed>>
  BY DEF Crash, CrashInWrite, CrashInClose, Stop, logVars
<1>2. CASE Crash
  BY <1>1, <1>2, SameLife DEF Crash, diskVars
<1>3. CASE CrashInWrite
  <2>1. st'.dream = NoDream /\ current' = current /\ archive' = archive
    BY <1>3 DEF CrashInWrite, Default
  <2>2. CASE st.dream = NoDream
    BY <1>1, <2>1, <2>2, SameLife
  <2>3. CASE st.dream # NoDream
    <3>1. OpenTurns' = OpenTurns /\ LeftDreams' = LeftDreams /\ KeptTurns' = KeptTurns
      BY <1>1, <2>1 DEF OpenTurns, LeftDreams, KeptTurns, In, Archived
    <3> QED
      BY <1>1, <2>1, <2>3, <3>1 DEF LifeStep, Life!Next, Life!Forget
  <2> QED
    BY <2>2, <2>3
<1>4. CASE CrashInClose
  <2>1. st \in State /\ FilesOK /\ current \in Seq(Turn)
    BY DEF IInv, TypeOK, FilesOK
  <2>2. st.dream # NoDream /\ st.dream \in Dream /\ ArchiveSucceeds(current, st.dream)
    BY <1>4, <2>1 DEF CrashInClose, State
  <2>3. st'.dream = st.dream
    <3>1. PICK p \in Put(st, Closing(st)) : st' = p.st
      BY <1>4 DEF CrashInClose
    <3> QED
      BY <2>1, <3>1, PutFacts DEF Closing, State
  <2>4. CloseKeeps(current) /\ current' = <<>>
    <3>1. /\ FilesOK' /\ ArchivesKept /\ current' = <<>>
          /\ \A t : In(t, current) => Archived(t)'
          /\ \A t : Archived(t)' => Archived(t) \/ In(t, current)
      BY <2>1, <2>2, SucceedsFacts
    <3>2. \A t : ~In(t, current')
      BY <3>1 DEF In
    <3> QED
      BY <1>1, <3>1, <3>2 DEF CloseKeeps
  <2>5. LeftDreams' = LeftDreams
    BY <1>1 DEF LeftDreams
  <2> QED
    BY <1>1, <2>2, <2>3, <2>4, <2>5, SilentLife DEF DreamOutcome
<1> QED
  BY <1>2, <1>3, <1>4

LEMMA EnterReturnsLife ==
  ASSUME DInv, IInv', NEW e \in Enterers, EnterReturns(e)
  PROVE  LifeStep
<1> DEFINE d == entering[e].state.dream
<1>1. TypeOK /\ InEnter(e) /\ UNCHANGED <<current, archive, turns, dreamOf, closes>>
  BY DEF DInv, IInv, EnterReturns, InEnter, logVars, heldVars, pastVars
<1>2. st.dream = NoDream /\ d \in 1..dreams /\ closes[d] = 0
  BY <1>1, EnterEndsPromises DEF DInv, Carried
<1>3. d \in Dream
  <2>1. dreams \in 0..MaxDream
    BY <1>1 DEF TypeOK
  <2> QED
    BY <1>2, <2>1, DreamAssumption DEF Dream
<1>4. st'.dream = d
  <2>1. entering[e].state \in State
    BY <1>1 DEF TypeOK, InEnter
  <2> QED
    BY <2>1 DEF EnterReturns, State
<1>5. /\ OpenTurns' = OpenTurns /\ LeftDreams' = LeftDreams /\ KeptTurns' = KeptTurns
      /\ d \notin LeftDreams
  BY <1>1, <1>2 DEF OpenTurns, LeftDreams, KeptTurns, In, Archived
<1> HIDE DEF d
<1>6. Life!Begin(d)
  BY <1>1, <1>2, <1>4, <1>5 DEF Life!Begin
<1> QED
  BY <1>3, <1>6 DEF LifeStep, Life!Next

(* The other steps leave the life of the dream as it is. *)
LEMMA QuietLife ==
  ASSUME ~Overlap, DInv, DInv', IInv',
         \/ Resume \/ ChatFails \/ Aside \/ UNCHANGED vars
         \/ \E e \in Enterers : EnterBegins(e) \/ EnterFails(e)
         \/ \E b \in BOOLEAN : ChatBegins(b)
         \/ \E w \in Wakers : WakeBegins(w) \/ WakeRetains(w)
  PROVE  LifeStep
<1>1. UNCHANGED <<current, archive, turns, dreamOf, closes>>
  BY DEF Resume, ChatFails, Aside, vars, EnterBegins, EnterFails, ChatBegins, WakeBegins,
         WakeRetains, diskVars, logVars, heldVars, pastVars
<1>2. st'.dream = st.dream
  <2>1. CASE Resume
    BY <2>1, ResumePromises
  <2>2. CASE \E b \in BOOLEAN : ChatBegins(b)
    BY <2>2, ChatBeginsPromises
  <2>3. ASSUME NEW w \in Wakers, WakeBegins(w)
        PROVE  st'.dream = st.dream
    BY <2>3, WakeBeginsPromises
  <2>4. ASSUME NEW w \in Wakers, WakeRetains(w)
        PROVE  st'.dream = st.dream
    <3>1. waking[w].state.dream = st.dream
      BY <2>4 DEF WakeRetains, InWake, DInv, Carried
    <3>2. PICK p \in Put(st, waking[w].state) : st' = p.st
      BY <2>4 DEF WakeRetains
    <3> QED
      BY <3>1, <3>2, PutFacts
  <2>5. CASE ChatFails \/ Aside \/ UNCHANGED vars \/ \E e \in Enterers : EnterBegins(e) \/ EnterFails(e)
    BY <2>5 DEF ChatFails, Aside, vars, EnterBegins, EnterFails, diskVars
  <2> QED
    BY <2>1, <2>2, <2>3, <2>4, <2>5
<1> QED
  BY <1>1, <1>2, SameLife

LEMMA StepLife ==
  ASSUME ~Overlap, DInv, [Next]_vars \/ Aside
  PROVE  LifeStep
<1>1. DInv' /\ IInv' /\ IInv
  BY StepPromises DEF Promises, DInv
<1>2. CASE HardExit \/ WakeExits
  <2>1. st \in State
    BY <1>1 DEF IInv, TypeOK
  <2>2. ForceExit(st, 0) /\ UNCHANGED <<turns, dreamOf>>
    BY <1>2 DEF HardExit, WakeExits, logVars
  <2> QED
    BY <1>1, <2>1, <2>2, ExitLife
<1>3. ASSUME NEW w \in Wakers, WakeFails(w)
      PROVE  LifeStep
  <2>1. /\ waking[w].state.dream = st.dream /\ waking[w].state \in State /\ st \in State
        /\ UNCHANGED <<turns, dreamOf>>
    BY <1>1, <1>3 DEF WakeFails, InWake, DInv, Carried, IInv, TypeOK, logVars
  <2>2. PICK p \in Put(st, waking[w].state) : ForceExit(p.st, p.failed)
    BY <1>3 DEF WakeFails
  <2>3. p.st \in State /\ p.st.dream = st.dream /\ p.failed \in Nat
    BY <2>1, PutFacts
  <2> QED
    BY <1>1, <2>1, <2>2, <2>3, ExitLife
<1>4. ASSUME NEW e \in Enterers, EnterReturns(e)
      PROVE  LifeStep
  BY <1>1, <1>4, EnterReturnsLife
<1>5. ASSUME NEW b \in BOOLEAN, ChatReplies(b)
      PROVE  LifeStep
  BY <1>1, <1>5, ReplyLife
<1>6. CASE Crash \/ CrashInWrite \/ CrashInClose
  BY <1>1, <1>6, StopLife
<1> QED
  BY <1>1, <1>2, <1>3, <1>4, <1>5, <1>6, QuietLife DEF Next

(* One request at a time, the session implements DreamLife, whichever       *)
(* writes the disk refuses and wherever the process ends: one dream is on   *)
(* at a time, what is said belongs to it, and it is left once, when its     *)
(* closed state is stored, all that was written of its turns archived.      *)
THEOREM SessionImplementsLife ==
  ASSUME ~Overlap
  PROVE  Spec \/ ScenarioSpec => ImplementsDreamLife
<1>1. Init => Life!Init
  <2> SUFFICES ASSUME Init PROVE Life!Init
    OBVIOUS
  <2>1. turns = 0 /\ st.dream = NoDream /\ \A d \in Dream : closes[d] = 0
    BY DEF Init, Default
  <2>2. LeftDreams = {} /\ OpenTurns = {} /\ KeptTurns = {}
    BY <2>1 DEF LeftDreams, OpenTurns, KeptTurns
  <2> QED
    BY <2>1, <2>2 DEF Init, Life!Init
<1>2. DInv /\ [Next]_vars => [Life!Next]_Life!vars
  BY StepLife DEF LifeStep
<1>3. DInv /\ [ScenarioNext]_<<vars, scenarioVars>> => [Life!Next]_Life!vars
  BY StepLife, ScenarioSteps DEF LifeStep
<1>4. ScenarioInit => Life!Init
  BY <1>1 DEF ScenarioInit
<1> QED
  BY <1>1, <1>2, <1>3, <1>4, OneAtATime, PTL DEF Spec, ScenarioSpec, ImplementsDreamLife, Life!Spec

-----------------------------------------------------------------------------
(* The reconciler: a request whose version is still that of the state was    *)
(* made by the last turn, in the dream and the stage that are on, and that   *)
(* turn moved nothing; a wake that waits carries the stage that is on, and   *)
(* wrote the state after every request was made.                            *)
Core == [stage : Nat, turn : Nat]
Request == [turn : Turn, dream : Dream, from : Nat \ {0}, version : Nat, pc : {"waiting", "llm"}]

ScenarioTypes ==
  /\ version \in Nat
  /\ core \in Core
  /\ copy \in [Wakers -> Core]
  /\ asked \subseteq Request

OfLastTurn(r) ==
  /\ core.stage = r.from
  /\ r.turn = turns /\ r.turn \notin moved
  /\ st.dream = r.dream /\ dreamOf[r.turn] = r.dream

Known ==
  /\ moved \subseteq 1..turns
  /\ \A r \in asked : r.version <= version /\ (r.version = version => OfLastTurn(r))
  /\ \A w \in Wakers : InWake(w) => copy[w] = core /\ \A r \in asked : r.version < version

SInv == DInv /\ ScenarioTypes /\ Known

(* No stage moves, unless it is the last turn that moves the stage.          *)
MovesOnce ==
  Moves => /\ core'.stage = core.stage + 1
           /\ moved' \ moved = {turns'} /\ dreamOf'[turns'] = st.dream

(* A write makes every request stale. *)
LEMMA WrittenStale ==
  ASSUME SInv, Written, UNCHANGED <<moved, turns>>, asked' \subseteq asked,
         core' \in Core, copy' \in [Wakers -> Core],
         \A w \in Wakers : InWake(w)' => copy'[w] = core'
  PROVE  ScenarioTypes' /\ Known'
<1>1. version \in Nat /\ version' = version + 1
  BY DEF SInv, ScenarioTypes, Written
<1>2. \A r \in asked' : r.version \in Nat /\ r.version <= version
  BY DEF SInv, ScenarioTypes, Known, Request
<1>3. \A r \in asked' : r.version < version' /\ r.version <= version' /\ r.version # version'
  BY <1>1, <1>2
<1>4. ScenarioTypes'
  BY <1>1 DEF SInv, ScenarioTypes
<1>5. Known'
  BY <1>3 DEF SInv, Known
<1> QED
  BY <1>4, <1>5

(* A step that writes nothing and moves nothing keeps what is known, where   *)
(* no wake begins.                                                          *)
LEMMA SameKnown ==
  ASSUME SInv, UNCHANGED <<version, core, copy, moved, turns, dreamOf>>, asked' \subseteq asked,
         \A w \in Wakers : InWake(w)' => InWake(w),
         UNCHANGED st.dream
  PROVE  ScenarioTypes' /\ Known'
<1>1. ScenarioTypes'
  BY DEF SInv, ScenarioTypes
<1>2. \A r \in asked' : OfLastTurn(r) => OfLastTurn(r)'
  BY DEF OfLastTurn
<1>3. Known'
  BY <1>2 DEF SInv, Known
<1> QED
  BY <1>1, <1>3

(* The stage that a dream which stays on keeps. *)
LEMMA StageRemains ==
  ASSUME DInv', NEW c, Remains(c), st'.dream # NoDream
  PROVE  core' = c
<1>1. st' \in State
  BY DEF DInv, IInv, TypeOK
<1>2. st'.status \in Active
  BY DEF DInv, DreamOn
<1>3. st'.status \notin Idle
  BY <1>2 DEF Active, Idle
<1> QED
  BY <1>3 DEF Remains

LEMMA RemainsCore ==
  ASSUME NEW c \in Core, Remains(c)
  PROVE  core' \in Core
  BY DEF Remains, Core, NoCore, NoStage, NoTurn

LEMMA LeavesKnown ==
  ASSUME ~Overlap, SInv, Leaves
  PROVE  SInv' /\ MovesOnce
<1>1. DInv' /\ Nobody'
  <2>1. IInv'
    BY StepIInv DEF SInv, DInv, Leaves, Next
  <2> QED
    BY <2>1, ExitsPromises DEF SInv, Leaves, Promises
<1>2. Remains(core) /\ UNCHANGED <<copy, prompted, asked, moved, turns, dreamOf>>
  BY DEF Leaves, turnVars, HardExit, WakeExits, logVars
<1>3. core' \in Core
  BY <1>2, RemainsCore DEF SInv, ScenarioTypes
<1>4. MovesOnce
  BY <1>1, <1>2, StageRemains DEF MovesOnce, Moves
<1>5. CASE Written
  BY <1>1, <1>2, <1>3, <1>4, <1>5, WrittenStale DEF SInv, ScenarioTypes, Nobody
<1>6. CASE st = Default /\ UNCHANGED version
  <2>1. st.dream = NoDream
    BY <1>6 DEF Default
  <2>2. \A r \in asked : ~OfLastTurn(r)
    BY <2>1, DreamAssumption DEF SInv, ScenarioTypes, Request, OfLastTurn, Dream, NoDream
  <2>3. Known'
    BY <1>1, <1>2, <1>6, <2>2 DEF SInv, Known, Nobody
  <2> QED
    BY <1>1, <1>2, <1>3, <1>4, <1>6, <2>3 DEF SInv, ScenarioTypes
<1> QED
  BY <1>5, <1>6 DEF Leaves

LEMMA EntersKnown ==
  ASSUME ~Overlap, SInv, NEW e \in Enterers, Enters(e)
  PROVE  SInv' /\ MovesOnce
<1>1. IInv'
  BY StepIInv DEF SInv, DInv, Enters, Next
<1>2. CASE EnterBegins(e) /\ UNCHANGED scenarioVars
  <2>1. DInv' /\ UNCHANGED <<st, waking, turns, dreamOf>>
    BY <1>1, <1>2, EnterBeginsPromises DEF SInv, Promises, EnterBegins, diskVars
  <2> QED
    BY <1>2, <2>1, SameKnown DEF SInv, scenarioVars, InWake, MovesOnce, Moves
<1>3. CASE EnterFails(e) /\ UNCHANGED scenarioVars
  <2>1. DInv' /\ UNCHANGED <<st, waking, turns, dreamOf>>
    BY <1>1, <1>3, EnterEndsPromises DEF SInv, Promises, EnterFails, diskVars, logVars
  <2> QED
    BY <1>3, <2>1, SameKnown DEF SInv, scenarioVars, InWake, MovesOnce, Moves
<1>4. CASE /\ EnterReturns(e)
           /\ Written
           /\ \E stage \in {NoStage, 1} : core' = [stage |-> stage, turn |-> NoTurn]
           /\ UNCHANGED <<copy, turnVars>>
  <2>1. DInv' /\ Nobody' /\ st.dream = NoDream /\ turns' = turns
    BY <1>1, <1>4, EnterEndsPromises DEF SInv, Promises, EnterReturns, logVars
  <2>2. core' \in Core
    BY <1>4 DEF Core, NoStage, NoTurn
  <2> QED
    BY <1>4, <2>1, <2>2, WrittenStale
       DEF SInv, ScenarioTypes, turnVars, Nobody, MovesOnce, Moves
<1> QED
  BY <1>2, <1>3, <1>4 DEF Enters

LEMMA WakesKnown ==
  ASSUME ~Overlap, SInv, NEW w \in Wakers, Wakes(w)
  PROVE  SInv' /\ MovesOnce
<1>1. IInv'
  BY StepIInv DEF SInv, DInv, Wakes, Next
<1>2. CASE WakeBegins(w) /\ Written /\ copy' = [copy EXCEPT ![w] = core] /\ UNCHANGED <<core, turnVars>>
  <2>1. /\ DInv' /\ Nobody /\ turns' = turns
        /\ \E s : waking' = [waking EXCEPT ![w] = s]
    BY <1>1, <1>2, WakeBeginsPromises DEF SInv, Promises, WakeBegins, logVars
  <2>2. copy' \in [Wakers -> Core] /\ copy'[w] = core'
    BY <1>2 DEF SInv, ScenarioTypes
  <2>3. \A v \in Wakers : InWake(v)' => v = w
    BY <2>1 DEF SInv, DInv, IInv, TypeOK, Nobody, InWake
  <2> QED
    BY <1>2, <2>1, <2>2, <2>3, WrittenStale DEF SInv, ScenarioTypes, turnVars, MovesOnce, Moves
<1>3. CASE (WakeRetains(w) \/ WakeFails(w)) /\ Written /\ Remains(copy[w]) /\ UNCHANGED <<copy, turnVars>>
  <2>1. DInv' /\ Nobody' /\ turns' = turns
    BY <1>1, <1>3, WakeEndsPromises DEF SInv, Promises, WakeRetains, WakeFails, logVars
  <2>2. copy[w] = core
    BY <1>3 DEF SInv, Known, InWake, WakeRetains, WakeFails
  <2>3. core' \in Core /\ MovesOnce
    BY <1>3, <2>1, <2>2, RemainsCore, StageRemains DEF SInv, ScenarioTypes, MovesOnce, Moves
  <2> QED
    BY <1>3, <2>1, <2>3, WrittenStale DEF SInv, ScenarioTypes, turnVars, Nobody
<1> QED
  BY <1>2, <1>3 DEF Wakes

(* A turn begins or breaks, a dream goes on, the process ends. *)
LEMMA SimpleKnown ==
  ASSUME ~Overlap, SInv, Resumes \/ Breaks \/ Stops \/ \E b \in BOOLEAN : Asks(b)
  PROVE  SInv' /\ MovesOnce
<1>1. IInv'
  BY StepIInv DEF SInv, DInv, Resumes, Breaks, Stops, Asks, Next
<1>2. CASE Resumes
  <2>1. DInv' /\ Nobody'
    BY <1>1, <1>2, ResumePromises DEF SInv, Promises, Resumes
  <2>2. Written /\ UNCHANGED <<core, copy, asked, moved, turns>>
    BY <1>2 DEF Resumes, turnVars, Resume, logVars
  <2> QED
    BY <2>1, <2>2, WrittenStale DEF SInv, ScenarioTypes, Nobody, MovesOnce, Moves
<1>3. ASSUME NEW b \in BOOLEAN, Asks(b)
      PROVE  SInv' /\ MovesOnce
  <2>1. DInv' /\ UNCHANGED st
    BY <1>1, <1>3, ChatBeginsPromises DEF SInv, Promises, Asks
  <2>2. UNCHANGED <<version, core, copy, asked, moved, turns, dreamOf, waking>>
    BY <1>3, <2>1 DEF Asks, ChatBegins
  <2> QED
    BY <2>1, <2>2, SameKnown DEF SInv, InWake, MovesOnce, Moves
<1>4. CASE Breaks
  <2>1. DInv'
    BY <1>1, <1>4, ChatEndsPromises DEF SInv, Promises, Breaks
  <2>2. UNCHANGED <<st, version, core, copy, asked, moved, turns, dreamOf, waking>>
    BY <1>4 DEF Breaks, ChatFails, diskVars, logVars
  <2> QED
    BY <2>1, <2>2, SameKnown DEF SInv, InWake, MovesOnce, Moves
<1>5. CASE Stops
  <2>1. DInv' /\ Nobody'
    BY <1>1, <1>5, StopPromises DEF SInv, Promises, Stops
  <2>2. UNCHANGED <<copy, moved, turns, dreamOf>> /\ asked' = {}
    BY <1>5 DEF Stops, Crash, CrashInWrite, CrashInClose, Stop, logVars
  <2>3. \/ UNCHANGED <<version, core>>
        \/ version' = 0 /\ core' = NoCore /\ st'.dream = NoDream
        \/ Written /\ UNCHANGED core
    BY <1>5 DEF Stops, CrashInWrite, Default
  <2>4. ScenarioTypes'
    BY <2>2, <2>3 DEF SInv, ScenarioTypes, Written, Core, NoCore, NoStage, NoTurn
  <2>5. Known'
    BY <2>1, <2>2 DEF SInv, Known, Nobody
  <2>6. MovesOnce
    BY <2>3 DEF MovesOnce, Moves
  <2> QED
    BY <2>1, <2>4, <2>5, <2>6 DEF SInv
<1> QED
  BY <1>2, <1>3, <1>4, <1>5

(* A turn is answered: it moves the stage that is on, or may ask. *)
LEMMA AnswersKnown ==
  ASSUME ~Overlap, SInv, NEW accepted \in BOOLEAN, Answers(accepted)
  PROVE  SInv' /\ MovesOnce
<1> DEFINE s == core.stage
<1>1. ChatReplies(accepted) /\ Written /\ copy' = copy /\ TypeOK
  BY DEF Answers, SInv, DInv, IInv
<1>2. DInv' /\ Nobody'
  <2>1. IInv'
    BY <1>1, StepIInv DEF SInv, DInv, Next
  <2> QED
    BY <1>1, <2>1, ChatEndsPromises DEF SInv, Promises
<1>3. /\ turns \in Nat /\ turns' = turns + 1 /\ turns' \in Turn
      /\ chat.dream = st.dream /\ chat.dream \in Dream /\ st.status \in Active
      /\ dreamOf'[turns'] = st.dream
  <2>1. turns \in Nat /\ turns' = turns + 1 /\ turns' \in Turn
    BY <1>1, DreamAssumption DEF ChatReplies, TypeOK, Turn
  <2>2. chat.dream = st.dream /\ chat.dream \in Dream /\ st.status \in Active
    BY <1>1 DEF ChatReplies, SInv, DInv, Carried, TypeOK
  <2> QED
    BY <1>1, <2>1, <2>2 DEF ChatReplies, TypeOK
<1>4. version \in Nat /\ version' = version + 1
  BY <1>1 DEF Written, SInv, ScenarioTypes
<1>5. turns' \notin moved /\ moved \subseteq 1..turns'
  BY <1>3 DEF SInv, Known
<1>6. PICK moves, asks \in BOOLEAN :
        /\ moves => MayMove
        /\ asks => ~moves /\ ~accepted /\ s \in 1..(MaxStage - 1)
        /\ Remains([stage |-> IF moves THEN s + 1 ELSE s,
                    turn |-> IF s = NoStage THEN core.turn ELSE turns'])
        /\ moved' = IF moves THEN moved \cup {turns'} ELSE moved
        /\ asked' = IF asks
                    THEN asked \cup {[turn |-> turns', dream |-> chat.dream, from |-> s,
                                      version |-> version', pc |-> "waiting"]}
                    ELSE asked
  BY Zenon DEF Answers
<1> DEFINE answered == [stage |-> IF moves THEN s + 1 ELSE s,
                        turn |-> IF s = NoStage THEN core.turn ELSE turns']
           new == [turn |-> turns', dream |-> chat.dream, from |-> s,
                   version |-> version', pc |-> "waiting"]
<1>7. Remains(answered)
  BY <1>6
<1>8. answered \in Core /\ answered.stage = (IF moves THEN s + 1 ELSE s)
  BY <1>3 DEF SInv, ScenarioTypes, Core, Turn
<1>9. asks => new \in Request
  <2>1. asks => s \in Nat \ {0}
    BY <1>6 DEF SInv, ScenarioTypes, Core
  <2> QED
    BY <1>3, <1>4, <2>1 DEF Request
<1>10. /\ new.version = version' /\ new.turn = turns' /\ new.dream = chat.dream /\ new.from = s
       /\ asked' \subseteq asked \cup {new}
       /\ new \in asked' => asks \/ new \in asked
  BY <1>6
<1> HIDE DEF answered, new
<1>11. MovesOnce
  <2> SUFFICES ASSUME Moves
               PROVE  core'.stage = s + 1 /\ moved' \ moved = {turns'} /\ dreamOf'[turns'] = st.dream
    BY DEF MovesOnce
  <2>1. core' = answered
    BY <1>2, <1>7, StageRemains DEF Moves
  <2>2. moves
    BY <1>8, <2>1 DEF Moves
  <2>3. moved' = moved \cup {turns'}
    BY <1>6, <2>2
  <2> QED
    BY <1>3, <1>5, <1>8, <2>1, <2>2, <2>3
<1>12. ScenarioTypes'
  <2>1. core' \in Core
    BY <1>7, <1>8, RemainsCore
  <2>2. asked' \subseteq Request
    BY <1>6, <1>9 DEF SInv, ScenarioTypes, new
  <2> QED
    BY <1>1, <1>4, <2>1, <2>2 DEF SInv, ScenarioTypes
<1>13. Known'
  <2>1. moved' \subseteq 1..turns'
    BY <1>3, <1>5, <1>6 DEF Turn
  <2>2. \A r \in asked : r.version < version' /\ r.version # version'
    BY <1>4 DEF SInv, ScenarioTypes, Known, Request
  <2>3. ASSUME asks, NEW r, r = new
        PROVE  OfLastTurn(r)'
    <3>1. ~moves /\ ~accepted
      BY <1>6, <2>3
    <3>2. st'.dream = st.dream
      <4>1. PICK p \in Put(st, [st EXCEPT !.local = TRUE]) : st' = p.st
        BY <1>1, <3>1 DEF ChatReplies
      <4> QED
        BY <1>1, <4>1, LocalFacts DEF TypeOK
    <3>3. st'.dream # NoDream
      BY <1>3, <3>2, DreamAssumption DEF Dream, NoDream
    <3>4. core' = answered
      BY <1>2, <1>7, <3>3, StageRemains
    <3>5. core'.stage = s /\ moved' = moved
      BY <1>6, <1>8, <3>1, <3>4
    <3> QED
      BY <1>3, <1>5, <1>10, <2>3, <3>2, <3>5 DEF OfLastTurn
  <2>4. \A r \in asked' : r.version <= version' /\ (r.version = version' => OfLastTurn(r)')
    <3> SUFFICES ASSUME NEW r \in asked'
                 PROVE  r.version <= version' /\ (r.version = version' => OfLastTurn(r)')
      OBVIOUS
    <3>1. CASE r \in asked
      BY <1>4, <2>2, <3>1 DEF SInv, ScenarioTypes, Request
    <3>2. CASE r = new /\ r \notin asked
      BY <1>4, <1>10, <2>3, <3>2
    <3> QED
      BY <1>10, <3>1, <3>2
  <2> QED
    BY <1>2, <2>1, <2>4 DEF Known, Nobody
<1> QED
  BY <1>2, <1>11, <1>12, <1>13 DEF SInv

(* A verdict: sought, dropped, or written over the state it was asked for. *)
LEMMA VerdictKnown ==
  ASSUME ~Overlap, SInv, NEW r \in asked, VerdictSought(r) \/ VerdictNone(r) \/ VerdictApplied(r)
  PROVE  SInv' /\ MovesOnce
<1>1. DInv'
  BY StepPromises DEF SInv, Promises, Aside, VerdictSought, VerdictNone, VerdictApplied
<1>2. UNCHANGED <<st, waking, turns, dreamOf, copy>>
  BY DEF VerdictSought, VerdictNone, VerdictApplied, diskVars, waitVars, logVars
<1>3. CASE VerdictSought(r)
  <2> DEFINE q == [r EXCEPT !.pc = "llm"]
  <2>1. r \in Request
    BY DEF SInv, ScenarioTypes
  <2>2. /\ q \in Request /\ q.version = r.version /\ q.turn = r.turn /\ q.dream = r.dream
        /\ q.from = r.from
    BY <2>1 DEF Request
  <2>3. asked' \subseteq asked \cup {q} /\ UNCHANGED <<version, core, moved>>
    BY <1>3 DEF VerdictSought
  <2> HIDE DEF q
  <2>4. ScenarioTypes'
    BY <1>2, <2>2, <2>3 DEF SInv, ScenarioTypes
  <2>5. \A o \in asked : OfLastTurn(o) => OfLastTurn(o)'
    BY <1>2, <2>3 DEF OfLastTurn
  <2>6. OfLastTurn(r) => OfLastTurn(q)'
    BY <1>2, <2>2, <2>3 DEF OfLastTurn
  <2>7. Known'
    <3>1. \A o \in asked' : o.version <= version' /\ (o.version = version' => OfLastTurn(o)')
      <4> SUFFICES ASSUME NEW o \in asked'
                   PROVE  o.version <= version' /\ (o.version = version' => OfLastTurn(o)')
        OBVIOUS
      <4>1. CASE o \in asked
        BY <2>3, <2>5, <4>1 DEF SInv, Known
      <4>2. CASE o = q
        BY <2>2, <2>3, <2>6, <4>2 DEF SInv, Known
      <4> QED
        BY <2>3, <4>1, <4>2
    <3>2. \A w \in Wakers : InWake(w)' => copy'[w] = core' /\ \A o \in asked' : o.version < version'
      BY <1>2, <2>2, <2>3 DEF SInv, Known, InWake
    <3> QED
      BY <1>2, <2>3, <3>1, <3>2 DEF SInv, Known
  <2> QED
    BY <1>1, <2>3, <2>4, <2>7 DEF SInv, MovesOnce, Moves
<1>4. CASE VerdictNone(r)
  <2>1. asked' \subseteq asked /\ UNCHANGED <<version, core, moved>>
    BY <1>4 DEF VerdictNone
  <2> QED
    BY <1>1, <1>2, <2>1, SameKnown DEF SInv, InWake, MovesOnce, Moves
<1>5. CASE VerdictApplied(r)
  <2>1. /\ version = r.version /\ version \in Nat /\ version' = version + 1
        /\ core' = [core EXCEPT !.stage = r.from + 1]
        /\ moved' = moved \cup {r.turn} /\ asked' \subseteq asked
    BY <1>5 DEF VerdictApplied, Unchanged, Written, SInv, ScenarioTypes
  <2>2. OfLastTurn(r) /\ r \in Request
    BY <2>1 DEF SInv, Known, ScenarioTypes
  <2>3. \A w \in Wakers : ~InWake(w)
    BY <2>1 DEF SInv, Known
  <2>4. core' \in Core /\ core'.stage = core.stage + 1
    BY <2>1, <2>2 DEF SInv, ScenarioTypes, Core, Request, OfLastTurn
  <2>5. MovesOnce
    BY <1>2, <2>1, <2>2, <2>4 DEF MovesOnce, Moves, OfLastTurn
  <2>6. ScenarioTypes'
    BY <1>2, <2>1, <2>4 DEF SInv, ScenarioTypes
  <2>7. Known'
    <3>1. \A o \in asked' : o.version <= version' /\ o.version # version'
      BY <2>1 DEF SInv, ScenarioTypes, Known, Request
    <3>2. moved' \subseteq 1..turns'
      <4>1. turns \in Nat /\ r.turn = turns /\ turns # 0
        BY <2>2, DreamAssumption DEF SInv, DInv, IInv, TypeOK, OfLastTurn, Request, Turn
      <4> QED
        BY <1>2, <2>1, <4>1 DEF SInv, Known
    <3> QED
      BY <1>2, <2>3, <3>1, <3>2 DEF Known, InWake
  <2> QED
    BY <1>1, <2>5, <2>6, <2>7 DEF SInv
<1> QED
  BY <1>3, <1>4, <1>5

LEMMA StepKnown ==
  ASSUME ~Overlap, SInv, [ScenarioNext]_<<vars, scenarioVars>>
  PROVE  SInv' /\ MovesOnce
<1>1. CASE UNCHANGED <<vars, scenarioVars>>
  <2>1. DInv'
    BY <1>1, StepPromises DEF SInv, Promises
  <2>2. UNCHANGED <<st, waking, turns, dreamOf, version, core, copy, asked, moved>>
    BY <1>1 DEF vars, diskVars, waitVars, logVars, scenarioVars
  <2> QED
    BY <2>1, <2>2, SameKnown DEF SInv, InWake, MovesOnce, Moves
<1>2. CASE Leaves \/ Resumes \/ Breaks \/ Stops \/ \E b \in BOOLEAN : Asks(b)
  BY <1>2, LeavesKnown, SimpleKnown
<1>3. CASE \E e \in Enterers : Enters(e)
  BY <1>3, EntersKnown
<1>4. CASE \E w \in Wakers : Wakes(w)
  BY <1>4, WakesKnown
<1>5. CASE \E b \in BOOLEAN : Answers(b)
  BY <1>5, AnswersKnown
<1>6. CASE \E r \in asked : VerdictSought(r) \/ VerdictNone(r) \/ VerdictApplied(r)
  BY <1>6, VerdictKnown
<1> QED
  BY <1>1, <1>2, <1>3, <1>4, <1>5, <1>6 DEF ScenarioNext

LEMMA InitSInv == ScenarioInit => SInv
<1> SUFFICES ASSUME ScenarioInit PROVE SInv
  OBVIOUS
<1>1. DInv
  BY InitDInv DEF ScenarioInit
<1>2. ScenarioTypes
  BY DEF ScenarioInit, ScenarioTypes, Core, NoCore, NoStage, NoTurn
<1>3. Known
  BY DEF ScenarioInit, Init, Known, InWake
<1> QED
  BY <1>1, <1>2, <1>3 DEF SInv

(* One request at a time, and any number of reconcilers at once: within a   *)
(* dream the stage only moves to the next one, moved by the last turn that  *)
(* was answered, a turn of that dream that had moved nothing yet.           *)
THEOREM OneStage ==
  ASSUME ~Overlap
  PROVE  ScenarioSpec => OneStagePerTurn
<1>1. SInv /\ [ScenarioNext]_<<vars, scenarioVars>> => SInv'
  BY StepKnown
<1>2. SInv /\ [ScenarioNext]_<<vars, scenarioVars>> => [MovesOnce]_<<vars, scenarioVars>>
  BY StepKnown
<1> QED
  BY <1>1, <1>2, InitSInv, PTL DEF ScenarioSpec, OneStagePerTurn, MovesOnce

-----------------------------------------------------------------------------
(* An exit sign of another stage counts because a verdict is written while  *)
(* a turn waits: the reconciler does not take the conversation lock.         *)
VerdictLocked == \A r \in asked : VerdictApplied(r) => chat = None

PromptOfTheStage == chat # None => prompted = core.stage

LEMMA PromptStep ==
  ASSUME ~Overlap, DInv, PromptOfTheStage, VerdictLocked, ScenarioNext
  PROVE  PromptOfTheStage'
<1> SUFFICES ASSUME chat' # None PROVE prompted' = core'.stage
  BY DEF PromptOfTheStage
<1>1. ASSUME NEW b \in BOOLEAN, Asks(b)
      PROVE  prompted' = core'.stage
  BY <1>1 DEF Asks
<1>2. ~(\E b \in BOOLEAN : Answers(b)) /\ ~Breaks /\ ~Stops
  BY DEF Answers, ChatReplies, Breaks, ChatFails, Stops, Crash, CrashInWrite, CrashInClose, Stop
<1>3. chat # None => (\A e \in Enterers : ~InEnter(e)) /\ (\A w \in Wakers : ~InWake(w)) /\ ~MayBegin
  BY QuietNobody DEF DInv, Alone, Nobody
<1>4. CASE chat = None
  <2>1. ~Leaves /\ ~Resumes /\ (\A e \in Enterers : ~Enters(e)) /\ (\A w \in Wakers : ~Wakes(w))
    BY <1>4 DEF Leaves, HardExit, WakeExits, Resumes, Resume, Enters, EnterBegins, EnterReturns,
                EnterFails, Wakes, WakeBegins, WakeRetains, WakeFails, waitVars
  <2>2. \A r \in asked : ~VerdictSought(r) /\ ~VerdictNone(r) /\ ~VerdictApplied(r)
    BY <1>4 DEF VerdictSought, VerdictNone, VerdictApplied, waitVars
  <2> QED
    BY <1>1, <1>2, <2>1, <2>2 DEF ScenarioNext
<1>5. CASE chat # None
  <2>1. ~Leaves /\ ~Resumes /\ \A e \in Enterers : ~Enters(e)
    BY <1>3, <1>5 DEF Leaves, HardExit, WakeExits, Resumes, Resume, Enters, EnterBegins,
                      EnterReturns, EnterFails, InEnter
  <2>2. \A w \in Wakers : ~Wakes(w)
    BY <1>3, <1>5 DEF Wakes, WakeBegins, WakeRetains, WakeFails, InWake
  <2>3. ASSUME NEW r \in asked, VerdictSought(r) \/ VerdictNone(r) \/ VerdictApplied(r)
        PROVE  UNCHANGED <<prompted, core>>
    BY <1>5, <2>3 DEF VerdictSought, VerdictNone, VerdictLocked
  <2> QED
    BY <1>1, <1>2, <1>5, <2>1, <2>2, <2>3 DEF ScenarioNext, PromptOfTheStage
<1> QED
  BY <1>4, <1>5

(* What the run that moves a stage by a sign of the one before comes down    *)
(* to: if write_state_if_version() waited for the turn that is under way,   *)
(* a control block would always be judged by the stage its prompt listed.   *)
THEOREM LockedVerdictsKeepSigns ==
  ASSUME ~Overlap
  PROVE  ScenarioSpec /\ [][VerdictLocked]_<<vars, scenarioVars>> => SignsOfTheStage
<1>1. ScenarioInit => PromptOfTheStage
  BY DEF ScenarioInit, Init, PromptOfTheStage
<1>2. DInv /\ PromptOfTheStage /\ [ScenarioNext]_<<vars, scenarioVars>>
        /\ [VerdictLocked]_<<vars, scenarioVars>> => PromptOfTheStage'
  <2>1. UNCHANGED <<vars, scenarioVars>> => (PromptOfTheStage => PromptOfTheStage')
    BY DEF vars, waitVars, scenarioVars, PromptOfTheStage
  <2> QED
    BY <2>1, PromptStep
<1>3. PromptOfTheStage =>
        [Moves /\ chat # None /\ chat' = None => prompted = core.stage]_<<vars, scenarioVars>>
  BY DEF PromptOfTheStage
<1> QED
  BY <1>1, <1>2, <1>3, OneAtATime, PTL DEF ScenarioSpec, SignsOfTheStage
=============================================================================
