----------------------------- MODULE GroupDream -----------------------------
(***************************************************************************)
(* admin/routers/group_dream.py with core/stage: the dream a whole group    *)
(* of characters shares with the owner, beside the owner's solo dream.      *)
(*                                                                         *)
(* An entry is checked and reserved under the group's lock, takes its       *)
(* snapshots outside of it and commits under it again.  A round runs as a   *)
(* task of its own: it waits for the owner's conversation lock and, holding *)
(* it, lets one character after another speak (core/stage/runner.py).  An   *)
(* exit is unconditional: it neither waits for a round nor cancels it.      *)
(*                                                                         *)
(* A dream has the number of its entry for an id.  Who is asked to speak is *)
(* a choice among those the arbiter may rank first; the lines are gone, but *)
(* for who says them, in which round and in which dream they land.          *)
(***************************************************************************)
EXTENDS Naturals, FiniteSets

CONSTANTS
  MaxEntries, MaxRounds,   \* bounds: group entries and rounds ever asked for
  Char,                    \* the roster
  MinReplies, MaxReplies,  \* settings.min_responders, settings.max_responders
  MaxChain,                \* settings.max_ai_chain_depth
  MaxFaults, MaxCrashes    \* bounds

ASSUME GroupDreamAssumption ==
  /\ {MaxEntries, MaxRounds, MaxChain, MaxFaults, MaxCrashes} \subseteq Nat
  /\ IsFiniteSet(Char) /\ Char # {}
  /\ MinReplies \in Nat /\ MaxReplies \in Nat /\ MinReplies <= MaxReplies
  /\ MaxReplies <= Cardinality(Char)

VARIABLES
  state,      \* the group's dream_state.json
  tmp,        \* current_dream.jsonl: the rounds of its lines
  entering,   \* _entering: the entry that holds the reservation
  entry,      \* where each request to enter is
  active,     \* _ACTIVE_ROUNDS: the round that holds the group
  rounds,     \* the tasks of the rounds
  conv,       \* who holds the owner's conversation lock
  solo,       \* the status of the owner's solo dream
  soloEntry,  \* an enter_dream() waits for its snapshot
  outdated,   \* history: entries under way when an exit came
  placed,     \* history: the dreams each round spoke in, 0 for none
  late,       \* history: lines of each round that came since the last dream
  apart,      \* history: no entry overlapped an entry of the other kind
  unsettled,  \* history: rounds whose end reached no file
  left        \* what is left of MaxFaults and MaxCrashes

vars == <<state, tmp, entering, entry, active, rounds, conv, solo, soloEntry,
          outdated, placed, late, apart, unsettled, left>>
entryVars == <<entering, entry, outdated>>
roundVars == <<active, rounds, placed, late, unsettled>>
soloVars == <<solo, soloEntry>>

None == 0
Free == 0
Turn == MaxRounds + 1
Entry == 1..MaxEntries
Round == 1..MaxRounds

Reality == [status |-> "reality", dream |-> None, marked |-> None, outcome |-> "none"]
Dreaming(e) == [status |-> "active", dream |-> e, marked |-> None, outcome |-> "none"]
On == state.status = "active"

NoRound == [pc |-> "new", phase |-> "A", tried |-> {}, spoke |-> 0, depth |-> 0,
            last |-> "owner", asked |-> "nobody"]

TypeOK ==
  /\ state \in [status : {"reality", "active"}, dream : Entry \cup {None},
                marked : Round \cup {None},
                outcome : {"none", "running", "idle", "failed", "timed_out"}]
  /\ tmp \subseteq Round
  /\ entering \in Entry \cup {None}
  /\ entry \in [Entry -> {"new", "waiting", "done"}]
  /\ active \in Round \cup {None}
  /\ rounds \in [Round ->
       [pc : {"new", "sent", "queued", "between", "llm", "spoken", "marked", "gone"},
        phase : {"A", "retry", "B"}, tried : SUBSET Char,
        spoke : 0..MaxReplies, depth : 0..MaxChain,
        last : Char \cup {"owner"}, asked : Char \cup {"nobody"}]]
  /\ conv \in {Free, Turn} \cup Round
  /\ solo \in {"out", "on", "asked"} /\ soloEntry \in {"off", "waiting"}
  /\ outdated \subseteq Entry /\ unsettled \subseteq Round
  /\ placed \in [Round -> SUBSET (Entry \cup {None})]
  /\ late \in [Round -> Nat]
  /\ apart \in BOOLEAN
  /\ left \in [{"faults", "crashes"} -> Nat]

Init ==
  /\ state = Reality /\ tmp = {}
  /\ entering = None /\ entry = [e \in Entry |-> "new"]
  /\ active = None /\ rounds = [r \in Round |-> NoRound]
  /\ conv = Free /\ solo = "out" /\ soloEntry = "off"
  /\ outdated = {} /\ unsettled = {} /\ apart = TRUE
  /\ placed = [r \in Round |-> {}] /\ late = [r \in Round |-> 0]
  /\ left = [faults |-> MaxFaults, crashes |-> MaxCrashes]

Spend(what) == left[what] > 0 /\ left' = [left EXCEPT ![what] = @ - 1]

(* The write of the state is refused in silence when the disk is at fault. *)
Write(s) ==
  \/ state' = s /\ UNCHANGED left
  \/ state' = state /\ Spend("faults")

-----------------------------------------------------------------------------
(* Entering *)

Waiting == {e \in Entry : entry[e] = "waiting"}

(* Mutant of MayReserve: the owner's conversation lock is not looked at. *)
MayReserveBusy == ~On /\ solo # "on" /\ entering = None

MayReserve == ~On /\ solo # "on" /\ conv = Free /\ entering = None

Reserve(e) ==
  /\ entry[e] = "new" /\ \A f \in Entry : f < e => entry[f] # "new"
  /\ MayReserve
  /\ entering' = e
  /\ entry' = [entry EXCEPT ![e] = "waiting"]
  /\ apart' = (apart /\ soloEntry = "off")
  /\ UNCHANGED <<state, tmp, roundVars, conv, soloVars, outdated, left>>

(* Mutant of OwnsEnter: whoever holds the reservation. *)
OwnsEnterAny(e) == entering # None

OwnsEnter(e) == entering = e

EntryCommits(e) ==
  /\ entry[e] = "waiting" /\ OwnsEnter(e)
  /\ Write(Dreaming(e))
  /\ tmp' = {}
  /\ entering' = None
  /\ entry' = [entry EXCEPT ![e] = "done"]
  /\ late' = [r \in Round |-> 0]
  /\ UNCHANGED <<active, rounds, placed, unsettled, conv, soloVars, outdated, apart>>

EntryRefused(e) ==
  /\ entry[e] = "waiting" /\ ~OwnsEnter(e)
  /\ entry' = [entry EXCEPT ![e] = "done"]
  /\ UNCHANGED <<state, tmp, entering, roundVars, conv, soloVars, outdated, apart, left>>

(* A snapshot raises and its entry gives the reservation back, or what is   *)
(* raised is no Exception (or comes after the snapshots), and it does not.  *)
EntryFails(e) ==
  /\ entry[e] = "waiting"
  /\ Spend("faults")
  /\ \/ entering' = IF entering = e THEN None ELSE entering
     \/ UNCHANGED entering
  /\ entry' = [entry EXCEPT ![e] = "done"]
  /\ UNCHANGED <<state, tmp, roundVars, conv, soloVars, outdated, apart>>

(* One step under the lock, archive and all; a refused write of the state   *)
(* goes unnoticed, and the exit may find no dream.                          *)
Exit ==
  /\ On \/ entering # None \/ tmp # {}
  /\ entering' = None
  /\ outdated' = outdated \cup Waiting
  /\ tmp' = {}
  /\ Write(Reality)
  /\ UNCHANGED <<entry, roundVars, conv, soloVars, apart>>

-----------------------------------------------------------------------------
(* A round *)

(* Mutant of Send: it does not ask who holds the group. *)
SendUnreserved(r) ==
  /\ rounds[r].pc = "new" /\ \A q \in Round : q < r => rounds[q].pc # "new"
  /\ On
  /\ active' = r
  /\ rounds' = [rounds EXCEPT ![r].pc = "sent"]
  /\ UNCHANGED <<state, tmp, entryVars, placed, late, unsettled, conv, soloVars, apart, left>>

Send(r) ==
  /\ rounds[r].pc = "new" /\ \A q \in Round : q < r => rounds[q].pc # "new"
  /\ On /\ active = None
  /\ active' = r
  /\ rounds' = [rounds EXCEPT ![r].pc = "sent"]
  /\ UNCHANGED <<state, tmp, entryVars, placed, late, unsettled, conv, soloVars, apart, left>>

RoundBegins(r) ==
  /\ rounds[r].pc = "sent"
  /\ On /\ active \in {None, r}
  /\ Write([state EXCEPT !.marked = r, !.outcome = "running"])
  /\ active' = r
  /\ rounds' = [rounds EXCEPT ![r].pc = "queued"]
  /\ UNCHANGED <<tmp, entryVars, placed, late, unsettled, conv, soloVars, apart>>

RoundRejected(r) ==
  /\ rounds[r].pc = "sent"
  /\ ~(On /\ active \in {None, r})
  /\ rounds' = [rounds EXCEPT ![r].pc = "marked"]
  /\ UNCHANGED <<state, tmp, entryVars, active, placed, late, unsettled, conv, soloVars, apart, left>>

(* Appending a line asks neither for the status nor for the dream. *)
AddLine(r) ==
  /\ tmp' = tmp \cup {r}
  /\ placed' = [placed EXCEPT ![r] = @ \cup {IF On THEN state.dream ELSE None}]
  /\ late' = IF On THEN late ELSE [late EXCEPT ![r] = @ + 1]

OwnerSpeaks(r) ==
  /\ rounds[r].pc = "queued" /\ conv = Free
  /\ conv' = r
  /\ AddLine(r)
  /\ rounds' = [rounds EXCEPT ![r].pc = "between"]
  /\ UNCHANGED <<state, entryVars, active, unsettled, soloVars, apart, left>>

(* Mutant of Offers: the depth of a chain is compared too late. *)
OffersOneMore(x) ==
  (IF x.phase = "A" THEN {<<"A", c>> : c \in Char \ x.tried} ELSE {})
  \cup (IF x.depth <= MaxChain THEN {<<"B", c>> : c \in Char \ {x.last}} ELSE {})

(* Who may be asked next, and as what: an answer to the owner, the one more *)
(* try for a configured minimum, a reply to the one who spoke last.         *)
Offers(x) ==
  LET chain == IF x.depth < MaxChain THEN {<<"B", c>> : c \in Char \ {x.last}} ELSE {}
      short == x.phase = "A" /\ x.spoke < MinReplies
  IN (IF x.phase = "A" /\ x.spoke < MaxReplies THEN {<<"A", c>> : c \in Char \ x.tried} ELSE {})
     \cup (IF short /\ x.tried = Char THEN {<<"retry", c>> : c \in Char} ELSE {})
     \cup (IF short THEN {} ELSE chain)

MayEnd(x) == ~(x.phase = "A" /\ x.spoke < MinReplies)

(* Mutant of StillOn: a view that does not look at the status. *)
StillOnUnasked == TRUE

(* DreamStageCharacterView.generate() reads the status first. *)
StillOn == On

CharacterAsked(r) ==
  /\ rounds[r].pc = "between"
  /\ StillOn
  /\ \E n \in Offers(rounds[r]) :
       rounds' = [rounds EXCEPT ![r].pc = "llm", ![r].phase = n[1], ![r].asked = n[2],
                                ![r].tried = @ \cup {n[2]}]
  /\ UNCHANGED <<state, tmp, entryVars, active, placed, late, unsettled, conv, soloVars, apart, left>>

(* An empty answer, or one that echoes another, ends a chain. *)
CharacterAnswers(r) ==
  /\ rounds[r].pc = "llm"
  /\ LET x == rounds[r]
     IN \/ /\ AddLine(r)
           /\ rounds' = [rounds EXCEPT ![r].pc = "between", ![r].last = x.asked,
                           ![r].spoke = IF x.phase = "B" THEN @ ELSE @ + 1,
                           ![r].depth = IF x.phase = "B" THEN @ + 1 ELSE @]
           /\ UNCHANGED conv
        \/ /\ rounds' = [rounds EXCEPT ![r].pc = IF x.phase = "B" THEN "spoken" ELSE "between"]
           /\ conv' = IF x.phase = "B" THEN Free ELSE conv
           /\ UNCHANGED <<tmp, placed, late>>
  /\ UNCHANGED <<state, entryVars, active, unsettled, soloVars, apart, left>>

RoundOver(r) ==
  /\ rounds[r].pc = "between"
  /\ MayEnd(rounds[r])
  /\ conv' = Free
  /\ rounds' = [rounds EXCEPT ![r].pc = "spoken"]
  /\ UNCHANGED <<state, tmp, entryVars, active, placed, late, unsettled, soloVars, apart, left>>

(* _mark_round_finished(): only its own marker, and only of a dream that is on. *)
Finished(s, r, outcome) ==
  IF s.marked = r /\ s.status = "active"
  THEN [s EXCEPT !.marked = None, !.outcome = outcome] ELSE s

Settle(r, outcome) ==
  \/ state' = Finished(state, r, outcome) /\ UNCHANGED <<unsettled, left>>
  \/ state' = state /\ Spend("faults") /\ unsettled' = unsettled \cup {r}

RoundSettles(r) ==
  /\ rounds[r].pc = "spoken"
  /\ Settle(r, "idle")
  /\ rounds' = [rounds EXCEPT ![r].pc = "marked"]
  /\ UNCHANGED <<tmp, entryVars, active, placed, late, conv, soloVars, apart>>

UnlockIf(r) == conv' = IF conv = r THEN Free ELSE conv

(* No dream is on when the next character is asked; its model fails, or a   *)
(* line is refused.                                                         *)
RoundFails(r) ==
  /\ \/ rounds[r].pc = "between" /\ ~StillOn /\ Offers(rounds[r]) # {} /\ UNCHANGED left
     \/ rounds[r].pc = "queued" /\ conv = Free /\ Spend("faults")
     \/ rounds[r].pc = "llm" /\ Spend("faults")
  /\ state' = Finished(state, r, "failed")
  /\ UnlockIf(r)
  /\ rounds' = [rounds EXCEPT ![r].pc = "marked"]
  /\ UNCHANGED <<tmp, entryVars, active, placed, late, unsettled, soloVars, apart>>

(* Mutant of Timed: only a round whose character is asked can time out. *)
TimedInModelOnly == {"llm"}

(* wait_for() covers the wait for the conversation lock, too. *)
Timed == {"queued", "between", "llm"}

RoundTimesOut(r) ==
  /\ rounds[r].pc \in Timed
  /\ Settle(r, "timed_out")
  /\ UnlockIf(r)
  /\ rounds' = [rounds EXCEPT ![r].pc = "marked"]
  /\ UNCHANGED <<tmp, entryVars, active, placed, late, soloVars, apart>>

RoundReleases(r) ==
  /\ rounds[r].pc = "marked"
  /\ active' = IF active = r THEN None ELSE active
  /\ rounds' = [rounds EXCEPT ![r] = [NoRound EXCEPT !.pc = "gone"]]
  /\ UNCHANGED <<state, tmp, entryVars, placed, late, unsettled, conv, soloVars, apart, left>>

-----------------------------------------------------------------------------
(* The owner elsewhere, and the end of the process *)

(* A turn of reality or of the solo dream. *)
OwnerTurn ==
  /\ \/ conv = Free /\ conv' = Turn
     \/ conv = Turn /\ conv' = Free
  /\ UNCHANGED <<state, tmp, entryVars, roundVars, soloVars, apart, left>>

SoloEnters ==
  /\ soloEntry = "off" /\ solo = "out" /\ ~On
  /\ soloEntry' = "waiting"
  /\ apart' = (apart /\ Waiting = {})
  /\ UNCHANGED <<state, tmp, entryVars, roundVars, conv, solo, left>>

SoloEntered ==
  /\ soloEntry = "waiting"
  /\ soloEntry' = "off" /\ solo' = "on"
  /\ UNCHANGED <<state, tmp, entryVars, roundVars, conv, apart, left>>

(* The wake holds the dreamer back; the dreamer stays. *)
SoloAsked ==
  /\ solo = "on" /\ solo' = "asked"
  /\ UNCHANGED <<state, tmp, entryVars, roundVars, conv, soloEntry, apart, left>>

SoloResumes ==
  /\ solo = "asked" /\ solo' = "on"
  /\ UNCHANGED <<state, tmp, entryVars, roundVars, conv, soloEntry, apart, left>>

SoloExits ==
  /\ solo # "out" /\ solo' = "out"
  /\ UNCHANGED <<state, tmp, entryVars, roundVars, conv, soloEntry, apart, left>>

(* Reservations, tasks and locks are the process's; the files stay. *)
Crash ==
  /\ Spend("crashes")
  /\ entering' = None /\ active' = None /\ conv' = Free /\ soloEntry' = "off"
  /\ entry' = [e \in Entry |-> IF e \in Waiting THEN "done" ELSE entry[e]]
  /\ LET ended == {r \in Round : rounds[r].pc \notin {"new", "gone"}}
     IN /\ rounds' = [r \in Round |-> IF r \in ended THEN [NoRound EXCEPT !.pc = "gone"] ELSE rounds[r]]
        /\ unsettled' = unsettled \cup ended
  /\ UNCHANGED <<state, tmp, outdated, placed, late, solo, apart>>

RoundStep(r) ==
  \/ RoundBegins(r) \/ RoundRejected(r) \/ RoundTimesOut(r)
  \/ RoundSettles(r) \/ RoundReleases(r)

Next ==
  \/ \E e \in Entry : Reserve(e) \/ EntryCommits(e) \/ EntryRefused(e) \/ EntryFails(e)
  \/ Exit
  \/ \E r \in Round : \/ Send(r) \/ RoundStep(r) \/ OwnerSpeaks(r)
                      \/ CharacterAsked(r) \/ CharacterAnswers(r) \/ RoundOver(r) \/ RoundFails(r)
  \/ OwnerTurn
  \/ SoloEnters \/ SoloEntered \/ SoloAsked \/ SoloResumes \/ SoloExits
  \/ Crash

(* The loop runs a task that is ready, and the timer of wait_for() fires;   *)
(* that a model answers or a turn gives the lock back is not assumed.       *)
Fairness == \A r \in Round : WF_vars(RoundStep(r))

Spec == Init /\ [][Next]_vars /\ Fairness

-----------------------------------------------------------------------------
(* An entry that was under way when an exit came does not become a dream.   *)
ExitWins == On => state.dream \notin outdated

(* A round that spoke in one dream of the group does not speak in a later   *)
(* one: the entry refuses while the owner's conversation lock is held.      *)
RoundInOneDream == \A r \in Round : Cardinality(placed[r] \ {None}) <= 1

(* Between an exit and the next entry a round adds the one line it was      *)
(* about to, at most: the next character is not asked.                      *)
ExitStopsRound == \A r \in Round : late[r] <= 1

(* The marker of a running round, which clients show, is that of the round  *)
(* that holds the group, unless the end of that round reached no file.      *)
MarkerIsLive == state.marked # None => state.marked = active \/ state.marked \in unsettled

(* The two kinds of dreams are not on at once, if their entries did not overlap. *)
NeverBoth == apart => ~(On /\ solo = "on")

(* A round gives the group back, though its model hangs or another turn     *)
(* never lets go of the conversation lock.                                  *)
RoundEnds == \A r \in Round : active = r ~> active # r
=============================================================================
