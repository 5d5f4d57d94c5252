-------------------------- MODULE GroupDream_proof --------------------------
(***************************************************************************)
(* Proofs about GroupDream: for every number of entries, rounds and         *)
(* characters, every setting of the replies, and any number of refused      *)
(* writes and ends of the process.                                          *)
(*                                                                         *)
(* The four safety properties rest on what the reservation and the owner's  *)
(* conversation lock rule out: an entry that may still commit while a dream *)
(* is on, or while a round that spoke is still speaking.  The last theorem  *)
(* is about the solo dream beside the group's, and what would keep the two  *)
(* apart.                                                                   *)
(***************************************************************************)
EXTENDS GroupDream, FiniteSetTheorems, TLAPS

Speaking(r) == rounds[r].pc \in {"between", "llm"}

(* An entry that may still commit. *)
Pending(e) == entering = e /\ entry[e] = "waiting"

(* The types of the records and what else TypeOK says. *)
StateT == [status : {"reality", "active"}, dream : Entry \cup {None},
           marked : Round \cup {None},
           outcome : {"none", "running", "idle", "failed", "timed_out"}]

RoundT == [pc : {"new", "sent", "queued", "between", "llm", "spoken", "marked", "gone"},
           phase : {"A", "retry", "B"}, tried : SUBSET Char,
           spoke : 0..MaxReplies, depth : 0..MaxChain,
           last : Char \cup {"owner"}, asked : Char \cup {"nobody"}]

RestOK ==
  /\ tmp \subseteq Round
  /\ entering \in Entry \cup {None}
  /\ entry \in [Entry -> {"new", "waiting", "done"}]
  /\ active \in Round \cup {None}
  /\ conv \in {Free, Turn} \cup Round
  /\ solo \in {"out", "on", "asked"} /\ soloEntry \in {"off", "waiting"}
  /\ outdated \subseteq Entry /\ unsettled \subseteq Round
  /\ placed \in [Round -> SUBSET (Entry \cup {None})]
  /\ late \in [Round -> Nat]
  /\ left \in [{"faults", "crashes"} -> Nat]

(* A character is asked only where its answer has room. *)
Room(x) ==
  x.pc = "llm" =>
    CASE x.phase = "A" -> x.spoke < MaxReplies
      [] x.phase = "retry" -> x.spoke < MinReplies
      [] x.phase = "B" -> x.depth < MaxChain

RoomToAnswer == \A r \in Round : Room(rounds[r])

(* The dream that is on comes of an entry that is over, none is under way   *)
(* that could replace it, and no entry that an exit revoked holds the       *)
(* reservation.                                                             *)
EntriesOK ==
  /\ On => /\ state.dream \in Entry /\ entry[state.dream] = "done"
           /\ \A e \in Entry : ~Pending(e)
  /\ entering \notin outdated
  /\ \A e \in outdated : entry[e] # "new"

(* A marker is that of a round which is under way, or whose end was lost. *)
MarkerOwned ==
  /\ state.marked # None => On
  /\ \A r \in Round : state.marked = r =>
       rounds[r].pc \in {"queued", "between", "llm", "spoken"} \/ r \in unsettled

(* No line is late while a dream is on, or before its round has spoken. *)
LateOnlyAfter ==
  /\ On => \A r \in Round : late[r] = 0
  /\ \A r \in Round : rounds[r].pc \in {"new", "sent", "queued", "llm"} => late[r] = 0

(* A round that speaks holds the lock; once it spoke in a dream, that dream *)
(* is on, or none is and no entry is about to commit.                       *)
PlacedHere ==
  /\ \A r \in Round : Speaking(r) => conv = r
  /\ \A r \in Round : rounds[r].pc \in {"new", "sent", "queued"} => placed[r] = {}
  /\ \A r \in Round : Speaking(r) /\ placed[r] \ {None} # {} =>
       IF On THEN state.dream \in placed[r] ELSE \A e \in Entry : ~Pending(e)
  /\ \A r \in Round : \A c, d \in placed[r] \ {None} : c = d

-----------------------------------------------------------------------------
(* Zero is no entry and no round; the owner's turn is neither. *)
LEMMA Distinct ==
  /\ None \notin Entry /\ None \notin Round
  /\ Free \notin Round /\ Turn \notin Round /\ Turn # Free
  BY GroupDreamAssumption, SMT DEF None, Free, Turn, Entry, Round

(* What a settled state keeps of the one before. *)
LEMMA FinishedFacts ==
  ASSUME state \in StateT, NEW r \in Round, NEW o \in {"idle", "failed", "timed_out"}
  PROVE  /\ Finished(state, r, o) \in StateT
         /\ Finished(state, r, o).status = state.status
         /\ Finished(state, r, o).dream = state.dream
         /\ Finished(state, r, o).marked # None => Finished(state, r, o).marked = state.marked
         /\ state.status = "active" => Finished(state, r, o).marked # r
  BY Distinct DEF StateT, Finished

(* A step that settles, or does not. *)
LEMMA SettleFacts ==
  ASSUME state \in StateT, RestOK, NEW r \in Round, NEW o \in {"idle", "timed_out"},
         Settle(r, o)
  PROVE  /\ state' \in StateT
         /\ state'.status = state.status /\ state'.dream = state.dream
         /\ state'.marked # None => state'.marked = state.marked
         /\ unsettled \subseteq unsettled' /\ unsettled' \subseteq Round
         /\ state.status = "active" /\ state'.marked = r => r \in unsettled'
         /\ left' \in [{"faults", "crashes"} -> Nat]
  BY FinishedFacts, SMTT(30) DEF RestOK, Settle, Spend

LEMMA SpendTyped ==
  ASSUME left \in [{"faults", "crashes"} -> Nat], NEW w \in {"faults", "crashes"}, Spend(w)
  PROVE  left' \in [{"faults", "crashes"} -> Nat]
  BY SMT DEF Spend

(* A write that took place or was refused. *)
LEMMA WriteFacts ==
  ASSUME left \in [{"faults", "crashes"} -> Nat], NEW s, Write(s)
  PROVE  state' \in {s, state} /\ left' \in [{"faults", "crashes"} -> Nat]
  BY SpendTyped DEF Write

(* TypeOK is the sum of its parts. *)
LEMMA Parts ==
  TypeOK <=> /\ state \in StateT /\ rounds \in [Round -> RoundT]
             /\ apart \in BOOLEAN /\ RestOK
  BY DEF TypeOK, StateT, RoundT, RestOK

(* What may be asked of a character, and where the answer has room. *)
LEMMA OffersFacts ==
  ASSUME NEW x \in RoundT, NEW n \in Offers(x)
  PROVE  /\ n = <<n[1], n[2]>> /\ n[1] \in {"A", "retry", "B"} /\ n[2] \in Char
         /\ n[1] = "A" => x.spoke < MaxReplies
         /\ n[1] = "retry" => x.spoke < MinReplies
         /\ n[1] = "B" => x.depth < MaxChain
  BY DEF RoundT, Offers

(* A round that moves on, but for the asking of a character. *)
LEMMA PcSet ==
  ASSUME rounds \in [Round -> RoundT], RoomToAnswer, NEW r \in Round,
         NEW p \in {"sent", "queued", "between", "spoken", "marked"},
         rounds' = [rounds EXCEPT ![r].pc = p]
  PROVE  rounds' \in [Round -> RoundT] /\ RoomToAnswer'
<1>1. [rounds[r] EXCEPT !.pc = p] \in RoundT /\ Room([rounds[r] EXCEPT !.pc = p])
  BY DEF RoundT, Room
<1>2. rounds' = [rounds EXCEPT ![r] = [rounds[r] EXCEPT !.pc = p]]
  OBVIOUS
<1> QED BY <1>1, <1>2 DEF RoomToAnswer

(* The round a release or the end of the process leaves. *)
LEMMA GoneFacts ==
  [NoRound EXCEPT !.pc = "gone"] \in RoundT /\ Room([NoRound EXCEPT !.pc = "gone"])
  BY GroupDreamAssumption DEF NoRound, RoundT, Room

(* The tasks of the rounds keep their types, and an answer its room. *)
LEMMA RoundsStep ==
  ASSUME rounds \in [Round -> RoundT], RoomToAnswer, [Next]_vars
  PROVE  rounds' \in [Round -> RoundT] /\ RoomToAnswer'
<1> USE GroupDreamAssumption
<1>1. ASSUME UNCHANGED rounds
      PROVE  rounds' \in [Round -> RoundT] /\ RoomToAnswer'
  BY <1>1 DEF RoomToAnswer
<1>2. ASSUME NEW r \in Round, CharacterAsked(r)
      PROVE  rounds' \in [Round -> RoundT] /\ RoomToAnswer'
  <2>1. PICK n \in Offers(rounds[r]) :
          rounds' = [rounds EXCEPT ![r].pc = "llm", ![r].phase = n[1], ![r].asked = n[2],
                                   ![r].tried = @ \cup {n[2]}]
    BY <1>2 DEF CharacterAsked
  <2>2. PICK p \in {"A", "retry", "B"}, c \in Char :
          /\ rounds' = [rounds EXCEPT ![r].pc = "llm", ![r].phase = p, ![r].asked = c,
                                      ![r].tried = @ \cup {c}]
          /\ p = "A" => rounds[r].spoke < MaxReplies
          /\ p = "retry" => rounds[r].spoke < MinReplies
          /\ p = "B" => rounds[r].depth < MaxChain
    BY <2>1, OffersFacts
  <2> DEFINE x == rounds[r]
             y == [x EXCEPT !.pc = "llm", !.phase = p, !.asked = c, !.tried = @ \cup {c}]
  <2>3. rounds' = [rounds EXCEPT ![r] = y]
    BY <2>2
  <2>4. y \in RoundT /\ Room(y)
    BY <2>2 DEF RoundT, Room
  <2> HIDE DEF y
  <2> QED BY <2>3, <2>4 DEF RoomToAnswer
<1>3. ASSUME NEW r \in Round, CharacterAnswers(r)
      PROVE  rounds' \in [Round -> RoundT] /\ RoomToAnswer'
  <2>1. rounds' \in [Round -> RoundT]
    BY <1>3 DEF CharacterAnswers, RoundT, RoomToAnswer, Room
  <2>2. /\ rounds'[r].pc # "llm"
        /\ \A q \in Round \ {r} : rounds'[q] = rounds[q]
    BY <1>3 DEF CharacterAnswers, RoundT
  <2>3. RoomToAnswer'
    BY <2>2 DEF RoomToAnswer, Room
  <2> QED BY <2>1, <2>3
<1>4. ASSUME NEW r \in Round, Send(r)
      PROVE  rounds' \in [Round -> RoundT] /\ RoomToAnswer'
  <2>1. rounds' = [rounds EXCEPT ![r].pc = "sent"]
    BY <1>4 DEF Send
  <2> QED BY <2>1, PcSet
<1>5. ASSUME NEW r \in Round, RoundBegins(r)
      PROVE  rounds' \in [Round -> RoundT] /\ RoomToAnswer'
  <2>1. rounds' = [rounds EXCEPT ![r].pc = "queued"]
    BY <1>5 DEF RoundBegins
  <2> QED BY <2>1, PcSet
<1>6. ASSUME NEW r \in Round, RoundRejected(r)
      PROVE  rounds' \in [Round -> RoundT] /\ RoomToAnswer'
  <2>1. rounds' = [rounds EXCEPT ![r].pc = "marked"]
    BY <1>6 DEF RoundRejected
  <2> QED BY <2>1, PcSet
<1>7. ASSUME NEW r \in Round, OwnerSpeaks(r)
      PROVE  rounds' \in [Round -> RoundT] /\ RoomToAnswer'
  <2>1. rounds' = [rounds EXCEPT ![r].pc = "between"]
    BY <1>7 DEF OwnerSpeaks
  <2> QED BY <2>1, PcSet
<1>8. ASSUME NEW r \in Round, RoundOver(r)
      PROVE  rounds' \in [Round -> RoundT] /\ RoomToAnswer'
  <2>1. rounds' = [rounds EXCEPT ![r].pc = "spoken"]
    BY <1>8 DEF RoundOver
  <2> QED BY <2>1, PcSet
<1>9. ASSUME NEW r \in Round, RoundSettles(r)
      PROVE  rounds' \in [Round -> RoundT] /\ RoomToAnswer'
  <2>1. rounds' = [rounds EXCEPT ![r].pc = "marked"]
    BY <1>9 DEF RoundSettles
  <2> QED BY <2>1, PcSet
<1>10. ASSUME NEW r \in Round, RoundFails(r)
      PROVE  rounds' \in [Round -> RoundT] /\ RoomToAnswer'
  <2>1. rounds' = [rounds EXCEPT ![r].pc = "marked"]
    BY <1>10 DEF RoundFails
  <2> QED BY <2>1, PcSet
<1>11. ASSUME NEW r \in Round, RoundTimesOut(r)
      PROVE  rounds' \in [Round -> RoundT] /\ RoomToAnswer'
  <2>1. rounds' = [rounds EXCEPT ![r].pc = "marked"]
    BY <1>11 DEF RoundTimesOut
  <2> QED BY <2>1, PcSet
<1>12. ASSUME NEW r \in Round, RoundReleases(r)
      PROVE  rounds' \in [Round -> RoundT] /\ RoomToAnswer'
  BY <1>12, GoneFacts DEF RoundReleases, RoomToAnswer
<1>13. ASSUME Crash
      PROVE  rounds' \in [Round -> RoundT] /\ RoomToAnswer'
  BY <1>13, GoneFacts DEF Crash, RoomToAnswer
<1> QED
  BY <1>1, <1>2, <1>3, <1>4, <1>5, <1>6, <1>7, <1>8, <1>9, <1>10, <1>11, <1>12, <1>13
     DEF Next, RoundStep, vars, roundVars, Reserve, EntryCommits, EntryRefused, EntryFails, Exit,
         OwnerTurn, SoloEnters, SoloEntered, SoloAsked, SoloResumes, SoloExits

(* The state keeps its type. *)
LEMMA StateStep ==
  ASSUME state \in StateT, RestOK, [Next]_vars
  PROVE  state' \in StateT
<1> USE Distinct
<1>1. ASSUME NEW e \in Entry, EntryCommits(e)
      PROVE  state' \in StateT
  BY <1>1 DEF EntryCommits, Write, Dreaming, StateT
<1>2. ASSUME Exit
      PROVE  state' \in StateT
  BY <1>2 DEF Exit, Write, Reality, StateT
<1>3. ASSUME NEW r \in Round, RoundBegins(r)
      PROVE  state' \in StateT
  BY <1>3 DEF RoundBegins, Write, StateT
<1>4. ASSUME NEW r \in Round, RoundSettles(r) \/ RoundTimesOut(r) \/ RoundFails(r)
      PROVE  state' \in StateT
  BY <1>4, SettleFacts, FinishedFacts DEF RoundSettles, RoundTimesOut, RoundFails
<1> QED
  BY <1>1, <1>2, <1>3, <1>4
     DEF Next, RoundStep, vars, Reserve, EntryRefused, EntryFails, Send, RoundRejected,
         OwnerSpeaks, CharacterAsked, CharacterAnswers, RoundOver, RoundReleases, OwnerTurn,
         SoloEnters, SoloEntered, SoloAsked, SoloResumes, SoloExits, Crash

(* So does the history of overlapping entries. *)
LEMMA ApartStep ==
  ASSUME apart \in BOOLEAN, [Next]_vars
  PROVE  apart' \in BOOLEAN
<1>1. ASSUME NEW e \in Entry, Reserve(e)
      PROVE  apart' \in BOOLEAN
  BY <1>1 DEF Reserve
<1>2. ASSUME SoloEnters
      PROVE  apart' \in BOOLEAN
  BY <1>2 DEF SoloEnters
<1> QED
  BY <1>1, <1>2
     DEF Next, RoundStep, vars, EntryCommits, EntryRefused, EntryFails, Exit, Send, RoundBegins,
         RoundRejected, OwnerSpeaks, CharacterAsked, CharacterAnswers, RoundOver, RoundSettles,
         RoundFails, RoundTimesOut, RoundReleases, OwnerTurn, SoloEntered, SoloAsked,
         SoloResumes, SoloExits, Crash

(* So do the others. *)
LEMMA RestStep ==
  ASSUME state \in StateT, rounds \in [Round -> RoundT], RestOK, [Next]_vars
  PROVE  RestOK'
<1> USE Distinct
<1>1. ASSUME UNCHANGED vars
      PROVE  RestOK'
  BY <1>1 DEF RestOK, vars
<1>2. ASSUME NEW e \in Entry, Reserve(e)
      PROVE  RestOK'
  BY <1>2 DEF RestOK, Reserve, roundVars, soloVars
<1>3. ASSUME NEW e \in Entry, EntryCommits(e)
      PROVE  RestOK'
  BY <1>3, SpendTyped DEF RestOK, EntryCommits, Write, soloVars
<1>4. ASSUME NEW e \in Entry, EntryRefused(e)
      PROVE  RestOK'
  BY <1>4 DEF RestOK, EntryRefused, roundVars, soloVars
<1>5. ASSUME NEW e \in Entry, EntryFails(e)
      PROVE  RestOK'
  BY <1>5, SpendTyped DEF RestOK, EntryFails, roundVars, soloVars
<1>6. ASSUME Exit
      PROVE  RestOK'
  BY <1>6, SpendTyped DEF RestOK, Exit, Write, Waiting, roundVars, soloVars
<1>7. ASSUME NEW r \in Round, Send(r)
      PROVE  RestOK'
  BY <1>7 DEF RestOK, Send, entryVars, soloVars
<1>8. ASSUME NEW r \in Round, RoundBegins(r)
      PROVE  RestOK'
  BY <1>8, SpendTyped DEF RestOK, RoundBegins, Write, entryVars, soloVars
<1>9. ASSUME NEW r \in Round, RoundRejected(r)
      PROVE  RestOK'
  BY <1>9 DEF RestOK, RoundRejected, entryVars, soloVars
<1>10. ASSUME NEW r \in Round, OwnerSpeaks(r)
      PROVE  RestOK'
  BY <1>10 DEF RestOK, StateT, OwnerSpeaks, AddLine, entryVars, soloVars
<1>11. ASSUME NEW r \in Round, CharacterAsked(r)
      PROVE  RestOK'
  BY <1>11 DEF RestOK, CharacterAsked, entryVars, soloVars
<1>12. ASSUME NEW r \in Round, CharacterAnswers(r)
      PROVE  RestOK'
  BY <1>12 DEF RestOK, StateT, CharacterAnswers, AddLine, entryVars, soloVars
<1>13. ASSUME NEW r \in Round, RoundOver(r)
      PROVE  RestOK'
  BY <1>13 DEF RestOK, RoundOver, entryVars, soloVars
<1>14. ASSUME NEW r \in Round, RoundSettles(r)
      PROVE  RestOK'
  BY <1>14, SettleFacts DEF RestOK, RoundSettles, entryVars, soloVars
<1>15. ASSUME NEW r \in Round, RoundFails(r)
      PROVE  RestOK'
  BY <1>15, SpendTyped DEF RestOK, RoundFails, UnlockIf, entryVars, soloVars
<1>16. ASSUME NEW r \in Round, RoundTimesOut(r)
      PROVE  RestOK'
  BY <1>16, SettleFacts DEF RestOK, RoundTimesOut, UnlockIf, entryVars, soloVars
<1>17. ASSUME NEW r \in Round, RoundReleases(r)
      PROVE  RestOK'
  BY <1>17 DEF RestOK, RoundReleases, entryVars, soloVars
<1>18. ASSUME OwnerTurn \/ SoloEnters \/ SoloEntered \/ SoloAsked \/ SoloResumes \/ SoloExits
      PROVE  RestOK'
  BY <1>18 DEF RestOK, OwnerTurn, SoloEnters, SoloEntered, SoloAsked, SoloResumes, SoloExits,
               entryVars, roundVars, soloVars
<1>19. ASSUME Crash
      PROVE  RestOK'
  BY <1>19, SpendTyped DEF RestOK, Crash, Waiting
<1> QED
  BY <1>1, <1>2, <1>3, <1>4, <1>5, <1>6, <1>7, <1>8, <1>9, <1>10, <1>11, <1>12, <1>13, <1>14, <1>15, <1>16, <1>17, <1>18, <1>19 DEF Next, RoundStep

-----------------------------------------------------------------------------
(* Entries *)

(* The reservation lets one entry commit; an exit takes it from those under way. *)
LEMMA EntriesStep ==
  ASSUME state \in StateT, RestOK, EntriesOK, ExitWins, [Next]_vars
  PROVE  EntriesOK' /\ ExitWins'
<1> USE Distinct
<1>1. ASSUME UNCHANGED <<state, entering, entry, outdated>>
      PROVE  EntriesOK' /\ ExitWins'
  BY <1>1 DEF EntriesOK, ExitWins, On, Pending
<1>2. ASSUME NEW e \in Entry, Reserve(e)
      PROVE  EntriesOK' /\ ExitWins'
  BY <1>2 DEF RestOK, Reserve, MayReserve, EntriesOK, ExitWins, On, Pending
<1>3. ASSUME NEW e \in Entry, EntryCommits(e)
      PROVE  EntriesOK' /\ ExitWins'
  BY <1>3 DEF RestOK, EntryCommits, OwnsEnter, Write, Dreaming, EntriesOK, ExitWins, On, Pending
<1>4. ASSUME NEW e \in Entry, EntryRefused(e)
      PROVE  EntriesOK' /\ ExitWins'
  BY <1>4 DEF RestOK, EntryRefused, OwnsEnter, EntriesOK, ExitWins, On, Pending
<1>5. ASSUME NEW e \in Entry, EntryFails(e)
      PROVE  EntriesOK' /\ ExitWins'
  BY <1>5 DEF RestOK, EntryFails, EntriesOK, ExitWins, On, Pending
<1>6. ASSUME Exit
      PROVE  EntriesOK' /\ ExitWins'
  BY <1>6 DEF RestOK, Exit, Write, Waiting, Reality, EntriesOK, ExitWins, On, Pending
<1>7. ASSUME NEW r \in Round, RoundBegins(r)
      PROVE  EntriesOK' /\ ExitWins'
  <2>1. UNCHANGED <<entering, entry, outdated>> /\ state'.status = state.status
        /\ state'.dream = state.dream
    BY <1>7 DEF RoundBegins, Write, StateT, entryVars
  <2> QED BY <2>1 DEF EntriesOK, ExitWins, On, Pending
<1>8. ASSUME NEW r \in Round, RoundSettles(r) \/ RoundFails(r) \/ RoundTimesOut(r)
      PROVE  EntriesOK' /\ ExitWins'
  <2>1. UNCHANGED <<entering, entry, outdated>> /\ state'.status = state.status
        /\ state'.dream = state.dream
    BY <1>8, SettleFacts, FinishedFacts DEF RoundSettles, RoundFails, RoundTimesOut, entryVars
  <2> QED BY <2>1 DEF EntriesOK, ExitWins, On, Pending
<1>9. ASSUME Crash
      PROVE  EntriesOK' /\ ExitWins'
  BY <1>9 DEF RestOK, Crash, Waiting, EntriesOK, ExitWins, On, Pending
<1> QED
  BY <1>1, <1>2, <1>3, <1>4, <1>5, <1>6, <1>7, <1>8, <1>9
     DEF Next, RoundStep, vars, entryVars, Send, RoundRejected, OwnerSpeaks, CharacterAsked,
         CharacterAnswers, RoundOver, RoundReleases, OwnerTurn, SoloEnters, SoloEntered,
         SoloAsked, SoloResumes, SoloExits

-----------------------------------------------------------------------------
(* The marker of a round *)

(* A marker leaves with the end of its round, or with the dream. *)
LEMMA MarkerStep ==
  ASSUME state \in StateT, rounds \in [Round -> RoundT], RestOK, MarkerOwned, MarkerIsLive, [Next]_vars
  PROVE  MarkerOwned' /\ MarkerIsLive'
<1> USE Distinct
<1>1. ASSUME \/ UNCHANGED vars
             \/ \E e \in Entry : Reserve(e) \/ EntryRefused(e) \/ EntryFails(e)
             \/ OwnerTurn \/ SoloEnters \/ SoloEntered \/ SoloAsked \/ SoloResumes \/ SoloExits
      PROVE  MarkerOwned' /\ MarkerIsLive'
  <2>1. UNCHANGED <<state, active, rounds, unsettled>>
    BY <1>1 DEF vars, roundVars, Reserve, EntryRefused, EntryFails, OwnerTurn, SoloEnters,
              SoloEntered, SoloAsked, SoloResumes, SoloExits
  <2> QED BY <2>1 DEF MarkerOwned, MarkerIsLive, On
<1>2. ASSUME NEW e \in Entry, EntryCommits(e)
      PROVE  MarkerOwned' /\ MarkerIsLive'
  BY <1>2 DEF EntryCommits, Write, Dreaming, MarkerOwned, MarkerIsLive, On
<1>3. ASSUME Exit
      PROVE  MarkerOwned' /\ MarkerIsLive'
  BY <1>3 DEF Exit, Write, Reality, roundVars, MarkerOwned, MarkerIsLive, On
<1>4. ASSUME NEW r \in Round, Send(r)
      PROVE  MarkerOwned' /\ MarkerIsLive'
  BY <1>4 DEF RoundT, Send, MarkerOwned, MarkerIsLive, On
<1>5. ASSUME NEW r \in Round, RoundBegins(r)
      PROVE  MarkerOwned' /\ MarkerIsLive'
  BY <1>5 DEF StateT, RoundT, RoundBegins, Write, MarkerOwned, MarkerIsLive, On
<1>6. ASSUME NEW r \in Round, RoundRejected(r)
      PROVE  MarkerOwned' /\ MarkerIsLive'
  BY <1>6 DEF RoundT, RoundRejected, MarkerOwned, MarkerIsLive, On
<1>7. ASSUME NEW r \in Round, OwnerSpeaks(r) \/ CharacterAsked(r) \/ CharacterAnswers(r) \/ RoundOver(r)
      PROVE  MarkerOwned' /\ MarkerIsLive'
  <2>1. /\ UNCHANGED <<state, active, unsettled>>
        /\ rounds[r].pc \in {"queued", "between", "llm"}
        /\ rounds'[r].pc \in {"between", "llm", "spoken"}
        /\ \A q \in Round \ {r} : rounds'[q] = rounds[q]
    <3>1. CASE CharacterAsked(r)
      BY <3>1 DEF RoundT, CharacterAsked
    <3>2. CASE ~CharacterAsked(r)
      BY <1>7, <3>2 DEF RoundT, OwnerSpeaks, CharacterAnswers, RoundOver
    <3> QED BY <3>1, <3>2
  <2> QED BY <2>1 DEF MarkerOwned, MarkerIsLive, On
<1>8. ASSUME NEW r \in Round, RoundSettles(r) \/ RoundTimesOut(r)
      PROVE  MarkerOwned' /\ MarkerIsLive'
  <2>1. /\ UNCHANGED active
        /\ rounds' = [rounds EXCEPT ![r].pc = "marked"]
        /\ state'.status = state.status
        /\ state'.marked # None => state'.marked = state.marked
        /\ unsettled \subseteq unsettled'
        /\ state.status = "active" /\ state'.marked = r => r \in unsettled'
    BY <1>8, SettleFacts DEF RoundSettles, RoundTimesOut
  <2> QED BY <2>1 DEF RoundT, MarkerOwned, MarkerIsLive, On
<1>9. ASSUME NEW r \in Round, RoundFails(r)
      PROVE  MarkerOwned' /\ MarkerIsLive'
  <2>1. /\ UNCHANGED <<active, unsettled>>
        /\ rounds' = [rounds EXCEPT ![r].pc = "marked"]
        /\ state'.status = state.status
        /\ state'.marked # None => state'.marked = state.marked
        /\ state.status = "active" => state'.marked # r
    BY <1>9, FinishedFacts DEF RoundFails
  <2> QED BY <2>1 DEF RoundT, MarkerOwned, MarkerIsLive, On
<1>10. ASSUME NEW r \in Round, RoundReleases(r)
      PROVE  MarkerOwned' /\ MarkerIsLive'
  BY <1>10, GoneFacts DEF RoundReleases, MarkerOwned, MarkerIsLive, On
<1>11. ASSUME Crash
      PROVE  MarkerOwned' /\ MarkerIsLive'
  <2>1. /\ UNCHANGED state /\ active' = None /\ unsettled \subseteq unsettled'
        /\ \A r \in Round : rounds[r].pc \in {"queued", "between", "llm", "spoken"} => r \in unsettled'
    BY <1>11 DEF Crash
  <2> QED BY <2>1 DEF StateT, MarkerOwned, MarkerIsLive, On
<1> QED
  BY <1>1, <1>2, <1>3, <1>4, <1>5, <1>6, <1>7, <1>8, <1>9, <1>10, <1>11 DEF Next, RoundStep

-----------------------------------------------------------------------------
(* Late lines *)

(* A round's one late line comes from the step that was under way.          *)
LEMMA LateStep ==
  ASSUME state \in StateT, rounds \in [Round -> RoundT], RestOK,
         LateOnlyAfter, ExitStopsRound, [Next]_vars
  PROVE  LateOnlyAfter' /\ ExitStopsRound'
<1> USE Distinct
<1>1. ASSUME UNCHANGED <<state, rounds, late>>
      PROVE  LateOnlyAfter' /\ ExitStopsRound'
  BY <1>1 DEF LateOnlyAfter, ExitStopsRound, On
<1>2. ASSUME NEW e \in Entry, EntryCommits(e)
      PROVE  LateOnlyAfter' /\ ExitStopsRound'
  BY <1>2 DEF EntryCommits, roundVars, LateOnlyAfter, ExitStopsRound
<1>3. ASSUME Exit
      PROVE  LateOnlyAfter' /\ ExitStopsRound'
  <2>1. UNCHANGED <<rounds, late>> /\ (On' => On)
    BY <1>3 DEF Exit, Write, Reality, roundVars, On
  <2> QED BY <2>1 DEF LateOnlyAfter, ExitStopsRound
<1>4. ASSUME NEW r \in Round,
             \/ Send(r) \/ RoundBegins(r) \/ RoundRejected(r) \/ RoundOver(r)
             \/ RoundSettles(r) \/ RoundFails(r) \/ RoundTimesOut(r) \/ RoundReleases(r)
      PROVE  LateOnlyAfter' /\ ExitStopsRound'
  <2>1. UNCHANGED late /\ state'.status = state.status
    <3>1. ASSUME RoundSettles(r) \/ RoundFails(r) \/ RoundTimesOut(r)
          PROVE  UNCHANGED late /\ state'.status = state.status
      BY <3>1, SettleFacts, FinishedFacts DEF RoundSettles, RoundFails, RoundTimesOut
    <3>2. ASSUME \/ Send(r) \/ RoundBegins(r) \/ RoundRejected(r)
                 \/ RoundOver(r) \/ RoundReleases(r)
          PROVE  UNCHANGED late /\ state'.status = state.status
      BY <3>2 DEF Send, RoundBegins, Write, StateT, RoundRejected, RoundOver, RoundReleases
    <3> QED BY <1>4, <3>1, <3>2
  <2>2. /\ \A q \in Round \ {r} : rounds'[q] = rounds[q]
        /\ rounds'[r].pc \in {"new", "sent", "queued", "llm"} => rounds[r].pc \in {"new", "sent"}
    BY <1>4, GoneFacts
       DEF RoundT, Send, RoundBegins, RoundRejected, RoundOver, RoundSettles,
           RoundFails, RoundTimesOut, RoundReleases
  <2> QED BY <2>1, <2>2 DEF LateOnlyAfter, ExitStopsRound, On
<1>5. ASSUME NEW r \in Round, CharacterAsked(r)
      PROVE  LateOnlyAfter' /\ ExitStopsRound'
  <2>1. UNCHANGED <<state, late>> /\ On /\ \A q \in Round \ {r} : rounds'[q] = rounds[q]
    BY <1>5 DEF CharacterAsked, StillOn
  <2> QED BY <2>1 DEF LateOnlyAfter, ExitStopsRound, On
<1>6. ASSUME NEW r \in Round, OwnerSpeaks(r) \/ CharacterAnswers(r)
      PROVE  LateOnlyAfter' /\ ExitStopsRound'
  <2>1. /\ UNCHANGED state /\ late[r] = 0
        /\ \A q \in Round \ {r} : rounds'[q] = rounds[q]
        /\ rounds'[r].pc \in {"between", "spoken"}
    BY <1>6 DEF RoundT, OwnerSpeaks, CharacterAnswers, LateOnlyAfter
  <2>2. \/ late' = late
        \/ ~On /\ late' = [late EXCEPT ![r] = @ + 1]
    BY <1>6 DEF OwnerSpeaks, CharacterAnswers, AddLine
  <2>3. late'[r] <= 1 /\ (On => late'[r] = 0) /\ \A q \in Round \ {r} : late'[q] = late[q]
    BY <2>1, <2>2 DEF RestOK
  <2> QED BY <2>1, <2>3 DEF LateOnlyAfter, ExitStopsRound, On
<1>7. ASSUME Crash
      PROVE  LateOnlyAfter' /\ ExitStopsRound'
  <2>1. /\ UNCHANGED <<state, late>>
        /\ \A r \in Round : rounds'[r].pc = "gone" \/ rounds'[r] = rounds[r]
    BY <1>7, GoneFacts DEF Crash, NoRound
  <2> QED BY <2>1 DEF LateOnlyAfter, ExitStopsRound, On
<1> QED
  BY <1>1, <1>2, <1>3, <1>4, <1>5, <1>6, <1>7
     DEF Next, RoundStep, vars, roundVars, Reserve, EntryRefused, EntryFails, OwnerTurn,
         SoloEnters, SoloEntered, SoloAsked, SoloResumes, SoloExits

-----------------------------------------------------------------------------
(* The dream a round speaks in *)

(* Lines of a round that holds the lock all land in the dream that is on.   *)
LEMMA PlacedStep ==
  ASSUME state \in StateT, rounds \in [Round -> RoundT], RestOK, EntriesOK,
         PlacedHere, [Next]_vars
  PROVE  PlacedHere'
<1> USE Distinct
<1>1. ASSUME UNCHANGED <<state, entering, entry, rounds, conv, placed>>
      PROVE  PlacedHere'
  BY <1>1 DEF PlacedHere, Speaking, On, Pending
<1>2. ASSUME NEW e \in Entry, Reserve(e)
      PROVE  PlacedHere'
  <2>1. \A r \in Round : ~Speaking(r)
    BY <1>2 DEF Reserve, MayReserve, PlacedHere
  <2>2. UNCHANGED <<rounds, placed, conv>>
    BY <1>2 DEF Reserve, roundVars
  <2> QED BY <2>1, <2>2 DEF PlacedHere, Speaking
<1>3. ASSUME NEW e \in Entry, EntryCommits(e)
      PROVE  PlacedHere'
  <2>1. ~On /\ Pending(e)
    BY <1>3 DEF EntryCommits, OwnsEnter, Pending, EntriesOK
  <2>2. \A r \in Round : Speaking(r) => placed[r] \ {None} = {}
    BY <2>1 DEF PlacedHere
  <2>3. UNCHANGED <<rounds, placed, conv>>
    BY <1>3 DEF EntryCommits
  <2> QED BY <2>2, <2>3 DEF PlacedHere, Speaking
<1>4. ASSUME NEW e \in Entry, EntryRefused(e) \/ EntryFails(e)
      PROVE  PlacedHere'
  <2>1. /\ UNCHANGED <<state, rounds, placed, conv>>
        /\ \A f \in Entry : Pending(f)' => Pending(f)
    BY <1>4 DEF EntryRefused, EntryFails, roundVars, Pending, RestOK
  <2> QED BY <2>1 DEF PlacedHere, Speaking, On
<1>5. ASSUME Exit
      PROVE  PlacedHere'
  <2>1. /\ UNCHANGED <<rounds, placed, conv>>
        /\ \A f \in Entry : ~Pending(f)'
        /\ On' => On /\ state' = state
    BY <1>5 DEF Exit, Write, Reality, roundVars, Pending, On
  <2> QED BY <2>1 DEF PlacedHere, Speaking, On
<1>6. ASSUME NEW r \in Round,
             Send(r) \/ RoundBegins(r) \/ RoundRejected(r) \/ RoundSettles(r) \/ RoundReleases(r)
      PROVE  PlacedHere'
  <2>1. /\ UNCHANGED <<placed, conv, entering, entry>>
        /\ state'.status = state.status /\ state'.dream = state.dream
    BY <1>6, SettleFacts
       DEF Send, RoundBegins, Write, StateT, RoundRejected, RoundSettles, RoundReleases, entryVars
  <2>2. /\ \A q \in Round \ {r} : rounds'[q] = rounds[q]
        /\ rounds'[r].pc \in {"sent", "queued", "marked", "gone"}
        /\ rounds'[r].pc \in {"sent", "queued"} => rounds[r].pc \in {"new", "sent"}
    BY <1>6, GoneFacts
       DEF RoundT, Send, RoundBegins, RoundRejected, RoundSettles, RoundReleases
  <2> QED BY <2>1, <2>2 DEF PlacedHere, Speaking, On, Pending
<1>7. ASSUME NEW r \in Round, RoundOver(r) \/ RoundFails(r) \/ RoundTimesOut(r)
      PROVE  PlacedHere'
  <2>1. /\ UNCHANGED <<placed, entering, entry>>
        /\ state'.status = state.status /\ state'.dream = state.dream
    BY <1>7, SettleFacts, FinishedFacts DEF RoundOver, RoundFails, RoundTimesOut, entryVars
  <2>2. /\ \A q \in Round \ {r} : rounds'[q] = rounds[q]
        /\ rounds'[r].pc \in {"spoken", "marked"}
    BY <1>7 DEF RoundT, RoundOver, RoundFails, RoundTimesOut
  <2>3. conv' = conv \/ (conv = r /\ conv' = Free)
    BY <1>7 DEF RoundOver, RoundFails, RoundTimesOut, UnlockIf, Speaking, PlacedHere
  <2> QED BY <2>1, <2>2, <2>3 DEF PlacedHere, Speaking, On, Pending
<1>8. ASSUME NEW r \in Round, CharacterAsked(r)
      PROVE  PlacedHere'
  <2>1. /\ UNCHANGED <<state, entering, entry, placed, conv>>
        /\ \A q \in Round \ {r} : rounds'[q] = rounds[q]
        /\ rounds[r].pc = "between" /\ rounds'[r].pc = "llm"
    BY <1>8 DEF RoundT, CharacterAsked, entryVars
  <2> QED BY <2>1 DEF PlacedHere, Speaking, On, Pending
<1>9. ASSUME NEW r \in Round, OwnerSpeaks(r) \/ CharacterAnswers(r)
      PROVE  PlacedHere'
  <2>1. /\ UNCHANGED <<state, entering, entry>>
        /\ \A q \in Round \ {r} : rounds'[q] = rounds[q]
        /\ rounds'[r].pc \in {"between", "spoken"}
    BY <1>9 DEF RoundT, OwnerSpeaks, CharacterAnswers, entryVars
  <2>2. \/ conv = Free /\ conv' = r
        \/ conv = r /\ conv' = r
        \/ conv = r /\ conv' = Free /\ rounds'[r].pc = "spoken"
    BY <1>9 DEF RoundT, OwnerSpeaks, CharacterAnswers, PlacedHere, Speaking
  <2>3. \/ placed' = placed /\ rounds'[r].pc = "spoken"
        \/ placed' = placed /\ Speaking(r)
        \/ placed' = [placed EXCEPT ![r] = @ \cup {IF On THEN state.dream ELSE None}]
    BY <1>9 DEF OwnerSpeaks, CharacterAnswers, AddLine, Speaking
  <2>4. placed[r] = {} \/ Speaking(r)
    BY <1>9 DEF OwnerSpeaks, CharacterAnswers, PlacedHere, Speaking
  <2>5. On => state.dream \in Entry
    BY DEF EntriesOK
  <2>6. /\ \A q \in Round \ {r} : placed'[q] = placed[q]
        /\ placed'[r] \ {None} \in {placed[r] \ {None}, (placed[r] \ {None}) \cup {state.dream}}
        /\ ~On => placed'[r] \ {None} = placed[r] \ {None}
        /\ \/ rounds'[r].pc = "spoken" /\ placed' = placed
           \/ Speaking(r) /\ placed' = placed
           \/ On => state.dream \in placed'[r]
    BY <2>3, <2>5 DEF RestOK
  <2>7. \A q \in Round : Speaking(q)' => conv' = q
    BY <2>1, <2>2 DEF PlacedHere, Speaking
  <2>8. \A q \in Round : \A c, d \in placed'[q] \ {None} : c = d
    BY <2>4, <2>6 DEF PlacedHere
  <2>9. ASSUME NEW q \in Round, Speaking(q)', placed'[q] \ {None} # {}
        PROVE  IF On THEN state.dream \in placed'[q] ELSE \A e \in Entry : ~Pending(e)
    BY <2>1, <2>4, <2>6, <2>9 DEF PlacedHere, Speaking
  <2>10. \A q \in Round : rounds'[q].pc \in {"new", "sent", "queued"} => placed'[q] = {}
    BY <2>1, <2>6 DEF PlacedHere
  <2> QED BY <2>1, <2>7, <2>8, <2>9, <2>10 DEF PlacedHere, On, Pending
<1>10. ASSUME OwnerTurn
      PROVE  PlacedHere'
  <2>1. \A r \in Round : ~Speaking(r)
    BY <1>10 DEF OwnerTurn, PlacedHere
  <2>2. UNCHANGED <<rounds, placed>>
    BY <1>10 DEF OwnerTurn, roundVars
  <2> QED BY <2>1, <2>2 DEF PlacedHere, Speaking
<1>11. ASSUME Crash
      PROVE  PlacedHere'
  <2>1. /\ UNCHANGED placed
        /\ \A r \in Round : \/ rounds'[r].pc = "gone"
                            \/ rounds'[r] = rounds[r] /\ rounds[r].pc \in {"new", "gone"}
    BY <1>11, GoneFacts DEF Crash, NoRound
  <2> QED BY <2>1 DEF PlacedHere, Speaking
<1> QED
  BY <1>1, <1>2, <1>3, <1>4, <1>5, <1>6, <1>7, <1>8, <1>9, <1>10, <1>11
     DEF Next, RoundStep, vars, roundVars, entryVars, SoloEnters, SoloEntered, SoloAsked,
         SoloResumes, SoloExits

-----------------------------------------------------------------------------
(* The theorems *)

(* What is inductive, but for the cardinality. *)
IInv ==
  /\ TypeOK /\ RoomToAnswer
  /\ EntriesOK /\ ExitWins
  /\ MarkerOwned /\ MarkerIsLive
  /\ LateOnlyAfter /\ ExitStopsRound
  /\ PlacedHere

(* The invariant holds at the start. *)
LEMMA InitIInv ==
  Init => IInv
<1> SUFFICES ASSUME Init PROVE IInv
  OBVIOUS
<1> USE Distinct, GroupDreamAssumption DEF Init
<1>1. TypeOK
  BY SMT DEF TypeOK, Reality, NoRound
<1>2. RoomToAnswer /\ PlacedHere
  BY DEF RoomToAnswer, Room, PlacedHere, NoRound, Speaking
<1>3. EntriesOK /\ ExitWins /\ MarkerOwned /\ MarkerIsLive /\ LateOnlyAfter /\ ExitStopsRound
  BY DEF EntriesOK, ExitWins, MarkerOwned, MarkerIsLive, LateOnlyAfter, ExitStopsRound,
         On, Reality
<1> QED BY <1>1, <1>2, <1>3 DEF IInv

(* Every step keeps it. *)
LEMMA StepIInv ==
  IInv /\ [Next]_vars => IInv'
<1> SUFFICES ASSUME IInv, [Next]_vars PROVE IInv'
  OBVIOUS
<1>1. /\ state \in StateT /\ rounds \in [Round -> RoundT] /\ apart \in BOOLEAN /\ RestOK
      /\ RoomToAnswer /\ EntriesOK /\ ExitWins /\ MarkerOwned /\ MarkerIsLive
      /\ LateOnlyAfter /\ ExitStopsRound /\ PlacedHere
  BY Parts DEF IInv
<1>2. state' \in StateT /\ rounds' \in [Round -> RoundT] /\ apart' \in BOOLEAN /\ RestOK'
  BY <1>1, StateStep, RoundsStep, ApartStep, RestStep
<1>3. TypeOK'
  BY <1>2 DEF TypeOK, StateT, RoundT, RestOK
<1>4. RoomToAnswer'
  BY <1>1, RoundsStep
<1>5. EntriesOK' /\ ExitWins' /\ MarkerOwned' /\ MarkerIsLive'
  BY <1>1, EntriesStep, MarkerStep
<1>6. LateOnlyAfter' /\ ExitStopsRound' /\ PlacedHere'
  BY <1>1, LateStep, PlacedStep
<1> QED BY <1>3, <1>4, <1>5, <1>6 DEF IInv

(* The invariant holds throughout. *)
LEMMA Invariance ==
  Spec => []IInv
  BY InitIInv, StepIInv, PTL DEF Spec

(* The state, the reservation, the rounds and their lines keep their types  *)
(* (_write_state(), _ACTIVE_ROUNDS, run_owner_round()).                     *)
THEOREM TypeCorrect == Spec => []TypeOK
<1>1. IInv => TypeOK
  BY DEF IInv
<1> QED BY <1>1, Invariance, PTL

(* An entry that waits for its snapshots when the exit comes never becomes  *)
(* the dream (exit_group_dream(), _owns_enter()).                           *)
THEOREM ExitHasLastWord == Spec => []ExitWins
<1>1. IInv => ExitWins
  BY DEF IInv
<1> QED BY <1>1, Invariance, PTL

(* All lines that a round adds while a dream is on are of one dream         *)
(* (enter_group_dream() refuses while the conversation lock is held).       *)
THEOREM RoundStaysInDream == Spec => []RoundInOneDream
<1>1. ASSUME NEW S, \A c, d \in S : c = d
      PROVE  Cardinality(S) <= 1
  <2>1. CASE S = {}
    BY <2>1, FS_EmptySet
  <2>2. CASE S # {}
    <3>1. PICK c \in S : TRUE
      BY <2>2
    <3>2. S = {c}
      BY <1>1, <3>1
    <3>3. Cardinality({c}) = 1
      BY FS_Singleton
    <3> QED BY <3>2, <3>3
  <2> QED BY <2>1, <2>2
<1>2. IInv => RoundInOneDream
  BY <1>1 DEF IInv, PlacedHere, RoundInOneDream
<1> QED BY <1>2, Invariance, PTL

(* After an exit no round adds more than the line of the character that was *)
(* asked before (DreamStageCharacterView.generate()).                       *)
THEOREM ExitStops == Spec => []ExitStopsRound
<1>1. IInv => ExitStopsRound
  BY DEF IInv
<1> QED BY <1>1, Invariance, PTL

(* The marker of a running round is that of the round that holds the group  *)
(* or of one whose end no write recorded (_mark_round_finished()).          *)
THEOREM MarkerCorrect == Spec => []MarkerIsLive
<1>1. IInv => MarkerIsLive
  BY DEF IInv
<1> QED BY <1>1, Invariance, PTL

-----------------------------------------------------------------------------
(* Both dreams at once: an entry of the group asks whether the solo dream   *)
(* is on, and a dreamer whom a wake held back is neither out nor on.         *)
OutFirst == \A e \in Entry : Reserve(e) => solo = "out"

(* Unless entries of the two kinds overlapped, the owner is out of the solo  *)
(* dream, and not about to enter it, while the group dreams or is about to.  *)
Exclusive == apart => (On \/ Waiting # {} => solo = "out" /\ soloEntry = "off")

LEMMA ExclusiveStep ==
  ASSUME Exclusive, OutFirst, [Next]_vars
  PROVE  Exclusive'
<1>1. ASSUME NEW e \in Entry, Reserve(e)
      PROVE  Exclusive'
  BY <1>1 DEF OutFirst, Reserve, Exclusive, On, soloVars
<1>2. ASSUME NEW e \in Entry, EntryCommits(e)
      PROVE  Exclusive'
  <2>1. Waiting # {} /\ UNCHANGED <<solo, soloEntry, apart>>
    BY <1>2 DEF EntryCommits, Waiting, soloVars
  <2> QED
    BY <2>1 DEF Exclusive
<1>3. ASSUME NEW e \in Entry, EntryRefused(e) \/ EntryFails(e)
      PROVE  Exclusive'
  <2>1. Waiting # {} /\ UNCHANGED <<solo, soloEntry, apart>>
    BY <1>3 DEF EntryRefused, EntryFails, Waiting, soloVars
  <2> QED
    BY <2>1 DEF Exclusive
<1>4. CASE Exit
  BY <1>4 DEF Exit, Write, Exclusive, On, Waiting, Reality, soloVars
<1>5. ASSUME NEW r \in Round, RoundBegins(r)
      PROVE  Exclusive'
  <2>1. On /\ UNCHANGED <<solo, soloEntry, apart>>
    BY <1>5 DEF RoundBegins, soloVars
  <2> QED
    BY <2>1 DEF Exclusive
<1>6. ASSUME NEW r \in Round,
             \/ Send(r) \/ RoundRejected(r) \/ RoundTimesOut(r) \/ RoundSettles(r) \/ RoundReleases(r)
             \/ OwnerSpeaks(r) \/ CharacterAsked(r) \/ CharacterAnswers(r) \/ RoundOver(r)
             \/ RoundFails(r)
      PROVE  Exclusive'
  <2>1. UNCHANGED <<entry, solo, soloEntry, apart>>
    BY <1>6 DEF Send, RoundRejected, RoundTimesOut, RoundSettles, RoundReleases, OwnerSpeaks,
                CharacterAsked, CharacterAnswers, RoundOver, RoundFails, entryVars, soloVars
  <2>2. state' = state \/ \E s \in {"idle", "failed", "timed_out"} : state' = Finished(state, r, s)
    BY <1>6 DEF Send, RoundRejected, RoundTimesOut, RoundSettles, RoundReleases, OwnerSpeaks,
                CharacterAsked, CharacterAnswers, RoundOver, RoundFails, Settle
  <2>3. On' => On
    BY <2>2 DEF Finished, On
  <2> QED
    BY <2>1, <2>3 DEF Exclusive, Waiting
<1>7. CASE OwnerTurn \/ SoloEntered \/ SoloAsked \/ SoloResumes \/ SoloExits
  <2>1. UNCHANGED <<state, entry, apart>>
    BY <1>7 DEF OwnerTurn, SoloEntered, SoloAsked, SoloResumes, SoloExits, entryVars
  <2>2. solo = "out" /\ soloEntry = "off" => solo' = "out" /\ soloEntry' = "off"
    BY <1>7 DEF OwnerTurn, SoloEntered, SoloAsked, SoloResumes, SoloExits, soloVars
  <2> QED
    BY <2>1, <2>2 DEF Exclusive, On, Waiting
<1>8. CASE SoloEnters
  BY <1>8 DEF SoloEnters, Exclusive, On, Waiting, entryVars
<1>9. CASE Crash
  <2>1. Waiting' = {} /\ On' = On /\ soloEntry' = "off" /\ UNCHANGED <<solo, apart>>
    BY <1>9 DEF Crash, Waiting, On
  <2> QED
    BY <2>1 DEF Exclusive
<1>10. CASE UNCHANGED vars
  BY <1>10 DEF vars, Exclusive, On, Waiting
<1> QED
  BY <1>1, <1>2, <1>3, <1>4, <1>5, <1>6, <1>7, <1>8, <1>9, <1>10 DEF Next, RoundStep

(* What the run that finds both dreams on comes down to: if an entry of the  *)
(* group were reserved only where the owner is out of the solo dream (the    *)
(* code asks whether it is active, enter_group_dream()), two entries that    *)
(* do not overlap would never lead to two dreams.                           *)
THEOREM OutFirstKeepsApart == Spec /\ [][OutFirst]_vars => []NeverBoth
<1>1. Init => Exclusive
  BY DEF Init, Exclusive
<1>2. Exclusive /\ [Next]_vars /\ [OutFirst]_vars => Exclusive'
  <2>1. UNCHANGED vars => (Exclusive => Exclusive')
    BY DEF vars, Exclusive, On, Waiting
  <2> QED
    BY <2>1, ExclusiveStep
<1>3. Exclusive => NeverBoth
  BY DEF Exclusive, NeverBoth
<1> QED
  BY <1>1, <1>2, <1>3, PTL DEF Spec
=============================================================================
