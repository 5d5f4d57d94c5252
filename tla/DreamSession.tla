---------------------------- MODULE DreamSession ----------------------------
(***************************************************************************)
(* One owner's solo dream: dream_state.json, the current transcript, its    *)
(* archives, and the requests that change them (core/dream/dream_pipeline.py *)
(* and admin/routers/dream.py).                                             *)
(*                                                                         *)
(* A request runs on the event loop and yields only where it waits for a    *)
(* model or for the entry snapshot.  /dream/chat holds the conversation     *)
(* lock; /dream/enter, /dream/wake, /dream/exit and /dream/resume do not,   *)
(* so any of them may run while another one waits.  A request that waits    *)
(* carries the state it read before.                                        *)
(*                                                                         *)
(* Left out: what is said, scenarios and mirrors (they share this protocol), *)
(* RPG dreams (entered and left without a wait), and group dreams.  A dream *)
(* id is the second of the entry: dreams are not entered in the same second. *)
(*                                                                         *)
(* The disk may refuse any write; the requests do not look at the answer.   *)
(* What a refused write leaves is what was there before.                    *)
(***************************************************************************)
EXTENDS Naturals, Sequences

CONSTANTS
  Enterers, Wakers,  \* requests to /dream/enter and /dream/wake that may wait at once
  Overlap,           \* whether a request may begin while another one waits
  RetainMinTurns,    \* RETAIN_MIN_TURNS
  MaxDream,          \* bound: dreams entered
  MaxTurn,           \* bound: turns answered
  MaxFaults,         \* bound: failures of the disk
  MaxCrashes         \* bound: ends of the process

ASSUME DreamAssumption ==
  /\ Overlap \in BOOLEAN
  /\ {RetainMinTurns, MaxTurn, MaxFaults, MaxCrashes} \subseteq Nat
  /\ MaxDream \in Nat \ {0}

Dream == 1..MaxDream
NoDream == 0
Turn == 1..MaxTurn

Idle   == {"REALITY_CHAT", "REALITY_AFTERGLOW"}
Active == {"DREAM_ACTIVE", "DREAM_EXIT_REQUESTED", "DREAM_CLOSING"}

(* dream: dream_id; last: last_dream_id; offered: retention_offered_dream_id; *)
(* local: whether emotional_tension and body_state are there                *)
State == [status: Idle \cup Active, dream: Dream \cup {NoDream}, last: Dream \cup {NoDream},
          offered: Dream \cup {NoDream}, local: BOOLEAN]

Default == [status |-> "REALITY_CHAT", dream |-> NoDream, last |-> NoDream,
            offered |-> NoDream, local |-> FALSE]

(* What a request holds when it does not wait. *)
None == [waiting |-> FALSE]
Waiting(s) == [waiting |-> TRUE, state |-> s]
Chatting(d, exiting) == [waiting |-> TRUE, dream |-> d, exiting |-> exiting]

VARIABLES
  st,        \* dream_state.json
  current,   \* current_dream_<uid>.jsonl: the turns in it
  archive,   \* the files archive/dream_<id>.jsonl that exist
  chat, entering, waking,
  dreams,    \* dream ids given out
  turns,     \* turns answered
  dreamOf,   \* the dream each turn was answered for
  broken,    \* history: turns of which a line was refused
  closes,    \* closes of each dream that reached the state
  sealed,    \* turns in the transcript when a close archived it
  retained,  \* retention lines returned for each dream
  unmarked,  \* history: dreams of which a mark of the offer was refused
  exit,      \* what the hard exit just made did, "none" after any other step
  faults, crashes

diskVars == <<st, current, archive>>
waitVars == <<chat, entering, waking>>
logVars  == <<dreams, turns, dreamOf, broken>>
heldVars == <<retained, unmarked>>
pastVars == <<closes, sealed, heldVars, faults, crashes>>
vars == <<diskVars, waitVars, logVars, pastVars, exit>>

TypeOK ==
  /\ st \in State
  /\ current \in Seq(Turn)
  /\ DOMAIN archive \subseteq Dream /\ \A d \in DOMAIN archive : archive[d] \in Seq(Turn)
  /\ chat \in {None} \cup [waiting : {TRUE}, dream : Dream, exiting : BOOLEAN]
  /\ entering \in [Enterers -> {None} \cup [waiting : {TRUE}, state : State]]
  /\ waking \in [Wakers -> {None} \cup [waiting : {TRUE}, state : State]]
  /\ dreams \in 0..MaxDream
  /\ turns \in 0..MaxTurn
  /\ dreamOf \in [Turn -> Dream \cup {NoDream}]
  /\ closes \in [Dream -> Nat]
  /\ sealed \subseteq Turn /\ broken \subseteq Turn
  /\ retained \in [Dream -> Nat] /\ unmarked \subseteq Dream \cup {NoDream}
  /\ exit \in {"none", "left", "failed", "stuck"}
  /\ faults \in 0..MaxFaults /\ crashes \in 0..MaxCrashes

Init ==
  /\ st = Default
  /\ current = <<>>
  /\ archive = [d \in {} |-> <<>>]
  /\ chat = None
  /\ entering = [e \in Enterers |-> None]
  /\ waking = [w \in Wakers |-> None]
  /\ dreams = 0 /\ turns = 0
  /\ dreamOf = [t \in Turn |-> NoDream]
  /\ closes = [d \in Dream |-> 0]
  /\ sealed = {} /\ broken = {}
  /\ retained = [d \in Dream |-> 0] /\ unmarked = {}
  /\ exit = "none"
  /\ faults = 0 /\ crashes = 0

Quiet == \A r \in {chat} \cup {entering[e] : e \in Enterers} \cup {waking[w] : w \in Wakers} : r = None
MayBegin == Overlap \/ Quiet

-----------------------------------------------------------------------------
(* write_state() over the state old: what is on disk then, and how often    *)
(* the disk failed.  A write that changes nothing is not told from none.    *)
Put(old, new) ==
  {[st |-> new, failed |-> 0]} \cup
  (IF old = new THEN {} ELSE {[st |-> old, failed |-> 1]})

Pays(n) == faults + n <= MaxFaults /\ faults' = faults + n

-----------------------------------------------------------------------------
(* archive_current(): the transcript cur becomes the archive of d. *)

Stored(d, file) == [x \in DOMAIN archive \cup {d} |-> IF x = d THEN file ELSE archive[x]]

(* Mutant: an archive that is there is written over. *)
ArchiveOverwrites(cur, d) ==
  /\ archive' = IF cur = <<>> THEN archive ELSE Stored(d, cur)
  /\ current' = <<>>

ArchiveSucceeds(cur, d) ==
  /\ \/ cur = <<>> /\ UNCHANGED archive
     \/ cur # <<>> /\ d \in DOMAIN archive /\ archive[d] = cur /\ UNCHANGED archive
     \/ cur # <<>> /\ d \notin DOMAIN archive /\ archive' = Stored(d, cur)
  /\ current' = <<>>

ArchiveCollides(cur, d) ==
  /\ cur # <<>> /\ d \in DOMAIN archive /\ archive[d] # cur
  /\ current' = cur
  /\ UNCHANGED archive

(* The disk fails: nothing is written, a part is, or all of it is and the   *)
(* transcript cannot be removed.                                            *)
ArchiveFails(cur, d) ==
  /\ cur # <<>>
  /\ \/ UNCHANGED archive
     \/ d \notin DOMAIN archive /\ \E k \in 0..Len(cur) : archive' = Stored(d, SubSeq(cur, 1, k))
  /\ current' = cur

-----------------------------------------------------------------------------
(* _do_close_dream() and force_exit_dream(): no wait in either. *)

(* Mutant: the closed state is not written. *)
AfterglowNotWritten(s) == s

(* clear_local_state() and the close metadata *)
Afterglow(s) ==
  [s EXCEPT !.status = "REALITY_AFTERGLOW", !.dream = NoDream, !.last = s.dream, !.local = FALSE]

(* Mutant: a failed archive closes the dream all the same. *)
HeldCloses(s) ==
  /\ st' = Afterglow(s)
  /\ closes' = [closes EXCEPT ![s.dream] = @ + 1]
  /\ sealed' = sealed \cup {current'[i] : i \in DOMAIN current'}

(* The archive failed: the state stays as it was. *)
Held(s) ==
  /\ st' = s
  /\ UNCHANGED <<closes, sealed>>

(* s: the state as read; cur: the transcript; d: the dream to close; n: how *)
(* often the disk failed before.  Where the closed state is refused, the    *)
(* transcript is archived and the dream is still on.                        *)
Close(s, cur, d, n) ==
  IF d # s.dream \/ s.status \notin Active
  THEN st' = s /\ current' = cur /\ Pays(n) /\ UNCHANGED <<archive, closes, sealed>>
  ELSE \/ /\ ArchiveSucceeds(cur, d)
          /\ sealed' = sealed \cup {cur[i] : i \in DOMAIN cur}
          /\ \/ st' = Afterglow(s) /\ closes' = [closes EXCEPT ![d] = @ + 1] /\ Pays(n)
             \/ st' = s /\ UNCHANGED closes /\ Pays(n + 1)
       \/ ArchiveCollides(cur, d) /\ Held(s) /\ Pays(n)
       \/ ArchiveFails(cur, d) /\ Held(s) /\ Pays(n + 1)

Closing(s) == [s EXCEPT !.status = "DREAM_CLOSING"]

(* Mutant: only a dream in conversation can be left. *)
ForceExitOnlyActive(s, n) ==
  IF s.status # "DREAM_ACTIVE" \/ s.dream = NoDream
  THEN st' = s /\ Pays(n) /\ UNCHANGED <<current, archive, closes, sealed>>
  ELSE \E p \in Put(s, Closing(s)) : Close(p.st, current, s.dream, n + p.failed)

(* The close reads the state again: DREAM_CLOSING, or what was there where  *)
(* that was refused.                                                        *)
ForceExit(s, n) ==
  IF s.status \notin Active \/ s.dream = NoDream
  THEN st' = s /\ Pays(n) /\ UNCHANGED <<current, archive, closes, sealed>>
  ELSE \E p \in Put(s, Closing(s)) : Close(p.st, current, s.dream, n + p.failed)

(* /dream/exit, and /stop in /dream/chat *)
HardExit ==
  /\ MayBegin
  /\ ForceExit(st, 0)
  /\ exit' = CASE st'.status \in Idle -> "left"
               [] faults' # faults -> "failed"
               [] OTHER -> "stuck"
  /\ UNCHANGED <<waitVars, logVars, heldVars, crashes>>

-----------------------------------------------------------------------------
(* enter_dream(): the barrier, then the snapshot, then the state as it was. *)

(* Mutant: no barrier. *)
EnterWithoutBarrier(e) ==
  /\ MayBegin
  /\ entering[e] = None
  /\ dreams < MaxDream /\ dreams' = dreams + 1
  /\ entering' = [entering EXCEPT ![e] = Waiting([st EXCEPT !.dream = dreams'])]
  /\ exit' = "none"
  /\ UNCHANGED <<diskVars, chat, waking, turns, dreamOf, broken, pastVars>>

EnterBegins(e) ==
  /\ MayBegin
  /\ entering[e] = None
  /\ st.status \in Idle
  /\ dreams < MaxDream /\ dreams' = dreams + 1
  /\ entering' = [entering EXCEPT ![e] = Waiting([st EXCEPT !.dream = dreams'])]
  /\ exit' = "none"
  /\ UNCHANGED <<diskVars, chat, waking, turns, dreamOf, broken, pastVars>>

EnterReturns(e) ==
  /\ entering[e] # None
  /\ st' = [entering[e].state EXCEPT !.status = "DREAM_ACTIVE", !.local = FALSE]
  /\ entering' = [entering EXCEPT ![e] = None]
  /\ exit' = "none"
  /\ UNCHANGED <<current, archive, chat, waking, logVars, pastVars>>

(* The snapshot or the script cannot be built, or the state is not written. *)
EnterFails(e) ==
  /\ entering[e] # None
  /\ entering' = [entering EXCEPT ![e] = None]
  /\ exit' = "none"
  /\ UNCHANGED <<diskVars, chat, waking, logVars, pastVars>>

-----------------------------------------------------------------------------
(* dream_turn(), under the conversation lock. *)

(* Mutant: a state without dream_id is used as it is. *)
NoDreamEnsured == NoDream

(* _ensure_dream_id() *)
EnsuredDream == dreams + 1

(* The turn goes on with the id that was made, whether it was stored or not. *)
ChatBegins(exiting) ==
  /\ MayBegin
  /\ chat = None
  /\ st.status \in Active
  /\ \/ /\ st.dream # NoDream
        /\ chat' = Chatting(st.dream, exiting)
        /\ UNCHANGED <<st, dreams, faults>>
     \/ /\ st.dream = NoDream
        /\ dreams < MaxDream /\ dreams' = dreams + 1
        /\ \E p \in Put(st, [st EXCEPT !.dream = EnsuredDream]) : st' = p.st /\ Pays(p.failed)
        /\ chat' = Chatting(EnsuredDream, exiting)
  /\ exit' = "none"
  /\ UNCHANGED <<current, archive, entering, waking, turns, dreamOf, broken, closes, sealed,
                 heldVars, crashes>>

(* append_turn(), for what was asked and for the reply: where one of the    *)
(* lines is refused, a part of the turn is in the file, or nothing is.      *)
Logs(t) == {[file |-> Append(current, t), failed |-> 0]} \cup
           [file : {Append(current, t), current}, failed : {1}]

(* The reply is logged for the dream the turn began in; the state is read    *)
(* again, patched and written. An accepted exit reads and writes it once    *)
(* more, and closes that dream.                                             *)
ChatReplies(accepted) ==
  /\ chat # None
  /\ accepted => chat.exiting
  /\ turns < MaxTurn /\ turns' = turns + 1
  /\ dreamOf' = [dreamOf EXCEPT ![turns'] = chat.dream]
  /\ \E log \in Logs(turns'), p \in Put(st, [st EXCEPT !.local = TRUE]) :
       /\ broken' = IF log.failed = 0 THEN broken ELSE broken \cup {turns'}
       /\ IF accepted
          THEN \E q \in Put(p.st, Closing(p.st)) :
                 Close(q.st, log.file, chat.dream, log.failed + p.failed + q.failed)
          ELSE /\ st' = p.st /\ current' = log.file /\ Pays(log.failed + p.failed)
               /\ UNCHANGED <<archive, closes, sealed>>
  /\ chat' = None
  /\ exit' = "none"
  /\ UNCHANGED <<entering, waking, dreams, heldVars, crashes>>

ChatFails ==
  /\ chat # None
  /\ chat' = None
  /\ exit' = "none"
  /\ UNCHANGED <<diskVars, entering, waking, logVars, pastVars>>

-----------------------------------------------------------------------------
(* /dream/wake and /dream/resume. The client names the dream it means, and  *)
(* another dream's name is refused.                                         *)

(* _should_retain(): long enough, and the local state is tense enough. *)
MayRetain == st.local /\ Len(current) >= RetainMinTurns

(* No retention: a confirmed wake, a second wake, or nothing to hold on to. *)
WakeExits ==
  /\ MayBegin
  /\ ForceExit(st, 0)
  /\ exit' = "none"
  /\ UNCHANGED <<waitVars, logVars, heldVars, crashes>>

(* Mutant: that retention was offered is not recorded. *)
WakeForgetsOffer(w) ==
  /\ MayBegin
  /\ waking[w] = None
  /\ st.status = "DREAM_ACTIVE" /\ st.offered # st.dream /\ MayRetain
  /\ st' = [st EXCEPT !.status = "DREAM_EXIT_REQUESTED"]
  /\ waking' = [waking EXCEPT ![w] = Waiting(st')]
  /\ exit' = "none"
  /\ UNCHANGED <<current, archive, chat, entering, logVars, pastVars>>

(* The wake goes on with the mark, whether it was stored or not. *)
WakeBegins(w) ==
  /\ MayBegin
  /\ waking[w] = None
  /\ st.status = "DREAM_ACTIVE" /\ st.offered # st.dream /\ MayRetain
  /\ LET marked == [st EXCEPT !.status = "DREAM_EXIT_REQUESTED", !.offered = st.dream]
     IN  /\ waking' = [waking EXCEPT ![w] = Waiting(marked)]
         /\ \/ st' = marked /\ UNCHANGED <<unmarked, faults>>
            \/ UNCHANGED st /\ unmarked' = unmarked \cup {st.dream} /\ Pays(1)
  /\ exit' = "none"
  /\ UNCHANGED <<current, archive, chat, entering, logVars, closes, sealed, retained, crashes>>

(* The line is there: the state of before the wait is written. *)
WakeRetains(w) ==
  /\ waking[w] # None
  /\ \E p \in Put(st, waking[w].state) : st' = p.st /\ Pays(p.failed)
  /\ retained' = [retained EXCEPT ![waking[w].state.dream] = @ + 1]
  /\ waking' = [waking EXCEPT ![w] = None]
  /\ exit' = "none"
  /\ UNCHANGED <<current, archive, chat, entering, logVars, closes, sealed, unmarked, crashes>>

(* No line: it is written too, and the hard exit leaves what is then there. *)
WakeFails(w) ==
  /\ waking[w] # None
  /\ \E p \in Put(st, waking[w].state) : ForceExit(p.st, p.failed)
  /\ waking' = [waking EXCEPT ![w] = None]
  /\ exit' = "none"
  /\ UNCHANGED <<chat, entering, logVars, heldVars, crashes>>

(* Where the write is refused, nothing is changed. *)
Resume ==
  /\ MayBegin
  /\ st.status = "DREAM_EXIT_REQUESTED" /\ st.dream # NoDream
  /\ st' = [st EXCEPT !.status = "DREAM_ACTIVE"]
  /\ exit' = "none"
  /\ UNCHANGED <<current, archive, waitVars, logVars, pastVars>>

-----------------------------------------------------------------------------
(* The process ends: requests are gone, what is on disk stays. *)
Stop ==
  /\ crashes < MaxCrashes /\ crashes' = crashes + 1
  /\ chat' = None
  /\ entering' = [e \in Enterers |-> None]
  /\ waking' = [w \in Wakers |-> None]
  /\ exit' = "none"
  /\ UNCHANGED <<logVars, closes, sealed, heldVars>>

Crash == Stop /\ UNCHANGED <<diskVars, faults>>

(* It ends in safe_write_json(), after the old file became the .bak and     *)
(* before the new one took its place: the default state is read from then on. *)
CrashInWrite ==
  /\ Stop
  /\ Pays(1)
  /\ st' = Default
  /\ UNCHANGED <<current, archive>>

(* It ends in a close, between the archive and the state. *)
CrashInClose ==
  /\ Stop
  /\ st.status \in Active /\ st.dream # NoDream
  /\ ArchiveSucceeds(current, st.dream)
  /\ \E p \in Put(st, Closing(st)) : st' = p.st /\ Pays(1 + p.failed)

Next ==
  \/ HardExit \/ WakeExits \/ Resume
  \/ \E e \in Enterers : EnterBegins(e) \/ EnterReturns(e) \/ EnterFails(e)
  \/ \E b \in BOOLEAN : ChatBegins(b) \/ ChatReplies(b)
  \/ ChatFails
  \/ \E w \in Wakers : WakeBegins(w) \/ WakeRetains(w) \/ WakeFails(w)
  \/ Crash \/ CrashInWrite \/ CrashInClose

Spec == Init /\ [][Next]_vars

-----------------------------------------------------------------------------
In(t, file) == \E i \in DOMAIN file : file[i] = t
Archived(t) == \E d \in DOMAIN archive : In(t, archive[d])

(* No turn is lost but where a line of it was refused when it was said: it  *)
(* is in the current transcript or in an archive, through failed, torn and  *)
(* repeated closes and states that were not written.                        *)
TurnsKept == \A t \in (1..turns) \ broken : In(t, current) \/ Archived(t)

(* A close that archived its transcript has sealed it, whether the closed   *)
(* state was stored or not: every turn of it is archived, and none is in    *)
(* the transcript the next dream begins with.                               *)
CloseSeals == \A t \in sealed : Archived(t) /\ ~In(t, current)

(* A dream holds its dreamer back once at most, unless the mark of an offer *)
(* was refused, a write whose answer is not looked at (dream.py:596).       *)
RetainedOnce == \A d \in Dream \ unmarked : retained[d] <= 1

-----------------------------------------------------------------------------
(* What docs/dream.md, docs/runtime-lifecycle.md and the comments promise.   *)
(* It holds while requests do not overlap.                                  *)

(* The hard exit is unconditional: while the disk has worked, no dream is   *)
(* on after it.                                                             *)
HardExitLeaves == faults = 0 => exit # "stuck"

(* The transcript of a closed dream is not written again.  A dream is       *)
(* closed when its closed state is stored: until then its chat goes on.     *)
ClosedNotWritten ==
  [][current' # current /\ current' # <<>> => closes[dreamOf'[current'[Len(current')]]] = 0]_vars

(* A dream that is on is left, never replaced by another one. *)
DreamNotReplaced == [][st.dream # NoDream /\ st'.dream # st.dream => st'.dream = NoDream]_vars

(* The whole of it: one dream is on at a time, a turn is said in the dream   *)
(* that is on, and a dream is left for good, all that was written of its    *)
(* turns archived at once.                                                  *)
LeftDreams == {d \in Dream : closes[d] # 0}
OpenTurns == {t \in 1..turns : In(t, current)}
KeptTurns == {t \in 1..turns : Archived(t) /\ ~In(t, current)}

Life == INSTANCE DreamLife WITH
  on <- st.dream, over <- LeftDreams, open <- OpenTurns, kept <- KeptTurns, of <- dreamOf

ImplementsDreamLife == Life!Spec
=============================================================================
