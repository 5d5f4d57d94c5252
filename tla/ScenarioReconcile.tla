-------------------------- MODULE ScenarioReconcile --------------------------
(***************************************************************************)
(* core/dream/scenario_reconciler.py over DreamSession: a scenario is a     *)
(* dream with stages.  The reply of a turn may move the stage to the next   *)
(* one by its control block; a turn that did not may have a model asked,    *)
(* after its answer was sent and without any lock, whether the stage is     *)
(* over.  The verdict is written only if the version of the state is still  *)
(* the one the turn wrote.                                                  *)
(*                                                                         *)
(* What the script says is gone; a stage is its place in it.  A control     *)
(* block names exit signs by their place in the list of a stage ("E1"), so  *)
(* one that is valid for one stage is valid for any.  A step of DreamSession *)
(* that writes the state several times counts as one write here: all that   *)
(* is ever asked of a version is whether it is still the same.  The disk    *)
(* fails here only where the process ends in a write or in a close: what an *)
(* archive or a refused write does is DreamSession's subject.               *)
(***************************************************************************)
EXTENDS DreamSession, FiniteSets

CONSTANTS
  MaxStage,     \* stages of the script
  Concurrent,   \* reconciler_max_concurrency
  MaxVersion    \* bound: writes of the state

ASSUME ScenarioAssumption ==
  MaxStage \in Nat \ {0} /\ Concurrent \in Nat \ {0} /\ MaxVersion \in Nat

VARIABLES
  version,    \* state_version
  core,       \* the stage in scenario_core, 0 without one, and last_assistant_turn_id
  copy,       \* core in the state that a waiting wake carries
  prompted,   \* the stage the prompt of the waiting turn was built for
  asked,      \* requests to the reconciler: turn, dream, from (stage), version, pc
  moved       \* history: the turns that moved a stage

Stage == 1..MaxStage
NoStage == 0
NoTurn == 0
NoCore == [stage |-> NoStage, turn |-> NoTurn]
scenarioVars == <<version, core, copy, prompted, asked, moved>>
turnVars == <<prompted, asked, moved>>

ScenarioInit ==
  /\ Init
  /\ version = 0 /\ core = NoCore
  /\ copy = [w \in Wakers |-> NoCore]
  /\ prompted = NoStage /\ asked = {} /\ moved = {}

(* write_state(): the number grows with every write. *)
Written == version < MaxVersion /\ version' = version + 1

(* clear_local_state() takes the scenario away when the dream is closed. *)
Remains(c) == core' = IF st'.status \in Idle THEN NoCore ELSE c

-----------------------------------------------------------------------------
(* The requests of DreamSession, and what they do to the scenario *)

(* force_exit_dream() writes but where no dream was ever left. *)
Leaves ==
  /\ HardExit \/ WakeExits
  /\ IF st = Default THEN UNCHANGED version ELSE Written
  /\ Remains(core)
  /\ UNCHANGED <<copy, turnVars>>

Enters(e) ==
  \/ (EnterBegins(e) \/ EnterFails(e)) /\ UNCHANGED scenarioVars
  \/ /\ EnterReturns(e)
     /\ Written
     /\ \E stage \in {NoStage, 1} : core' = [stage |-> stage, turn |-> NoTurn]
     /\ UNCHANGED <<copy, turnVars>>

Wakes(w) ==
  \/ /\ WakeBegins(w)
     /\ Written /\ copy' = [copy EXCEPT ![w] = core]
     /\ UNCHANGED <<core, turnVars>>
  \/ /\ WakeRetains(w) \/ WakeFails(w)
     /\ Written /\ Remains(copy[w])
     /\ UNCHANGED <<copy, turnVars>>

Resumes ==
  /\ Resume
  /\ Written
  /\ UNCHANGED <<core, copy, turnVars>>

(* The requests to the reconciler end with the process. *)
Stops ==
  /\ \/ Crash /\ UNCHANGED <<version, core>>
     \/ CrashInWrite /\ version' = 0 /\ core' = NoCore
     \/ /\ CrashInClose
        /\ IF st' = st THEN UNCHANGED version ELSE Written
        /\ UNCHANGED core
  /\ asked' = {} /\ prompted' = NoStage
  /\ UNCHANGED <<copy, moved>>

-----------------------------------------------------------------------------
(* A turn *)

Asks(exiting) ==
  /\ ChatBegins(exiting)
  /\ IF st' = st THEN UNCHANGED version ELSE Written
  /\ prompted' = core.stage
  /\ UNCHANGED <<core, copy, asked, moved>>

(* _adjudicate_scenario_progress(): an exit sign was named, there is a next *)
(* stage, and the tension is where the script wants it.  That the last       *)
(* stage is completed is left out.                                          *)
MayMove == prompted # NoStage /\ core.stage \in 1..(MaxStage - 1)

(* The state is read again after the wait, and its stage is the one that is  *)
(* judged.  A turn that did not move it may ask, for the last of four       *)
(* reasons (no control block, an invalid one, a stalled stage, no hit).     *)
Answers(accepted) ==
  /\ ChatReplies(accepted)
  /\ Written
  /\ \E moves, asks \in BOOLEAN :
       LET s == core.stage
           answered == [stage |-> IF moves THEN s + 1 ELSE s,
                        turn |-> IF s = NoStage THEN core.turn ELSE turns']
       IN /\ moves => MayMove
          /\ asks => ~moves /\ ~accepted /\ s \in 1..(MaxStage - 1)
          /\ Remains(answered)
          /\ moved' = IF moves THEN moved \cup {turns'} ELSE moved
          /\ asked' = IF asks
                      THEN asked \cup {[turn |-> turns', dream |-> chat.dream, from |-> s,
                                        version |-> version', pc |-> "waiting"]}
                      ELSE asked
  /\ prompted' = NoStage
  /\ UNCHANGED copy

Breaks ==
  /\ ChatFails
  /\ prompted' = NoStage
  /\ UNCHANGED <<version, core, copy, asked, moved>>

-----------------------------------------------------------------------------
(* The reconciler *)

Fresh(r) ==
  /\ st.status = "DREAM_ACTIVE" /\ st.dream = r.dream
  /\ core = [stage |-> r.from, turn |-> r.turn]
  /\ version = r.version

VerdictSought(r) ==
  /\ r.pc = "waiting" /\ Fresh(r)
  /\ Cardinality({o \in asked : o.pc = "llm"}) < Concurrent
  /\ asked' = (asked \ {r}) \cup {[r EXCEPT !.pc = "llm"]}
  /\ exit' = "none"
  /\ UNCHANGED <<diskVars, waitVars, logVars, pastVars, version, core, copy, prompted, moved>>

(* Not scheduled, stale before the wait or after it, too late, failed, or   *)
(* the stage stays: all that is kept is a line of the audit.                *)
VerdictNone(r) ==
  /\ asked' = asked \ {r}
  /\ exit' = "none"
  /\ UNCHANGED <<diskVars, waitVars, logVars, pastVars, version, core, copy, prompted, moved>>

(* Mutant of Unchanged: it is asked whether the dream is still on. *)
UnchangedDream(r) == st.dream = r.dream

(* write_state_if_version() *)
Unchanged(r) == version = r.version

VerdictApplied(r) ==
  /\ r.pc = "llm" /\ core.stage # NoStage
  /\ Unchanged(r) /\ Written
  /\ core' = [core EXCEPT !.stage = r.from + 1]
  /\ moved' = moved \cup {r.turn}
  /\ asked' = asked \ {r}
  /\ exit' = "none"
  /\ UNCHANGED <<diskVars, waitVars, logVars, pastVars, copy, prompted>>

ScenarioNext ==
  \/ Stops
  \/ /\ UNCHANGED faults
     /\ \/ Leaves \/ Resumes \/ Breaks
        \/ \E e \in Enterers : Enters(e)
        \/ \E w \in Wakers : Wakes(w)
        \/ \E b \in BOOLEAN : Asks(b) \/ Answers(b)
        \/ \E r \in asked : VerdictSought(r) \/ VerdictNone(r) \/ VerdictApplied(r)

ScenarioSpec == ScenarioInit /\ [][ScenarioNext]_<<vars, scenarioVars>>

-----------------------------------------------------------------------------
(* A stage moved within the dream that is on. *)
Moves == st.dream # NoDream /\ st'.dream = st.dream /\ core'.stage # core.stage

(* A turn moves the stage of its own dream, to the next one and once at     *)
(* most, by its control block or by a verdict, and no later turn has been   *)
(* answered by then: "at most one stage; results that are stale, or of a    *)
(* dream that was left or entered again, do not change the new state"       *)
(* (docs/dream.md:208).                                                     *)
OneStagePerTurn ==
  [][Moves => /\ core'.stage = core.stage + 1
              /\ moved' \ moved = {turns'} /\ dreamOf'[turns'] = st.dream]_<<vars, scenarioVars>>

(* An exit sign counts for the stage it was named in: "E/B ids are valid in *)
(* the current stage only; unknown ids and ids across stages do not move    *)
(* it" (docs/dream.md:260).                                                 *)
SignsOfTheStage ==
  [][Moves /\ chat # None /\ chat' = None => prompted = core.stage]_<<vars, scenarioVars>>
=============================================================================
