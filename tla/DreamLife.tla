------------------------------ MODULE DreamLife ------------------------------
(***************************************************************************)
(* What the solo dream promises its dreamer, whatever its requests, its     *)
(* files and the ends of the process do: one dream is on at a time, what is *)
(* said belongs to the dream that is on, and a dream that is left is left   *)
(* for good, with all that was written of it kept at once.                  *)
(***************************************************************************)
CONSTANTS
  Dream,    \* dream ids
  NoDream,  \* none of them
  Turn      \* what is said, turn by turn

VARIABLES
  on,    \* the dream that is on
  over,  \* the dreams that were left
  open,  \* the turns written that the next leaving will keep
  kept,  \* the turns that are kept
  of     \* the dream each turn was said in

vars == <<on, over, open, kept, of>>

Init ==
  /\ on = NoDream /\ over = {}
  /\ open = {} /\ kept = {}
  /\ of = [t \in Turn |-> NoDream]

Begin(d) ==
  /\ on = NoDream /\ d \notin over
  /\ on' = d
  /\ UNCHANGED <<over, open, kept, of>>

(* A turn is said once, in the dream that is on. *)
Said(t) ==
  /\ on # NoDream /\ of[t] = NoDream
  /\ of' = [of EXCEPT ![t] = on]

-----------------------------------------------------------------------------
(* What becomes of the dream; new: what is written of what was just said,   *)
(* the turn or nothing.                                                     *)

Stay(new) ==
  /\ open' = open \cup new
  /\ UNCHANGED <<on, over, kept>>

(* All that was written is kept, and nothing stays open. *)
KeepAll(new) == kept' = kept \cup open \cup new /\ open' = {}

(* The dream's turns are kept before it is left. *)
Keep(new) ==
  /\ on # NoDream
  /\ KeepAll(new)
  /\ UNCHANGED <<on, over>>

Leave(new) ==
  /\ on # NoDream
  /\ KeepAll(new)
  /\ on' = NoDream /\ over' = over \cup {on}

GoesOn(new) == Stay(new) \/ Keep(new) \/ Leave(new)

(* The dream is gone, and not left: what was said stays open. *)
Forget ==
  /\ on # NoDream /\ on' = NoDream
  /\ UNCHANGED <<over, open, kept, of>>

Next ==
  \/ \E d \in Dream : Begin(d)
  \/ GoesOn({}) /\ UNCHANGED of
  \/ \E t \in Turn : Said(t) /\ \E new \in SUBSET {t} : GoesOn(new)
  \/ Forget

Spec == Init /\ [][Next]_vars
=============================================================================
