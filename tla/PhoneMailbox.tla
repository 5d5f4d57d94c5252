---------------------------- MODULE PhoneMailbox ----------------------------
(***************************************************************************)
(* What the mobile channel promises its phone, whatever the numbers, the    *)
(* cursor, the files and the answers on their way are: messages stand in a  *)
(* line in the order they were sent, and the phone stores them from the     *)
(* oldest on.  One that leaves the line otherwise is lost and never back in *)
(* it, for a reason the promise does not name: the limit, the age, a file   *)
(* that was not read or not written.  The promise ends when the order of    *)
(* the line is given up.                                                    *)
(***************************************************************************)
EXTENDS Naturals

CONSTANT Msg  \* messages

VARIABLES
  waiting,  \* the messages in line, each with the number of its place
  stored,   \* the messages on the phone
  lost,     \* those lost, the phone may hold some of them
  ordered   \* whether the order is still kept

vars == <<waiting, stored, lost, ordered>>

Ids(S) == {x.id : x \in S}

Init == waiting = {} /\ stored = {} /\ lost = {} /\ ordered = TRUE

New(m) == m \notin Ids(waiting) \cup stored \cup lost

(* Those in S leave the line; of those stored, some may count as lost too.  *)
Losing(S) ==
  /\ lost \cup Ids(S) \subseteq lost'
  /\ lost' \subseteq lost \cup Ids(S) \cup stored

(* A message joins the line as the last one. *)
Take(m) ==
  /\ New(m)
  /\ \E S \in SUBSET waiting : \E x \in waiting' :
       /\ x.id = m /\ \A y \in waiting \ S : y.seq < x.seq
       /\ waiting' = (waiting \ S) \cup {x}
       /\ Losing(S)
  /\ UNCHANGED stored

Refuse(m) ==
  /\ New(m)
  /\ lost' = lost \cup {m}
  /\ UNCHANGED <<waiting, stored>>

Lose ==
  /\ \E S \in SUBSET waiting : waiting' = waiting \ S /\ Losing(S)
  /\ UNCHANGED stored

(* The phone stores the oldest of the line, and perhaps some that were lost *)
(* after it had asked for them.                                             *)
Store ==
  /\ \E S \in SUBSET waiting, late \in SUBSET lost :
       /\ \A x \in S, y \in waiting \ S : x.seq < y.seq
       /\ waiting' = waiting \ S
       /\ stored' = stored \cup Ids(S) \cup late
  /\ UNCHANGED lost

Kept ==
  \/ \E m \in Msg : Take(m) \/ Refuse(m)
  \/ Lose \/ Store

Next ==
  \/ Kept /\ UNCHANGED ordered
  \/ ordered' = FALSE

Spec == Init /\ [][Next]_vars
=============================================================================
