---------------------------- MODULE JobLifecycle ----------------------------
(***************************************************************************)
(* What the autonomy store promises its callers about one durable job,      *)
(* whatever the callers, the leases and the clock do: a job is decided by    *)
(* the last caller it was handed to and by no other, and a concluded job     *)
(* never comes back.  The store's operations touch several jobs at once      *)
(* (claim_due() settles every lapsed lease it passes), so a step moves any   *)
(* number of jobs, each along one edge of the life of a job.                 *)
(***************************************************************************)
CONSTANTS
  Job,      \* job ids
  Token,    \* lease tokens: who holds a job
  NoToken   \* a job nobody holds

VARIABLES
  state,    \* where each job is in its life
  holder    \* the token that may decide it

vars == <<state, holder>>

State == {"absent", "waiting", "running", "expired", "concluded", "forgotten"}

Undecided == {"waiting", "running", "expired"}

Init ==
  /\ state = [j \in Job |-> "absent"]
  /\ holder = [j \in Job |-> NoToken]

Keep(j) == state'[j] = state[j] /\ holder'[j] = holder[j]

Submit(j) ==
  /\ state[j] = "absent"
  /\ state'[j] = "waiting"
  /\ holder'[j] = NoToken

(* A job kept for the record only: it was over before it began. *)
Archive(j) ==
  /\ state[j] = "absent"
  /\ state'[j] = "expired"
  /\ holder'[j] = NoToken

(* Handed to a new holder: the job waits, or its holder's lease lapsed. *)
Take(j) ==
  /\ state[j] \in {"waiting", "running"}
  /\ state'[j] = "running"
  /\ holder'[j] \in Token \ {holder[j]}

(* The lease ran out: the job waits again, and until somebody else takes it *)
(* its last holder may still decide it.                                     *)
Lapse(j) ==
  /\ state[j] = "running"
  /\ state'[j] = "waiting"
  /\ holder'[j] = holder[j]

(* The job's time to live ran out. A holder that comes back late is still   *)
(* the last one the job was handed to.                                      *)
Expire(j) ==
  /\ state[j] \in {"waiting", "running"}
  /\ state'[j] = "expired"
  /\ holder'[j] = holder[j]

GiveBack(j) ==
  /\ state[j] \in Undecided
  /\ holder[j] # NoToken
  /\ state'[j] = "waiting"
  /\ holder'[j] = NoToken

Conclude(j) ==
  /\ state[j] \in Undecided
  /\ holder[j] # NoToken
  /\ state'[j] = "concluded"
  /\ holder'[j] = NoToken

(* The store keeps a bounded number of jobs. *)
Forget(j) ==
  /\ state[j] \in State \ {"absent", "forgotten"}
  /\ state'[j] = "forgotten"
  /\ holder'[j] = NoToken

Next ==
  \A j \in Job :
    \/ Keep(j) \/ Submit(j) \/ Archive(j) \/ Take(j) \/ Lapse(j) \/ Expire(j)
    \/ GiveBack(j) \/ Conclude(j) \/ Forget(j)

Spec == Init /\ [][Next]_vars
=============================================================================
