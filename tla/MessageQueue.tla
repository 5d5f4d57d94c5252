---------------------------- MODULE MessageQueue ----------------------------
(***************************************************************************)
(* core/message_queue.py with main.handle_message() over SlowQueue: the     *)
(* messages that QQ delivers.  Each session, a private chat or a group, has *)
(* a queue and a task that handles its messages one after the other and     *)
(* ends when the queue is empty; the next message starts a new one.  A      *)
(* private message is a reality turn: under the conversation lock of its    *)
(* user the model answers and the turn is recorded, and a task that nobody  *)
(* waits for takes the turn to the slow queue.  A group is answered under a *)
(* lock of its own and leaves no memory.                                    *)
(*                                                                         *)
(* A handler gives the event loop away while it looks at media, waits for   *)
(* the lock, asks models, records and sends.  Messages have the number of   *)
(* their arrival; the payload of a turn's slow tasks is its message.  What  *)
(* the owner's clocks make of a message is in AutonomyTick, what recording  *)
(* does and may fail in MemoryChain.                                        *)
(***************************************************************************)
EXTENDS SlowQueue

CONSTANTS
  Session,     \* session keys
  Private,     \* those of private chats, whose key is also that of the lock
  MaxMessage,  \* bound: messages that arrive
  NoSession

Message == 1..MaxMessage

ASSUME MessageAssumption ==
  /\ MaxMessage \in Nat
  /\ Private \subseteq Session /\ NoSession \notin Session
  /\ Message \subseteq Task

VARIABLES
  queues,     \* _queues
  created,    \* tasks of a session that were created and have not run yet
  at,         \* where each message is; the tasks that run are those of their messages
  key,        \* the session of each message that arrived
  elsewhere,  \* the conversation locks that turns of other entrances hold
  stage,      \* post_process_slow() of each turn
  said        \* history: the turns in the order in which they were recorded

slowVars == vars
messageVars == <<queues, created, at, key, elsewhere, stage, said>>
allVars == <<slowVars, messageVars>>

Handling == {"entering", "waiting", "talking", "sending"}
Gone == {"over", "cancelled"}

MessageTypeOK ==
  /\ TypeOK
  /\ queues \in [Session -> Seq(Message)]
  /\ created \in [Session -> Nat]
  /\ at \in [Message -> {"away", "queued"} \cup Handling \cup Gone]
  /\ key \in [Message -> Session \cup {NoSession}]
  /\ elsewhere \subseteq Private
  /\ stage \in [Message -> {"none", "feeling", "handed"}]
  /\ said \in Seq(Message)

MessageInit ==
  /\ Init
  /\ queues = [s \in Session |-> <<>>]
  /\ created = [s \in Session |-> 0]
  /\ at = [m \in Message |-> "away"]
  /\ key = [m \in Message |-> NoSession]
  /\ elsewhere = {}
  /\ stage = [m \in Message |-> "none"]
  /\ said = <<>>

-----------------------------------------------------------------------------
(* The queue of a session and its task *)

Of(s, places) == {m \in Message : key[m] = s /\ at[m] \in places}

(* not _tasks[key].done() *)
Live(s) == created[s] > 0 \/ Of(s, Handling) # {}

(* Mutants of Wanted: a session that ever had a task is taken to have one;  *)
(* every message brings a task.                                             *)
WantedOnce(s) == Of(s, Handling \cup Gone) = {} /\ created[s] = 0
WantedAlways(s) == TRUE

(* A message that arrives must start a task. *)
Wanted(s) == ~Live(s)

(* The connection is cancelled before the shutdown of the slow queue. *)
Arrives(m, s) ==
  /\ phase = "up"
  /\ at[m] = "away" /\ \A n \in Message : n < m => at[n] # "away"
  /\ queues' = [queues EXCEPT ![s] = Append(@, m)]
  /\ at' = [at EXCEPT ![m] = "queued"]
  /\ key' = [key EXCEPT ![m] = s]
  /\ created' = IF Wanted(s) THEN [created EXCEPT ![s] = @ + 1] ELSE created
  /\ UNCHANGED <<slowVars, elsewhere, stage, said>>

(* The head of the loop in _process_session(): the next message, or the end *)
(* of the task.  Neither empty() nor get() on a queue with messages waits.  *)
Loop(s, places) ==
  \/ /\ queues[s] = <<>>
     /\ at' = places
     /\ UNCHANGED queues
  \/ /\ queues[s] # <<>>
     /\ at' = [places EXCEPT ![Head(queues[s])] = "entering"]
     /\ queues' = [queues EXCEPT ![s] = Tail(@)]

Starts(s) ==
  /\ phase # "down" /\ created[s] > 0
  /\ created' = [created EXCEPT ![s] = @ - 1]
  /\ Loop(s, at)
  /\ UNCHANGED <<slowVars, key, elsewhere, stage, said>>

-----------------------------------------------------------------------------
(* A handler *)

In(m, place) == phase # "down" /\ at[m] = place

Ends(m) ==
  /\ Loop(key[m], [at EXCEPT ![m] = "over"])
  /\ UNCHANGED <<slowVars, created, key, elsewhere, stage, said>>

Goes(m, from, to) == In(m, from) /\ at' = [at EXCEPT ![m] = to]

(* The dream guard, an unreadable character or event context; before the    *)
(* answer: a question of the tools to the user, an exception, an empty      *)
(* answer.  An exception ends the message, not the task.                    *)
Leaves(m) == (In(m, "entering") \/ In(m, "talking")) /\ Ends(m)

(* Those who wait for an asyncio.Lock get it in their order. *)
WaitsForLock(m) ==
  /\ Goes(m, "entering", "waiting")
  /\ UNCHANGED <<slowVars, queues, created, key, elsewhere, stage, said>>

Held(s) == s \in elsewhere \/ Of(s, {"talking", "sending"}) # {}

TakesLock(m) ==
  /\ Goes(m, "waiting", "talking") /\ ~Held(key[m])
  /\ UNCHANGED <<slowVars, queues, created, key, elsewhere, stage, said>>

(* The order of the adapter is memory first, then the visible reply, which  *)
(* is sent also when recording raised.                                      *)
Records(m) ==
  /\ Goes(m, "talking", "sending") /\ key[m] \in Private
  /\ said' = Append(said, m)
  /\ stage' = [stage EXCEPT ![m] = "feeling"]
  /\ UNCHANGED <<slowVars, queues, created, key, elsewhere>>

Unrecorded(m) ==
  /\ Goes(m, "talking", "sending")
  /\ UNCHANGED <<slowVars, queues, created, key, elsewhere, stage, said>>

Sent(m) == In(m, "sending") /\ Ends(m)

(* A BaseException passes through the handler and its locks and ends the    *)
(* task, which takes no other message.                                      *)
Cancelled(m) ==
  /\ \E place \in Handling : Goes(m, place, "cancelled")
  /\ UNCHANGED <<slowVars, queues, created, key, elsewhere, stage, said>>

(* Turns of the desktop, of the phone and of the scheduler. *)
ElsewhereBegins(s) ==
  /\ phase # "down" /\ s \in Private
  /\ ~Held(s) /\ Of(s, {"waiting"}) = {}
  /\ elsewhere' = elsewhere \cup {s}
  /\ UNCHANGED <<slowVars, queues, created, at, key, stage, said>>

ElsewhereEnds(s) ==
  /\ phase # "down" /\ s \in elsewhere
  /\ elsewhere' = elsewhere \ {s}
  /\ UNCHANGED <<slowVars, queues, created, at, key, stage, said>>

-----------------------------------------------------------------------------
(* The slow part of a turn *)

(* When the emotion is known and the user's lock was had: the tasks of the  *)
(* turn, from the summary on, are put in one step and count as one.         *)
HandsOver(m) ==
  /\ stage[m] = "feeling"
  /\ Enqueue(m)
  /\ stage' = [stage EXCEPT ![m] = "handed"]
  /\ UNCHANGED <<queues, created, at, key, elsewhere, said>>

(* The slow queue by itself, with the tasks of its other producers. *)
SlowStep ==
  /\ \/ StartWorker \/ WorkerStep
     \/ \E t \in Task \ Message : Enqueue(t)
     \/ BeginShutdown \/ DrainCompletes \/ DrainTimesOut
  /\ UNCHANGED messageVars

HandlerStep(m) ==
  \/ Leaves(m) \/ WaitsForLock(m) \/ TakesLock(m)
  \/ Records(m) \/ Unrecorded(m) \/ Sent(m)

MessageNext ==
  \/ SlowStep
  \/ \E m \in Message :
       HandlerStep(m) \/ Cancelled(m) \/ HandsOver(m) \/ \E s \in Session : Arrives(m, s)
  \/ \E s \in Session : Starts(s) \/ ElsewhereBegins(s) \/ ElsewhereEnds(s)

MessageSpec == MessageInit /\ [][MessageNext]_allVars

(* The event loop runs the tasks that are ready; models, media and sockets  *)
(* answer or time out.  That a worker is started at all is main()'s work.   *)
FairMessageSpec ==
  /\ MessageSpec
  /\ WF_allVars((StartWorker \/ WorkerStep) /\ UNCHANGED messageVars)
  /\ \A m \in Message : WF_allVars(HandlerStep(m)) /\ WF_allVars(HandsOver(m))
  /\ (\A s \in Session : WF_allVars(Starts(s))) /\ \A s \in Private : WF_allVars(ElsewhereEnds(s))

-----------------------------------------------------------------------------
(* The turns of a session are recorded in the order in which its messages   *)
(* arrived, however tasks end and are started again.                        *)
ConversationOrder ==
  \A i, j \in DOMAIN said :
    i < j /\ key[said[i]] = key[said[j]] => said[i] < said[j]

(* A message is over, and its turn out of the slow queue. *)
Settled(m) == at[m] \in Gone /\ (stage[m] = "none" \/ outcome[m] # "open")

Stranded(m) == at[m] = "queued" /\ ~Live(key[m])

(* A message that arrived is answered and its turn has left the slow queue, *)
(* unless the process shuts down or a dead letter that cannot be written    *)
(* has ended the worker; or it waits for good behind a handler that was     *)
(* cancelled, because no other message of its session comes.                *)
EveryMessageEnds ==
  \A m \in Message :
    at[m] = "queued" ~> \/ Settled(m) \/ phase # "up" \/ (\E t \in Task : outcome[t] = "lost")
                        \/ /\ \E n \in 1..m : key[n] = key[m] /\ at[n] = "cancelled"
                           /\ []Stranded(m)
=============================================================================
