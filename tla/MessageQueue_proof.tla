------------------------- MODULE MessageQueue_proof -------------------------
(***************************************************************************)
(* Proofs about the slow queue, for every set of tasks and every retry      *)
(* bound, and about the message queue over it, for every set of sessions    *)
(* and every number of messages.                                            *)
(***************************************************************************)
EXTENDS MessageQueue, SequenceTheorems, TLAPS

(* The worker holds a task exactly while it is in a handler or in a backoff *)
(* sleep, and the counter join() waits on covers what is queued or in hand. *)
HandHeld == hand # NoTask <=> worker \in {"handler", "backoff"}

CounterCovers == unfinished >= Len(queue) + Len(InHand)

(* A backoff sleep is only entered when another attempt is left. *)
RetryLeft == worker = "backoff" => attempt < MaxRetries

IInv == TypeOK /\ HandHeld /\ CounterCovers /\ RetryLeft /\ FifoConservation

(* Taking the head of a queue to the end of what has ended leaves the whole *)
(* as it was.                                                               *)
LEMMA MoveHead ==
  ASSUME NEW S, NEW e \in Seq(S), NEW q \in Seq(S), q # <<>>
  PROVE  /\ Head(q) \in S
         /\ Tail(q) \in Seq(S)
         /\ Len(Tail(q)) = Len(q) - 1
         /\ e \o <<>> \o q = e \o <<Head(q)>> \o Tail(q)
         /\ e \o <<>> \o q = Append(e, Head(q)) \o <<>> \o Tail(q)
<1>1. Head(q) \in S /\ Tail(q) \in Seq(S) /\ Len(Tail(q)) = Len(q) - 1
  BY HeadTailProperties
<1>2. q = <<Head(q)>> \o Tail(q)
  BY <1>1, HeadTailProperties, ConcatProperties
<1>3. e \o <<>> = e /\ <<Head(q)>> \in Seq(S)
  BY <1>1
<1>4. (e \o <<Head(q)>>) \o Tail(q) = e \o q
  BY <1>1, <1>2, <1>3, ConcatAssociative
<1>5. Append(e, Head(q)) = e \o <<Head(q)>>
  BY <1>1
<1>6. Append(e, Head(q)) \o <<>> = Append(e, Head(q))
  BY <1>1
<1>7. QED
  BY <1>1, <1>3, <1>4, <1>5, <1>6

(* Ending the task in hand moves it from the hand to what has ended.        *)
LEMMA EndInHand ==
  ASSUME NEW S, NEW e \in Seq(S), NEW h \in S
  PROVE  Append(e, h) \o <<>> = e \o <<h>>
  OBVIOUS

(* A task accepted at the tail of the queue is accepted after all others.   *)
LEMMA AppendAtEnd ==
  ASSUME NEW S, NEW e \in Seq(S), NEW i \in Seq(S), NEW q \in Seq(S), NEW t \in S
  PROVE  e \o i \o Append(q, t) = Append(e \o i \o q, t)
<1> DEFINE p == e \o i
<1>1. p \in Seq(S) /\ p \o q \in Seq(S) /\ <<t>> \in Seq(S)
  BY ConcatProperties
<1>2. Append(q, t) = q \o <<t>>
  BY AppendIsConcat
<1>3. Append(p \o q, t) = (p \o q) \o <<t>>
  BY <1>1, AppendIsConcat
<1> HIDE DEF p
<1>4. p \o (q \o <<t>>) = (p \o q) \o <<t>>
  BY <1>1, ConcatAssociative
<1>5. Append(p \o q, t) = p \o Append(q, t)
  BY <1>2, <1>3, <1>4
<1>6. QED
  BY <1>5 DEF p

LEMMA InitInv == Init => IInv
<1> SUFFICES ASSUME Init PROVE IInv
  OBVIOUS
<1> USE TaskAssumption DEF Init, InHand
<1>1. TypeOK
  BY DEF TypeOK, Outcome, WorkerState, Phase
<1>2. HandHeld /\ CounterCovers /\ RetryLeft /\ FifoConservation
  BY DEF HandHeld, CounterCovers, RetryLeft, FifoConservation
<1>3. QED
  BY <1>1, <1>2 DEF IInv

LEMMA StepInv == IInv /\ [Next]_vars => IInv'
<1> SUFFICES ASSUME IInv, [Next]_vars
             PROVE  IInv'
  OBVIOUS
<1>0. \A e, i, q \in Seq(Task) : \A t \in Task :
        e \o i \o Append(q, t) = Append(e \o i \o q, t)
  BY AppendAtEnd
<1> USE TaskAssumption DEF IInv, RetryLeft, TypeOK, Outcome, WorkerState, Phase,
        HandHeld, CounterCovers, FifoConservation, InHand
<1>1. CASE StartWorker
  BY <1>1 DEF StartWorker
<1>2. ASSUME NEW t \in Task, Enqueue(t)
      PROVE  IInv'
  <2>1. InHand \in Seq(Task) /\ InHand' = InHand
    BY <1>2 DEF Enqueue
  <2>2. ended \o InHand \o Append(queue, t) = Append(ended \o InHand \o queue, t)
    <3> HIDE DEF InHand
    <3>1. QED
      BY <1>0, <2>1
  <2>3. TypeOK' /\ HandHeld' /\ CounterCovers' /\ RetryLeft'
    BY <1>2 DEF Enqueue
  <2>4. FifoConservation'
    BY <1>2, <2>1, <2>2 DEF Enqueue
  <2>5. QED
    BY <2>3, <2>4
<1>3. CASE TakeUnhandled
  <2>1. hand = NoTask
    BY <1>3 DEF TakeUnhandled
  <2>2. /\ Head(queue) \in Task /\ Tail(queue) \in Seq(Task)
        /\ Len(Tail(queue)) = Len(queue) - 1 /\ Len(queue) \in Nat
        /\ ended \o <<>> \o queue = Append(ended, Head(queue)) \o <<>> \o Tail(queue)
    <3>1. queue \in Seq(Task) /\ queue # <<>> /\ ended \in Seq(Task) /\ Len(queue) \in Nat
      BY <1>3 DEF TakeUnhandled
    <3> HIDE DEF IInv, RetryLeft, TypeOK, Outcome, WorkerState, Phase,
          HandHeld, CounterCovers, FifoConservation, InHand
    <3> QED BY <3>1, MoveHead
  <2>3. unfinished - 1 \in Nat /\ unfinished - 1 >= Len(Tail(queue))
    BY <2>1, <2>2, LenProperties
  <2>4. TypeOK'
    BY <1>3, <2>2, <2>3 DEF TakeUnhandled, EndWith
  <2>5. HandHeld' /\ CounterCovers' /\ RetryLeft'
    BY <1>3, <2>2, <2>3 DEF TakeUnhandled, EndWith
  <2>6. FifoConservation'
    BY <1>3, <2>1, <2>2 DEF TakeUnhandled, EndWith
  <2>7. QED
    BY <2>4, <2>5, <2>6
<1>4. CASE TakeHandled
  <2>1. hand = NoTask
    BY <1>4 DEF TakeHandled
  <2>2. /\ Head(queue) \in Task /\ Tail(queue) \in Seq(Task)
        /\ Len(Tail(queue)) = Len(queue) - 1
        /\ ended \o <<>> \o queue = ended \o <<Head(queue)>> \o Tail(queue)
    <3>1. queue \in Seq(Task) /\ queue # <<>> /\ ended \in Seq(Task) /\ Len(queue) \in Nat
      BY <1>4 DEF TakeHandled
    <3> HIDE DEF IInv, RetryLeft, TypeOK, Outcome, WorkerState, Phase,
          HandHeld, CounterCovers, FifoConservation, InHand
    <3> QED BY <3>1, MoveHead
  <2>3. TypeOK' /\ HandHeld' /\ RetryLeft'
    BY <1>4, <2>2 DEF TakeHandled
  <2>4. CounterCovers'
    BY <1>4, <2>1, <2>2 DEF TakeHandled
  <2>5. FifoConservation'
    BY <1>4, <2>1, <2>2 DEF TakeHandled
  <2>6. QED
    BY <2>3, <2>4, <2>5
<1>5. ASSUME NEW how \in Outcome, worker = "handler", EndWith(hand, how),
             UNCHANGED <<queue, attempt, phase, accepted>>
      PROVE  IInv'
  <2>1. hand \in Task /\ hand # NoTask
    BY <1>5
  <2>2. unfinished - 1 \in Nat /\ unfinished - 1 >= Len(queue)
    BY <2>1
  <2>3. Append(ended, hand) \o <<>> = ended \o <<hand>>
    BY <2>1, EndInHand
  <2>4. TypeOK' /\ HandHeld' /\ CounterCovers' /\ RetryLeft'
    BY <1>5, <2>1, <2>2 DEF EndWith
  <2>5. FifoConservation'
    BY <1>5, <2>1, <2>3 DEF EndWith
  <2>6. QED
    BY <2>4, <2>5
<1>6. CASE HandlerReturns \/ HandlerRaisesLast
  BY <1>5, <1>6 DEF HandlerReturns, HandlerRaisesLast
<1>7. CASE HandlerRaises
  BY <1>7 DEF HandlerRaises
<1>8. CASE BackoffElapses
  BY <1>8 DEF BackoffElapses
<1>9. CASE DlqWriteFails
  <2>1. hand \in Task /\ hand # NoTask
    BY <1>9 DEF DlqWriteFails
  <2>2. Append(ended, hand) \o <<>> = ended \o <<hand>>
    BY <2>1, EndInHand
  <2>3. TypeOK' /\ HandHeld' /\ CounterCovers' /\ RetryLeft'
    BY <1>9, <2>1 DEF DlqWriteFails
  <2>4. FifoConservation'
    BY <1>9, <2>1, <2>2 DEF DlqWriteFails
  <2>5. QED
    BY <2>3, <2>4
<1>10. CASE BeginShutdown
  BY <1>10 DEF BeginShutdown
<1>11. CASE DrainCompletes \/ DrainTimesOut
  <2>1. CancelWorker
    BY <1>11 DEF DrainCompletes, DrainTimesOut
  <2>2. InHand \in Seq(Task)
    OBVIOUS
  <2>3. ended \o InHand \in Seq(Task) /\ ended \o InHand \o <<>> = ended \o InHand
    BY <2>2, ConcatProperties, ConcatEmptySeq
  <2>4. TypeOK' /\ HandHeld' /\ CounterCovers' /\ RetryLeft'
    BY <2>1, <2>3 DEF CancelWorker
  <2>5. FifoConservation'
    BY <2>1, <2>3 DEF CancelWorker
  <2>6. QED
    BY <2>4, <2>5
<1>12. CASE UNCHANGED vars
  BY <1>12 DEF vars
<1>13. QED
  BY <1>1, <1>2, <1>3, <1>4, <1>6, <1>7, <1>8, <1>9, <1>10, <1>11, <1>12 DEF Next

(* Each variable of slow_queue.py keeps its type: the queue and the two     *)
(* histories hold tasks, the retry loop stays within its bound, and the     *)
(* counter join() reads never goes below zero (task_done() would raise).    *)
THEOREM TypeCorrect == Spec => []TypeOK
<1>1. IInv => TypeOK
  BY DEF IInv
<1>2. QED
  BY <1>1, InitInv, StepInv, PTL DEF Spec

(* Whatever the tasks, the failures and the moment of the shutdown, what    *)
(* has ended, what is in hand and what waits is the order of acceptance.    *)
THEOREM FifoCorrect == Spec => []FifoConservation
<1>1. IInv => FifoConservation
  BY DEF IInv
<1>2. QED
  BY <1>1, InitInv, StepInv, PTL DEF Spec

-----------------------------------------------------------------------------
(* The message queue *)

(* Every step of the composition is one of the slow queue, or leaves it     *)
(* alone: what holds of the slow queue by itself holds under the load that  *)
(* the turns put on it.                                                     *)
THEOREM ComposedImplementsSlow == MessageSpec => Spec
<1>1. MessageInit => Init
  BY DEF MessageInit
<1>2. [MessageNext]_allVars => [Next]_vars
  <2> SUFFICES ASSUME [MessageNext]_allVars PROVE [Next]_vars
    OBVIOUS
  <2>1. CASE SlowStep
    BY <2>1 DEF SlowStep, WorkerStep, Next
  <2>2. ASSUME NEW m \in Message, HandsOver(m)
        PROVE  Next
    <3>1. m \in Task
      BY MessageAssumption
    <3>2. QED
      BY <2>2, <3>1 DEF HandsOver, Next
  <2>3. ASSUME NEW m \in Message, HandlerStep(m) \/ Cancelled(m) \/ \E s \in Session : Arrives(m, s)
        PROVE  UNCHANGED vars
    BY <2>3 DEF HandlerStep, Leaves, Ends, WaitsForLock, TakesLock, Records, Unrecorded, Sent,
                Cancelled, Arrives, slowVars
  <2>4. ASSUME NEW s \in Session, Starts(s) \/ ElsewhereBegins(s) \/ ElsewhereEnds(s)
        PROVE  UNCHANGED vars
    BY <2>4 DEF Starts, ElsewhereBegins, ElsewhereEnds, slowVars
  <2>5. CASE UNCHANGED allVars
    BY <2>5 DEF allVars, slowVars
  <2>6. QED
    BY <2>1, <2>2, <2>3, <2>4, <2>5 DEF MessageNext
<1>3. QED
  BY <1>1, <1>2, PTL DEF MessageSpec, Spec

(* The line of a session, with the places p of the messages and the queues  *)
(* q: those that are gone came before the one that is handled, and this     *)
(* before those that wait, whose queue has them in the order of arrival.    *)
Known(p) ==
  /\ \A m, n \in Message : p[m] # "away" /\ p[n] = "away" => m < n
  /\ \A m \in Message : p[m] # "away" => key[m] \in Session

Queued(p, q) ==
  /\ \A s \in Session : \A i \in 1..Len(q[s]) : p[q[s][i]] = "queued" /\ key[q[s][i]] = s
  /\ \A s \in Session : \A i, j \in 1..Len(q[s]) : i < j => q[s][i] < q[s][j]
  /\ \A m \in Message : p[m] = "queued" => \E i \in 1..Len(q[key[m]]) : q[key[m]][i] = m

Further(p, m, n) ==
  \/ p[m] \in Gone /\ p[n] \in Handling \cup {"queued"}
  \/ p[m] \in Handling /\ p[n] = "queued"

InTurn(p) == \A m, n \in Message : key[m] = key[n] /\ Further(p, m, n) => m < n

Alone(p) ==
  \A m, n \in Message : key[m] = key[n] /\ p[m] \in Handling /\ p[n] \in Handling => m = n

Line(p, q) == Known(p) /\ Queued(p, q) /\ InTurn(p) /\ Alone(p)

Idle(p, s) == \A m \in Message : key[m] = s => p[m] \notin Handling

(* A task that was created and has not run is the only one of its session.  *)
OneTask ==
  \A s \in Session : created[s] \in {0, 1} /\ (created[s] = 1 => Idle(at, s))

(* What was recorded is being sent or is gone. *)
SaidPassed == \A i \in 1..Len(said) : at[said[i]] \in {"sending"} \cup Gone

Order == \A i, j \in 1..Len(said) : i < j /\ key[said[i]] = key[said[j]] => said[i] < said[j]

Place == {"away", "queued"} \cup Handling \cup Gone

Types ==
  /\ queues \in [Session -> Seq(Message)]
  /\ created \in [Session -> Nat]
  /\ at \in [Message -> Place]
  /\ key \in [Message -> Session \cup {NoSession}]
  /\ elsewhere \subseteq Private
  /\ stage \in [Message -> {"none", "feeling", "handed"}]
  /\ said \in Seq(Message)

MInv == Types /\ Line(at, queues) /\ OneTask /\ SaidPassed /\ Order

(* When the handler of a message ends, no message of its session is handled. *)
LEMMA LineAfterEnd ==
  ASSUME NEW p \in [Message -> Place], NEW q \in [Session -> Seq(Message)], Line(p, q),
         NEW m \in Message, p[m] \in Handling, NEW end \in Gone
  PROVE  /\ Line([p EXCEPT ![m] = end], q)
         /\ Idle([p EXCEPT ![m] = end], key[m])
         /\ [p EXCEPT ![m] = end] \in [Message -> Place]
<1> DEFINE r == [p EXCEPT ![m] = end]
<1>1. r \in [Message -> Place] /\ r[m] = end /\ \A n \in Message \ {m} : r[n] = p[n]
  BY DEF Place
<1>2. Known(r)
  BY <1>1 DEF Line, Known, Handling, Gone
<1>3. Queued(r, q)
  <2>1. \A s \in Session : \A i \in 1..Len(q[s]) : q[s][i] \in Message
    OBVIOUS
  <2>2. QED
    BY <1>1, <2>1 DEF Line, Queued, Handling, Gone
<1>4. InTurn(r)
  BY <1>1 DEF Line, InTurn, Alone, Further, Handling, Gone
<1>5. Alone(r) /\ Idle(r, key[m])
  BY <1>1 DEF Line, Alone, Idle, Handling, Gone
<1>6. QED
  BY <1>1, <1>2, <1>3, <1>4, <1>5 DEF Line

(* The head of an ordered queue is the first of those that wait. *)
LEMMA LineAfterTake ==
  ASSUME NEW p \in [Message -> Place], NEW q \in [Session -> Seq(Message)], Line(p, q),
         NEW s \in Session, Idle(p, s), q[s] # <<>>,
         NEW r, r = [p EXCEPT ![Head(q[s])] = "entering"],
         NEW t, t = [q EXCEPT ![s] = Tail(q[s])]
  PROVE  Line(r, t) /\ r \in [Message -> Place] /\ t \in [Session -> Seq(Message)]
<1> DEFINE h == Head(q[s])
<1>1. /\ h = q[s][1] /\ h \in Message /\ Len(q[s]) \in Nat \ {0}
      /\ Tail(q[s]) \in Seq(Message) /\ Len(Tail(q[s])) = Len(q[s]) - 1
      /\ \A i \in 1..Len(Tail(q[s])) : Tail(q[s])[i] = q[s][i + 1]
  OBVIOUS
<1> HIDE DEF h
<1>2. /\ r \in [Message -> Place] /\ t \in [Session -> Seq(Message)]
      /\ r[h] = "entering" /\ \A n \in Message \ {h} : r[n] = p[n]
      /\ t[s] = Tail(q[s]) /\ \A u \in Session \ {s} : t[u] = q[u]
  BY <1>1 DEF h, Place, Handling
<1>3. \A u \in Session : \A i \in 1..Len(q[u]) : q[u][i] \in Message
  OBVIOUS
<1>4. p[h] = "queued" /\ key[h] = s
  BY <1>1 DEF Line, Queued
<1>5. Known(r)
  BY <1>1, <1>2, <1>4 DEF Line, Known
<1>6. \A n \in Message : key[n] = s /\ p[n] = "queued" /\ n # h => h < n
  <2> SUFFICES ASSUME NEW n \in Message, key[n] = s, p[n] = "queued", n # h
               PROVE  h < n
    OBVIOUS
  <2>1. PICK i \in 1..Len(q[s]) : q[s][i] = n
    BY DEF Line, Queued
  <2>2. i # 1 /\ 1 \in 1..Len(q[s]) /\ 1 < i
    BY <1>1, <2>1
  <2>3. QED
    BY <1>1, <2>1, <2>2 DEF Line, Queued
<1>7. Queued(r, t)
  <2>1. ASSUME NEW u \in Session, NEW i \in 1..Len(t[u])
        PROVE  r[t[u][i]] = "queued" /\ key[t[u][i]] = u
    <3>1. CASE u = s
      <4>1. i + 1 \in 1..Len(q[s]) /\ 1 \in 1..Len(q[s]) /\ 1 < i + 1 /\ t[u][i] = q[s][i + 1]
        BY <1>1, <1>2, <3>1
      <4>2. q[s][1] < q[s][i + 1] /\ q[s][i + 1] \in Message /\ q[s][1] \in Message
        BY <1>3, <4>1 DEF Line, Queued
      <4>3. q[s][i + 1] # h
        BY <1>1, <4>2 DEF Message
      <4>4. QED
        BY <1>2, <3>1, <4>1, <4>2, <4>3 DEF Line, Queued
    <3>2. CASE u # s
      <4>1. t[u][i] = q[u][i] /\ i \in 1..Len(q[u]) /\ q[u][i] \in Message
        BY <1>2, <1>3, <3>2
      <4>2. p[q[u][i]] = "queued" /\ key[q[u][i]] = u
        BY <4>1 DEF Line, Queued
      <4>3. q[u][i] # h
        BY <1>4, <3>2, <4>2
      <4>4. QED
        BY <1>2, <4>1, <4>2, <4>3
    <3>3. QED
      BY <3>1, <3>2
  <2>2. ASSUME NEW u \in Session, NEW i \in 1..Len(t[u]), NEW j \in 1..Len(t[u]), i < j
        PROVE  t[u][i] < t[u][j]
    <3>1. CASE u = s
      <4>1. /\ i + 1 \in 1..Len(q[s]) /\ j + 1 \in 1..Len(q[s]) /\ i + 1 < j + 1
            /\ t[u][i] = q[s][i + 1] /\ t[u][j] = q[s][j + 1]
        BY <1>1, <1>2, <2>2, <3>1
      <4>2. QED
        BY <4>1 DEF Line, Queued
    <3>2. CASE u # s
      BY <1>2, <2>2, <3>2 DEF Line, Queued
    <3>3. QED
      BY <3>1, <3>2
  <2>3. ASSUME NEW m \in Message, r[m] = "queued"
        PROVE  \E i \in 1..Len(t[key[m]]) : t[key[m]][i] = m
    <3>1. m # h /\ p[m] = "queued" /\ key[m] \in Session
      BY <1>2, <2>3 DEF Line, Known
    <3>2. PICK i \in 1..Len(q[key[m]]) : q[key[m]][i] = m
      BY <3>1 DEF Line, Queued
    <3>3. CASE key[m] = s
      <4>1. i # 1 /\ i - 1 \in 1..Len(Tail(q[s]))
        BY <1>1, <3>1, <3>2, <3>3
      <4>2. Tail(q[s])[i - 1] = q[s][(i - 1) + 1] /\ (i - 1) + 1 = i
        BY <1>1, <4>1
      <4>3. QED
        BY <1>2, <3>2, <3>3, <4>1, <4>2
    <3>4. CASE key[m] # s
      BY <1>2, <3>1, <3>2, <3>4
    <3>5. QED
      BY <3>3, <3>4
  <2>4. QED
    BY <2>1, <2>2, <2>3 DEF Queued
<1>8. InTurn(r)
  BY <1>2, <1>4, <1>6 DEF Line, InTurn, Further, Idle, Handling, Gone
<1>9. Alone(r)
  BY <1>2, <1>4 DEF Line, Alone, Idle, Handling
<1>10. QED
  BY <1>2, <1>5, <1>7, <1>8, <1>9 DEF Line

(* What the head of the loop does to the places p of the messages. *)
LEMMA LoopKeeps ==
  ASSUME Types, NEW p \in [Message -> Place], Line(p, queues),
         NEW s \in Session, Idle(p, s), Loop(s, p)
  PROVE  /\ Line(at', queues')
         /\ at' \in [Message -> Place] /\ queues' \in [Session -> Seq(Message)]
         /\ \A m \in Message : p[m] \in {"sending"} \cup Gone => at'[m] = p[m]
         /\ \A u \in Session \ {s} : Idle(p, u) => Idle(at', u)
<1>1. CASE queues[s] = <<>>
  <2>1. at' = p /\ queues' = queues
    BY <1>1 DEF Loop
  <2>2. QED
    BY <2>1 DEF Types
<1>2. CASE queues[s] # <<>>
  <2> DEFINE h == Head(queues[s])
  <2>1. at' = [p EXCEPT ![h] = "entering"] /\ queues' = [queues EXCEPT ![s] = Tail(queues[s])]
    BY <1>2 DEF Loop
  <2>2. /\ Line(at', queues')
        /\ at' \in [Message -> Place] /\ queues' \in [Session -> Seq(Message)]
    BY <1>2, <2>1, LineAfterTake DEF Types
  <2>3. h = queues[s][1] /\ 1 \in 1..Len(queues[s]) /\ h \in Message
    BY <1>2 DEF Types
  <2> HIDE DEF h
  <2>4. p[h] = "queued" /\ key[h] = s
    BY <2>3 DEF Line, Queued
  <2>5. \A m \in Message : m # h => at'[m] = p[m]
    BY <2>1
  <2>6. QED
    BY <2>2, <2>4, <2>5 DEF Idle, Gone
<1>3. QED
  BY <1>1, <1>2

(* A handler that goes on stays the only one of its session. *)
LEMMA LineAfterGo ==
  ASSUME Types, Line(at, queues), OneTask,
         NEW m \in Message, at[m] \in Handling, NEW to \in Handling,
         at' = [at EXCEPT ![m] = to], UNCHANGED <<queues, key, created>>
  PROVE  Line(at, queues)' /\ OneTask' /\ at' \in [Message -> Place]
<1>1. at' \in [Message -> Place] /\ at'[m] = to /\ \A n \in Message \ {m} : at'[n] = at[n]
  BY DEF Types, Place
<1>2. \A s \in Session : \A i \in 1..Len(queues[s]) : queues[s][i] \in Message
  BY DEF Types
<1>3. Known(at)'
  BY <1>1 DEF Line, Known, Handling
<1>4. Queued(at, queues)'
  BY <1>1, <1>2 DEF Line, Queued, Handling
<1>5. InTurn(at)'
  BY <1>1 DEF Line, InTurn, Further, Handling, Gone
<1>6. Alone(at)' /\ OneTask'
  BY <1>1 DEF Line, Alone, OneTask, Idle
<1>7. QED
  BY <1>1, <1>3, <1>4, <1>5, <1>6 DEF Line

(* What was said stays in order while messages only go on. *)
LEMMA SaidKept ==
  ASSUME Types, SaidPassed, Order, UNCHANGED <<said, key>>,
         \A m \in Message : at[m] \in {"sending"} \cup Gone => at'[m] \in {"sending"} \cup Gone
  PROVE  SaidPassed' /\ Order'
<1>1. \A i \in 1..Len(said) : said[i] \in Message
  BY DEF Types
<1>2. QED
  BY <1>1 DEF SaidPassed, Order

LEMMA EndsKeeps ==
  ASSUME MInv, NEW m \in Message, at[m] \in Handling, Ends(m)
  PROVE  MInv'
<1> DEFINE p == [at EXCEPT ![m] = "over"]
<1>1. key[m] \in Session
  BY DEF MInv, Line, Known, Handling
<1>2. Line(p, queues) /\ Idle(p, key[m]) /\ p \in [Message -> Place]
  BY LineAfterEnd DEF MInv, Types, Gone
<1>3. p[m] = "over" /\ \A n \in Message : n # m => p[n] = at[n]
  BY DEF MInv, Types
<1>4. Loop(key[m], p) /\ UNCHANGED <<created, key, elsewhere, stage, said>>
  BY DEF Ends
<1> HIDE DEF p
<1>5. /\ Line(at', queues')
      /\ at' \in [Message -> Place] /\ queues' \in [Session -> Seq(Message)]
      /\ \A n \in Message : p[n] \in {"sending"} \cup Gone => at'[n] = p[n]
      /\ \A u \in Session \ {key[m]} : Idle(p, u) => Idle(at', u)
  BY <1>1, <1>2, <1>4, LoopKeeps DEF MInv
<1>6. Line(at, queues)'
  BY <1>4, <1>5 DEF Line, Known, Queued, InTurn, Further, Alone
<1>7. OneTask'
  <2>1. created[key[m]] = 0
    BY <1>1 DEF MInv, OneTask, Idle
  <2>2. \A u \in Session \ {key[m]} : Idle(at, u) => Idle(p, u)
    BY <1>3 DEF Idle
  <2>3. QED
    BY <1>1, <1>4, <1>5, <2>1, <2>2 DEF MInv, OneTask, Idle
<1>8. \A n \in Message : at[n] \in {"sending"} \cup Gone => at'[n] \in {"sending"} \cup Gone
  BY <1>3, <1>5 DEF Gone
<1>9. SaidPassed' /\ Order'
  BY <1>4, <1>8, SaidKept DEF MInv
<1>10. QED
  BY <1>4, <1>5, <1>6, <1>7, <1>9 DEF MInv, Types

LEMMA StartsKeeps ==
  ASSUME MInv, NEW s \in Session, Starts(s)
  PROVE  MInv'
<1>1. created[s] = 1 /\ Idle(at, s) /\ created' = [created EXCEPT ![s] = 0]
  <2>1. created[s] \in {0, 1} /\ created[s] > 0 /\ created' = [created EXCEPT ![s] = created[s] - 1]
    BY DEF MInv, OneTask, Starts
  <2>2. created[s] = 1 /\ created[s] - 1 = 0
    BY <2>1
  <2>3. QED
    BY <2>1, <2>2 DEF MInv, OneTask
<1>2. Loop(s, at) /\ UNCHANGED <<key, elsewhere, stage, said>>
  BY DEF Starts
<1>3. /\ Line(at', queues')
      /\ at' \in [Message -> Place] /\ queues' \in [Session -> Seq(Message)]
      /\ \A n \in Message : at[n] \in {"sending"} \cup Gone => at'[n] = at[n]
      /\ \A u \in Session \ {s} : Idle(at, u) => Idle(at', u)
  BY <1>1, <1>2, LoopKeeps DEF MInv, Types
<1>4. Line(at, queues)'
  BY <1>2, <1>3 DEF Line, Known, Queued, InTurn, Further, Alone
<1>5. created' \in [Session -> Nat] /\ created'[s] = 0 /\ \A u \in Session \ {s} : created'[u] = created[u]
  BY <1>1 DEF MInv, Types
<1>6. OneTask'
  <2>1. ASSUME NEW u \in Session
        PROVE  created'[u] \in {0, 1} /\ (created'[u] = 1 => Idle(at', u))
    <3>1. CASE u = s
      BY <1>5, <3>1
    <3>2. CASE u # s
      <4>1. created[u] \in {0, 1} /\ (created[u] = 1 => Idle(at, u))
        BY DEF MInv, OneTask
      <4>2. created'[u] = created[u] /\ (Idle(at, u) => Idle(at', u))
        BY <1>3, <1>5, <3>2
      <4>3. QED
        BY <4>1, <4>2
    <3>3. QED
      BY <3>1, <3>2
  <2>2. \A u \in Session : Idle(at, u)' <=> Idle(at', u)
    BY <1>2 DEF Idle
  <2>3. QED
    BY <2>1, <2>2 DEF OneTask
<1>7. SaidPassed' /\ Order'
  BY <1>2, <1>3, SaidKept DEF MInv
<1>8. QED
  BY <1>2, <1>3, <1>4, <1>5, <1>6, <1>7 DEF MInv, Types

LEMMA ArrivesKeeps ==
  ASSUME MInv, NEW m \in Message, NEW s \in Session, Arrives(m, s)
  PROVE  MInv'
<1>1. /\ at[m] = "away" /\ at' = [at EXCEPT ![m] = "queued"]
      /\ key' = [key EXCEPT ![m] = s] /\ queues' = [queues EXCEPT ![s] = Append(queues[s], m)]
      /\ UNCHANGED <<elsewhere, stage, said>>
  BY DEF Arrives
<1>2. /\ at' \in [Message -> Place] /\ at'[m] = "queued" /\ \A n \in Message \ {m} : at'[n] = at[n]
      /\ key' \in [Message -> Session \cup {NoSession}]
      /\ key'[m] = s /\ \A n \in Message \ {m} : key'[n] = key[n]
  BY <1>1 DEF MInv, Types, Place
<1>3. /\ queues' \in [Session -> Seq(Message)]
      /\ queues[s] \in Seq(Message) /\ Len(queues[s]) \in Nat
      /\ queues'[s] = Append(queues[s], m) /\ Len(queues'[s]) = Len(queues[s]) + 1
      /\ queues'[s][Len(queues[s]) + 1] = m
      /\ \A i \in 1..Len(queues[s]) : queues'[s][i] = queues[s][i]
      /\ \A u \in Session \ {s} : queues'[u] = queues[u]
  BY <1>1 DEF MInv, Types
<1>4. \A n \in Message : at[n] # "away" => n < m
  BY <1>1 DEF MInv, Line, Known
<1>5. \A u \in Session : \A i \in 1..Len(queues[u]) :
        queues[u][i] \in Message /\ at[queues[u][i]] = "queued" /\ key[queues[u][i]] = u
        /\ queues[u][i] # m
  BY <1>1 DEF MInv, Types, Line, Queued
<1>6. Known(at)'
  <2>2. \A k, n \in Message : at'[k] # "away" /\ at'[n] = "away" => k < n
    <3> SUFFICES ASSUME NEW k \in Message, NEW n \in Message, at'[k] # "away", at'[n] = "away"
                 PROVE  k < n
      OBVIOUS
    <3>1. n # m /\ at[n] = "away"
      BY <1>2
    <3>2. CASE k = m
      <4>1. at[n] = "away" /\ n # m /\ ~(n < m)
        BY <1>1, <3>1 DEF Arrives
      <4>2. QED
        BY <3>2, <4>1 DEF Message
    <3>3. CASE k # m
      BY <1>2, <3>1, <3>3 DEF MInv, Line, Known
    <3>4. QED
      BY <3>2, <3>3
  <2>3. \A n \in Message : at'[n] # "away" => key'[n] \in Session
    BY <1>2 DEF MInv, Line, Known
  <2>4. QED
    BY <2>2, <2>3 DEF Known
<1>7. Queued(at, queues)'
  <2>1. ASSUME NEW u \in Session, NEW i \in 1..Len(queues'[u])
        PROVE  at'[queues'[u][i]] = "queued" /\ key'[queues'[u][i]] = u
    <3>1. CASE u = s /\ i = Len(queues[s]) + 1
      BY <1>2, <1>3, <3>1
    <3>2. CASE u # s \/ i # Len(queues[s]) + 1
      <4>1. i \in 1..Len(queues[u]) /\ queues'[u][i] = queues[u][i]
        BY <1>3, <3>2
      <4>2. QED
        BY <1>2, <1>5, <4>1
    <3>3. QED
      BY <3>1, <3>2
  <2>2. ASSUME NEW u \in Session, NEW i \in 1..Len(queues'[u]), NEW j \in 1..Len(queues'[u]), i < j
        PROVE  queues'[u][i] < queues'[u][j]
    <3>1. CASE u = s /\ j = Len(queues[s]) + 1
      <4>1. i \in 1..Len(queues[s])
        BY <1>3, <2>2, <3>1
      <4>2. queues[s][i] \in Message /\ at[queues[s][i]] # "away"
        BY <1>5, <4>1
      <4>3. QED
        BY <1>3, <1>4, <3>1, <4>1, <4>2
    <3>2. CASE u # s \/ j # Len(queues[s]) + 1
      <4>1. /\ i \in 1..Len(queues[u]) /\ j \in 1..Len(queues[u])
            /\ queues'[u][i] = queues[u][i] /\ queues'[u][j] = queues[u][j]
        <5>1. CASE u = s
          BY <1>3, <2>2, <3>2, <5>1
        <5>2. CASE u # s
          BY <1>3, <5>2
        <5>3. QED
          BY <5>1, <5>2
      <4>2. QED
        BY <2>2, <4>1 DEF MInv, Line, Queued
    <3>3. QED
      BY <3>1, <3>2
  <2>3. ASSUME NEW n \in Message, at'[n] = "queued"
        PROVE  \E i \in 1..Len(queues'[key'[n]]) : queues'[key'[n]][i] = n
    <3>1. CASE n = m
      <4>1. Len(queues[s]) + 1 \in 1..Len(queues'[s])
        BY <1>3
      <4>2. QED
        BY <1>2, <1>3, <3>1, <4>1
    <3>2. CASE n # m
      <4>1. at[n] = "queued" /\ key'[n] = key[n] /\ key[n] \in Session
        BY <1>2, <2>3, <3>2 DEF MInv, Line, Known
      <4>2. PICK i \in 1..Len(queues[key[n]]) : queues[key[n]][i] = n
        BY <4>1 DEF MInv, Line, Queued
      <4>3. i \in 1..Len(queues'[key[n]]) /\ queues'[key[n]][i] = n
        <5>1. CASE key[n] = s
          BY <1>3, <4>2, <5>1
        <5>2. CASE key[n] # s
          BY <1>3, <4>1, <4>2, <5>2
        <5>3. QED
          BY <5>1, <5>2
      <4>4. QED
        BY <4>1, <4>3
    <3>3. QED
      BY <3>1, <3>2
  <2>4. QED
    BY <2>1, <2>2, <2>3 DEF Queued
<1>8. InTurn(at)'
  <2> SUFFICES ASSUME NEW k \in Message, NEW n \in Message, key'[k] = key'[n], Further(at', k, n)
               PROVE  k < n
    BY DEF InTurn, Further
  <2>1. k # m /\ at[k] = at'[k] /\ at[k] # "away"
    BY <1>2 DEF Further, Handling, Gone
  <2>2. CASE n = m
    BY <1>4, <2>1, <2>2
  <2>3. CASE n # m
    BY <1>2, <2>1, <2>3 DEF MInv, Line, InTurn, Further
  <2>4. QED
    BY <2>2, <2>3
<1>9. \A n \in Message : at'[n] \in Handling => n # m /\ at[n] \in Handling
  BY <1>2 DEF Handling
<1>10. Alone(at)'
  BY <1>2, <1>9 DEF MInv, Line, Alone
<1>11. OneTask'
  <2>1. ASSUME NEW u \in Session, Idle(at, u)
        PROVE  Idle(at, u)'
    BY <1>2, <1>9, <2>1 DEF Idle
  <2>2. CASE Wanted(s)
    <3>1. created[s] = 0 /\ Idle(at, s)
      BY <2>2 DEF Wanted, Live, Of, Idle, MInv, OneTask
    <3>2. created' = [created EXCEPT ![s] = 1]
      BY <2>2, <3>1 DEF Arrives
    <3>3. created'[s] = 1 /\ \A u \in Session \ {s} : created'[u] = created[u]
      BY <3>2 DEF MInv, Types
    <3>4. QED
      BY <2>1, <3>1, <3>3 DEF MInv, OneTask
  <2>3. CASE ~Wanted(s)
    <3>1. created' = created
      BY <2>3 DEF Arrives
    <3>2. QED
      BY <2>1, <3>1 DEF MInv, OneTask
  <2>4. QED
    BY <2>2, <2>3
<1>12. \A i \in 1..Len(said) : said[i] \in Message /\ said[i] # m
  <2>1. \A i \in 1..Len(said) : said[i] \in Message
    BY DEF MInv, Types
  <2>2. \A i \in 1..Len(said) : at[said[i]] # "away"
    BY DEF MInv, SaidPassed, Gone
  <2>3. QED
    BY <1>1, <2>1, <2>2
<1>13. SaidPassed' /\ Order'
  BY <1>1, <1>2, <1>12 DEF MInv, SaidPassed, Order
<1>14. created' \in [Session -> Nat]
  BY DEF Arrives, MInv, Types
<1>15. QED
  BY <1>1, <1>2, <1>3, <1>6, <1>7, <1>8, <1>10, <1>11, <1>13, <1>14 DEF MInv, Line, Types

(* The steps of a handler that go on and record nothing. *)
LEMMA GoKeeps ==
  ASSUME MInv, NEW m \in Message, at[m] \in Handling \ {"sending"}, NEW to \in Handling,
         at' = [at EXCEPT ![m] = to],
         UNCHANGED <<queues, created, key, elsewhere, stage, said>>
  PROVE  MInv'
<1>1. Line(at, queues)' /\ OneTask' /\ at' \in [Message -> Place]
  BY LineAfterGo DEF MInv
<1>2. \A n \in Message : at[n] \in {"sending"} \cup Gone => at'[n] = at[n]
  BY DEF MInv, Types, Handling, Gone
<1>3. SaidPassed' /\ Order'
  BY <1>2, SaidKept DEF MInv
<1>4. QED
  BY <1>1, <1>3 DEF MInv, Types

(* The message that is recorded is the only one of its session that is      *)
(* handled, so those of its session that were recorded are gone.            *)
LEMMA RecordsKeeps ==
  ASSUME MInv, NEW m \in Message, Records(m)
  PROVE  MInv'
<1>1. /\ at[m] = "talking" /\ at' = [at EXCEPT ![m] = "sending"]
      /\ said' = Append(said, m) /\ stage' = [stage EXCEPT ![m] = "feeling"]
      /\ UNCHANGED <<queues, created, key, elsewhere>>
  BY DEF Records, Goes, In
<1>2. Line(at, queues)' /\ OneTask' /\ at' \in [Message -> Place]
  BY <1>1, LineAfterGo DEF MInv, Handling
<1>3. at'[m] = "sending" /\ \A n \in Message : n # m => at'[n] = at[n]
  BY <1>1 DEF MInv, Types
<1>4. /\ said' \in Seq(Message) /\ Len(said) \in Nat /\ Len(said') = Len(said) + 1
      /\ said'[Len(said) + 1] = m
      /\ \A i \in 1..Len(said) : said'[i] = said[i] /\ said[i] \in Message
  BY <1>1 DEF MInv, Types
<1>5. \A i \in 1..Len(said) : key[said[i]] = key[m] => said[i] < m
  <2> SUFFICES ASSUME NEW i \in 1..Len(said), key[said[i]] = key[m]
               PROVE  said[i] < m
    OBVIOUS
  <2>1. said[i] \in Message /\ at[said[i]] \in {"sending"} \cup Gone
    BY <1>4 DEF MInv, SaidPassed
  <2>2. at[said[i]] # "sending"
    BY <1>1, <2>1 DEF MInv, Line, Alone, Handling
  <2>3. QED
    BY <1>1, <2>1, <2>2 DEF MInv, Line, InTurn, Further, Handling
<1>6. SaidPassed'
  <2>1. ASSUME NEW i \in 1..Len(said')
        PROVE  at'[said'[i]] \in {"sending"} \cup Gone
    <3>1. CASE i = Len(said) + 1
      BY <1>3, <1>4, <3>1
    <3>2. CASE i # Len(said) + 1
      <4>1. i \in 1..Len(said) /\ said'[i] = said[i] /\ said[i] \in Message
        BY <1>4, <3>2
      <4>2. at[said[i]] \in {"sending"} \cup Gone
        BY <4>1 DEF MInv, SaidPassed
      <4>3. QED
        BY <1>3, <4>1, <4>2
    <3>3. QED
      BY <3>1, <3>2
  <2>2. QED
    BY <2>1 DEF SaidPassed
<1>7. Order'
  <2>1. ASSUME NEW i \in 1..Len(said'), NEW j \in 1..Len(said'), i < j,
               key[said'[i]] = key[said'[j]]
        PROVE  said'[i] < said'[j]
    <3>1. i \in 1..Len(said) /\ said'[i] = said[i]
      BY <1>4, <2>1
    <3>2. CASE j = Len(said) + 1
      BY <1>4, <1>5, <2>1, <3>1, <3>2
    <3>3. CASE j # Len(said) + 1
      <4>1. j \in 1..Len(said) /\ said'[j] = said[j]
        BY <1>4, <3>3
      <4>2. QED
        BY <2>1, <3>1, <4>1 DEF MInv, Order
    <3>4. QED
      BY <3>2, <3>3
  <2>2. QED
    BY <1>1, <2>1 DEF Order
<1>8. stage' \in [Message -> {"none", "feeling", "handed"}]
  BY <1>1 DEF MInv, Types
<1>9. QED
  BY <1>1, <1>2, <1>4, <1>6, <1>7, <1>8 DEF MInv, Types

LEMMA CancelledKeeps ==
  ASSUME MInv, NEW m \in Message, Cancelled(m)
  PROVE  MInv'
<1>1. /\ at[m] \in Handling /\ at' = [at EXCEPT ![m] = "cancelled"]
      /\ UNCHANGED <<queues, created, key, elsewhere, stage, said>>
  BY DEF Cancelled, Goes, In
<1>2. Line(at', queues) /\ Idle(at', key[m]) /\ at' \in [Message -> Place]
  BY <1>1, LineAfterEnd DEF MInv, Types, Gone
<1>3. Line(at, queues)'
  BY <1>1, <1>2 DEF Line, Known, Queued, InTurn, Further, Alone
<1>4. at'[m] = "cancelled" /\ \A n \in Message : n # m => at'[n] = at[n]
  BY <1>1 DEF MInv, Types
<1>5. OneTask'
  <2>1. \A n \in Message : at'[n] \in Handling => at[n] \in Handling
    BY <1>4 DEF Handling
  <2>2. \A u \in Session : Idle(at, u) => Idle(at, u)'
    BY <1>1, <2>1 DEF Idle
  <2>3. QED
    BY <1>1, <2>2 DEF MInv, OneTask
<1>6. \A n \in Message : at[n] \in {"sending"} \cup Gone => at'[n] \in {"sending"} \cup Gone
  BY <1>4 DEF Gone
<1>7. SaidPassed' /\ Order'
  BY <1>1, <1>6, SaidKept DEF MInv
<1>8. QED
  BY <1>1, <1>2, <1>3, <1>5, <1>7 DEF MInv, Types

(* The steps that leave the messages where they are. *)
LEMMA OthersKeep ==
  ASSUME MInv, UNCHANGED <<queues, created, at, key, said>>,
         elsewhere' \subseteq Private, stage' \in [Message -> {"none", "feeling", "handed"}]
  PROVE  MInv'
<1>1. Line(at, queues)' /\ OneTask'
  BY DEF MInv, Line, Known, Queued, InTurn, Further, Alone, OneTask, Idle
<1>2. SaidPassed' /\ Order' /\ Types'
  BY DEF MInv, SaidPassed, Order, Types
<1>3. QED
  BY <1>1, <1>2 DEF MInv

LEMMA MInit == MessageInit => MInv
<1> SUFFICES ASSUME MessageInit PROVE MInv
  OBVIOUS
<1> USE DEF MessageInit
<1>1. Types
  BY DEF Types, Place
<1>2. Line(at, queues)
  BY DEF Line, Known, Queued, InTurn, Further, Alone, Handling, Gone
<1>3. OneTask
  BY DEF OneTask
<1>4. SaidPassed /\ Order
  BY DEF SaidPassed, Order
<1>5. QED
  BY <1>1, <1>2, <1>3, <1>4 DEF MInv

LEMMA MStep == MInv /\ [MessageNext]_allVars => MInv'
<1> SUFFICES ASSUME MInv, [MessageNext]_allVars PROVE MInv'
  OBVIOUS
<1>0. elsewhere \subseteq Private /\ stage \in [Message -> {"none", "feeling", "handed"}]
  BY DEF MInv, Types
<1>1. CASE SlowStep \/ UNCHANGED allVars
  BY <1>0, <1>1, OthersKeep DEF SlowStep, messageVars, allVars
<1>2. ASSUME NEW m \in Message, HandsOver(m)
      PROVE  MInv'
  BY <1>0, <1>2, OthersKeep DEF HandsOver
<1>3. ASSUME NEW m \in Message, Leaves(m) \/ Sent(m)
      PROVE  MInv'
  BY <1>3, EndsKeeps DEF Leaves, Sent, In, Handling
<1>4. ASSUME NEW m \in Message, WaitsForLock(m) \/ TakesLock(m) \/ Unrecorded(m)
      PROVE  MInv'
  BY <1>4, GoKeeps DEF WaitsForLock, TakesLock, Unrecorded, Goes, In, Handling
<1>5. ASSUME NEW m \in Message, Records(m)
      PROVE  MInv'
  BY <1>5, RecordsKeeps
<1>6. ASSUME NEW m \in Message, Cancelled(m)
      PROVE  MInv'
  BY <1>6, CancelledKeeps
<1>7. ASSUME NEW m \in Message, NEW s \in Session, Arrives(m, s)
      PROVE  MInv'
  BY <1>7, ArrivesKeeps
<1>8. ASSUME NEW s \in Session, Starts(s)
      PROVE  MInv'
  BY <1>8, StartsKeeps
<1>9. ASSUME NEW s \in Session, ElsewhereBegins(s) \/ ElsewhereEnds(s)
      PROVE  MInv'
  BY <1>0, <1>9, OthersKeep DEF ElsewhereBegins, ElsewhereEnds
<1>10. QED
  BY <1>1, <1>2, <1>3, <1>4, <1>5, <1>6, <1>7, <1>8, <1>9 DEF MessageNext, HandlerStep

(* The queues hold messages, every place is one of a handler's, and the     *)
(* slow queue under the turns' load keeps its types.                        *)
THEOREM MessageTypeCorrect == MessageSpec => []MessageTypeOK
<1>1. TypeOK /\ MInv => MessageTypeOK
  BY DEF MInv, Types, Place, MessageTypeOK
<1>2. QED
  BY <1>1, MInit, MStep, ComposedImplementsSlow, TypeCorrect, PTL DEF MessageSpec

(* Messages of one session are handled strictly one after the other: a task *)
(* that ended or was cancelled is replaced, one that lives never doubled.   *)
THEOREM SerialCorrect == MessageSpec => []Alone(at)
<1>1. MInv => Alone(at)
  BY DEF MInv, Line
<1>2. QED
  BY <1>1, MInit, MStep, PTL DEF MessageSpec

(* Whatever the sessions and the messages, wherever handlers fail or are    *)
(* cancelled and whoever else talks: the turns of a session are recorded in *)
(* the order in which its messages arrived.                                 *)
THEOREM OrderCorrect == MessageSpec => []ConversationOrder
<1>1. MInv => ConversationOrder
  <2>1. said \in Seq(Message) => DOMAIN said = 1..Len(said)
    OBVIOUS
  <2>2. MInv => DOMAIN said = 1..Len(said) /\ Order
    BY <2>1 DEF MInv, Types
  <2>3. QED
    BY <2>2 DEF Order, ConversationOrder
<1>2. QED
  BY <1>1, MInit, MStep, PTL DEF MessageSpec

(* The order of acceptance of the slow queue is kept under that load, too.  *)
THEOREM FifoUnderLoad == MessageSpec => []FifoConservation
BY ComposedImplementsSlow, FifoCorrect, PTL
=============================================================================
