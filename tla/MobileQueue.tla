----------------------------- MODULE MobileQueue -----------------------------
(***************************************************************************)
(* channels/mobile.py: the file in which messages wait for the phone, the   *)
(* file with the next sequence number, and a phone that polls with a cursor *)
(* and acknowledges what it has stored (admin/routers/mobile.py).           *)
(*                                                                         *)
(* Every operation runs under one condition, so it is one step.  A poll     *)
(* that waits reads again when it is woken: it is a poll that comes later.  *)
(* A message is its id; the queue is a set, ordered by the numbers in it.   *)
(***************************************************************************)
EXTENDS Naturals, FiniteSets, FiniteSetsExt

CONSTANTS
  Msg,       \* messages that may be sent
  Page,      \* how many messages a poll returns (20 by default)
  MaxItems,  \* _QUEUE_MAX_ITEMS
  Allowed    \* bounds: a record with what may go wrong, and how often

ASSUME MobileQueueAssumption ==
  /\ Page \in Nat \ {0} /\ MaxItems \in Nat \ {0}
  /\ {"faults", "days"} \subseteq DOMAIN Allowed
  /\ Allowed \in [DOMAIN Allowed -> Nat]

VARIABLES
  queue,    \* mobile_queue.json
  nextSeq,  \* mobile_queue_seq.json
  phone,    \* the cursor, and the answer on its way
  seen,     \* history: messages the phone has stored
  sent,     \* history: messages handed to the channel
  lost,     \* history: messages that left the queue before an acknowledgement
  restarted,\* history: a message was numbered with neither of the files
  left      \* what is left of Allowed

fileVars == <<queue, nextSeq>>
mobileVars == <<queue, nextSeq, phone, seen, sent, lost, restarted>>

Item == [id : Msg, seq : Nat \ {0}]
Ids(q) == {x.id : x \in q}

MobileTypeOK ==
  /\ queue \subseteq Item /\ Cardinality(queue) <= MaxItems
  /\ \A x, y \in queue : x.seq = y.seq => x = y
  /\ nextSeq \in Nat \ {0}
  /\ phone \in [cursor : Nat, busy : BOOLEAN, page : SUBSET Item]
  /\ seen \subseteq Msg /\ sent \subseteq Msg /\ lost \subseteq Msg
  /\ restarted \in BOOLEAN
  /\ left \in [DOMAIN Allowed -> Nat]

MobileInit ==
  /\ queue = {} /\ nextSeq = 1
  /\ phone = [cursor |-> 0, busy |-> FALSE, page |-> {}]
  /\ seen = {} /\ sent = {} /\ lost = {} /\ restarted = FALSE
  /\ left = Allowed

Pay(faults, days) ==
  /\ left.faults >= faults /\ left.days >= days
  /\ left' = [left EXCEPT !.faults = @ - faults, !.days = @ - days]

(* Mutant of First: a page has the newest messages. *)
Newest(q, n) == {x \in q : Cardinality({y \in q : y.seq > x.seq}) < n}

First(q, n) == {x \in q : Cardinality({y \in q : y.seq < x.seq}) < n}
Last(q, n) == {x \in q : Cardinality({y \in q : y.seq > x.seq}) < n}

(* Mutant of Following: the number follows the queue, which may be empty. *)
FollowingQueue(stored, q) == Max({1} \cup {x.seq + 1 : x \in q})

(* _next_seq() *)
Following(stored, q) == Max({stored} \cup {x.seq + 1 : x \in q})

(* What loading finds of the queue and returns, and at what cost: the file, *)
(* nothing when it cannot be read, or the file without what is a day old.   *)
Queues ==
  {[found |-> queue, q |-> queue, faults |-> 0, days |-> 0],
   [found |-> {}, q |-> {}, faults |-> 1, days |-> 0]}
  \cup {[found |-> queue, q |-> Last(queue, n), faults |-> 0, days |-> 1] :
        n \in 0..(Cardinality(queue) - 1)}

(* _read_stored_next_seq(): a file that is missing, or cannot be read, says *)
(* 1.  One of the two reads of a loading does not matter without the other. *)
Readings ==
  {[found |-> l.found, q |-> l.q, number |-> n, days |-> l.days,
    faults |-> l.faults + (IF n = nextSeq THEN 0 ELSE 1)] : l \in Queues, n \in {nextSeq, 1}}

(* Loading repairs the number by all it finds, what is a day old, too: when *)
(* it reads less than what follows the queue, even if the file says more.   *)
Repairs(r) == r.number < Following(1, r.found)
Repaired(r) == IF Repairs(r) THEN Following(r.number, r.found) ELSE nextSeq

(* Mutant of Pruned: the limit is applied before the message is appended. *)
PrunedBefore(q, x) == Last(q, MaxItems) \cup {x}

Pruned(q, x) == Last(q \cup {x}, MaxItems)

(* _write_to_queue(): loading repairs the file of the number, which is read *)
(* again and written, and then the queue; each write is refused in silence  *)
(* when the disk is at fault.  A queue that could not be read is overwritten.*)
(* With neither file, the numbers begin again at 1.                         *)
Send(m) ==
  \E r \in Readings, refused \in SUBSET {"repair", "seq", "queue"} :
    LET stored == IF "repair" \in refused THEN nextSeq ELSE Repaired(r)
    IN \E again \in {stored, 1} :
         LET seq == Following(again, r.q)
             unread == IF again = stored \/ r.number # nextSeq THEN 0 ELSE 1
         IN /\ "repair" \in refused => Repairs(r)
            /\ Pay(r.faults + unread + Cardinality(refused), r.days)
            /\ nextSeq' = IF "seq" \in refused THEN stored ELSE seq + 1
            /\ queue' = IF "queue" \in refused THEN queue
                        ELSE Pruned(r.q, [id |-> m, seq |-> seq])
            /\ sent' = sent \cup {m}
            /\ lost' = lost \cup ((Ids(queue) \cup {m}) \ Ids(queue'))
            /\ restarted' = (restarted \/ (again < stored /\ r.q = {}))
            /\ UNCHANGED <<phone, seen>>

(* Loading for a poll or an acknowledgement: the number is repaired, or     *)
(* left as it is when that write is refused.                                *)
Load(r) ==
  \/ nextSeq' = Repaired(r) /\ Pay(r.faults, r.days)
  \/ Repairs(r) /\ nextSeq' = nextSeq /\ Pay(r.faults + 1, r.days)

(* The file after loading: a file that could not be read stays. *)
Kept(r) == IF r.found = queue THEN r.q ELSE queue

Poll ==
  /\ ~phone.busy
  /\ \E r \in Readings :
       LET page == First({x \in r.q : x.seq > phone.cursor}, Page)
       IN /\ Load(r)
          /\ queue' = Kept(r)
          /\ lost' = lost \cup (Ids(queue) \ Ids(queue'))
          /\ phone' = [phone EXCEPT !.busy = (page # {}), !.page = page]
  /\ UNCHANGED <<seen, sent, restarted>>

(* The phone stores a page and moves its cursor, or the answer is lost. *)
PhoneStores ==
  /\ phone.busy
  /\ seen' = seen \cup Ids(phone.page)
  /\ phone' = [cursor |-> Max({phone.cursor} \cup {x.seq : x \in phone.page}),
               busy |-> FALSE, page |-> {}]
  /\ UNCHANGED <<queue, nextSeq, sent, lost, restarted, left>>

AnswerLost ==
  /\ phone.busy
  /\ phone' = [phone EXCEPT !.busy = FALSE, !.page = {}]
  /\ UNCHANGED <<queue, nextSeq, seen, sent, lost, restarted, left>>

(* An acknowledgement may be late or come twice. *)
Ack ==
  \E n \in 0..phone.cursor, r \in Readings, refused \in SUBSET {"repair", "queue"} :
    LET rest == {x \in r.q : x.seq > n}
    IN /\ rest # r.q
       /\ "repair" \in refused => Repairs(r)
       /\ Pay(r.faults + Cardinality(refused), r.days)
       /\ nextSeq' = IF "repair" \in refused THEN nextSeq ELSE Repaired(r)
       /\ queue' = IF "queue" \in refused THEN r.q ELSE rest
       /\ lost' = lost \cup (Ids(queue) \ Ids(r.q))
       /\ UNCHANGED <<phone, seen, sent, restarted>>

MobileNext == Poll \/ PhoneStores \/ AnswerLost \/ Ack

(* What waits for the phone beyond its cursor. *)
InLine == {x \in queue : x.seq > phone.cursor}
Ahead == Ids(InLine)

(* The phone gets the messages in the order they were sent: none that waits *)
(* is passed over, comes back, or disappears without being counted lost,    *)
(* while no message has been numbered with neither of the files.            *)
Mailbox == INSTANCE PhoneMailbox WITH
  waiting <- InLine, stored <- seen, lost <- lost, ordered <- ~restarted
ImplementsMailbox == Mailbox!Spec
=============================================================================
