-------------------------- MODULE ConfigPromise_proofs --------------------------
(****************************************************************************)
(* Proofs that requests keep their order on the whole way through           *)
(* ConfigPipeline, and that it implements ConfigPromise, for any number of  *)
(* requests, sensors and faults.                                            *)
(****************************************************************************)
EXTENDS ConfigPipeline_proofs

\* a stands before b in the table.
Precedes(rows, a, b) == \E i, j \in DOMAIN rows : i < j /\ rows[i] = a /\ rows[j] = b

\* The queue q holds requests in the order of the table, none of them twice.
Ordered(rows, q) == \A i, j \in DOMAIN q : i < j => Precedes(rows, q[i], q[j])

\* Whatever is in p is older than anything in q.
Ahead(rows, p, q) == \A a \in Elements(p), b \in Elements(q) : Precedes(rows, a, b)

NoRepetition(rows) == \A i, j \in DOMAIN rows : rows[i] = rows[j] => i = j

--------------------------------------------------------------------------------
(* What the queue operations do to the order.                               *)

\* The head of a queue is older than what follows it, which stays in order.
LEMMA OrderedTail ==
  ASSUME NEW rows, NEW q \in Seq(Requests), q # <<>>, Ordered(rows, q)
  PROVE  /\ Ordered(rows, Tail(q))
         /\ Elements(q) = {Head(q)} \cup Elements(Tail(q))
         /\ \A a \in Elements(Tail(q)) : Precedes(rows, Head(q), a)
<1>1. /\ Tail(q) \in Seq(Requests) /\ Head(q) = q[1]
      /\ Len(Tail(q)) = Len(q) - 1
      /\ \A i \in 1 .. Len(Tail(q)) : Tail(q)[i] = q[i + 1]
  BY HeadTailProperties
<1>2. Len(q) \in Nat /\ Len(q) # 0
  BY EmptySeq
<1>3. DOMAIN q = 1 .. Len(q) /\ DOMAIN Tail(q) = 1 .. (Len(q) - 1)
  BY <1>1
<1>4. Ordered(rows, Tail(q))
  <2>. SUFFICES ASSUME NEW i \in DOMAIN Tail(q), NEW j \in DOMAIN Tail(q), i < j
                PROVE  Precedes(rows, Tail(q)[i], Tail(q)[j])
    BY DEF Ordered
  <2>1. i + 1 \in DOMAIN q /\ j + 1 \in DOMAIN q /\ i + 1 < j + 1
    BY <1>2, <1>3
  <2>2. Tail(q)[i] = q[i + 1] /\ Tail(q)[j] = q[j + 1]
    BY <1>1, <1>3
  <2>. QED BY <2>1, <2>2 DEF Ordered
<1>5. \A i \in DOMAIN q : i = 1 \/ (i - 1 \in DOMAIN Tail(q) /\ q[i] = Tail(q)[i - 1])
  BY <1>1, <1>2, <1>3
<1>6. \A i \in DOMAIN Tail(q) : i + 1 \in DOMAIN q /\ Tail(q)[i] = q[i + 1] /\ 1 < i + 1
  BY <1>1, <1>2, <1>3
<1>7. 1 \in DOMAIN q
  BY <1>2, <1>3
<1>8. Elements(q) = {Head(q)} \cup Elements(Tail(q))
  <2>1. \A a \in Elements(q) : a = Head(q) \/ a \in Elements(Tail(q))
    <3>. SUFFICES ASSUME NEW i \in DOMAIN q
                  PROVE  q[i] = Head(q) \/ q[i] \in Elements(Tail(q))
      BY DEF Elements
    <3>1. CASE i = 1
      BY <1>1, <3>1
    <3>2. CASE i - 1 \in DOMAIN Tail(q) /\ q[i] = Tail(q)[i - 1]
      BY <3>2 DEF Elements
    <3>. QED BY <1>5, <3>1, <3>2
  <2>2. Head(q) \in Elements(q)
    BY <1>1, <1>7 DEF Elements
  <2>3. \A a \in Elements(Tail(q)) : a \in Elements(q)
    BY <1>6 DEF Elements
  <2>. QED BY <2>1, <2>2, <2>3
<1>9. \A a \in Elements(Tail(q)) : Precedes(rows, Head(q), a)
  BY <1>1, <1>6, <1>7 DEF Elements, Ordered
<1>. QED BY <1>4, <1>8, <1>9

\* A queue stays in order when a request newer than all of it is added.
LEMMA OrderedAppend ==
  ASSUME NEW rows, NEW q \in Seq(Requests), NEW e \in Requests, Ordered(rows, q),
         \A a \in Elements(q) : Precedes(rows, a, e)
  PROVE  Ordered(rows, Append(q, e))
<1>1. /\ Append(q, e) \in Seq(Requests)
      /\ Len(Append(q, e)) = Len(q) + 1
      /\ \A i \in 1 .. Len(q) : Append(q, e)[i] = q[i]
      /\ Append(q, e)[Len(q) + 1] = e
  BY AppendProperties
<1>2. DOMAIN q = 1 .. Len(q) /\ DOMAIN Append(q, e) = 1 .. (Len(q) + 1) /\ Len(q) \in Nat
  BY <1>1
<1>. SUFFICES ASSUME NEW i \in DOMAIN Append(q, e), NEW j \in DOMAIN Append(q, e), i < j
              PROVE  Precedes(rows, Append(q, e)[i], Append(q, e)[j])
  BY DEF Ordered
<1>3. i \in DOMAIN q /\ Append(q, e)[i] = q[i]
  BY <1>1, <1>2
<1>4. CASE j \in DOMAIN q
  BY <1>1, <1>2, <1>3, <1>4 DEF Ordered
<1>5. CASE j \notin DOMAIN q
  <2>1. Append(q, e)[j] = e
    BY <1>1, <1>2, <1>5
  <2>. QED BY <1>3, <2>1 DEF Elements
<1>. QED BY <1>4, <1>5

\* Two queues in order, the first of them ahead of the second, are one.
LEMMA OrderedConcat ==
  ASSUME NEW rows, NEW p \in Seq(Requests), NEW q \in Seq(Requests),
         Ordered(rows, p), Ordered(rows, q), Ahead(rows, p, q)
  PROVE  Ordered(rows, p \o q)
<1>1. /\ p \o q \in Seq(Requests)
      /\ Len(p \o q) = Len(p) + Len(q)
      /\ \A i \in 1 .. (Len(p) + Len(q)) :
            (p \o q)[i] = IF i <= Len(p) THEN p[i] ELSE q[i - Len(p)]
  BY ConcatProperties
<1>2. /\ DOMAIN p = 1 .. Len(p) /\ DOMAIN q = 1 .. Len(q)
      /\ DOMAIN (p \o q) = 1 .. (Len(p) + Len(q))
      /\ Len(p) \in Nat /\ Len(q) \in Nat
  BY <1>1
<1>. SUFFICES ASSUME NEW i \in DOMAIN (p \o q), NEW j \in DOMAIN (p \o q), i < j
              PROVE  Precedes(rows, (p \o q)[i], (p \o q)[j])
  BY DEF Ordered
<1>3. CASE j <= Len(p)
  <2>1. /\ i \in DOMAIN p /\ j \in DOMAIN p
        /\ (p \o q)[i] = p[i] /\ (p \o q)[j] = p[j]
    BY <1>1, <1>2, <1>3
  <2>. QED BY <2>1 DEF Ordered
<1>4. CASE i <= Len(p) /\ ~(j <= Len(p))
  <2>1. /\ i \in DOMAIN p /\ j - Len(p) \in DOMAIN q
        /\ (p \o q)[i] = p[i] /\ (p \o q)[j] = q[j - Len(p)]
    BY <1>1, <1>2, <1>4
  <2>. QED BY <2>1 DEF Ahead, Elements
<1>5. CASE ~(i <= Len(p))
  <2>1. /\ i - Len(p) \in DOMAIN q /\ j - Len(p) \in DOMAIN q
        /\ i - Len(p) < j - Len(p)
        /\ (p \o q)[i] = q[i - Len(p)] /\ (p \o q)[j] = q[j - Len(p)]
    BY <1>1, <1>2, <1>5
  <2>. QED BY <2>1 DEF Ordered
<1>. QED BY <1>2, <1>3, <1>4, <1>5

\* A row that is added is the newest, and the older rows keep their order.
LEMMA PrecedesAppend ==
  ASSUME NEW rows \in Seq(Requests), NEW e \in Requests
  PROVE  /\ \A a, b : Precedes(rows, a, b) => Precedes(Append(rows, e), a, b)
         /\ \A a \in Elements(rows) : Precedes(Append(rows, e), a, e)
         /\ \A a, b : Precedes(Append(rows, e), a, b) => b = e \/ Precedes(rows, a, b)
<1>1. /\ Len(Append(rows, e)) = Len(rows) + 1
      /\ \A i \in 1 .. Len(rows) : Append(rows, e)[i] = rows[i]
      /\ Append(rows, e)[Len(rows) + 1] = e
  BY AppendProperties
<1>2. /\ DOMAIN rows = 1 .. Len(rows) /\ DOMAIN Append(rows, e) = 1 .. (Len(rows) + 1)
      /\ Len(rows) \in Nat
  BY <1>1, AppendProperties
<1>3. \A i \in DOMAIN rows : /\ i \in DOMAIN Append(rows, e) /\ i < Len(rows) + 1
                             /\ Append(rows, e)[i] = rows[i]
  BY <1>1, <1>2
<1>4. \A i, j \in DOMAIN Append(rows, e) :
         i < j => i \in DOMAIN rows /\ (j \in DOMAIN rows \/ j = Len(rows) + 1)
  BY <1>2
<1>5. Len(rows) + 1 \in DOMAIN Append(rows, e)
  BY <1>2
<1>6. \A a, b : Precedes(rows, a, b) => Precedes(Append(rows, e), a, b)
  BY <1>3 DEF Precedes
<1>7. \A a \in Elements(rows) : Precedes(Append(rows, e), a, e)
  BY <1>1, <1>3, <1>5 DEF Precedes, Elements
<1>8. \A a, b : Precedes(Append(rows, e), a, b) => b = e \/ Precedes(rows, a, b)
  BY <1>1, <1>3, <1>4 DEF Precedes
<1>. QED BY <1>6, <1>7, <1>8

\* In a table without repetitions no two requests precede each other.
LEMMA PrecedesOneWay ==
  ASSUME NEW rows \in Seq(Requests), NoRepetition(rows), NEW a, NEW b,
         Precedes(rows, a, b)
  PROVE  ~Precedes(rows, b, a)
<1>1. DOMAIN rows = 1 .. Len(rows) /\ Len(rows) \in Nat
  OBVIOUS
<1>. QED BY <1>1 DEF Precedes, NoRepetition

\* A table without repetitions gains a request that it does not have.
LEMMA NoRepetitionAppend ==
  ASSUME NEW rows \in Seq(Requests), NEW e \in Requests,
         NoRepetition(rows), e \notin Elements(rows)
  PROVE  NoRepetition(Append(rows, e))
<1>1. /\ Len(Append(rows, e)) = Len(rows) + 1
      /\ \A i \in 1 .. Len(rows) : Append(rows, e)[i] = rows[i]
      /\ Append(rows, e)[Len(rows) + 1] = e
      /\ Append(rows, e) \in Seq(Requests)
  BY AppendProperties
<1>2. /\ DOMAIN rows = 1 .. Len(rows) /\ DOMAIN Append(rows, e) = 1 .. (Len(rows) + 1)
      /\ Len(rows) \in Nat
  BY <1>1
<1>3. \A i \in DOMAIN Append(rows, e) :
         \/ i \in DOMAIN rows /\ Append(rows, e)[i] = rows[i]
         \/ i = Len(rows) + 1 /\ Append(rows, e)[i] = e
  BY <1>1, <1>2
<1>. QED BY <1>3 DEF NoRepetition, Elements
--------------------------------------------------------------------------------
(* The invariant: from the acknowledgements back to the insertion, every    *)
(* queue is in order and ahead of the queues that lead to it.               *)

Line(rows, req, sen, tctl, box, una) ==
    /\ \A q \in {req, sen, tctl, box, una} : Ordered(rows, q)
    /\ Ahead(rows, sen, req) /\ Ahead(rows, tctl, req) /\ Ahead(rows, tctl, sen)
    /\ \A q \in {box, una} : Ahead(rows, q, req) /\ Ahead(rows, q, sen)
                                                 /\ Ahead(rows, q, tctl)

InOrder == Line(pending, requested, toSensor, toCtl, inbox, unacked)

\* A session inserts its request at most once: behind the insertion it has left
\* the stages from which it inserts.
Once == /\ NoRepetition(pending)
        /\ \A r \in Rows : stage[r] \notin {"none", "drawn"}

\* A controller that starts has an empty client, so that what the broker sends
\* again cannot come behind something newer.
Fresh == ctl \in {"down", "starting"} => inbox = <<>> /\ ~ctlMqtt

\* What a running controller has not acknowledged it still has, unless it has
\* written it: a crash is the only way to see it again.
Caught == ctl = "running" /\ ctlLink =>
             Elements(unacked) \subseteq Elements(inbox) \cup applied

OnTheWay == Elements(requested) \cup Elements(toSensor) \cup Elements(toCtl)
               \cup Elements(inbox) \cup Elements(unacked)

\* A request that is on its way to its first write has not been overtaken.
Overtaken == /\ applied \subseteq Rows
             /\ \A r \in OnTheWay \ applied, q \in applied : ~Precedes(pending, r, q)

OInv == InOrder /\ Once /\ Fresh /\ Caught /\ Overtaken

\* What the order needs of the invariants that are proved already.
Base == QueuesTyped /\ RestTyped /\ Stored

--------------------------------------------------------------------------------
\* Priming commutes with the operators on the queues.
LEMMA OrderPrimed ==
  /\ InOrder' <=> Line(pending', requested', toSensor', toCtl', inbox', unacked')
  /\ NoRepetition(pending)' <=> NoRepetition(pending')
  /\ OnTheWay' = Elements(requested') \cup Elements(toSensor') \cup Elements(toCtl')
                    \cup Elements(inbox') \cup Elements(unacked')
  /\ \A r, q : Precedes(pending, r, q)' <=> Precedes(pending', r, q)
  BY DEF InOrder, Line, Ordered, Ahead, Elements, Precedes, NoRepetition, OnTheWay

\* What a step keeps that changes neither the queues, the table nor what they
\* are compared with.
LEMMA OrderKept ==
  ASSUME OInv
  PROVE  /\ UNCHANGED <<pending, requested, toSensor, toCtl, inbox, unacked>> => InOrder'
         /\ UNCHANGED <<pending, stage>> => Once'
         /\ UNCHANGED <<ctl, inbox, ctlMqtt>> => Fresh'
         /\ UNCHANGED <<ctl, ctlLink, unacked, inbox, applied>> => Caught'
         /\ UNCHANGED <<pending, applied, requested, toSensor, toCtl, inbox, unacked>>
               => Overtaken'
<1>1. UNCHANGED <<pending, requested, toSensor, toCtl, inbox, unacked>> => InOrder'
  BY OrderPrimed DEF OInv, InOrder
<1>2. UNCHANGED <<pending, stage>> => Once'
  BY OrderPrimed, Primed DEF OInv, Once, Rows
<1>3. UNCHANGED <<ctl, inbox, ctlMqtt>> => Fresh'
  BY DEF OInv, Fresh
<1>4. UNCHANGED <<ctl, ctlLink, unacked, inbox, applied>> => Caught'
  BY Primed DEF OInv, Caught
<1>5. UNCHANGED <<pending, applied, requested, toSensor, toCtl, inbox, unacked>>
         => Overtaken'
  BY OrderPrimed, Primed DEF OInv, Overtaken, OnTheWay, Rows
<1>. QED BY <1>1, <1>2, <1>3, <1>4, <1>5

\* No request can be overtaken by a step that writes none and sends out none.
LEMMA OvertakenKept ==
  ASSUME OInv, UNCHANGED <<pending, applied>>, OnTheWay' \subseteq OnTheWay
  PROVE  Overtaken'
  BY OrderPrimed, Primed DEF OInv, Overtaken, Rows

\* At the start no request exists.
LEMMA InitOInv == Init => OInv
  BY ElementsEmpty
  DEF Init, OInv, InOrder, Line, Once, Fresh, Caught, Overtaken, OnTheWay, Rows,
      Ordered, Ahead, Elements, NoRepetition

\* The row that a session inserts is the newest of the table, and its
\* notification the newest of the line.
LEMMA InsertOInv ==
  ASSUME Base, OInv, NEW r \in Requests, Insert(r)
  PROVE  OInv'
<1>. /\ QueuesTyped /\ RestTyped /\ Stored
     /\ InOrder /\ Once /\ Fresh /\ Caught /\ Overtaken
  BY DEF Base, OInv
<1>. USE DEF serverVars, dispatcherVars, dbVars, ctlVars, mqttVars, Go
<1>1. /\ pending' = Append(pending, r)
      /\ r \notin Rows /\ pending \in Seq(Requests)
      /\ requested' = requested \/ requested' = Append(requested, r)
      /\ UNCHANGED <<toSensor, toCtl, inbox, unacked, applied, ctl, ctlLink, ctlMqtt>>
  BY DEF Insert, Once, Notify, QueuesTyped
<1>2. /\ \A a, b : Precedes(pending, a, b) => Precedes(pending', a, b)
      /\ \A a \in Rows : Precedes(pending', a, r)
      /\ \A a, b : Precedes(pending', a, b) => b = r \/ Precedes(pending, a, b)
  BY <1>1, PrecedesAppend DEF Rows
<1>3. Rows' = Rows \cup {r}
  BY <1>1, ElementsAppend, Primed DEF Rows
<1>4. requested' \in Seq(Requests) /\ Elements(requested') \subseteq Elements(requested) \cup {r}
  <2>1. requested \in Seq(Requests)
    BY DEF QueuesTyped
  <2>2. CASE requested' = requested
    BY <2>1, <2>2
  <2>3. CASE requested' = Append(requested, r)
    BY <2>1, <2>3, ElementsAppend
  <2>. QED BY <1>1, <2>2, <2>3
<1>5. /\ \A q \in {requested, toSensor, toCtl, inbox, unacked} :
            Ordered(pending', q) /\ Elements(q) \subseteq Rows
  BY <1>2 DEF InOrder, Line, Ordered, Stored
<1>6. Ordered(pending', requested')
  <2>1. \A a \in Elements(requested) : Precedes(pending', a, r)
    BY <1>2, <1>5
  <2>2. CASE requested' = requested
    BY <1>5, <2>2
  <2>3. CASE requested' = Append(requested, r)
    BY <1>5, <2>1, <2>3, OrderedAppend DEF QueuesTyped
  <2>. QED BY <1>1, <2>2, <2>3
<1>7. \A q \in {toSensor, toCtl, inbox, unacked} : Ahead(pending', q, requested')
  <2>. SUFFICES ASSUME NEW q \in {toSensor, toCtl, inbox, unacked},
                       NEW a \in Elements(q), NEW b \in Elements(requested')
                PROVE  Precedes(pending', a, b)
    BY DEF Ahead
  <2>1. CASE b = r
    BY <1>2, <1>5, <2>1
  <2>2. CASE b \in Elements(requested)
    BY <1>2, <2>2 DEF InOrder, Line, Ahead
  <2>. QED BY <1>4, <2>1, <2>2
<1>8. /\ Ahead(pending', toCtl, toSensor)
      /\ \A q \in {inbox, unacked} : Ahead(pending', q, toSensor) /\ Ahead(pending', q, toCtl)
  BY <1>2 DEF InOrder, Line, Ahead
<1>9. InOrder'
  BY <1>1, <1>5, <1>6, <1>7, <1>8, OrderPrimed DEF Line
<1>10. Once'
  <2>1. NoRepetition(pending')
    BY <1>1, NoRepetitionAppend DEF Once, Rows
  <2>2. stage' = [stage EXCEPT ![r] = "stored"]
    BY DEF Insert
  <2>. QED BY <1>3, <2>1, <2>2, OrderPrimed DEF Once, RestTyped
<1>11. Overtaken'
  <2>1. OnTheWay' \subseteq OnTheWay \cup {r}
    BY <1>1, <1>4, OrderPrimed DEF OnTheWay
  <2>2. \A q \in applied : q # r /\ ~Precedes(pending, r, q)
    <3>1. \A q : Precedes(pending, r, q) => r \in Rows
      BY DEF Precedes, Rows, Elements
    <3>. QED BY <1>1, <3>1 DEF Overtaken
  <2>3. \A a \in OnTheWay' \ applied, q \in applied : ~Precedes(pending', a, q)
    BY <1>2, <2>1, <2>2 DEF Overtaken
  <2>. QED BY <1>1, <1>3, <2>3, OrderPrimed DEF Overtaken
<1>. QED BY <1>1, <1>9, <1>10, <1>11, OrderKept DEF OInv

--------------------------------------------------------------------------------
(* Steps that only take requests out of the queues.                         *)

Shorter(q, left) == \/ left = q \/ left = <<>>
                    \/ q # <<>> /\ left = Tail(q)

\* A queue that loses its head, or everything, stays in order.
LEMMA ShorterOrdered ==
  ASSUME NEW rows, NEW q \in Seq(Requests), NEW left,
         Ordered(rows, q), Shorter(q, left)
  PROVE  Ordered(rows, left) /\ Elements(left) \subseteq Elements(q)
<1>1. CASE left = q
  BY <1>1
<1>2. CASE left = <<>>
  BY <1>2, ElementsEmpty DEF Ordered
<1>3. CASE q # <<>> /\ left = Tail(q)
  BY <1>3, OrderedTail
<1>. QED BY <1>1, <1>2, <1>3 DEF Shorter

\* A step that only takes requests out of the queues keeps the order.
LEMMA OnlyTaken ==
  ASSUME QueuesTyped, InOrder, UNCHANGED pending,
         Shorter(requested, requested'), Shorter(toSensor, toSensor'),
         Shorter(toCtl, toCtl'), Shorter(inbox, inbox'), Shorter(unacked, unacked')
  PROVE  /\ InOrder'
         /\ OnTheWay' \subseteq OnTheWay
         /\ Elements(unacked)' \subseteq Elements(unacked)
<1>1. /\ Ordered(pending, requested') /\ Elements(requested') \subseteq Elements(requested)
      /\ Ordered(pending, toSensor') /\ Elements(toSensor') \subseteq Elements(toSensor)
      /\ Ordered(pending, toCtl') /\ Elements(toCtl') \subseteq Elements(toCtl)
      /\ Ordered(pending, inbox') /\ Elements(inbox') \subseteq Elements(inbox)
      /\ Ordered(pending, unacked') /\ Elements(unacked') \subseteq Elements(unacked)
  BY ShorterOrdered DEF InOrder, Line, QueuesTyped
<1>2. \A p, q, p2, q2 : Ahead(pending, p, q) /\ Elements(p2) \subseteq Elements(p)
                           /\ Elements(q2) \subseteq Elements(q) => Ahead(pending, p2, q2)
  BY DEF Ahead
<1>3. /\ Ahead(pending, toSensor', requested') /\ Ahead(pending, toCtl', requested')
      /\ Ahead(pending, toCtl', toSensor')
      /\ \A q \in {inbox', unacked'} : Ahead(pending, q, requested')
            /\ Ahead(pending, q, toSensor') /\ Ahead(pending, q, toCtl')
  BY <1>1, <1>2 DEF InOrder, Line
<1>4. InOrder'
  BY <1>1, <1>3, OrderPrimed DEF Line
<1>. QED BY <1>1, <1>4, OrderPrimed, Primed DEF OnTheWay

\* The other steps of a session touch no queue.
LEMMA SessionOInv ==
  ASSUME Base, OInv, NEW r \in Requests, Draw(r) \/ SessionStep(r)
  PROVE  OInv'
<1>. USE DEF serverVars, dispatcherVars, dbVars, ctlVars, mqttVars, Go
<1>1. CASE Insert(r)
  BY <1>1, InsertOInv
<1>2. CASE Draw(r) \/ InsertFails(r) \/ InsertSwallowed(r) \/ Wait(r) \/ Reply(r)
  <2>1. UNCHANGED <<pending, requested, toSensor, toCtl, inbox, unacked, applied,
                    ctl, ctlLink, ctlMqtt>>
    BY <1>2 DEF Draw, InsertFails, InsertSwallowed, Wait, Reply
  <2>2. \A q \in Requests : stage[q] \notin {"none", "drawn"}
                               => stage'[q] \notin {"none", "drawn"}
    BY <1>2 DEF Draw, InsertFails, InsertSwallowed, Wait, Reply, Base, RestTyped
  <2>3. \A q \in Rows : q \in Requests
    BY DEF Base, QueuesTyped, Rows, Elements
  <2>4. Once'
    BY <2>1, <2>2, <2>3, OrderPrimed, Primed DEF OInv, Once, Rows
  <2>. QED BY <2>1, <2>4, OrderKept DEF OInv
<1>. QED BY <1>1, <1>2 DEF SessionStep

--------------------------------------------------------------------------------
(* The write: what is still on its way is newer than what is written.       *)

\* The request that the controller writes is the oldest that is on its way and
\* not written.
LEMMA WriteInTurn ==
  ASSUME Base, OInv, Upsert
  PROVE  /\ Head(inbox) \in OnTheWay /\ Head(inbox) \in Rows
         /\ \A a \in OnTheWay \ applied :
               a = Head(inbox) \/ Precedes(pending, Head(inbox), a)
<1>. DEFINE r == Head(inbox)
<1>. Ordered(pending, inbox) /\ inbox \in Seq(Requests) /\ inbox # <<>>
  BY DEF Upsert, Take, Base, QueuesTyped, OInv, InOrder, Line
<1>1. /\ r \in Elements(inbox)
      /\ \A a \in Elements(inbox) : a = r \/ Precedes(pending, r, a)
  BY OrderedTail
<1>2. \A a \in Elements(requested) \cup Elements(toSensor) \cup Elements(toCtl) :
         Precedes(pending, r, a)
  BY <1>1 DEF OInv, InOrder, Line, Ahead
<1>3. \A a \in Elements(unacked) : a \in Elements(inbox) \/ a \in applied
  BY DEF Upsert, Take, OInv, Caught
<1>. QED BY <1>1, <1>2, <1>3 DEF OnTheWay, Base, Stored

\* upsert_sensor_config keeps the order.
LEMMA UpsertOInv == ASSUME Base, OInv, Upsert PROVE OInv'
<1>. DEFINE r == Head(inbox)
<1>. USE DEF serverVars, dispatcherVars, dbVars, ctlVars, mqttVars
<1>1. /\ Shorter(inbox, inbox') /\ applied' = applied \cup {r}
      /\ inbox' = Tail(inbox) /\ inbox # <<>>
      /\ UNCHANGED <<pending, requested, toSensor, toCtl, unacked, stage,
                     ctl, ctlLink, ctlMqtt>>
  BY DEF Upsert, Take, Shorter
<1>2. InOrder' /\ OnTheWay' \subseteq OnTheWay
  BY <1>1, OnlyTaken DEF Shorter, Base, OInv
<1>3. Elements(inbox) = {r} \cup Elements(inbox')
  BY <1>1, OrderedTail DEF Base, QueuesTyped, OInv, InOrder, Line
<1>4. Caught'
  BY <1>1, <1>3, Primed DEF OInv, Caught
<1>5. Fresh'
  BY <1>1 DEF Upsert, Take, OInv, Fresh
<1>6. Overtaken'
  <2>1. \A a \in OnTheWay' \ applied' : ~Precedes(pending, a, r)
    <3>. SUFFICES ASSUME NEW a \in OnTheWay' \ applied' PROVE ~Precedes(pending, a, r)
      OBVIOUS
    <3>1. Precedes(pending, r, a)
      BY <1>1, <1>2, WriteInTurn
    <3>. QED BY <3>1, PrecedesOneWay DEF Base, QueuesTyped, OInv, Once
  <2>2. applied' \subseteq Rows
    BY <1>1, WriteInTurn DEF OInv, Overtaken
  <2>. QED BY <1>1, <1>2, <2>1, <2>2, OrderPrimed, Primed DEF OInv, Overtaken, Rows
<1>. QED BY <1>1, <1>2, <1>4, <1>5, <1>6, OrderKept DEF OInv

--------------------------------------------------------------------------------
(* Steps that hand requests on.                                             *)

\* The controller, when it forwards a request: the request leaves the head of
\* one queue, and is newer than everything in the next one.
LEMMA ForwardOInv == ASSUME Base, OInv, Forward PROVE OInv'
<1>. USE DEF serverVars, dispatcherVars, dbVars, ctlVars, mqttVars
<1>. DEFINE r == Head(requested)
<1>1. /\ requested # <<>> /\ requested' = Tail(requested)
      /\ toSensor' = toSensor \/ toSensor' = Append(toSensor, r)
      /\ UNCHANGED <<pending, stage, applied, toCtl, inbox, unacked, ctl, ctlLink, ctlMqtt>>
  BY DEF Forward
<1>2. /\ Ordered(pending, requested') /\ r \in Requests
      /\ Elements(requested) = {r} \cup Elements(requested')
      /\ \A a \in Elements(requested') : Precedes(pending, r, a)
  BY <1>1, OrderedTail, ElementsTail DEF Base, QueuesTyped, OInv, InOrder, Line
<1>3. /\ Ordered(pending, toSensor')
      /\ Elements(toSensor') \subseteq Elements(toSensor) \cup {r}
  <2>1. toSensor \in Seq(Requests) /\ Ordered(pending, toSensor)
    BY DEF Base, QueuesTyped, OInv, InOrder, Line
  <2>2. \A a \in Elements(toSensor) : Precedes(pending, a, r)
    BY <1>2 DEF OInv, InOrder, Line, Ahead
  <2>3. CASE toSensor' = toSensor
    BY <2>1, <2>3
  <2>4. CASE toSensor' = Append(toSensor, r)
    BY <1>2, <2>1, <2>2, <2>4, OrderedAppend, ElementsAppend
  <2>. QED BY <1>1, <2>3, <2>4
<1>4. InOrder'
  <2>1. Ahead(pending, toSensor', requested')
    BY <1>2, <1>3 DEF OInv, InOrder, Line, Ahead
  <2>2. \A q \in {toCtl, inbox, unacked} :
           Ahead(pending, q, requested') /\ Ahead(pending, q, toSensor')
    BY <1>2, <1>3 DEF OInv, InOrder, Line, Ahead
  <2>. QED BY <1>1, <1>2, <1>3, <2>1, <2>2, OrderPrimed DEF OInv, InOrder, Line
<1>5. OnTheWay' \subseteq OnTheWay
  BY <1>1, <1>2, <1>3, OrderPrimed DEF OnTheWay
<1>. QED BY <1>1, <1>4, <1>5, OrderKept, OvertakenKept DEF OInv

\* The sensor, when it sends a request back as its event.
LEMMA EchoOInv == ASSUME Base, OInv, Echo PROVE OInv'
<1>. USE DEF serverVars, dispatcherVars, dbVars, ctlVars, mqttVars
<1>. DEFINE r == Head(toSensor)
<1>1. /\ toSensor # <<>> /\ toSensor' = Tail(toSensor)
      /\ toCtl' = Append(toCtl, r)
      /\ UNCHANGED <<pending, stage, applied, requested, inbox, unacked, ctl, ctlLink, ctlMqtt>>
  BY DEF Echo
<1>2. /\ Ordered(pending, toSensor') /\ r \in Requests
      /\ Elements(toSensor) = {r} \cup Elements(toSensor')
      /\ \A a \in Elements(toSensor') : Precedes(pending, r, a)
  BY <1>1, OrderedTail, ElementsTail DEF Base, QueuesTyped, OInv, InOrder, Line
<1>3. /\ Ordered(pending, toCtl')
      /\ Elements(toCtl') = Elements(toCtl) \cup {r}
  <2>1. toCtl \in Seq(Requests) /\ Ordered(pending, toCtl)
    BY DEF Base, QueuesTyped, OInv, InOrder, Line
  <2>2. \A a \in Elements(toCtl) : Precedes(pending, a, r)
    BY <1>2 DEF OInv, InOrder, Line, Ahead
  <2>. QED BY <1>1, <1>2, <2>1, <2>2, OrderedAppend, ElementsAppend
<1>4. InOrder'
  <2>1. Ahead(pending, toCtl', toSensor') /\ Ahead(pending, toCtl', requested)
    BY <1>2, <1>3 DEF OInv, InOrder, Line, Ahead
  <2>2. Ahead(pending, toSensor', requested)
    BY <1>2 DEF OInv, InOrder, Line, Ahead
  <2>3. \A q \in {inbox, unacked} :
           Ahead(pending, q, toSensor') /\ Ahead(pending, q, toCtl')
    BY <1>2, <1>3 DEF OInv, InOrder, Line, Ahead
  <2>. QED BY <1>1, <1>2, <1>3, <2>1, <2>2, <2>3, OrderPrimed DEF OInv, InOrder, Line
<1>5. OnTheWay' \subseteq OnTheWay
  BY <1>1, <1>2, <1>3, OrderPrimed DEF OnTheWay
<1>. QED BY <1>1, <1>4, <1>5, OrderKept, OvertakenKept DEF OInv

\* The broker, when it delivers an event to the client of the controller.
LEMMA DeliverOInv == ASSUME Base, OInv, Deliver PROVE OInv'
<1>. USE DEF serverVars, dispatcherVars, dbVars, ctlVars, mqttVars
<1>. DEFINE r == Head(toCtl)
<1>1. /\ toCtl # <<>> /\ toCtl' = Tail(toCtl) /\ ctlMqtt
      /\ inbox' = Append(inbox, r) /\ unacked' = Append(unacked, r)
      /\ UNCHANGED <<pending, stage, applied, requested, toSensor, ctl, ctlLink, ctlMqtt>>
  BY DEF Deliver
<1>2. /\ Ordered(pending, toCtl') /\ r \in Requests
      /\ Elements(toCtl) = {r} \cup Elements(toCtl')
      /\ \A a \in Elements(toCtl') : Precedes(pending, r, a)
  BY <1>1, OrderedTail, ElementsTail DEF Base, QueuesTyped, OInv, InOrder, Line
<1>3. /\ Ordered(pending, inbox') /\ Elements(inbox') = Elements(inbox) \cup {r}
      /\ Ordered(pending, unacked') /\ Elements(unacked') = Elements(unacked) \cup {r}
  <2>1. /\ inbox \in Seq(Requests) /\ Ordered(pending, inbox)
        /\ unacked \in Seq(Requests) /\ Ordered(pending, unacked)
    BY DEF Base, QueuesTyped, OInv, InOrder, Line
  <2>2. \A a \in Elements(inbox) \cup Elements(unacked) : Precedes(pending, a, r)
    BY <1>2 DEF OInv, InOrder, Line, Ahead
  <2>. QED BY <1>1, <1>2, <2>1, <2>2, OrderedAppend, ElementsAppend
<1>4. InOrder'
  <2>1. Ahead(pending, toCtl', requested) /\ Ahead(pending, toCtl', toSensor)
    BY <1>2 DEF OInv, InOrder, Line, Ahead
  <2>2. \A q \in {inbox', unacked'} :
           Ahead(pending, q, requested) /\ Ahead(pending, q, toSensor)
    BY <1>2, <1>3 DEF OInv, InOrder, Line, Ahead
  <2>3. Ahead(pending, inbox', toCtl') /\ Ahead(pending, unacked', toCtl')
    BY <1>2, <1>3 DEF OInv, InOrder, Line, Ahead
  <2>. QED BY <1>1, <1>2, <1>3, <2>1, <2>2, <2>3, OrderPrimed DEF OInv, InOrder, Line
<1>5. OnTheWay' \subseteq OnTheWay
  BY <1>1, <1>2, <1>3, OrderPrimed DEF OnTheWay
<1>6. Caught' /\ Fresh'
  BY <1>1, <1>3, Primed DEF OInv, Caught, Fresh
<1>. QED BY <1>1, <1>4, <1>5, <1>6, OrderKept, OvertakenKept DEF OInv

\* The broker, when the controller is back: what it sends again is older than
\* the rest of the queue, and the client of the controller is empty.
LEMMA ConnectOInv == ASSUME Base, OInv, ConnectMqtt PROVE OInv'
<1>. USE DEF serverVars, dispatcherVars, dbVars, ctlVars, mqttVars
<1>1. /\ toCtl' = unacked \o toCtl /\ unacked' = <<>> /\ inbox = <<>>
      /\ UNCHANGED <<pending, stage, applied, requested, toSensor, inbox>>
      /\ ctl' = "running"
  BY DEF ConnectMqtt, OInv, Fresh
<1>2. Ordered(pending, toCtl') /\ Elements(toCtl') \subseteq Elements(unacked) \cup Elements(toCtl)
  BY <1>1, OrderedConcat, ElementsConcat DEF Base, QueuesTyped, OInv, InOrder, Line
<1>3. Elements(unacked') = {} /\ Elements(inbox') = {} /\ Ordered(pending, unacked')
  BY <1>1, ElementsEmpty DEF Ordered
<1>4. InOrder'
  <2>1. Ahead(pending, toCtl', requested) /\ Ahead(pending, toCtl', toSensor)
    BY <1>2 DEF OInv, InOrder, Line, Ahead
  <2>2. \A q \in {inbox', unacked'} :
           Ahead(pending, q, requested) /\ Ahead(pending, q, toSensor)
              /\ Ahead(pending, q, toCtl')
    BY <1>3 DEF Ahead
  <2>. QED BY <1>1, <1>2, <1>3, <2>1, <2>2, OrderPrimed DEF OInv, InOrder, Line
<1>5. OnTheWay' \subseteq OnTheWay
  BY <1>1, <1>2, <1>3, OrderPrimed DEF OnTheWay
<1>6. Caught' /\ Fresh'
  BY <1>1, <1>3, Primed DEF Caught, Fresh
<1>. QED BY <1>1, <1>4, <1>5, <1>6, OrderKept, OvertakenKept DEF OInv

\* Acknowledgements, events lost in the controller, faults and restarts take
\* requests away from the front of a queue or empty it.
LEMMA LossOInv ==
  ASSUME Base, OInv,
         UpsertSwallowed \/ ZombieExits \/ PubAck \/ Restart \/ FaultStep
  PROVE  OInv'
<1>. USE DEF serverVars, dispatcherVars, dbVars, ctlVars, mqttVars, Take, Fault, Restart
<1>1. /\ UNCHANGED <<pending, applied>>
      /\ Shorter(requested, requested') /\ Shorter(toSensor, toSensor')
      /\ Shorter(toCtl, toCtl') /\ Shorter(inbox, inbox') /\ Shorter(unacked, unacked')
  BY DEF UpsertSwallowed, ZombieExits, PubAck, FaultStep, ServerStarts, StartController,
         SensorConnects, SensorStops, ServerCrashes, DatabaseRestarts, ControllerCrashes,
         MqttDrops, UpsertFails, Shorter
<1>2. InOrder' /\ OnTheWay' \subseteq OnTheWay /\ Elements(unacked)' \subseteq Elements(unacked)
  BY <1>1, OnlyTaken DEF Base, OInv
<1>3. \A q \in Requests : stage[q] \notin {"none", "drawn"} => stage'[q] \notin {"none", "drawn"}
  BY DEF UpsertSwallowed, ZombieExits, PubAck, FaultStep, ServerStarts, StartController,
         SensorConnects, SensorStops, ServerCrashes, DatabaseRestarts, ControllerCrashes,
         MqttDrops, UpsertFails
<1>4. Once'
  <2>1. \A q \in Rows : q \in Requests
    BY DEF Base, QueuesTyped, Rows, Elements
  <2>. QED BY <1>1, <1>3, <2>1, OrderPrimed, Primed DEF OInv, Once, Rows
<1>5. Fresh'
  BY ElementsEmpty
  DEF OInv, Fresh, UpsertSwallowed, ZombieExits, PubAck, FaultStep, ServerStarts,
      StartController, SensorConnects, SensorStops, ServerCrashes, DatabaseRestarts,
      ControllerCrashes, MqttDrops, UpsertFails
<1>6. Caught'
  <2>1. \/ UNCHANGED inbox /\ (ctl' = "running" /\ ctlLink' => ctl = "running" /\ ctlLink)
        \/ ~(ctl' = "running" /\ ctlLink')
    BY DEF UpsertSwallowed, ZombieExits, PubAck, FaultStep, ServerStarts, StartController,
           SensorConnects, SensorStops, ServerCrashes, DatabaseRestarts, ControllerCrashes,
           MqttDrops, UpsertFails
  <2>. QED BY <1>1, <1>2, <2>1, Primed DEF OInv, Caught
<1>. QED BY <1>1, <1>2, <1>4, <1>5, <1>6, OvertakenKept DEF OInv

--------------------------------------------------------------------------------
\* The table has no repetitions, and every request that is on its way to its
\* first write is newer than those that are written, whatever fails.
LEMMA OrderInvariance == Spec => [](Base /\ OInv)
<1>1. Base /\ OInv /\ [Next]_vars => OInv'
  <2>. SUFFICES ASSUME Base, OInv, [Next]_vars PROVE OInv'
    OBVIOUS
  <2>1. CASE UNCHANGED vars
    BY <2>1, OrderKept DEF OInv, vars, serverVars, dbVars, ctlVars, mqttVars
  <2>2. CASE \E r \in Requests : Draw(r) \/ SessionStep(r)
    BY <2>2, SessionOInv
  <2>3. CASE HandleEvent
    BY <2>3, OrderKept DEF HandleEvent, OInv, ctlVars, mqttVars
  <2>4. CASE ControllerStep \/ BrokerStep \/ Restart \/ FaultStep
    BY <2>4, ForwardOInv, UpsertOInv, EchoOInv, DeliverOInv, ConnectOInv, LossOInv
    DEF ControllerStep, BrokerStep
  <2>. QED BY <2>1, <2>2, <2>3, <2>4 DEF Next
<1>2. IInv /\ TypeOK => Base
  BY DEF IInv, TypeOK, Base, RestTyped
<1>. QED BY <1>1, <1>2, InitOInv, Invariance, TypeCorrect, PTL DEF Spec

\* Requests for one sensor reach sensor_config for the first time in the order
\* in which they were committed (DatabaseManager.cpp:154-200): neither the
\* queues, the restarts nor what the broker sends twice let an older request
\* overtake, for any number of requests and any faults.
THEOREM FirstWritesInOrder == Spec => FirstWriteInOrder
<1>1. Base /\ OInv /\ [Next]_vars =>
         [\A r \in applied' \ applied : \A q \in applied :
             Target[q] = Target[r] => ~Before(r, q)]_vars
  <2>. SUFFICES ASSUME Base, OInv, [Next]_vars,
                       NEW r \in applied' \ applied, NEW q \in applied
                PROVE  ~Before(r, q)
    OBVIOUS
  <2>1. Upsert /\ r = Head(inbox)
    <3>1. applied' # applied
      OBVIOUS
    <3>2. Upsert
      BY <3>1 DEF Next, SessionStep, ControllerStep, BrokerStep, Restart, FaultStep,
         Draw, Insert, InsertFails, InsertSwallowed, Wait, Reply, HandleEvent, Forward,
         UpsertSwallowed, ZombieExits, ConnectMqtt, Deliver, PubAck, Echo, ServerStarts,
         StartController, SensorConnects, SensorStops, ServerCrashes, DatabaseRestarts,
         ControllerCrashes, MqttDrops, UpsertFails, vars, serverVars, dbVars
    <3>. QED BY <3>2 DEF Upsert
  <2>2. r \in OnTheWay \ applied
    BY <2>1, WriteInTurn
  <2>. QED BY <2>2 DEF OInv, Overtaken, Before, Precedes
<1>. QED BY <1>1, OrderInvariance, PTL DEF Spec, FirstWriteInOrder

--------------------------------------------------------------------------------
(* ConfigPipeline implements ConfigPromise.                                 *)

\* A session that has not been answered has told its client nothing.
Untold == \A r \in Requests : phase[r] \in {"new", "open"} => result[r] = "PENDING"

\* Untold holds in every reachable state.
LEMMA UntoldInvariance == Spec => []Untold
<1>1. Init => Untold
  BY DEF Init, DISP!Init, Untold
<1>2. Base /\ IInv /\ Untold /\ [Next]_vars => Untold'
  <2>. SUFFICES ASSUME Base, IInv, Untold, [Next]_vars PROVE Untold'
    OBVIOUS
  <2>. USE DEF serverVars, dispatcherVars
  <2>1. CASE UNCHANGED vars
    BY <2>1 DEF Untold, vars
  <2>2. CASE \E r \in Requests : Draw(r) \/ SessionStep(r)
    <3>. PICK r \in Requests : Draw(r) \/ SessionStep(r)
      BY <2>2
    <3>1. CASE Wait(r)
      BY <3>1 DEF Wait, DISP!Open, DISP!Refuse, Untold, Base, RestTyped, IInv, StateTyped
    <3>2. CASE Reply(r)
      BY <3>2 DEF Reply, DISP!Close, Untold, Base, RestTyped, IInv, StateTyped
    <3>3. CASE Draw(r) \/ Insert(r) \/ InsertFails(r) \/ InsertSwallowed(r)
      BY <3>3 DEF Draw, Insert, InsertFails, InsertSwallowed, Untold
    <3>. QED BY <3>1, <3>2, <3>3 DEF SessionStep
  <2>3. CASE HandleEvent
    BY <2>3 DEF HandleEvent, DISP!Answer, Untold
  <2>4. CASE ControllerStep \/ BrokerStep
    BY <2>4 DEF ControllerStep, BrokerStep, Forward, Upsert, UpsertSwallowed, ZombieExits,
       ConnectMqtt, Deliver, PubAck, Echo, Untold
  <2>5. CASE Restart \/ FaultStep
    BY <2>5 DEF Restart, FaultStep, ServerStarts, StartController, SensorConnects,
       SensorStops, ServerCrashes, DatabaseRestarts, ControllerCrashes, MqttDrops,
       UpsertFails, Untold, Base, RestTyped
  <2>. QED BY <2>1, <2>2, <2>3, <2>4, <2>5 DEF Next
<1>3. IInv /\ TypeOK => Base
  BY DEF IInv, TypeOK, Base, RestTyped
<1>. QED BY <1>1, <1>2, <1>3, Invariance, TypeCorrect, PTL DEF Spec

\* Each step of the system is a step of the promise or changes nothing that
\* the promise is about.
LEMMA PromiseStep ==
  ASSUME Base, IInv, OInv, Untold, [Next]_vars
  PROVE  [Promise!Next]_(Promise!vars)
<1>. USE DEF serverVars, dispatcherVars, dbVars, ctlVars, mqttVars
<1>1. CASE UNCHANGED vars
  BY <1>1 DEF vars, Promise!vars
<1>2. ASSUME NEW r \in Requests, Insert(r) PROVE Promise!Persist(r)
  BY <1>2 DEF Insert, Go, Promise!Persist, Promise!Rows, OInv, Once, Rows, Elements
<1>3. ASSUME NEW r \in Requests, Wait(r)
      PROVE  UNCHANGED Promise!vars \/ Promise!Tell(r, "SYSTEM_FULL")
  BY <1>3 DEF Wait, DISP!Open, DISP!Refuse, Promise!Tell, Promise!vars, Untold
<1>4. ASSUME NEW r \in Requests, Reply(r)
      PROVE  \E outcome \in Promise!Outcomes : Promise!Tell(r, outcome)
  BY <1>4 DEF Reply, DISP!Close, Promise!Tell, Promise!Outcomes, Untold,
              IInv, StateTyped, Reported
<1>5. CASE Upsert
  <2>. DEFINE r == Head(inbox)
  <2>1. /\ r \in Requests /\ r \in Rows
        /\ r \in OnTheWay
    BY <1>5, WriteInTurn, HeadTailProperties DEF Upsert, Take, Base, QueuesTyped
  <2>2. r \in applied \/ Promise!InTurn(r)
    <3>. SUFFICES ASSUME r \notin applied, NEW i \in DOMAIN pending, NEW j \in DOMAIN pending,
                         i < j, pending[i] = r, pending[j] \in applied
                  PROVE  FALSE
      BY DEF Promise!InTurn
    <3>1. Precedes(pending, r, pending[j])
      BY DEF Precedes
    <3>. QED BY <2>1, <3>1 DEF OInv, Overtaken
  <2>3. Promise!Write(r)
    BY <1>5, <2>1, <2>2 DEF Upsert, Promise!Write, Promise!Rows, Rows, Elements
  <2>. QED BY <2>1, <2>3 DEF Promise!Next
<1>6. CASE HandleEvent
  BY <1>6 DEF HandleEvent, DISP!Answer, Promise!vars
<1>7. CASE Forward \/ UpsertSwallowed \/ ZombieExits \/ ConnectMqtt \/ BrokerStep
  BY <1>7 DEF BrokerStep, Forward, UpsertSwallowed, ZombieExits, ConnectMqtt, Deliver,
              PubAck, Echo, Promise!vars
<1>8. CASE Restart \/ FaultStep
  BY <1>8 DEF Restart, FaultStep, ServerStarts, StartController, SensorConnects,
     SensorStops, ServerCrashes, DatabaseRestarts, ControllerCrashes, MqttDrops,
     UpsertFails, Promise!vars
<1>9. ASSUME NEW r \in Requests, Draw(r) \/ InsertFails(r) \/ InsertSwallowed(r)
      PROVE  UNCHANGED Promise!vars
  BY <1>9 DEF Draw, InsertFails, InsertSwallowed, Promise!vars
<1>10. ASSUME NEW r \in Requests, Draw(r) \/ SessionStep(r)
       PROVE  [Promise!Next]_(Promise!vars)
  <2>1. "SYSTEM_FULL" \in Promise!Outcomes
    BY DEF Promise!Outcomes
  <2>. QED BY <1>2, <1>3, <1>4, <1>9, <1>10, <2>1 DEF SessionStep, Promise!Next
<1>. QED BY <1>1, <1>5, <1>6, <1>7, <1>8, <1>10 DEF Next, ControllerStep

\* Without its processes, queues and faults the pipeline is ConfigPromise: the
\* server, the database, the controller, the broker and the sensor together do
\* to the two tables, and tell the clients, nothing else (db.sql:10-20).
THEOREM ImplementsPromise == Spec => KeepsPromise
<1>1. Init => Promise!Init
  BY DEF Init, DISP!Init, Promise!Init
<1>2. Spec => []IInv /\ [](Base /\ OInv) /\ []Untold
  BY Invariance, OrderInvariance, UntoldInvariance
<1>. QED BY <1>1, <1>2, PromiseStep, PTL DEF Spec, KeepsPromise, Promise!Spec
================================================================================
