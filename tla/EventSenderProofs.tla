--------------------------- MODULE EventSenderProofs ---------------------------
(***************************************************************************)
(* Proofs about EventSender, for every length of the queue, every number   *)
(* of failures tolerated and every number of events, restarts and          *)
(* sessions.                                                               *)
(*                                                                         *)
(* ResultExpected is inductive as it stands: it says of the one event on   *)
(* its way who has it, and every step hands it over.  EventsInOrder is     *)
(* not: a step that writes an event needs to know that there is one        *)
(* (WritesAnEvent), a step that queues one that its number is new          *)
(* (Numbered).  The bound on the failures needs TimerMayCount.             *)
(***************************************************************************)
EXTENDS EventSender, SequenceTheorems, TLAPS

-----------------------------------------------------------------------------
(* The inductive invariant. *)

\* The thread writes only an event that it holds.
WritesAnEvent == intrPc = "write" => held # NoEvent

\* Every event there is has been numbered before.
Numbered ==
    /\ held < nextEvent
    /\ \A i \in 1 .. Len(queue) : queue[i] < nextEvent
    /\ \A i \in 1 .. Len(sent) : sent[i] < nextEvent

\* The timer runs only while another failure may be counted.
TimerMayCount == timer => eventsFailed < MaxSendFailures

\* Who has the event on its way, and the events in their order.
Handshake == TypeOK /\ ResultExpected /\ WritesAnEvent /\ TimerMayCount
Order     == Numbered /\ EventsInOrder

IInv == Handshake /\ Order

-----------------------------------------------------------------------------

LEMMA InitIInv == Init => IInv
<1> SUFFICES ASSUME Init PROVE IInv
  OBVIOUS
<1> USE EventAssumption DEF Init, NoEvent
<1>1. TypeOK
  <2>1. queue \in Seq(1 .. EventBound) /\ sent \in Seq(1 .. EventBound) /\ results \in Seq({"success", "retry"})
    OBVIOUS
  <2>2. Len(queue) <= MaxEventsStored /\ held \in 0 .. EventBound /\ nextEvent \in 1 .. EventBound + 1
        /\ eventsFailed \in 0 .. MaxSendFailures
    OBVIOUS
  <2> QED
    BY <2>1, <2>2 DEF TypeOK
<1>2. ResultExpected /\ WritesAnEvent /\ TimerMayCount
  BY DEF ResultExpected, WritesAnEvent, TimerMayCount
<1>3. Order
  BY DEF Order, Numbered, EventsInOrder
<1> QED
  BY <1>1, <1>2, <1>3 DEF IInv, Handshake

-----------------------------------------------------------------------------
(* The order of the events. *)

LEMMA EventNumbers ==
    ASSUME NEW s \in Seq(1 .. EventBound)
    PROVE  Len(s) \in Nat /\ \A i \in 1 .. Len(s) : s[i] \in 1 .. EventBound /\ s[i] \in Nat
<1>1. ASSUME NEW i \in 1 .. Len(s) PROVE s[i] \in 1 .. EventBound
  BY ElementOfSeq
<1> QED
  BY <1>1, EventAssumption

\* Steps that move no event.
LEMMA OrderUnmoved ==
    ASSUME IInv, UNCHANGED <<queue, held, nextEvent, sent>> PROVE Order'
BY DEF IInv, Order, Numbered, EventsInOrder

\* Steps that drop events: all that are queued, the one that is held, or both.
LEMMA OrderDropped ==
    ASSUME IInv, held' \in {held, NoEvent}, queue' \in {queue, <<>>}, UNCHANGED <<nextEvent, sent>>
    PROVE  Order'
<1>1. held' <= held /\ nextEvent \in Nat /\ held \in Nat /\ nextEvent > 0
  BY EventAssumption DEF IInv, Handshake, TypeOK, NoEvent
<1>2. Len(<<>>) = 0
  OBVIOUS
<1>3. CASE queue' = queue
  BY <1>1, <1>3, EventAssumption DEF IInv, Handshake, TypeOK, Order, Numbered, EventsInOrder, NoEvent
<1>4. CASE queue' = <<>>
  BY <1>1, <1>2, <1>4, EventAssumption DEF IInv, Handshake, TypeOK, Order, Numbered, EventsInOrder, NoEvent
<1> QED
  BY <1>3, <1>4

\* The event held has been read by the host; the events queued may have been
\* dropped.
LEMMA OrderSent ==
    ASSUME IInv, held # NoEvent, held' = NoEvent, sent' = Append(sent, held), nextEvent' = nextEvent,
           queue' \in {queue, <<>>}
    PROVE  Order'
<1>1. /\ sent \in Seq(1 .. EventBound) /\ queue \in Seq(1 .. EventBound)
      /\ held \in 1 .. EventBound /\ nextEvent \in Nat
  BY EventAssumption DEF IInv, Handshake, TypeOK, NoEvent
<1>2. /\ Len(sent') = Len(sent) + 1 /\ Len(sent) \in Nat
      /\ \A i \in 1 .. Len(sent) : sent'[i] = sent[i] /\ sent[i] \in Nat
      /\ sent'[Len(sent) + 1] = held
  BY <1>1, EventAssumption
<1>3. Len(queue') \in Nat /\ \A i \in 1 .. Len(queue') : queue'[i] = queue[i] /\ i \in 1 .. Len(queue) /\ queue[i] \in 1 .. EventBound
  <2>1. CASE queue' = queue
    BY <1>1, <2>1, EventNumbers
  <2>2. CASE queue' = <<>>
    BY <2>2
  <2> QED
    BY <2>1, <2>2
<1>4. Numbered'
  BY <1>1, <1>2, <1>3 DEF IInv, Order, Numbered, NoEvent
<1>5. EventsInOrder'
  <2>1. \A i, j \in 1 .. Len(sent') : i < j => sent'[i] < sent'[j]
    <3> SUFFICES ASSUME NEW i \in 1 .. Len(sent'), NEW j \in 1 .. Len(sent'), i < j
                 PROVE  sent'[i] < sent'[j]
      OBVIOUS
    <3>1. i \in 1 .. Len(sent) /\ sent'[i] = sent[i]
      BY <1>2
    <3>2. CASE j = Len(sent) + 1
      BY <1>2, <3>1, <3>2 DEF IInv, Order, EventsInOrder
    <3>3. CASE j \in 1 .. Len(sent)
      BY <1>2, <3>1, <3>3 DEF IInv, Order, EventsInOrder
    <3> QED
      BY <1>2, <3>2, <3>3
  <2>2. \A i \in 1 .. Len(queue') : held' < queue'[i]
    BY <1>1, <1>3 DEF NoEvent
  <2>3. \A i \in 1 .. Len(queue'), j \in 1 .. Len(sent') : sent'[j] < queue'[i]
    BY <1>1, <1>2, <1>3 DEF IInv, Order, EventsInOrder
  <2>4. \A i \in 1 .. Len(queue') : \A j \in 1 .. i - 1 : queue'[j] < queue'[i]
    BY <1>1, <1>3 DEF IInv, Order, EventsInOrder
  <2> QED
    BY <2>1, <2>2, <2>3, <2>4 DEF EventsInOrder
<1> QED
  BY <1>4, <1>5 DEF Order

\* The oldest event queued is taken out.
LEMMA OrderTaken ==
    ASSUME IInv, queue # <<>>, held = NoEvent, held' = Head(queue), queue' = Tail(queue),
           UNCHANGED <<nextEvent, sent>>
    PROVE  Order'
<1>1. queue \in Seq(1 .. EventBound) /\ sent \in Seq(1 .. EventBound)
  BY DEF IInv, Handshake, TypeOK
<1>2. /\ Len(queue) \in Nat \ {0} /\ held' = queue[1]
      /\ Len(queue') = Len(queue) - 1
      /\ \A i \in 1 .. Len(queue) - 1 : queue'[i] = queue[i + 1]
  BY <1>1, HeadTailProperties, EmptySeq
<1>3. Numbered'
  BY <1>1, <1>2 DEF IInv, Order, Numbered
<1>4. EventsInOrder'
  BY <1>1, <1>2 DEF IInv, Order, EventsInOrder
<1> QED
  BY <1>3, <1>4 DEF Order

\* A new event is queued, and takes the room of the oldest one if there is no
\* other.
LEMMA AddDataInOrder ==
    ASSUME NEW q \in Seq(1 .. EventBound), NEW e \in 1 .. EventBound, Len(q) <= MaxEventsStored
    PROVE  /\ AddData(q, e) \in Seq(1 .. EventBound)
           /\ Len(AddData(q, e)) \in 1 .. MaxEventsStored
           /\ AddData(q, e)[Len(AddData(q, e))] = e
           /\ \E d \in {0, 1} : /\ Len(AddData(q, e)) - 1 + d = Len(q)
                                /\ \A i \in 1 .. Len(AddData(q, e)) - 1 : AddData(q, e)[i] = q[i + d]
<1> USE EventAssumption
<1>1. CASE Len(q) >= MaxEventsStored
  <2>1. /\ Tail(q) \in Seq(1 .. EventBound) /\ Len(Tail(q)) = Len(q) - 1
        /\ \A i \in 1 .. Len(q) - 1 : Tail(q)[i] = q[i + 1]
    BY <1>1, HeadTailProperties, EmptySeq
  <2>2. AddData(q, e) = Append(Tail(q), e)
    BY <1>1 DEF AddData
  <2>3. /\ AddData(q, e) \in Seq(1 .. EventBound)
        /\ Len(AddData(q, e)) = Len(q)
        /\ AddData(q, e)[Len(q)] = e
        /\ \A i \in 1 .. Len(q) - 1 : AddData(q, e)[i] = q[i + 1]
    BY <2>1, <2>2, AppendProperties
  <2> QED
    BY <1>1, <2>3
<1>2. CASE ~(Len(q) >= MaxEventsStored)
  <2>1. AddData(q, e) = Append(q, e)
    BY <1>2 DEF AddData
  <2>2. /\ AddData(q, e) \in Seq(1 .. EventBound)
        /\ Len(AddData(q, e)) = Len(q) + 1 /\ Len(q) \in Nat
        /\ AddData(q, e)[Len(q) + 1] = e
        /\ \A i \in 1 .. Len(q) : AddData(q, e)[i] = q[i]
    BY <2>1, AppendProperties
  <2> QED
    BY <1>2, <2>2
<1> QED
  BY <1>1, <1>2

LEMMA OrderQueued ==
    ASSUME IInv, nextEvent <= EventBound, queue' = AddData(queue, nextEvent),
           nextEvent' = nextEvent + 1, UNCHANGED <<held, sent>>
    PROVE  Order'
<1>1. /\ queue \in Seq(1 .. EventBound) /\ sent \in Seq(1 .. EventBound) /\ held \in 0 .. EventBound
      /\ Len(queue) <= MaxEventsStored /\ nextEvent \in 1 .. EventBound
  BY EventAssumption DEF IInv, Handshake, TypeOK
<1>2. /\ queue' \in Seq(1 .. EventBound) /\ Len(queue') \in Nat \ {0}
      /\ queue'[Len(queue')] = nextEvent
  BY <1>1, AddDataInOrder, EventAssumption
<1>3. PICK d \in {0, 1} : /\ Len(queue') - 1 + d = Len(queue)
                          /\ \A i \in 1 .. Len(queue') - 1 : queue'[i] = queue[i + d]
  BY <1>1, AddDataInOrder
<1>4. /\ Len(queue) \in Nat /\ Len(sent) \in Nat
      /\ \A i \in 1 .. Len(queue) : queue[i] \in 1 .. EventBound
      /\ \A i \in 1 .. Len(sent) : sent[i] \in 1 .. EventBound
  BY <1>1, EventNumbers
<1>5. \A i \in 1 .. Len(queue') : \/ i = Len(queue') /\ queue'[i] = nextEvent
                                  \/ /\ i < Len(queue') /\ i + d \in 1 .. Len(queue)
                                     /\ queue'[i] = queue[i + d]
  BY <1>2, <1>3, <1>4
<1>6. Numbered'
  <2>1. held' < nextEvent' /\ \A i \in 1 .. Len(sent') : sent'[i] < nextEvent'
    BY <1>1, <1>4 DEF IInv, Order, Numbered
  <2>2. ASSUME NEW i \in 1 .. Len(queue') PROVE queue'[i] < nextEvent'
    <3>1. CASE queue'[i] = nextEvent
      BY <1>1, <3>1
    <3>2. CASE i + d \in 1 .. Len(queue) /\ queue'[i] = queue[i + d]
      BY <1>1, <1>4, <3>2 DEF IInv, Order, Numbered
    <3> QED
      BY <1>5, <3>1, <3>2
  <2> QED
    BY <2>1, <2>2 DEF Numbered
<1>7. EventsInOrder'
  <2>1. ASSUME NEW i \in 1 .. Len(queue')
        PROVE  held' < queue'[i] /\ \A j \in 1 .. Len(sent') : sent'[j] < queue'[i]
    BY <1>1, <1>4, <1>5, EventAssumption DEF IInv, Order, Numbered, EventsInOrder
  <2>2. ASSUME NEW i \in 1 .. Len(queue'), NEW j \in 1 .. i - 1
        PROVE  queue'[j] < queue'[i]
    <3>1. j \in 1 .. Len(queue') /\ j < i /\ j < Len(queue')
      BY <1>2
    <3>2. j + d \in 1 .. Len(queue) /\ queue'[j] = queue[j + d]
      BY <1>5, <3>1
    <3>3. CASE queue'[i] = nextEvent
      BY <3>2, <3>3 DEF IInv, Order, Numbered
    <3>4. CASE i + d \in 1 .. Len(queue) /\ queue'[i] = queue[i + d]
      BY <1>2, <3>1, <3>2, <3>4 DEF IInv, Order, EventsInOrder
    <3> QED
      BY <1>5, <3>3, <3>4
  <2> QED
    BY <2>1, <2>2 DEF IInv, Order, EventsInOrder
<1> QED
  BY <1>6, <1>7 DEF Order

-----------------------------------------------------------------------------
(* The steps of the writer thread. *)

\* The queue is kept or emptied.
LEMMA QueueKept ==
    ASSUME TypeOK, NEW q \in {queue, <<>>}
    PROVE  q \in Seq(1 .. EventBound) /\ Len(q) <= MaxEventsStored
<1>1. CASE q = queue
  BY <1>1 DEF TypeOK
<1>2. CASE q = <<>>
  <2>1. Len(<<>>) = 0 /\ <<>> \in Seq(1 .. EventBound)
    OBVIOUS
  <2> QED
    BY <1>2, <2>1, EventAssumption
<1> QED
  BY <1>1, <1>2

\* A posted result makes results longer by one.
LEMMA ResultPosted ==
    ASSUME results \in Seq({"success", "retry"}), results = <<>>, NEW r \in {"success", "retry"},
           results' = Append(results, r)
    PROVE  results' \in Seq({"success", "retry"}) /\ Len(results') = 1
OBVIOUS

LEMMA EnterWaitKeeps == ASSUME IInv, EnterWait PROVE IInv'
<1> USE DEF EnterWait, mainVars, history
<1>1. Handshake'
  BY DEF IInv, Handshake, TypeOK, ResultExpected, WritesAnEvent, TimerMayCount
<1> QED
  BY <1>1, OrderUnmoved DEF IInv

\* A thread that is awake owes a result, and none is posted.
LEMMA StrayWakeupKeeps == ASSUME IInv, StrayWakeup PROVE IInv'
<1> USE DEF StrayWakeup, mainVars, history
<1>1. results' \in Seq({"success", "retry"}) /\ Len(results') = 1
  BY ResultPosted DEF IInv, Handshake, TypeOK, ResultExpected
<1>2. Handshake'
  BY <1>1 DEF IInv, Handshake, TypeOK, ResultExpected, WritesAnEvent, TimerMayCount
<1> QED
  BY <1>2, OrderUnmoved DEF IInv

\* The event taken out of the queue is one: it is above the one held, if any.
LEMMA TakeEventKeeps == ASSUME IInv, TakeEvent PROVE IInv'
<1> USE DEF TakeEvent, mainVars, history
<1>1. CASE held # NoEvent
  <2>1. Handshake'
    BY <1>1 DEF IInv, Handshake, TypeOK, ResultExpected, WritesAnEvent, TimerMayCount
  <2> QED
    BY <1>1, <2>1, OrderUnmoved DEF IInv
<1>2. CASE held = NoEvent
  <2>1. queue # <<>> /\ held' = Head(queue) /\ queue' = Tail(queue)
    BY <1>2
  <2>2. /\ held' \in 1 .. EventBound /\ queue' \in Seq(1 .. EventBound)
        /\ Len(queue') <= MaxEventsStored
    BY <2>1, HeadTailProperties, EmptySeq, EventAssumption DEF IInv, Handshake, TypeOK
  <2>3. Handshake'
    BY <2>2 DEF IInv, Handshake, TypeOK, ResultExpected, WritesAnEvent, TimerMayCount, NoEvent
  <2> QED
    BY <1>2, <2>1, <2>3, OrderTaken DEF IInv
<1> QED
  BY <1>1, <1>2

LEMMA WriteDoneKeeps == ASSUME IInv, WriteDone PROVE IInv'
<1> USE DEF WriteDone, mainVars
<1>1. results' \in Seq({"success", "retry"}) /\ Len(results') = 1
  BY ResultPosted DEF IInv, Handshake, TypeOK, ResultExpected
<1>2. sent' \in Seq(1 .. EventBound)
  BY EventAssumption DEF IInv, Handshake, TypeOK, WritesAnEvent, NoEvent
<1>3. Handshake'
  <2>1. TypeOK'
    <3>1. held' \in 0 .. EventBound
      BY EventAssumption DEF NoEvent
    <3> QED
      BY <1>1, <1>2, <3>1 DEF IInv, Handshake, TypeOK
  <2>2. ResultExpected' /\ WritesAnEvent' /\ TimerMayCount'
    BY <1>1 DEF IInv, Handshake, ResultExpected, WritesAnEvent, TimerMayCount
  <2> QED
    BY <2>1, <2>2 DEF Handshake
<1>4. Order'
  BY OrderSent DEF IInv, Handshake, WritesAnEvent
<1> QED
  BY <1>3, <1>4 DEF IInv

LEMMA WriteAgainKeeps == ASSUME IInv, WriteAgain PROVE IInv'
<1> USE DEF WriteAgain, mainVars, history
<1>1. results' \in Seq({"success", "retry"}) /\ Len(results') = 1
  BY ResultPosted DEF IInv, Handshake, TypeOK, ResultExpected
<1>2. Handshake'
  <2>1. TypeOK'
    BY <1>1 DEF IInv, Handshake, TypeOK
  <2>2. ResultExpected' /\ WritesAnEvent' /\ TimerMayCount'
    BY <1>1 DEF IInv, Handshake, ResultExpected, WritesAnEvent, TimerMayCount
  <2> QED
    BY <2>1, <2>2 DEF Handshake
<1> QED
  BY <1>2, OrderUnmoved DEF IInv

LEMMA WriteErrorKeeps == ASSUME IInv, WriteError PROVE IInv'
<1> USE DEF WriteError, mainVars
<1>1. Handshake'
  <2>1. TypeOK'
    <3>1. held' \in 0 .. EventBound /\ stops' \in Nat
      BY EventAssumption DEF IInv, Handshake, TypeOK, NoEvent
    <3> QED
      BY <3>1 DEF IInv, Handshake, TypeOK
  <2>2. ResultExpected' /\ WritesAnEvent' /\ TimerMayCount'
    BY DEF IInv, Handshake, ResultExpected, WritesAnEvent, TimerMayCount
  <2> QED
    BY <2>1, <2>2 DEF Handshake
<1> QED
  BY <1>1, OrderDropped DEF IInv

-----------------------------------------------------------------------------
(* The steps of the main thread. *)

\* Whatever sendQueuedEvent() decides, it starts an event only when none is on
\* its way, and the timer only when a failure may be counted.
LEMMA SendQueuedEventHandsOver ==
    ASSUME NEW busy \in {"idle", "busy", "retry", "disabled"}, NEW t \in BOOLEAN,
           intrPc \in {"off", "starting", "wait", "woken", "write"},
           eventsFailed' \in 0 .. MaxSendFailures, t => eventsFailed' < MaxSendFailures,
           results' # <<>> => busy = "busy" /\ intrPc \notin {"woken", "write"},
           intrPc \in {"woken", "write"} => busy = "busy",
           SendQueuedEvent(busy, t)
    PROVE  /\ intrPc' \in {"off", "starting", "wait", "woken", "write"}
           /\ eventsBusy' \in {"idle", "busy", "retry", "disabled"}
           /\ timer' \in BOOLEAN
           /\ TimerMayCount'
           /\ results' # <<>> => eventsBusy' = "busy" /\ intrPc' \notin {"woken", "write"}
           /\ intrPc' \in {"woken", "write"} => eventsBusy' = "busy"
           /\ intrPc' = "write" => intrPc = "write"
<1> DEFINE blocked == \/ sending' # "no" \/ responderBusy' \/ ~inSession'
                      \/ busy \in {"disabled", "busy"}
                      \/ busy = "idle" /\ queue' = <<>>
<1>1. CASE blocked
  <2>1. eventsBusy' = busy /\ timer' = t /\ intrPc' = intrPc
    BY <1>1 DEF SendQueuedEvent
  <2> QED
    BY <2>1 DEF TimerMayCount
<1>2. CASE ~blocked /\ eventsFailed' >= MaxSendFailures
  <2>1. eventsBusy' = "disabled" /\ timer' = t /\ intrPc' = intrPc /\ busy # "busy"
    BY <1>2 DEF SendQueuedEvent
  <2> QED
    BY <2>1 DEF TimerMayCount
<1>3. CASE ~blocked /\ ~(eventsFailed' >= MaxSendFailures)
  <2>1. eventsBusy' = "busy" /\ timer' = TRUE /\ intrPc' = SendOne(intrPc) /\ busy # "busy"
    BY <1>3 DEF SendQueuedEvent
  <2>2. eventsFailed' < MaxSendFailures
    BY <1>3, EventAssumption
  <2> QED
    BY <2>1, <2>2 DEF SendOne, TimerMayCount
<1> QED
  BY <1>1, <1>2, <1>3

LEMMA SendEventKeeps == ASSUME IInv, SendEvent PROVE IInv'
<1> USE DEF SendEvent
<1>1. queue' \in Seq(1 .. EventBound) /\ Len(queue') <= MaxEventsStored
  BY AddDataInOrder, EventAssumption DEF IInv, Handshake, TypeOK
<1>2. nextEvent' \in 1 .. EventBound + 1
  BY EventAssumption DEF IInv, Handshake, TypeOK
<1>3. /\ intrPc' \in {"off", "starting", "wait", "woken", "write"}
      /\ eventsBusy' \in {"idle", "busy", "retry", "disabled"}
      /\ timer' \in BOOLEAN
      /\ TimerMayCount'
      /\ results' # <<>> => eventsBusy' = "busy" /\ intrPc' \notin {"woken", "write"}
      /\ intrPc' \in {"woken", "write"} => eventsBusy' = "busy"
      /\ intrPc' = "write" => intrPc = "write"
  BY SendQueuedEventHandsOver DEF IInv, Handshake, TypeOK, ResultExpected, TimerMayCount
<1>4. Handshake'
  BY <1>1, <1>2, <1>3 DEF IInv, Handshake, TypeOK, ResultExpected, WritesAnEvent
<1>5. Order'
  BY OrderQueued
<1> QED
  BY <1>4, <1>5 DEF IInv

\* The result that is handled is the only one, and the thread waits.
LEMMA EventCompletedKeeps == ASSUME IInv, EventCompleted PROVE IInv'
<1> USE DEF EventCompleted, history
<1>1. results' = <<>> /\ eventsBusy = "busy" /\ intrPc \notin {"woken", "write"}
  <2>1. Len(results) = 1
    <3>1. results \in Seq({"success", "retry"}) /\ results # <<>>
      BY DEF IInv, Handshake, TypeOK
    <3>2. Len(results) \in Nat \ {0}
      BY <3>1, EmptySeq
    <3>3. Len(results) <= 1
      BY DEF IInv, Handshake, ResultExpected
    <3>4. \A n \in Nat \ {0} : n <= 1 => n = 1
      OBVIOUS
    <3> QED
      BY <3>2, <3>3, <3>4, Zenon
  <2>2. Tail(results) = <<>>
    BY <2>1 DEF IInv, Handshake, TypeOK
  <2> QED
    BY <2>2 DEF IInv, Handshake, ResultExpected
<1>2. eventsFailed' \in 0 .. MaxSendFailures
  <2>1. eventsFailed' = 0 \/ eventsFailed' = eventsFailed
    BY <1>1
  <2> QED
    BY <2>1, EventAssumption DEF IInv, Handshake, TypeOK
<1>3. SendQueuedEvent("idle", FALSE) \/ SendQueuedEvent("retry", FALSE)
  BY <1>1
<1>4. /\ intrPc' \in {"off", "starting", "wait", "woken", "write"}
      /\ eventsBusy' \in {"idle", "busy", "retry", "disabled"}
      /\ timer' \in BOOLEAN
      /\ TimerMayCount'
      /\ intrPc' \in {"woken", "write"} => eventsBusy' = "busy"
      /\ intrPc' = "write" => intrPc = "write"
  <2> intrPc \in {"off", "starting", "wait", "woken", "write"}
    BY DEF IInv, Handshake, TypeOK
  <2>1. CASE SendQueuedEvent("idle", FALSE)
    BY <1>1, <1>2, <2>1, SendQueuedEventHandsOver
  <2>2. CASE SendQueuedEvent("retry", FALSE)
    BY <1>1, <1>2, <2>2, SendQueuedEventHandsOver
  <2> QED
    BY <1>3, <2>1, <2>2
<1>5. Handshake'
  <2>1. Len(<<>>) = 0 /\ <<>> \in Seq({"success", "retry"})
    OBVIOUS
  <2> QED
    BY <1>1, <1>2, <1>4, <2>1 DEF IInv, Handshake, TypeOK, ResultExpected, WritesAnEvent
<1> QED
  BY <1>5, OrderUnmoved DEF IInv

LEMMA EventTimeoutKeeps == ASSUME IInv, EventTimeout PROVE IInv'
<1> USE DEF EventTimeout
<1>1. eventsFailed' \in 0 .. MaxSendFailures
  BY EventAssumption DEF IInv, Handshake, TypeOK, TimerMayCount
<1>2. queue' \in {queue, <<>>} /\ Len(<<>>) = 0 /\ <<>> \in Seq(1 .. EventBound)
  OBVIOUS
<1>3. queue' \in Seq(1 .. EventBound) /\ Len(queue') <= MaxEventsStored
  BY <1>2, QueueKept DEF IInv, Handshake
<1>4. Handshake'
  <2>1. TypeOK'
    BY <1>1, <1>3 DEF IInv, Handshake, TypeOK
  <2>2. ResultExpected' /\ WritesAnEvent' /\ TimerMayCount'
    BY DEF IInv, Handshake, ResultExpected, WritesAnEvent, TimerMayCount
  <2> QED
    BY <2>1, <2>2 DEF Handshake
<1> QED
  BY <1>2, <1>4, OrderDropped DEF IInv

LEMMA CommandFinishedKeeps == ASSUME IInv, CommandFinished PROVE IInv'
<1> USE DEF CommandFinished, history
<1>1. /\ intrPc' \in {"off", "starting", "wait", "woken", "write"}
      /\ eventsBusy' \in {"idle", "busy", "retry", "disabled"}
      /\ timer' \in BOOLEAN
      /\ TimerMayCount'
      /\ results' # <<>> => eventsBusy' = "busy" /\ intrPc' \notin {"woken", "write"}
      /\ intrPc' \in {"woken", "write"} => eventsBusy' = "busy"
      /\ intrPc' = "write" => intrPc = "write"
  BY SendQueuedEventHandsOver DEF IInv, Handshake, TypeOK, ResultExpected, TimerMayCount
<1>2. Handshake'
  BY <1>1 DEF IInv, Handshake, TypeOK, ResultExpected, WritesAnEvent
<1> QED
  BY <1>2, OrderUnmoved DEF IInv

LEMMA SendDataReturnKeeps == ASSUME IInv, SendDataReturn PROVE IInv'
<1> USE DEF SendDataReturn, history
<1>1. /\ intrPc' \in {"off", "starting", "wait", "woken", "write"}
      /\ eventsBusy' \in {"idle", "busy", "retry", "disabled"}
      /\ timer' \in BOOLEAN
      /\ TimerMayCount'
      /\ results' # <<>> => eventsBusy' = "busy" /\ intrPc' \notin {"woken", "write"}
      /\ intrPc' \in {"woken", "write"} => eventsBusy' = "busy"
      /\ intrPc' = "write" => intrPc = "write"
  BY SendQueuedEventHandsOver DEF IInv, Handshake, TypeOK, ResultExpected, TimerMayCount
<1>2. Handshake'
  BY <1>1 DEF IInv, Handshake, TypeOK, ResultExpected, WritesAnEvent
<1> QED
  BY <1>2, OrderUnmoved DEF IInv

\* Steps around the event on its way.
LEMMA SessionOpenChangedKeeps == ASSUME IInv, SessionOpenChanged PROVE IInv'
<1> USE DEF SessionOpenChanged, threadVars
<1>1. Handshake'
  BY EventAssumption DEF IInv, Handshake, TypeOK, ResultExpected, WritesAnEvent, TimerMayCount
<1> QED
  BY <1>1, OrderUnmoved DEF IInv

LEMMA CommandPendingKeeps == ASSUME IInv, CommandPending PROVE IInv'
<1> USE DEF CommandPending, threadVars, history
<1>1. Handshake'
  BY DEF IInv, Handshake, TypeOK, ResultExpected, WritesAnEvent, TimerMayCount
<1> QED
  BY <1>1, OrderUnmoved DEF IInv

LEMMA SendDataKeeps ==
    ASSUME IInv,
           SendData \/ StopAwaiting \/ \E result \in {"sent", "failed"} : BulkWritten(result)
    PROVE  IInv'
<1> USE DEF SendData, StopAwaiting, BulkWritten, threadVars, history
<1>1. Handshake'
  BY DEF IInv, Handshake, TypeOK, ResultExpected, WritesAnEvent, TimerMayCount
<1>2. UNCHANGED <<queue, held, nextEvent, sent>>
  OBVIOUS
<1> QED
  BY <1>1, <1>2, OrderUnmoved DEF IInv

-----------------------------------------------------------------------------
(* Ending and restarting the threads. *)

\* A thread that is ended while it writes posts its result, which was due; it
\* frees the event it holds, and the others stay in order behind those sent.
LEMMA StopKeeps ==
    ASSUME IInv, open' \in BOOLEAN, NEW kind, NEW q \in {queue, <<>>}, NEW pc \in {"off", "starting"},
           Stop(kind, q, pc)
    PROVE  IInv'
<1> USE DEF Stop, ExitWriter, ExitBulk
<1>1. queue' \in Seq(1 .. EventBound) /\ Len(queue') <= MaxEventsStored
  BY QueueKept DEF IInv, Handshake
<1>2. held' = NoEvent /\ held' \in 0 .. EventBound /\ stops' \in Nat
  BY EventAssumption DEF NoEvent, IInv, Handshake, TypeOK
<1>3. bulkResult' \in {"none", "sent", "failed"}
  BY DEF IInv, Handshake, TypeOK
<1>4. CASE intrPc # "write"
  <2>1. Handshake'
    BY <1>1, <1>2, <1>3, <1>4 DEF IInv, Handshake, TypeOK, ResultExpected, WritesAnEvent, TimerMayCount
  <2> QED
    BY <1>2, <1>4, <2>1, OrderDropped DEF IInv
<1>5. CASE intrPc = "write"
  <2>1. /\ held \in 1 .. EventBound /\ held # NoEvent
        /\ eventsBusy = "busy" /\ results = <<>>
    BY <1>5, EventAssumption DEF IInv, Handshake, TypeOK, ResultExpected, WritesAnEvent, NoEvent
  <2>2. results' \in Seq({"success", "retry"}) /\ Len(results') = 1
    BY <1>5, <2>1, ResultPosted DEF IInv, Handshake, TypeOK
  <2>3. sent' = sent \/ sent' = Append(sent, held)
    BY <1>5
  <2>4. sent' \in Seq(1 .. EventBound)
    <3>1. sent \in Seq(1 .. EventBound)
      BY DEF IInv, Handshake, TypeOK
    <3> QED
      <4>1. Append(sent, held) \in Seq(1 .. EventBound)
        BY <2>1, <3>1, AppendProperties
      <4> QED
        BY <2>3, <3>1, <4>1
  <2>5. Handshake'
    <3>1. TypeOK'
      BY <1>1, <1>2, <1>3, <2>2, <2>4 DEF IInv, Handshake, TypeOK
    <3>2. ResultExpected' /\ WritesAnEvent' /\ TimerMayCount'
      BY <2>1, <2>2 DEF IInv, Handshake, ResultExpected, WritesAnEvent, TimerMayCount
    <3> QED
      BY <3>1, <3>2 DEF Handshake
  <2>6. Order'
    BY <1>2, <2>1, <2>3, OrderDropped, OrderSent
  <2> QED
    BY <2>5, <2>6 DEF IInv
<1> QED
  BY <1>4, <1>5

LEMMA RestartKeeps == ASSUME IInv, Reset \/ CloseDevices \/ OpenDevices PROVE IInv'
<1>1. CASE Reset
  BY <1>1, StopKeeps DEF Reset, IInv, Handshake, TypeOK
<1>2. CASE CloseDevices
  BY <1>2, StopKeeps DEF CloseDevices
<1>3. CASE OpenDevices
  <2> USE <1>3 DEF OpenDevices, history
  <2>1. Handshake'
    BY DEF IInv, Handshake, TypeOK, ResultExpected, WritesAnEvent, TimerMayCount
  <2> QED
    BY <2>1, OrderUnmoved DEF IInv
<1> QED
  BY <1>1, <1>2, <1>3

-----------------------------------------------------------------------------

LEMMA NextIInv == IInv /\ [Next]_vars => IInv'
<1> SUFFICES ASSUME IInv, [Next]_vars PROVE IInv'
  OBVIOUS
<1>1. CASE WriterThread
  BY <1>1, EnterWaitKeeps, StrayWakeupKeeps, TakeEventKeeps, WriteDoneKeeps, WriteAgainKeeps,
     WriteErrorKeeps DEF WriterThread
<1>2. CASE SendEvent \/ EventCompleted \/ EventTimeout
  BY <1>2, SendEventKeeps, EventCompletedKeeps, EventTimeoutKeeps
<1>3. CASE CommandPending \/ CommandFinished \/ SessionOpenChanged
  BY <1>3, CommandPendingKeeps, CommandFinishedKeeps, SessionOpenChangedKeeps
<1>4. CASE SendData \/ StopAwaiting \/ \E result \in {"sent", "failed"} : BulkWritten(result)
  BY <1>4, SendDataKeeps
<1>5. CASE SendDataReturn
  BY <1>5, SendDataReturnKeeps
<1>6. CASE Reset \/ CloseDevices \/ OpenDevices
  BY <1>6, RestartKeeps
<1>7. CASE UNCHANGED vars
  <2>1. Handshake'
    BY <1>7 DEF vars, threadVars, mainVars, history, IInv, Handshake, TypeOK, ResultExpected,
                WritesAnEvent, TimerMayCount
  <2> QED
    BY <1>7, <2>1, OrderUnmoved DEF vars, threadVars, mainVars, history, IInv
<1> QED
  BY <1>1, <1>2, <1>3, <1>4, <1>5, <1>6, <1>7 DEF Next, MainThread

\* The inductive invariant holds in every reachable state: who has the event on
\* its way, and where the events are in the order they were queued.
THEOREM Invariance == Spec => []IInv
BY InitIInv, NextIInv, PTL DEF Spec

\* All variables keep their types; no more than MAX_EVENTS_STORED events are
\* queued and no more than MAX_EVENT_SEND_FAILURES failures counted.
THEOREM TypeCorrect == Spec => []TypeOK
<1>1. IInv => TypeOK
  BY DEF IInv, Handshake
<1> QED
  BY <1>1, Invariance, PTL

\* m_events_busy is accurate: an event is started only when the one before has
\* been reported on, through time-outs, retries and restarts of the thread.
THEOREM OneEventOnItsWay == Spec => []ResultExpected
<1>1. IInv => ResultExpected
  BY DEF IInv, Handshake
<1> QED
  BY <1>1, Invariance, PTL

\* The host reads the events in the order in which sendEvent() accepted them,
\* none twice.
THEOREM EventsReadInOrder == Spec => []EventsInOrder
<1>1. IInv => EventsInOrder
  BY DEF IInv, Order
<1> QED
  BY <1>1, Invariance, PTL

=============================================================================
