----------------------------- MODULE EventSender ------------------------------
(***************************************************************************)
(* Sending MTP events over the interrupt endpoint: InterruptWriterThread   *)
(* and BulkWriterThread (transport/usb/threadio.cpp) and the part of       *)
(* MTPTransporterUSB (transport/usb/mtptransporterusb.cpp) that decides    *)
(* when the next event may go out.                                         *)
(*                                                                         *)
(* Events queue up in the writer thread and go out one at a time, each on  *)
(* a sendOne() of the main thread, never while bulk data is being sent or  *)
(* the responder is busy.  sendData() waits, in an event loop of its own,  *)
(* for an event that is on its way.  Events are numbered in the order in   *)
(* which sendEvent() accepts them.                                         *)
(***************************************************************************)
EXTENDS Integers, Sequences

CONSTANTS
    MaxEventsStored,   \* MAX_EVENTS_STORED
    MaxSendFailures,   \* MAX_EVENT_SEND_FAILURES
    Stops,             \* which of "reset", "close", "error" may end the writer thread
    EventBound,        \* bound: events accepted in one behaviour
    StopBound,         \* bound: how often the writer thread is ended
    SessionBound       \* bound: how often a session is opened

ASSUME EventAssumption ==
    /\ MaxEventsStored \in Nat \ {0}
    /\ MaxSendFailures \in Nat \ {0}
    /\ Stops \subseteq {"reset", "close", "error"}
    /\ EventBound \in Nat /\ StopBound \in Nat /\ SessionBound \in Nat

NoEvent == 0

VARIABLES
    \* InterruptWriterThread
    intrPc,        \* "off", "starting" before the first wait, "wait", "woken", "write"
    queue,         \* m_buffers
    held,          \* execute(): dataptr, the event being written or retried
    interrupted,   \* SIGUSR1 has been sent to the thread in write()
    results,       \* posted senderIdle signals the main thread has not handled
    \* MTPTransporterUSB
    open,          \* the endpoint devices are open
    eventsBusy,    \* m_events_busy
    eventsFailed,  \* m_events_failed
    timer,         \* m_event_cancel is running
    inSession,     \* m_inSession
    responderBusy, \* m_responderBusy
    sending,       \* sendData(): "no", "await" the interrupt writer, "write" bulk data
    bulkResult,    \* BulkWriterThread: "none", or the result that is ready
    \* history
    nextEvent,     \* number of the next event
    sent,          \* the events the host has read, in order
    stops,         \* how often the writer thread was ended, for StopBound
    sessions       \* for SessionBound

threadVars == <<intrPc, queue, held, interrupted, results>>
mainVars   == <<open, eventsBusy, eventsFailed, timer, inSession, responderBusy, sending, bulkResult>>
history    == <<nextEvent, sent, stops, sessions>>
vars       == <<threadVars, mainVars, history>>

WriterBusy == sending # "no"    \* m_writer_busy

Init ==
    /\ intrPc = "off"
    /\ queue = <<>> /\ held = NoEvent /\ interrupted = FALSE /\ results = <<>>
    /\ open = FALSE /\ eventsBusy = "idle" /\ eventsFailed = 0 /\ timer = FALSE
    /\ inSession = FALSE /\ responderBusy = TRUE
    /\ sending = "no" /\ bulkResult = "none"
    /\ nextEvent = 1 /\ sent = <<>> /\ stops = 0 /\ sessions = 0

-----------------------------------------------------------------------------
(* InterruptWriterThread::execute() *)

\* The thread takes m_lock and waits.
EnterWait ==
    /\ intrPc = "starting"
    /\ intrPc' = "wait"
    /\ UNCHANGED <<queue, held, interrupted, results, mainVars, history>>

\* Woken with nothing to write: "stray wakeup".
StrayWakeup ==
    /\ intrPc = "woken"
    /\ held = NoEvent /\ queue = <<>>
    /\ results' = Append(results, "success")
    /\ intrPc' = "wait"
    /\ UNCHANGED <<queue, held, interrupted, mainVars, history>>

\* Take the next event, or the one to be retried, and write it unlocked.
TakeEvent ==
    /\ intrPc = "woken"
    /\ held # NoEvent \/ queue # <<>>
    /\ IF held = NoEvent
       THEN held' = Head(queue) /\ queue' = Tail(queue)
       ELSE UNCHANGED <<held, queue>>
    /\ intrPc' = "write"
    /\ UNCHANGED <<interrupted, results, mainVars, history>>

\* The host has read the event.
WriteDone ==
    /\ intrPc = "write"
    /\ sent' = Append(sent, held)
    /\ held' = NoEvent
    /\ interrupted' = FALSE
    /\ results' = Append(results, "success")
    /\ intrPc' = "wait"
    /\ UNCHANGED <<queue, mainVars, nextEvent, stops, sessions>>

\* EINTR after eventTimeout(), or EAGAIN or ESHUTDOWN: the event is kept.
WriteAgain ==
    /\ intrPc = "write"
    /\ interrupted' = FALSE
    /\ results' = Append(results, "retry")
    /\ intrPc' = "wait"
    /\ UNCHANGED <<queue, held, mainVars, history>>

\* Any other errno ends the thread without a senderIdle.
WriteError ==
    /\ "error" \in Stops /\ stops < StopBound
    /\ intrPc = "write"
    /\ held' = NoEvent
    /\ interrupted' = FALSE
    /\ intrPc' = "off"
    /\ stops' = stops + 1
    /\ UNCHANGED <<queue, results, mainVars, nextEvent, sent, sessions>>

WriteInterrupted == interrupted /\ WriteAgain

WriterThread == EnterWait \/ StrayWakeup \/ TakeEvent \/ WriteDone \/ WriteAgain \/ WriteError

-----------------------------------------------------------------------------
(* MTPTransporterUSB, main thread. *)

\* sendOne() wakes the thread; one that has not reached its wait misses it.
SendOne(pc) == IF pc = "wait" THEN "woken" ELSE pc

\* Mutant: an event is started while one is on its way.
SendQueuedEventTwice(busy, t) ==
    IF sending' # "no" \/ responderBusy' \/ ~inSession' \/ busy = "disabled" \/ queue' = <<>>
    THEN eventsBusy' = busy /\ timer' = t /\ intrPc' = intrPc
    ELSE eventsBusy' = "busy" /\ timer' = TRUE /\ intrPc' = SendOne(intrPc)

\* sendQueuedEvent(), called with m_events_busy = busy and the timer in the
\* state t.
SendQueuedEvent(busy, t) ==
    LET blocked == \/ sending' # "no" \/ responderBusy' \/ ~inSession'
                   \/ busy \in {"disabled", "busy"}
                   \/ busy = "idle" /\ queue' = <<>>
    IN  IF blocked
        THEN eventsBusy' = busy /\ timer' = t /\ intrPc' = intrPc
        ELSE IF eventsFailed' >= MaxSendFailures
        THEN eventsBusy' = "disabled" /\ timer' = t /\ intrPc' = intrPc
        ELSE /\ eventsBusy' = "busy"
             /\ timer' = TRUE
             /\ intrPc' = SendOne(intrPc)

\* addData() makes room by dropping the oldest event.
AddData(q, e) == Append(IF Len(q) >= MaxEventsStored THEN Tail(q) ELSE q, e)

\* sendEvent()
SendEvent ==
    /\ inSession
    /\ eventsFailed < MaxSendFailures
    /\ nextEvent <= EventBound
    /\ queue' = AddData(queue, nextEvent)
    /\ nextEvent' = nextEvent + 1
    /\ UNCHANGED <<open, eventsFailed, inSession, responderBusy, sending, bulkResult>>
    /\ SendQueuedEvent(eventsBusy, timer)
    /\ UNCHANGED <<held, interrupted, results, sent, stops, sessions>>

\* eventCompleted(Head(results)).  INTERRUPT_WRITE_FAILURE is never emitted.
\* The result is dropped with "unhandled intr writer result" if none is due.
EventCompleted ==
    /\ results # <<>>
    /\ results' = Tail(results)
    /\ UNCHANGED <<queue, open, inSession, responderBusy, sending, bulkResult>>
    /\ IF eventsBusy # "busy"
       THEN timer' = FALSE /\ UNCHANGED <<eventsBusy, eventsFailed, intrPc>>
       ELSE IF Head(results) = "success"
       THEN eventsFailed' = 0 /\ SendQueuedEvent("idle", FALSE)
       ELSE eventsFailed' = eventsFailed /\ SendQueuedEvent("retry", FALSE)
    /\ UNCHANGED <<held, interrupted, history>>

\* Mutant: the failure is counted, the write() in progress goes on.
EventTimeoutCountsOnly ==
    /\ timer /\ intrPc # "woken"
    /\ timer' = FALSE
    /\ eventsFailed' = IF WriterBusy THEN eventsFailed ELSE eventsFailed + 1
    /\ UNCHANGED <<threadVars, open, eventsBusy, inSession, responderBusy, sending, bulkResult,
                   history>>

\* eventTimeout().  One second is enough for a woken thread to reach write().
EventTimeout ==
    /\ timer
    /\ intrPc # "woken"
    /\ timer' = FALSE
    /\ eventsFailed' = IF WriterBusy THEN eventsFailed ELSE eventsFailed + 1
    /\ IF eventsFailed' = MaxSendFailures /\ ~WriterBusy
       THEN queue' = <<>> ELSE UNCHANGED queue
    /\ interrupted' = (intrPc = "write")
    /\ UNCHANGED <<intrPc, held, results, open, eventsBusy, inSession, responderBusy, sending,
                   bulkResult, nextEvent, sent, stops, sessions>>

\* onCommandPending()
CommandPending ==
    /\ ~responderBusy
    /\ responderBusy' = TRUE
    /\ UNCHANGED <<threadVars, open, eventsBusy, eventsFailed, timer, inSession, sending, bulkResult,
                   history>>

\* onCommandFinished()
CommandFinished ==
    /\ responderBusy
    /\ responderBusy' = FALSE
    /\ UNCHANGED <<queue, open, eventsFailed, inSession, sending, bulkResult>>
    /\ SendQueuedEvent(eventsBusy, timer)
    /\ UNCHANGED <<held, interrupted, results, history>>

\* sessionOpenChanged(~inSession).  A host that opens a session has enumerated
\* the device; a thread started before that has reached its wait.
SessionOpenChanged ==
    /\ ~inSession => sessions < SessionBound /\ open /\ intrPc # "starting"
    /\ inSession' = ~inSession
    /\ sessions' = IF inSession' THEN sessions + 1 ELSE sessions
    /\ eventsFailed' = IF inSession' THEN 0 ELSE eventsFailed
    /\ eventsBusy' = IF eventsBusy = "disabled" THEN "idle" ELSE eventsBusy
    /\ UNCHANGED <<threadVars, open, timer, responderBusy, sending, bulkResult, nextEvent, sent,
                   stops>>

-----------------------------------------------------------------------------
(* sendData() and BulkWriterThread. *)

\* Enter sendData() (a nested call is refused and changes nothing); go on at
\* once unless an event is on its way.
SendData ==
    /\ ~WriterBusy
    /\ sending' = IF eventsBusy = "busy" THEN "await" ELSE "write"
    /\ UNCHANGED <<threadVars, open, eventsBusy, eventsFailed, timer, inSession, responderBusy,
                   bulkResult, history>>

StopAwaiting ==
    /\ sending = "await"
    /\ eventsBusy # "busy"
    /\ sending' = "write"
    /\ UNCHANGED <<threadVars, open, eventsBusy, eventsFailed, timer, inSession, responderBusy,
                   bulkResult, history>>

\* The bulk writer thread has written everything, or has given up.
BulkWritten(result) ==
    /\ sending = "write"
    /\ bulkResult = "none"
    /\ bulkResult' = result
    /\ UNCHANGED <<threadVars, open, eventsBusy, eventsFailed, timer, inSession, responderBusy,
                   sending, history>>

\* sendData() fetches the result, and lets an event go out.
SendDataReturn ==
    /\ sending = "write"
    /\ bulkResult # "none"
    /\ sending' = "no"
    /\ bulkResult' = "none"
    /\ UNCHANGED <<queue, open, eventsFailed, inSession, responderBusy>>
    /\ SendQueuedEvent(eventsBusy, timer)
    /\ UNCHANGED <<held, interrupted, results, history>>

-----------------------------------------------------------------------------
(* Ending and restarting the threads. *)

\* Mutant: the event that was written is kept.
ExitWriterKeeps(q) ==
    /\ UNCHANGED held
    /\ interrupted' = FALSE
    /\ queue' = q
    /\ IF intrPc # "write" THEN UNCHANGED <<results, sent>>
       ELSE results' = Append(results, "success") /\ sent' = Append(sent, held)

\* m_intrWrite.exitThread(): the thread leaves from wherever it is and frees
\* the event it holds.  Only a thread in write() reports a result first.
ExitWriter(q) ==
    /\ held' = NoEvent
    /\ interrupted' = FALSE
    /\ queue' = q
    /\ IF intrPc # "write"
       THEN UNCHANGED <<results, sent>>
       ELSE \/ results' = Append(results, "retry") /\ UNCHANGED sent
            \/ results' = Append(results, "success") /\ sent' = Append(sent, held)

\* m_bulkWrite.exitThread(): a writer in progress ends with what it has written.
ExitBulk ==
    bulkResult' = IF sending = "write" /\ bulkResult = "none" THEN "failed" ELSE bulkResult

Stop(kind, q, pc) ==
    /\ kind \in Stops /\ stops < StopBound
    /\ stops' = stops + 1
    /\ ExitWriter(q)
    /\ ExitBulk
    /\ intrPc' = pc
    /\ UNCHANGED <<eventsBusy, eventsFailed, timer, inSession, responderBusy, sending,
                   nextEvent, sessions>>

\* reset() ends the threads and starts the interrupt writer again.
Reset ==
    /\ open /\ sending = "no"
    /\ Stop("reset", queue, "starting")
    /\ UNCHANGED open

\* closeDevices()
CloseDevices ==
    /\ open
    /\ open' = FALSE
    /\ Stop("close", <<>>, "off")

\* openDevices()
OpenDevices ==
    /\ ~open
    /\ open' = TRUE
    /\ intrPc' = "starting"
    /\ UNCHANGED <<queue, held, interrupted, results, eventsBusy, eventsFailed, timer, inSession,
                   responderBusy, sending, bulkResult, history>>

MainThread ==
    \/ SendEvent \/ EventCompleted \/ EventTimeout
    \/ CommandPending \/ CommandFinished \/ SessionOpenChanged
    \/ SendData \/ StopAwaiting \/ SendDataReturn
    \/ Reset \/ CloseDevices \/ OpenDevices

Next ==
    \/ WriterThread
    \/ \E result \in {"sent", "failed"} : BulkWritten(result)
    \/ MainThread

Spec == Init /\ [][Next]_vars

\* The threads are scheduled, posted signals and an expired timer are served,
\* an interrupted write() returns.  The host need not read anything.
Fairness ==
    /\ WF_vars(EnterWait)
    /\ WF_vars(StrayWakeup)
    /\ WF_vars(TakeEvent)
    /\ WF_vars(WriteInterrupted)
    /\ WF_vars(EventCompleted)
    /\ WF_vars(EventTimeout)
    /\ WF_vars(StopAwaiting)

FairSpec == Spec /\ Fairness

-----------------------------------------------------------------------------
(* Properties. *)

TypeOK ==
    /\ intrPc \in {"off", "starting", "wait", "woken", "write"}
    /\ queue \in Seq(1 .. EventBound) /\ Len(queue) <= MaxEventsStored
    /\ held \in 0 .. EventBound
    /\ interrupted \in BOOLEAN
    /\ results \in Seq({"success", "retry"})
    /\ open \in BOOLEAN
    /\ eventsBusy \in {"idle", "busy", "retry", "disabled"}
    /\ eventsFailed \in 0 .. MaxSendFailures
    /\ timer \in BOOLEAN
    /\ inSession \in BOOLEAN
    /\ responderBusy \in BOOLEAN
    /\ sending \in {"no", "await", "write"}
    /\ bulkResult \in {"none", "sent", "failed"}
    /\ nextEvent \in 1 .. EventBound + 1
    /\ sent \in Seq(1 .. EventBound)
    /\ stops \in Nat
    /\ sessions \in Nat

\* An event is on its way at most once: the thread works on it or has reported
\* on it exactly when m_events_busy says so, and a result is never "unhandled".
ResultExpected ==
    /\ Len(results) <= 1
    /\ results # <<>> => eventsBusy = "busy" /\ intrPc \notin {"woken", "write"}
    /\ intrPc \in {"woken", "write"} => eventsBusy = "busy"

\* The host reads the events in the order in which they were queued and none
\* twice, through retries, overflows and restarts of the thread.
EventsInOrder ==
    /\ \A i, j \in 1 .. Len(sent) : i < j => sent[i] < sent[j]
    /\ held # NoEvent => \A i \in 1 .. Len(sent) : sent[i] < held
    /\ \A i \in 1 .. Len(queue) : /\ held < queue[i]
                                  /\ \A j \in 1 .. Len(sent) : sent[j] < queue[i]
                                  /\ \A j \in 1 .. i - 1 : queue[j] < queue[i]

\* sendData(): "wait until interrupt writer is done with event" ends, whether
\* or not the host ever reads the event, if the writer thread is not ended.
AwaitEnds == sending = "await" ~> sending # "await" \/ stops > 0

=============================================================================
