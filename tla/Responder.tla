------------------------------- MODULE Responder -------------------------------
(***************************************************************************)
(* The transaction state machine of MTPResponder (protocol/                *)
(* mtpresponder.cpp) between a host and the USB transport.                 *)
(*                                                                         *)
(* The responder runs in one thread, inside receiveContainer(), but        *)
(* sendData() and processTransportEvents() run event loops of their own:   *)
(* a cancel, a device reset or the end of the bus session can take the     *)
(* request away from under the handler that works on it.  Packets cannot   *)
(* (handleDataReady postpones them).  "handler" is what the handler does   *)
(* when its event loop ends.                                               *)
(*                                                                         *)
(* The bulk endpoint and the control endpoint are not ordered against each *)
(* other: a cancel may be handled before packets that were sent before it. *)
(*                                                                         *)
(* Operations are classed by the shape of their transaction.  Suspend and  *)
(* resume (no caller) and RESPONDER_WAIT_STORAGE (the transport delivers   *)
(* nothing before the storage is ready) cannot occur and are left out.     *)
(***************************************************************************)
EXTENDS Integers, Sequences

CONSTANTS
    Ops,           \* the classes of operations the host uses
    Ends,          \* op -> how it may end early: by "cancel", "reset", "stop" of the bus
    StreamErrors,  \* operations that may come to an end in the middle of reading or writing
                   \* an object: it fails, or SendObject has more data than was described
    TxnBound,      \* bound: transactions the host begins
    SegmentBound,  \* bound: segments of an object after the first
    WireBound,     \* packets the bulk OUT pipe holds before the host blocks
    IdWrap,        \* 2^16: a response is given its transaction id as a quint16
    SignalBound    \* bound: cancels, device resets and bus stops

AllOps == {"open", "close", "plain", "dataIn", "getThumb", "getObject", "getPartial",
           "copy", "setProp", "sendObject", "sendPartial"}

ASSUME ResponderAssumption ==
    /\ Ops \subseteq AllOps
    /\ Ends \in [Ops -> SUBSET {"cancel", "reset", "stop"}]
    /\ StreamErrors \subseteq Ops \cap {"getObject", "getPartial", "sendObject", "sendPartial"}
    /\ TxnBound \in Nat /\ SegmentBound \in Nat /\ SignalBound \in Nat
    /\ WireBound \in Nat \ {0} /\ IdWrap \in Nat \ {0}

VARIABLES
    \* MTPResponder
    state,       \* m_state_accessor_only: "idle", "waitData", "waitResp", "cancel"
    req, data,   \* m_transactionSequence: reqContainer, dataContainer
    mtpResp,     \* m_transactionSequence->mtpResp
    session,     \* m_transactionSequence->mtpSessionId is set
    idleTimer,   \* m_handler_idle_timer is running
    handler,     \* the handler in progress inside receiveContainer()
    crashed,     \* a null pointer was dereferenced
    \* MTPTransporterUSB
    pending,     \* m_responderBusy: commandPending since the last commandIdle
    inSession,   \* m_inSession
    status,      \* the device status GET_DEVICE_STATUS reports
    left,        \* m_containerReadLen, in packets
    refused,     \* history: the responder has refused a packet and reset the transport
    over,        \* history: transactions that were cancelled or reset away
    survived,    \* history: a piece read before the bus stopped was delivered after it
    \* the host and the endpoints
    wire,        \* bulk OUT: packets sent and not yet delivered
    ctrl,        \* control endpoint: signals posted and not yet handled
    host,        \* the host's transaction
    signals      \* for SignalBound

transaction == <<state, req, data, mtpResp, session, idleTimer>>
transport   == <<pending, inSession, status, left>>
history     == <<refused, over, survived>>
environment == <<wire, ctrl, host, signals>>
vars == <<transaction, handler, crashed, transport, history, environment>>

Container(type, op, txn) == [type |-> type, op |-> op, txn |-> txn]
NoContainer == Container("none", "none", 0)
Junk        == Container("junk", "junk", 0)

NoHandler == [step |-> "none", op |-> "none", txn |-> 0, code |-> "ok",
              done |-> TRUE, sent |-> TRUE, more |-> 0]

Init ==
    /\ state = "idle" /\ req = NoContainer /\ data = NoContainer
    /\ mtpResp = "ok" /\ session = FALSE /\ idleTimer = FALSE
    /\ handler = NoHandler /\ crashed = FALSE
    /\ pending = TRUE /\ inSession = FALSE /\ status = "ok"
    /\ left = 0 /\ refused = FALSE /\ over = {} /\ survived = FALSE
    /\ wire = <<>> /\ ctrl = <<>> /\ signals = 0
    /\ host = [phase |-> "ready", txn |-> 0, op |-> "none", units |-> 0, todo |-> 0]

-----------------------------------------------------------------------------
(* The host.  It finishes a data phase before it reads. *)

HasDataPhase(op) == op \in {"setProp", "sendObject", "sendPartial"}

HostCommand(op) ==
    /\ host.phase = "ready" /\ host.txn < TxnBound
    /\ Len(wire) < WireBound
    /\ wire' = Append(wire, [as |-> Container("cmd", op, host.txn + 1), units |-> 1, begin |-> TRUE])
    /\ IF HasDataPhase(op)
       THEN \E n \in 1 .. 2 : host' = [phase |-> "data", txn |-> host.txn + 1, op |-> op,
                                       units |-> n, todo |-> n]
       ELSE host' = [phase |-> "await", txn |-> host.txn + 1, op |-> op, units |-> 0, todo |-> 0]
    /\ UNCHANGED <<transaction, handler, crashed, transport, history, ctrl, signals>>

HostData ==
    /\ host.phase = "data"
    /\ Len(wire) < WireBound
    /\ wire' = Append(wire, [as |-> Container("data", host.op, host.txn), units |-> host.units,
                             begin |-> host.todo = host.units])
    /\ host' = [host EXCEPT !.todo = @ - 1, !.phase = IF host.todo = 1 THEN "await" ELSE "data"]
    /\ UNCHANGED <<transaction, handler, crashed, transport, history, ctrl, signals>>

\* The host reads what sendData() is writing.
HostTakes ==
    /\ handler.step \in {"data", "more", "resp"} /\ ~handler.done
    /\ host.phase # "data"
    /\ handler' = [handler EXCEPT !.done = TRUE]
    /\ host' = IF handler.step = "resp" /\ host.phase = "await" /\ handler.txn = host.txn
               THEN [host EXCEPT !.phase = "ready"] ELSE host
    /\ UNCHANGED <<transaction, crashed, transport, history, wire, ctrl, signals>>

\* The host cancels its transaction or resets the device.
HostSignals(kind) ==
    /\ host.phase \in {"data", "await"}
    /\ kind \in Ends[host.op] /\ signals < SignalBound
    /\ signals' = signals + 1
    /\ ctrl' = Append(ctrl, kind)
    /\ host' = [host EXCEPT !.phase = "waiting"]
    /\ UNCHANGED <<transaction, handler, crashed, transport, history, wire>>

\* It polls the device status before it goes on.  The thread that answers has
\* posted the signal before.
HostResumes ==
    /\ host.phase = "waiting"
    /\ ctrl = <<>> /\ status = "ok"
    /\ host' = [host EXCEPT !.phase = "ready"]
    /\ UNCHANGED <<transaction, handler, crashed, transport, history, wire, ctrl, signals>>

-----------------------------------------------------------------------------
(* Parts of the responder's functions. *)

\* Mutant: m_handler_idle_timer is not started.
SetStateNoTimer(s) ==
    /\ state' = s
    /\ pending' = IF state = "idle" /\ s # "idle" THEN TRUE ELSE pending
    /\ idleTimer' = (idleTimer /\ s = "idle")

\* setResponderState(s)
SetState(s) ==
    /\ state' = s
    /\ pending' = IF state = "idle" /\ s # "idle" THEN TRUE ELSE pending
    /\ idleTimer' = IF (state = "idle") = (s = "idle") THEN idleTimer ELSE s = "idle"

\* Mutant: the state becomes idle only when the response has been sent.
PassToStateLate(s) ==
    /\ state' = IF s = "idle" THEN "waitResp" ELSE s
    /\ pending' = TRUE
    /\ idleTimer' = FALSE

\* receiveContainer() of a request passes through a busy state and ends in s.
PassToState(s) ==
    /\ state' = s
    /\ pending' = TRUE
    /\ idleTimer' = (s = "idle")

DeviceStatusOK == status' = "ok"

\* deleteStoredRequest()
DeleteRequest == req' = NoContainer /\ data' = NoContainer

Sending(step, op, txn, code, more) ==
    [step |-> step, op |-> op, txn |-> txn, code |-> code, done |-> FALSE, sent |-> TRUE, more |-> more]

Answer(op, txn, code) == Sending("resp", op, txn % IdWrap, code, 0)

\* Mutant: the state becomes idle too late.
SendResponseLate(op, code, hasParam) ==
    /\ handler' = IF req = NoContainer \/ state = "cancel" THEN NoHandler ELSE Answer(op, req.txn, code)
    /\ crashed' = (crashed \/ (req = NoContainer /\ hasParam))
    /\ UNCHANGED <<state, pending, idleTimer>>

\* sendResponse() to the stored request.  The variant with a parameter does
\* not look whether there still is one.  The state is idle before the transfer
\* starts.
SendResponse(op, code, hasParam) ==
    IF req = NoContainer
    THEN /\ crashed' = (crashed \/ hasParam)
         /\ handler' = NoHandler
         /\ UNCHANGED <<state, pending, idleTimer>>
    ELSE IF state = "cancel"
    THEN handler' = NoHandler /\ UNCHANGED <<crashed, state, pending, idleTimer>>
    ELSE /\ SetState("idle")
         /\ handler' = Answer(op, req.txn, code)
         /\ UNCHANGED crashed

\* closeSession()
DropSession ==
    /\ session' = FALSE
    /\ DeleteRequest
    /\ SetState("idle")
    /\ over' = over \cup {req.txn}
    /\ UNCHANGED mtpResp

-----------------------------------------------------------------------------
(* processReceivedData() and receiveContainer(). *)

\* The packets the container at the head of the pipe has left, this one
\* included, as the transport sees it: a header that is none says anything.
UnitsDue ==
    IF left > 0 THEN {left}
    ELSE IF Head(wire).begin THEN {Head(wire).units} ELSE 1 .. 2

HeadContainer == IF Head(wire).begin THEN Head(wire).as ELSE Junk

Delivering == handler.step = "none" /\ wire # <<>>

NextPacket(u) ==
    /\ wire' = Tail(wire)
    /\ left' = u - 1

\* commandHandler() and the handler of the operation, up to its first event
\* loop; ok says whether the handler's own checks pass.
Command(c, ok) ==
    LET granted == ok /\ (session \/ c.op \in {"open", "close"}) /\ c.op # "junk"
        Respond(code) == /\ PassToState("idle")
                         /\ handler' = Answer(c.op, c.txn, code)
                         /\ UNCHANGED mtpResp
        Stay(s) == PassToState(s) /\ handler' = NoHandler
        Begin(step, more) == /\ PassToState("waitResp")
                             /\ handler' = Sending(step, c.op, c.txn, "ok", more)
                             /\ mtpResp' = "ok"
    IN
    /\ session' = CASE c.op = "open"  -> session \/ granted
                    [] c.op = "close" -> FALSE
                    [] OTHER          -> session
    /\ inSession' = IF c.op = "close" /\ session THEN FALSE ELSE inSession
    /\ \/ HasDataPhase(c.op) /\ Stay("waitData") /\ mtpResp' = IF granted THEN "ok" ELSE "error"
       \/ c.op \in {"plain", "junk"} /\ Respond(IF granted THEN "ok" ELSE "error")
       \/ c.op = "open" /\ Respond(IF granted /\ ~session THEN "ok" ELSE "error")
       \/ c.op = "close" /\ Respond(IF session THEN "ok" ELSE "error")
       \/ c.op = "getThumb" /\ ~granted /\ Stay("waitResp") /\ mtpResp' = "ok"
       \/ c.op \in {"dataIn", "getObject", "getPartial", "copy"} /\ ~granted /\ Respond("error")
       \/ c.op \in {"dataIn", "getThumb"} /\ granted /\ Begin("data", 0)
       \/ /\ c.op \in {"getObject", "getPartial"} /\ granted
          /\ \E n \in 0 .. SegmentBound : Begin("data", n)
       \/ c.op = "copy" /\ granted /\ Begin("copy", 0)

\* What is accepted as a request: one packet, whatever its container type.
IsRequest(u) == left = 0 /\ u = 1

ReceiveRequest ==
    /\ Delivering
    /\ state \in {"idle", "cancel"}
    /\ \E u \in UnitsDue : IsRequest(u) /\ NextPacket(u)
    /\ req' = HeadContainer
    /\ status' = "busy"
    /\ \E ok \in BOOLEAN : Command(HeadContainer, ok)
    /\ UNCHANGED <<data, crashed, history, ctrl, host, signals>>

\* Mutant: the response does not wait for the last packet.
AnswerDueAtOnce(u) == TRUE

\* sendObjectData() answers an error at once, and an object that is complete:
\* when the size that was described has been written (sendObjectCheck).
\* Everything else waits for the last packet.
AnswerDue(u) == u = 1 \/ (req.op = "sendObject" /\ req.op \in StreamErrors /\ mtpResp = "ok")

\* Objects are written packet by packet, other data when it is complete.
Streamed(op) == op \in {"sendObject", "sendPartial"}

\* dataHandler().  SendPartialObject remembers an error until the last packet.
ReceiveData ==
    /\ Delivering
    /\ state = "waitData" /\ req # NoContainer
    /\ \E u \in UnitsDue :
         LET first == left = 0
             last == u = 1
             whole == IF Streamed(req.op) THEN NoContainer
                      ELSE IF first THEN HeadContainer ELSE data
             matches == whole = NoContainer \/ (whole.txn = req.txn /\ whole.op = req.op)
             Outcomes == IF mtpResp # "ok" \/ ~matches THEN {"error"} ELSE {"ok", "error"}
         IN
         /\ NextPacket(u)
         /\ status' = IF first THEN "busy" ELSE status
         /\ data' = whole
         /\ \/ /\ ~last
               /\ mtpResp' \in IF req.op = "sendPartial" /\ req.op \in StreamErrors THEN {mtpResp, "error"} ELSE {mtpResp}
               /\ UNCHANGED <<handler, crashed, state, pending, idleTimer>>
            \/ /\ AnswerDue(u)
               /\ UNCHANGED mtpResp
               /\ \E code \in Outcomes : SendResponse(req.op, code, FALSE)
    /\ UNCHANGED <<req, session, inSession, history, ctrl, host, signals>>

\* "Invalid container received!" and "Container received in wrong state!":
\* reset() of the transport discards what the reader has read so far.
ReceiveRefused ==
    /\ Delivering
    /\ state # "waitData"
    /\ state = "waitResp" \/ \E u \in UnitsDue : ~IsRequest(u)
    /\ req' = IF state = "waitResp" THEN req ELSE NoContainer
    /\ \E k \in 1 .. Len(wire) : wire' = SubSeq(wire, k + 1, Len(wire))
    /\ left' = 0
    /\ refused' = TRUE
    /\ SetState("idle")
    /\ UNCHANGED <<data, mtpResp, session, handler, crashed, inSession, status, over, survived,
                   ctrl, host, signals>>

-----------------------------------------------------------------------------
(* The handler goes on when sendData() or the copying returns. *)

Returns(step) == handler.step = step /\ handler.done

\* A single data container has been sent; only getThumbReq() looks at whether it
\* arrived, and does not answer if it did not.
DataSent ==
    /\ Returns("data") /\ handler.op \in {"dataIn", "getThumb"}
    /\ IF handler.op = "getThumb" /\ ~handler.sent
       THEN handler' = NoHandler /\ UNCHANGED <<crashed, state, pending, idleTimer>>
       ELSE SendResponse(handler.op, "ok", FALSE)
    /\ UNCHANGED <<req, data, mtpResp, session, inSession, status, left, history, environment>>

\* Mutant: the offset is not advanced.
SegmentSentAgain ==
    /\ Returns("data") \/ Returns("more")
    /\ handler.op \in {"getObject", "getPartial"}
    /\ IF handler.more = 0
       THEN SendResponse(handler.op, "ok", handler.op = "getPartial")
       ELSE /\ handler' = Sending("more", handler.op, handler.txn, "ok", handler.more)
            /\ UNCHANGED <<crashed, state, pending, idleTimer>>
    /\ UNCHANGED <<req, data, mtpResp, session, inSession, status, left, history, environment>>

\* sendObjectSegmented(): send the next segment whatever happened to the
\* transaction; give up when a segment could not be sent or read.
SegmentSent ==
    /\ Returns("data") \/ Returns("more")
    /\ handler.op \in {"getObject", "getPartial"}
    /\ LET failed == handler.step = "more" /\ ~handler.sent IN
       \/ /\ ~failed /\ handler.more = 0
          /\ SendResponse(handler.op, "ok", handler.op = "getPartial")
       \/ /\ ~failed /\ handler.more > 0
          /\ handler' = Sending("more", handler.op, handler.txn, "ok", handler.more - 1)
          /\ UNCHANGED <<crashed, state, pending, idleTimer>>
       \/ /\ failed \/ (handler.op \in StreamErrors /\ handler.more > 0)
          /\ handler' = NoHandler
          /\ UNCHANGED <<crashed, state, pending, idleTimer>>
    /\ UNCHANGED <<req, data, mtpResp, session, inSession, status, left, history, environment>>

\* Mutant: the state is not looked at after the copying.
CopyDoneUnchecked ==
    /\ handler.step = "copy"
    /\ \E code \in {"ok", "error"} : SendResponse("copy", code, TRUE)
    /\ UNCHANGED <<req, data, mtpResp, session, inSession, status, left, history, environment>>

\* copyObjectReq(): the copy is complete, has failed or was cancelled.
CopyDone ==
    /\ handler.step = "copy"
    /\ IF state = "cancel"
       THEN handler' = NoHandler /\ UNCHANGED <<crashed, state, pending, idleTimer>>
       ELSE \E code \in {"ok", "error"} : SendResponse("copy", code, TRUE)
    /\ UNCHANGED <<req, data, mtpResp, session, inSession, status, left, history, environment>>

\* Mutant: the session is announced whatever the answer was.
SessionOpenedAnyway == handler.op = "open"

SessionOpened == handler.op = "open" /\ handler.code = "ok"

\* sendContainer() after the response was sent; openSessionReq() then announces
\* the session.
ResponseSent ==
    /\ Returns("resp")
    /\ DeleteRequest
    /\ DeviceStatusOK
    /\ inSession' = (inSession \/ SessionOpened)
    /\ handler' = NoHandler
    /\ UNCHANGED <<state, mtpResp, session, idleTimer, crashed, pending, left, history, environment>>

\* onIdleTimeout(), onCommandFinished()
IdleTimeout ==
    /\ idleTimer
    /\ idleTimer' = FALSE
    /\ pending' = FALSE
    /\ UNCHANGED <<state, req, data, mtpResp, session, handler, crashed, inSession, status, left,
                   history, environment>>

-----------------------------------------------------------------------------
(* Signals, handled in any event loop. *)

\* Mutant: the transaction goes on.
CancelTransactionIgnored ==
    /\ ctrl # <<>> /\ Head(ctrl) = "cancel"
    /\ ctrl' = Tail(ctrl)
    /\ over' = over \cup {req.txn}
    /\ DeviceStatusOK
    /\ UNCHANGED <<transaction, handler, crashed, pending, inSession, left, refused, survived, wire,
                   host, signals>>

\* handleCancelTransaction()
CancelTransaction ==
    /\ ctrl # <<>> /\ Head(ctrl) = "cancel"
    /\ ctrl' = Tail(ctrl)
    /\ IF req = NoContainer
       THEN UNCHANGED <<req, data, state, pending, idleTimer>>
       ELSE SetState("cancel") /\ DeleteRequest
    /\ over' = over \cup {req.txn}
    /\ DeviceStatusOK
    /\ UNCHANGED <<mtpResp, session, handler, crashed, inSession, left, refused, survived, wire,
                   host, signals>>

\* handleDeviceReset()
DeviceReset ==
    /\ ctrl # <<>> /\ Head(ctrl) = "reset"
    /\ ctrl' = Tail(ctrl)
    /\ DropSession
    /\ DeviceStatusOK
    /\ UNCHANGED <<handler, crashed, inSession, left, refused, survived, wire, host, signals>>

\* Mutant: the received data is kept.
DiscardInputNot == left' = 0 /\ UNCHANGED <<wire, survived>>

\* stopRead() resets the indices of the buffer under the running reader.  What
\* was read and not added to the buffer yet is added, and announced, after it.
DiscardInput ==
    /\ left' = 0
    /\ \/ wire' = <<>> /\ UNCHANGED survived
       \/ \E i \in 1 .. Len(wire) : wire' = <<wire[i]>> /\ survived' = TRUE

\* The operations in progress at the host and at the device allow a stop.
MayStop == \A op \in {host.op, handler.op} \cap Ops : "stop" \in Ends[op]

\* stopRead(): the bus is suspended or the configuration gone, the session is
\* closed and received data discarded.  The thread that posts this has posted
\* what came before, which is handled before.  A bulk write in progress fails.
\* The host starts anew.
BusStops ==
    /\ MayStop /\ signals < SignalBound
    /\ ctrl = <<>>
    /\ signals' = signals + 1
    /\ DropSession
    /\ DiscardInput
    /\ host' = [host EXCEPT !.phase = "ready"]
    /\ handler' = IF handler.step = "none" \/ handler.done THEN handler
                  ELSE [handler EXCEPT !.done = TRUE, !.sent = FALSE]
    /\ UNCHANGED <<crashed, inSession, status, refused, ctrl>>

Host ==
    \/ \E op \in Ops : HostCommand(op)
    \/ HostData \/ HostTakes \/ HostResumes
    \/ \E kind \in {"cancel", "reset"} : HostSignals(kind)

Device ==
    \/ ReceiveRequest \/ ReceiveData \/ ReceiveRefused
    \/ DataSent \/ SegmentSent \/ CopyDone \/ ResponseSent
    \/ IdleTimeout \/ CancelTransaction \/ DeviceReset \/ BusStops

Next == Host \/ Device

Spec == Init /\ [][Next]_vars

\* The main thread serves its event queue and the handlers come to an end; the
\* host finishes a data phase it began, reads what it is sent and goes on after
\* a cancel.  It need not send commands, nor signals.
Fairness ==
    /\ WF_vars(HostData)
    /\ WF_vars(HostTakes)
    /\ WF_vars(HostResumes)
    /\ WF_vars(ReceiveRequest \/ ReceiveData \/ ReceiveRefused)
    /\ WF_vars(DataSent \/ SegmentSent \/ CopyDone \/ ResponseSent)
    /\ WF_vars(CancelTransaction \/ DeviceReset)
    /\ WF_vars(IdleTimeout)

FairSpec == Spec /\ Fairness

-----------------------------------------------------------------------------
(* Properties. *)

TypeOK ==
    /\ state \in {"idle", "waitData", "waitResp", "cancel"}
    /\ \A c \in {req, data} : /\ c.type \in {"none", "junk", "cmd", "data"}
                             /\ c.op \in AllOps \cup {"none", "junk"}
                             /\ c.txn \in 0 .. TxnBound
    /\ mtpResp \in {"ok", "error"}
    /\ {session, idleTimer, crashed, pending, inSession, refused, survived} \subseteq BOOLEAN
    /\ handler \in [step : {"none", "data", "more", "copy", "resp"}, op : AllOps \cup {"none", "junk"},
                    txn : 0 .. TxnBound, code : {"ok", "error"}, done : BOOLEAN, sent : BOOLEAN,
                    more : 0 .. SegmentBound]
    /\ status \in {"ok", "busy"}
    /\ left \in 0 .. 2
    /\ Len(wire) <= WireBound
    /\ ctrl \in Seq({"cancel", "reset"})
    /\ host.phase \in {"ready", "data", "await", "waiting"} /\ host.txn \in 0 .. TxnBound
    /\ signals \in 0 .. SignalBound

\* A piece that survives a stop of the bus is taken for the beginning of a
\* container, whatever it was: as a request, if it is one packet.  From then on
\* the responder may be out of step with the host, and the properties that
\* say ~survived are about the behaviours in which that has not happened.

\* The response phase begins only after the host's data phase is complete: "We
\* need to let the data phase complete even if there is an error in the request
\* phase, before entering the response phase."
ResponseAfterData ==
    (~survived /\ handler.step = "resp" /\ handler.txn = host.txn) => host.phase # "data"

\* A host that has its response may send the next request at once: it will
\* find the responder ready, although the thread that sent the response has
\* not finished with the transaction ("we have a race to set the m_state to
\* RESPONDER_IDLE").
ReadyForNext == (~survived /\ host.phase = "ready" /\ wire = <<>>) => state = "idle"

\* A host that keeps to the protocol never has its packets refused, which
\* would reset the transport and lose what it had sent.
NothingRefused == ~survived => ~refused

\* What is worked on as a request is one: data never runs as a command
\* ("This must be a request container"), unless it survived a stop of the bus.
RequestIsCommand == ~survived => req.type \in {"none", "cmd"}

\* The transport sends events exactly while the responder has a session open,
\* except while OpenSession is being answered ("ignore all events until
\* session has been opened").
SessionsAgree == handler.step = "none" => inSession = session

\* A transaction that was cancelled, reset or cut off gets no response any more,
\* however far its handler was.  (Data of it that survived the stop of the bus
\* may be answered in its name.)
EndedUnanswered ==
    [][~survived /\ handler'.step = "resp" /\ handler.step # "resp" => handler'.txn \notin over]_vars

\* A response is composed from a request that is still there ("Transaction
\* gone, not sending response").
RequestPresent == ~crashed

\* The responder does not stay blocked in a handler: whatever it sends, a host
\* that is through with its data phase will read.
HandlerReturns == handler.step # "none" ~> handler.step = "none"

\* Every command is answered, if the host waits for it.
CommandAnswered == host.phase = "await" ~> host.phase # "await"

\* "Emitted after sequence of mtp commands does not continue": once the host
\* has sent its last command events and thumbnailing may go on.
EventsResume == (pending /\ host.txn > 0) ~> ~pending
=============================================================================
