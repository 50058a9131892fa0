---------------------------- MODULE ResponderProofs ----------------------------
(***************************************************************************)
(* Proofs about Responder, for every set of operations, any number of      *)
(* transactions, segments and signals, and any length of the pipe.         *)
(***************************************************************************)
EXTENDS Responder, SequenceTheorems, TLAPS

-----------------------------------------------------------------------------
(* Types.  TypeOK leaves open what is in the pipe and what the host does:  *)
(* TInv says it.                                                           *)

Containers ==
    [type : {"none", "junk", "cmd", "data"}, op : Ops \cup {"none", "junk"}, txn : 0 .. TxnBound]

Packets ==
    [as : [type : {"cmd", "data"}, op : Ops, txn : 1 .. TxnBound], units : 1 .. 2, begin : BOOLEAN]

Transfers == {"dataIn", "getThumb", "getObject", "getPartial"}

\* Handlers that transfer data to the host, copy, or answer.
Handlers ==
    {h \in [step : {"none", "data", "more", "copy", "resp"}, op : Ops \cup {"none", "junk"},
            txn : 0 .. TxnBound, code : {"ok", "error"}, done : BOOLEAN, sent : BOOLEAN,
            more : 0 .. SegmentBound] :
        /\ h.step = "none" => h = NoHandler
        /\ h.step \in {"data", "more"} => h.op \in Transfers
        /\ h.step = "copy" => h.op = "copy"}

HostType ==
    /\ host \in [phase : {"ready", "data", "await", "waiting"}, txn : 0 .. TxnBound,
                 op : Ops \cup {"none"}, units : 0 .. 2, todo : 0 .. 2]
    /\ host.phase # "ready" => host.op \in Ops /\ host.txn > 0
    /\ host.phase = "data" => host.units > 0 /\ host.todo \in 1 .. host.units

TInv ==
    /\ TypeOK
    /\ req \in Containers /\ data \in Containers /\ handler \in Handlers
    /\ wire \in Seq(Packets)
    /\ HostType
    /\ over \subseteq 0 .. TxnBound

LEMMA NoContainerType == NoContainer \in Containers /\ Junk \in Containers /\ NoHandler \in Handlers
BY ResponderAssumption DEF NoContainer, Junk, Container, Containers, NoHandler, Handlers

\* A response has the transaction id of its request, cut to 16 bits.
LEMMA AnswerType ==
    ASSUME NEW op \in Ops \cup {"none", "junk"}, NEW txn \in 0 .. TxnBound,
           NEW code \in {"ok", "error"}
    PROVE  /\ Answer(op, txn, code) \in Handlers
           /\ txn % IdWrap \in 0 .. txn
           /\ txn < IdWrap => txn % IdWrap = txn
           /\ Answer(op, txn, code).txn = txn % IdWrap
           /\ Answer(op, txn, code).step = "resp" /\ Answer(op, txn, code).op = op
           /\ Answer(op, txn, code).code = code
<1>1. IdWrap \in Nat \ {0} /\ SegmentBound \in Nat /\ TxnBound \in Nat
  BY ResponderAssumption
<1>2. txn % IdWrap \in 0 .. txn /\ (txn < IdWrap => txn % IdWrap = txn)
  BY <1>1
<1> QED
  BY <1>1, <1>2 DEF Answer, Sending, Handlers

LEMMA SendingType ==
    ASSUME NEW step \in {"data", "more", "copy"}, NEW op \in Ops \cup {"none", "junk"},
           step = "copy" => op = "copy", step # "copy" => op \in Transfers,
           NEW txn \in 0 .. TxnBound, NEW more \in 0 .. SegmentBound
    PROVE  Sending(step, op, txn, "ok", more) \in Handlers
BY DEF Sending, Handlers

\* What the transport makes of the head of the pipe.
LEMMA HeadType ==
    ASSUME TInv, wire # <<>>
    PROVE  /\ Head(wire) \in Packets /\ Head(wire) = wire[1]
           /\ HeadContainer \in Containers /\ HeadContainer # NoContainer
           /\ UnitsDue \subseteq 1 .. 2
           /\ Tail(wire) \in Seq(Packets) /\ Len(Tail(wire)) = Len(wire) - 1
           /\ \A i \in 1 .. Len(wire) - 1 : Tail(wire)[i] = wire[i + 1]
<1>1. wire \in Seq(Packets) /\ left \in 0 .. 2
  BY DEF TInv, TypeOK
<1>2. /\ Head(wire) \in Packets /\ Head(wire) = wire[1]
      /\ Tail(wire) \in Seq(Packets) /\ Len(Tail(wire)) = Len(wire) - 1
      /\ \A i \in 1 .. Len(wire) - 1 : Tail(wire)[i] = wire[i + 1]
  BY <1>1, HeadTailProperties
<1>3. Head(wire).as \in Containers /\ Head(wire).as.type # "none"
  BY <1>2, ResponderAssumption DEF Packets, Containers
<1>4. HeadContainer \in Containers /\ HeadContainer # NoContainer
  BY <1>3, NoContainerType DEF HeadContainer, Junk, NoContainer, Container
<1>5. UnitsDue \subseteq 1 .. 2
  BY <1>1, <1>2 DEF UnitsDue, Packets
<1> QED
  BY <1>2, <1>4, <1>5

\* What a command comes to: a data phase of the host, an immediate answer, a
\* thumbnail that is not there, or a transfer or copy to the host.
CommandOutcome(c) ==
    \/ HasDataPhase(c.op) /\ state' = "waitData" /\ handler' = NoHandler
    \/ /\ c.op \in {"plain", "junk", "open", "close", "dataIn", "getObject", "getPartial", "copy"}
       /\ state' = "idle"
       /\ \E code \in {"ok", "error"} : handler' = Answer(c.op, c.txn, code)
    \/ c.op = "getThumb" /\ state' = "waitResp" /\ handler' = NoHandler
    \/ /\ c.op \in {"dataIn", "getThumb", "getObject", "getPartial"}
       /\ state' = "waitResp"
       /\ \E more \in 0 .. SegmentBound : handler' = Sending("data", c.op, c.txn, "ok", more)
    \/ c.op = "copy" /\ state' = "waitResp" /\ handler' = Sending("copy", c.op, c.txn, "ok", 0)

LEMMA CommandResult ==
    ASSUME TInv, NEW c \in Containers, NEW ok \in BOOLEAN, Command(c, ok)
    PROVE  /\ CommandOutcome(c)
           /\ pending' = TRUE /\ idleTimer' \in BOOLEAN
           /\ mtpResp' \in {"ok", "error"}
           /\ session' \in BOOLEAN /\ inSession' \in BOOLEAN
<1> USE ResponderAssumption DEF TInv, TypeOK
<1>1. session' \in BOOLEAN /\ inSession' \in BOOLEAN
  BY DEF Command
<1>2. pending' = TRUE /\ idleTimer' \in BOOLEAN
  BY DEF Command, PassToState
<1>3. mtpResp' \in {"ok", "error"}
  BY DEF Command
<1>4. CommandOutcome(c)
  BY DEF Command, PassToState, CommandOutcome
<1> QED
  BY <1>1, <1>2, <1>3, <1>4

LEMMA SendResponseResult ==
    ASSUME TInv, NEW op \in Ops \cup {"none", "junk"}, NEW code \in {"ok", "error"},
           NEW hasParam \in BOOLEAN, SendResponse(op, code, hasParam)
    PROVE  /\ state' \in {"idle", "waitData", "waitResp", "cancel"}
           /\ pending' \in BOOLEAN /\ idleTimer' \in BOOLEAN /\ crashed' \in BOOLEAN
           /\ handler' \in Handlers
<1>1. /\ req.txn \in 0 .. TxnBound
      /\ state \in {"idle", "waitData", "waitResp", "cancel"}
      /\ pending \in BOOLEAN /\ idleTimer \in BOOLEAN /\ crashed \in BOOLEAN
  BY DEF TInv, TypeOK, Containers
<1>2. Answer(op, req.txn, code) \in Handlers /\ NoHandler \in Handlers
  BY <1>1, AnswerType, NoContainerType
<1> QED
  BY <1>1, <1>2 DEF SendResponse, SetState

LEMMA VarTypes ==
    ASSUME TInv
    PROVE  /\ state \in {"idle", "waitData", "waitResp", "cancel"}
           /\ req \in Containers /\ data \in Containers /\ mtpResp \in {"ok", "error"}
           /\ session \in BOOLEAN /\ idleTimer \in BOOLEAN /\ crashed \in BOOLEAN
           /\ pending \in BOOLEAN /\ inSession \in BOOLEAN /\ refused \in BOOLEAN
           /\ survived \in BOOLEAN
           /\ handler \in Handlers /\ status \in {"ok", "busy"} /\ left \in 0 .. 2
           /\ wire \in Seq(Packets) /\ Len(wire) <= WireBound /\ ctrl \in Seq({"cancel", "reset"})
           /\ HostType /\ signals \in 0 .. SignalBound /\ over \subseteq 0 .. TxnBound
BY DEF TInv, TypeOK

LEMMA TInvFrom ==
    ASSUME state' \in {"idle", "waitData", "waitResp", "cancel"},
           req' \in Containers, data' \in Containers, mtpResp' \in {"ok", "error"},
           session' \in BOOLEAN, idleTimer' \in BOOLEAN, crashed' \in BOOLEAN,
           pending' \in BOOLEAN, inSession' \in BOOLEAN, refused' \in BOOLEAN, survived' \in BOOLEAN,
           handler' \in Handlers, status' \in {"ok", "busy"}, left' \in 0 .. 2,
           wire' \in Seq(Packets), Len(wire') <= WireBound, ctrl' \in Seq({"cancel", "reset"}),
           HostType', signals' \in 0 .. SignalBound, over' \subseteq 0 .. TxnBound
    PROVE  TInv'
<1>1. \A c \in {req', data'} : /\ c.type \in {"none", "junk", "cmd", "data"}
                               /\ c.op \in AllOps \cup {"none", "junk"}
                               /\ c.txn \in 0 .. TxnBound
  BY ResponderAssumption DEF Containers
<1>2. host'.phase \in {"ready", "data", "await", "waiting"} /\ host'.txn \in 0 .. TxnBound
  BY DEF HostType
<1>3. TypeOK'
  BY <1>1, <1>2, ResponderAssumption DEF TypeOK, Handlers
<1> QED
  BY <1>3 DEF TInv

LEMMA HostTypeKept == ASSUME HostType, UNCHANGED host PROVE HostType'
BY DEF HostType

LEMMA InitTInv == Init => TInv
<1> SUFFICES ASSUME Init PROVE TInv
  OBVIOUS
<1> USE ResponderAssumption DEF Init
<1>1. NoContainer \in Containers /\ NoHandler \in Handlers
  BY NoContainerType
<1>2. HostType
  BY DEF HostType
<1>3. Len(wire) = 0 /\ wire \in Seq(Packets) /\ ctrl \in Seq({"cancel", "reset"})
  OBVIOUS
<1>4. TypeOK
  <2>1. /\ req \in Containers /\ data \in Containers /\ handler \in Handlers
        /\ Len(wire) <= WireBound /\ left \in 0 .. 2 /\ signals \in 0 .. SignalBound
    BY <1>1, <1>3
  <2>2. \A c \in {req, data} : /\ c.type \in {"none", "junk", "cmd", "data"}
                               /\ c.op \in AllOps \cup {"none", "junk"}
                               /\ c.txn \in 0 .. TxnBound
    BY <2>1 DEF Containers
  <2>3. host.phase \in {"ready", "data", "await", "waiting"} /\ host.txn \in 0 .. TxnBound
    OBVIOUS
  <2>4. {session, idleTimer, crashed, pending, inSession, refused, survived} \subseteq BOOLEAN
    OBVIOUS
  <2> QED
    BY <1>3, <2>1, <2>2, <2>3, <2>4 DEF TypeOK, Handlers
<1> QED
  BY <1>1, <1>2, <1>3, <1>4 DEF TInv

\* The host.
LEMMA HostTInv ==
    ASSUME TInv, Host PROVE TInv'
<1> USE ResponderAssumption DEF TInv, TypeOK, transaction, transport, history
<1>1. ASSUME NEW op \in Ops, HostCommand(op) PROVE TInv'
  <2> USE <1>1 DEF HostCommand
  <2> DEFINE p == [as |-> Container("cmd", op, host.txn + 1), units |-> 1, begin |-> TRUE]
  <2>1. p \in Packets
    BY DEF Packets, Container, HostType
  <2>2. wire' \in Seq(Packets) /\ Len(wire') = Len(wire) + 1 /\ Len(wire') <= WireBound
    <3>1. wire' = Append(wire, p)
      OBVIOUS
    <3> QED
      BY <2>1, <3>1, AppendProperties
  <2>3. HostType'
    <3>1. CASE HasDataPhase(op)
      BY <3>1, SMTT(30) DEF HostType
    <3>2. CASE ~HasDataPhase(op)
      BY <3>2, SMTT(30) DEF HostType
    <3> QED
      BY <3>1, <3>2
  <2> QED
    BY <2>2, <2>3 DEF HostType
<1>2. ASSUME HostData PROVE TInv'
  <2> USE <1>2 DEF HostData
  <2> DEFINE p == [as |-> Container("data", host.op, host.txn), units |-> host.units,
                   begin |-> host.todo = host.units]
  <2>1. p \in Packets
    BY DEF Packets, Container, HostType
  <2>2. wire' \in Seq(Packets) /\ Len(wire') = Len(wire) + 1 /\ Len(wire') <= WireBound
    <3>1. wire' = Append(wire, p)
      OBVIOUS
    <3> QED
      BY <2>1, <3>1, AppendProperties
  <2>3. HostType'
    <3>1. /\ host'.txn = host.txn /\ host'.op = host.op /\ host'.units = host.units
          /\ host'.todo = host.todo - 1
          /\ host'.phase = IF host.todo = 1 THEN "await" ELSE "data"
      BY DEF HostType
    <3>2. host' \in [phase : {"ready", "data", "await", "waiting"}, txn : 0 .. TxnBound,
                     op : Ops \cup {"none"}, units : 0 .. 2, todo : 0 .. 2]
      <4>1. host.todo - 1 \in 0 .. 2
        BY DEF HostType
      <4> QED
        BY <3>1, <4>1 DEF HostType
    <3>3. host.todo # 1 => host'.todo \in 1 .. host'.units
      <4>1. host.todo \in 1 .. host.units /\ host.units \in 0 .. 2
        BY DEF HostType
      <4> QED
        BY <3>1, <4>1, SMTT(30)
    <3> QED
      BY <3>1, <3>2, <3>3 DEF HostType
  <2> QED
    BY <2>2, <2>3 DEF HostType
<1>3. ASSUME HostTakes PROVE TInv'
  <2> USE <1>3 DEF HostTakes
  <2>1. HostType'
    BY DEF HostType
  <2>2. handler' \in Handlers
    BY DEF Handlers
  <2> QED
    BY <2>1, <2>2 DEF Handlers, HostType
<1>4. ASSUME HostResumes PROVE TInv'
  <2> USE <1>4 DEF HostResumes
  <2>1. HostType'
    BY DEF HostType
  <2> QED
    BY <2>1 DEF HostType
<1>5. ASSUME NEW kind \in {"cancel", "reset"}, HostSignals(kind) PROVE TInv'
  <2> USE <1>5 DEF HostSignals
  <2>1. HostType'
    BY DEF HostType
  <2>2. ctrl' \in Seq({"cancel", "reset"})
    <3>1. ctrl' = Append(ctrl, kind)
      OBVIOUS
    <3> QED
      BY <3>1, AppendProperties
  <2>3. signals' \in 0 .. SignalBound
    BY SMTT(30)
  <2> QED
    BY <2>1, <2>2, <2>3 DEF HostType
<1> QED
  BY <1>1, <1>2, <1>3, <1>4, <1>5 DEF Host

\* Requests and data.
LEMMA ReceiveTInv ==
    ASSUME TInv, ReceiveRequest \/ ReceiveData \/ ReceiveRefused PROVE TInv'
<1> USE ResponderAssumption DEF TInv, history
<1>0. wire # <<>>
  BY DEF ReceiveRequest, ReceiveData, ReceiveRefused, Delivering
<1>1. /\ HeadContainer \in Containers /\ UnitsDue \subseteq 1 .. 2
      /\ Tail(wire) \in Seq(Packets) /\ Len(Tail(wire)) <= WireBound
  BY <1>0, HeadType DEF TypeOK
<1>2. \A u \in UnitsDue : u - 1 \in 0 .. 2
  BY <1>1
<1>3. CASE ReceiveRequest
  <2> USE <1>3 DEF ReceiveRequest
  <2>1. wire' = Tail(wire) /\ left' \in 0 .. 2
    BY <1>2 DEF NextPacket
  <2>2. PICK ok \in BOOLEAN : Command(HeadContainer, ok)
    OBVIOUS
  <2>3. CommandOutcome(HeadContainer)
    BY <1>1, <2>2, CommandResult
  <2>4. state' \in {"idle", "waitData", "waitResp", "cancel"} /\ handler' \in Handlers
    <3>1. HeadContainer.op \in Ops \cup {"none", "junk"} /\ HeadContainer.txn \in 0 .. TxnBound
      BY <1>1 DEF Containers
    <3>2. NoHandler \in Handlers /\ 0 \in 0 .. SegmentBound
      BY NoContainerType
    <3> QED
      <4> DEFINE c == HeadContainer
      <4>1. \A code \in {"ok", "error"} : Answer(c.op, c.txn, code) \in Handlers
        BY <3>1, AnswerType
      <4>2. c.op \in Transfers =>
              \A more \in 0 .. SegmentBound : Sending("data", c.op, c.txn, "ok", more) \in Handlers
        BY <3>1, SendingType
      <4>3. c.op = "copy" => Sending("copy", c.op, c.txn, "ok", 0) \in Handlers
        BY <3>1, <3>2, SendingType
      <4> HIDE DEF c, ReceiveRequest
      <4> QED
        BY <2>3, <3>2, <4>1, <4>2, <4>3 DEF CommandOutcome, Transfers, c
  <2>5. /\ pending' \in BOOLEAN /\ idleTimer' \in BOOLEAN /\ mtpResp' \in {"ok", "error"}
        /\ session' \in BOOLEAN /\ inSession' \in BOOLEAN
    BY <1>1, <2>2, CommandResult
  <2>6. req' \in Containers /\ data' \in Containers
    BY <1>1
  <2> QED
    BY <1>1, <2>1, <2>4, <2>5, <2>6, HostTypeKept, VarTypes, TInvFrom
<1>4. CASE ReceiveData
  <2> USE <1>4 DEF ReceiveData
  <2>1. wire' = Tail(wire) /\ left' \in 0 .. 2
    BY <1>2 DEF NextPacket
  <2>2. data' \in Containers /\ req' \in Containers
    BY <1>1, NoContainerType
  <2>3. req.op \in Ops \cup {"none", "junk"}
    BY DEF Containers
  <2>4. /\ state' \in {"idle", "waitData", "waitResp", "cancel"} /\ handler' \in Handlers
        /\ pending' \in BOOLEAN /\ idleTimer' \in BOOLEAN /\ crashed' \in BOOLEAN
        /\ mtpResp' \in {"ok", "error"}
    <3>1. CASE UNCHANGED <<handler, crashed, state, pending, idleTimer>> /\ mtpResp' \in {mtpResp, "error"}
      BY <3>1, VarTypes
    <3>2. CASE mtpResp' = mtpResp /\ \E code \in {"ok", "error"} : SendResponse(req.op, code, FALSE)
      <4>1. PICK code \in {"ok", "error"} : SendResponse(req.op, code, FALSE)
        BY <3>2
      <4> QED
        BY <2>3, <3>2, <4>1, SendResponseResult, VarTypes
    <3> QED
      BY <3>1, <3>2
  <2>5. status' \in {"ok", "busy"}
    BY DEF TypeOK
  <2> QED
    BY <1>1, <2>1, <2>2, <2>4, <2>5, HostTypeKept, VarTypes, TInvFrom
<1>5. CASE ReceiveRefused
  <2> USE <1>5 DEF ReceiveRefused
  <2>1. wire' \in Seq(Packets) /\ Len(wire') <= WireBound
    <3>1. PICK k \in 1 .. Len(wire) : wire' = SubSeq(wire, k + 1, Len(wire))
      OBVIOUS
    <3>2. Len(wire) \in Nat /\ Len(wire) <= WireBound /\ WireBound \in Nat
      BY DEF TypeOK
    <3>3. wire' \in Seq(Packets) /\ Len(wire') = IF k + 1 <= Len(wire) THEN Len(wire) - k ELSE 0
      BY <3>1, <3>2, SubSeqProperties
    <3> QED
      BY <3>2, <3>3
  <2>2. req' \in Containers /\ data' \in Containers
    BY NoContainerType
  <2>3. state' = "idle" /\ pending' \in BOOLEAN /\ idleTimer' \in BOOLEAN
    BY DEF SetState, TypeOK
  <2> QED
    BY <2>1, <2>2, <2>3, HostTypeKept, VarTypes, TInvFrom
<1> QED
  BY <1>3, <1>4, <1>5

\* The handler goes on.
LEMMA HandlerTInv ==
    ASSUME TInv, DataSent \/ SegmentSent \/ CopyDone \/ ResponseSent \/ IdleTimeout PROVE TInv'
<1> USE ResponderAssumption DEF history, environment
<1>1. HostType'
  BY VarTypes, HostTypeKept DEF DataSent, SegmentSent, CopyDone, ResponseSent, IdleTimeout
<1>2. /\ handler.op \in Ops \cup {"none", "junk"} /\ handler.txn \in 0 .. TxnBound
      /\ handler.more \in 0 .. SegmentBound
      /\ NoHandler \in Handlers
  BY VarTypes, NoContainerType DEF Handlers
<1>3. ASSUME NEW op \in Ops \cup {"none", "junk"}, NEW code \in {"ok", "error"},
             NEW hasParam \in BOOLEAN, SendResponse(op, code, hasParam),
             UNCHANGED <<req, data, mtpResp, session, inSession, status, left, history, environment>>
      PROVE  TInv'
  BY <1>1, <1>3, SendResponseResult, VarTypes, TInvFrom
<1>4. ASSUME handler' \in Handlers, UNCHANGED <<crashed, state, pending, idleTimer>>,
             UNCHANGED <<req, data, mtpResp, session, inSession, status, left, history, environment>>
      PROVE  TInv'
  BY <1>1, <1>4, VarTypes, TInvFrom
<1>5. CASE DataSent
  BY <1>2, <1>3, <1>4, <1>5, NoContainerType DEF DataSent
<1>6. CASE SegmentSent
  <2>1. UNCHANGED <<req, data, mtpResp, session, inSession, status, left, history, environment>>
    BY <1>6 DEF SegmentSent
  <2>2. CASE SendResponse(handler.op, "ok", handler.op = "getPartial")
    BY <1>2, <1>3, <2>1, <2>2
  <2>3. CASE /\ handler.more > 0
             /\ handler' = Sending("more", handler.op, handler.txn, "ok", handler.more - 1)
             /\ UNCHANGED <<crashed, state, pending, idleTimer>>
    <3>1. handler.more - 1 \in 0 .. SegmentBound
      BY <1>2, <2>3
    <3>2. handler.op \in Transfers
      BY <1>6, VarTypes DEF SegmentSent, Transfers
    <3>3. handler' \in Handlers
      BY <1>2, <2>3, <3>1, <3>2, SendingType
    <3> QED
      BY <1>4, <2>1, <2>3, <3>3
  <2>4. CASE handler' = NoHandler /\ UNCHANGED <<crashed, state, pending, idleTimer>>
    BY <1>2, <1>4, <2>1, <2>4
  <2> QED
    BY <1>6, <2>2, <2>3, <2>4 DEF SegmentSent
<1>7. CASE CopyDone
  <2>1. "copy" \in Ops \cup {"none", "junk"}
    BY <1>2, <1>7, VarTypes DEF CopyDone, Handlers
  <2> QED
    BY <1>2, <1>3, <1>4, <1>7, <2>1 DEF CopyDone
<1>8. CASE ResponseSent
  <2>1. inSession' \in BOOLEAN
    BY <1>8, VarTypes DEF ResponseSent, SessionOpened
  <2>2. req' \in Containers /\ data' \in Containers /\ status' = "ok" /\ handler' \in Handlers
    BY <1>2, <1>8, NoContainerType DEF ResponseSent, DeleteRequest, DeviceStatusOK
  <2>3. UNCHANGED <<state, mtpResp, session, idleTimer, crashed, pending, left, history, environment>>
    BY <1>8 DEF ResponseSent
  <2> QED
    BY <1>1, <2>1, <2>2, <2>3, VarTypes, TInvFrom
<1>9. CASE IdleTimeout
  <2>1. /\ idleTimer' = FALSE /\ pending' = FALSE
        /\ UNCHANGED <<state, req, data, mtpResp, session, handler, crashed, inSession, status, left,
                       history, environment>>
    BY <1>9 DEF IdleTimeout
  <2> QED
    BY <1>1, <2>1, VarTypes, TInvFrom
<1> QED
  BY <1>5, <1>6, <1>7, <1>8, <1>9

\* Signals.
LEMMA SignalTInv ==
    ASSUME TInv, CancelTransaction \/ DeviceReset \/ BusStops PROVE TInv'
<1> USE ResponderAssumption
<1>1. over \cup {req.txn} \subseteq 0 .. TxnBound
  BY VarTypes DEF Containers
<1>2. CASE CancelTransaction
  <2> USE <1>2 DEF CancelTransaction, DeleteRequest, DeviceStatusOK, SetState
  <2>1. HostType'
    BY VarTypes, HostTypeKept
  <2>2. /\ req' \in Containers /\ data' \in Containers /\ pending' \in BOOLEAN /\ idleTimer' \in BOOLEAN
        /\ state' \in {"idle", "waitData", "waitResp", "cancel"}
    BY NoContainerType, VarTypes
  <2>3. ctrl' \in Seq({"cancel", "reset"})
    BY VarTypes, HeadTailProperties
  <2> QED
    BY <1>1, <2>1, <2>2, <2>3, VarTypes, TInvFrom
<1>3. CASE DeviceReset
  <2> USE <1>3 DEF DeviceReset, DropSession, DeleteRequest, DeviceStatusOK, SetState
  <2>1. HostType'
    BY VarTypes, HostTypeKept
  <2>2. /\ req' \in Containers /\ data' \in Containers /\ pending' \in BOOLEAN /\ idleTimer' \in BOOLEAN
        /\ state' \in {"idle", "waitData", "waitResp", "cancel"}
    BY NoContainerType, VarTypes
  <2>3. ctrl' \in Seq({"cancel", "reset"})
    BY VarTypes, HeadTailProperties
  <2> QED
    BY <1>1, <2>1, <2>2, <2>3, VarTypes, TInvFrom
<1>4. CASE BusStops
  <2> USE <1>4 DEF BusStops, DropSession, DeleteRequest, DiscardInput, SetState
  <2>1. HostType'
    BY VarTypes DEF HostType
  <2>2. /\ req' \in Containers /\ data' \in Containers /\ pending' \in BOOLEAN /\ idleTimer' \in BOOLEAN
        /\ state' \in {"idle", "waitData", "waitResp", "cancel"}
    BY NoContainerType, VarTypes
  <2>3. handler' \in Handlers
    BY VarTypes DEF Handlers
  <2>4. /\ ctrl' \in Seq({"cancel", "reset"}) /\ wire' \in Seq(Packets) /\ Len(wire') <= WireBound
        /\ left' \in 0 .. 2
    <3>1. <<>> \in Seq(Packets) /\ Len(<<>>) = 0
      OBVIOUS
    <3>2. ASSUME NEW i \in 1 .. Len(wire) PROVE <<wire[i]>> \in Seq(Packets) /\ Len(<<wire[i]>>) = 1
      <4>1. wire[i] \in Packets
        BY VarTypes, ElementOfSeq
      <4> QED
        BY <4>1
    <3>3. ctrl' = ctrl /\ left' = 0
      OBVIOUS
    <3>4. wire' = <<>> \/ \E i \in 1 .. Len(wire) : wire' = <<wire[i]>>
      OBVIOUS
    <3> QED
      <4> HIDE <1>4 DEF BusStops, DropSession, DeleteRequest, DiscardInput, SetState
      <4>1. ctrl' \in Seq({"cancel", "reset"}) /\ left' \in 0 .. 2
        BY <3>3, VarTypes
      <4>2. 0 <= WireBound /\ 1 <= WireBound
        OBVIOUS
      <4>3. CASE wire' = <<>>
        BY <3>1, <4>1, <4>2, <4>3, Zenon
      <4>4. CASE \E i \in 1 .. Len(wire) : wire' = <<wire[i]>>
        <5>1. PICK i \in 1 .. Len(wire) : wire' = <<wire[i]>>
          BY <4>4
        <5>2. wire' \in Seq(Packets) /\ Len(wire') = 1
          BY <3>2, <5>1, Zenon
        <5>3. Len(wire') <= WireBound
          BY <4>2, <5>2, Zenon
        <5> QED
          BY <4>1, <5>2, <5>3, Zenon
      <4> QED
        BY <3>4, <4>3, <4>4, Zenon
  <2>5. signals' \in 0 .. SignalBound
    BY VarTypes
  <2> QED
    BY <1>1, <2>1, <2>2, <2>3, <2>4, <2>5, VarTypes, TInvFrom
<1> QED
  BY <1>2, <1>3, <1>4

LEMMA NextTInv == TInv /\ [Next]_vars => TInv'
<1> SUFFICES ASSUME TInv, [Next]_vars PROVE TInv'
  OBVIOUS
<1>1. CASE Host
  BY <1>1, HostTInv
<1>2. CASE Device
  BY <1>2, ReceiveTInv, HandlerTInv, SignalTInv DEF Device
<1>3. CASE UNCHANGED vars
  <2>1. HostType'
    BY <1>3, VarTypes, HostTypeKept DEF vars, environment
  <2> QED
    BY <1>3, <2>1, VarTypes, TInvFrom DEF vars, transaction, transport, history, environment
<1> QED
  BY <1>1, <1>2, <1>3 DEF Next

LEMMA Types == Spec => []TInv
BY InitTInv, NextTInv, PTL DEF Spec

\* All variables of the responder keep their types, however transactions end.
THEOREM TypeCorrect == Spec => []TypeOK
<1>1. TInv => TypeOK
  BY DEF TInv
<1> QED
  BY <1>1, Types, PTL

-----------------------------------------------------------------------------
(* The request is there when the response is composed. *)

\* What takes a request away from under a handler that answers with a
\* parameter: a device reset, a bus that stops while an object is copied, a
\* cancel of GetPartialObject.
NoReset     == \A op \in Ops : "reset" \notin Ends[op]
CopyGoesOn  == "copy" \in Ops => "stop" \notin Ends["copy"]
RequestKept == NoReset /\ CopyGoesOn /\ "getPartial" \notin Ops

OnlyCancels == \A i \in 1 .. Len(ctrl) : ctrl[i] = "cancel"

\* copyObjectReq() looks whether it was cancelled; nothing else can have
\* happened to its request.
CopyHasRequest == handler.step = "copy" => state = "cancel" \/ req # NoContainer

PresentInv == TInv /\ OnlyCancels /\ CopyHasRequest /\ RequestPresent

LEMMA OnlyCancelsKept ==
    ASSUME NoReset, TInv, OnlyCancels, [Next]_vars PROVE OnlyCancels' /\ ~DeviceReset
<1>0. ctrl \in Seq({"cancel", "reset"})
  BY VarTypes
<1>1. ~DeviceReset
  <2>1. ctrl # <<>> => Head(ctrl) = ctrl[1] /\ 1 \in 1 .. Len(ctrl)
    BY <1>0, HeadTailProperties, EmptySeq
  <2> QED
    BY <2>1 DEF DeviceReset, OnlyCancels
<1>2. CASE UNCHANGED ctrl
  BY <1>1, <1>2 DEF OnlyCancels
<1>3. CASE CancelTransaction
  BY <1>0, <1>1, <1>3, HeadTailProperties DEF CancelTransaction, OnlyCancels
<1>4. CASE BusStops
  BY <1>1, <1>4 DEF BusStops, DiscardInput, OnlyCancels
<1>5. ASSUME NEW kind \in {"cancel", "reset"}, HostSignals(kind) PROVE OnlyCancels'
  <2>1. kind = "cancel" /\ ctrl' = Append(ctrl, kind)
    BY <1>5, VarTypes DEF HostSignals, NoReset, HostType
  <2> QED
    BY <1>0, <2>1, AppendProperties DEF OnlyCancels
<1>6. UNCHANGED ctrl \/ CancelTransaction \/ BusStops
      \/ \E kind \in {"cancel", "reset"} : HostSignals(kind)
  BY <1>1 DEF Next, Host, Device, vars, environment, HostCommand, HostData, HostTakes, HostResumes,
              ReceiveRequest, ReceiveData, ReceiveRefused, DataSent, SegmentSent, CopyDone,
              ResponseSent, IdleTimeout
<1> QED
  BY <1>1, <1>2, <1>3, <1>4, <1>5, <1>6

\* A handler with a parameter in its answer is that of GetPartialObject or the
\* copy.
LEMMA SendResponsePresent ==
    ASSUME PresentInv, NEW op, NEW code \in {"ok", "error"}, NEW hasParam \in BOOLEAN,
           SendResponse(op, code, hasParam), hasParam => req # NoContainer
    PROVE  ~crashed' /\ handler'.step # "copy"
BY DEF PresentInv, RequestPresent, SendResponse, NoHandler, Answer, Sending

LEMMA PresentStep ==
    ASSUME RequestKept, PresentInv, [Next]_vars PROVE CopyHasRequest' /\ RequestPresent'
<1> USE DEF PresentInv
<1>1. CASE UNCHANGED <<handler, state, req, crashed>>
  BY <1>1 DEF CopyHasRequest, RequestPresent
<1>2. CASE HostTakes
  BY <1>2, VarTypes DEF HostTakes, CopyHasRequest, RequestPresent, transaction, Handlers
<1>3. CASE ReceiveRequest
  <2>1. req' = HeadContainer /\ HeadContainer # NoContainer /\ crashed' = crashed
    BY <1>3, HeadType DEF ReceiveRequest, Delivering
  <2> QED
    BY <2>1 DEF CopyHasRequest, RequestPresent
<1>4. CASE ReceiveData
  <2>1. handler.step = "none"
    BY <1>4 DEF ReceiveData, Delivering
  <2>2. CASE UNCHANGED <<handler, crashed, state, pending, idleTimer>>
    BY <2>1, <2>2 DEF CopyHasRequest, RequestPresent
  <2>3. CASE \E code \in {"ok", "error"} : SendResponse(req.op, code, FALSE)
    BY <2>3, SendResponsePresent DEF CopyHasRequest, RequestPresent
  <2> QED
    BY <1>4, <2>2, <2>3 DEF ReceiveData
<1>5. CASE ReceiveRefused
  BY <1>5 DEF ReceiveRefused, Delivering, CopyHasRequest, RequestPresent
<1>6. CASE DataSent
  <2>1. CASE SendResponse(handler.op, "ok", FALSE)
    BY <1>6, <2>1, SendResponsePresent DEF DataSent, CopyHasRequest, RequestPresent
  <2>2. CASE handler' = NoHandler /\ UNCHANGED crashed
    BY <2>2 DEF NoHandler, CopyHasRequest, RequestPresent
  <2> QED
    BY <1>6, <2>1, <2>2 DEF DataSent
<1>7. CASE SegmentSent
  <2>1. handler.op # "getPartial"
    BY <1>7, VarTypes DEF RequestKept, Handlers
  <2>2. CASE SendResponse(handler.op, "ok", handler.op = "getPartial")
    BY <2>1, <2>2, SendResponsePresent DEF CopyHasRequest, RequestPresent
  <2>3. CASE handler'.step # "copy" /\ crashed' = crashed
    BY <2>3 DEF CopyHasRequest, RequestPresent
  <2> QED
    BY <1>7, <2>2, <2>3 DEF SegmentSent, Sending, NoHandler
<1>8. CASE CopyDone
  <2>1. CASE state = "cancel"
    BY <1>8, <2>1 DEF CopyDone, CopyHasRequest, RequestPresent, NoHandler
  <2>2. CASE state # "cancel"
    BY <1>8, <2>2, SendResponsePresent DEF CopyDone, CopyHasRequest, RequestPresent
  <2> QED
    BY <2>1, <2>2
<1>9. CASE ResponseSent
  BY <1>9 DEF ResponseSent, CopyHasRequest, RequestPresent, NoHandler
<1>10. CASE CancelTransaction
  BY <1>10 DEF CancelTransaction, SetState, CopyHasRequest, RequestPresent
<1>11. CASE BusStops
  <2>1. handler.step # "copy"
    BY <1>11, VarTypes DEF BusStops, MayStop, RequestKept, CopyGoesOn, Handlers
  <2>2. handler'.step = handler.step /\ crashed' = crashed
    BY <1>11, VarTypes DEF BusStops, Handlers
  <2> QED
    BY <2>1, <2>2 DEF CopyHasRequest, RequestPresent
<1>12. ~DeviceReset
  BY OnlyCancelsKept DEF RequestKept
<1>13. \/ UNCHANGED <<handler, state, req, crashed>> \/ HostTakes
       \/ ReceiveRequest \/ ReceiveData \/ ReceiveRefused
       \/ DataSent \/ SegmentSent \/ CopyDone \/ ResponseSent
       \/ CancelTransaction \/ BusStops
  BY <1>12 DEF Next, Host, Device, vars, transaction, HostCommand, HostData, HostResumes, HostSignals,
               IdleTimeout
<1> QED
  BY <1>1, <1>2, <1>3, <1>4, <1>5, <1>6, <1>7, <1>8, <1>9, <1>10, <1>11, <1>13

\* If the device is not reset, no copy is cut off by the bus and
\* GetPartialObject is not used, no response is composed to a request that is
\* gone, whatever is cancelled and whenever.
THEOREM NoResponseWithoutRequest ==
    ASSUME RequestKept PROVE Spec => []RequestPresent
<1>1. Init => PresentInv
  <2> SUFFICES ASSUME Init PROVE PresentInv
    OBVIOUS
  <2>1. OnlyCancels /\ CopyHasRequest /\ RequestPresent
    BY DEF Init, OnlyCancels, CopyHasRequest, RequestPresent, NoHandler
  <2> QED
    BY <2>1, InitTInv DEF PresentInv
<1>2. PresentInv /\ [Next]_vars => PresentInv'
  BY NextTInv, OnlyCancelsKept, PresentStep DEF PresentInv, RequestKept
<1>3. PresentInv => RequestPresent
  BY DEF PresentInv
<1> QED
  BY <1>1, <1>2, <1>3, PTL DEF Spec

-----------------------------------------------------------------------------
(* The transport knows of the session. *)

\* The session ends only with CloseSession.
OnlyCancelled == \A op \in Ops : Ends[op] \subseteq {"cancel"}

\* OpenSession is being answered: the transport is told when that is done.
Opening == handler.step = "resp" /\ SessionOpened

Agreement == IF Opening THEN session ELSE inSession = session

\* Only operations with a data phase wait for data, so the answer to
\* OpenSession comes from its own handler.
WaitsForItsData == state = "waitData" => req = NoContainer \/ HasDataPhase(req.op)

\* Before its first command the host has neither.
NothingYet == host.op = "none" => ~session /\ ~inSession /\ wire = <<>> /\ handler.step = "none"

SessionInv == TInv /\ OnlyCancels /\ Agreement /\ WaitsForItsData /\ NothingYet

\* OpenSession succeeds only if no session was open, CloseSession closes both.
LEMMA CommandAgrees ==
    ASSUME TInv, NEW c \in Containers, NEW ok \in BOOLEAN, Command(c, ok), inSession = session
    PROVE  Agreement'
<1>1. /\ session \in BOOLEAN /\ CommandOutcome(c) /\ c.op \in Ops \cup {"none", "junk"}
      /\ c.txn \in 0 .. TxnBound
  BY VarTypes, CommandResult DEF Containers
<1>2. CASE c.op = "open"
  <2>1. /\ session' = (session \/ ok) /\ inSession' = inSession
        /\ handler' = Answer(c.op, c.txn, IF ok /\ ~session THEN "ok" ELSE "error")
    BY <1>2 DEF Command, HasDataPhase
  <2>2. /\ handler'.code = IF ok /\ ~session THEN "ok" ELSE "error"
        /\ handler'.step = "resp" /\ handler'.op = "open"
    BY <1>1, <1>2, <2>1, AnswerType
  <2>3. CASE ok /\ ~session
    BY <2>1, <2>2, <2>3 DEF Agreement, Opening, SessionOpened
  <2>4. CASE ~(ok /\ ~session)
    <3>1. session' = session
      BY <1>1, <2>1, <2>4
    <3> QED
      BY <2>1, <2>2, <2>4, <3>1 DEF Agreement, Opening, SessionOpened
  <2> QED
    BY <2>3, <2>4
<1>3. CASE c.op # "open"
  <2>1. inSession' = session'
    BY <1>1, <1>3 DEF Command
  <2>2. handler'.op # "open" \/ handler'.step # "resp"
    BY <1>1, <1>3, AnswerType DEF CommandOutcome, NoHandler, Sending
  <2> QED
    BY <2>1, <2>2 DEF Agreement, Opening, SessionOpened
<1> QED
  BY <1>2, <1>3

LEMMA SendResponseAgrees ==
    ASSUME SessionInv, NEW op \in Ops \cup {"none", "junk"}, op # "open", NEW code \in {"ok", "error"},
           NEW hasParam, SendResponse(op, code, hasParam),
           ~Opening, UNCHANGED <<session, inSession, req, host>>, host.op # "none"
    PROVE  Agreement' /\ WaitsForItsData' /\ NothingYet'
<1>1. req.txn \in 0 .. TxnBound
  BY VarTypes DEF SessionInv, Containers
<1>2. handler'.op # "open" \/ handler'.step # "resp"
  BY <1>1, AnswerType DEF SendResponse, NoHandler
<1>3. Agreement'
  BY <1>2 DEF SessionInv, Agreement, Opening, SessionOpened
<1>4. WaitsForItsData' /\ NothingYet'
  BY DEF SessionInv, WaitsForItsData, NothingYet, SendResponse, SetState
<1> QED
  BY <1>3, <1>4

LEMMA SessionStep ==
    ASSUME OnlyCancelled, SessionInv, [Next]_vars
    PROVE  Agreement' /\ WaitsForItsData' /\ NothingYet'
<1> USE DEF SessionInv
<1>1. CASE /\ UNCHANGED <<state, req, session, inSession>>
           /\ \/ UNCHANGED handler
              \/ handler'.step = handler.step /\ handler'.op = handler.op /\ handler'.code = handler.code
              \/ ~Opening /\ handler.step # "none" /\ handler'.step # "resp"
           /\ (host'.op = "none" => host.op = "none" /\ UNCHANGED wire)
  BY <1>1 DEF Agreement, Opening, SessionOpened, WaitsForItsData, NothingYet
<1>2. CASE Host
  <2>1. UNCHANGED <<state, req, session, inSession>>
    BY <1>2 DEF Host, HostCommand, HostData, HostTakes, HostResumes, HostSignals, transaction, transport
  <2>2. \/ UNCHANGED handler
        \/ handler'.step = handler.step /\ handler'.op = handler.op /\ handler'.code = handler.code
    BY <1>2, VarTypes DEF Host, HostCommand, HostData, HostTakes, HostResumes, HostSignals, Handlers
  <2>3. host'.op = "none" => host.op = "none" /\ UNCHANGED wire
    <3>1. CASE \E op \in Ops : HostCommand(op)
      <4>1. PICK op \in Ops : HostCommand(op)
        BY <3>1
      <4>2. host'.op = op /\ op # "none"
        BY <4>1, ResponderAssumption DEF HostCommand, AllOps
      <4> QED
        BY <4>2
    <3>2. CASE HostData
      <4>1. host'.op = host.op /\ host.op # "none"
        BY <3>2, VarTypes, ResponderAssumption DEF HostData, HostType, AllOps
      <4> QED
        BY <4>1
    <3>3. CASE HostTakes \/ HostResumes \/ \E kind \in {"cancel", "reset"} : HostSignals(kind)
      BY <3>3, VarTypes DEF HostTakes, HostResumes, HostSignals, HostType
    <3> QED
      BY <1>2, <3>1, <3>2, <3>3 DEF Host
  <2> QED
    BY <1>1, <2>1, <2>2, <2>3
<1>3. CASE ReceiveRequest
  <2>1. /\ handler.step = "none" /\ wire # <<>> /\ host' = host /\ host.op # "none"
        /\ req' = HeadContainer /\ HeadContainer \in Containers
    BY <1>3, HeadType DEF ReceiveRequest, Delivering, NothingYet
  <2>2. PICK ok \in BOOLEAN : Command(HeadContainer, ok)
    BY <1>3 DEF ReceiveRequest
  <2>3. Agreement'
    BY <2>1, <2>2, CommandAgrees DEF Agreement, Opening
  <2>4. WaitsForItsData'
    BY <2>1, <2>2, CommandResult DEF CommandOutcome, WaitsForItsData
  <2> QED
    BY <2>1, <2>3, <2>4 DEF NothingYet
<1>4. CASE ReceiveData
  <2>1. /\ handler.step = "none" /\ host' = host /\ host.op # "none" /\ req # NoContainer
        /\ req.op \in Ops \cup {"none", "junk"} /\ req.op # "open"
        /\ UNCHANGED <<session, inSession, req>>
    BY <1>4, VarTypes
       DEF ReceiveData, Delivering, NothingYet, WaitsForItsData, HasDataPhase, Containers
  <2>2. CASE UNCHANGED <<handler, crashed, state, pending, idleTimer>>
    BY <1>1, <2>1, <2>2
  <2>3. CASE \E code \in {"ok", "error"} : SendResponse(req.op, code, FALSE)
    BY <2>1, <2>3, SendResponseAgrees DEF Opening
  <2> QED
    BY <1>4, <2>2, <2>3 DEF ReceiveData
<1>5. CASE ReceiveRefused
  BY <1>5 DEF ReceiveRefused, Delivering, SetState, Agreement, Opening, SessionOpened,
              WaitsForItsData, NothingYet
<1>6. CASE DataSent \/ SegmentSent \/ CopyDone
  <2>1. /\ handler.step \in {"data", "more", "copy"} /\ UNCHANGED <<session, inSession, req, host>>
        /\ host.op # "none"
        /\ handler.op # "open" /\ handler.op \in Ops \cup {"none", "junk"}
    BY <1>6, VarTypes DEF DataSent, SegmentSent, CopyDone, Returns, environment, NothingYet, Handlers,
                          Transfers
  <2>2. CASE \E code \in {"ok", "error"}, hasParam \in BOOLEAN :
               SendResponse(handler.op, code, hasParam)
    BY <2>1, <2>2, SendResponseAgrees DEF Opening
  <2>3. CASE handler'.step # "resp" /\ UNCHANGED state
    BY <1>1, <2>1, <2>3 DEF Opening
  <2>4. handler.step = "copy" => handler.op = "copy"
    BY VarTypes DEF Handlers
  <2>5. CASE DataSent
    <3>1. CASE SendResponse(handler.op, "ok", FALSE)
      BY <2>2, <3>1
    <3>2. CASE handler' = NoHandler /\ UNCHANGED <<crashed, state, pending, idleTimer>>
      BY <2>3, <3>2 DEF NoHandler
    <3> QED
      BY <2>5, <3>1, <3>2 DEF DataSent
  <2>6. CASE SegmentSent
    <3>1. (handler.op = "getPartial") \in BOOLEAN
      OBVIOUS
    <3>2. CASE SendResponse(handler.op, "ok", handler.op = "getPartial")
      BY <2>2, <3>1, <3>2
    <3>3. CASE \/ handler' = Sending("more", handler.op, handler.txn, "ok", handler.more - 1)
               \/ handler' = NoHandler
      <4>1. handler'.step # "resp"
        BY <3>3 DEF Sending, NoHandler
      <4>2. CASE UNCHANGED state
        BY <2>3, <4>1, <4>2
      <4> QED
        BY <2>6, <3>2, <4>2 DEF SegmentSent
    <3> QED
      BY <2>6, <3>2, <3>3 DEF SegmentSent
  <2>7. CASE CopyDone
    <3>1. CASE state = "cancel"
      <4>1. handler'.step # "resp" /\ UNCHANGED state
        BY <2>7, <3>1 DEF CopyDone, NoHandler
      <4> QED
        BY <2>3, <4>1
    <3>2. CASE state # "cancel"
      <4>1. \E code \in {"ok", "error"} : SendResponse("copy", code, TRUE)
        BY <2>7, <3>2 DEF CopyDone
      <4>2. handler.op = "copy"
        BY <2>4, <2>7 DEF CopyDone
      <4> QED
        BY <2>2, <4>1, <4>2
    <3> QED
      BY <3>1, <3>2
  <2> QED
    BY <1>6, <2>5, <2>6, <2>7
<1>7. CASE ResponseSent
  <2>1. /\ handler.step = "resp" /\ inSession' = (inSession \/ SessionOpened)
        /\ handler' = NoHandler /\ req' = NoContainer /\ host.op # "none"
        /\ UNCHANGED <<state, session, host>>
    BY <1>7 DEF ResponseSent, Returns, DeleteRequest, environment, NothingYet
  <2>2. inSession' = session'
    BY <2>1, VarTypes DEF Agreement, Opening, SessionOpened
  <2> QED
    BY <2>1, <2>2 DEF Agreement, Opening, WaitsForItsData, NothingYet, NoHandler
<1>8. CASE IdleTimeout
  BY <1>1, <1>8 DEF IdleTimeout, environment
<1>9. CASE CancelTransaction
  BY <1>9 DEF CancelTransaction, SetState, DeleteRequest, Agreement, Opening, SessionOpened,
              WaitsForItsData, NothingYet
<1>10. CASE BusStops
  <2>1. host.op = "none"
    BY <1>10, VarTypes DEF BusStops, MayStop, HostType, OnlyCancelled
  <2>2. session' = FALSE /\ inSession' = inSession /\ state' = "idle" /\ wire' = <<>>
    <3>1. wire = <<>> /\ ~\E i \in 1 .. Len(wire) : TRUE
      BY <2>1 DEF NothingYet
    <3> QED
      BY <1>10, <3>1 DEF BusStops, DropSession, DiscardInput, SetState
  <2>3. handler.step = "none" /\ handler' = handler /\ inSession = FALSE
    BY <1>10, <2>1, VarTypes DEF BusStops, NothingYet
  <2>4. Agreement'
    BY <2>2, <2>3 DEF Agreement, Opening
  <2> QED
    BY <2>2, <2>3, <2>4 DEF WaitsForItsData, NothingYet
<1>11. ~DeviceReset
  BY OnlyCancelsKept DEF OnlyCancelled, NoReset
<1>12. CASE UNCHANGED vars
  BY <1>1, <1>12 DEF vars, transaction, transport, environment
<1> QED
  BY <1>2, <1>3, <1>4, <1>5, <1>6, <1>7, <1>8, <1>9, <1>10, <1>11, <1>12 DEF Next, Device

\* As long as the host cancels at most, the transport takes events exactly
\* while the responder has a session.
THEOREM SessionKnown ==
    ASSUME OnlyCancelled PROVE Spec => []SessionsAgree
<1>1. Init => SessionInv
  <2> SUFFICES ASSUME Init PROVE SessionInv
    OBVIOUS
  <2>1. handler.step = "none" /\ state = "idle" /\ session = FALSE /\ inSession = FALSE
        /\ wire = <<>> /\ ctrl = <<>>
    BY DEF Init, NoHandler
  <2>2. OnlyCancels
    BY <2>1 DEF OnlyCancels
  <2>3. Agreement /\ WaitsForItsData /\ NothingYet
    BY <2>1 DEF Agreement, Opening, WaitsForItsData, NothingYet
  <2> QED
    BY <2>2, <2>3, InitTInv DEF SessionInv
<1>2. SessionInv /\ [Next]_vars => SessionInv'
  <2>1. NoReset
    BY DEF OnlyCancelled, NoReset
  <2> QED
    BY <2>1, NextTInv, OnlyCancelsKept, SessionStep DEF SessionInv
<1>3. SessionInv => SessionsAgree
  BY DEF SessionInv, Agreement, Opening, SessionsAgree
<1> QED
  BY <1>1, <1>2, <1>3, PTL DEF Spec

-----------------------------------------------------------------------------
(***************************************************************************)
(* Where every packet is: that none is refused, that data never runs as a  *)
(* command, that responses come after the data and never for a transaction *)
(* that has ended.                                                         *)
(*                                                                         *)
(* FlowInv follows the host's transaction through the pipe: its command is *)
(* undelivered, behind commands that were cancelled; or its data is being  *)
(* received; or everything is delivered.  The rest of it ties the stored   *)
(* request and the handler to the state.                                   *)
(***************************************************************************)

-----------------------------------------------------------------------------
(* What the responder stands. *)

\* Every request is answered or ended by the host: no thumbnail is missing and
\* objects are read to their end; an error while one is written waits for the
\* last packet.
NoneAbandoned == "getThumb" \notin Ops /\ StreamErrors \subseteq {"sendPartial"}

\* The host resets nothing and cancels nothing in its own data phase.
Handled ==
    /\ NoneAbandoned
    /\ \A op \in Ops : Ends[op] \subseteq IF HasDataPhase(op) THEN {"stop"} ELSE {"cancel", "stop"}

-----------------------------------------------------------------------------
(* The inductive invariant. *)

\* Packets of data the host has sent, and the place of its command before them.
SentData == host.units - host.todo
First    == Len(wire) - SentData

\* Packets of a host whose transaction is h.
OldCommand(h, p) == /\ p.as.type = "cmd" /\ ~HasDataPhase(p.as.op) /\ p.as.txn < h.txn
                    /\ p.units = 1 /\ p.begin = TRUE
ItsCommand(h)    == [as |-> Container("cmd", h.op, h.txn), units |-> 1, begin |-> TRUE]
ItsData(h, n)    == [as |-> Container("data", h.op, h.txn), units |-> h.units, begin |-> n = 1]

\* The command is in the pipe, after older ones and before its data.
Undelivered ==
    /\ First >= 1 /\ wire[First] = ItsCommand(host)
    /\ \A i \in 1 .. First - 1 : OldCommand(host, wire[i])
    /\ \A i \in First + 1 .. Len(wire) : wire[i] = ItsData(host, i - First)
    /\ host.phase = "ready" => ~HasDataPhase(host.op)
    /\ host.phase \in {"await", "ready", "waiting"} => host.todo = 0
    /\ state # "waitData" /\ left = 0

\* The command and the first -First packets of data have been delivered.
Receiving ==
    /\ First <= 0 /\ -First < host.units
    /\ \A i \in 1 .. Len(wire) : wire[i] = ItsData(host, i - First)
    /\ host.phase \in {"data", "await"} /\ HasDataPhase(host.op)
    /\ host.phase = "await" => host.todo = 0
    /\ state = "waitData" /\ handler.step = "none"
    /\ req = Container("cmd", host.op, host.txn)
    /\ left = IF First = 0 THEN 0 ELSE host.units + First

Delivered == wire = <<>> /\ host.phase # "data" /\ state # "waitData" /\ left = 0

HostKeepsTo ==
    /\ host.units > 0 <=> HasDataPhase(host.op)
    /\ host.todo <= host.units
    /\ host.phase = "waiting" => ~HasDataPhase(host.op)
    /\ ctrl # <<>> => host.phase = "waiting"

\* The state, the stored request and the handler.
Working == handler.step \in {"data", "more", "copy"}
RequestAndState ==
    /\ state = "waitResp" => Working
    /\ Working => (state = "waitResp") = (req # NoContainer)
    /\ state = "cancel" => req = NoContainer
    /\ Working /\ ~handler.sent => req = NoContainer
    /\ RequestIsCommand

\* Transactions begin in order: what is in the pipe has a later id than what is
\* or was worked on, and the stored request a later one than what has ended.
Begun == {handler.txn, req.txn} \cup over
Later(p) == p.as.type = "cmd" => \A t \in Begun : t < p.as.txn
TxnOrder ==
    /\ \A i \in 1 .. Len(wire) : Later(wire[i])
    /\ \A i, j \in 1 .. Len(wire) :
         i < j /\ wire[j].as.type = "cmd" => wire[i].as.txn < wire[j].as.txn
    /\ \A t \in Begun : t <= host.txn
    /\ req # NoContainer => \A o \in over : o < req.txn

\* A piece that survives a stop of the bus puts an end to all this.
FlowCore ==
    /\ ~survived
    /\ Undelivered \/ Receiving \/ Delivered
    /\ HostKeepsTo
    /\ RequestAndState
    /\ TxnOrder
    /\ NothingRefused

FlowInv == TInv /\ OnlyCancels /\ (survived \/ FlowCore)

LEMMA FlowTypes ==
    ASSUME TInv, HostKeepsTo
    PROVE  /\ wire \in Seq(Packets) /\ Len(wire) \in Nat
           /\ \A i \in 1 .. Len(wire) : wire[i] \in Packets
           /\ host.phase \in {"ready", "data", "await", "waiting"} /\ host.txn \in 0 .. TxnBound
           /\ host.op \in Ops \cup {"none"} /\ host.units \in 0 .. 2 /\ host.todo \in 0 .. 2
           /\ SentData \in 0 .. host.units /\ First \in Int /\ First + SentData = Len(wire)
           /\ host.phase = "data" => host.todo \in 1 .. host.units /\ HasDataPhase(host.op)
           /\ Begun \subseteq Nat
           /\ handler.step = "none" => handler.txn = 0
<1>1. wire \in Seq(Packets) /\ Len(wire) \in Nat /\ \A i \in 1 .. Len(wire) : wire[i] \in Packets
  <2>1. wire \in Seq(Packets)
    BY VarTypes
  <2> QED
    BY <2>1, ElementOfSeq
<1>2. /\ host.phase \in {"ready", "data", "await", "waiting"} /\ host.txn \in 0 .. TxnBound
      /\ host.op \in Ops \cup {"none"} /\ host.units \in 0 .. 2 /\ host.todo \in 0 .. 2
      /\ host.phase = "data" => host.todo \in 1 .. host.units
  BY VarTypes DEF HostType
<1>3. SentData \in 0 .. host.units
  BY <1>2 DEF SentData, HostKeepsTo
<1>4. First \in Int /\ First + SentData = Len(wire)
  BY <1>1, <1>2, <1>3 DEF First
<1>5. host.phase = "data" => HasDataPhase(host.op)
  BY <1>2 DEF HostKeepsTo
<1>6. Begun \subseteq Nat
  BY VarTypes, ResponderAssumption DEF Containers, Handlers, Begun
<1>7. handler.step = "none" => handler.txn = 0
  BY VarTypes DEF Handlers, NoHandler
<1> QED
  BY <1>1, <1>2, <1>3, <1>4, <1>5, <1>6, <1>7

LEMMA InitFlow == Init => FlowInv
<1> SUFFICES ASSUME Init PROVE FlowInv
  OBVIOUS
<1>1. /\ state = "idle" /\ req = NoContainer /\ handler = NoHandler /\ left = 0 /\ wire = <<>>
      /\ ctrl = <<>> /\ over = {} /\ refused = FALSE /\ survived = FALSE
      /\ host.phase = "ready" /\ host.txn = 0 /\ host.op = "none" /\ host.units = 0 /\ host.todo = 0
  BY DEF Init
<1>2. Delivered /\ HostKeepsTo /\ NothingRefused
  BY <1>1 DEF Delivered, HostKeepsTo, HasDataPhase, NothingRefused
<1>3. RequestAndState /\ OnlyCancels
  BY <1>1 DEF RequestAndState, Working, NoHandler, RequestIsCommand, NoContainer, Container, OnlyCancels
<1>4. TxnOrder
  BY <1>1 DEF TxnOrder, Begun, NoHandler, NoContainer, Container
<1> QED
  BY <1>1, <1>2, <1>3, <1>4, InitTInv DEF FlowInv, FlowCore

-----------------------------------------------------------------------------
(* The host. *)

\* A packet more in the pipe.
LEMMA PacketAdded ==
    ASSUME NEW p, wire \in Seq(Packets), wire' = Append(wire, p)
    PROVE  /\ Len(wire) \in Nat /\ Len(wire') = Len(wire) + 1 /\ wire'[Len(wire) + 1] = p
           /\ \A i \in 1 .. Len(wire) : wire'[i] = wire[i]
<1>1. wire \in Seq(Packets \cup {p}) /\ p \in Packets \cup {p}
  BY SeqMonotonic
<1> QED
  BY <1>1, AppendProperties

LEMMA HostCommandFlow ==
    ASSUME TInv, FlowCore, NEW op \in Ops, HostCommand(op) PROVE FlowCore'
<1> DEFINE n == Len(wire)
           p == [as |-> Container("cmd", op, host.txn + 1), units |-> 1, begin |-> TRUE]
<1>1. /\ host.phase = "ready" /\ wire' = Append(wire, p)
      /\ host'.phase \in {"data", "await"} /\ host'.txn = host.txn + 1 /\ host'.op = op
      /\ host'.todo = host'.units /\ host'.units \in 0 .. 2
      /\ host'.units > 0 <=> HasDataPhase(op)
      /\ host'.phase = "data" <=> HasDataPhase(op)
      /\ UNCHANGED <<state, req, handler, left, refused, over, survived, ctrl>>
  BY DEF HostCommand, transaction, transport, history
<1> HIDE DEF HostCommand
<1> USE DEF FlowCore
<1>2. /\ wire \in Seq(Packets) /\ n \in Nat /\ host.txn \in Nat
      /\ \A i \in 1 .. n : wire[i] \in Packets
      /\ Begun \subseteq Nat
      /\ SentData \in 0 .. host.units /\ First + SentData = n /\ host.units \in Nat /\ host.todo \in Nat
  BY FlowTypes, ResponderAssumption
<1>3. Len(wire') = n + 1 /\ wire'[n + 1] = p /\ \A i \in 1 .. n : wire'[i] = wire[i]
  BY <1>1, <1>2, PacketAdded
<1>4. /\ \A i \in 1 .. n : OldCommand(host', wire[i])
      /\ state # "waitData" /\ left = 0
  <2>1. CASE Undelivered
    <3>1. ~HasDataPhase(host.op)
      BY <1>1, <2>1 DEF Undelivered
    <3>2. SentData = 0 /\ First = n
      BY <1>2, <3>1, FlowTypes DEF HostKeepsTo
    <3>3. OldCommand(host', wire[n])
      BY <1>1, <1>2, <2>1, <3>1, <3>2 DEF Undelivered, ItsCommand, Container, OldCommand
    <3>4. \A i \in 1 .. n - 1 : OldCommand(host, wire[i])
      BY <2>1, <3>2 DEF Undelivered
    <3>5. ASSUME NEW i \in 1 .. n - 1 PROVE OldCommand(host', wire[i])
      <4>1. OldCommand(host, wire[i]) /\ wire[i] \in Packets
        BY <1>2, <3>4
      <4>2. wire[i].as.txn \in Nat
        BY <4>1 DEF Packets
      <4> QED
        BY <1>1, <1>2, <4>1, <4>2 DEF OldCommand
    <3>6. state # "waitData" /\ left = 0
      BY <2>1 DEF Undelivered
    <3> QED
      BY <1>2, <3>3, <3>5, <3>6
  <2>2. CASE Delivered
    <3>1. n = 0
      BY <2>2 DEF Delivered
    <3> QED
      BY <2>2, <3>1 DEF Delivered
  <2> QED
    BY <1>1, <2>1, <2>2 DEF Receiving
<1>5. First' = n + 1
  <2>1. SentData' = 0
    BY <1>1 DEF SentData
  <2> QED
    BY <1>2, <1>3, <2>1 DEF First
<1>6. Undelivered'
  <2>1. wire'[n + 1] = ItsCommand(host')
    BY <1>1, <1>3 DEF ItsCommand
  <2>2. \A i \in 1 .. First' - 1 : OldCommand(host', wire'[i])
    BY <1>2, <1>3, <1>4, <1>5
  <2>3. host'.phase \in {"await", "ready", "waiting"} => host'.todo = 0
    BY <1>1
  <2>4. \A i \in First' + 1 .. Len(wire') : FALSE
    BY <1>2, <1>3, <1>5
  <2> QED
    BY <1>1, <1>2, <1>4, <1>5, <2>1, <2>2, <2>3, <2>4 DEF Undelivered
<1>7. HostKeepsTo'
  BY <1>1 DEF HostKeepsTo
<1>8. RequestAndState' /\ NothingRefused'
  BY <1>1 DEF RequestAndState, Working, RequestIsCommand, NothingRefused
<1>9. TxnOrder'
  <2>1. Begun' = Begun /\ req' = req /\ over' = over /\ host'.txn = host.txn + 1
    BY <1>1 DEF Begun
  <2>2. p.as.txn = host.txn + 1
    BY DEF Container
  <2>3. \A t \in Begun : t <= host.txn + 1 /\ t < p.as.txn
    BY <1>2, <2>2 DEF TxnOrder
  <2>4. ASSUME NEW i \in 1 .. n + 1 PROVE Later(wire[i])'
    BY <1>2, <1>3, <2>1, <2>3 DEF TxnOrder, Later
  <2>5. ASSUME NEW i \in 1 .. n + 1, NEW j \in 1 .. n + 1, i < j, wire'[j].as.type = "cmd"
        PROVE  wire'[i].as.txn < wire'[j].as.txn
    <3>1. i \in 1 .. n /\ wire'[i] = wire[i]
      BY <1>2, <1>3, <2>5
    <3>2. CASE j \in 1 .. n
      BY <1>3, <2>5, <3>1, <3>2 DEF TxnOrder
    <3>3. CASE j = n + 1
      BY <1>1, <1>3, <1>4, <2>2, <3>1, <3>3 DEF OldCommand
    <3> QED
      BY <1>2, <3>2, <3>3
  <2> QED
    BY <1>3, <2>1, <2>3, <2>4, <2>5 DEF TxnOrder
<1> QED
  BY <1>1, <1>6, <1>7, <1>8, <1>9

LEMMA HostDataFlow ==
    ASSUME TInv, FlowCore, HostData PROVE FlowCore'
<1> DEFINE n == Len(wire)
           p == [as |-> Container("data", host.op, host.txn), units |-> host.units,
                 begin |-> host.todo = host.units]
<1>1. /\ host.phase = "data" /\ wire' = Append(wire, p)
      /\ host'.txn = host.txn /\ host'.op = host.op /\ host'.units = host.units
      /\ host'.todo = host.todo - 1 /\ host'.phase = IF host.todo = 1 THEN "await" ELSE "data"
      /\ UNCHANGED <<state, req, handler, left, refused, over, survived, ctrl>>
  BY VarTypes DEF HostData, HostType, transaction, transport, history
<1> USE DEF FlowCore
<1>2. /\ wire \in Seq(Packets) /\ n \in Nat
      /\ host.todo \in 1 .. host.units /\ host.units \in Nat
      /\ SentData \in Nat /\ First \in Int /\ First = n - SentData
  BY <1>1, FlowTypes
<1>3. Len(wire') = n + 1 /\ wire'[n + 1] = p /\ \A i \in 1 .. n : wire'[i] = wire[i]
  BY <1>1, <1>2, PacketAdded
<1>4. SentData = host.units - host.todo /\ First' = First
  BY <1>1, <1>2, <1>3 DEF SentData, First
<1>5. /\ ItsCommand(host') = ItsCommand(host)
      /\ \A k \in Int : ItsData(host', k) = ItsData(host, k)
      /\ \A q : OldCommand(host', q) = OldCommand(host, q)
  BY <1>1 DEF ItsCommand, ItsData, OldCommand
<1>6. wire'[n + 1] = ItsData(host', n + 1 - First)
  <2>1. (n + 1 - First = 1) = (host.todo = host.units)
    <3>1. n + 1 - First = 1 <=> host.todo = host.units
      <4>1. n + 1 - First = host.units - host.todo + 1
        BY <1>2, <1>4
      <4> QED
        BY <1>2, <4>1
    <3> QED
      BY <3>1
  <2> QED
    BY <1>1, <1>3, <2>1 DEF ItsData
<1>7. /\ host'.phase \in {"data", "await"}
      /\ host'.phase = "await" => host'.todo = 0
      /\ HasDataPhase(host.op)
  BY <1>1, FlowTypes
<1>8. ASSUME Undelivered PROVE Undelivered'
  <2>1. First >= 1 /\ wire'[First] = ItsCommand(host')
    <3>1. First >= 1 /\ wire[First] = ItsCommand(host)
      BY <1>8 DEF Undelivered
    <3>2. First \in 1 .. n
      BY <1>2, <3>1
    <3> QED
      BY <1>3, <1>5, <3>1, <3>2
  <2>2. \A i \in 1 .. First - 1 : OldCommand(host', wire'[i])
    BY <1>2, <1>3, <1>5, <1>8 DEF Undelivered
  <2>3. ASSUME NEW i \in First + 1 .. n + 1 PROVE wire'[i] = ItsData(host', i - First)
    <3>1. CASE i = n + 1
      BY <1>2, <1>6, <3>1
    <3>2. CASE i \in First + 1 .. n
      <4>1. wire[i] = ItsData(host, i - First) /\ wire'[i] = wire[i] /\ i - First \in Int
        BY <1>2, <1>3, <1>8, <2>1, <3>2 DEF Undelivered
      <4> QED
        BY <1>5, <4>1
    <3> QED
      BY <1>2, <3>1, <3>2
  <2>4. state' # "waitData" /\ left' = 0
    BY <1>1, <1>8 DEF Undelivered
  <2>5. \A i \in First' + 1 .. Len(wire') : wire'[i] = ItsData(host', i - First')
    BY <1>3, <1>4, <2>3
  <2>6. Undelivered'
    BY <1>3, <1>4, <1>7, <2>1, <2>2, <2>4, <2>5 DEF Undelivered
  <2> QED
    BY <2>6
<1>9. ASSUME Receiving PROVE Receiving'
  <2>1. ASSUME NEW i \in 1 .. n + 1 PROVE wire'[i] = ItsData(host', i - First)
    <3>1. CASE i = n + 1
      BY <1>2, <1>6, <3>1
    <3>2. CASE i \in 1 .. n
      <4>1. wire[i] = ItsData(host, i - First) /\ wire'[i] = wire[i] /\ i - First \in Int
        <5>1. wire[i] = ItsData(host, i - First)
          BY <1>9, <3>2 DEF Receiving
        <5> QED
          BY <1>2, <1>3, <3>2, <5>1
      <4> QED
        BY <1>5, <4>1
    <3> QED
      BY <1>2, <3>1, <3>2
  <2>2. \A i \in 1 .. Len(wire') : wire'[i] = ItsData(host', i - First')
    BY <1>3, <1>4, <2>1
  <2>3. /\ First' <= 0 /\ -First' < host'.units /\ HasDataPhase(host'.op)
        /\ left' = IF First' = 0 THEN 0 ELSE host'.units + First'
        /\ req' = Container("cmd", host'.op, host'.txn)
        /\ state' = "waitData" /\ handler'.step = "none"
    BY <1>1, <1>4, <1>7, <1>9 DEF Receiving
  <2>4. Receiving'
    BY <1>7, <2>2, <2>3 DEF Receiving
  <2> QED
    BY <2>4
<1>10. HostKeepsTo'
  BY <1>1, <1>2, <1>7 DEF HostKeepsTo
<1>11. RequestAndState' /\ NothingRefused'
  BY <1>1 DEF RequestAndState, Working, RequestIsCommand, NothingRefused
<1>12. TxnOrder'
  <2>1. Begun' = Begun /\ req' = req /\ over' = over /\ host'.txn = host.txn
    BY <1>1 DEF Begun
  <2>2. p.as.type # "cmd"
    BY DEF Container
  <2>3. \A i \in 1 .. n + 1 : wire'[i].as.type = "cmd" => i \in 1 .. n /\ wire'[i] = wire[i]
    BY <1>2, <1>3, <2>2
  <2>4. \A i \in 1 .. n + 1 : Later(wire[i])'
    BY <1>3, <2>1, <2>3 DEF TxnOrder, Later
  <2>5. \A i, j \in 1 .. n + 1 : i < j /\ wire'[j].as.type = "cmd" => wire'[i].as.txn < wire'[j].as.txn
    BY <1>2, <1>3, <2>3 DEF TxnOrder
  <2> QED
    BY <1>3, <2>1, <2>4, <2>5 DEF TxnOrder
<1>13. Undelivered' \/ Receiving' \/ Delivered'
  BY <1>1, <1>8, <1>9 DEF Delivered
<1> QED
  BY <1>1, <1>10, <1>11, <1>12, <1>13

\* Steps that leave the pipe alone and receive nothing.
LEMMA PlaceKept ==
    ASSUME Undelivered \/ Delivered, UNCHANGED <<wire, left>>, state' # "waitData",
           host'.txn = host.txn, host'.op = host.op, host'.units = host.units,
           host'.todo = host.todo,
           \/ host'.phase = host.phase
           \/ /\ host'.phase \in {"ready", "waiting"}
              /\ Delivered \/ (~HasDataPhase(host.op) /\ host.todo = 0)
    PROVE  Undelivered' \/ Delivered'
<1>1. /\ ItsCommand(host') = ItsCommand(host)
      /\ \A k : ItsData(host', k) = ItsData(host, k)
      /\ \A q : OldCommand(host', q) = OldCommand(host, q)
      /\ First' = First
  BY DEF ItsCommand, ItsData, OldCommand, First, SentData
<1>2. CASE Delivered
  BY <1>2 DEF Delivered
<1>3. CASE Undelivered /\ ~Delivered
  <2>1. First' >= 1 /\ wire'[First'] = ItsCommand(host')
    BY <1>1, <1>3 DEF Undelivered
  <2>2. \A i \in 1 .. First' - 1 : OldCommand(host', wire'[i])
    BY <1>1, <1>3 DEF Undelivered
  <2>3. \A i \in First' + 1 .. Len(wire') : wire'[i] = ItsData(host', i - First')
    BY <1>1, <1>3 DEF Undelivered
  <2>4. /\ host'.phase = "ready" => ~HasDataPhase(host'.op)
        /\ host'.phase \in {"await", "ready", "waiting"} => host'.todo = 0
    BY <1>3 DEF Undelivered
  <2>5. left' = 0
    BY <1>3 DEF Undelivered
  <2> QED
    BY <2>1, <2>2, <2>3, <2>4, <2>5 DEF Undelivered
<1> QED
  BY <1>2, <1>3

\* Steps that begin no transaction.
LEMMA OrderKept ==
    ASSUME TxnOrder, UNCHANGED wire, Begun' \subseteq Begun, host'.txn = host.txn,
           req' = NoContainer \/ (req' = req /\ over' = over)
    PROVE  TxnOrder'
BY DEF TxnOrder, Later

LEMMA FlowUnchanged ==
    ASSUME FlowCore, UNCHANGED <<state, handler, req, refused, over, survived, wire, left, host, ctrl>>
    PROVE  FlowCore'
<1>1. Undelivered' \/ Receiving' \/ Delivered'
  BY DEF FlowCore, Undelivered, Receiving, Delivered, First, SentData
<1>2. HostKeepsTo' /\ RequestAndState' /\ TxnOrder' /\ NothingRefused'
  BY DEF FlowCore, HostKeepsTo, RequestAndState, Working, RequestIsCommand, TxnOrder, Later, Begun,
         NothingRefused
<1> QED
  BY <1>1, <1>2 DEF FlowCore

LEMMA HostTakesFlow ==
    ASSUME TInv, FlowCore, HostTakes PROVE FlowCore'
<1> USE DEF FlowCore
<1>1. /\ handler.step \in {"data", "more", "resp"}
      /\ handler'.step = handler.step /\ handler'.txn = handler.txn /\ handler'.sent = handler.sent
      /\ UNCHANGED <<state, req, left, refused, over, survived, wire, ctrl>>
  BY VarTypes DEF HostTakes, transaction, transport, history, Handlers
<1>2. /\ host'.txn = host.txn /\ host'.op = host.op /\ host'.units = host.units
      /\ host'.todo = host.todo
      /\ \/ host'.phase = host.phase
         \/ host.phase = "await" /\ host'.phase = "ready" /\ handler.txn = host.txn
  BY VarTypes DEF HostTakes, HostType
<1>3. state # "waitData" /\ (Undelivered \/ Delivered)
  BY <1>1 DEF Receiving, Undelivered, Delivered
<1>4. Undelivered => handler.txn < host.txn
  <2> SUFFICES ASSUME Undelivered PROVE handler.txn < host.txn
    OBVIOUS
  <2>1. First \in 1 .. Len(wire)
    BY FlowTypes DEF Undelivered
  <2>2. wire[First].as.type = "cmd" /\ wire[First].as.txn = host.txn
    BY DEF Undelivered, ItsCommand, Container
  <2>3. Later(wire[First])
    BY <2>1 DEF TxnOrder
  <2> QED
    BY <2>2, <2>3 DEF Later, Begun
<1>5. host.txn \in Nat /\ handler.txn \in Nat
  BY FlowTypes, ResponderAssumption DEF Begun
<1>6. Undelivered' \/ Delivered'
  BY <1>1, <1>2, <1>3, <1>4, <1>5, PlaceKept
<1>7. HostKeepsTo'
  BY <1>1, <1>2 DEF HostKeepsTo
<1>8. RequestAndState' /\ NothingRefused'
  BY <1>1 DEF RequestAndState, Working, RequestIsCommand, NothingRefused
<1>9. TxnOrder'
  BY <1>1, <1>2, OrderKept DEF Begun
<1> QED
  BY <1>1, <1>6, <1>7, <1>8, <1>9

\* A host that cancels has no data phase, and goes on when the signal has been
\* handled.
LEMMA HostSignalsFlow ==
    ASSUME Handled, TInv, FlowCore, HostResumes \/ \E kind \in {"cancel", "reset"} : HostSignals(kind)
    PROVE  FlowCore'
<1> USE DEF FlowCore
<1>1. /\ host'.txn = host.txn /\ host'.op = host.op /\ host'.units = host.units
      /\ host'.todo = host.todo
      /\ UNCHANGED <<state, req, handler, left, refused, over, survived, wire>>
  BY VarTypes DEF HostResumes, HostSignals, HostType, transaction, transport, history
<1>2. /\ ~HasDataPhase(host.op)
      /\ \/ host'.phase = "ready" /\ ctrl' = <<>>
         \/ host'.phase = "waiting" /\ host.phase \in {"data", "await"}
  <2>1. CASE HostResumes
    BY <2>1, VarTypes DEF HostResumes, HostType, HostKeepsTo
  <2>2. CASE \E kind \in {"cancel", "reset"} : HostSignals(kind)
    <3>1. PICK kind \in {"cancel", "reset"} : HostSignals(kind)
      BY <2>2
    <3>2. host.op \in Ops /\ host.phase \in {"data", "await"} /\ host'.phase = "waiting"
      BY <3>1, VarTypes DEF HostSignals, HostType
    <3>3. ~HasDataPhase(host.op)
      BY <3>1, <3>2 DEF HostSignals, Handled
    <3> QED
      BY <3>2, <3>3
  <2> QED
    BY <2>1, <2>2
<1>3. host.todo = 0
  BY <1>2, FlowTypes DEF HostKeepsTo
<1>4. Undelivered' \/ Delivered'
  <2>1. state' # "waitData" /\ (Undelivered \/ Delivered)
    BY <1>1, <1>2 DEF Receiving, Undelivered, Delivered
  <2> QED
    BY <1>1, <1>2, <1>3, <2>1, PlaceKept
<1>5. HostKeepsTo'
  BY <1>1, <1>2 DEF HostKeepsTo
<1>6. RequestAndState' /\ NothingRefused'
  BY <1>1 DEF RequestAndState, Working, RequestIsCommand, NothingRefused
<1>7. TxnOrder'
  BY <1>1, OrderKept DEF Begun
<1> QED
  BY <1>1, <1>4, <1>5, <1>6, <1>7

-----------------------------------------------------------------------------
(* Receiving. *)

\* The head of the pipe in a state that takes requests is a command, of one
\* packet.
LEMMA HeadIsCommand ==
    ASSUME TInv, FlowCore, wire # <<>>, state # "waitData"
    PROVE  /\ Undelivered
           /\ wire[1].as.type = "cmd" /\ wire[1] \in Packets
           /\ HeadContainer = wire[1].as
           /\ UnitsDue = {1} /\ left = 0
           /\ First > 1 => ~HasDataPhase(wire[1].as.op)
           /\ First = 1 => wire[1].as = Container("cmd", host.op, host.txn)
<1> USE DEF FlowCore
<1>1. Undelivered /\ left = 0
  BY DEF Receiving, Delivered, Undelivered
<1>2. First >= 1 /\ 1 \in 1 .. Len(wire)
  BY <1>1, FlowTypes DEF Undelivered
<1>3. CASE First = 1
  <2>1. wire[1] = ItsCommand(host)
    BY <1>1, <1>3 DEF Undelivered
  <2>2. wire[1].as.type = "cmd" /\ wire[1].units = 1 /\ wire[1].begin = TRUE
        /\ wire[1].as = Container("cmd", host.op, host.txn)
    BY <2>1 DEF ItsCommand, Container
  <2> QED
    BY <1>1, <1>2, <1>3, <2>2, HeadType DEF HeadContainer, UnitsDue
<1>4. CASE First > 1
  <2>1. OldCommand(host, wire[1])
    BY <1>1, <1>4, FlowTypes DEF Undelivered
  <2> QED
    BY <1>1, <1>2, <1>4, <2>1, HeadType DEF HeadContainer, UnitsDue, OldCommand
<1> QED
  BY <1>2, <1>3, <1>4, FlowTypes

\* So nothing is refused: a state that takes no request has a handler.
LEMMA NeverRefused == ASSUME TInv, FlowCore PROVE ~ReceiveRefused
<1> SUFFICES ASSUME ReceiveRefused PROVE FALSE
  OBVIOUS
<1>1. handler.step = "none" /\ wire # <<>> /\ state # "waitData"
  BY DEF ReceiveRefused, Delivering
<1>2. state # "waitResp"
  BY <1>1 DEF FlowCore, RequestAndState, Working
<1>3. UnitsDue = {1} /\ left = 0
  BY <1>1, HeadIsCommand
<1> QED
  BY <1>2, <1>3 DEF ReceiveRefused, IsRequest

\* The packet at the head is delivered.
LEMMA PacketTaken ==
    ASSUME TInv, wire # <<>>, wire' = Tail(wire), HostKeepsTo, UNCHANGED host
    PROVE  /\ Len(wire) \in Nat \ {0} /\ Len(wire') = Len(wire) - 1 /\ First' = First - 1
           /\ \A i \in 1 .. Len(wire') : i + 1 \in 1 .. Len(wire) /\ wire'[i] = wire[i + 1]
<1>1. /\ Len(wire) \in Nat \ {0} /\ Len(wire') = Len(wire) - 1
      /\ \A i \in 1 .. Len(wire) - 1 : wire'[i] = wire[i + 1]
  BY VarTypes, HeadType, EmptySeq
<1>2. First \in Int /\ SentData \in Int /\ First = Len(wire) - SentData /\ SentData' = SentData
  BY FlowTypes DEF SentData, First
<1>3. First' = First - 1
  BY <1>1, <1>2 DEF First
<1> QED
  BY <1>1, <1>3

LEMMA ReceiveRequestFlow ==
    ASSUME Handled, TInv, FlowCore, ReceiveRequest PROVE FlowCore'
<1> DEFINE c == wire[1].as
<1> USE DEF FlowCore
<1>1. /\ handler.step = "none" /\ wire # <<>> /\ state # "waitData"
      /\ req' = HeadContainer /\ UNCHANGED <<refused, over, survived, host, ctrl>>
      /\ \E u \in UnitsDue : NextPacket(u)
  BY DEF ReceiveRequest, Delivering, history
<1>2. /\ Undelivered /\ c.type = "cmd" /\ c.op \in Ops /\ c.txn \in 1 .. TxnBound
      /\ HeadContainer = c /\ UnitsDue = {1} /\ left = 0
      /\ First > 1 => ~HasDataPhase(c.op)
      /\ First = 1 => c = Container("cmd", host.op, host.txn)
  BY <1>1, HeadIsCommand DEF Packets
<1>3. wire' = Tail(wire) /\ left' = 0 /\ req' = c
  BY <1>1, <1>2 DEF NextPacket
<1>4. /\ Len(wire) \in Nat \ {0} /\ Len(wire') = Len(wire) - 1 /\ First' = First - 1
      /\ \A i \in 1 .. Len(wire') : i + 1 \in 1 .. Len(wire) /\ wire'[i] = wire[i + 1]
  BY <1>1, <1>3, PacketTaken
<1>5. First \in Int /\ First >= 1 /\ SentData \in 0 .. host.units /\ First + SentData = Len(wire)
      /\ host.units \in 0 .. 2 /\ host.todo \in 0 .. 2
  BY <1>2, FlowTypes DEF Undelivered
<1>6. CommandOutcome(c)
  <2>1. PICK ok \in BOOLEAN : Command(c, ok)
    BY <1>2 DEF ReceiveRequest
  <2>2. c \in Containers
    BY <1>1, <1>2, HeadType
  <2> QED
    BY <2>1, <2>2, CommandResult
<1>7. /\ HasDataPhase(c.op) => state' = "waitData" /\ handler'.step = "none" /\ handler'.txn = 0
      /\ ~HasDataPhase(c.op) => \/ state' = "idle" /\ handler'.step = "resp"
                                \/ state' = "waitResp" /\ Working' /\ handler'.sent
      /\ handler'.txn \in 0 .. c.txn
  <2>1. c.op # "getThumb"
    BY <1>2 DEF Handled, NoneAbandoned
  <2>2. c.op \in Ops \cup {"none", "junk"} /\ c.txn \in 0 .. TxnBound
    BY <1>2, ResponderAssumption
  <2>3. \A code \in {"ok", "error"} : /\ Answer(c.op, c.txn, code).txn \in 0 .. c.txn
                                      /\ Answer(c.op, c.txn, code).step = "resp"
    BY <2>2, AnswerType
  <2>4. CASE HasDataPhase(c.op) /\ state' = "waitData" /\ handler' = NoHandler
    BY <2>2, <2>4, ResponderAssumption DEF NoHandler
  <2>5. CASE /\ c.op \in {"plain", "junk", "open", "close", "dataIn", "getObject", "getPartial", "copy"}
             /\ state' = "idle"
             /\ \E code \in {"ok", "error"} : handler' = Answer(c.op, c.txn, code)
    BY <2>3, <2>5 DEF HasDataPhase
  <2>6. CASE /\ c.op \in {"dataIn", "getThumb", "getObject", "getPartial"}
             /\ state' = "waitResp"
             /\ \E more \in 0 .. SegmentBound : handler' = Sending("data", c.op, c.txn, "ok", more)
    BY <2>2, <2>6, ResponderAssumption DEF HasDataPhase, Sending, Working
  <2>7. CASE c.op = "copy" /\ state' = "waitResp" /\ handler' = Sending("copy", c.op, c.txn, "ok", 0)
    BY <2>2, <2>7, ResponderAssumption DEF HasDataPhase, Sending, Working
  <2> QED
    BY <1>6, <2>1, <2>4, <2>5, <2>6, <2>7 DEF CommandOutcome
<1>8. ASSUME First > 1 PROVE Undelivered'
  <2>1. First' >= 1 /\ wire'[First'] = ItsCommand(host')
    BY <1>1, <1>2, <1>4, <1>5, <1>8 DEF Undelivered
  <2>2. ASSUME NEW i \in 1 .. First' - 1 PROVE OldCommand(host', wire'[i])
    <3>1. i + 1 \in 1 .. First - 1 /\ i \in 1 .. Len(wire')
      BY <1>4, <1>5
    <3> QED
      BY <1>1, <1>2, <1>4, <3>1 DEF Undelivered
  <2>3. ASSUME NEW i \in First' + 1 .. Len(wire') PROVE wire'[i] = ItsData(host', i - First')
    <3>1. i + 1 \in First + 1 .. Len(wire) /\ i \in 1 .. Len(wire') /\ (i + 1) - First = i - First'
      BY <1>4, <1>5, <1>8
    <3>2. wire[i + 1] = ItsData(host, (i + 1) - First)
      BY <1>2, <3>1 DEF Undelivered
    <3> QED
      BY <1>1, <1>4, <3>1, <3>2
  <2>4. state' # "waitData"
    BY <1>2, <1>7, <1>8
  <2> QED
    BY <1>1, <1>2, <1>3, <2>1, <2>2, <2>3, <2>4 DEF Undelivered
<1>9. ASSUME First = 1, HasDataPhase(host.op) PROVE Receiving'
  <2>1. c = Container("cmd", host.op, host.txn) /\ c.op = host.op
    BY <1>2, <1>9 DEF Container
  <2>2. ASSUME NEW i \in 1 .. Len(wire') PROVE wire'[i] = ItsData(host', i - First')
    <3>1. i + 1 \in First + 1 .. Len(wire) /\ (i + 1) - First = i - First'
      BY <1>4, <1>5, <1>9
    <3>2. wire[i + 1] = ItsData(host, (i + 1) - First)
      BY <1>2, <3>1 DEF Undelivered
    <3> QED
      BY <1>1, <1>4, <3>1, <3>2
  <2>3. First' = 0 /\ -First' < host.units
    BY <1>4, <1>5, <1>9 DEF HostKeepsTo
  <2>4. host.phase \in {"data", "await"} /\ (host.phase = "await" => host.todo = 0)
    BY <1>2, <1>9, FlowTypes DEF Undelivered, HostKeepsTo
  <2> QED
    BY <1>1, <1>3, <1>7, <1>9, <2>1, <2>2, <2>3, <2>4 DEF Receiving
<1>10. ASSUME First = 1, ~HasDataPhase(host.op) PROVE Delivered'
  <2>1. SentData = 0 /\ Len(wire') = 0
    BY <1>4, <1>5, <1>10 DEF HostKeepsTo
  <2>2. wire' = <<>>
    BY <1>1, <1>3, <2>1, HeadType, EmptySeq
  <2>3. host.phase # "data"
    BY <1>10, FlowTypes
  <2>4. state' # "waitData"
    BY <1>2, <1>7, <1>10 DEF Container
  <2> QED
    BY <1>1, <1>3, <2>2, <2>3, <2>4 DEF Delivered
<1>11. HostKeepsTo' /\ NothingRefused'
  BY <1>1 DEF HostKeepsTo, NothingRefused
<1>12. RequestAndState'
  <2>1. req' # NoContainer /\ req'.type = "cmd"
    BY <1>2, <1>3 DEF NoContainer, Container
  <2> QED
    BY <1>7, <2>1 DEF RequestAndState, Working, RequestIsCommand
<1>13. TxnOrder'
  <2>1. \A t \in Begun : t \in Nat /\ t < c.txn
    BY <1>2, <1>4, FlowTypes DEF TxnOrder, Later
  <2>2. \A t \in Begun' : t <= c.txn
    BY <1>1, <1>2, <1>3, <1>7, <2>1 DEF Begun
  <2>3. ASSUME NEW i \in 1 .. Len(wire'), wire'[i].as.type = "cmd"
        PROVE  c.txn < wire'[i].as.txn /\ wire'[i].as.txn \in Nat
    <3>1. i + 1 \in 1 .. Len(wire) /\ wire'[i] = wire[i + 1] /\ 1 \in 1 .. Len(wire) /\ 1 < i + 1
      BY <1>4
    <3>2. wire[i + 1] \in Packets
      BY <3>1, FlowTypes
    <3> QED
      BY <2>3, <3>1, <3>2 DEF TxnOrder, Packets
  <2>4. \A i \in 1 .. Len(wire') : Later(wire[i])'
    <3>1. \A t \in Begun' : t \in Nat
      BY <1>1, <1>2, <1>3, <1>7, <2>1 DEF Begun
    <3> QED
      BY <1>2, <2>2, <2>3, <3>1 DEF Later
  <2>5. \A i, j \in 1 .. Len(wire') :
          i < j /\ wire'[j].as.type = "cmd" => wire'[i].as.txn < wire'[j].as.txn
    BY <1>4 DEF TxnOrder
  <2>6. c.txn <= host.txn
    <3>1. CASE First = 1
      BY <1>2, <3>1, FlowTypes DEF Container
    <3>2. CASE First > 1
      BY <1>2, <3>2, FlowTypes DEF Undelivered, OldCommand
    <3> QED
      BY <1>5, <3>1, <3>2
  <2>7. \A t \in Begun' : t <= host'.txn
    BY <1>1, <1>2, <1>3, <1>7, <2>1, <2>6, FlowTypes DEF Begun
  <2>8. \A o \in over' : o < req'.txn
    BY <1>1, <1>3, <2>1 DEF Begun
  <2> QED
    BY <2>4, <2>5, <2>7, <2>8 DEF TxnOrder
<1> QED
  BY <1>1, <1>5, <1>8, <1>9, <1>10, <1>11, <1>12, <1>13

\* The next packet of data.  Only the last one is answered.
LEMMA ReceiveDataFlow ==
    ASSUME Handled, TInv, FlowCore, ReceiveData PROVE FlowCore'
<1> DEFINE u == host.units + First
<1> USE DEF FlowCore
<1>1. /\ handler.step = "none" /\ wire # <<>> /\ state = "waitData" /\ req # NoContainer
      /\ UNCHANGED <<req, refused, over, survived, host, ctrl>>
  BY DEF ReceiveData, Delivering, history
<1>2. Receiving
  BY <1>1 DEF Undelivered, Delivered
<1>3. /\ First \in Int /\ First <= 0 /\ -First < host.units
      /\ SentData \in 0 .. host.units /\ First + SentData = Len(wire)
      /\ host.units \in 0 .. 2 /\ host.todo \in 0 .. 2 /\ SentData = host.units - host.todo
      /\ req = Container("cmd", host.op, host.txn) /\ req.txn = host.txn
      /\ host.txn \in 0 .. TxnBound
      /\ left = IF First = 0 THEN 0 ELSE u
      /\ u \in 1 .. 2
  BY <1>2, FlowTypes DEF Receiving, SentData, Container
<1>4. UnitsDue = {u}
  <2>1. CASE First = 0
    <3>1. 1 \in 1 .. Len(wire)
      BY <1>1, VarTypes, EmptySeq
    <3>2. wire[1] = ItsData(host, 1 - First)
      BY <1>2, <3>1 DEF Receiving
    <3>3. wire[1].begin = (1 - First = 1) /\ wire[1].units = host.units
      BY <3>2 DEF ItsData
    <3>4. wire[1].begin = TRUE /\ wire[1].units = u
      <4>1. 1 - First = 1 /\ host.units = u
        BY <1>3, <2>1
      <4> QED
        BY <3>3, <4>1
    <3> QED
      BY <1>1, <1>3, <2>1, <3>4, HeadType DEF UnitsDue
  <2>2. CASE First # 0
    BY <1>3, <2>2 DEF UnitsDue
  <2> QED
    BY <2>1, <2>2
<1>5. wire' = Tail(wire) /\ left' = u - 1
  BY <1>4 DEF ReceiveData, NextPacket
<1>6. /\ Len(wire) \in Nat \ {0} /\ Len(wire') = Len(wire) - 1 /\ First' = First - 1
      /\ \A i \in 1 .. Len(wire') : i + 1 \in 1 .. Len(wire) /\ wire'[i] = wire[i + 1]
  BY <1>1, <1>5, PacketTaken
<1>7. ~AnswerDue(u) \/ u = 1
  BY DEF AnswerDue, Handled, NoneAbandoned
<1>8. \A i \in 1 .. Len(wire') : wire'[i] = ItsData(host, i - First') /\ wire'[i].as.type # "cmd"
  <2> SUFFICES ASSUME NEW i \in 1 .. Len(wire')
               PROVE  wire'[i] = ItsData(host, i - First') /\ wire'[i].as.type # "cmd"
    OBVIOUS
  <2>1. i + 1 \in 1 .. Len(wire) /\ wire'[i] = wire[i + 1] /\ (i + 1) - First = i - First'
    BY <1>3, <1>6
  <2>2. wire[i + 1] = ItsData(host, (i + 1) - First)
    BY <1>2, <2>1 DEF Receiving
  <2> QED
    BY <2>1, <2>2 DEF ItsData, Container
<1>9. HostKeepsTo' /\ NothingRefused'
  BY <1>1 DEF HostKeepsTo, NothingRefused
<1>10. handler'.txn <= req.txn /\ handler'.txn \in Nat => TxnOrder'
  <2>1. \A t \in Begun : t \in Nat /\ t <= host.txn
    BY FlowTypes DEF TxnOrder
  <2> SUFFICES ASSUME handler'.txn <= req.txn, handler'.txn \in Nat PROVE TxnOrder'
    OBVIOUS
  <2>2. \A t \in Begun' : t <= host'.txn
    BY <1>1, <1>3, <2>1 DEF Begun
  <2> QED
    BY <1>1, <1>8, <2>2 DEF TxnOrder, Later
<1>11. CASE u > 1
  <2>1. UNCHANGED <<handler, state>>
    <3>1. u # 1 /\ ~AnswerDue(u)
      BY <1>3, <1>7, <1>11
    <3> HIDE DEF u
    <3> QED
      BY <1>4, <3>1 DEF ReceiveData
  <2>2. Receiving'
    <3>1. First' <= 0 /\ -First' < host.units /\ First' # 0 /\ u - 1 = host.units + First'
      BY <1>3, <1>6, <1>11
    <3>2. /\ host.phase \in {"data", "await"} /\ HasDataPhase(host.op)
          /\ host.phase = "await" => host.todo = 0
      BY <1>2 DEF Receiving
    <3> QED
      BY <1>1, <1>3, <1>5, <1>8, <2>1, <3>1, <3>2 DEF Receiving
  <2>3. RequestAndState'
    BY <1>1, <2>1 DEF RequestAndState, Working, RequestIsCommand
  <2>4. TxnOrder'
    BY <1>1, <1>3, <1>10, <2>1, FlowTypes
  <2> QED
    BY <1>1, <1>9, <2>2, <2>3, <2>4
<1>12. CASE u = 1
  <2>1. PICK code \in {"ok", "error"} : SendResponse(req.op, code, FALSE)
    BY <1>4, <1>12 DEF ReceiveData
  <2>2. state' = "idle" /\ handler' = Answer(req.op, req.txn, code)
    BY <1>1, <2>1 DEF SendResponse, SetState
  <2>3. handler'.step = "resp" /\ handler'.txn \in 0 .. req.txn
    <3>1. req.op \in Ops \cup {"none", "junk"} /\ req.txn \in 0 .. TxnBound
      BY VarTypes DEF Containers
    <3> QED
      BY <2>2, <3>1, AnswerType
  <2>4. Delivered'
    <3>1. Len(wire') = 0 /\ host.todo = 0
      BY <1>3, <1>6, <1>12
    <3>2. wire' = <<>>
      BY <1>1, <1>5, <3>1, HeadType, EmptySeq
    <3>3. host.phase # "data"
      BY <3>1, FlowTypes
    <3> QED
      BY <1>1, <1>5, <1>12, <2>2, <3>2, <3>3 DEF Delivered
  <2>5. RequestAndState'
    BY <1>1, <2>2, <2>3 DEF RequestAndState, Working, RequestIsCommand
  <2>6. TxnOrder'
    BY <1>3, <1>10, <2>3
  <2> QED
    BY <1>1, <1>9, <2>4, <2>5, <2>6
<1> QED
  BY <1>3, <1>11, <1>12

-----------------------------------------------------------------------------
(* The handler. *)

\* A handler that is still at work answers, unless its request is gone.
LEMMA AnswerFlow ==
    ASSUME TInv, FlowCore, Working, NEW op \in Ops \cup {"none", "junk"}, NEW code \in {"ok", "error"},
           NEW hasParam \in BOOLEAN, SendResponse(op, code, hasParam),
           UNCHANGED <<req, refused, over, survived, wire, left, host, ctrl>>
    PROVE  FlowCore'
<1> USE DEF FlowCore
<1>1. state # "waitData" /\ (Undelivered \/ Delivered)
  BY DEF Working, Receiving, Undelivered, Delivered
<1>2. req.txn \in 0 .. TxnBound /\ req.txn \in Nat /\ handler.txn \in Nat
  BY VarTypes, FlowTypes DEF Containers, Begun
<1>3. \/ req = NoContainer /\ handler' = NoHandler /\ state' = state /\ state # "waitResp"
      \/ req # NoContainer /\ state' = "idle" /\ handler' = Answer(op, req.txn, code)
  BY DEF SendResponse, SetState, RequestAndState
<1>4. /\ state' # "waitData" /\ state' # "waitResp" /\ ~Working'
      /\ handler'.txn \in 0 .. req.txn
  BY <1>1, <1>2, <1>3, AnswerType DEF NoHandler, Working
<1>5. Undelivered' \/ Delivered'
  BY <1>1, <1>4, PlaceKept
<1>6. HostKeepsTo' /\ NothingRefused'
  BY DEF HostKeepsTo, NothingRefused
<1>7. RequestAndState'
  BY <1>3, <1>4 DEF RequestAndState, RequestIsCommand
<1>8. TxnOrder'
  <2>1. \A t \in Begun' : \E r \in Begun : t <= r /\ t \in Nat /\ r \in Nat
    BY <1>2, <1>4, FlowTypes DEF Begun
  <2>2. \A i \in 1 .. Len(wire) : Later(wire[i])'
    <3> SUFFICES ASSUME NEW i \in 1 .. Len(wire), wire[i].as.type = "cmd", NEW t \in Begun'
                 PROVE  t < wire[i].as.txn
      BY DEF Later
    <3>1. PICK r \in Begun : t <= r /\ t \in Nat /\ r \in Nat
      BY <2>1
    <3>2. r < wire[i].as.txn /\ wire[i].as.txn \in Nat
      BY FlowTypes DEF TxnOrder, Later, Packets
    <3> QED
      BY <3>1, <3>2
  <2>3. \A t \in Begun' : t <= host.txn
    <3> SUFFICES ASSUME NEW t \in Begun' PROVE t <= host.txn
      OBVIOUS
    <3>1. PICK r \in Begun : t <= r /\ t \in Nat /\ r \in Nat
      BY <2>1
    <3>2. r <= host.txn /\ host.txn \in Nat
      BY FlowTypes, ResponderAssumption DEF TxnOrder
    <3> QED
      BY <3>1, <3>2
  <2> QED
    BY <2>2, <2>3 DEF TxnOrder
<1> QED
  BY <1>5, <1>6, <1>7, <1>8

\* The next segment, or the end without an answer of one whose request is gone.
LEMMA SegmentFlow ==
    ASSUME TInv, FlowCore, Working, UNCHANGED <<state, req, refused, over, survived, wire, left, host, ctrl>>,
           \/ handler'.step = "more" /\ handler'.txn = handler.txn /\ handler'.sent
           \/ handler' = NoHandler /\ req = NoContainer
    PROVE  FlowCore'
<1> USE DEF FlowCore
<1>1. state # "waitData" /\ (Undelivered \/ Delivered)
  BY DEF Working, Receiving, Undelivered, Delivered
<1>2. Undelivered' \/ Delivered'
  BY <1>1, PlaceKept
<1>3. HostKeepsTo' /\ NothingRefused'
  BY DEF HostKeepsTo, NothingRefused
<1>4. RequestAndState'
  BY DEF RequestAndState, RequestIsCommand, Working, NoHandler
<1>5. TxnOrder'
  <2>1. CASE handler'.txn = handler.txn
    BY <2>1, OrderKept DEF Begun
  <2>2. CASE handler' = NoHandler /\ req = NoContainer
    <3>1. handler'.txn = req.txn
      BY <2>2 DEF NoHandler, NoContainer, Container
    <3> QED
      BY <3>1, OrderKept DEF Begun
  <2> QED
    BY <2>1, <2>2
<1> QED
  BY <1>2, <1>3, <1>4, <1>5

LEMMA HandlerFlow ==
    ASSUME Handled, TInv, FlowCore, DataSent \/ SegmentSent \/ CopyDone PROVE FlowCore'
<1>1. /\ Working /\ handler.op \in Ops \cup {"none", "junk"}
      /\ handler.step = "copy" => handler.op = "copy"
      /\ UNCHANGED <<req, refused, over, survived, wire, left, host, ctrl>>
  BY VarTypes DEF DataSent, SegmentSent, CopyDone, Returns, Working, Handlers, history, environment
<1>2. CASE \E code \in {"ok", "error"}, hasParam \in BOOLEAN : SendResponse(handler.op, code, hasParam)
  BY <1>1, <1>2, AnswerFlow
<1>3. CASE DataSent
  <2>1. handler.op # "getThumb"
    BY <1>1 DEF Handled, NoneAbandoned
  <2> QED
    BY <1>2, <1>3, <2>1 DEF DataSent
<1>4. CASE SegmentSent
  <2>1. CASE SendResponse(handler.op, "ok", handler.op = "getPartial")
    <3>1. (handler.op = "getPartial") \in BOOLEAN
      OBVIOUS
    <3> QED
      BY <1>2, <2>1, <3>1
  <2>2. CASE /\ handler' = Sending("more", handler.op, handler.txn, "ok", handler.more - 1)
             /\ UNCHANGED <<crashed, state, pending, idleTimer>>
    <3>1. handler'.step = "more" /\ handler'.txn = handler.txn /\ handler'.sent
      BY <2>2 DEF Sending
    <3> QED
      BY <1>1, <2>2, <3>1, SegmentFlow
  <2>3. CASE /\ (handler.step = "more" /\ ~handler.sent) \/ (handler.op \in StreamErrors /\ handler.more > 0)
             /\ handler' = NoHandler
             /\ UNCHANGED <<crashed, state, pending, idleTimer>>
    <3>1. handler.op \notin StreamErrors
      BY <1>4 DEF SegmentSent, Handled, NoneAbandoned
    <3>2. req = NoContainer
      BY <1>1, <2>3, <3>1 DEF FlowCore, RequestAndState
    <3> QED
      BY <1>1, <2>3, <3>2, SegmentFlow
  <2> QED
    BY <1>4, <2>1, <2>2, <2>3 DEF SegmentSent
<1>5. CASE CopyDone
  <2>1. CASE state = "cancel"
    BY <1>1, <1>5, <2>1, SegmentFlow DEF CopyDone, FlowCore, RequestAndState
  <2>2. CASE state # "cancel"
    <3>1. handler.op = "copy" /\ \E code \in {"ok", "error"} : SendResponse("copy", code, TRUE)
      BY <1>1, <1>5, <2>2 DEF CopyDone
    <3> QED
      BY <1>2, <3>1
  <2> QED
    BY <2>1, <2>2
<1> QED
  BY <1>3, <1>4, <1>5

LEMMA ResponseSentFlow ==
    ASSUME TInv, FlowCore, ResponseSent \/ IdleTimeout PROVE FlowCore'
<1> USE DEF FlowCore
<1>1. CASE ResponseSent
  <2>1. /\ handler.step = "resp" /\ handler' = NoHandler /\ req' = NoContainer
        /\ UNCHANGED <<state, refused, over, survived, wire, left, host, ctrl>>
    BY <1>1 DEF ResponseSent, Returns, DeleteRequest, history, environment
  <2>2. state # "waitData" /\ (Undelivered \/ Delivered)
    BY <2>1 DEF Receiving, Undelivered, Delivered
  <2>3. Undelivered' \/ Delivered'
    BY <2>1, <2>2, PlaceKept
  <2>4. HostKeepsTo' /\ NothingRefused'
    BY <2>1 DEF HostKeepsTo, NothingRefused
  <2>5. RequestAndState'
    BY <2>1 DEF RequestAndState, RequestIsCommand, Working, NoHandler, NoContainer, Container
  <2>6. TxnOrder'
    <3>1. /\ Begun \subseteq Nat /\ handler.txn \in Begun /\ over' = over /\ host' = host /\ wire' = wire
          /\ handler'.txn = 0 /\ req'.txn = 0 /\ req' = NoContainer
      BY <2>1, FlowTypes DEF Begun, NoHandler, NoContainer, Container
    <3>2. \A t \in Begun' : t \in Begun \/ t = 0
      BY <3>1 DEF Begun
    <3>3. ASSUME NEW i \in 1 .. Len(wire), wire[i].as.type = "cmd" PROVE 0 < wire[i].as.txn
      BY <3>3, FlowTypes DEF Packets
    <3>4. 0 <= host.txn
      BY FlowTypes
    <3> QED
      BY <3>1, <3>2, <3>3, <3>4 DEF TxnOrder, Later
  <2> QED
    BY <2>1, <2>3, <2>4, <2>5, <2>6
<1>2. CASE IdleTimeout
  <2>1. UNCHANGED <<state, handler, req, refused, over, survived, wire, left, host, ctrl>>
    BY <1>2 DEF IdleTimeout, history, environment
  <2> QED
    BY <2>1, FlowUnchanged
<1> QED
  BY <1>1, <1>2

-----------------------------------------------------------------------------
(* Cancels and stops of the bus. *)

\* What was cancelled has no packets left but its command, if that has not
\* been delivered yet.
LEMMA CancelFlow ==
    ASSUME TInv, FlowCore, CancelTransaction PROVE FlowCore'
<1> USE DEF FlowCore
<1>1. /\ ctrl # <<>> /\ ctrl' = Tail(ctrl)
      /\ \/ req = NoContainer /\ UNCHANGED <<req, state>>
         \/ req' = NoContainer /\ state' = "cancel"
      /\ over' = over \cup {req.txn}
      /\ UNCHANGED <<handler, refused, survived, wire, left, host>>
  BY DEF CancelTransaction, SetState, DeleteRequest
<1>2. host.phase = "waiting"
  BY <1>1 DEF HostKeepsTo
<1>3. state # "waitData" /\ (Undelivered \/ Delivered)
  BY <1>2 DEF Receiving, Undelivered, Delivered
<1>4. Undelivered' \/ Delivered'
  <2>1. state' # "waitData"
    BY <1>1, <1>3
  <2> QED
    BY <1>1, <1>3, <2>1, PlaceKept
<1>5. HostKeepsTo' /\ NothingRefused'
  BY <1>1, <1>2 DEF HostKeepsTo, NothingRefused
<1>6. RequestAndState'
  <2>1. req' = NoContainer /\ req'.type = "none"
    BY <1>1 DEF NoContainer, Container
  <2>2. state' = "waitResp" => FALSE
    BY <1>1 DEF RequestAndState
  <2> QED
    BY <1>1, <2>1, <2>2 DEF RequestAndState, RequestIsCommand, Working
<1>7. TxnOrder'
  <2>1. req' = NoContainer /\ req'.txn = 0
    BY <1>1 DEF NoContainer, Container
  <2>2. \A t \in Begun' : t \in Begun \/ t = 0
    BY <1>1, <2>1 DEF Begun
  <2>3. \A i \in 1 .. Len(wire) : wire[i].as.type = "cmd" => 0 < wire[i].as.txn
    BY FlowTypes DEF Packets
  <2>4. 0 <= host.txn
    BY FlowTypes
  <2> QED
    BY <1>1, <2>1, <2>2, <2>3, <2>4 DEF TxnOrder, Later
<1> QED
  BY <1>1, <1>4, <1>5, <1>6, <1>7

LEMMA StopFlow ==
    ASSUME TInv, FlowCore, BusStops PROVE survived' \/ FlowCore'
<1> SUFFICES ASSUME ~survived' PROVE FlowCore'
  OBVIOUS
<1> USE DEF FlowCore
<1>1. /\ wire' = <<>> /\ ctrl' = <<>> /\ left' = 0 /\ survived' = FALSE /\ state' = "idle" /\ req' = NoContainer
      /\ over' = over \cup {req.txn} /\ refused' = refused
      /\ host'.phase = "ready" /\ host'.txn = host.txn /\ host'.op = host.op
      /\ host'.units = host.units /\ host'.todo = host.todo
      /\ handler'.txn = handler.txn
  BY VarTypes DEF BusStops, DropSession, DiscardInput, DeleteRequest, SetState, HostType, Handlers
<1>2. req'.txn = 0 /\ req'.type = "none"
  BY <1>1 DEF NoContainer, Container
<1>3. Delivered'
  BY <1>1 DEF Delivered
<1>4. HostKeepsTo' /\ NothingRefused'
  BY <1>1 DEF HostKeepsTo, NothingRefused
<1>5. RequestAndState'
  <2>1. (state' = "waitResp") = (req' # NoContainer)
    BY <1>1
  <2> QED
    BY <1>1, <1>2, <2>1 DEF RequestAndState, RequestIsCommand
<1>6. TxnOrder'
  <2>1. \A t \in Begun' : t \in Begun \/ t = 0
    BY <1>1, <1>2 DEF Begun
  <2>2. 0 <= host.txn
    BY FlowTypes
  <2>3. Len(wire') = 0
    BY <1>1
  <2>4. \A i \in 1 .. Len(wire') : FALSE
    BY <2>3
  <2> QED
    BY <1>1, <2>1, <2>2, <2>4 DEF TxnOrder
<1> QED
  BY <1>3, <1>4, <1>5, <1>6

-----------------------------------------------------------------------------
(* The theorems. *)

LEMMA FlowParts == FlowInv <=> TInv /\ OnlyCancels /\ (survived \/ FlowCore)
BY DEF FlowInv

LEMMA SurvivedStays == ASSUME TInv, survived, [Next]_vars PROVE survived'
<1>1. CASE UNCHANGED survived
  BY <1>1
<1>2. CASE BusStops
  BY <1>2 DEF BusStops, DiscardInput
<1>3. CASE Host
  BY <1>3 DEF Host, HostCommand, HostData, HostTakes, HostSignals, HostResumes, history
<1>4. CASE Device /\ ~BusStops
  BY <1>4 DEF Device, ReceiveRequest, ReceiveData, ReceiveRefused, DataSent, SegmentSent, CopyDone,
              ResponseSent, IdleTimeout, CancelTransaction, DeviceReset, history
<1> QED
  BY <1>1, <1>2, <1>3, <1>4 DEF Next, vars, history

LEMMA NextFlow ==
    ASSUME Handled, FlowInv, [Next]_vars PROVE FlowInv'
<1>1. TInv /\ OnlyCancels /\ (survived \/ FlowCore)
  BY FlowParts
<1>2. NoReset
  BY DEF Handled, NoReset
<1>3. TInv' /\ OnlyCancels' /\ ~DeviceReset
  BY <1>1, <1>2, NextTInv, OnlyCancelsKept
<1>4. survived' \/ FlowCore'
  <2>1. CASE survived
    BY <1>1, <2>1, SurvivedStays
  <2>2. CASE FlowCore
    <3>1. CASE Host
      BY <1>1, <2>2, <3>1, HostCommandFlow, HostDataFlow, HostTakesFlow, HostSignalsFlow DEF Host
    <3>2. CASE Device
      BY <1>1, <1>3, <2>2, <3>2, NeverRefused, ReceiveRequestFlow, ReceiveDataFlow, HandlerFlow,
         ResponseSentFlow, CancelFlow, StopFlow DEF Device
    <3>3. CASE UNCHANGED vars
      <4>1. UNCHANGED <<state, handler, req, refused, over, survived, wire, left, host, ctrl>>
        BY <3>3 DEF vars, transaction, transport, history, environment
      <4> QED
        BY <1>1, <2>2, <4>1, FlowUnchanged
    <3> QED
      BY <3>1, <3>2, <3>3 DEF Next
  <2> QED
    BY <1>1, <2>1, <2>2
<1> QED
  BY <1>3, <1>4 DEF FlowInv

\* The inductive invariant holds as long as the host resets nothing and
\* cancels nothing in a data phase of its own, and every request is answered.
THEOREM Invariance ==
    ASSUME Handled PROVE Spec => []FlowInv
<1>1. FlowInv /\ [Next]_vars => FlowInv'
  BY NextFlow
<1> QED
  BY <1>1, InitFlow, PTL DEF Spec

\* No packet of such a host is refused, so the transport never throws away
\* what the reader has received, unless a piece has survived a stop of the bus.
THEOREM NoPacketRefused ==
    ASSUME Handled PROVE Spec => []NothingRefused
<1>1. FlowInv => NothingRefused
  BY DEF FlowInv, FlowCore, NothingRefused
<1> QED
  BY <1>1, Invariance, PTL

\* What the responder works on as a request is one, also after cancels that
\* overtook packets and stops that cut off a data phase of the host, unless a
\* piece that the reader had at the stop was delivered after it.
THEOREM DataIsNoCommand ==
    ASSUME Handled PROVE Spec => []RequestIsCommand
<1>1. FlowInv => RequestIsCommand
  BY DEF FlowInv, FlowCore, RequestAndState, RequestIsCommand
<1> QED
  BY <1>1, Invariance, PTL

\* No response is sent before the host is through with the data phase in which
\* it sends, unless a piece has survived a stop of the bus.
THEOREM AnswerAfterData ==
    ASSUME Handled PROVE Spec => []ResponseAfterData
<1>1. FlowInv => ResponseAfterData
  <2> SUFFICES ASSUME FlowInv, ~survived, handler.step = "resp", handler.txn = host.txn
               PROVE  host.phase # "data"
    BY DEF ResponseAfterData
  <2>1. TInv /\ FlowCore
    BY FlowParts
  <2>2. CASE Undelivered
    <3>1. First \in 1 .. Len(wire)
      BY <2>1, <2>2, FlowTypes DEF Undelivered, FlowCore
    <3>2. wire[First].as.type = "cmd" /\ wire[First].as.txn = host.txn
      BY <2>2 DEF Undelivered, ItsCommand, Container
    <3>3. handler.txn < host.txn /\ host.txn \in Nat
      BY <2>1, <3>1, <3>2, FlowTypes, ResponderAssumption DEF FlowCore, TxnOrder, Later, Begun
    <3> QED
      BY <3>3
  <2>3. CASE Receiving
    BY <2>3 DEF Receiving
  <2>4. CASE Delivered
    BY <2>4 DEF Delivered
  <2> QED
    BY <2>1, <2>2, <2>3, <2>4 DEF FlowCore
<1> QED
  BY <1>1, Invariance, PTL

-----------------------------------------------------------------------------
(* A host that cancels nothing finds the responder ready. *)

NeverCancelled == \A op \in Ops : Ends[op] \subseteq {"stop"}

\* Between two transactions nothing is in the pipe and the state is idle, also
\* while the handler of the last one has not come to its end.
Ready ==
    /\ ctrl = <<>> /\ host.phase # "waiting" /\ state # "cancel"
    /\ host.phase = "ready" => wire = <<>> /\ state = "idle"

ReadyInv == FlowInv /\ (survived \/ Ready)

\* A handler leaves the state as it is or makes it idle.
LEMMA HandlerState ==
    ASSUME state \in {"idle", "waitResp", "waitData"}, DataSent \/ SegmentSent \/ CopyDone \/ ResponseSent
    PROVE  state' \in {state, "idle"} /\ UNCHANGED <<host, wire, ctrl>>
<1>1. ASSUME NEW op, NEW code, NEW hasParam, SendResponse(op, code, hasParam)
      PROVE  state' \in {state, "idle"}
  BY <1>1 DEF SendResponse, SetState
<1>2. CASE DataSent
  BY <1>1, <1>2 DEF DataSent, environment
<1>3. CASE SegmentSent
  BY <1>1, <1>3 DEF SegmentSent, environment
<1>4. CASE CopyDone
  BY <1>1, <1>4 DEF CopyDone, environment
<1>5. CASE ResponseSent
  BY <1>5 DEF ResponseSent, environment
<1> QED
  BY <1>2, <1>3, <1>4, <1>5

LEMMA ReadyStep ==
    ASSUME NeverCancelled, TInv, FlowCore, Ready, Next, ~DeviceReset, ~ReceiveRefused, ~survived'
    PROVE  Ready'
<1> USE DEF Ready
<1>1. /\ TInv /\ FlowCore /\ ctrl = <<>> /\ host.phase # "waiting" /\ state # "cancel"
      /\ host.phase = "ready" => wire = <<>> /\ state = "idle"
      /\ state \in {"idle", "waitResp", "waitData"}
  BY VarTypes
<1>2. CASE \E op \in Ops : HostCommand(op)
  BY <1>1, <1>2 DEF HostCommand, transaction
<1>3. CASE HostData
  BY <1>1, <1>3, VarTypes DEF HostData, HostType, transaction
<1>4. CASE HostTakes
  <2>1. UNCHANGED <<state, wire, ctrl>>
    BY <1>4 DEF HostTakes, transaction
  <2>2. CASE host' = host
    BY <1>1, <2>1, <2>2
  <2>3. CASE handler.step = "resp" /\ handler.txn = host.txn /\ host'.phase = "ready"
    <3>1. ~Undelivered
      <4> SUFFICES ASSUME Undelivered PROVE FALSE
        OBVIOUS
      <4>1. First \in 1 .. Len(wire)
        BY <1>1, FlowTypes DEF Undelivered, FlowCore
      <4>2. wire[First].as.type = "cmd" /\ wire[First].as.txn = host.txn
        BY DEF Undelivered, ItsCommand, Container
      <4>3. handler.txn < host.txn /\ host.txn \in Nat
        BY <1>1, <4>1, <4>2, FlowTypes, ResponderAssumption DEF FlowCore, TxnOrder, Later, Begun
      <4> QED
        BY <2>3, <4>3
    <3>2. Delivered /\ state # "waitResp"
      BY <1>1, <2>3, <3>1 DEF FlowCore, Receiving, RequestAndState, Working
    <3> QED
      BY <1>1, <2>1, <2>3, <3>2 DEF Delivered
  <2> QED
    BY <1>4, <2>2, <2>3, VarTypes, <1>1 DEF HostTakes, HostType
<1>5. ~HostResumes
  BY <1>1 DEF HostResumes
<1>6. ASSUME NEW kind \in {"cancel", "reset"} PROVE ~HostSignals(kind)
  <2>1. host.phase \in {"data", "await"} => host.op \in Ops
    BY <1>1, VarTypes DEF HostType
  <2> QED
    BY <2>1 DEF HostSignals, NeverCancelled
<1>7. CASE ReceiveRequest \/ ReceiveData
  <2>1. wire # <<>> /\ UNCHANGED <<host, ctrl>> /\ host.phase # "ready"
    BY <1>1, <1>7 DEF ReceiveRequest, ReceiveData, Delivering
  <2>2. CASE ReceiveRequest
    <3>1. \E ok \in BOOLEAN : Command(HeadContainer, ok)
      BY <2>2 DEF ReceiveRequest
    <3>2. CommandOutcome(HeadContainer)
      BY <1>1, <2>1, <3>1, CommandResult, HeadType
    <3> QED
      BY <1>1, <2>1, <3>2 DEF CommandOutcome
  <2>3. CASE ReceiveData
    <3>1. CASE UNCHANGED state
      BY <1>1, <2>1, <3>1
    <3>2. CASE \E code \in {"ok", "error"} : SendResponse(req.op, code, FALSE)
      BY <1>1, <2>1, <3>2 DEF SendResponse, SetState
    <3> QED
      BY <2>3, <3>1, <3>2 DEF ReceiveData
  <2> QED
    BY <1>7, <2>2, <2>3
<1>8. CASE DataSent \/ SegmentSent \/ CopyDone \/ ResponseSent
  BY <1>1, <1>8, HandlerState
<1>9. CASE IdleTimeout
  BY <1>1, <1>9 DEF IdleTimeout, environment
<1>10. ~CancelTransaction
  BY <1>1 DEF CancelTransaction
<1>11. CASE BusStops
  BY <1>1, <1>11, VarTypes DEF BusStops, DropSession, DiscardInput, SetState, HostType
<1> QED
  BY <1>2, <1>3, <1>4, <1>5, <1>6, <1>7, <1>8, <1>9, <1>10, <1>11 DEF Next, Host, Device

\* The host may send its next request at once when it has its response.
THEOREM ReadyAtOnce ==
    ASSUME NoneAbandoned, NeverCancelled PROVE Spec => []ReadyForNext
<1>1. Handled
  BY DEF Handled, NeverCancelled
<1>2. Init => ReadyInv
  BY InitFlow DEF Init, ReadyInv, Ready
<1>3. ReadyInv /\ [Next]_vars => ReadyInv'
  <2> SUFFICES ASSUME ReadyInv, [Next]_vars PROVE ReadyInv'
    OBVIOUS
  <2>1. TInv /\ OnlyCancels /\ (survived \/ FlowCore) /\ (survived \/ Ready) /\ NoReset
    BY <1>1, FlowParts DEF ReadyInv, Handled, NoReset
  <2>2. FlowInv' /\ ~DeviceReset
    BY <1>1, <2>1, NextFlow, OnlyCancelsKept DEF ReadyInv
  <2>3. CASE survived
    BY <2>1, <2>2, <2>3, SurvivedStays DEF ReadyInv
  <2>4. CASE survived'
    BY <2>2, <2>4 DEF ReadyInv
  <2>5. CASE FlowCore /\ Ready /\ ~survived'
    <3>1. Ready'
      <4>1. CASE Next
        BY <2>1, <2>2, <2>5, <4>1, ReadyStep, NeverRefused
      <4>2. CASE UNCHANGED vars
        BY <2>5, <4>2 DEF Ready, vars, transaction, environment
      <4> QED
        BY <4>1, <4>2
    <3> QED
      BY <2>2, <3>1 DEF ReadyInv
  <2> QED
    BY <2>1, <2>3, <2>4, <2>5
<1>4. ReadyInv => ReadyForNext
  BY DEF ReadyInv, Ready, ReadyForNext
<1> QED
  BY <1>2, <1>3, <1>4, PTL DEF Spec

-----------------------------------------------------------------------------
(* What has ended stays unanswered. *)

LEMMA AnswerNotOver ==
    ASSUME TxnBound < IdWrap, TInv, FlowCore, NEW op \in Ops \cup {"none", "junk"},
           NEW code \in {"ok", "error"}, NEW hasParam, SendResponse(op, code, hasParam),
           handler'.step = "resp"
    PROVE  handler'.txn \notin over
<1>1. req # NoContainer /\ handler' = Answer(op, req.txn, code)
  BY DEF SendResponse, NoHandler
<1>2. req.txn \in 0 .. TxnBound /\ req.txn < IdWrap
  BY VarTypes, ResponderAssumption DEF Containers
<1>3. handler'.txn = req.txn
  BY <1>1, <1>2, AnswerType
<1>4. \A o \in over : o < req.txn
  BY <1>1 DEF FlowCore, TxnOrder
<1> QED
  BY <1>2, <1>3, <1>4

LEMMA EndedStep ==
    ASSUME Handled, TxnBound < IdWrap, FlowInv, [Next]_vars, ~survived,
           handler'.step = "resp", handler.step # "resp"
    PROVE  handler'.txn \notin over
<1>1. TInv /\ FlowCore
  BY FlowParts
<1>2. CASE ReceiveRequest
  <2> DEFINE c == wire[1].as
  <2>1. wire # <<>> /\ state # "waitData"
    BY <1>2 DEF ReceiveRequest, Delivering
  <2>2. HeadContainer = c /\ c.type = "cmd" /\ c.txn \in 1 .. TxnBound /\ c \in Containers
    BY <1>1, <2>1, HeadIsCommand, HeadType DEF Packets
  <2>3. PICK ok \in BOOLEAN : Command(c, ok)
    BY <1>2, <2>2 DEF ReceiveRequest
  <2>4. \E code \in {"ok", "error"} : handler' = Answer(c.op, c.txn, code)
    <3>1. CommandOutcome(c)
      BY <1>1, <2>2, <2>3, CommandResult
    <3> QED
      BY <3>1 DEF CommandOutcome, NoHandler, Sending
  <2>5. handler'.txn = c.txn
    <3>1. c.op \in Ops \cup {"none", "junk"} /\ c.txn < IdWrap /\ c.txn \in 0 .. TxnBound
      BY <2>2, ResponderAssumption DEF Containers
    <3> QED
      BY <2>4, <3>1, AnswerType
  <2>6. 1 \in 1 .. Len(wire)
    BY <1>1, <2>1, VarTypes, EmptySeq
  <2>7. \A t \in Begun : t < c.txn
    BY <1>1, <2>2, <2>6 DEF FlowCore, TxnOrder, Later
  <2> QED
    BY <2>2, <2>5, <2>7 DEF Begun
<1>3. CASE \E hasParam : \E op \in Ops \cup {"none", "junk"}, code \in {"ok", "error"} :
              SendResponse(op, code, hasParam)
  BY <1>1, <1>3, AnswerNotOver
<1>4. /\ req.op \in Ops \cup {"none", "junk"} /\ handler.op \in Ops \cup {"none", "junk"}
      /\ handler.step = "copy" => handler.op = "copy"
  BY <1>1, VarTypes DEF Containers, Handlers
<1>5. CASE ReceiveData
  <2>1. handler' # handler
    OBVIOUS
  <2> QED
    BY <1>3, <1>4, <1>5, <2>1 DEF ReceiveData
<1>6. CASE DataSent
  <2>1. CASE SendResponse(handler.op, "ok", FALSE)
    BY <1>3, <1>4, <2>1
  <2>2. CASE handler' = NoHandler
    BY <2>2 DEF NoHandler
  <2> QED
    BY <1>6, <2>1, <2>2 DEF DataSent
<1>7. CASE SegmentSent
  <2>1. CASE SendResponse(handler.op, "ok", handler.op = "getPartial")
    BY <1>3, <1>4, <2>1
  <2>2. CASE \/ handler' = Sending("more", handler.op, handler.txn, "ok", handler.more - 1)
             \/ handler' = NoHandler
    BY <2>2 DEF Sending, NoHandler
  <2> QED
    BY <1>7, <2>1, <2>2 DEF SegmentSent
<1>8. CASE CopyDone
  <2>1. handler.op = "copy"
    BY <1>4, <1>8 DEF CopyDone
  <2>2. CASE handler' = NoHandler
    BY <2>2 DEF NoHandler
  <2>3. CASE \E code \in {"ok", "error"} : SendResponse("copy", code, TRUE)
    BY <1>3, <1>4, <2>1, <2>3
  <2> QED
    BY <1>8, <2>2, <2>3 DEF CopyDone
<1>9. CASE handler'.step = handler.step \/ handler' = NoHandler
  BY <1>9 DEF NoHandler
<1>10. CASE Host \/ ReceiveRefused \/ ResponseSent \/ IdleTimeout \/ CancelTransaction
            \/ DeviceReset \/ BusStops \/ UNCHANGED vars
  <2>1. handler'.step = handler.step \/ handler' = NoHandler
    <3>1. CASE Host
      BY <1>1, <3>1, VarTypes
         DEF Host, HostCommand, HostData, HostTakes, HostResumes, HostSignals, Handlers
    <3>2. CASE \/ ReceiveRefused \/ ResponseSent \/ IdleTimeout \/ CancelTransaction
               \/ DeviceReset \/ UNCHANGED vars
      BY <3>2 DEF ReceiveRefused, ResponseSent, IdleTimeout, CancelTransaction, DeviceReset, vars
    <3>3. CASE BusStops
      BY <1>1, <3>3, VarTypes DEF BusStops, Handlers
    <3> QED
      BY <1>10, <3>1, <3>2, <3>3
  <2> QED
    BY <1>9, <2>1
<1> QED
  BY <1>2, <1>5, <1>6, <1>7, <1>8, <1>10 DEF Next, Device

\* A transaction that was cancelled or cut off gets no response any more, if no
\* piece of it has survived a stop of the bus and as long as transaction ids are not
\* wrapped around by the 16 bits of a response: then it is the id of another
\* transaction that is answered.
THEOREM NoLateAnswer ==
    ASSUME Handled, TxnBound < IdWrap PROVE Spec => EndedUnanswered
<1>1. FlowInv /\ [Next]_vars
        => [~survived /\ handler'.step = "resp" /\ handler.step # "resp"
              => handler'.txn \notin over]_vars
  BY EndedStep
<1>2. Spec => []FlowInv
  BY Invariance
<1>3. Spec => [][Next]_vars
  BY PTL DEF Spec
<1> QED
  BY <1>1, <1>2, <1>3, PTL DEF EndedUnanswered

=============================================================================
