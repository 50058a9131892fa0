----------------------------- MODULE UsbReceiver ------------------------------
(***************************************************************************)
(* The receive path of MTPTransporterUSB (transport/usb/                   *)
(* mtptransporterusb.cpp) on top of the reader thread of BulkReader:       *)
(* handleDataReady and processReceivedData cut the byte stream into MTP    *)
(* containers and hand them to the responder, USB events start and stop    *)
(* the reader, the responder resets the transport or disables it for the   *)
(* duration of a nested event loop.                                        *)
(*                                                                         *)
(* The responder handles a packet inside emit dataReceived().  It may run  *)
(* an event loop there (sendData, processTransportEvents), so every queued *)
(* signal may be handled while a packet is being delivered.                *)
(***************************************************************************)
EXTENDS BulkReader

CONSTANTS
    ContainerLens,  \* lengths of the containers the host sends
    MaxHeader,      \* 0xFFFFFFFF, the length in the header of longer ones
    ResetBound      \* bound: calls that discard data in one behaviour

ASSUME UsbAssumption ==
    /\ ContainerLens \subseteq Nat \ {0}
    /\ MaxHeader \in Nat \ {0}
    /\ ResetBound \in Nat

VARIABLES
    endpointsOpen,     \* m_outFd and the others are open
    readerEnabled,     \* m_readerEnabled
    storageReady,      \* m_storageReady
    readerBusy,        \* m_reader_busy
    containerReadLen,  \* m_containerReadLen
    frame,             \* processReceivedData(): "none", "next" at the loop head,
                       \* "deliver" inside dataReceived, "disabled" when the
                       \* responder has called disableRW there
    stale,             \* processReceivedData(): resetCount # m_resetCount
    packet,            \* the arguments of the dataReceived in progress
    resets,            \* how often data was discarded, for ResetBound
    hostLeft,          \* bytes the host has still to send of its container
    starts,            \* history: length of the container the host began at a
                       \* place of the stream, 0 where it began none
    intact             \* history: the device has dropped nothing of a container
                       \* that the host goes on sending

usbVars == <<endpointsOpen, readerEnabled, storageReady, readerBusy, containerReadLen,
             frame, stale, packet, resets>>
hostVars == <<hostLeft, starts, intact>>
allVars == <<vars, usbVars, hostVars>>

NoPacket == [ptr |-> 0, len |-> 0, first |-> FALSE, last |-> FALSE]
Least(a, b) == IF a < b THEN a ELSE b

UsbInit ==
    /\ Init
    /\ endpointsOpen = FALSE
    /\ readerEnabled = FALSE
    /\ storageReady = FALSE
    /\ readerBusy = "free"
    /\ containerReadLen = 0
    /\ frame = "none"
    /\ stale = FALSE
    /\ packet = NoPacket
    /\ resets = 0
    /\ hostLeft = 0
    /\ starts = [place \in 0 .. StreamBound |-> 0]
    /\ intact = TRUE

-----------------------------------------------------------------------------
(* The reader thread and the host.  A read() ends with a short packet, so   *)
(* it never returns bytes of two containers.                                *)

ToSend == IF hostLeft = 0 THEN ContainerLens ELSE {hostLeft}
ReadOf(left) == Least(MaxDataIn, left)

HostSends(left) ==
    /\ endpointsOpen
    /\ ReadDone(ReadOf(left))
    /\ hostLeft' = left - ReadOf(left)
    /\ starts' = [starts EXCEPT ![Accepted] = IF hostLeft = 0 THEN left ELSE 0]
    /\ UNCHANGED <<usbVars, intact>>

\* What comes with a bad offset is lost, and the thread with it.
ReadMarked ==
    /\ MarkNewData
    /\ intact' = (intact /\ OffsetAtPieceEnd)
    /\ UNCHANGED <<usbVars, hostLeft, starts>>

ReaderThread ==
    \/ \E left \in ToSend : HostSends(left)
    \/ ReadMarked
    \/ /\ \/ Acquire
          \/ endpointsOpen /\ ReadFails(TRUE)
          \/ ~endpointsOpen /\ ReadFails(FALSE)
          \/ EmitDataReady
       /\ UNCHANGED <<usbVars, hostVars>>

-----------------------------------------------------------------------------
(* Parts of the main thread's handlers. *)

\* A reader that is past its check of m_shouldExit still emits dataReady().
SignalOnExit ==
    dataReady' = IF readerPc = "emit" \/ (readerPc = "mark" /\ OffsetAtPieceEnd)
                 THEN dataReady + 1 ELSE dataReady

\* m_bulkRead.exitThread() while the main thread waits for it: a reader that
\* is past its check of m_shouldExit still adds its data, and read() may have
\* returned bytes that are then dropped.
ExitReader ==
    /\ readerPc' = "off"
    /\ SignalOnExit
    /\ IF readerPc = "mark"
       THEN /\ dataSize1' = IF offset = dataStart + dataSize1
                            THEN dataSize1 + readSize ELSE dataSize1
            /\ dataSize2' = IF offset # dataStart + dataSize1 /\ offset = dataSize2
                            THEN dataSize2 + readSize ELSE dataSize2
            /\ intact' = (intact /\ OffsetAtPieceEnd)
            /\ UNCHANGED hostLeft
       ELSE /\ UNCHANGED <<dataSize1, dataSize2>>
            /\ \/ UNCHANGED <<hostLeft, intact>>
               \/ /\ readerPc = "read" /\ endpointsOpen
                  /\ \E left \in ToSend : hostLeft' = left - ReadOf(left)
                  /\ intact' = FALSE
    /\ UNCHANGED <<dataStart, starts>>

\* rethinkRead(), from the state of the thread when it is called
Rethink(pc, enabled, ready) ==
    readerPc' = IF enabled /\ ready /\ pc = "off" THEN "acquire" ELSE pc

\* Mutant: m_containerReadLen survives.
DropContainerKeepsLength ==
    /\ containerReadLen' = containerReadLen
    /\ stale' = (frame # "none")
    /\ resets < ResetBound
    /\ resets' = resets + 1

\* m_containerReadLen = 0; m_resetCount++
DropContainer ==
    /\ containerReadLen' = 0
    /\ stale' = (frame # "none")
    /\ resets < ResetBound
    /\ resets' = resets + 1

\* The handlers run from the event loop, or nested in a delivery.
InEventLoop == frame \in {"none", "deliver", "disabled"}

-----------------------------------------------------------------------------
(* handleDataReady and processReceivedData. *)

HandleReady ==
    /\ InEventLoop
    /\ dataReady > 0
    /\ dataReady' = dataReady - 1
    /\ IF readerBusy # "free"
       THEN /\ readerBusy' = "postponed"
            /\ UNCHANGED <<indices, view, frame, stale>>
       ELSE /\ readerBusy' = "busy"
            /\ GetData
            /\ frame' = "next"
            /\ stale' = FALSE
    /\ UNCHANGED <<readerVars, mainPc, shouldExit, history, endpointsOpen, readerEnabled,
                   storageReady, containerReadLen, packet, resets, hostVars>>

\* The length field of the header at a place, and the length that the size of
\* the object makes (fetchObjectSize).  A container too long for the field is the
\* data of a SendObject whose SendObjectPropList gave the size.  A header that is
\* none, because the stream is out of step, holds anything.
Headers(place) == IF starts[place] > 0 THEN {Least(starts[place], MaxHeader)} ELSE 0 .. MaxHeader
Fetched(place) == IF starts[place] > 0 THEN {starts[place]} ELSE {0} \cup ContainerLens

LengthFrom(header, fetched) ==
    IF header = MaxHeader /\ fetched > MaxHeader THEN fetched ELSE header

\* m_containerReadLen before the chunk is taken off
NextLengths ==
    IF containerReadLen > 0 THEN {containerReadLen}
    ELSE {LengthFrom(header, fetched) : header \in Headers(buffer[view.ptr]),
                                        fetched \in Fetched(buffer[view.ptr])}

\* Mutant: the packet is released before the responder has worked on it.
DeliverReleased ==
    /\ frame = "next" /\ view.len > 0 /\ ~stale
    /\ \E len \in NextLengths :
         LET chunk == Least(view.len, len) IN
         /\ containerReadLen' = len - chunk
         /\ packet' = [ptr |-> view.ptr, len |-> chunk, first |-> FALSE, last |-> FALSE]
         /\ ReleaseData(chunk)
         /\ view' = [ptr |-> view.ptr + chunk, len |-> view.len - chunk]
    /\ frame' = "deliver"
    /\ UNCHANGED <<offset, readSize, buffer, dataReady, mainPc, shouldExit, undercut, endpointsOpen,
                   readerEnabled, storageReady, readerBusy, stale, resets, hostVars>>

\* One turn of the while loop up to emit dataReceived().  A length of 0 makes a
\* packet of no bytes, and the next turn reads the same header again.
Deliver ==
    /\ frame = "next"
    /\ view.len > 0
    /\ ~stale
    /\ \E len \in NextLengths :
         LET chunk == Least(view.len, len) IN
         /\ containerReadLen' = len - chunk
         /\ packet' = [ptr |-> view.ptr, len |-> chunk,
                       first |-> containerReadLen = 0, last |-> len = chunk]
    /\ frame' = "deliver"
    /\ UNCHANGED <<vars, endpointsOpen, readerEnabled, storageReady, readerBusy, stale,
                   resets, hostVars>>

\* dataReceived() returns: release the chunk unless the buffer was reset.
Delivered ==
    /\ frame = "deliver"
    /\ frame' = "next"
    /\ packet' = NoPacket
    /\ IF stale
       THEN UNCHANGED <<view, indices, readerPc, released>>
       ELSE /\ ReleaseData(packet.len)
            /\ view' = [ptr |-> view.ptr + packet.len, len |-> view.len - packet.len]
    /\ UNCHANGED <<offset, readSize, buffer, dataReady, mainPc, shouldExit, undercut, endpointsOpen,
                   readerEnabled, storageReady, readerBusy, containerReadLen, stale, resets,
                   hostVars>>

\* processReceivedData() is done, or has given up its stale view; one more
\* round if handleDataReady was called meanwhile.
EndOfData ==
    /\ frame = "next"
    /\ view.len = 0 \/ stale
    /\ IF readerBusy = "postponed"
       THEN /\ readerBusy' = "busy"
            /\ GetData
            /\ UNCHANGED frame
       ELSE /\ readerBusy' = "free"
            /\ view' = NoView
            /\ frame' = "none"
            /\ UNCHANGED indices
    /\ stale' = FALSE
    /\ UNCHANGED <<readerVars, dataReady, mainPc, shouldExit, history, endpointsOpen,
                   readerEnabled, storageReady, containerReadLen, packet, resets, hostVars>>

-----------------------------------------------------------------------------
(* USB and storage events. *)

\* ENABLE, RESUME: startRead()
StartRead ==
    /\ InEventLoop
    /\ readerEnabled' = TRUE
    /\ Rethink(readerPc, TRUE, storageReady)
    /\ UNCHANGED <<offset, readSize, buffer, indices, dataReady, mainVars, history, endpointsOpen,
                   storageReady, readerBusy, containerReadLen, frame, stale, packet, resets,
                   hostVars>>

\* DISABLE, SUSPEND: stopRead(); the reader thread goes on running, or waiting.
\* The host gives its container up, or goes on with it afterwards.  A read that is
\* already done is still to be marked, if its offset is good.
StopRead ==
    /\ InEventLoop
    /\ readerEnabled' = FALSE
    /\ ResetData
    /\ DropContainer
    /\ hostLeft' \in {0, hostLeft}
    /\ intact' = (hostLeft' = 0 /\ readerPc # "mark")
    /\ UNCHANGED <<readerVars, dataReady, mainVars, endpointsOpen, storageReady,
                   readerBusy, frame, packet, starts>>

\* BIND: openDevices()
OpenDevices ==
    /\ InEventLoop
    /\ ~endpointsOpen
    /\ endpointsOpen' = TRUE
    /\ readerEnabled' = TRUE
    /\ Rethink(readerPc, TRUE, storageReady)
    /\ UNCHANGED <<offset, readSize, buffer, indices, dataReady, mainVars, history,
                   storageReady, readerBusy, containerReadLen, frame, stale, packet, resets,
                   hostVars>>

\* UNBIND, deactivate(): closeDevices() ends the thread before stopRead().
CloseDevices ==
    /\ InEventLoop
    /\ endpointsOpen
    /\ endpointsOpen' = FALSE
    /\ readerPc' = "off"
    /\ readerEnabled' = FALSE
    /\ ResetData
    /\ DropContainer
    /\ SignalOnExit
    /\ hostLeft' = 0
    /\ intact' = TRUE
    /\ UNCHANGED <<offset, readSize, buffer, mainVars, storageReady, readerBusy, frame, packet,
                   starts>>

OnStorageReady ==
    /\ InEventLoop
    /\ storageReady' = TRUE
    /\ Rethink(readerPc, readerEnabled, TRUE)
    /\ UNCHANGED <<offset, readSize, buffer, indices, dataReady, mainVars, history, endpointsOpen,
                   readerEnabled, readerBusy, containerReadLen, frame, stale, packet, resets,
                   hostVars>>

\* reset(), which the responder calls when it refuses a packet.  The host may
\* be in the middle of a container and go on with it.
ResetTransport ==
    /\ frame = "deliver"
    /\ SignalOnExit
    /\ ResetData
    /\ DropContainer
    /\ readerEnabled' = TRUE
    /\ Rethink("off", TRUE, storageReady)
    /\ intact' = (intact /\ hostLeft = 0)
    /\ UNCHANGED <<offset, readSize, buffer, mainVars, endpointsOpen, storageReady, readerBusy,
                   frame, packet, hostLeft, starts>>

\* processTransportEvents(): disableRW(), an event loop, enableRW()
DisableRW ==
    /\ frame = "deliver"
    /\ frame' = "disabled"
    /\ ExitReader
    /\ UNCHANGED <<offset, readSize, buffer, mainVars, history, endpointsOpen, readerEnabled,
                   storageReady, readerBusy, containerReadLen, stale, packet, resets>>

EnableRW ==
    /\ frame = "disabled"
    /\ frame' = "deliver"
    /\ readerEnabled' = TRUE
    /\ Rethink(readerPc, TRUE, storageReady)
    /\ UNCHANGED <<offset, readSize, buffer, indices, dataReady, mainVars, history, endpointsOpen,
                   storageReady, readerBusy, containerReadLen, stale, packet, resets, hostVars>>

MainThread ==
    \/ HandleReady \/ Deliver \/ Delivered \/ EndOfData
    \/ StartRead \/ StopRead \/ OpenDevices \/ CloseDevices \/ OnStorageReady
    \/ ResetTransport \/ DisableRW \/ EnableRW

UsbNext == ReaderThread \/ MainThread

UsbSpec == UsbInit /\ [][UsbNext]_allVars

-----------------------------------------------------------------------------
(* Properties. *)

UsbTypeOK ==
    /\ TypeOK
    /\ endpointsOpen \in BOOLEAN /\ readerEnabled \in BOOLEAN /\ storageReady \in BOOLEAN
    /\ readerBusy \in {"free", "busy", "postponed"}
    /\ containerReadLen \in Nat
    /\ frame \in {"none", "next", "deliver", "disabled"}
    /\ stale \in BOOLEAN
    /\ packet \in [ptr : 0 .. BufferSize, len : 0 .. BufferSize, first : BOOLEAN, last : BOOLEAN]
    /\ hostLeft \in Nat
    /\ starts \in [0 .. StreamBound -> Nat]
    /\ intact \in BOOLEAN

Delivering == frame \in {"deliver", "disabled"} /\ ~stale

\* While the responder works on a packet that no reset has invalidated, the
\* packet is the oldest data that was not released: nothing the reader thread,
\* a nested handler or an earlier reset does moves or overwrites it.  That holds
\* also when the stream is out of step and whatever was in the header.
PacketIsOldestData ==
    Delivering =>
        /\ packet.ptr = dataStart
        /\ packet.len <= dataSize1
        /\ \A k \in 0 .. packet.len - 1 : buffer[packet.ptr + k] = released + k

\* The container that the byte at place belongs to began at s; one that was
\* given up may have begun before.
Starts == {s \in 0 .. StreamBound : starts[s] > 0}
BeganAt(place, s) == s \in Starts /\ s <= place /\ \A t \in Starts : t <= s \/ place < t

\* As long as the device dropped nothing of a container the host goes on
\* sending, no packet is empty and packets are marked first exactly at the
\* beginning of a container and last exactly at its end, however the reads were
\* cut, whatever was postponed or discarded in between and however long the
\* container is.
Framing ==
    (Delivering /\ intact) =>
        LET place == buffer[packet.ptr] IN
        /\ packet.len > 0
        /\ packet.first <=> place \in Starts
        /\ packet.last <=> \E s \in Starts : /\ BeganAt(place, s)
                                             /\ place + packet.len = s + starts[s]
=============================================================================
