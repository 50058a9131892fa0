------------------------------ MODULE BulkReader ------------------------------
(***************************************************************************)
(* The bulk OUT reader of the USB transport (transport/usb/threadio.cpp):  *)
(* BulkReaderThread reads what the host sends into m_buffer, the main      *)
(* thread takes it from there.  The two share the buffer indices under     *)
(* m_bufferLock and work in m_buffer itself without the lock.              *)
(*                                                                         *)
(* Valid data is dataSize1 bytes at dataStart followed, when the reader    *)
(* has wrapped around, by dataSize2 bytes at 0.  A byte is represented by  *)
(* its place in the stream the reader has accepted, so that order, loss    *)
(* and duplication are visible.  The main thread of this module keeps to   *)
(* one getData at a time, as the comments of the class ask, but it calls   *)
(* resetData whenever it likes: the comment "while the reader is not       *)
(* running" is not kept by stopRead().  UsbReceiver replaces it by what    *)
(* MTPTransporterUSB really does.                                          *)
(*                                                                         *)
(* A step is what a thread does under m_bufferLock, or one call of         *)
(* resetData, which does not take the lock.  Its three stores falling into *)
(* the few instructions of the reader under the lock are not modelled.     *)
(***************************************************************************)
EXTENDS Integers

CONSTANTS
    MaxDataIn,    \* MAX_DATA_IN_SIZE, the size of one read()
    BufferSize,   \* READER_BUFFER_SIZE
    StreamBound,  \* bound: bytes the host sends in one behaviour
    SignalBound   \* bound: dataReady signals posted and not yet handled

\* The code has BufferSize = 16 * MaxDataIn.  With less than 2 * MaxDataIn - 1
\* the reader could be left without room by an empty buffer.
ASSUME SizesAssumption ==
    /\ MaxDataIn \in Nat \ {0}
    /\ BufferSize \in Nat
    /\ BufferSize >= 2 * MaxDataIn - 1
    /\ StreamBound \in Nat
    /\ SignalBound \in Nat

VARIABLES
    readerPc,    \* where the reader thread is in execute(); "off": no thread
    shouldExit,  \* m_shouldExit
    offset,      \* execute(): offset
    readSize,    \* execute(): readSize
    buffer,      \* m_buffer
    dataStart, dataSize1, dataSize2,
    dataReady,   \* posted dataReady signals the main thread has not handled
    view,        \* processReceivedData(): data and dataLen, not yet released
    mainPc,      \* main thread: "run", or "exiting" inside exitThread()
    released,    \* history: bytes accepted and since released or discarded
    undercut     \* history: resetData was called since the reader last looked

indices    == <<dataStart, dataSize1, dataSize2>>
readerVars == <<readerPc, offset, readSize, buffer>>
mainVars   == <<view, mainPc, shouldExit>>
history    == <<released, undercut>>
vars       == <<readerVars, indices, dataReady, mainVars, history>>

NoView == [ptr |-> 0, len |-> 0]

Accepted == released + dataSize1 + dataSize2

Init ==
    /\ readerPc = "off"
    /\ shouldExit = FALSE
    /\ offset = 0
    /\ readSize = 0
    /\ buffer = [p \in 0 .. BufferSize - 1 |-> 0]
    /\ dataStart = 0 /\ dataSize1 = 0 /\ dataSize2 = 0
    /\ dataReady = 0
    /\ view = NoView
    /\ mainPc = "run"
    /\ released = 0
    /\ undercut = FALSE

-----------------------------------------------------------------------------
(* The reader thread. *)

\* Mutants of this module are plausible slips in the code; the checks show that
\* the properties notice them.  Room for one byte less than read() may return:
TailRoomOffByOne == BufferSize - (dataStart + dataSize1) >= MaxDataIn - 1
HeadRoomOffByOne == dataStart - dataSize2 >= MaxDataIn - 1

TailRoom == BufferSize - (dataStart + dataSize1) >= MaxDataIn
HeadRoom == dataStart - dataSize2 >= MaxDataIn

\* _getOffset_locked()
GetOffset ==
    IF TailRoom THEN dataStart + dataSize1
    ELSE IF HeadRoom THEN dataSize2
    ELSE -1

\* Top of the loop and the wait under m_bufferLock, up to the read() call.
Acquire ==
    /\ readerPc = "acquire"
    /\ offset' = IF shouldExit THEN offset ELSE GetOffset
    /\ readerPc' = IF shouldExit THEN "off" ELSE IF GetOffset < 0 THEN "wait" ELSE "read"
    /\ undercut' = FALSE
    /\ UNCHANGED <<readSize, buffer, indices, dataReady, mainVars, released>>

\* Mutant: the woken reader does not look at m_shouldExit.
WakeToExitMissed == readerPc = "wait" /\ shouldExit /\ UNCHANGED vars

\* interrupt() wakes a waiting reader that is told to exit; exitThread()
\* repeats it every millisecond until the thread is gone.
WakeToExit ==
    /\ readerPc = "wait"
    /\ shouldExit
    /\ readerPc' = "off"
    /\ UNCHANGED <<offset, readSize, buffer, indices, dataReady, mainVars, history>>

\* read() returns n bytes (0: a zero-length packet), or the thread finds
\* after it that it has to exit and the bytes are dropped.
ReadDone(n) ==
    /\ readerPc = "read"
    /\ ~shouldExit
    /\ Accepted + n <= StreamBound
    /\ dataReady < SignalBound
    /\ readSize' = n
    /\ buffer' = [p \in 0 .. BufferSize - 1 |->
                    IF p \in offset .. offset + n - 1
                    THEN Accepted + (p - offset) ELSE buffer[p]]
    /\ readerPc' = "mark"
    /\ UNCHANGED <<offset, indices, dataReady, mainVars, history>>

ReadToExit ==
    /\ readerPc = "read"
    /\ shouldExit
    /\ readerPc' = "off"
    /\ UNCHANGED <<offset, readSize, buffer, indices, dataReady, mainVars, history>>

\* EINTR, EAGAIN and ESHUTDOWN start over; any other errno ends the thread.
ReadFails(retry) ==
    /\ readerPc = "read"
    /\ ~shouldExit
    /\ readerPc' = IF retry THEN "acquire" ELSE "off"
    /\ UNCHANGED <<offset, readSize, buffer, indices, dataReady, mainVars, history>>

OffsetAtPieceEnd == offset = dataStart + dataSize1 \/ offset = dataSize2

\* _markNewData(), or "exit thread due to bad offset".
MarkNewData ==
    /\ readerPc = "mark"
    /\ dataSize1' = IF offset = dataStart + dataSize1
                    THEN dataSize1 + readSize ELSE dataSize1
    /\ dataSize2' = IF offset # dataStart + dataSize1 /\ offset = dataSize2
                    THEN dataSize2 + readSize ELSE dataSize2
    /\ readerPc' = IF OffsetAtPieceEnd THEN "emit" ELSE "off"
    /\ UNCHANGED <<offset, readSize, buffer, dataStart, dataReady, mainVars, history>>

\* Mutant: only data at the beginning of the buffer is announced.
EmitDataReadyOnce ==
    /\ readerPc = "emit"
    /\ dataReady' = IF dataStart = 0 THEN dataReady + 1 ELSE dataReady
    /\ readerPc' = "acquire"
    /\ UNCHANGED <<offset, readSize, buffer, indices, mainVars, history>>

\* The lock is released before dataReady() is emitted.
EmitDataReady ==
    /\ readerPc = "emit"
    /\ dataReady' = dataReady + 1
    /\ readerPc' = "acquire"
    /\ UNCHANGED <<offset, readSize, buffer, indices, mainVars, history>>

Reader ==
    \/ Acquire
    \/ WakeToExit
    \/ \E n \in 0 .. MaxDataIn : ReadDone(n)
    \/ ReadToExit
    \/ \E retry \in BOOLEAN : ReadFails(retry)
    \/ MarkNewData
    \/ EmitDataReady

-----------------------------------------------------------------------------
(* The operations the main thread calls. *)

\* Mutant: the secondary piece is forgotten.
SwitchPiecesLoses(start, size1, size2) ==
    IF size1 = 0 THEN dataStart' = 0 /\ dataSize1' = 0 /\ dataSize2' = 0
    ELSE dataStart' = start /\ dataSize1' = size1 /\ dataSize2' = size2

\* Mutant: the reader need not have begun the secondary piece.
SwitchPiecesEarly(start, size1, size2) ==
    IF size1 = 0
    THEN dataStart' = 0 /\ dataSize1' = size2 /\ dataSize2' = 0
    ELSE dataStart' = start /\ dataSize1' = size1 /\ dataSize2' = size2

\* The primary piece is used up and the reader has begun the secondary one.
SwitchPieces(start, size1, size2) ==
    IF size1 = 0 /\ size2 > 0
    THEN dataStart' = 0 /\ dataSize1' = size2 /\ dataSize2' = 0
    ELSE dataStart' = start /\ dataSize1' = size1 /\ dataSize2' = size2

\* Mutant: m_wait is not woken.
WakeReaderMissed == UNCHANGED readerPc

WakeReader == readerPc' = IF readerPc = "wait" THEN "acquire" ELSE readerPc

\* getData(): the caller works on the whole primary piece.
GetData ==
    /\ SwitchPieces(dataStart, dataSize1, dataSize2)
    /\ view' = [ptr |-> IF dataSize1' > 0 THEN dataStart' ELSE 0, len |-> dataSize1']

\* Mutants: one byte too many is taken off, or m_dataStart is not advanced.
ReleaseDataTooMuch(n) ==
    SwitchPieces(dataStart + n, dataSize1 - n - 1, dataSize2) /\ WakeReader /\ released' = released + n
ReleaseDataInPlace(n) ==
    SwitchPieces(dataStart, dataSize1 - n, dataSize2) /\ WakeReader /\ released' = released + n

\* releaseData(n)
ReleaseData(n) ==
    /\ SwitchPieces(dataStart + n, dataSize1 - n, dataSize2)
    /\ WakeReader
    /\ released' = released + n

\* resetData(): neither m_bufferLock nor m_wait is touched.
ResetData ==
    /\ dataStart' = 0 /\ dataSize1' = 0 /\ dataSize2' = 0
    /\ released' = Accepted
    /\ undercut' = TRUE

\* QThread::start(): nothing happens if the thread is running.
StartReader == readerPc' = IF readerPc = "off" THEN "acquire" ELSE readerPc

-----------------------------------------------------------------------------
(* A main thread that uses the class. *)

Start ==
    /\ mainPc = "run"
    /\ StartReader
    /\ UNCHANGED <<offset, readSize, buffer, indices, dataReady, mainVars, history>>

\* Mutant: signals are taken for a flag.
HandleDataReadyOnce ==
    /\ mainPc = "run" /\ view.len = 0 /\ dataReady > 0
    /\ dataReady' = 0
    /\ GetData
    /\ UNCHANGED <<readerVars, mainPc, shouldExit, history>>

HandleDataReady ==
    /\ mainPc = "run"
    /\ view.len = 0
    /\ dataReady > 0
    /\ dataReady' = dataReady - 1
    /\ GetData
    /\ UNCHANGED <<readerVars, mainPc, shouldExit, history>>

Release(n) ==
    /\ mainPc = "run"
    /\ n <= view.len
    /\ ReleaseData(n)
    /\ view' = IF n = view.len THEN NoView
               ELSE [ptr |-> view.ptr + n, len |-> view.len - n]
    /\ UNCHANGED <<offset, readSize, buffer, dataReady, mainPc, shouldExit, undercut>>

\* Whatever the reader is doing, as in stopRead().
Reset ==
    /\ mainPc = "run"
    /\ ResetData
    /\ view' = NoView
    /\ UNCHANGED <<readerVars, dataReady, mainPc, shouldExit>>

\* exitThread(): raise m_shouldExit, then wait until run() has returned.
BeginExit ==
    /\ mainPc = "run"
    /\ mainPc' = "exiting"
    /\ shouldExit' = TRUE
    /\ UNCHANGED <<readerVars, indices, dataReady, view, history>>

EndExit ==
    /\ mainPc = "exiting"
    /\ readerPc = "off"
    /\ mainPc' = "run"
    /\ shouldExit' = FALSE
    /\ UNCHANGED <<readerVars, indices, dataReady, view, history>>

Main ==
    \/ Start
    \/ HandleDataReady
    \/ \E n \in 1 .. BufferSize : Release(n)
    \/ Reset
    \/ BeginExit
    \/ EndExit

Next == Reader \/ Main

Spec == Init /\ [][Next]_vars

\* Both threads are scheduled; the host need not send and nobody has to start,
\* reset or stop the reader.  The main thread serves its event queue in order
\* and finishes the data it is working on when exitThread() returns, however
\* often it is called: strong fairness for the two steps exitThread() disables.
Fairness ==
    /\ WF_vars(Acquire)
    /\ WF_vars(WakeToExit)
    /\ WF_vars(ReadToExit)
    /\ WF_vars(MarkNewData)
    /\ WF_vars(EmitDataReady)
    /\ SF_vars(HandleDataReady)
    /\ SF_vars(\E n \in 1 .. BufferSize : Release(n))
    /\ WF_vars(EndExit)

FairSpec == Spec /\ Fairness

-----------------------------------------------------------------------------
(* Properties. *)

TypeOK ==
    /\ readerPc \in {"off", "acquire", "wait", "read", "mark", "emit"}
    /\ shouldExit \in BOOLEAN
    /\ offset \in -1 .. BufferSize
    /\ readSize \in 0 .. MaxDataIn
    /\ buffer \in [0 .. BufferSize - 1 -> Nat]
    /\ dataStart \in 0 .. BufferSize
    /\ dataSize1 \in 0 .. BufferSize
    /\ dataSize2 \in 0 .. BufferSize
    /\ dataReady \in Nat
    /\ view \in [ptr : 0 .. BufferSize, len : 0 .. BufferSize]
    /\ mainPc \in {"run", "exiting"}
    /\ released \in Nat
    /\ undercut \in BOOLEAN

\* "These data ranges must never overlap": the two pieces lie in the buffer
\* and the secondary one ends before the primary one begins, whatever the
\* reader appends while the main thread releases and switches.
PiecesDisjoint ==
    /\ dataStart + dataSize1 <= BufferSize
    /\ dataSize2 <= dataStart

\* The MAX_DATA_IN_SIZE bytes a read() in progress may fill stay inside the
\* buffer and clear of every byte the main thread may be looking at, although
\* the offset was computed before the main thread moved the pieces.
InFlightClear ==
    readerPc \in {"read", "mark"} =>
        /\ offset >= 0 /\ offset + MaxDataIn <= BufferSize
        /\ offset >= dataStart + dataSize1 \/ offset + MaxDataIn <= dataStart
        /\ offset >= dataSize2

\* A reader that has data to add finds its offset at the end of a piece, unless
\* resetData was called under its read(): getData and releaseData, which move
\* the pieces, never make the thread exit "due to bad offset".
OffsetStaysGood == readerPc = "mark" /\ ~undercut => OffsetAtPieceEnd

\* The bytes are in the pieces in the order in which the host sent them,
\* none missing, none twice, and the main thread looks at the oldest ones.
InOrder ==
    /\ \A i \in 0 .. dataSize1 - 1 : buffer[dataStart + i] = released + i
    /\ \A i \in 0 .. dataSize2 - 1 : buffer[i] = released + dataSize1 + i
    /\ view.len > 0 => view.ptr = dataStart /\ view.len <= dataSize1

\* Data is never left in the buffer without a dataReady signal that will
\* make the main thread look: getData takes the primary piece only, so the
\* signals must suffice for the secondary piece as well.
NoStrandedData ==
    (view.len = 0 /\ dataSize1 + dataSize2 > 0) => dataReady > 0 \/ readerPc = "emit"

\* The reader waits for room only while there is data to be released, whose
\* release wakes it, unless resetData, which wakes nobody, was called while it
\* waited: no order of reads and releases leaves it waiting for nothing.
WaitsOnlyForRelease == readerPc = "wait" /\ ~undercut => dataSize1 + dataSize2 > 0

\* Seen from outside, the two pieces are one bounded queue: every step of
\* either thread appends the next bytes the host sent, removes the oldest
\* ones, empties the queue or leaves it alone.
Contents ==
    [i \in 1 .. dataSize1 + dataSize2 |->
        IF i <= dataSize1 THEN buffer[dataStart + i - 1] ELSE buffer[i - dataSize1 - 1]]

Queue == INSTANCE ByteQueue
         WITH queue <- Contents, out <- released, MaxPut <- MaxDataIn, Capacity <- BufferSize

ImplementsQueue == Queue!Spec

\* All that was accepted is handed to the main thread and released.
AllReleased == \A k \in 1 .. StreamBound : Accepted >= k ~> released >= k

\* exitThread() returns.
ExitReturns == mainPc = "exiting" ~> mainPc = "run"
=============================================================================
