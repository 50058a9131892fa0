------------------------------- MODULE DataPhase -------------------------------
(***************************************************************************)
(* What goes over the bulk endpoints in the data phases of GetObject,      *)
(* GetPartialObject and GetPartialObject64 (a file, in segments), of       *)
(* GetObjectPropList (a data set put together value by value) and of       *)
(* SetObjectPropList (the same data set, sent back in packets): the        *)
(* responder's handlers, FSStoragePlugin::readData(), the containers and   *)
(* BulkWriterThread, which cuts everything into writes.                    *)
(*                                                                         *)
(* The host sees packets: a write of n bytes becomes packets of PacketSize *)
(* and, when n is not a multiple of it, a short one, which ends the        *)
(* transfer.  An unfinished transfer is given up (a cancel or a reset, see *)
(* Responder) before the host asks again.                                  *)
(*                                                                         *)
(* The user truncates and extends the file during a request about it,      *)
(* which works with the length the storage knew when it began; a change    *)
(* the storage had not noticed then is one right after the beginning.      *)
(* Byte k of the file is <<k, HeaderSize>>, which no header has.           *)
(***************************************************************************)
EXTENDS Containers, FiniteSets

CONSTANTS
    PacketSize,   \* PTP_HS_DATA_PKT_SIZE: 512
    WriteMax,     \* the largest write at first: 16384
    BufferMax,    \* BUFFER_MAX_LEN: 16384
    MaxContent,   \* MTP_MAX_CONTENT_SIZE: 2^32 - 1 - 12
    FileSizes,    \* lengths the file may have
    Offsets,      \* offsets and sizes the host asks for
    Sizes,
    Lists,        \* property lists: sequences of [handle, code, value, valid]
    Settable,     \* the codes of properties with bGetSet
    Chunks,       \* sizes of the packets the host sends
    ResizeBound,  \* times the user changes the file during a request
    FailBound     \* writes that fail during a request

\* However often writes are halved, they are whole packets.
ASSUME DataPhaseAssumption ==
    /\ PacketSize \in Nat \ {0}
    /\ WriteMax \in Nat
    /\ \E sizes \in SUBSET (1 .. WriteMax) :
          /\ WriteMax \in sizes
          /\ \A n \in sizes : n % PacketSize = 0 /\ (n > PacketSize => n \div 2 \in sizes)
    /\ BufferMax \in Nat /\ BufferMax % PacketSize = 0 /\ BufferMax > HeaderSize
    /\ MaxContent \in Nat
    /\ FileSizes \cup Offsets \cup Sizes \subseteq Nat
    /\ \A list \in Lists : \A k \in 1 .. Len(list) :
          list[k].handle \in Nat /\ list[k].code \in Nat /\ IsValue(list[k].value)

VARIABLES
    file,      \* the length of the file
    phase,     \* "idle", "segment", "write", "fill", "receive" or "read"
    req,       \* the operation, what it asks for and what was known then
    sender,    \* m_segmentedSender, and whether the header has been sent
    writer,    \* BulkWriterThread, and who waits for it
    writeMax,
    tx,        \* the data set that is being put together
    rx,        \* the data set that is being received
    due,       \* what the host has yet to send of it
    next,      \* the element of the property list that is next
    count,     \* elements written, or to be read
    applied,   \* properties set
    incoming,  \* what the host has of the transfer that has not ended
    transfers, \* the transfers that have
    answer,    \* the response, <<>> when there is none yet
    resized, failed,
    broken     \* a write was given up

phaseVars == <<req, phase, sender>>
writerVars == <<writer, writeMax, broken, failed>>
listVars == <<tx, rx, due, next, count, applied>>
hostVars == <<incoming, transfers, answer>>
fileVars == <<file, resized>>
vars == <<phaseVars, writerVars, listVars, hostVars, fileVars>>

Sentinel == MaxContent + HeaderSize
Content(from, n) == [k \in 1 .. n |-> <<from + k - 1, HeaderSize>>]
NoSpan == [begun |-> FALSE, now |-> 0, end |-> 0, sent |-> 0]
NoWriter == [data |-> <<>>, zero |-> FALSE, for |-> "none"]

Init ==
    /\ file \in FileSizes
    /\ phase = "idle"
    /\ req = [op |-> "none"]
    /\ sender = NoSpan
    /\ writer = NoWriter /\ writeMax = WriteMax
    /\ tx = NewTx(0) /\ rx = <<>> /\ due = <<>>
    /\ next = 1 /\ count = 0 /\ applied = <<>>
    /\ incoming = <<>> /\ transfers = <<>> /\ answer = <<>>
    /\ resized = 0 /\ failed = 0 /\ broken = FALSE

-----------------------------------------------------------------------------
(* The user                                                                *)

UserResizes ==
    /\ phase \in {"segment", "write"} /\ writer.for # "list"
    /\ resized < ResizeBound
    /\ file' \in FileSizes \ {file}
    /\ resized' = resized + 1
    /\ UNCHANGED <<phaseVars, writerVars, listVars, hostVars>>

-----------------------------------------------------------------------------
(* BulkWriterThread                                                        *)

\* mutant: no packet ends a transfer of whole packets
StartWriterNoZero(bytes, last, for) ==
    /\ writer' = [data |-> bytes, zero |-> FALSE, for |-> for]
    /\ phase' = "write"

\* setData() and the beginning of execute()
StartWriter(bytes, last, for) ==
    /\ writer' = [data |-> bytes, zero |-> last /\ Len(bytes) % PacketSize = 0, for |-> for]
    /\ phase' = "write"

Writing == phase = "write" /\ (writer.data # <<>> \/ writer.zero)

\* A write of nothing is the packet that ends a transfer of whole packets.
WriteNow ==
    LET n == Least(Len(writer.data), writeMax)
        got == incoming \o SubSeq(writer.data, 1, n)
        ends == n % PacketSize # 0 \/ n = 0
    IN  /\ Writing
        /\ writer' = [writer EXCEPT !.data = SubSeq(@, n + 1, Len(@)), !.zero = @ /\ writer.data # <<>>]
        /\ transfers' = IF ends THEN Append(transfers, got) ELSE transfers
        /\ incoming' = IF ends THEN <<>> ELSE got
        /\ UNCHANGED <<phaseVars, writeMax, broken, failed, listVars, answer, fileVars>>

\* EIO: the write is tried again, half as long.
WriteTooLong ==
    /\ Writing /\ failed < FailBound
    /\ writeMax > PacketSize
    /\ writeMax' = writeMax \div 2
    /\ failed' = failed + 1
    /\ UNCHANGED <<phaseVars, writer, broken, listVars, hostVars, fileVars>>

\* The response and the end of the handler
Respond(code, param) ==
    /\ answer' = <<code, param>>
    /\ phase' = "idle"

\* What follows in the handler: sendContainer() does not look at the
\* result, the loop of sendObjectSegmented() does, and gives up.
Written(result) ==
    /\ writer' = NoWriter
    /\ CASE writer.for = "list" -> Respond("OK", 0)
         [] writer.for = "more" /\ ~result -> phase' = "idle" /\ UNCHANGED answer
         [] OTHER -> phase' = "segment" /\ UNCHANGED answer

WriteReturns ==
    /\ phase = "write" /\ ~Writing
    /\ Written(TRUE)
    /\ UNCHANGED <<req, sender, writeMax, broken, failed, listVars, incoming, transfers, fileVars>>

\* Another error, or the thread is told to exit: the result is good when
\* only the packet that ends the transfer was left.
WriteGivenUp ==
    /\ Writing /\ failed < FailBound
    /\ failed' = failed + 1
    /\ broken' = TRUE
    /\ Written(writer.data = <<>>)
    /\ UNCHANGED <<req, sender, writeMax, listVars, incoming, transfers, fileVars>>

-----------------------------------------------------------------------------
(* GetObject and its relatives                                             *)

\* The host begins a request; containers of the last one are gone.
Ask(request) ==
    /\ phase = "idle"
    /\ req' = request
    /\ incoming' = <<>> /\ transfers' = <<>>
    /\ rx' = <<>> /\ applied' = <<>> /\ next' = 1 /\ count' = 0
    /\ resized' = 0 /\ failed' = 0 /\ broken' = FALSE
    /\ UNCHANGED <<file, writer, writeMax>>

\* getObjectCommon(): a span that overflows begins after the end as well.
GetObjectCommon(op, offs, size) ==
    /\ Ask([op |-> op, offs |-> offs, size |-> size, known |-> file])
    /\ IF offs > file
       THEN Respond("InvalidParameter", 0) /\ sender' = NoSpan
       ELSE /\ sender' = [NoSpan EXCEPT !.now = offs, !.end = Least(offs + size, file)]
            /\ phase' = "segment"
            /\ answer' = <<>>
    /\ UNCHANGED <<tx, due>>

GetObject == GetObjectCommon("GetObject", 0, MaxContent)
GetPartialObject == \E offs \in Offsets, size \in Sizes : GetObjectCommon("GetPartialObject", offs, size)
GetPartialObject64 == \E offs \in Offsets, size \in Sizes : GetObjectCommon("GetPartialObject64", offs, size)

Remaining == sender.end - sender.now

\* readData() of the next n bytes
Readable(n) == file >= sender.now + n

Advance(n) == sender' = [sender EXCEPT !.begun = TRUE, !.now = @ + n, !.sent = @ + n]

\* The first container: the header and as much content as fits
SendFirst ==
    LET n == Least(Remaining, BufferMax - HeaderSize)
        length == IF Remaining > MaxContent THEN Sentinel ELSE HeaderSize + Remaining
        container == Fill(SetContainerLength(NewTx(n), length), Content(sender.now, n))
    IN  /\ phase = "segment" /\ ~sender.begun
        /\ IF Readable(n)
           THEN StartWriter(Buffer(container), n = Remaining, "first") /\ Advance(n) /\ UNCHANGED answer
           ELSE Respond("GeneralError", 0) /\ UNCHANGED <<writer, sender>>
        /\ UNCHANGED <<req, writeMax, broken, failed, listVars, incoming, transfers, fileVars>>

\* More content, without a header; what cannot be read ends the handler
\* without a response.
SendMore ==
    LET n == Least(Remaining, BufferMax)
    IN  /\ phase = "segment" /\ sender.begun /\ Remaining > 0
        /\ IF Readable(n)
           THEN StartWriter(Content(sender.now, n), n = Remaining, "more") /\ Advance(n)
           ELSE phase' = "idle" /\ UNCHANGED <<writer, sender>>
        /\ UNCHANGED <<req, writeMax, broken, failed, listVars, hostVars, fileVars>>

SendDone ==
    /\ phase = "segment" /\ sender.begun /\ Remaining = 0
    /\ Respond("OK", IF req.op # "GetPartialObject" THEN 0
                     ELSE IF sender.sent > MaxContent THEN Sentinel ELSE sender.sent)
    /\ UNCHANGED <<req, sender, writerVars, listVars, incoming, transfers, fileVars>>

-----------------------------------------------------------------------------
(* GetObjectPropList and SetObjectPropList                                 *)

\* The number of objects stands where the number of elements will.
GetObjectPropList ==
    \E list \in Lists :
        /\ Ask([op |-> "GetObjectPropList", list |-> list])
        /\ tx' = Serialize(NewTx(BufferMax - HeaderSize), 4, <<1>>)
        /\ phase' = "fill"
        /\ answer' = <<>> /\ sender' = NoSpan
        /\ UNCHANGED due

\* serializePropList(): values the storage does not have are left out.
SerializeProperty ==
    LET p == req.list[next]
        t1 == Serialize(tx, 4, <<p.handle>>)
        t2 == Serialize(t1, 2, <<p.code>>)
        t3 == Serialize(t2, 2, <<p.value.type>>)
    IN  /\ phase = "fill" /\ next <= Len(req.list)
        /\ next' = next + 1
        /\ IF p.valid THEN tx' = SerializeVariant(t3, p.value) /\ count' = count + 1
                      ELSE UNCHANGED <<tx, count>>
        /\ UNCHANGED <<phaseVars, rx, due, applied, writerVars, hostVars, fileVars>>

SendList ==
    /\ phase = "fill" /\ next > Len(req.list)
    /\ StartWriter(Buffer(PutFirst(tx, count)), TRUE, "list")
    /\ tx' = NewTx(0) /\ next' = 1 /\ count' = 0
    /\ UNCHANGED <<req, sender, rx, due, applied, writeMax, broken, failed, hostVars, fileVars>>

\* The host sets what it was told, in a data set with the same bytes.
SetObjectPropList ==
    /\ req.op = "GetObjectPropList" /\ answer # <<>> /\ ~broken
    /\ Ask([req EXCEPT !.op = "SetObjectPropList"])
    /\ due' = transfers[1]
    /\ answer' = <<>>
    /\ phase' = "receive"
    /\ UNCHANGED <<sender, tx>>

\* dataHandler(): the first packet makes a container, the others are added
\* to it; after the last one the request has its data.
ReceivePacket ==
    \E n \in Chunks :
        LET packet == SubSeq(due, 1, Least(n, Len(due)))
        IN  /\ phase = "receive" /\ due # <<>>
            /\ rx' = IF rx = <<>> THEN NewRx(packet) ELSE AppendChunk(rx, packet)
            /\ due' = SubSeq(due, Len(packet) + 1, Len(due))
            /\ UNCHANGED <<phaseVars, tx, next, count, applied, writerVars, hostVars, fileVars>>

\* setObjectPropListData(): the number of elements, ...
ReadCount ==
    /\ phase = "receive" /\ due = <<>>
    /\ count' = ElementAt(rx, 4, rx.offset)
    /\ rx' = Skip(rx, 4)
    /\ next' = 1
    /\ phase' = "read"
    /\ UNCHANGED <<req, sender, tx, due, applied, writerVars, hostVars, fileVars>>

\* ... then element by element until one cannot be set; its index is the
\* parameter of the response.
SetProperty ==
    LET handle == ElementAt(rx, 4, rx.offset)
        code == ElementAt(rx, 2, rx.offset + 4)
        type == ElementAt(rx, 2, rx.offset + 6)
        read == DeserializeVariant(Skip(rx, 8), type)
    IN  /\ phase = "read" /\ next <= count
        /\ next' = next + 1
        /\ IF code \in Settable
           THEN /\ applied' = Append(applied, [handle |-> handle, code |-> code, value |-> [type |-> type, of |-> read.of]])
                /\ rx' = read.rx
                /\ UNCHANGED <<phase, answer>>
           ELSE Respond("AccessDenied", next - 1) /\ UNCHANGED <<applied, rx>>
        /\ UNCHANGED <<req, sender, tx, due, count, writerVars, incoming, transfers, fileVars>>

SetDone ==
    /\ phase = "read" /\ next > count
    /\ Respond("OK", 0)
    /\ UNCHANGED <<req, sender, listVars, writerVars, incoming, transfers, fileVars>>

Next ==
    \/ UserResizes
    \/ WriteNow \/ WriteTooLong \/ WriteReturns \/ WriteGivenUp
    \/ GetObject \/ GetPartialObject \/ GetPartialObject64
    \/ SendFirst \/ SendMore \/ SendDone
    \/ GetObjectPropList \/ SerializeProperty \/ SendList
    \/ SetObjectPropList \/ ReceivePacket \/ ReadCount \/ SetProperty \/ SetDone

Spec == Init /\ [][Next]_vars

-----------------------------------------------------------------------------

\* The bytes of the object a request is about
Asked == {k \in req.offs .. req.offs + req.size - 1 : k < req.known}

\* The host gets what it asked for: unless a write was given up, a response
\* comes only between transfers; an OK after one transfer, ended by its only
\* short packet, of a header that announces the content, or that there is
\* too much of it, and of every byte asked for and there, however the file
\* changed meanwhile; any other after none. (sendObjectSegmented,
\* BulkWriterThread)
TransferWhole ==
    (answer # <<>> /\ ~broken /\ req.op \in {"GetObject", "GetPartialObject", "GetPartialObject64"}) =>
        LET n == Cardinality(Asked)
            length == IF HeaderSize + n > Sentinel THEN Sentinel ELSE HeaderSize + n
        IN  /\ incoming = <<>>
            /\ IF answer[1] = "OK"
               THEN /\ transfers = <<Bytes(HeaderSize, <<length>>) \o Content(req.offs, n)>>
                    /\ req.op = "GetPartialObject" => answer[2] = (IF n > MaxContent THEN Sentinel ELSE n)
               ELSE transfers = <<>>

\* What a string can be in a data set: no terminator within, no more than
\* StringLimit units
Canonical(v) ==
    LET fits == {n \in 0 .. Least(Len(v.of), StringLimit) : \A k \in 1 .. n : v.of[k] # 0}
    IN  IF v.type # String THEN v
        ELSE [v EXCEPT !.of = SubSeq(@, 1, CHOOSE n \in fits : \A k \in fits : k <= n)]

\* What the host is told of properties and sends back, in packets of any
\* size, is what it was, every value and every object, up to the first
\* property that cannot be set, whose index the response has.
\* (MTPTxContainer, MTPRxContainer, setObjectPropListData)
DatasetReturns ==
    (req.op = "SetObjectPropList" /\ answer # <<>>) =>
        LET told == SelectSeq(req.list, LAMBDA p : p.valid)
            denied == {k \in 1 .. Len(told) : told[k].code \notin Settable}
            n == IF denied = {} THEN Len(told) ELSE (CHOOSE k \in denied : \A j \in denied : k <= j) - 1
        IN  /\ applied = [k \in 1 .. n |-> [handle |-> told[k].handle, code |-> told[k].code,
                                            value |-> Canonical(told[k].value)]]
            /\ answer = IF denied = {} THEN <<"OK", 0>> ELSE <<"AccessDenied", n>>
=============================================================================
