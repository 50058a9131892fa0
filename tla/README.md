# Verification of buteo-mtp

TLA+ models of the MTP responder of Sailfish OS (`src/mts`), model-checked with
TLC on small instances, and proofs checked by TLAPS for all sizes.
`PROJECT.json` relates every definition to the lines it models, lists the runs,
the hazards, the mutants and the theorems.

## The system

The daemon (`src/mts/mts.cpp`) connects a *transport* to the *responder*. All
Qt objects live in the main thread; the USB transport has four threads of its
own, one per endpoint and direction. Threads talk to the main thread through
queued signals, and the main thread wakes threads with a semaphore, a wait
condition or SIGUSR1. Inside the main thread two calls run an event loop of
their own while a handler is on the stack: `sendData()` of the transport and
`processTransportEvents()` of the responder, used by long copies and
enumerations. Most of what is hard in this program comes from these two facts.

| component | state | operations | interacts with |
|---|---|---|---|
| `BulkReaderThread` (threadio.cpp) | ring buffer of 16 reads, two pieces of valid data, wait condition | `execute`, `getData`, `releaseData`, `resetData`, `exitThread` | main thread through `dataReady` |
| USB receive path (mtptransporterusb.cpp) | container length left, reader state, `m_ioState`, storage ready | `handleDataReady`, `processReceivedData`, `startRead`, `stopRead`, `reset`, `disableRW`, `enableRW`, `openDevices`, `closeDevices` | reader thread, responder (`dataReceived`) |
| `InterruptWriterThread` and event logic | event queue, event held for retry, `m_events_busy`, failures, timer | `sendEvent`, `sendQueuedEvent`, `eventCompleted`, `eventTimeout`, `onCommandPending`, `onCommandFinished`, `sessionOpenChanged` | responder (`commandPending`, `commandIdle`), bulk writer |
| `BulkWriterThread` and `sendData()` | data left to write, pending empty packet, largest write, result | `setData`, `execute`, `sendData` | main thread, by a nested event loop |
| `ControlReaderThread` | setup packets | bind, enable, suspend, cancel, device reset, device status | transport and responder, by signals |
| `MTPResponder` | state, transaction, idle timer | one handler per operation, `receiveContainer`, `dataHandler`, `sendContainer`, cancel, reset, idle | everything below and above |
| object sending and editing (in `MTPResponder`) | `m_sendObjectSequencePtr`, `m_objPropListInfo`, `m_editObjectSequencePtr` | SendObjectInfo, SendObjectPropList, SendObject, BeginEditObject, SendPartialObject, TruncateObject, EndEditObject | storage |
| object reading and data sets (in `MTPResponder`) | `m_segmentedSender`, containers | GetObject, GetPartialObject, GetPartialObject64, GetObjectPropList, SetObjectPropList | storage, bulk writer, host |
| `StorageFactory` | plugins, next handle, next puoid, readiness | dispatch of every object operation | storage plugins, property cache |
| `FSStoragePlugin` | object tree, handle, path and puoid maps, references, watches | add, delete, copy, move, write, inotify handlers, persistence | file system, `Thumbnailer`, `FSInotify` |
| `ObjectPropertyCache` | handle to property to value | add, get, remove | `StorageFactory` |
| `Thumbnailer` | queues of requests, timer, suspended flag | request, D-Bus replies, enable | thumbnailer service, responder |
| containers | buffer, capacity, offset, announced length | `operator<<`, `operator>>`, `append`, `expandBuffer` | every operation with a data phase |
| property descriptions, extensions, device information, plugin factory, daemon, dummy transport | mostly static | serialisation, tables, XML | |

### What makes it correct

* Receive path: what the host sends reaches the responder once, in order and cut
  into its containers, whatever the two threads interleave, and never moves
  while the responder is looking at it.
* Events: one on its way at a time, in order, only between commands of an open
  session; nothing waits for ever for a host that does not read them.
* Responder: one response per transaction, after its data phase; ready again
  before the host can send the next request; nothing of an ended transaction is
  answered; a request is not used after it was deleted; the transport is told
  when commands stop, or events and thumbnails stay suspended.
* Object sending: the data go to the object described; what the host was told
  was written is there, with its size; a cancelled sequence leaves no half
  object; every transaction ends.
* Object reading: a transfer is whole and ended once, or the host is not told
  that it is; values come out of a data set as they went in.
* Storage: the maps by handle and path, the watches and the tree agree, and the
  tree becomes the disk again when the notifications are handled; identifiers and
  references survive a restart; notifications and own operations do not fight.
* Queries: cached properties are what the storage would answer; changes of
  objects the host knows are announced; thumbnails are fetched when, and
  whenever, the responder is idle.

`PROJECT.json` lists the hazards line by line.

## The modules

| module | models | extends or instantiates |
|---|---|---|
| `ByteQueue` | what the receive buffer promises: a bounded queue of bytes | |
| `BulkReader` | the buffer, the reader thread step by step, a main thread that uses it, and discards its data at any time | refines `ByteQueue` |
| `UsbReceiver` | the main thread as it is: deliveries, nested event loops, resets, unbinding, `disableRW` | extends `BulkReader` |
| `EventSender` | interrupt writer thread, event logic, sessions, commands, `sendData()` as far as it waits | |
| `Responder` | transactions of `MTPResponder` against a host, over two unordered endpoints | |
| `ObjectWriting` | objects described, sent, edited and truncated over several transactions | |
| `ObjectTree` | the tree and the maps of one `FSStoragePlugin`, inotify, puoids and references, against a disk | |
| `Thumbnailer` | the class `Thumbnailer`, as operators on a record | |
| `ObjectQueries` | `StorageFactory` over two storages: cache, events, moves and copies between storages | uses `Thumbnailer` |
| `Containers` | `MTPTxContainer` and `MTPRxContainer`, as operators on records | |
| `DataPhase` | what goes over the bulk endpoints in data phases, with `BulkWriterThread` | extends `Containers` |
| `MC*` | instances for TLC | the module of the name |
| `BulkReaderProofs` | proofs of the safety properties of `BulkReader` and that it implements `ByteQueue` | extends `BulkReader` |
| `UsbReceiverProofs` | proofs of the safety properties of `UsbReceiver` | extends `UsbReceiver` |
| `EventSenderProofs` | proofs of the safety properties of `EventSender` | extends `EventSender` |
| `ResponderProofs` | types, sessions and requests of `Responder`; what goes through the pipe and the order within a transaction | extends `Responder` |
| `ObjectWritingProofs` | proofs of the safety properties of `ObjectWriting` | extends `ObjectWriting` |
| `ObjectTreeProofs` | proofs of the agreement of the maps, of the identities and of what events delete | extends `ObjectTree` |
| `ObjectQueriesProofs` | proofs of what the cache answers, of the changes told and of the thumbnailer at rest | extends `ObjectQueries` |
| `DataPhaseProofs` | proofs that transfers of objects are whole, and what is put into containers | extends `DataPhase` |

**BulkReader.** One action per locked or unlocked stretch of code: computing the
offset under `m_bufferLock` (`Acquire`), the unlocked `read()` (`ReadDone`),
`_markNewData()` (`MarkNewData`), the unlocked `emit dataReady()`
(`EmitDataReady`). `readerPc` is the place in `execute()`. A byte is its place
in the stream, so `buffer` shows loss, repetition and overwriting. Releasing
wakes a waiting reader; `exitThread()` raises a flag and repeats its interrupt
until the thread has gone. Errors that the loop retries and errors that end it
are both there. `Reset` is `resetData()` as `stopRead()` calls it, whatever the
reader is doing; the history `undercut` says that it was called since the reader
last computed an offset. A reader may then exit due to a bad offset, or wait for
room in an empty buffer, and `OffsetStaysGood` and `WaitsOnlyForRelease` are
about the behaviours between resets; the other properties hold with them.

**UsbReceiver.** `frame` is the call of `handleDataReady` on the stack and
`packet` what the responder is working on inside `dataReceived`. Whatever a
nested event loop may run then is an action enabled in that state: another
`dataReady`, `stopRead()` on unbind or suspend, `reset()` by the responder,
`disableRW()`. The framing rule (a container's header only at its beginning, the
length left kept from packet to packet) is checked against the containers the
host really sent (`starts`, with their lengths). After a stop or a reset some
of those are begun and never finished: `BeganAt` asks which container a place in
the stream belongs to for the responder, not whether any container ever began
there. A header can be too short for the length of its container (`MaxHeader`
stands for 0xFFFFFFFF); the length then comes from the description of the object
(`Fetched`, the responder's `fetchObjectSize()`). What is read as a header without
being one holds any length, 0 included, which makes an empty packet over and over.
`intact` says that no piece of a container was dropped that the host goes on with;
`Framing` is about that, `PacketIsOldestData` holds always. `StopRead` finds the
reader at any point: it may be waiting, inside `read()`, or about to add what it
has read, which then comes after the stop if the offset is still good.

**EventSender.** Events are numbers in the order of `sendEvent()`. `intrPc` is
the place in `execute()`, `results` the queued `senderIdle` signals. The bound
`MAX_EVENTS_STORED`, dropping of the oldest events, the failure limit,
`eventTimeout()` with SIGUSR1, retries of the held event, sessions, the
responder's busy flag and the wait in `sendData()` are all there, as are
`reset()`, `closeDevices()` and an I/O error that ends the thread.

**Responder.** The host has one transaction at a time; what it sends lies in
`wire` (bulk) and `ctrl` (control), and nothing orders the two. `handler` is
what the handler on the stack will do when its nested event loop ends. The
operations fall into eleven classes by the shape of their transaction (no data;
data in; data out, collected or streamed; segmented objects; copies with an
event loop of their own; sessions; GetThumb, which is special). Containers are
records of type, operation and transaction; a header that is none says anything
(`UnitsDue`). A stop of the bus (`DiscardInput`) discards what was received, but
one piece the reader had in hand may still be delivered after it, where it is
taken for the beginning of a container. From then on responder and host may be out
of step: the history `survived` marks these behaviours, and the properties of the
order of packets and responses leave them out.

**ObjectWriting.** What one transaction leaves for the next is on the
responder's side (`sequence`, `propList`, `edit`) and in `store`, the write side
of the plugin (`m_dataFile`, `m_writeObjectHandle`). A response is sent in an
event loop, so a cancel or a device reset may come before the handler returns
(`answer`). The content of a file says which transaction wrote each unit, so
that a hole, a leftover and a mix-up of objects can be seen. `expected` is what
the host may believe from the responses it got. The host may describe an object by
SendObjectInfo and another by SendObjectPropList before it sends data; the history
`mixed` has the objects that this confuses. `DataWhereDescribed` says which of the
two gets the data, the other properties leave `mixed` out.

**ObjectTree.** `s` holds the maps of the plugin (items by handle, handles by
path, watches), the disk and the queue of inotify events; `cached` is
`m_iNotifyCache`, a moved-from event that waits for its second; `saved` are the
files with puoids and references, `before` what the objects were when the daemon
stopped. The user changes the disk at any time, the host's operations run
between notifications, a restart enumerates the disk anew. The ghost `lost` in
`s` records why the tree may differ from the disk for good: a folder notified
as deleted while the tree has contents for it ("full folder"), a move that also
changes the name ("name"), goes below the moved item itself ("cycle"), comes from
an unknown item ("unknown"), or goes to a path that an item holds ("replaced",
"displaced"), an event handled when something else is at its path by then
("changed", "came back", "behind"), an event of a watch given up ("watch"), a
directory that loses its watch ("unwatched"), a copy that returns early
("copy"), a watch that an item which is no folder any more leaves behind when it is
removed ("stale") and an event of such a watch ("null item").
`TreeIsDisk` excuses these, and so says that there are no others;
`MapsAgree` excuses only "displaced" and "cycle", and with "stale" a watch that
leads to no item. Every cause is set in the
operation it belongs to, under its own condition, never as a choice.

An item whose file was replaced by a rename changes its kind when the event is
handled, and keeps the items below it (`Reached`: recursions over the tree stop
there). `Forget` is `deleteItemHelper()` with both ways in which it deletes: `rmdir`
of folders that are empty on the disk, and `QFile::remove()` of what is no folder
any more. Names in `Wide` stand for names that are not ASCII, `Cut` for what
`storePuoids()` leaves of their paths when it writes as many bytes as they have
characters.

**Thumbnailer, ObjectQueries.** Two storages with their objects, the cache of
property values, the queue of what the main thread has yet to handle and a
thumbnailer per storage. An operation of the host is one step, since the
responder does not return to the event loop in it; the notification of a change
is a step of its own. What is in a folder and the path of an object are defined
through sets of objects (`Subtree`, `Above`), not by recursion, so that the
definitions do not depend on the depth of the tree. Ghosts carry what the
properties compare with: `asked`, the objects the host was answered about;
`untold`, those of them changed since without a notification; `stale`, values
that an operation of the host has itself left out of date in the cache; `torn`,
objects a failed move has left in two storages. `CacheTruthful` excuses `stale`
and `torn`, `ChangesTold` only `torn`; what they stand for is listed under "What
else the models show".

**Containers, DataPhase.** A byte is its element and its place in it, so that
reading with the wrong width or from the wrong place is seen. `DataPhase` has
the handlers that stream a file or put together and read a data set, the
storage's `readData()`, and `BulkWriterThread`, which cuts buffers into writes and
halves their largest size after EIO. The host collects packets into transfers
that end with a short packet. Bulk reading as such is in `BulkReader`; here data
arrive in pieces of any size in `Chunks`.

## The runs

| run | shows |
|---|---|
| `bulk_reader` | all properties of the buffer, its refinement of `ByteQueue`, and that nobody blocks |
| `usb_receiver` | the packet worked on stays the oldest data, also when data are discarded under a running reader, and is framed as the host framed it until a piece of a container is lost |
| `events` | one event at a time, in order, between commands; `sendData()` does not wait for ever |
| `responder` | a host that keeps to the protocol is answered and never refused; events resume |
| `responder_ends` | cancels and bus stops at any point: no null request, no late answer, no packet mistaken but what the reader had in hand at a stop |
| `responder_mixed` | cancels and resets that overtake bulk data, objects that fail midway: no handler waits for ever |
| `object_writing` | data end up in the object described, complete, with the size the host is told, and a cancel leaves nothing, with the exceptions the properties name; every transaction ends |
| `object_tree` | the maps agree; the tree becomes the disk when all notifications are handled; identifiers and references of ASCII paths survive restarts; notifications delete no file but in one case |
| `object_queries` | cached values are what the storages would answer; changes of known objects are announced; thumbnails are fetched only, and in the end always, when the responder is idle |
| `data_phase` | a transfer is whole and ended once unless the host is told; property values come back out of a data set as they went in |
| `responder_gone` | *violated*: GetPartialObject cancelled in its data phase answers from a deleted request |
| `object_tree_rename` | *violated*: the folders inside one that the host renames lose their watches and get none under their new paths |

`PROJECT.json` has a mutant for every property of a passing run: a plausible
slip in the code that the property refutes.

### Bounds

Bounds stop the users of a system that would run for ever, so most instances do
stop: they are checked with `CHECK_DEADLOCK FALSE`. The three of the transport
and `data_phase` are checked for deadlock.

* `bulk_reader`: reads of up to 2 bytes into a buffer of 5, 7 bytes in all, up to
  3 posted signals. The buffer is the smallest with room for a primary piece, a
  secondary piece and a read in progress besides; 7 bytes wrap around it and
  switch pieces again. The proofs lift the sizes, the number of signals and the
  length of the stream.
* `usb_receiver`: reads of up to 2 bytes into a buffer of 4, 5 bytes in all, in
  containers of 1 and 3: one that fits a read and one that takes two, crosses the
  end of the buffer and is too long for a header (`MaxHeader = 2`). Two disturbing
  events of any kind, in any order and nested, with the reader at any point.
* `events`: a queue of 2 (`MAX_EVENTS_STORED` is 512), 2 failures, 3 events
  (overflow happens with a held event), 2 sessions, one restart of the thread.
* `responder`: 4 transactions (open, two in session, and one that shows that the
  state was left clean), objects of up to 3 segments, data phases of up to 2
  packets. Three packets in the pipe are more than a host with one transaction
  at a time can have outstanding.
* `responder_ends`, `responder_mixed`: 3 transactions and 2 signals, so that one
  signal hits a transaction that follows a disturbed one. In `responder_mixed`
  the pipe holds 9 packets, as many as the host ever sends, so that the host
  does not block. The constant `Ends` says which operations the host of a run
  disturbs and how. `responder_ends` leaves out a cancel of a data phase of the
  host and a bus stop during a copy, whose effects are known (below).
* `object_writing`: 5 transactions are an object described and sent, an edit
  that is begun and written, and one more, or two objects and a cancelled third;
  2 names, contents of 0 or 2 units, so that a file can shrink, grow and have a
  hole; one cancel or reset, one write that fails. Both kinds of description may
  be pending at a time. (That `SizeAgrees` needs its exception takes 6.)
* `object_tree`: 2 names and depth 2, which has folders with folders and files
  in them, moves between any two, and name clashes; two more names are not ASCII
  and on the disk at first only, as files, one cut to the other by
  `storePuoids()`. 3 changes by the user, one operation of the host and one
  restart, 3 of these in all, and one failing copy, in any order with the
  notifications of all of them. The exceptions of `MapsAgree` and
  `EventsDeleteNoFile` take three changes by the user; an event of a watch left
  behind ("null item") takes more.
* `object_queries`: a folder with a file in the first storage, nothing in the
  second, room for one more handle; one change by the host, one query, one change
  by the user, up to 3 edit operations and one failure, 4 of these in all. A
  cached value needs a query, a change and a comparison to be wrong; the fourth
  step makes the change hit something another change has moved.
* `data_phase`: header 3, packets of 2, writes and buffers of up to 8 and
  contents of up to 14 stand for 12, 512, 16384 and 2^32 - 13: file lengths,
  offsets and sizes lie on both sides of each of them and of their sums with the
  header. The file changes once, two writes fail (EIO and others). Property
  lists have two elements, with all widths of integers and arrays, and strings
  that are empty, at the limit, over it and with a terminator inside.

### Fairness

Threads are scheduled, posted signals and expired timers are handled, a
`read()` or `write()` that was interrupted returns: weak fairness of these
steps. Strong fairness is assumed of two steps of the main thread in
`BulkReader`, handling a posted signal and releasing data, because
`exitThread()` may be called over and over and disables them each time for as
long as it takes. The host need not send, read events, or cancel; it does finish
a data phase it has begun and reads a response or data it has asked for.

`ObjectQueries` assumes weak fairness of `Idle`, the responder becoming idle
after an operation (`setResponderState()` emits `commandFinished` then, which
resumes the thumbnailers; every operation of this module is answered), and of
the delay timer of each thumbnailer (`ThumbnailTimer`), a Qt timer of a main
thread that returns to its event loop. Nothing is assumed of
the host, the user and the thumbnail service. `ObjectWriting` assumes that the
host goes on with a data phase it has begun and that a response is sent
(`DataPhase`, `ResponseSent`). `ObjectTree` and `DataPhase` have safety and
action properties only and no fairness.

## What is proved

The proofs hold for every value of the constants that the `ASSUME`s of the
modules allow: sizes, queue lengths, numbers of events, transactions, objects
and signals. Every invariant that is proved was first checked by TLC, and so was
the inductive one it rests on. None of the properties is inductive by itself;
what had to be added to each is said below.

**The ring buffer** (`BulkReaderProofs`), for every
`MaxDataIn > 0`, every `BufferSize >= 2 * MaxDataIn - 1` and any bounds on
stream and signals. The code has `BufferSize = 16 * MaxDataIn`
(`READER_BUFFER_SIZE`); the weaker assumption is what the argument needs, and
only for the last of these:

* `TypeCorrect`, `PiecesStayDisjoint`, `ReadsStayClear`, `NothingThrownAway`,
  `StreamInOrder`, `SignalsSuffice`, `NeverWaitsOnEmpty`: the safety properties
  of the run `bulk_reader`;
* `Refinement`: `BulkReader` implements `ByteQueue`.

The reader computes an offset under the lock
and uses it without, so `IInv` says what may change in between (`Flight`): an
offset at the tail stays at the tail because releasing keeps the end of the
primary piece where it is; an offset at the head may become one at the tail when
the pieces are switched. That needs `TailUsedUp`: a secondary piece exists only
if the tail has no room for a read, and nothing gives it room before the switch.
`Fresh` carries what was read over to `_markNewData()`. `Signals` counts: the
posted signals, and the one about to be posted, are at least the pieces the
main thread has not looked at. A reset of the buffer under a running reader keeps
all of this but that the offset is good and that a waiting reader has something
to wait for; `undercut` says where these two are lost. For the refinement
`ContentsAreRun` shows that the contents are always the next bytes of the
stream, so that a step has to be matched only by how many bytes it keeps and
releases.

**The receive path** (`UsbReceiverProofs`), for the same sizes:
`PacketIsSafe` (`PacketIsOldestData`), `ContainersFramed` (`Framing`) and the
types. The invariant has the ring buffer again (`Ring`), this time under a main
thread that resets it at any point of its own work; `Work`, what the call of
`handleDataReady()` on the stack still knows, which is nothing once a reset has
made its view stale; and the place of `m_containerReadLen` within the
containers of the stream (`Border`, where the main thread has come to plus the
length left, is the end of the container it is reading). The theorems have no
hypothesis: containers are of any lengths, also longer than a header can say,
headers that are none hold anything, and DISABLE and SUSPEND find the reader
running or at rest. `Stream` holds only while `intact`; `Ring` and `Work` always.

The attempt to prove `Framing` showed that it asked too much: it called a packet
the last one also if it ended where a container would have ended that the host
gave up long before. The instance is too small to have that. The property now
goes by the container the packet belongs to (`BeganAt`).

**Events** (`EventSenderProofs`), for all queue lengths, failure limits and
numbers of events, sessions and stops: `OneEventOnItsWay` (`ResultExpected`),
`EventsReadInOrder` (`EventsInOrder`) and the types. To `ResultExpected` the
invariant adds that a thread inside `write()` holds an event (`WritesAnEvent`),
that the timer runs only while one more failure may be counted
(`TimerMayCount`), and that whatever is queued, held or read has been numbered
before (`Numbered`); the order needs the held event to lie between those read
and those queued.

**Transactions** (`ResponderProofs`). First come the types and two properties
that rest on little else:

* `SessionKnown` (`SessionsAgree`). The transport learns of a session only when
  the response to OpenSession has been sent, so the invariant (`Agreement`) lets
  the two differ exactly while that response is on the stack, and needs that no
  other operation answers then (`WaitsForItsData`, `NothingYet`). It assumes
  `OnlyCancelled`: a device reset and a bus stop close the session behind the
  transport's back (below).
* `NoResponseWithoutRequest` (`RequestPresent`). It assumes `RequestKept`: no
  device reset, no bus stop in a copy, no GetPartialObject. Each of these three
  does take the request away under a handler; the run `responder_gone` shows it
  for the third.

The second half of the module has what depends on the order in which commands,
data and control requests arrive: `NoPacketRefused` (`NothingRefused`),
`DataIsNoCommand` (`RequestIsCommand`), `AnswerAfterData` (`ResponseAfterData`),
`ReadyAtOnce` (`ReadyForNext`) and `NoLateAnswer` (the action property
`EndedUnanswered`). The invariant `FlowInv` divides a transaction by where its
packets are: its command not yet delivered (`Undelivered`), its data under way
(`Receiving`), or everything delivered (`Delivered`); commands of cancelled
transactions can lie in the pipe before them. For each it says in which state
the responder is, what the handler on the stack has to do (`RequestAndState`)
and how many packets are due. `TxnOrder` keeps the transactions of everything in
the pipe, of the request and of the handler apart from those that are over. The
hypotheses:

* `Handled`: no GetThumb, no object that fails while it is read or while the
  last part of it is written (`NoneAbandoned`), no reset, and nothing but a bus
  stop in a data phase of the host. What a cancel does in such a data phase, or a
  failure in the middle of it, is known to break these properties (below).
* `ReadyAtOnce` moreover needs that the host cancels nothing
  (`NeverCancelled`): a cancelled transaction leaves the state "cancel".
* `NoLateAnswer` needs `TxnBound < IdWrap`, that transaction ids have not come
  round (`m_transactionId` has 32 bits; a response has 16 of them).

The runs `responder` and `responder_ends` have constants that satisfy these, so
none is empty; what they exclude is what "What else the models show" lists. The
invariant, and the properties, are about behaviours in which no piece has survived
a stop of the bus: from then on nothing of the order in the pipe can be said.
`NoLateAnswer` is about responses; segments of an object may still go out
after a cancel.

**Objects written** (`ObjectWritingProofs`), for all names, sizes, numbers of
transactions, signals and failing writes, without further hypotheses:
`DataGoesWhereDescribed` (`DataWhereDescribed`), `ContentIsAsSent`
(`ContentAsSent`), `SizeIsTold` (`SizeAgrees`), `CancelledIsGone` (the action
property `CancelLeavesNothing`) and the types. The properties speak of what the
host may believe after a response, and a response can be cut off by a cancel or
a reset before the handler returns; so the invariant follows a content from the
first packet to the answer:

* `Transaction`: at most one of the host's transactions is between command and
  answer, and the request, the host's view and the answer are of the same one;
* `MixedUp`: if both `sequence` and `propList` are pending, their objects are in
  `mixed`, which the parts below leave out;
* `Described`: the handle of a description is the one the host knows, or will
  with the answer under way; a description without one is left by data that were
  refused;
* `Sending` and `PartSending`: half way through the data, the file open for
  writing is the one described, its position is what was sent, and the units up
  to there are this transaction's;
* `ToBelieve`: what the answer under way lets the host believe is already so;
* `Believed`: what the host believes is so, for all objects that no transaction
  under way is writing to;
* `WritingUnknown`: the object whose notifications are ignored
  (`m_writeObjectHandle`) is one the host believes nothing about, or its data are
  under way; without it `SizeAgrees` is lost at the next notification.

The lemmas on contents (`Overwritten`, `Resized`: what is written, kept, filled
with nothing) and on the storage's helpers (`OpenFile`, `CloseFile`,
`SetContent`, `WriteData`: what each keeps) stand at the beginning of the
module and are used by every step.

**Transfers and data sets** (`DataPhaseProofs`), for all sizes of packets,
writes, buffers, files, offsets and spans, any number of resizes and failing
writes and all property lists. The module's assumption `DataPhaseAssumption` says
of these only that the buffer is a whole number of packets larger than a header,
and that so is the largest write, however often it is halved: there is a set of
sizes of writes that is closed under halving, all of them multiples of a packet.
In the code they are 512 and 16384, 32 packets.

`TransfersWhole` (`TransferWhole`) follows from the invariant `DInv`, which
follows the bytes from `readData()` to the host:

* `Span`: how far the file has been read is within what was asked for and was
  there; what the storage has of the file now plays no part, as a read that comes
  too short ends the handler;
* `Kinds`: the phase and what the writer is for belong to the request;
* `BetweenWrites`: between two writes the host has the header and all that was
  read, as a transfer that has ended exactly if there is nothing more to read;
* `DuringWrite`: during a write what the host has and what the writer has left
  make up the same, and the writer's bytes are a number of whole packets unless
  they are the last; if those are whole packets too, an empty one is to follow.

That only the last packet of a transfer is short is arithmetic of remainders
(`WholePacketsMore`, `WholePacketsLess`), which needs the lengths of the first
buffer, header included, of later ones, and of every write to be multiples of a
packet. That the bytes come in order and once is the associativity of
concatenation (`Moved`, `ContentGoesOn`).

`ValuesWhole` is about the operators of `Containers`: a value of any type that is
put into a container whose offset is within its buffer is behind what was there,
as a whole, and the offset is still within the buffer. For 128 bit arrays this
needs that room is made for the count and the elements at once. `DatasetFits`
lifts it to `DataPhase`: the data set of a GetObjectPropList never outgrows its
buffer, although that is expanded in the middle of a value, and nothing in it is
garbled.

**The object tree** (`ObjectTreeProofs`), for all names and depths, every disk
to begin with and any number of changes, operations, failing copies and
restarts. `DisksAssumption` says only that a disk is a tree: finite, every entry
in a directory, one entry per path. The theorems are `MapsAgreeAlways`
(`MapsAgree`), `NoFileDeleted` (the action property `EventsDeleteNoFile`) and
`IdentityReturns` (the action property `IdentityKept`). They rest on `Inductive`:

* `DiskGood`: every entry of the disk is in a directory that is there and has an
  inode of its own, below the next one given, and notifications name what can
  be an entry. `Rename` keeps this only because it moves all there is below a
  directory and replaces nothing that has contents; `Unlink` because it takes
  contents with their directory.
* `PathsLead`, `WatchesLead`: a path or a watch in the maps leads to an item that
  has it; a watch may lead to a handle without an item once "stale" is in `lost`.
  These hold in every state, also after a displaced item.
* `OneTree`: every item is found by its path and is in the item that its path
  says. It is lost only with "displaced" and "cycle", so `Good` asks for it only
  without them. A move keeps it because it takes along exactly what is below the
  moved item: `Subtree` has the item and the children of all its members
  (`TreeClosed`, as no path is longer than `Depth`), and what is in it has a path
  below the item's.
* `BeforeKept`, while the daemon is down: what the last clean stop stored of an
  object with an ASCII path still leads from its path to its identifier, the
  kind of its inode is what it was, and its references are stored under its
  identifier alone. The user's changes keep it because an inode is never used
  for another file (`Descends`); a start needs it to find the objects again.

The operations are functions on one record, so the lemmas are about those
functions (`MakeFacts`, `UnlinkFacts`, `AddWatchesFacts`, `AddPathsFacts`,
`RemoveItemsFacts`, `ChangePathFacts`: what each keeps and changes), and each
handler is then a composition of a few of them. `NoFileDeleted` comes down to
`ForgetFacts`: what `deleteItemHelper()` unlinks while it handles an event are
files at the paths of items that have contents and are no folders any more
(`Turned`), and directories with nothing but these and such directories in them
(`OnlyDirsGo`).

The attempt to prove `IdentityKept` showed that it asked too much: an object that
was moved keeps its old identifier in `m_puoidsMap` at the path it had, and
whatever comes to that path later gets the same one, so two objects can have one
identifier after a restart. The property now leaves those out.

**Queries** (`ObjectQueriesProofs`), for any number of storages, every tree of
objects to begin with, all names and properties asked for, and any number of
queries, operations, edits, changes and failures: `CacheAlwaysTruthful`
(`CacheTruthful`), `ChangesAlwaysTold` (`ChangesTold`) and `NeverFetchesAtWork`
(the action property `NoFetchAtWork`). `StoresAssumption` and
`AtFirstAssumption` say that storages are distinct, that the first objects are
numbered through all of them, as `m_newObjectHandle` does, and that parents are
in the same storage. `Inductive` keeps `IInv`, whose parts are:

* `EntriesTrue`: an entry of the cache is what the storage would answer, or it
  is excused, or a notification under way drops it (`Drops`);
* `ChangesWait`: a change of an object asked about has a notification under way,
  or the file is still open for writing and its size will differ from the one
  known when it is closed;
* `AskedNoted`: that notification will not be filtered, since the item of an
  object asked about has its `m_eventsEnabled`. A GetThumb answered from the cache
  does not note the item, and BeginEditObject switches its events off, so
  neither counts as asking;
* `InOneStore`: a handle is in one storage, unless a failed move has left it in
  two. Without it the first storage that has the handle answers, whichever the
  entry was read from;
* `ThumbGood`: no timer runs in a thumbnailer that is suspended.

In the middle of an operation these do not hold: a rename has changed the tree
and not yet the cache, a deletion has taken items and not yet told. So the
lemmas are about `Valid(t, X, U, F)`, in which entries `X` are exempt, changes
of objects `U` need no notification yet, and `F` bounds what is with the service;
each says what a method adds to `X` and `U` or takes from them
(`NewNameValid` and `ReparentedValid` add, `FeedCacheValid`, `CacheRemoveValid`
and `EmitAllValid` take away). An operation is a composition of a few of them
that ends with no more than the object in edit (`HostKeeps`, `UserKeeps`,
`LoopKeeps`).
What a method leaves true of other objects comes down to paths: `SamePaths` and
`SameContents` say that a path depends on what is above an object only, and what
is in it not on where it is.

The proof found a fault of the model: an edit that ended after its object had
been deleted counted the object as asked about, though nothing is left to note.

### Only model-checked

* All liveness (`AllReleased`, `ExitReturns`, `AwaitEnds`, `CommandAnswered`,
  `EventsResume`, `HandlerReturns`, `TransactionEnds`, `RequestsFetched`): the
  prover does nothing under fairness.
* `TreeIsDisk`: that the tree is what is on the disk again once all
  notifications are handled. What is inductive is that every difference between
  them has a notification under way that will remove it, or a cause in `lost`; for
  an arbitrary queue this says what a sequence of events leads to, in their order.
* `DatasetReturns`: that every value is in the data set as a whole is proved
  (`ValuesWhole`); that all of them are read back is an induction over the
  elements of a list, for which the library's induction theorems cannot be used.
* The two properties that are violated, of course.

## What else the models show

Seen in the models, without a run of its own.

Transport:

* `handleDataReady()` folds all signals it skipped into one more round; a
  secondary piece can stay in the buffer although no signal is to come.
* `stopRead()` resets the indices under a running reader, against the comment on
  `resetData()` (threadio.cpp:322): the reader finds a bad offset, drops what it
  has read and exits, so that the next ENABLE has to start it; or its data, read
  before the stop, are announced after it and taken for the beginning of a
  container. A reader that waits for room is not woken, and with an empty buffer
  nothing will.
* A header with length 0 makes an empty packet without end: `processReceivedData()`
  reads the same header again (mtptransporterusb.cpp:553).
* `enableRW()` after a nested event loop enables a reader that a nested
  `stopRead()` has disabled.
* An event the writer thread holds survives `flushData()` and goes out in the
  next session. A stray wakeup of the interrupt writer is reported as a success.
* `reset()` while an event is on its way leaves `m_events_busy` at BUSY.

Responder:

* GetThumb gets no answer without a session, or when the storage fails to give a
  value or the data could not be sent. An object without thumbnail is answered
  with OK and an empty data phase.
* A piece of data that survives a stop of the bus can run as a request, or be
  answered in the name of the transaction that was cut off.
* A cancelled transaction leaves the state "cancel", which never starts the idle
  timer: events wait until another command has completed.
* A device reset or bus stop closes the responder's session, but the transport
  is not told. One handled before the command it should abort leaves the device
  busy, waiting for data nobody will send.
* `sendObjectSegmented()` goes on with further segments after its transaction
  was cancelled. A bus stop during a copy lets it answer with a parameter from
  the deleted request, as in `responder_gone`.
* After a cancelled data phase `m_containerReadLen` is not reset, and the next
  command is taken for a continuation (mtpresponder.cpp:2849).
* SendObject answers a write error inside the host's data phase
  (mtpresponder.cpp:2350), against the comment at 403.
* A response carries its transaction id modulo 65536.

Objects written:

* An object described by SendObjectInfo and another by SendObjectPropList before
  one SendObject: the data go to the object of the first (mtpresponder.cpp:2266),
  the size, the properties and the object a cancel deletes are those of the other.
* SendObject forgets what SendObjectInfo described (2296) before it sends its
  response (2351): a cancel during that send leaves the object, against the
  comment at 2352, which keeps the description by a list for this case.
* `sendObjectCheck()` answers as soon as the size described has been written; a host
  that has more data is then in the middle of its data phase. In `ObjectWriting`
  such a host sends no more of it, which is a restriction of the host; in
  `Responder` it goes on, and its packets are refused.
* A failed SendObjectPropList leaves `m_objPropListInfo` with handle 0: the next
  SendObject fails and the object described for it stays empty.
* IncompleteTransfer is meant to let the initiator send again (comment at
  mtpresponder.cpp:2697), but the sequence is deleted with it.
* A truncated file is extended again when it is closed (`resize(pos)`).
* Describing an object at a path that exists returns the existing object; a
  cancel then deletes it. A new description deletes the object of an unfinished
  one.
* An edit outlives the session. A reset or cancel leaves the data file open; a
  SendPartialObject deletes an older one, the first segment of a SendObject
  leaks it.

Object tree:

* A notified deletion of a folder that is not empty for the plugin keeps its
  children without parent on the disk's side. A folder under two items shares one
  watch, which goes with the first of them.
* `mv` to another directory under another name keeps the old name in the tree.
* An item that was a folder until a rename put a file at its path keeps its
  children and its watch. When a late deletion of it is handled, its file is
  removed with `QFile::remove()` (fsstorageplugin.cpp:1281, reached by 1303),
  although the user has it there. When it is removed its watch stays (1321,
  3117) and leads to a handle without an item; the next event of that watch puts
  a null item for that handle into `m_objectHandlesMap` (`operator[]`, 2887 and
  2910). What the initiator can do with that is not modelled.
* Operations of the host while notifications wait can work on items that stand
  for something else by now.
* Children of a moved or renamed folder get new puoids after a restart, against
  fsstorageplugin.h:135.
* An object that was moved leaves its identifier in `m_puoidsMap` at its old path:
  what comes to that path after it gets the same persistent identifier.
* The last moved-from event without a second stays cached until another event
  comes.
* A folder created and renamed before the notification is handled becomes a file
  item or stays without watch. The early returns of a copy leave its destination
  without watch. A copy of a folder into its own subtree does not end (and is
  left out).
* Deleting everything always answers PartialDeletion. A folder whose `rmdir`
  fails, and a rename that fails, are answered with OK.
* `removeInvalidObjectReferences()` is never reached: for an object that is gone
  `StorageFactory` finds no storage to ask (storagefactory.cpp:376).
* `storePuoids()` writes as many bytes of a path in UTF-8 as it has characters
  (623): a path that is not ASCII is cut. It loses its identifier, or gives it
  to the object whose path is what is left.

Queries:

* A move to another storage invalidates only the parent's property: StorageID,
  and everything of the children, stay cached. A copy between storages that
  fails midway leaves objects in both.
* Deleting a folder leaves its children's cached values: GetThumb still answers
  for them.
* A property that the storage ignored or failed to set is answered with OK and
  cached. Truncating or sending parts leaves the cached size until EndEditObject.
* An edit that is never ended leaves events disabled for its object. A GetThumb
  answered from the cache does not enable them.
* A cached empty thumbnail and a rename while the file is fetched: the thumbnail
  never comes. Failed thumbnails are not asked for again.
* With two storages or more GetObjectHandles of all storages for one folder
  fails (storagefactory.cpp:306).
* Changes by the user within one second of the last known date are not seen.

Data phases:

* An object of more than 2^32 - 13 bytes is cut silently and answered with OK.
  The parameter of the response is 0xFFFFFFFF for lengths from 2^32 - 12 on, and
  GetPartialObject64 has none at all.
* The writer reports success although the empty packet that ends a transfer
  failed. `sendContainer()` does not look at what `sendData()` returned.
* `tail < offs` in `readData()` is never true after the check of the offset.
* A string is cut after 254 units, in the middle of a surrogate pair if it must.
* Received data beyond the announced length are dropped in whole pieces.

## Not modelled, and why

* Suspend and resume of the responder: nothing calls them.
  `RESPONDER_WAIT_STORAGE`: the transport delivers nothing before the storage
  is ready (`onStorageReady` is in `UsbReceiver`).
* Setup packets and stalls of the control endpoint beyond the signals they
  become: parsing of single requests.
* `INTERRUPT_WRITE_FAILURE`: no code emits it.
* Excluded paths, symbolic links and playlists of the plugin; the event loops
  that `addToStorage()` runs while it enumerates a directory
  (fsstorageplugin.cpp:1055) and `copyData()` between the pieces of a file
  (storageplugin.cpp:66): notifications nested in them are modelled as coming after
  them, and a copy (`HostCopies`) is one step.
* The three stores of `resetData()`, which takes no lock, falling into the
  instructions of the reader under `m_bufferLock`; signals to a thread that are lost
  because it is not yet blocked (what `exitThread()` repeats its interrupt for).
* Events, cancels and resets are not nested in an operation of `ObjectTree` or
  `ObjectQueries`.
* The content of the object-info, device-info, storage-info and
  property-description data sets: straight serialisation over `Containers`.
* Handles that wrap around at 2^32 (storagefactory.cpp:675), which needs more
  steps than an instance can take, and the storage's readiness and events for
  added and removed storages.
* Property tables, extensions, device information, plugin loading and the
  daemon: static data or pure I/O.
* The dummy transport: a test double.

## Plan

Written: `ByteQueue`, `BulkReader`, `BulkReaderProofs`, `UsbReceiver`,
`UsbReceiverProofs`, `EventSender`, `EventSenderProofs`, `Responder`,
`ResponderProofs`, `ObjectWriting`, `ObjectWritingProofs`, `ObjectTree`,
`ObjectTreeProofs`, `Thumbnailer`, `ObjectQueries`, `ObjectQueriesProofs`,
`Containers`, `DataPhase`, `DataPhaseProofs`.

To come, in order of importance:

1. `TreeIsDisk` for queues of any length.
2. `Responder` composed with `EventSender` through `commandPending` and
   `commandIdle`.
3. Handles with a small width that wrap around; storage readiness.
