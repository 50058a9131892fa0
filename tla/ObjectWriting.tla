----------------------------- MODULE ObjectWriting -----------------------------
(***************************************************************************)
(* The operations of MTPResponder that write objects, over several         *)
(* transactions each, with the write side of FSStoragePlugin under them.   *)
(*                                                                         *)
(*   SendObjectInfo or SendObjectPropList, then SendObject                 *)
(*   BeginEditObject, SendPartialObject64, TruncateObject64, EndEditObject *)
(*                                                                         *)
(* What one transaction leaves for the next is in m_sendObjectSequencePtr, *)
(* m_objPropListInfo and m_editObjectSequencePtr on the responder's side   *)
(* and in m_dataFile and m_writeObjectHandle on the storage's side.        *)
(* Sending a response runs an event loop: a cancel or a device reset may   *)
(* be handled before the handler returns.                                  *)
(*                                                                         *)
(* The content of a file is a sequence that says which transaction wrote   *)
(* each unit, 0 where fallocate() or a hole left it.  Handle 0 is the root *)
(* of the storage, which cannot be opened for writing.                     *)
(***************************************************************************)
EXTENDS Integers, Sequences

CONSTANTS
    Names,        \* names of files
    Sizes,        \* sizes the host announces, sends, or truncates to
    TxnBound,     \* bound: transactions of the host
    SignalBound,  \* bound: cancels and device resets
    FailBound     \* bound: write() that fails

ASSUME WritingAssumption ==
    /\ Sizes \subseteq Nat
    /\ TxnBound \in Nat /\ SignalBound \in Nat /\ FailBound \in Nat

VARIABLES
    session,   \* mtpSessionId is not MTP_INITIAL_SESSION_ID
    req,       \* reqContainer, with the response code of its command phase
    answer,    \* the response being sent, while its event loop runs
    sequence,  \* m_sendObjectSequencePtr
    propList,  \* m_objPropListInfo
    edit,      \* m_editObjectSequencePtr
    store,     \* the objects and the file being written, see Storage
    host,      \* the transaction the host is in, and what is left of its data
    object,    \* the object the host described last, as the response told it
    expected,  \* object -> the content it has for all the host knows
    mixed,     \* history: objects that were described in both ways at a time
    txns,
    signals,
    fails

vars == <<session, req, answer, sequence, propList, edit, store, host, object,
          expected, mixed, txns, signals, fails>>
responder == <<session, req, answer, sequence, propList, edit>>
budget == <<txns, signals, fails>>

None == [none |-> TRUE]
Root == 0
Handles == 1 .. TxnBound
Longer(a, b) == IF a > b THEN a ELSE b

-----------------------------------------------------------------------------
(* FSStoragePlugin: functions from storage to storage.                     *)

\* files: handle -> name, cached size, content, and whose properties it has;
\* data: m_dataFile; writing: m_writeObjectHandle; closed: files whose
\* IN_CLOSE_WRITE event is not handled yet.
EmptyStorage == [files |-> <<>>, data |-> None, writing |-> Root, closed |-> {}, last |-> Root]

Resized(content, len) == [i \in 1 .. len |-> IF i <= Len(content) THEN content[i] ELSE 0]

\* write(): len units at offset, by transaction txn
Overwritten(content, offset, len, txn) ==
    [i \in 1 .. Longer(Len(content), IF len = 0 THEN 0 ELSE offset + len) |->
        IF offset < i /\ i <= offset + len THEN txn
        ELSE IF i <= Len(content) THEN content[i] ELSE 0]

Named(s, name) == {h \in DOMAIN s.files : s.files[h].name = name}

\* addItem(): a path that is known keeps its item, whatever was announced for it.
AddItem(s, name, size) ==
    IF Named(s, name) # {}
    THEN [store |-> s, handle |-> CHOOSE h \in Named(s, name) : TRUE]
    ELSE LET h == s.last + 1
             file == [name |-> name, size |-> size, content |-> Resized(<<>>, size), props |-> 0]
         IN  [store |-> [s EXCEPT !.files = [k \in DOMAIN @ \cup {h} |-> IF k = h THEN file ELSE @[k]],
                                  !.closed = @ \cup {h}, !.last = h],
              handle |-> h]

DeleteItem(s, h) ==
    [s EXCEPT !.files = [k \in DOMAIN @ \ {h} |-> @[k]], !.closed = @ \ {h}]

SetContent(s, h, content) ==
    IF h \in DOMAIN s.files THEN [s EXCEPT !.files[h].content = content] ELSE s

\* A write to m_dataFile, which may be open on another object, or on one deleted since.
WriteFile(s, len, txn) ==
    IF s.data = None THEN s
    ELSE LET d == s.data
             t == [s EXCEPT !.data.pos = d.pos + len]
         IN  IF d.handle \in DOMAIN s.files
             THEN SetContent(t, d.handle, Overwritten(s.files[d.handle].content, d.pos, len, txn))
             ELSE t

OpenFile(s, h, pos) == [s EXCEPT !.data = [handle |-> h, pos |-> pos], !.writing = h]

\* writeData() of a segment: FALSE if the object cannot be opened
CanWrite(s, h) == h \in DOMAIN s.files
WriteData(s, h, len, first, txn) ==
    WriteFile(IF first THEN OpenFile(s, h, 0) ELSE [s EXCEPT !.writing = h], len, txn)

\* Opening the root fails, and what m_dataFile was is forgotten.
OpenFails(s, h) == IF h = Root THEN [s EXCEPT !.data = None, !.writing = Root] ELSE s

\* writeData() without data: the file ends where the writing ended
CloseFile(s, h) ==
    LET t == [s EXCEPT !.writing = Root, !.data = None]
        open == s.data.handle
    IN  IF h \notin DOMAIN s.files \cup {Root} THEN s
        ELSE IF s.data = None \/ open \notin DOMAIN s.files THEN t
        ELSE [SetContent(t, open, Resized(s.files[open].content, s.data.pos)) EXCEPT !.closed = @ \cup {open}]

TruncateItem(s, h, size) ==
    [s EXCEPT !.files[h].content = Resized(@, size), !.files[h].size = size]

\* mutant: the size is left to the file system's event, which is not expected
ClosePartialKeepsSize(s, h) == [s EXCEPT !.writing = Root, !.data = None]

\* writePartialData(): seek and write; the last segment, or a failure, closes
\* the file, and then the size is read back from it.
ClosePartial(s, h) ==
    IF s.data = None THEN [s EXCEPT !.writing = Root]
    ELSE [s EXCEPT !.writing = Root, !.data = None, !.files[h].size = Len(s.files[h].content),
                   !.closed = @ \cup {h}]

\* mutant: no seek before the first segment
OpenPartialNoSeek(s, h, offset) == OpenFile(s, h, 0)

\* A file left open by an interrupted transfer is closed first.
OpenPartial(s, h, offset) ==
    LET left == IF s.data = None THEN {} ELSE {s.data.handle} \cap DOMAIN s.files
    IN  [OpenFile(s, h, offset) EXCEPT !.closed = @ \cup left]

WritePartialData(s, h, offset, len, first, last, txn) ==
    LET opened == IF first THEN OpenPartial(s, h, offset)
                  ELSE IF s.data = None THEN s ELSE [s EXCEPT !.data.pos = offset]
        written == WriteFile(opened, len, txn)
    IN  IF last THEN ClosePartial(written, h) ELSE written

-----------------------------------------------------------------------------
(* Commands. *)

NoTxn == [op |-> "none", txn |-> 0, left |-> 0, first |-> FALSE, size |-> 0, offset |-> 0,
          handle |-> Root, name |-> CHOOSE n \in Names : TRUE, good |-> TRUE]

Init ==
    /\ session = FALSE
    /\ req = None /\ answer = None
    /\ sequence = None /\ propList = None /\ edit = None
    /\ store = EmptyStorage
    /\ host = NoTxn
    /\ object = None
    /\ expected = <<>>
    /\ mixed = {}
    /\ txns = 0 /\ signals = 0 /\ fails = 0

\* The host begins transaction t; the responder takes its request.
Command(t, code) ==
    /\ host = NoTxn /\ answer = None
    /\ txns < TxnBound
    /\ txns' = txns + 1
    /\ host' = [t EXCEPT !.txn = txns + 1]
    /\ req' = [op |-> t.op, txn |-> txns + 1, code |-> code]
    /\ UNCHANGED <<object, expected, signals, fails>>

Answer(r, code, handle) == answer' = [op |-> r.op, txn |-> r.txn, code |-> code, handle |-> handle]

\* An operation without a data phase is answered at once.
Immediate(t, code) ==
    /\ Command(t, code)
    /\ Answer([op |-> t.op, txn |-> txns + 1], code, Root)

\* MTPResponder::preCheck()
PreCheck(code) == IF session THEN code ELSE "notOpen"

OpenSession ==
    /\ Immediate([NoTxn EXCEPT !.op = "open"], IF session THEN "alreadyOpen" ELSE "ok")
    /\ session' = TRUE
    /\ UNCHANGED <<sequence, propList, edit, store, mixed>>

\* mutant: m_sendObjectSequencePtr survives the session
ForgetDescriptionsOfLists ==
    /\ session' = FALSE
    /\ propList' = None
    /\ UNCHANGED <<sequence, edit>>

\* What describes an object to come does not outlive the session; editing does.
ForgetDescriptions ==
    /\ session' = FALSE
    /\ sequence' = None /\ propList' = None
    /\ UNCHANGED edit

CloseSession ==
    /\ Immediate([NoTxn EXCEPT !.op = "close"], PreCheck("ok"))
    /\ IF session THEN ForgetDescriptions ELSE UNCHANGED <<session, sequence, propList, edit>>
    /\ UNCHANGED <<store, mixed>>

\* sendObjectInfoReq()
SendObjectInfo(name, size, good) ==
    /\ Command([NoTxn EXCEPT !.op = "info", !.name = name, !.size = size, !.good = good], PreCheck("ok"))
    /\ UNCHANGED <<session, answer, sequence, propList, edit, store, mixed>>

\* The object of a description, once its item exists
Pending(description) == IF description = None THEN {} ELSE {description.handle} \ {Root}

\* sendObjectPropListReq(): only a request that is in order replaces the old description
\* by a list; a description by SendObjectInfo stays beside it.
SendObjectPropList(name, size, good, parentOk) ==
    LET code == PreCheck(IF parentOk THEN "ok" ELSE "badHandle") IN
    /\ Command([NoTxn EXCEPT !.op = "propList", !.name = name, !.size = size, !.good = good], code)
    /\ propList' = IF code = "ok" THEN [handle |-> Root, size |-> size, count |-> 0, txn |-> txns + 1]
                   ELSE propList
    /\ mixed' = IF code = "ok" THEN mixed \cup Pending(sequence) ELSE mixed
    /\ UNCHANGED <<session, answer, sequence, edit, store>>

\* sendObjectReq()
SendObject(size) ==
    /\ Command([NoTxn EXCEPT !.op = "object", !.size = size, !.left = size, !.first = TRUE],
               PreCheck(IF sequence = None /\ propList = None THEN "noInfo" ELSE "ok"))
    /\ UNCHANGED <<session, answer, sequence, propList, edit, store, mixed>>

EditCheck(h) == IF edit = None THEN "general" ELSE IF edit.handle # h THEN "badHandle" ELSE "ok"

\* beginEditObjectReq()
BeginEditObject(h) ==
    LET code == PreCheck(IF h \in DOMAIN store.files THEN "ok" ELSE "badHandle") IN
    /\ Immediate([NoTxn EXCEPT !.op = "begin", !.handle = h], code)
    /\ edit' = IF code = "ok" THEN [handle |-> h, offset |-> 0] ELSE edit
    /\ UNCHANGED <<session, sequence, propList, store, mixed>>

\* endEditObjectReq()
EndEditObject(h) ==
    LET code == PreCheck(EditCheck(h)) IN
    /\ Immediate([NoTxn EXCEPT !.op = "end", !.handle = h], code)
    /\ edit' = IF code = "ok" THEN None ELSE edit
    /\ UNCHANGED <<session, sequence, propList, store, mixed>>

\* truncateObject64Req()
TruncateObject(h, size) ==
    LET checked == PreCheck(EditCheck(h))
        code == IF checked = "ok" /\ h \notin DOMAIN store.files THEN "badHandle" ELSE checked
    IN
    /\ Immediate([NoTxn EXCEPT !.op = "truncate", !.handle = h, !.size = size], code)
    /\ store' = IF code = "ok" THEN TruncateItem(store, h, size) ELSE store
    /\ UNCHANGED <<session, sequence, propList, edit, mixed>>

\* sendPartialObject64Req()
SendPartialObject(h, offset, size) ==
    LET code == PreCheck(EditCheck(h)) IN
    /\ Command([NoTxn EXCEPT !.op = "partial", !.handle = h, !.offset = offset, !.size = size,
                            !.left = size, !.first = TRUE], code)
    /\ edit' = IF code = "ok" THEN [edit EXCEPT !.offset = offset] ELSE edit
    /\ UNCHANGED <<session, answer, sequence, propList, store, mixed>>

-----------------------------------------------------------------------------
(* Data phases. *)

Waiting(op) == req # None /\ answer = None /\ req.op = op /\ host.txn = req.txn

\* dataHandler(): after an error in the command phase the data is ignored.
Ignored ==
    /\ Answer(req, req.code, Root)
    /\ UNCHANGED <<session, req, sequence, propList, edit, store>>

SendObjectInfoData ==
    LET added == AddItem(store, host.name, host.size) IN
    /\ Waiting("info")
    /\ IF req.code # "ok" THEN Ignored
       ELSE /\ propList' = None
            /\ IF host.good
               THEN /\ store' = added.store
                    /\ sequence' = [handle |-> added.handle, size |-> host.size, count |-> 0]
                    /\ Answer(req, "ok", added.handle)
               ELSE /\ sequence' = None
                    /\ Answer(req, "invalid", Root)
                    /\ UNCHANGED store
            /\ UNCHANGED <<session, req, edit>>
    /\ UNCHANGED <<host, object, expected, mixed>> /\ UNCHANGED budget

\* A data set that is refused leaves m_objPropListInfo behind, without an object.
SendObjectPropListData ==
    LET added == AddItem(store, host.name, host.size) IN
    /\ Waiting("propList")
    /\ IF req.code # "ok" \/ propList = None THEN Ignored /\ UNCHANGED mixed
       ELSE /\ IF host.good
               THEN /\ store' = added.store
                    /\ propList' = [propList EXCEPT !.handle = added.handle]
                    /\ mixed' = IF sequence = None THEN mixed ELSE mixed \cup {added.handle}
                    /\ Answer(req, "ok", added.handle)
               ELSE /\ Answer(req, "invalid", Root)
                    /\ UNCHANGED <<store, propList, mixed>>
            /\ UNCHANGED <<session, req, sequence, edit>>
    /\ UNCHANGED <<host, object, expected>> /\ UNCHANGED budget

\* One packet of data: any part of what is left, at least something unless there is nothing.
Packet(len) ==
    /\ len \in (IF host.left = 0 THEN {0} ELSE 1 .. host.left)
    /\ host' = [host EXCEPT !.left = @ - len, !.first = FALSE]

Fails == fails < FailBound /\ fails' = fails + 1

\* sendObjectCheck(): whether the object is complete; a data phase that ends before
\* is discarded.
Counted(len) ==
    /\ propList' = IF propList = None THEN None ELSE [propList EXCEPT !.count = @ + len]
    /\ sequence' = IF propList # None \/ sequence = None THEN sequence
                   ELSE [sequence EXCEPT !.count = @ + len]

\* mutant: the end of the data phase is not noticed
SendObjectCheckSizeOnly(len, last) ==
    LET d == IF propList # None THEN propList ELSE sequence IN
    IF d.size <= d.count + len THEN "ok" ELSE "undefined"

SendObjectCheck(len, last) ==
    LET d == IF propList # None THEN propList ELSE sequence IN
    IF d.size <= d.count + len THEN "ok" ELSE IF last THEN "incomplete" ELSE "undefined"

\* setObjectPropertyValue() with what SendObjectPropList described
ApplyProperties(s, h) ==
    IF propList # None /\ h \in DOMAIN s.files THEN [s EXCEPT !.files[h].props = propList.txn] ELSE s

\* The end of sendObjectData(): the description by SendObjectInfo ends before the
\* response, that by SendObjectPropList after it.
ObjectDone(s, h, code) ==
    /\ store' = CloseFile(IF code = "ok" THEN ApplyProperties(s, h)
                          ELSE IF code = "incomplete" THEN TruncateItem(s, h, 0) ELSE s, h)
    /\ sequence' = None
    /\ Answer(req, code, h)

SendObjectData(len) ==
    LET h == IF sequence # None THEN sequence.handle ELSE propList.handle
        last == host.left = len
        written == WriteData(store, h, len, host.first, req.txn)
        code == SendObjectCheck(len, last)
    IN
    /\ Waiting("object") /\ req.code = "ok"
    /\ Packet(len)
    /\ \/ /\ ~CanWrite(store, h)
          /\ ObjectDone(OpenFails(store, h), h, "general")
          /\ UNCHANGED <<propList, fails>>
       \/ /\ CanWrite(store, h) /\ Fails
          /\ ObjectDone(WriteData(store, h, 0, host.first, req.txn), h, "general")
          /\ UNCHANGED propList
       \/ /\ CanWrite(store, h)
          /\ IF code = "undefined"
             THEN Counted(len) /\ store' = written /\ UNCHANGED answer
             ELSE ObjectDone(written, h, code) /\ UNCHANGED propList
          /\ UNCHANGED fails
    /\ UNCHANGED <<session, req, edit, object, expected, mixed, txns, signals>>

\* sendPartialObject64Data()
SendPartialObjectData(len) ==
    LET h == edit.handle
        last == host.left = len
    IN
    /\ Waiting("partial") /\ req.code = "ok"
    /\ Packet(len)
    /\ \/ /\ h \notin DOMAIN store.files
          /\ req' = [req EXCEPT !.code = "badHandle"]
          /\ UNCHANGED <<store, fails>>
       \/ /\ h \in DOMAIN store.files /\ Fails
          /\ req' = [req EXCEPT !.code = "general"]
          /\ store' = WritePartialData(store, h, edit.offset, 0, host.first, TRUE, req.txn)
       \/ /\ h \in DOMAIN store.files
          /\ store' = WritePartialData(store, h, edit.offset, len, host.first, last, req.txn)
          /\ UNCHANGED <<req, fails>>
    /\ edit' = [edit EXCEPT !.offset = @ + len]
    /\ IF last THEN Answer(req, req'.code, h) ELSE UNCHANGED answer
    /\ UNCHANGED <<session, sequence, propList, object, expected, mixed, txns, signals>>

\* dataHandler(): packets of an operation that has failed already
IgnoreData(len) ==
    /\ Waiting("object") \/ Waiting("partial")
    /\ req.code # "ok"
    /\ Packet(len)
    /\ IF host.left = len THEN Answer(req, req.code, Root) ELSE UNCHANGED answer
    /\ UNCHANGED <<session, req, sequence, propList, edit, store, object, expected, mixed>>
    /\ UNCHANGED budget

-----------------------------------------------------------------------------
(* The end of a transaction. *)

\* The object whose content the host's transaction changes
Touched ==
    CASE host.op = "object" -> IF object = None THEN {} ELSE {object.handle}
      [] host.op \in {"partial", "truncate"} -> {host.handle}
      [] OTHER -> {}

Unknown == expected' = [k \in DOMAIN expected \ Touched |-> expected[k]]
Known(h, content) ==
    expected' = [k \in DOMAIN expected \cup {h} |-> IF k = h THEN content ELSE expected[k]]

\* What the host concludes from a response.  A host that gets one before it has sent
\* all its data sends no more of it (a restriction of the host).
Concluded(a) ==
    IF a.code # "ok" \/ host.left > 0
    THEN Unknown /\ object' = IF a.code = "invalid" THEN None ELSE object
    ELSE CASE a.op \in {"info", "propList"} ->
                object' = [handle |-> a.handle, size |-> host.size] /\ UNCHANGED expected
           [] a.op = "object" ->
                /\ IF object # None /\ object.size = host.size
                   THEN Known(object.handle, [i \in 1 .. host.size |-> a.txn]) ELSE Unknown
                /\ object' = None
           [] a.op = "partial" ->
                /\ IF host.handle \in DOMAIN expected
                   THEN Known(host.handle, Overwritten(expected[host.handle], host.offset, host.size, a.txn))
                   ELSE Unknown
                /\ UNCHANGED object
           [] a.op = "truncate" ->
                /\ IF host.handle \in DOMAIN expected
                   THEN Known(host.handle, Resized(expected[host.handle], host.size)) ELSE Unknown
                /\ UNCHANGED object
           [] a.op \in {"open", "close"} -> object' = None /\ UNCHANGED expected
           [] OTHER -> UNCHANGED <<object, expected>>

\* The response is on the bus, and the handler goes on.
ResponseSent ==
    /\ answer # None
    /\ answer' = None
    /\ req' = None
    /\ propList' = IF answer.op = "object" THEN None ELSE propList
    /\ IF host.txn = answer.txn
       THEN host' = NoTxn /\ Concluded(answer)
       ELSE UNCHANGED <<host, object, expected>>
    /\ UNCHANGED <<session, sequence, edit, store, mixed>> /\ UNCHANGED budget

\* The host cancels or resets the device while it is in a transaction.
HostGivesUp ==
    /\ host # NoTxn /\ signals < SignalBound
    /\ signals' = signals + 1
    /\ host' = NoTxn
    /\ Unknown
    /\ UNCHANGED <<mixed, txns, fails>>

\* mutant: only the description by SendObjectInfo is cleaned up
CancelOfInfoOnly ==
    /\ req # None
    /\ HostGivesUp
    /\ IF req.op \in {"info", "object"}
       THEN /\ store' = IF sequence = None THEN store ELSE DeleteItem(store, sequence.handle)
            /\ sequence' = None /\ object' = None
            /\ UNCHANGED propList
       ELSE UNCHANGED <<store, propList, sequence, object>>
    /\ req' = None
    /\ UNCHANGED <<session, answer, edit>>

\* handleCancelTransaction()
CancelTransaction ==
    LET h == IF propList # None THEN propList.handle
             ELSE IF sequence # None THEN sequence.handle ELSE Root
    IN
    /\ req # None
    /\ HostGivesUp
    /\ IF req.op \in {"info", "propList", "object"}
       THEN /\ store' = IF h = Root THEN store ELSE DeleteItem(store, h)
            /\ propList' = None
            /\ sequence' = IF propList # None THEN sequence ELSE None
            /\ object' = None
       ELSE UNCHANGED <<store, propList, sequence, object>>
    /\ req' = None
    /\ UNCHANGED <<session, answer, edit>>

\* handleDeviceReset()
DeviceReset ==
    /\ HostGivesUp
    /\ ForgetDescriptions
    /\ req' = None /\ object' = None
    /\ UNCHANGED <<answer, store>>

\* handleFSModify(): the size is read again, unless the object is being written.
FSModify(h) ==
    /\ h \in store.closed
    /\ store' = IF h = store.writing THEN [store EXCEPT !.closed = @ \ {h}]
                ELSE [store EXCEPT !.closed = @ \ {h}, !.files[h].size = Len(store.files[h].content)]
    /\ UNCHANGED responder /\ UNCHANGED <<host, object, expected, mixed>> /\ UNCHANGED budget

-----------------------------------------------------------------------------
Commands ==
    \/ OpenSession \/ CloseSession
    \/ \E n \in Names, s \in Sizes, good \in BOOLEAN :
          SendObjectInfo(n, s, good) \/ \E p \in BOOLEAN : SendObjectPropList(n, s, good, p)
    \/ \E s \in Sizes : SendObject(s)
    \/ \E h \in DOMAIN store.files :
          \/ BeginEditObject(h) \/ EndEditObject(h)
          \/ \E s \in Sizes : TruncateObject(h, s) \/ \E o \in Sizes : SendPartialObject(h, o, s)

DataPhase ==
    \/ SendObjectInfoData \/ SendObjectPropListData
    \/ \E len \in 0 .. host.left : SendObjectData(len) \/ SendPartialObjectData(len) \/ IgnoreData(len)

Next ==
    \/ Commands \/ DataPhase \/ ResponseSent
    \/ CancelTransaction \/ DeviceReset
    \/ \E h \in store.closed : FSModify(h)

\* The host finishes a data phase it has begun and reads the response.
Spec == Init /\ [][Next]_vars /\ WF_vars(DataPhase) /\ WF_vars(ResponseSent)

-----------------------------------------------------------------------------
(* Properties. *)

File == [name : Names, size : Nat, content : Seq(0 .. TxnBound), props : 0 .. TxnBound]
Description == [handle : 0 .. TxnBound, size : Sizes, count : Nat]

TypeOK ==
    /\ session \in BOOLEAN /\ mixed \subseteq Handles
    /\ sequence = None \/ sequence \in Description
    /\ propList = None \/ propList \in [handle : 0 .. TxnBound, size : Sizes, count : Nat, txn : 1 .. TxnBound]
    /\ edit = None \/ edit \in [handle : Handles, offset : Nat]
    /\ DOMAIN store.files \subseteq 1 .. store.last /\ store.last \in 0 .. TxnBound
    /\ \A h \in DOMAIN store.files : store.files[h] \in File
    /\ store.closed \subseteq DOMAIN store.files
    /\ host.left \in 0 .. host.size

\* SendObjectInfo described the object whose data comes next, and SendObjectPropList
\* came after it: the handle is then that of the one, the size, the properties and
\* the object a cancel deletes are those of the other.
Confused == sequence # None /\ sequence.handle \in mixed

\* The data of a SendObject goes to the object that was described last in this
\* session, whatever was described, cancelled, refused or left over before; only
\* after a description by a list that came on top of one by SendObjectInfo does it
\* go to the object of the older one.
DataWhereDescribed ==
    (host.op = "object" /\ req # None /\ answer = None /\ ~host.first /\ req.code = "ok") =>
        LET h == IF Confused THEN sequence.handle ELSE object.handle IN
        /\ store.data # None /\ (object # None \/ Confused)
        /\ store.data.handle = h /\ store.writing = h

\* An object the host was told was written has the content the host sent, unit
\* by unit, until it writes to it again: nothing left open or half described
\* by another operation writes to it, truncates it or extends it.  Objects that
\* were mixed up with another are excepted.
ContentAsSent ==
    \A h \in (DOMAIN expected \cap DOMAIN store.files) \ (Touched \cup mixed) :
        store.files[h].content = expected[h]

\* The size the host is told of an object it has written is the size of the
\* file, once the file system's notifications have been handled (with the exception
\* of ContentAsSent).
SizeAgrees ==
    \A h \in (DOMAIN expected \cap DOMAIN store.files) \ (store.closed \cup Touched \cup mixed) :
        store.files[h].size = Len(store.files[h].content)

\* What a cancelled transaction was about: the object that is being described, once
\* its item exists, or the object whose data is being sent; while the response to the
\* data is sent, only if a list described the object: sendObjectData() forgets what
\* SendObjectInfo described before it sends that response.
Abandoned ==
    CASE req.op \in {"info", "propList"} /\ answer # None /\ answer.code = "ok" -> {answer.handle}
      [] req.op = "object" /\ req.code = "ok" /\ object # None
            /\ (answer = None \/ propList # None) -> {object.handle}
      [] OTHER -> {}

\* A cancel while an object is described or sent leaves neither the object nor a
\* description that could revive it.  Of an object described by a list this is so
\* until the response to its data is sent ("in case a cancel tx is received before
\* sending the response above we would need the handle to delete the object"); one
\* described by SendObjectInfo stays when the cancel comes during that response, and
\* objects mixed up with another are excepted.
CancelLeavesNothing ==
    [][CancelTransaction =>
         \A h \in Abandoned \ mixed :
            /\ h \notin DOMAIN store'.files
            /\ sequence' = None \/ sequence'.handle # h
            /\ propList' = None \/ propList'.handle # h]_vars

\* Every transaction the host sends all of is answered.
TransactionEnds == host # NoTxn ~> host = NoTxn
=============================================================================
