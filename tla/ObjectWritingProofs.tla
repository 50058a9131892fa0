-------------------------- MODULE ObjectWritingProofs --------------------------
(***************************************************************************)
(* Proofs about ObjectWriting, for all names and sizes of objects and any  *)
(* number of transactions, signals and failures.                           *)
(*                                                                         *)
(* The properties compare what two sides hold: a description and what the  *)
(* host was told of it, a file and what the host sent.  Most transactions  *)
(* change one of them first and the other with the response, so the        *)
(* inductive invariant says what holds in between: Described for handles,  *)
(* Sending and PartSending for data on its way, ToBelieve for what a       *)
(* response will make the host believe.                                    *)
(***************************************************************************)
EXTENDS ObjectWriting, SequenceTheorems, TLAPS

-----------------------------------------------------------------------------
(* Types. *)

Ops == {"open", "close", "info", "propList", "object", "begin", "end", "truncate", "partial"}
\* Response codes of command phases, and of transactions
Codes == {"ok", "notOpen", "alreadyOpen", "noInfo", "general", "badHandle"}
EndCodes == Codes \cup {"invalid", "incomplete"}

Requests == [op : Ops, txn : 1 .. TxnBound, code : Codes]
Answers == [op : Ops, txn : 1 .. TxnBound, code : EndCodes, handle : 0 .. TxnBound]
Transactions == [op : Ops \cup {"none"}, txn : 0 .. TxnBound, left : Nat, first : BOOLEAN, size : Nat,
                 offset : Nat, handle : 0 .. TxnBound, name : Names \cup {NoTxn.name}, good : BOOLEAN]
PropLists == [handle : 0 .. TxnBound, size : Sizes, count : Nat, txn : 1 .. TxnBound]
Edits == [handle : Handles, offset : Nat]
Objects == [handle : Handles, size : Nat]

Contents == Seq(0 .. TxnBound)
OpenFiles == [handle : Handles, pos : Nat]
OpenAt(h, pos) == [handle |-> h, pos |-> pos]

\* A storage as the plugin leaves it between its operations
IsStorage(s) ==
    /\ s \in [files : {s.files}, data : OpenFiles \cup {None}, writing : 0 .. TxnBound,
              closed : SUBSET Handles, last : 0 .. TxnBound]
    /\ s.files \in [DOMAIN s.files -> File]
    /\ DOMAIN s.files \subseteq 1 .. s.last
    /\ s.closed \subseteq DOMAIN s.files

Types ==
    /\ session \in BOOLEAN /\ mixed \in SUBSET (1 .. store.last)
    /\ req \in Requests \cup {None} /\ answer \in Answers \cup {None}
    /\ sequence \in Description \cup {None} /\ propList \in PropLists \cup {None}
    /\ edit \in Edits \cup {None}
    /\ IsStorage(store)
    /\ host \in Transactions /\ host.left <= host.size
    /\ host.op \notin {"object", "partial"} => host.left = 0
    /\ host.op \in {"info", "propList"} => host.name \in Names /\ host.size \in Sizes
    /\ object \in Objects \cup {None} /\ (object # None => object.handle <= store.last)
    /\ expected \in [DOMAIN expected -> Contents] /\ DOMAIN expected \subseteq 1 .. store.last
    /\ txns \in 0 .. TxnBound /\ signals \in 0 .. SignalBound /\ fails \in 0 .. FailBound

-----------------------------------------------------------------------------
(* The transaction the host is in, and what the responder knows of it. *)

\* The response to the host's transaction is composed, and says OK.
Concluding == req # None /\ answer # None /\ answer.code = "ok"
\* A data phase is under way, and nothing has failed.
Receiving(op) == req # None /\ answer = None /\ req.op = op /\ req.code = "ok"

Transaction ==
    /\ req = None <=> host = NoTxn
    /\ req # None => host.op = req.op /\ host.txn = req.txn
    /\ req # None /\ answer # None => answer.op = req.op /\ answer.txn = req.txn
    /\ Concluding => req.code = "ok"
    /\ host.first => host.left = host.size
    /\ store.last <= txns
    /\ Receiving("info") \/ Receiving("propList") => store.last < txns

\* A description is of an open session.  Two of them at a time are of objects that
\* are known to be mixed up, and so is the object the host knows then.
MixedUp ==
    /\ sequence # None => session
    /\ propList # None => session
    /\ req # None /\ req.op \in {"info", "propList"} /\ req.code = "ok" => session
    /\ sequence # None /\ propList # None =>
          sequence.handle \in mixed /\ (propList.handle # Root => propList.handle \in mixed)
    /\ Confused /\ object # None => object.handle \in mixed \/ (Concluding /\ req.op = "info")

\* The handle of a description is the one the host knows, or will with the
\* response that is under way.  A description without a handle is left by data
\* that was refused, which the host knows too.
Described ==
    /\ sequence # None =>
          /\ sequence.handle \in 1 .. store.last
          /\ \/ object # None /\ object.handle = sequence.handle
             \/ Concluding /\ req.op = "info"
             \/ sequence.handle \in mixed
    /\ propList # None /\ propList.handle # Root =>
          /\ propList.handle \in 1 .. store.last
          /\ \/ object # None /\ object.handle = propList.handle
             \/ Concluding /\ req.op = "propList"
    /\ propList # None /\ propList.handle = Root =>
          \/ object = None
          \/ Receiving("propList")
          \/ req # None /\ req.op = "propList" /\ answer # None /\ answer.code = "invalid"
    /\ Receiving("propList") => propList # None /\ propList.handle = Root
    /\ req # None /\ answer # None /\ answer.code = "invalid" =>
          (sequence # None => sequence.handle \in mixed) /\ (propList # None => propList.handle = Root)
    /\ Concluding /\ req.op = "info" => sequence # None /\ sequence.handle = answer.handle /\ propList = None
    /\ Concluding /\ req.op = "propList" => propList # None /\ propList.handle = answer.handle /\ answer.handle # Root
    /\ Concluding /\ req.op \in {"open", "close"} => sequence = None /\ propList = None
    /\ Concluding /\ req.op = "object" => sequence = None

\* What SendObject is about
Target == IF sequence # None THEN sequence.handle ELSE propList.handle

\* Data of a SendObject: so much of it is at the beginning of the file.
Sending ==
    Receiving("object") =>
        /\ sequence # None \/ propList # None
        /\ ~host.first =>
              /\ Target \in DOMAIN store.files
              /\ store.writing = Target
              /\ store.data = OpenAt(Target, host.size - host.left)
              /\ \A i \in 1 .. host.size - host.left :
                    /\ i <= Len(store.files[Target].content)
                    /\ store.files[Target].content[i] = req.txn

\* Data of a SendPartialObject: so much of it is in its place.
EditedTo(h, content) ==
    h \in (DOMAIN expected \cap DOMAIN store.files) \ mixed => store.files[h].content = content

PartSending ==
    Receiving("partial") =>
        /\ edit # None /\ edit.handle = host.handle
        /\ edit.offset = host.offset + (host.size - host.left)
        /\ ~host.first => store.data # None /\ store.data.handle = host.handle
        /\ EditedTo(host.handle, Overwritten(expected[host.handle], host.offset, host.size - host.left, req.txn))

-----------------------------------------------------------------------------
(* What the host may believe of the objects. *)

SizeKnown(h) == h \in store.closed \/ store.files[h].size = Len(store.files[h].content)

\* What it will believe when it has the response
ToBelieve ==
    Concluding /\ host.left = 0 =>
        /\ req.op = "object" /\ object # None /\ object.handle \notin mixed =>
              /\ object.handle \in DOMAIN store.files
              /\ store.files[object.handle].content = [i \in 1 .. host.size |-> req.txn]
              /\ SizeKnown(object.handle)
        /\ req.op = "partial" =>
              EditedTo(host.handle, Overwritten(expected[host.handle], host.offset, host.size, req.txn))
        /\ req.op = "truncate" =>
              EditedTo(host.handle, Resized(expected[host.handle], host.size))
        /\ req.op \in {"partial", "truncate"} =>
              (host.handle \in (DOMAIN expected \cap DOMAIN store.files) \ mixed => SizeKnown(host.handle))

Believed ==
    \A h \in (DOMAIN expected \cap DOMAIN store.files) \ (Touched \cup mixed) :
        store.files[h].content = expected[h] /\ SizeKnown(h)

\* The object whose notifications are ignored is one of which the host has no belief,
\* or one that was mixed up with another.
WritingUnknown ==
    /\ store.writing \in DOMAIN expected \ mixed =>
          req # None /\ req.op \in {"object", "partial"} /\ store.writing \in Touched
    /\ Concluding /\ req.op \in {"object", "partial"} => store.writing = Root

OInv == /\ Types /\ Transaction /\ MixedUp /\ Described
        /\ Sending /\ PartSending /\ ToBelieve /\ Believed /\ WritingUnknown

-----------------------------------------------------------------------------
(* None is no record of another kind. *)

LEMMA NoneDiffers ==
    /\ None \notin Requests /\ None \notin Answers /\ None \notin Description /\ None \notin PropLists
    /\ None \notin Edits /\ None \notin Objects /\ None \notin OpenFiles
<1>1. DOMAIN None = {"none"}
  BY DEF None
<1>2. \A r \in Requests \cup Answers \cup PropLists : "txn" \in DOMAIN r
  BY DEF Requests, Answers, PropLists
<1>3. \A r \in Description \cup Edits \cup Objects \cup OpenFiles : "handle" \in DOMAIN r
  BY DEF Description, Edits, Objects, OpenFiles
<1> QED
  BY <1>1, <1>2, <1>3

-----------------------------------------------------------------------------
(* Contents of files. *)

LEMMA ContentFacts ==
    ASSUME NEW content \in Contents
    PROVE  /\ Len(content) \in Nat /\ DOMAIN content = 1 .. Len(content)
           /\ \A i \in 1 .. Len(content) : content[i] \in 0 .. TxnBound
           /\ content = [i \in 1 .. Len(content) |-> content[i]]
BY LenProperties, ElementOfSeq DEF Contents

LEMMA ContentEqual ==
    ASSUME NEW a \in Contents, NEW b \in Contents, Len(a) = Len(b),
           \A i \in 1 .. Len(a) : a[i] = b[i]
    PROVE  a = b
BY SeqEqual DEF Contents

LEMMA FunctionIsContent ==
    ASSUME NEW n \in Nat, NEW f \in [1 .. n -> 0 .. TxnBound]
    PROVE  f \in Contents /\ Len(f) = n
<1>1. f \in Contents
  BY SeqDef DEF Contents
<1> QED
  BY <1>1, LenProperties DEF Contents

LEMMA ResizedFacts ==
    ASSUME NEW content \in Contents, NEW len \in Nat
    PROVE  /\ Resized(content, len) \in Contents
           /\ Len(Resized(content, len)) = len
           /\ \A i \in 1 .. len : Resized(content, len)[i] = IF i <= Len(content) THEN content[i] ELSE 0
<1>1. TxnBound \in Nat
  BY WritingAssumption
<1>2. \A i \in 1 .. len : (IF i <= Len(content) THEN content[i] ELSE 0) \in 0 .. TxnBound
  BY <1>1, ContentFacts
<1>3. Resized(content, len) \in [1 .. len -> 0 .. TxnBound]
  BY <1>2 DEF Resized
<1> QED
  BY <1>3, IsASeq, LenProperties DEF Contents, Resized

\* How long a content is when len units have been written at offset
Extent(content, offset, len) == Longer(Len(content), IF len = 0 THEN 0 ELSE offset + len)

LEMMA OverwrittenFacts ==
    ASSUME NEW content \in Contents, NEW offset \in Nat, NEW len \in Nat, NEW txn \in 0 .. TxnBound
    PROVE  /\ Overwritten(content, offset, len, txn) \in Contents
           /\ Len(Overwritten(content, offset, len, txn)) = Extent(content, offset, len)
           /\ \A i \in 1 .. Extent(content, offset, len) :
                 Overwritten(content, offset, len, txn)[i] =
                    IF offset < i /\ i <= offset + len THEN txn
                    ELSE IF i <= Len(content) THEN content[i] ELSE 0
<1> DEFINE n == Extent(content, offset, len)
           at(i) == IF offset < i /\ i <= offset + len THEN txn
                    ELSE IF i <= Len(content) THEN content[i] ELSE 0
<1>1. TxnBound \in Nat /\ Len(content) \in Nat
  BY WritingAssumption, ContentFacts
<1>2. n \in Nat
  BY <1>1 DEF Longer, Extent
<1>3. \A i \in 1 .. n : at(i) \in 0 .. TxnBound
  BY <1>1, <1>2, ContentFacts
<1>4. Overwritten(content, offset, len, txn) = [i \in 1 .. n |-> at(i)]
  BY DEF Overwritten, Extent
<1> HIDE DEF n, at
<1>5. Overwritten(content, offset, len, txn) \in [1 .. n -> 0 .. TxnBound]
  BY <1>3, <1>4
<1>6. /\ Overwritten(content, offset, len, txn) \in Contents
      /\ Len(Overwritten(content, offset, len, txn)) = n
  BY <1>2, <1>5, FunctionIsContent
<1>7. \A i \in 1 .. n : Overwritten(content, offset, len, txn)[i] = at(i)
  BY <1>4
<1> QED
  BY <1>6, <1>7 DEF n, at

\* Writing nothing changes nothing.
LEMMA OverwrittenByNothing ==
    ASSUME NEW content \in Contents, NEW offset \in Nat, NEW txn \in 0 .. TxnBound
    PROVE  Overwritten(content, offset, 0, txn) = content
<1>1. Extent(content, offset, 0) = Len(content) /\ Len(content) \in Nat
  BY ContentFacts DEF Longer, Extent
<1> DEFINE same == Overwritten(content, offset, 0, txn)
<1>2. /\ same \in Contents /\ Len(same) = Len(content)
      /\ \A i \in 1 .. Len(content) :
            same[i] = IF offset < i /\ i <= offset + 0 THEN txn
                      ELSE IF i <= Len(content) THEN content[i] ELSE 0
  <2> DEFINE len == 0
  <2>1. len \in Nat
    OBVIOUS
  <2> HIDE DEF len
  <2>2. /\ Overwritten(content, offset, len, txn) \in Contents
        /\ Len(Overwritten(content, offset, len, txn)) = Extent(content, offset, len)
        /\ \A i \in 1 .. Extent(content, offset, len) :
              Overwritten(content, offset, len, txn)[i] =
                 IF offset < i /\ i <= offset + len THEN txn
                 ELSE IF i <= Len(content) THEN content[i] ELSE 0
    BY <2>1, OverwrittenFacts
  <2> QED
    BY <1>1, <2>2 DEF len
<1>3. \A i \in 1 .. Len(content) : same[i] = content[i]
  BY <1>1, <1>2
<1> QED
  BY <1>2, <1>3, ContentEqual

\* Two pieces written one after the other are written as one.
LEMMA OverwrittenTwice ==
    ASSUME NEW content \in Contents, NEW offset \in Nat, NEW first \in Nat, NEW len \in Nat,
           NEW txn \in 0 .. TxnBound
    PROVE  Overwritten(Overwritten(content, offset, first, txn), offset + first, len, txn)
              = Overwritten(content, offset, first + len, txn)
<1> DEFINE once == Overwritten(content, offset, first, txn)
           twice == Overwritten(once, offset + first, len, txn)
           whole == Overwritten(content, offset, first + len, txn)
<1>1. once \in Contents /\ Len(content) \in Nat
  BY OverwrittenFacts, ContentFacts
<1>2. CASE len = 0
  BY <1>1, <1>2, OverwrittenByNothing
<1>3. CASE first = 0 /\ len # 0
  BY <1>3, OverwrittenByNothing
<1>4. CASE first # 0 /\ len # 0
  <2> DEFINE l == Len(content)
             m == Extent(content, offset, first)
             n == Extent(content, offset, first + len)
  <2>1. first + len \in Nat /\ first + len # 0 /\ offset + first \in Nat
    BY <1>4
  <2>2. m = Longer(l, offset + first) /\ n = Longer(l, offset + (first + len))
    BY <1>4, <2>1 DEF Extent
  <2>3. once \in Contents /\ Len(once) = m
        /\ \A i \in 1 .. m : once[i] = IF offset < i /\ i <= offset + first THEN txn
                                       ELSE IF i <= l THEN content[i] ELSE 0
    BY OverwrittenFacts
  <2>4. whole \in Contents /\ Len(whole) = n
        /\ \A i \in 1 .. n : whole[i] = IF offset < i /\ i <= offset + (first + len) THEN txn
                                        ELSE IF i <= l THEN content[i] ELSE 0
    BY <2>1, OverwrittenFacts
  <2>5. m \in Nat /\ n \in Nat /\ Extent(once, offset + first, len) = n
    BY <1>1, <1>4, <2>2, <2>3 DEF Extent, Longer
  <2>6. twice \in Contents /\ Len(twice) = n
        /\ \A i \in 1 .. n : twice[i] = IF offset + first < i /\ i <= offset + first + len THEN txn
                                        ELSE IF i <= m THEN once[i] ELSE 0
    <3> HIDE DEF once, l, m, n
    <3>1. once \in Contents /\ offset + first \in Nat /\ len \in Nat /\ txn \in 0 .. TxnBound
      BY <2>1, <2>3
    <3>2. /\ twice \in Contents /\ Len(twice) = Extent(once, offset + first, len)
          /\ \A i \in 1 .. Extent(once, offset + first, len) :
                twice[i] = IF offset + first < i /\ i <= offset + first + len THEN txn
                           ELSE IF i <= Len(once) THEN once[i] ELSE 0
      <4> HIDE DEF once
      <4> QED
        BY <3>1, OverwrittenFacts
    <3> QED
      BY <2>3, <2>5, <3>2
  <2>7. ASSUME NEW i \in 1 .. n PROVE twice[i] = whole[i]
    <3>1. twice[i] = IF offset + first < i /\ i <= offset + first + len THEN txn
                     ELSE IF i <= m THEN once[i] ELSE 0
      BY <2>6
    <3>2. whole[i] = IF offset < i /\ i <= offset + (first + len) THEN txn
                     ELSE IF i <= l THEN content[i] ELSE 0
      BY <2>4
    <3>3. i <= m => once[i] = IF offset < i /\ i <= offset + first THEN txn
                              ELSE IF i <= l THEN content[i] ELSE 0
      BY <2>3, <2>5
    <3>4. m \in Nat /\ l \in Nat /\ (i > m => i > l /\ i > offset + first)
      BY <1>1, <2>2, <2>5 DEF Longer
    <3> HIDE DEF once, twice, whole, l, m, n
    <3> QED
      BY <2>5, <3>1, <3>2, <3>3, <3>4
  <2> QED
    BY <2>4, <2>6, <2>7, ContentEqual
<1> QED
  BY <1>2, <1>3, <1>4

-----------------------------------------------------------------------------
(* Operations of the storage. *)

\* t is s with another file, or other contents, of the object h at most.
OnlyChanges(s, t, h) ==
    /\ DOMAIN t.files = DOMAIN s.files /\ t.last = s.last
    /\ s.closed \subseteq t.closed
    /\ \A k \in DOMAIN s.files \ {h} :
          t.files[k].content = s.files[k].content /\ t.files[k].size = s.files[k].size

LEMMA StorageFacts ==
    ASSUME NEW s, IsStorage(s)
    PROVE  /\ s.last \in 0 .. TxnBound /\ s.writing \in 0 .. TxnBound
           /\ s.data # None => s.data.handle \in Handles /\ s.data.pos \in Nat
           /\ DOMAIN s.files \subseteq 1 .. s.last /\ DOMAIN s.files \subseteq Handles
           /\ s.closed \subseteq DOMAIN s.files
           /\ \A h \in DOMAIN s.files : /\ s.files[h] \in File
                                        /\ s.files[h].content \in Contents /\ s.files[h].size \in Nat
           /\ Root \notin DOMAIN s.files
<1>1. TxnBound \in Nat
  BY WritingAssumption
<1>2. s.data # None => s.data.handle \in Handles /\ s.data.pos \in Nat
  BY DEF IsStorage, OpenFiles
<1>3. \A h \in DOMAIN s.files : s.files[h] \in File
  BY DEF IsStorage
<1>4. \A f \in File : f.content \in Contents /\ f.size \in Nat
  BY DEF File, Contents
<1> QED
  BY <1>1, <1>2, <1>3, <1>4 DEF IsStorage, Handles, Root

\* A storage with other fields
Storage(files, data, writing, closed, last) ==
    [files |-> files, data |-> data, writing |-> writing, closed |-> closed, last |-> last]

LEMMA StorageMade ==
    ASSUME NEW s, IsStorage(s), NEW files \in [DOMAIN s.files -> File],
           NEW data \in OpenFiles \cup {None}, NEW writing \in 0 .. TxnBound,
           NEW closed \in SUBSET DOMAIN s.files
    PROVE  IsStorage(Storage(files, data, writing, closed, s.last))
<1>1. DOMAIN s.files \subseteq Handles /\ s.last \in 0 .. TxnBound /\ DOMAIN s.files \subseteq 1 .. s.last
  BY StorageFacts
<1> QED
  BY <1>1 DEF IsStorage, Storage

LEMMA StorageIs ==
    ASSUME NEW s, IsStorage(s)
    PROVE  /\ s = Storage(s.files, s.data, s.writing, s.closed, s.last)
           /\ s.files \in [DOMAIN s.files -> File] /\ s.data \in OpenFiles \cup {None}
           /\ s.writing \in 0 .. TxnBound /\ s.closed \in SUBSET DOMAIN s.files
BY DEF IsStorage, Storage

LEMMA OpenAtFacts ==
    ASSUME NEW h \in Handles, NEW pos \in Nat
    PROVE  /\ OpenAt(h, pos) \in OpenFiles /\ OpenAt(h, pos) # None /\ h \in 0 .. TxnBound
           /\ OpenAt(h, pos).handle = h /\ OpenAt(h, pos).pos = pos
<1>1. OpenAt(h, pos) \in OpenFiles
  BY DEF OpenAt, OpenFiles
<1> QED
  BY <1>1, NoneDiffers, WritingAssumption DEF OpenAt, Handles

LEMMA OpenFileFacts ==
    ASSUME NEW s, IsStorage(s), NEW h \in Handles, NEW pos \in Nat
    PROVE  /\ IsStorage(OpenFile(s, h, pos))
           /\ OpenFile(s, h, pos).files = s.files /\ OpenFile(s, h, pos).closed = s.closed
           /\ OpenFile(s, h, pos).last = s.last /\ OpenFile(s, h, pos).writing = h
           /\ OpenFile(s, h, pos).data = OpenAt(h, pos)
<1>1. OpenFile(s, h, pos) = Storage(s.files, OpenAt(h, pos), h, s.closed, s.last)
  <2>1. OpenFile(s, h, pos) = [s EXCEPT !.data = OpenAt(h, pos), !.writing = h]
    BY DEF OpenFile, OpenAt
  <2> QED
    BY <2>1 DEF IsStorage, Storage
<1>2. OpenAt(h, pos) \in OpenFiles \cup {None} /\ h \in 0 .. TxnBound
  BY OpenAtFacts
<1>3. s.files \in [DOMAIN s.files -> File] /\ s.closed \in SUBSET DOMAIN s.files
  BY StorageIs
<1>4. IsStorage(OpenFile(s, h, pos))
  BY <1>1, <1>2, <1>3, StorageMade
<1> QED
  BY <1>1, <1>4 DEF Storage

LEMMA SetContentFacts ==
    ASSUME NEW s, IsStorage(s), NEW h \in DOMAIN s.files, NEW content \in Contents
    PROVE  /\ IsStorage(SetContent(s, h, content))
           /\ OnlyChanges(s, SetContent(s, h, content), h)
           /\ SetContent(s, h, content).files[h].content = content
           /\ SetContent(s, h, content).files[h].size = s.files[h].size
           /\ SetContent(s, h, content).data = s.data /\ SetContent(s, h, content).writing = s.writing
           /\ SetContent(s, h, content).closed = s.closed
<1> DEFINE t == SetContent(s, h, content)
           file == [s.files[h] EXCEPT !.content = content]
           files == [s.files EXCEPT ![h] = file]
<1>1. s.files[h] \in File /\ s.files \in [DOMAIN s.files -> File]
  BY DEF IsStorage
<1>2. file \in File /\ file.content = content /\ file.size = s.files[h].size
  BY <1>1 DEF File, Contents
<1>3. files \in [DOMAIN s.files -> File] /\ files[h] = file /\ \A k \in DOMAIN s.files \ {h} : files[k] = s.files[k]
  BY <1>1, <1>2
<1>4. t = Storage(files, s.data, s.writing, s.closed, s.last)
  BY DEF SetContent, IsStorage, Storage
<1> HIDE DEF t, file, files
<1>5. /\ IsStorage(t) /\ t.files = files /\ t.data = s.data /\ t.writing = s.writing
      /\ t.closed = s.closed /\ t.last = s.last
  <2>1. /\ s.data \in OpenFiles \cup {None} /\ s.writing \in 0 .. TxnBound
        /\ s.closed \in SUBSET DOMAIN s.files
    BY StorageIs
  <2>2. IsStorage(t)
    BY <1>3, <1>4, <2>1, StorageMade
  <2> QED
    BY <1>4, <2>2 DEF Storage
<1>6. DOMAIN files = DOMAIN s.files
  BY <1>3
<1> QED
  BY <1>2, <1>3, <1>5, <1>6 DEF OnlyChanges, t

\* A write to the file that is open
LEMMA WriteFileFacts ==
    ASSUME NEW s, IsStorage(s), NEW h \in DOMAIN s.files, NEW pos \in Nat,
           s.data = OpenAt(h, pos), NEW len \in Nat, NEW txn \in 0 .. TxnBound
    PROVE  /\ IsStorage(WriteFile(s, len, txn))
           /\ OnlyChanges(s, WriteFile(s, len, txn), h)
           /\ WriteFile(s, len, txn).files[h].content = Overwritten(s.files[h].content, pos, len, txn)
           /\ WriteFile(s, len, txn).files[h].size = s.files[h].size
           /\ WriteFile(s, len, txn).data = OpenAt(h, pos + len)
           /\ WriteFile(s, len, txn).writing = s.writing /\ WriteFile(s, len, txn).closed = s.closed
<1> DEFINE t == [s EXCEPT !.data.pos = s.data.pos + len]
           content == Overwritten(s.files[h].content, pos, len, txn)
<1>1. h \in Handles /\ pos + len \in Nat
  BY StorageFacts
<1>2. s.data # None /\ s.data.handle = h /\ s.data.pos = pos
  BY <1>1, OpenAtFacts
<1>3. t = Storage(s.files, OpenAt(h, pos + len), s.writing, s.closed, s.last)
  <2>1. [s.data EXCEPT !.pos = s.data.pos + len] = OpenAt(h, pos + len)
    BY DEF OpenAt
  <2>2. t = [s EXCEPT !.data = OpenAt(h, pos + len)]
    BY <2>1
  <2> QED
    BY <2>2 DEF IsStorage, Storage
<1>4. content \in Contents
  BY StorageFacts, OverwrittenFacts
<1>5. WriteFile(s, len, txn) = SetContent(t, h, content)
  BY <1>2 DEF WriteFile
<1> HIDE DEF t, content
<1>6. /\ IsStorage(t) /\ t.files = s.files /\ t.data = OpenAt(h, pos + len)
      /\ t.writing = s.writing /\ t.closed = s.closed /\ t.last = s.last
  <2>1. /\ s.files \in [DOMAIN s.files -> File] /\ s.writing \in 0 .. TxnBound
        /\ s.closed \in SUBSET DOMAIN s.files
    BY StorageIs
  <2>2. OpenAt(h, pos + len) \in OpenFiles \cup {None}
    BY <1>1, OpenAtFacts
  <2>3. IsStorage(t)
    BY <1>3, <2>1, <2>2, StorageMade
  <2> QED
    BY <1>3, <2>3 DEF Storage
<1>7. /\ IsStorage(SetContent(t, h, content)) /\ OnlyChanges(t, SetContent(t, h, content), h)
      /\ SetContent(t, h, content).files[h].content = content
      /\ SetContent(t, h, content).files[h].size = t.files[h].size
      /\ SetContent(t, h, content).data = t.data /\ SetContent(t, h, content).writing = t.writing
      /\ SetContent(t, h, content).closed = t.closed
  BY <1>4, <1>6, SetContentFacts
<1> QED
  BY <1>5, <1>6, <1>7 DEF OnlyChanges, content

LEMMA OnlyChangesTwice ==
    ASSUME NEW s, NEW t, NEW u, NEW h, OnlyChanges(s, t, h), OnlyChanges(t, u, h)
    PROVE  OnlyChanges(s, u, h)
BY DEF OnlyChanges

\* One segment of a SendObject
LEMMA WriteDataFacts ==
    ASSUME NEW s, IsStorage(s), NEW h \in DOMAIN s.files, NEW pos \in Nat, NEW len \in Nat,
           NEW txn \in 0 .. TxnBound, NEW first \in BOOLEAN,
           IF first THEN pos = 0 ELSE s.data = OpenAt(h, pos)
    PROVE  LET t == WriteData(s, h, len, first, txn)
           IN  /\ IsStorage(t) /\ OnlyChanges(s, t, h)
               /\ t.files[h].content = Overwritten(s.files[h].content, pos, len, txn)
               /\ t.data = OpenAt(h, pos + len) /\ t.writing = h
<1> DEFINE opened == IF first THEN OpenFile(s, h, 0) ELSE [s EXCEPT !.writing = h]
           t == WriteFile(opened, len, txn)
<1>1. h \in Handles /\ h \in 0 .. TxnBound
  BY StorageFacts, OpenAtFacts
<1>2. /\ IsStorage(opened) /\ opened.files = s.files /\ opened.closed = s.closed /\ opened.last = s.last
      /\ opened.writing = h /\ opened.data = OpenAt(h, pos)
  <2>1. CASE first
    BY <1>1, <2>1, OpenFileFacts
  <2>2. CASE ~first
    <3>1. opened = Storage(s.files, s.data, h, s.closed, s.last)
      BY <2>2 DEF IsStorage, Storage
    <3>2. /\ s.files \in [DOMAIN s.files -> File] /\ s.data \in OpenFiles \cup {None}
          /\ s.closed \in SUBSET DOMAIN s.files
      BY StorageIs
    <3>3. IsStorage(Storage(s.files, s.data, h, s.closed, s.last))
      BY <1>1, <3>2, StorageMade
    <3> QED
      BY <2>2, <3>1, <3>3 DEF Storage
  <2> QED
    BY <2>1, <2>2
<1> HIDE DEF opened
<1>3. /\ IsStorage(t) /\ OnlyChanges(opened, t, h)
      /\ t.files[h].content = Overwritten(opened.files[h].content, pos, len, txn)
      /\ t.data = OpenAt(h, pos + len) /\ t.writing = opened.writing
  BY <1>2, WriteFileFacts
<1>4. t = WriteData(s, h, len, first, txn)
  BY DEF WriteData, opened
<1> HIDE DEF t
<1>5. OnlyChanges(s, t, h)
  BY <1>2, <1>3 DEF OnlyChanges
<1> QED
  BY <1>2, <1>3, <1>4, <1>5

\* The end of a SendObject, with the file of the object open
LEMMA CloseFileFacts ==
    ASSUME NEW s, IsStorage(s), NEW h \in DOMAIN s.files, NEW pos \in Nat, s.data = OpenAt(h, pos)
    PROVE  LET t == CloseFile(s, h)
           IN  /\ IsStorage(t) /\ OnlyChanges(s, t, h)
               /\ t.files[h].content = Resized(s.files[h].content, pos)
               /\ t.writing = Root /\ h \in t.closed
<1> DEFINE u == [s EXCEPT !.writing = Root, !.data = None]
           content == Resized(s.files[h].content, pos)
           v == SetContent(u, h, content)
           t == [v EXCEPT !.closed = v.closed \cup {h}]
<1>1. h \in Handles /\ Root \in 0 .. TxnBound
  BY StorageFacts, WritingAssumption DEF Root
<1>2. s.data # None /\ s.data.handle = h /\ s.data.pos = pos
  BY <1>1, OpenAtFacts
<1>3. CloseFile(s, h) = t
  BY <1>2 DEF CloseFile
<1>4. u = Storage(s.files, None, Root, s.closed, s.last)
  <2> DEFINE w == [s EXCEPT !.writing = Root]
  <2>1. w = Storage(s.files, s.data, Root, s.closed, s.last)
    BY DEF IsStorage, Storage
  <2> HIDE DEF w
  <2>2. u = [w EXCEPT !.data = None]
    BY DEF w
  <2> QED
    BY <2>1, <2>2 DEF Storage
<1>5. content \in Contents
  BY StorageFacts, ResizedFacts
<1> HIDE DEF u, content
<1>6. /\ IsStorage(u) /\ u.files = s.files /\ u.writing = Root /\ u.data = None
      /\ u.closed = s.closed /\ u.last = s.last
  <2>1. s.files \in [DOMAIN s.files -> File] /\ s.closed \in SUBSET DOMAIN s.files
    BY StorageIs
  <2>2. IsStorage(u)
    BY <1>1, <1>4, <2>1, StorageMade
  <2> QED
    BY <1>4, <2>2 DEF Storage
<1>7. /\ IsStorage(v) /\ OnlyChanges(u, v, h) /\ v.files[h].content = content
      /\ v.writing = u.writing /\ v.closed = u.closed
  BY <1>5, <1>6, SetContentFacts
<1> HIDE DEF v
<1>8. t = Storage(v.files, v.data, v.writing, v.closed \cup {h}, v.last)
  <2>1. v = Storage(v.files, v.data, v.writing, v.closed, v.last)
    BY <1>7 DEF IsStorage, Storage
  <2> QED
    BY <2>1 DEF Storage
<1> HIDE DEF t
<1>9. IsStorage(t)
  <2>1. /\ v.files \in [DOMAIN v.files -> File] /\ v.data \in OpenFiles \cup {None}
        /\ v.writing \in 0 .. TxnBound /\ v.closed \in SUBSET DOMAIN v.files
    BY <1>7, StorageIs
  <2>2. v.closed \cup {h} \in SUBSET DOMAIN v.files
    BY <1>6, <1>7, <2>1 DEF OnlyChanges
  <2> QED
    BY <1>7, <1>8, <2>1, <2>2, StorageMade
<1>10. t.files = v.files /\ t.writing = v.writing /\ t.closed = v.closed \cup {h} /\ t.last = v.last
  BY <1>8 DEF Storage
<1>11. OnlyChanges(s, t, h)
  BY <1>6, <1>7, <1>10 DEF OnlyChanges
<1> QED
  BY <1>3, <1>6, <1>7, <1>9, <1>10, <1>11 DEF content, t

LEMMA TruncateItemFacts ==
    ASSUME NEW s, IsStorage(s), NEW h \in DOMAIN s.files, NEW size \in Nat
    PROVE  LET t == TruncateItem(s, h, size)
           IN  /\ IsStorage(t) /\ OnlyChanges(s, t, h)
               /\ t.files[h].content = Resized(s.files[h].content, size) /\ t.files[h].size = size
               /\ t.data = s.data /\ t.writing = s.writing
<1> DEFINE file == [s.files[h] EXCEPT !.content = Resized(s.files[h].content, size), !.size = size]
           files == [s.files EXCEPT ![h] = file]
           t == TruncateItem(s, h, size)
<1>1. s.files[h] \in File /\ s.files \in [DOMAIN s.files -> File]
  BY DEF IsStorage
<1>2. Resized(s.files[h].content, size) \in Contents
  BY StorageFacts, ResizedFacts
<1>3. file \in File /\ file.content = Resized(s.files[h].content, size) /\ file.size = size
  BY <1>1, <1>2 DEF File, Contents
<1>4. files \in [DOMAIN s.files -> File] /\ files[h] = file /\ \A k \in DOMAIN s.files \ {h} : files[k] = s.files[k]
  BY <1>1, <1>3
<1>5. t = Storage(files, s.data, s.writing, s.closed, s.last)
  <2>1. t = [s EXCEPT !.files = files]
    BY <1>1 DEF TruncateItem, File
  <2> QED
    BY <2>1 DEF IsStorage, Storage
<1> HIDE DEF t, file, files
<1>6. /\ s.data \in OpenFiles \cup {None} /\ s.writing \in 0 .. TxnBound
      /\ s.closed \in SUBSET DOMAIN s.files
  BY StorageIs
<1>7. IsStorage(t)
  BY <1>4, <1>5, <1>6, StorageMade
<1>8. t.files = files /\ t.data = s.data /\ t.writing = s.writing /\ t.closed = s.closed /\ t.last = s.last
  BY <1>5 DEF Storage
<1>9. DOMAIN files = DOMAIN s.files
  BY <1>4
<1> QED
  BY <1>3, <1>4, <1>7, <1>8, <1>9 DEF OnlyChanges, t

\* Properties do not change a file.
LEMMA PropertiesFacts ==
    ASSUME NEW s, IsStorage(s), NEW h \in DOMAIN s.files,
           propList = None \/ propList.txn \in 0 .. TxnBound
    PROVE  LET t == ApplyProperties(s, h)
           IN  /\ IsStorage(t) /\ OnlyChanges(s, t, h)
               /\ t.files[h].content = s.files[h].content
               /\ t.data = s.data /\ t.writing = s.writing
<1> DEFINE file == [s.files[h] EXCEPT !.props = propList.txn]
           files == [s.files EXCEPT ![h] = file]
           t == ApplyProperties(s, h)
<1>1. CASE propList = None
  BY <1>1 DEF ApplyProperties, OnlyChanges
<1>2. CASE propList # None
  <2>1. s.files[h] \in File /\ s.files \in [DOMAIN s.files -> File]
    BY DEF IsStorage
  <2>2. file \in File /\ file.content = s.files[h].content
    BY <1>2, <2>1 DEF File
  <2>3. files \in [DOMAIN s.files -> File] /\ files[h] = file /\ \A k \in DOMAIN s.files \ {h} : files[k] = s.files[k]
    BY <2>1, <2>2
  <2>4. t = Storage(files, s.data, s.writing, s.closed, s.last)
    <3>1. t = [s EXCEPT !.files = files]
      BY <1>2 DEF ApplyProperties
    <3> QED
      BY <3>1 DEF IsStorage, Storage
  <2> HIDE DEF t, file, files
  <2>5. /\ s.data \in OpenFiles \cup {None} /\ s.writing \in 0 .. TxnBound
        /\ s.closed \in SUBSET DOMAIN s.files
    BY StorageIs
  <2>6. IsStorage(t)
    BY <2>3, <2>4, <2>5, StorageMade
  <2>7. t.files = files /\ t.data = s.data /\ t.writing = s.writing /\ t.closed = s.closed /\ t.last = s.last
    BY <2>4 DEF Storage
  <2>8. DOMAIN files = DOMAIN s.files
    BY <2>3
  <2> QED
    BY <2>2, <2>3, <2>6, <2>7, <2>8 DEF OnlyChanges, t
<1> QED
  BY <1>1, <1>2

\* The last segment of a SendObject, and the end of one that fails
ObjectFinished(s, h, len, first, txn, code) ==
    LET written == WriteData(s, h, len, first, txn)
    IN  CloseFile(IF code = "ok" THEN ApplyProperties(written, h)
                  ELSE IF code = "incomplete" THEN TruncateItem(written, h, 0) ELSE written, h)

LEMMA ObjectFinishedFacts ==
    ASSUME NEW s, IsStorage(s), NEW h \in DOMAIN s.files, NEW pos \in Nat, NEW len \in Nat,
           NEW txn \in 0 .. TxnBound, NEW first \in BOOLEAN,
           IF first THEN pos = 0 ELSE s.data = OpenAt(h, pos),
           propList = None \/ propList.txn \in 0 .. TxnBound, NEW code
    PROVE  LET t == ObjectFinished(s, h, len, first, txn, code)
           IN  /\ IsStorage(t) /\ OnlyChanges(s, t, h) /\ t.writing = Root /\ h \in t.closed
               /\ code = "ok" =>
                     t.files[h].content = Resized(Overwritten(s.files[h].content, pos, len, txn), pos + len)
<1> DEFINE w == WriteData(s, h, len, first, txn)
           u == IF code = "ok" THEN ApplyProperties(w, h)
                ELSE IF code = "incomplete" THEN TruncateItem(w, h, 0) ELSE w
           t == CloseFile(u, h)
<1>1. /\ IsStorage(w) /\ OnlyChanges(s, w, h)
      /\ w.files[h].content = Overwritten(s.files[h].content, pos, len, txn)
      /\ w.data = OpenAt(h, pos + len)
  BY WriteDataFacts
<1> HIDE DEF w
<1>2. h \in DOMAIN w.files
  BY <1>1 DEF OnlyChanges
<1>3. /\ IsStorage(u) /\ OnlyChanges(w, u, h) /\ u.data = w.data
      /\ code = "ok" => u.files[h].content = w.files[h].content
  <2>1. CASE code = "ok"
    BY <1>1, <1>2, <2>1, PropertiesFacts
  <2>2. CASE code = "incomplete"
    BY <1>1, <1>2, <2>2, TruncateItemFacts
  <2>3. CASE code # "ok" /\ code # "incomplete"
    BY <1>1, <2>3 DEF OnlyChanges
  <2> QED
    BY <2>1, <2>2, <2>3
<1> HIDE DEF u
<1>4. h \in DOMAIN u.files /\ pos + len \in Nat
  BY <1>2, <1>3 DEF OnlyChanges
<1>5. /\ IsStorage(t) /\ OnlyChanges(u, t, h)
      /\ t.files[h].content = Resized(u.files[h].content, pos + len)
      /\ t.writing = Root /\ h \in t.closed
  BY <1>1, <1>3, <1>4, CloseFileFacts
<1>6. t = ObjectFinished(s, h, len, first, txn, code)
  BY DEF ObjectFinished, u, w
<1> HIDE DEF t
<1>7. OnlyChanges(s, t, h)
  BY <1>1, <1>3, <1>5 DEF OnlyChanges
<1> QED
  BY <1>1, <1>3, <1>5, <1>6, <1>7

\* The end of a SendObject whose object cannot be opened
LEMMA NotOpenedFacts ==
    ASSUME NEW s, IsStorage(s), NEW h, h \notin DOMAIN s.files
    PROVE  LET t == CloseFile(OpenFails(s, h), h)
           IN  /\ IsStorage(t) /\ t.files = s.files /\ t.closed = s.closed /\ t.last = s.last
               /\ t.writing \in {s.writing, Root}
<1> DEFINE o == OpenFails(s, h)
           t == CloseFile(o, h)
<1>1. CASE h # Root
  <2>1. t = s
    BY <1>1 DEF OpenFails, CloseFile
  <2> QED
    BY <2>1
<1>2. CASE h = Root
  <2>1. o = [s EXCEPT !.data = None, !.writing = Root]
    BY <1>2 DEF OpenFails
  <2>2. o = Storage(s.files, None, Root, s.closed, s.last)
    <3> DEFINE w == [s EXCEPT !.data = None]
    <3>1. w = Storage(s.files, None, s.writing, s.closed, s.last)
      BY DEF IsStorage, Storage
    <3> HIDE DEF w
    <3>2. o = [w EXCEPT !.writing = Root]
      BY <2>1 DEF w
    <3> QED
      BY <3>1, <3>2 DEF Storage
  <2> HIDE DEF o
  <2>3. o.data = None
    BY <2>2 DEF Storage
  <2>4. t = Storage(s.files, None, Root, s.closed, s.last)
    <3> DEFINE w == [o EXCEPT !.writing = Root]
    <3>1. w = Storage(s.files, None, Root, s.closed, s.last)
      BY <2>2 DEF Storage
    <3> HIDE DEF w
    <3>2. t = [w EXCEPT !.data = None]
      BY <1>2, <2>3 DEF CloseFile, w
    <3> QED
      BY <3>1, <3>2 DEF Storage
  <2> HIDE DEF t
  <2>5. /\ s.files \in [DOMAIN s.files -> File] /\ None \in OpenFiles \cup {None}
        /\ s.closed \in SUBSET DOMAIN s.files
    BY StorageIs
  <2>6. Root \in 0 .. TxnBound
    BY WritingAssumption DEF Root
  <2>7. IsStorage(t)
    BY <2>4, <2>5, <2>6, StorageMade
  <2>8. t.files = s.files /\ t.closed = s.closed /\ t.last = s.last /\ t.writing = Root
    BY <2>4 DEF Storage
  <2> QED
    BY <2>7, <2>8 DEF t, o
<1> QED
  BY <1>1, <1>2

\* A file that is described: an object that is there, or a new one.
LEMMA AddItemFacts ==
    ASSUME NEW s, IsStorage(s), NEW name \in Names, NEW size \in Nat, s.last < TxnBound
    PROVE  LET t == AddItem(s, name, size).store
               h == AddItem(s, name, size).handle
           IN  /\ IsStorage(t) /\ h \in 1 .. t.last /\ t.last \in s.last .. s.last + 1
               /\ DOMAIN s.files \subseteq DOMAIN t.files
               /\ DOMAIN t.files \subseteq DOMAIN s.files \cup {s.last + 1}
               /\ \A k \in DOMAIN s.files : t.files[k] = s.files[k]
               /\ s.closed \subseteq t.closed /\ t.writing = s.writing /\ t.data = s.data
<1>1. CASE Named(s, name) # {}
  <2> DEFINE known == CHOOSE h \in Named(s, name) : TRUE
  <2>1. known \in DOMAIN s.files
    BY <1>1 DEF Named
  <2>2. AddItem(s, name, size).store = s /\ AddItem(s, name, size).handle = known
    BY <1>1 DEF AddItem
  <2> HIDE DEF known
  <2> QED
    BY <2>1, <2>2, StorageFacts
<1>2. CASE Named(s, name) = {}
  <2> DEFINE h == s.last + 1
             file == [name |-> name, size |-> size, content |-> Resized(<<>>, size), props |-> 0]
             files == [k \in DOMAIN s.files \cup {h} |-> IF k = h THEN file ELSE s.files[k]]
             t == AddItem(s, name, size).store
  <2>1. AddItem(s, name, size).handle = h
    BY <1>2 DEF AddItem
  <2>2. t = [s EXCEPT !.files = files, !.closed = s.closed \cup {h}, !.last = h]
    BY <1>2 DEF AddItem
  <2>3. t = Storage(files, s.data, s.writing, s.closed \cup {h}, h)
    BY <2>2 DEF IsStorage, Storage
  <2>4. TxnBound \in Nat /\ s.last \in 0 .. TxnBound /\ h \in 1 .. TxnBound /\ h \notin DOMAIN s.files
        /\ s.closed \subseteq DOMAIN s.files /\ DOMAIN s.files \subseteq 1 .. s.last
    BY StorageFacts, WritingAssumption
  <2>5. Resized(<<>>, size) \in Contents
    BY EmptySeq, ResizedFacts DEF Contents
  <2>6. file \in File
    BY <2>4, <2>5 DEF File, Contents
  <2>7. files \in [DOMAIN files -> File] /\ DOMAIN files = DOMAIN s.files \cup {h}
        /\ \A k \in DOMAIN s.files : files[k] = s.files[k]
    <3>1. \A k \in DOMAIN s.files : s.files[k] \in File
      BY StorageFacts
    <3> HIDE DEF file
    <3> QED
      BY <2>4, <2>6, <3>1
  <2> HIDE DEF t, file, files
  <2>8. /\ t.files = files /\ t.data = s.data /\ t.writing = s.writing /\ t.closed = s.closed \cup {h}
        /\ t.last = h
    BY <2>3 DEF Storage
  <2>9. IsStorage(t)
    <3>1. s.data \in OpenFiles \cup {None} /\ s.writing \in 0 .. TxnBound
      BY StorageIs
    <3>2. DOMAIN files \subseteq 1 .. h /\ DOMAIN files \subseteq Handles /\ s.closed \cup {h} \subseteq DOMAIN files
          /\ h \in 0 .. TxnBound
      BY <2>4, <2>7 DEF Handles
    <3>3. t \in [files : {files}, data : OpenFiles \cup {None}, writing : 0 .. TxnBound,
                 closed : SUBSET Handles, last : 0 .. TxnBound]
      BY <2>3, <3>1, <3>2 DEF Storage
    <3> QED
      BY <2>7, <2>8, <3>2, <3>3 DEF IsStorage
  <2> QED
    BY <2>1, <2>4, <2>7, <2>8, <2>9 DEF t
<1> QED
  BY <1>1, <1>2

LEMMA DeleteItemFacts ==
    ASSUME NEW s, IsStorage(s), NEW h
    PROVE  LET t == DeleteItem(s, h)
           IN  /\ IsStorage(t) /\ DOMAIN t.files = DOMAIN s.files \ {h}
               /\ \A k \in DOMAIN t.files : t.files[k] = s.files[k]
               /\ t.closed = s.closed \ {h} /\ t.writing = s.writing /\ t.data = s.data /\ t.last = s.last
<1> DEFINE files == [k \in DOMAIN s.files \ {h} |-> s.files[k]]
           t == DeleteItem(s, h)
<1>1. t = Storage(files, s.data, s.writing, s.closed \ {h}, s.last)
  <2>1. t = [s EXCEPT !.files = files, !.closed = s.closed \ {h}]
    BY DEF DeleteItem
  <2> HIDE DEF files, t
  <2> QED
    BY <2>1 DEF IsStorage, Storage
<1>2. files \in [DOMAIN files -> File] /\ DOMAIN files = DOMAIN s.files \ {h}
      /\ \A k \in DOMAIN files : files[k] = s.files[k]
  <2>1. \A k \in DOMAIN s.files : s.files[k] \in File
    BY StorageFacts
  <2> QED
    BY <2>1
<1> HIDE DEF t, files
<1>3. /\ t.files = files /\ t.data = s.data /\ t.writing = s.writing /\ t.closed = s.closed \ {h}
      /\ t.last = s.last
  BY <1>1 DEF Storage
<1>4. IsStorage(t)
  <2>1. /\ s.data \in OpenFiles \cup {None} /\ s.writing \in 0 .. TxnBound /\ s.last \in 0 .. TxnBound
        /\ DOMAIN s.files \subseteq 1 .. s.last /\ s.closed \subseteq DOMAIN s.files
        /\ s.closed \in SUBSET Handles
    BY StorageIs, StorageFacts
  <2>2. t \in [files : {files}, data : OpenFiles \cup {None}, writing : 0 .. TxnBound,
               closed : SUBSET Handles, last : 0 .. TxnBound]
    BY <1>1, <2>1 DEF Storage
  <2> QED
    BY <1>2, <1>3, <2>1, <2>2 DEF IsStorage
<1> QED
  BY <1>2, <1>3, <1>4 DEF t

LEMMA OpenPartialFacts ==
    ASSUME NEW s, IsStorage(s), NEW h \in DOMAIN s.files, NEW offset \in Nat
    PROVE  LET t == OpenPartial(s, h, offset)
           IN  /\ IsStorage(t) /\ OnlyChanges(s, t, h) /\ t.files = s.files
               /\ t.data = OpenAt(h, offset) /\ t.writing = h
<1> DEFINE left == IF s.data = None THEN {} ELSE {s.data.handle} \cap DOMAIN s.files
           o == OpenFile(s, h, offset)
           t == OpenPartial(s, h, offset)
<1>1. left \subseteq DOMAIN s.files
  OBVIOUS
<1>2. h \in Handles
  BY StorageFacts
<1>3. /\ IsStorage(o) /\ o.files = s.files /\ o.closed = s.closed /\ o.last = s.last
      /\ o.writing = h /\ o.data = OpenAt(h, offset)
  BY <1>2, OpenFileFacts
<1>4. t = [o EXCEPT !.closed = o.closed \cup left]
  BY DEF OpenPartial
<1> HIDE DEF left, o, t
<1>5. t = Storage(o.files, o.data, o.writing, o.closed \cup left, o.last)
  BY <1>3, <1>4 DEF IsStorage, Storage
<1>6. IsStorage(t)
  <2>1. /\ o.files \in [DOMAIN o.files -> File] /\ o.data \in OpenFiles \cup {None}
        /\ o.writing \in 0 .. TxnBound /\ o.closed \cup left \in SUBSET DOMAIN o.files
    BY <1>1, <1>3, StorageIs
  <2> QED
    BY <1>3, <1>5, <2>1, StorageMade
<1>7. /\ t.files = o.files /\ t.data = o.data /\ t.writing = o.writing
      /\ t.closed = o.closed \cup left /\ t.last = o.last
  BY <1>5 DEF Storage
<1> QED
  BY <1>3, <1>6, <1>7 DEF OnlyChanges, t

LEMMA ClosePartialFacts ==
    ASSUME NEW s, IsStorage(s), NEW h \in DOMAIN s.files, s.data # None
    PROVE  LET t == ClosePartial(s, h)
           IN  /\ IsStorage(t) /\ OnlyChanges(s, t, h)
               /\ t.files[h].content = s.files[h].content /\ t.writing = Root /\ h \in t.closed
<1> DEFINE file == [s.files[h] EXCEPT !.size = Len(s.files[h].content)]
           files == [s.files EXCEPT ![h] = file]
           t == ClosePartial(s, h)
<1>1. s.files[h] \in File /\ s.files \in [DOMAIN s.files -> File] /\ Len(s.files[h].content) \in Nat
  BY StorageFacts, ContentFacts, StorageIs
<1>2. file \in File /\ file.content = s.files[h].content
  BY <1>1 DEF File
<1>3. files \in [DOMAIN s.files -> File] /\ files[h] = file /\ \A k \in DOMAIN s.files \ {h} : files[k] = s.files[k]
  BY <1>1, <1>2
<1>4. t = Storage(files, None, Root, s.closed \cup {h}, s.last)
  <2> DEFINE q == [s EXCEPT !.writing = Root]
             w == [q EXCEPT !.files = files]
             v == [w EXCEPT !.data = None]
  <2>1. t = [v EXCEPT !.closed = v.closed \cup {h}]
    BY DEF ClosePartial, IsStorage
  <2> HIDE DEF file, files, t
  <2>2. w = Storage(files, s.data, Root, s.closed, s.last)
    <3>1. q = Storage(s.files, s.data, Root, s.closed, s.last)
      BY DEF IsStorage, Storage
    <3> HIDE DEF q
    <3> QED
      BY <3>1 DEF Storage
  <2> HIDE DEF w
  <2>3. v = Storage(files, None, Root, s.closed, s.last)
    BY <2>2 DEF Storage
  <2> HIDE DEF v
  <2> QED
    BY <2>1, <2>3 DEF Storage
<1> HIDE DEF file, files, t
<1>5. IsStorage(t)
  <2>1. s.closed \cup {h} \in SUBSET DOMAIN s.files /\ None \in OpenFiles \cup {None}
    BY StorageIs
  <2>2. Root \in 0 .. TxnBound
    BY WritingAssumption DEF Root
  <2> QED
    BY <1>3, <1>4, <2>1, <2>2, StorageMade
<1>6. t.files = files /\ t.writing = Root /\ t.closed = s.closed \cup {h} /\ t.last = s.last
  BY <1>4 DEF Storage
<1>7. DOMAIN files = DOMAIN s.files
  BY <1>3
<1> QED
  BY <1>2, <1>3, <1>5, <1>6, <1>7 DEF OnlyChanges, t

\* One segment of a SendPartialObject
LEMMA WritePartialFacts ==
    ASSUME NEW s, IsStorage(s), NEW h \in DOMAIN s.files, NEW offset \in Nat, NEW len \in Nat,
           NEW first \in BOOLEAN, NEW last \in BOOLEAN, NEW txn \in 0 .. TxnBound,
           first \/ (s.data # None /\ s.data.handle = h)
    PROVE  LET t == WritePartialData(s, h, offset, len, first, last, txn)
           IN  /\ IsStorage(t) /\ OnlyChanges(s, t, h)
               /\ t.files[h].content = Overwritten(s.files[h].content, offset, len, txn)
               /\ last => t.writing = Root /\ h \in t.closed
               /\ ~last => t.data # None /\ t.data.handle = h /\ t.writing \in {h, s.writing}
<1> DEFINE opened == IF first THEN OpenPartial(s, h, offset)
                     ELSE IF s.data = None THEN s ELSE [s EXCEPT !.data.pos = offset]
           written == WriteFile(opened, len, txn)
           t == IF last THEN ClosePartial(written, h) ELSE written
<1>1. /\ IsStorage(opened) /\ OnlyChanges(s, opened, h) /\ opened.files = s.files
      /\ opened.data = OpenAt(h, offset) /\ opened.writing \in {h, s.writing}
  <2>1. CASE first
    BY <2>1, OpenPartialFacts
  <2>2. CASE ~first
    <3>1. h \in Handles
      BY StorageFacts
    <3>2. opened = Storage(s.files, OpenAt(h, offset), s.writing, s.closed, s.last)
      <4>1. s.data \in OpenFiles
        BY <2>2, StorageIs
      <4>2. [s.data EXCEPT !.pos = offset] = OpenAt(h, offset)
        BY <2>2, <4>1 DEF OpenAt, OpenFiles
      <4>3. opened = [s EXCEPT !.data = OpenAt(h, offset)]
        BY <2>2, <4>2
      <4> HIDE DEF opened
      <4> QED
        BY <4>3 DEF IsStorage, Storage
    <3> HIDE DEF opened
    <3>3. /\ s.files \in [DOMAIN s.files -> File] /\ s.writing \in 0 .. TxnBound
          /\ s.closed \in SUBSET DOMAIN s.files
      BY StorageIs
    <3>4. OpenAt(h, offset) \in OpenFiles \cup {None}
      BY <3>1, OpenAtFacts
    <3>5. IsStorage(opened)
      BY <3>2, <3>3, <3>4, StorageMade
    <3> QED
      BY <3>2, <3>5 DEF Storage, OnlyChanges
  <2> QED
    BY <2>1, <2>2
<1> HIDE DEF opened
<1>2. /\ IsStorage(written) /\ OnlyChanges(opened, written, h)
      /\ written.files[h].content = Overwritten(s.files[h].content, offset, len, txn)
      /\ written.data = OpenAt(h, offset + len) /\ written.writing = opened.writing
  BY <1>1, WriteFileFacts
<1> HIDE DEF written
<1>3. h \in DOMAIN written.files /\ h \in Handles /\ offset + len \in Nat
  BY <1>1, <1>2, StorageFacts DEF OnlyChanges
<1>4. written.data # None /\ written.data.handle = h
  BY <1>2, <1>3, OpenAtFacts
<1>5. /\ IsStorage(t) /\ OnlyChanges(written, t, h)
      /\ t.files[h].content = written.files[h].content
      /\ last => t.writing = Root /\ h \in t.closed
      /\ ~last => t = written
  <2>1. CASE last
    BY <1>2, <1>3, <1>4, <2>1, ClosePartialFacts
  <2>2. CASE ~last
    BY <1>2, <2>2 DEF OnlyChanges
  <2> QED
    BY <2>1, <2>2
<1>6. t = WritePartialData(s, h, offset, len, first, last, txn)
  BY DEF WritePartialData, opened, written
<1> HIDE DEF t
<1>7. OnlyChanges(s, t, h)
  BY <1>1, <1>2, <1>5, OnlyChangesTwice
<1> QED
  BY <1>1, <1>2, <1>4, <1>5, <1>6, <1>7

-----------------------------------------------------------------------------
(* The host begins a transaction. *)

LEMMA Bounds == TxnBound \in Nat /\ SignalBound \in Nat /\ FailBound \in Nat /\ Sizes \subseteq Nat
BY WritingAssumption

LEMMA NoTxnFacts ==
    /\ NoTxn \in Transactions /\ NoTxn.op = "none" /\ NoTxn.txn = 0 /\ NoTxn.left = 0
    /\ NoTxn.size = 0 /\ NoTxn.first = FALSE
<1>1. NoTxn.op = "none" /\ NoTxn.txn = 0 /\ NoTxn.left = 0 /\ NoTxn.size = 0 /\ NoTxn.first = FALSE
  BY DEF NoTxn
<1>2. NoTxn = [op |-> "none", txn |-> 0, left |-> 0, first |-> FALSE, size |-> 0, offset |-> 0,
               handle |-> Root, name |-> NoTxn.name, good |-> TRUE]
  BY DEF NoTxn
<1>3. Root \in 0 .. TxnBound
  BY Bounds DEF Root
<1> DEFINE name == NoTxn.name
<1>4. NoTxn \in [op : Ops \cup {"none"}, txn : 0 .. TxnBound, left : Nat, first : BOOLEAN, size : Nat,
                 offset : Nat, handle : 0 .. TxnBound, name : Names \cup {name}, good : BOOLEAN]
  <2> HIDE DEF name
  <2>1. NoTxn = [op |-> "none", txn |-> 0, left |-> 0, first |-> FALSE, size |-> 0, offset |-> 0,
                 handle |-> Root, name |-> name, good |-> TRUE]
    BY <1>2 DEF name
  <2> QED
    BY <1>3, <2>1, Bounds
<1> QED
  BY <1>1, <1>4 DEF Transactions

\* Between transactions all the host believes is so.
LEMMA IdleFacts ==
    ASSUME OInv, host = NoTxn
    PROVE  /\ req = None /\ Touched = {} /\ ~Concluding
           /\ store.writing \notin DOMAIN expected \ mixed
           /\ \A h \in (DOMAIN expected \cap DOMAIN store.files) \ mixed :
                 store.files[h].content = expected[h] /\ SizeKnown(h)
           /\ sequence # None => /\ sequence.handle \in 1 .. store.last
                                 /\ \/ object # None /\ object.handle = sequence.handle
                                    \/ sequence.handle \in mixed
           /\ Confused /\ object # None => object.handle \in mixed
           /\ propList # None /\ propList.handle # Root =>
                 propList.handle \in 1 .. store.last /\ object # None /\ object.handle = propList.handle
           /\ propList # None /\ propList.handle = Root => object = None
<1>1. req = None
  BY DEF OInv, Transaction
<1>2. Touched = {}
  BY NoTxnFacts DEF Touched
<1>3. ~Concluding /\ ~Receiving("propList")
  BY <1>1 DEF Concluding, Receiving
<1>4. store.writing \notin DOMAIN expected \ mixed
  BY <1>1 DEF OInv, WritingUnknown
<1>5. \A h \in (DOMAIN expected \cap DOMAIN store.files) \ mixed :
         store.files[h].content = expected[h] /\ SizeKnown(h)
  BY <1>2 DEF OInv, Believed
<1>6. Confused /\ object # None => object.handle \in mixed
  BY <1>3 DEF OInv, MixedUp
<1> QED
  BY <1>1, <1>2, <1>3, <1>4, <1>5, <1>6 DEF OInv, Described

\* What Command() does
Begun(t, code) ==
    /\ host = NoTxn /\ answer = None
    /\ host' \in Transactions /\ host' # NoTxn
    /\ host'.op = t.op /\ host'.txn = txns + 1 /\ host'.left = t.left /\ host'.first = t.first
    /\ host'.size = t.size /\ host'.offset = t.offset /\ host'.handle = t.handle /\ host'.name = t.name
    /\ req' \in Requests /\ req' # None /\ req'.op = t.op /\ req'.txn = txns + 1 /\ req'.code = code
    /\ txns' = txns + 1 /\ txns \in Nat /\ txns + 1 \in 1 .. TxnBound
    /\ UNCHANGED <<object, expected, signals, fails>>

LEMMA CommandFacts ==
    ASSUME OInv, NEW t \in Transactions, t.op \in Ops, NEW code \in Codes, Command(t, code)
    PROVE  Begun(t, code)
<1>1. /\ host = NoTxn /\ answer = None /\ txns < TxnBound /\ txns' = txns + 1
      /\ host' = [t EXCEPT !.txn = txns + 1] /\ req' = [op |-> t.op, txn |-> txns + 1, code |-> code]
      /\ UNCHANGED <<object, expected, signals, fails>>
  BY DEF Command
<1>2. txns \in Nat /\ txns + 1 \in 1 .. TxnBound
  BY <1>1, Bounds DEF OInv, Types
<1>3. req' \in Requests /\ req'.op = t.op /\ req'.txn = txns + 1 /\ req'.code = code
  BY <1>1, <1>2 DEF Requests
<1>4. req' # None
  BY <1>3, NoneDiffers
<1> DEFINE next == txns + 1
<1>5. next \in 0 .. TxnBound /\ host' = [t EXCEPT !.txn = next]
  BY <1>1, <1>2, Bounds
<1> HIDE DEF next
<1>6. /\ host' \in Transactions
      /\ host'.op = t.op /\ host'.txn = next /\ host'.left = t.left /\ host'.first = t.first
      /\ host'.size = t.size /\ host'.offset = t.offset /\ host'.handle = t.handle /\ host'.name = t.name
  BY <1>5 DEF Transactions
<1>7. host' # NoTxn
  BY <1>6, NoTxnFacts DEF Ops
<1> QED
  BY <1>1, <1>2, <1>3, <1>4, <1>6, <1>7 DEF next, Begun

\* A command that leaves the storage alone
LEMMA CommandOInv ==
    ASSUME OInv, NEW t \in Transactions, t.op \in Ops, NEW code \in Codes, Begun(t, code),
           t.left <= t.size, t.first => t.left = t.size,
           t.op \notin {"object", "partial"} => t.left = 0,
           t.op \in {"info", "propList"} => t.name \in Names /\ t.size \in Sizes,
           UNCHANGED store, MixedUp',
           session' \in BOOLEAN, mixed \subseteq mixed', mixed' \in SUBSET (1 .. store.last),
           edit' \in Edits \cup {None},
           answer' \in Answers \cup {None}, sequence' \in {sequence, None},
           \/ propList' \in {propList, None}
           \/ t.op = "propList" /\ code = "ok" /\ propList' \in PropLists /\ propList'.handle = Root,
           answer' # None => /\ answer'.op = t.op /\ answer'.txn = txns + 1 /\ answer'.code = code
                             /\ t.op \notin {"info", "propList", "object", "partial"},
           answer' # None /\ code = "ok" => t.op # "truncate",
           t.op \in {"open", "close"} /\ code = "ok" => sequence' = None /\ propList' = None,
           t.op = "propList" /\ code = "ok" => propList' # None /\ propList'.handle = Root,
           t.op = "object" /\ code = "ok" => t.first /\ (sequence' # None \/ propList' # None),
           t.op = "partial" /\ code = "ok" =>
              t.first /\ edit' # None /\ edit'.handle = t.handle /\ edit'.offset = t.offset
    PROVE  OInv'
<1>1. /\ host = NoTxn /\ answer = None /\ host' \in Transactions /\ host' # NoTxn
      /\ host'.op = t.op /\ host'.txn = txns + 1 /\ host'.left = t.left /\ host'.first = t.first
      /\ host'.size = t.size /\ host'.offset = t.offset /\ host'.handle = t.handle /\ host'.name = t.name
      /\ req' \in Requests /\ req' # None /\ req'.op = t.op /\ req'.txn = txns + 1 /\ req'.code = code
      /\ txns' = txns + 1 /\ txns \in Nat /\ txns + 1 \in 1 .. TxnBound
      /\ UNCHANGED <<object, expected, signals, fails>>
  BY DEF Begun
<1>2. Types
  BY DEF OInv
<1>3. Types'
  <2>1. sequence' \in Description \cup {None} /\ propList' \in PropLists \cup {None}
    BY <1>2 DEF Types
  <2>2. txns' \in 0 .. TxnBound
    BY <1>1, Bounds
  <2> QED
    BY <1>1, <1>2, <2>1, <2>2 DEF Types
<1>4. Transaction'
  <2>1. store.last <= txns /\ store.last \in Nat
    BY <1>2, StorageFacts DEF OInv, Transaction, Types
  <2> QED
    BY <1>1, <2>1 DEF Transaction, Concluding, Receiving
<1>5. Described'
  <2>1. sequence' # None => /\ sequence'.handle \in 1 .. store.last
                            /\ \/ object # None /\ object.handle = sequence'.handle
                               \/ sequence'.handle \in mixed'
    BY <1>1, IdleFacts
  <2>2. propList' # None /\ propList'.handle # Root =>
           propList'.handle \in 1 .. store.last /\ object # None /\ object.handle = propList'.handle
    BY <1>1, IdleFacts
  <2>3. propList' # None /\ propList'.handle = Root =>
           object = None \/ (t.op = "propList" /\ code = "ok" /\ answer' = None)
    BY <1>1, IdleFacts
  <2>4. (Concluding /\ req.op \in {"info", "propList", "object"})' => FALSE
    BY <1>1 DEF Concluding
  <2>5. Receiving("propList")' <=> t.op = "propList" /\ code = "ok" /\ answer' = None
    BY <1>1 DEF Receiving
  <2>6. (Concluding /\ req.op \in {"open", "close"})' => sequence' = None /\ propList' = None
    BY <1>1 DEF Concluding
  <2>7. answer' # None => answer'.code # "invalid"
    BY DEF Codes
  <2> QED
    BY <1>1, <2>1, <2>2, <2>3, <2>4, <2>5, <2>6, <2>7 DEF Described
<1>6. Sending'
  BY <1>1 DEF Sending, Receiving
<1>7. PartSending'
  <2> SUFFICES ASSUME Receiving("partial")' PROVE PartSending'
    BY DEF PartSending
  <2>1. /\ t.op = "partial" /\ code = "ok" /\ host'.first /\ t.left = t.size
        /\ t.offset \in Nat /\ t.size \in Nat
    BY <1>1 DEF Receiving, Transactions
  <2>2. host'.offset + (host'.size - host'.left) = t.offset /\ host'.size - host'.left = 0
    BY <1>1, <2>1
  <2>3. ASSUME t.handle \in (DOMAIN expected \cap DOMAIN store.files) \ mixed
        PROVE  store.files[t.handle].content = Overwritten(expected[t.handle], t.offset, 0, txns + 1)
    <3>1. store.files[t.handle].content = expected[t.handle]
      BY <1>1, <2>3, IdleFacts
    <3>2. expected[t.handle] \in Contents /\ txns + 1 \in 0 .. TxnBound
      BY <1>1, <1>2, <2>3, Bounds DEF Types
    <3> QED
      BY <2>1, <3>1, <3>2, OverwrittenByNothing
  <2>4. EditedTo(host.handle, Overwritten(expected[host.handle], host.offset, host.size - host.left, req.txn))'
    BY <1>1, <2>2, <2>3 DEF EditedTo
  <2> QED
    BY <1>1, <2>1, <2>2, <2>4 DEF PartSending
<1>8. ToBelieve'
  BY <1>1 DEF ToBelieve, Concluding
<1>9. Believed'
  BY <1>1, IdleFacts DEF Believed, SizeKnown
<1>10. WritingUnknown'
  BY <1>1, IdleFacts DEF WritingUnknown, Concluding
<1> QED
  BY <1>3, <1>4, <1>5, <1>6, <1>7, <1>8, <1>9, <1>10 DEF OInv

\* A command that adds no description
LEMMA CommandMixedUp ==
    ASSUME OInv, NEW t, NEW code, Begun(t, code), mixed' = mixed,
           sequence' \in {sequence, None}, propList' \in {propList, None},
           sequence' # None \/ propList' # None => session',
           code = "ok" /\ t.op \in {"info", "propList"} => session',
           t.op = "info" => answer' = None
    PROVE  MixedUp'
<1>1. req' # None /\ req'.op = t.op /\ req'.code = code /\ object' = object /\ host = NoTxn
  BY DEF Begun
<1>2. Confused /\ object # None => object.handle \in mixed
  BY <1>1, IdleFacts
<1>3. sequence # None /\ propList # None =>
         sequence.handle \in mixed /\ (propList.handle # Root => propList.handle \in mixed)
  BY DEF OInv, MixedUp
<1>4. Confused' => Confused
  BY DEF Confused
<1> QED
  BY <1>1, <1>2, <1>3, <1>4 DEF MixedUp

LEMMA ImmediateAnswer ==
    ASSUME OInv, NEW op \in Ops, NEW code \in Codes, txns < TxnBound,
           NEW t, t.op = op, Answer([op |-> t.op, txn |-> txns + 1], code, Root)
    PROVE  /\ answer' \in Answers /\ answer' # None
           /\ answer'.op = op /\ answer'.txn = txns + 1 /\ answer'.code = code
<1>1. txns + 1 \in 1 .. TxnBound
  BY Bounds DEF OInv, Types
<1>2. answer' = [op |-> op, txn |-> txns + 1, code |-> code, handle |-> Root]
  BY DEF Answer
<1>3. answer' \in Answers
  BY <1>1, <1>2, Bounds DEF Answers, EndCodes, Root
<1> QED
  BY <1>2, <1>3, NoneDiffers

LEMMA OpenSessionOInv == ASSUME OInv, OpenSession PROVE OInv'
<1> DEFINE code == IF session THEN "alreadyOpen" ELSE "ok"
           t == [NoTxn EXCEPT !.op = "open"]
<1>1. t \in Transactions /\ t.op = "open" /\ t.left = 0 /\ t.size = 0 /\ ~t.first
  BY NoTxnFacts DEF Transactions, Ops
<1> HIDE DEF t
<1>2. Command(t, code) /\ Answer([op |-> t.op, txn |-> txns + 1], code, Root)
  BY DEF OpenSession, Immediate, t
<1>3. code \in Codes /\ t.op \in Ops
  BY <1>1 DEF Codes, Ops
<1>4. Begun(t, code)
  BY <1>1, <1>2, <1>3, CommandFacts
<1>5. /\ answer' \in Answers /\ answer' # None
      /\ answer'.op = t.op /\ answer'.txn = txns + 1 /\ answer'.code = code
  BY <1>2, <1>3, ImmediateAnswer DEF Command
<1>6. session' = TRUE /\ UNCHANGED <<sequence, propList, edit, store, mixed>>
  BY DEF OpenSession
<1>7. session \/ (sequence = None /\ propList = None)
  BY DEF OInv, MixedUp
<1>8. MixedUp'
  BY <1>1, <1>4, <1>6, CommandMixedUp
<1>9. edit \in Edits \cup {None} /\ mixed \in SUBSET (1 .. store.last)
  BY DEF OInv, Types
<1>10. code = "ok" => sequence' = None /\ propList' = None
  BY <1>6, <1>7
<1> HIDE DEF code
<1> QED
  BY <1>1, <1>3, <1>4, <1>5, <1>6, <1>8, <1>9, <1>10, CommandOInv

LEMMA CloseSessionOInv == ASSUME OInv, CloseSession PROVE OInv'
<1> DEFINE code == PreCheck("ok")
           t == [NoTxn EXCEPT !.op = "close"]
<1>1. t \in Transactions /\ t.op = "close" /\ t.left = 0 /\ t.size = 0 /\ ~t.first
  BY NoTxnFacts DEF Transactions, Ops
<1> HIDE DEF t
<1>2. Command(t, code) /\ Answer([op |-> t.op, txn |-> txns + 1], code, Root)
  BY DEF CloseSession, Immediate, t
<1>3. code \in Codes /\ t.op \in Ops /\ (code = "ok" => session)
  BY <1>1 DEF Codes, Ops, PreCheck
<1> HIDE DEF code
<1>4. Begun(t, code)
  BY <1>1, <1>2, <1>3, CommandFacts
<1>5. /\ answer' \in Answers /\ answer' # None
      /\ answer'.op = t.op /\ answer'.txn = txns + 1 /\ answer'.code = code
  BY <1>2, <1>3, ImmediateAnswer DEF Command
<1>6. /\ session' = FALSE /\ UNCHANGED <<mixed, edit, store>>
      /\ session => sequence' = None /\ propList' = None
      /\ ~session => UNCHANGED <<sequence, propList>>
  BY DEF CloseSession, ForgetDescriptions, OInv, Types
<1>7. sequence' = None /\ propList' = None
  BY <1>6 DEF OInv, MixedUp
<1>8. MixedUp'
  BY <1>1, <1>4, <1>6, <1>7, CommandMixedUp
<1>9. edit' \in Edits \cup {None} /\ mixed \subseteq mixed' /\ mixed' \in SUBSET (1 .. store.last)
  BY <1>6 DEF OInv, Types
<1>10. sequence' \in {sequence, None} /\ propList' \in {propList, None} /\ session' \in BOOLEAN
  BY <1>6, <1>7
<1>11. UNCHANGED store
  BY <1>6
<1>12. t.left <= t.size /\ (t.first => t.left = t.size)
  BY <1>1
<1> QED
  BY <1>1, <1>3, <1>4, <1>5, <1>7, <1>8, <1>9, <1>10, <1>11, <1>12, CommandOInv

LEMMA SendObjectInfoOInv ==
    ASSUME OInv, NEW name \in Names, NEW size \in Sizes, NEW good \in BOOLEAN,
           SendObjectInfo(name, size, good)
    PROVE  OInv'
<1> DEFINE code == PreCheck("ok")
           t == [NoTxn EXCEPT !.op = "info", !.name = name, !.size = size, !.good = good]
<1>1. t \in Transactions /\ t.op = "info" /\ t.left = 0 /\ t.size = size /\ ~t.first /\ t.name = name
      /\ size \in Nat
  BY NoTxnFacts, Bounds DEF Transactions, Ops
<1> HIDE DEF t
<1>2. Command(t, code)
  BY DEF SendObjectInfo, t
<1>3. code \in Codes /\ t.op \in Ops /\ (code = "ok" => session)
  BY <1>1 DEF Codes, Ops, PreCheck
<1> HIDE DEF code
<1>4. Begun(t, code)
  BY <1>1, <1>2, <1>3, CommandFacts
<1>5. answer' = None /\ UNCHANGED <<session, mixed, sequence, propList, edit, store>>
  BY <1>4 DEF SendObjectInfo, Begun
<1>6. MixedUp'
  <2>1. sequence # None \/ propList # None => session
    BY DEF OInv, MixedUp
  <2> QED
    BY <1>1, <1>3, <1>4, <1>5, <2>1, CommandMixedUp
<1>7. edit \in Edits \cup {None} /\ mixed \in SUBSET (1 .. store.last) /\ session \in BOOLEAN
  BY DEF OInv, Types
<1> QED
  BY <1>1, <1>3, <1>4, <1>5, <1>6, <1>7, CommandOInv

LEMMA SendObjectPropListOInv ==
    ASSUME OInv, NEW name \in Names, NEW size \in Sizes, NEW good \in BOOLEAN, NEW parentOk \in BOOLEAN,
           SendObjectPropList(name, size, good, parentOk)
    PROVE  OInv'
<1> DEFINE code == PreCheck(IF parentOk THEN "ok" ELSE "badHandle")
           t == [NoTxn EXCEPT !.op = "propList", !.name = name, !.size = size, !.good = good]
           list == [handle |-> Root, size |-> size, count |-> 0, txn |-> txns + 1]
<1>1. t \in Transactions /\ t.op = "propList" /\ t.left = 0 /\ t.size = size /\ ~t.first /\ t.name = name
      /\ size \in Nat
  BY NoTxnFacts, Bounds DEF Transactions, Ops
<1> HIDE DEF t
<1>2. Command(t, code)
  BY DEF SendObjectPropList, t
<1>3. code \in Codes /\ t.op \in Ops /\ (code = "ok" => session)
  BY <1>1 DEF Codes, Ops, PreCheck
<1>4. answer' = answer /\ UNCHANGED <<session, sequence, edit, store>>
      /\ propList' = IF code = "ok" THEN list ELSE propList
  BY DEF SendObjectPropList
<1>11. mixed' = IF code = "ok" THEN mixed \cup Pending(sequence) ELSE mixed
  BY Zenon DEF SendObjectPropList
<1> HIDE DEF code
<1>5. Begun(t, code)
  BY <1>1, <1>2, <1>3, CommandFacts
<1>6. list \in PropLists /\ list.handle = Root /\ list # None
  <2>1. list \in PropLists /\ list.handle = Root
    BY <1>5, Bounds DEF Begun, PropLists, Root
  <2> QED
    BY <2>1, NoneDiffers
<1> HIDE DEF list
<1>7. edit \in Edits \cup {None} /\ mixed \in SUBSET (1 .. store.last) /\ session \in BOOLEAN
  BY DEF OInv, Types
<1>8. mixed \subseteq mixed' /\ mixed' \in SUBSET (1 .. store.last)
      /\ (code = "ok" /\ sequence # None => sequence.handle \in mixed')
  <2>1. sequence # None => sequence.handle \in 1 .. store.last /\ sequence.handle # Root
    BY DEF OInv, Described, Root
  <2>2. Pending(sequence) \subseteq 1 .. store.last
        /\ (sequence # None => sequence.handle \in Pending(sequence))
    BY <2>1 DEF Pending
  <2> QED
    BY <1>7, <1>11, <2>2
<1>9. answer' = None
  BY <1>4, <1>5 DEF Begun
<1>10. MixedUp'
  <2>1. /\ req' # None /\ req'.op = "propList" /\ req'.code = code /\ object' = object /\ host = NoTxn
        /\ sequence' = sequence
    BY <1>1, <1>4, <1>5 DEF Begun
  <2>2. /\ Confused /\ object # None => object.handle \in mixed
        /\ sequence # None => \/ object # None /\ object.handle = sequence.handle
                              \/ sequence.handle \in mixed
    BY <2>1, IdleFacts
  <2>3. /\ sequence # None => session
        /\ propList # None => session
        /\ sequence # None /\ propList # None =>
              sequence.handle \in mixed /\ (propList.handle # Root => propList.handle \in mixed)
    BY DEF OInv, MixedUp
  <2>4. sequence # None /\ propList' # None =>
           sequence.handle \in mixed' /\ (propList'.handle # Root => propList'.handle \in mixed')
    <3>1. CASE code = "ok"
      BY <1>4, <1>6, <1>8, <2>1, <3>1
    <3>2. CASE code # "ok"
      BY <1>4, <1>11, <2>1, <2>3, <3>2
    <3> QED
      BY <3>1, <3>2
  <2>5. Confused' /\ object # None => object.handle \in mixed'
    <3> SUFFICES ASSUME sequence # None, sequence.handle \in mixed', object # None
                 PROVE  object.handle \in mixed'
      BY <2>1 DEF Confused
    <3> QED
      BY <1>8, <2>2 DEF Confused
  <2>6. (sequence' # None => session') /\ (req'.code = "ok" => session')
    BY <1>3, <1>4, <2>1, <2>3
  <2>7. propList' # None => session'
    BY <1>3, <1>4, <2>3
  <2> QED
    BY <2>1, <2>4, <2>5, <2>6, <2>7 DEF MixedUp
<1> QED
  BY <1>1, <1>3, <1>4, <1>5, <1>6, <1>7, <1>8, <1>9, <1>10, <1>11, CommandOInv

LEMMA SendObjectOInv ==
    ASSUME OInv, NEW size \in Sizes, SendObject(size) PROVE OInv'
<1> DEFINE code == PreCheck(IF sequence = None /\ propList = None THEN "noInfo" ELSE "ok")
           t == [NoTxn EXCEPT !.op = "object", !.size = size, !.left = size, !.first = TRUE]
<1>1. t \in Transactions /\ t.op = "object" /\ t.left = size /\ t.size = size /\ t.first /\ size \in Nat
  BY NoTxnFacts, Bounds DEF Transactions, Ops
<1> HIDE DEF t
<1>2. Command(t, code)
  BY DEF SendObject, t
<1>3. code \in Codes /\ t.op \in Ops /\ (code = "ok" => sequence # None \/ propList # None)
  BY <1>1 DEF Codes, Ops, PreCheck
<1> HIDE DEF code
<1>4. Begun(t, code)
  BY <1>1, <1>2, <1>3, CommandFacts
<1>5. answer' = None /\ UNCHANGED <<session, mixed, sequence, propList, edit, store>>
  BY <1>4 DEF SendObject, Begun
<1>6. MixedUp'
  <2>1. sequence # None \/ propList # None => session
    BY DEF OInv, MixedUp
  <2> QED
    BY <1>1, <1>3, <1>4, <1>5, <2>1, CommandMixedUp
<1>7. edit \in Edits \cup {None} /\ mixed \in SUBSET (1 .. store.last) /\ session \in BOOLEAN
  BY DEF OInv, Types
<1> QED
  BY <1>1, <1>3, <1>4, <1>5, <1>6, <1>7, CommandOInv

LEMMA EditCheckCode ==
    ASSUME NEW h
    PROVE  /\ PreCheck(EditCheck(h)) \in Codes
           /\ PreCheck(EditCheck(h)) = "ok" => session /\ edit # None /\ edit.handle = h
BY DEF PreCheck, EditCheck, Codes

LEMMA BeginEditObjectOInv ==
    ASSUME OInv, NEW h \in DOMAIN store.files, BeginEditObject(h) PROVE OInv'
<1> DEFINE code == PreCheck(IF h \in DOMAIN store.files THEN "ok" ELSE "badHandle")
           t == [NoTxn EXCEPT !.op = "begin", !.handle = h]
           e == [handle |-> h, offset |-> 0]
<1>0. h \in Handles /\ h \in 0 .. TxnBound
  BY StorageFacts, Bounds DEF OInv, Types, Handles
<1>1. t \in Transactions /\ t.op = "begin" /\ t.left = 0 /\ t.size = 0 /\ ~t.first
  BY <1>0, NoTxnFacts DEF Transactions, Ops
<1> HIDE DEF t
<1>2. Command(t, code) /\ Answer([op |-> t.op, txn |-> txns + 1], code, Root)
  BY DEF BeginEditObject, Immediate, t
<1>3. code \in Codes /\ t.op \in Ops
  BY <1>1 DEF Codes, Ops, PreCheck
<1>4. UNCHANGED <<session, mixed, sequence, propList, store>> /\ edit' \in {edit, e}
  BY DEF BeginEditObject
<1> HIDE DEF code
<1>5. Begun(t, code)
  BY <1>1, <1>2, <1>3, CommandFacts
<1>6. /\ answer' \in Answers /\ answer' # None
      /\ answer'.op = t.op /\ answer'.txn = txns + 1 /\ answer'.code = code
  BY <1>2, <1>3, ImmediateAnswer DEF Command
<1>7. MixedUp'
  <2>1. sequence # None \/ propList # None => session
    BY DEF OInv, MixedUp
  <2> QED
    BY <1>1, <1>4, <1>5, <2>1, CommandMixedUp
<1>8. edit' \in Edits \cup {None} /\ mixed \in SUBSET (1 .. store.last) /\ session \in BOOLEAN
  BY <1>0, <1>4 DEF OInv, Types, Edits
<1> QED
  BY <1>1, <1>3, <1>4, <1>5, <1>6, <1>7, <1>8, CommandOInv

LEMMA EndEditObjectOInv ==
    ASSUME OInv, NEW h \in DOMAIN store.files, EndEditObject(h) PROVE OInv'
<1> DEFINE code == PreCheck(EditCheck(h))
           t == [NoTxn EXCEPT !.op = "end", !.handle = h]
<1>0. h \in 0 .. TxnBound
  BY StorageFacts, Bounds DEF OInv, Types, Handles
<1>1. t \in Transactions /\ t.op = "end" /\ t.left = 0 /\ t.size = 0 /\ ~t.first
  BY <1>0, NoTxnFacts DEF Transactions, Ops
<1> HIDE DEF t
<1>2. Command(t, code) /\ Answer([op |-> t.op, txn |-> txns + 1], code, Root)
  BY DEF EndEditObject, Immediate, t
<1>3. code \in Codes /\ t.op \in Ops
  BY <1>1, EditCheckCode DEF Ops
<1>4. UNCHANGED <<session, mixed, sequence, propList, store>> /\ edit' \in {edit, None}
  BY DEF EndEditObject
<1> HIDE DEF code
<1>5. Begun(t, code)
  BY <1>1, <1>2, <1>3, CommandFacts
<1>6. /\ answer' \in Answers /\ answer' # None
      /\ answer'.op = t.op /\ answer'.txn = txns + 1 /\ answer'.code = code
  BY <1>2, <1>3, ImmediateAnswer DEF Command
<1>7. MixedUp'
  <2>1. sequence # None \/ propList # None => session
    BY DEF OInv, MixedUp
  <2> QED
    BY <1>1, <1>4, <1>5, <2>1, CommandMixedUp
<1>8. edit' \in Edits \cup {None} /\ mixed \in SUBSET (1 .. store.last) /\ session \in BOOLEAN
  BY <1>4 DEF OInv, Types
<1> QED
  BY <1>1, <1>3, <1>4, <1>5, <1>6, <1>7, <1>8, CommandOInv

LEMMA SendPartialObjectOInv ==
    ASSUME OInv, NEW h \in DOMAIN store.files, NEW offset \in Sizes, NEW size \in Sizes,
           SendPartialObject(h, offset, size)
    PROVE  OInv'
<1> DEFINE code == PreCheck(EditCheck(h))
           t == [NoTxn EXCEPT !.op = "partial", !.handle = h, !.offset = offset, !.size = size,
                              !.left = size, !.first = TRUE]
<1>0. h \in 0 .. TxnBound
  BY StorageFacts, Bounds DEF OInv, Types, Handles
<1>1. t \in Transactions /\ t.op = "partial" /\ t.left = size /\ t.size = size /\ t.first
      /\ t.handle = h /\ t.offset = offset /\ size \in Nat /\ offset \in Nat
  BY <1>0, NoTxnFacts, Bounds DEF Transactions, Ops
<1> HIDE DEF t
<1>2. Command(t, code)
  BY DEF SendPartialObject, t
<1>3. code \in Codes /\ t.op \in Ops /\ (code = "ok" => edit # None /\ edit.handle = h)
  BY <1>1, EditCheckCode DEF Ops
<1>4. UNCHANGED <<session, mixed, answer, sequence, propList, store>>
      /\ edit' = IF code = "ok" THEN [edit EXCEPT !.offset = offset] ELSE edit
  BY DEF SendPartialObject
<1> HIDE DEF code
<1>5. Begun(t, code)
  BY <1>1, <1>2, <1>3, CommandFacts
<1>6. answer' = None
  BY <1>4, <1>5 DEF Begun
<1>7. MixedUp'
  <2>1. sequence # None \/ propList # None => session
    BY DEF OInv, MixedUp
  <2> QED
    BY <1>1, <1>4, <1>5, <2>1, CommandMixedUp
<1>8. edit \in Edits \cup {None} /\ mixed \in SUBSET (1 .. store.last) /\ session \in BOOLEAN
  BY DEF OInv, Types
<1>9. code = "ok" => edit' \in Edits /\ edit'.handle = h /\ edit'.offset = offset
  BY <1>1, <1>3, <1>4, <1>8 DEF Edits
<1>10. edit' \in Edits \cup {None} /\ (code = "ok" => edit' # None)
  BY <1>4, <1>8, <1>9, NoneDiffers
<1> QED
  BY <1>1, <1>3, <1>4, <1>5, <1>6, <1>7, <1>8, <1>9, <1>10, CommandOInv

LEMMA TruncateObjectOInv ==
    ASSUME OInv, NEW h \in DOMAIN store.files, NEW size \in Sizes, TruncateObject(h, size)
    PROVE  OInv'
<1> DEFINE code == PreCheck(EditCheck(h))
           t == [NoTxn EXCEPT !.op = "truncate", !.handle = h, !.size = size]
<1>0. h \in 0 .. TxnBound /\ IsStorage(store)
  BY StorageFacts, Bounds DEF OInv, Types, Handles
<1>1. t \in Transactions /\ t.op = "truncate" /\ t.left = 0 /\ t.size = size /\ ~t.first
      /\ t.handle = h /\ size \in Nat
  BY <1>0, NoTxnFacts, Bounds DEF Transactions, Ops
<1> HIDE DEF t
<1>2. Command(t, code) /\ Answer([op |-> t.op, txn |-> txns + 1], code, Root)
  BY DEF TruncateObject, Immediate, t
<1>3. code \in Codes /\ t.op \in Ops
  BY <1>1, EditCheckCode DEF Ops
<1>4. UNCHANGED <<session, mixed, sequence, propList, edit>>
      /\ store' = IF code = "ok" THEN TruncateItem(store, h, size) ELSE store
  BY DEF TruncateObject
<1> HIDE DEF code
<1>5. Begun(t, code)
  BY <1>1, <1>2, <1>3, CommandFacts
<1>6. /\ answer' \in Answers /\ answer' # None
      /\ answer'.op = t.op /\ answer'.txn = txns + 1 /\ answer'.code = code
  BY <1>2, <1>3, ImmediateAnswer DEF Command
<1>7. MixedUp'
  <2>1. sequence # None \/ propList # None => session
    BY DEF OInv, MixedUp
  <2> QED
    BY <1>1, <1>4, <1>5, <2>1, CommandMixedUp
<1>8. edit \in Edits \cup {None} /\ mixed \in SUBSET (1 .. store.last) /\ session \in BOOLEAN
  BY DEF OInv, Types
<1>9. CASE code # "ok"
  BY <1>1, <1>3, <1>4, <1>5, <1>6, <1>7, <1>8, <1>9, CommandOInv
<1>10. CASE code = "ok"
  <2>1. /\ host = NoTxn /\ host' \in Transactions /\ host' # NoTxn
        /\ host'.op = "truncate" /\ host'.txn = txns + 1 /\ host'.left = 0 /\ ~host'.first
        /\ host'.size = size /\ host'.handle = h
        /\ req' \in Requests /\ req' # None /\ req'.op = "truncate" /\ req'.txn = txns + 1 /\ req'.code = "ok"
        /\ txns' = txns + 1 /\ txns \in Nat /\ txns + 1 \in 1 .. TxnBound
        /\ UNCHANGED <<object, expected, signals, fails>>
        /\ answer'.op = "truncate"
    BY <1>1, <1>5, <1>6, <1>10 DEF Begun
  <2>2. /\ IsStorage(store') /\ OnlyChanges(store, store', h)
        /\ store'.files[h].content = Resized(store.files[h].content, size) /\ store'.files[h].size = size
        /\ store'.writing = store.writing
    BY <1>0, <1>1, <1>4, <1>10, TruncateItemFacts
  <2>3. DOMAIN store'.files = DOMAIN store.files /\ store'.last = store.last
        /\ store.closed \subseteq store'.closed
        /\ \A k \in DOMAIN store.files \ {h} : /\ store'.files[k].content = store.files[k].content
                                               /\ store'.files[k].size = store.files[k].size
    BY <2>2 DEF OnlyChanges
  <2>4. Types'
    <3>1. Types /\ txns' \in 0 .. TxnBound
      BY <2>1, Bounds DEF OInv
    <3>2. host'.left <= host'.size
      BY <1>1, <2>1
    <3> QED
      BY <1>4, <1>6, <2>1, <2>2, <2>3, <3>1, <3>2 DEF Types
  <2>5. Transaction'
    <3>1. store.last <= txns /\ store.last \in Nat
      BY <1>0, StorageFacts DEF OInv, Transaction
    <3> QED
      BY <1>6, <2>1, <2>3, <3>1 DEF Transaction, Concluding, Receiving
  <2>6. Described'
    <3>1. sequence # None => /\ sequence.handle \in 1 .. store.last
                             /\ \/ object # None /\ object.handle = sequence.handle
                                \/ sequence.handle \in mixed
      BY <2>1, IdleFacts
    <3>2. propList # None /\ propList.handle # Root =>
             propList.handle \in 1 .. store.last /\ object # None /\ object.handle = propList.handle
      BY <2>1, IdleFacts
    <3>3. propList # None /\ propList.handle = Root => object = None
      BY <2>1, IdleFacts
    <3>4. answer'.code # "invalid"
      BY <1>3, <1>6 DEF Codes
    <3> QED
      BY <1>4, <1>6, <2>1, <2>3, <3>1, <3>2, <3>3, <3>4 DEF Described, Concluding, Receiving
  <2>7. Sending' /\ PartSending'
    BY <1>6 DEF Sending, PartSending, Receiving
  <2>8. ToBelieve'
    <3>1. ASSUME h \in DOMAIN expected \ mixed
          PROVE  /\ store'.files[h].content = Resized(expected[h], size)
                 /\ store'.files[h].size = Len(store'.files[h].content)
      <4>1. store.files[h].content = expected[h]
        BY <2>1, <3>1, IdleFacts
      <4>2. store.files[h].content \in Contents
        BY <1>0, StorageFacts
      <4> QED
        BY <1>1, <2>2, <4>1, <4>2, ResizedFacts
    <3> QED
      BY <1>4, <2>1, <2>3, <3>1 DEF ToBelieve, EditedTo, SizeKnown
  <2>9. Believed'
    <3>1. Touched' = {h}
      BY <2>1 DEF Touched
    <3>2. \A k \in (DOMAIN expected \cap DOMAIN store.files) \ mixed :
             store.files[k].content = expected[k] /\ SizeKnown(k)
      BY <2>1, IdleFacts
    <3>3. ASSUME NEW k \in (DOMAIN expected \cap DOMAIN store.files) \ ({h} \cup mixed)
          PROVE  store'.files[k].content = expected[k] /\ SizeKnown(k)'
      BY <2>3, <3>2, <3>3 DEF SizeKnown
    <3> QED
      BY <1>4, <2>1, <2>3, <3>1, <3>3 DEF Believed
  <2>10. WritingUnknown'
    <3>1. store.writing \notin DOMAIN expected \ mixed
      BY <2>1, IdleFacts
    <3> QED
      BY <1>4, <2>1, <2>2, <3>1 DEF WritingUnknown, Concluding
  <2> QED
    BY <1>7, <2>4, <2>5, <2>6, <2>7, <2>8, <2>9, <2>10 DEF OInv
<1> QED
  BY <1>9, <1>10

-----------------------------------------------------------------------------
(* Data phases. *)

\* A data phase that fails, or goes on after it has failed: what it has done
\* to the object it was about is not believed.
LEMMA FailureOInv ==
    ASSUME OInv, req # None, answer = None,
           req' \in Requests, req'.op = req.op, req'.txn = req.txn, req'.code = "ok" => req.code = "ok",
           answer' \in Answers \cup {None},
           answer' # None => answer'.op = req.op /\ answer'.txn = req.txn /\ answer'.code # "ok",
           answer' = None => req'.code # "ok",
           answer' # None /\ answer'.code = "invalid" =>
              /\ sequence' # None => sequence.handle \in mixed
              /\ propList' # None => propList'.handle = Root,
           Receiving("propList") => answer' # None /\ answer'.code = "invalid",
           host' \in Transactions, host' # NoTxn, host'.op = host.op, host'.txn = host.txn,
           host'.name = host.name, host'.size = host.size, host'.handle = host.handle,
           host'.left <= host.left, host'.first => host'.left = host'.size,
           UNCHANGED <<session, object, expected, mixed, txns, signals>>, fails' \in 0 .. FailBound,
           edit' \in Edits \cup {None}, sequence' \in {sequence, None}, propList' \in {propList, None},
           IsStorage(store'), store'.last = store.last, DOMAIN store'.files = DOMAIN store.files,
           \A k \in DOMAIN store.files \ (Touched \cup mixed) :
              store'.files[k].content = store.files[k].content /\ (SizeKnown(k) => SizeKnown(k)'),
           store'.writing \in {store.writing, Root}
    PROVE  OInv'
<1>1. Types /\ host.left \in Nat /\ host'.left \in Nat /\ host.size \in Nat
  BY DEF OInv, Types, Transactions
<1>2. ~Concluding /\ ~Concluding' /\ (\A op : ~Receiving(op)')
  BY DEF Concluding, Receiving
<1>3. Types'
  <2>1. host'.left <= host'.size
    BY <1>1 DEF Types
  <2>2. host'.op \notin {"object", "partial"} => host'.left = 0
    BY <1>1 DEF Types
  <2> QED
    BY <1>1, <2>1, <2>2 DEF Types
<1>4. Transaction'
  <2>1. req' # None
    BY NoneDiffers
  <2> QED
    BY <1>2, <2>1 DEF OInv, Transaction
<1>5. MixedUp'
  <2>1. MixedUp
    BY DEF OInv
  <2>2. req # None /\ (Confused' => Confused)
    BY DEF Confused
  <2> QED
    BY <1>2, <2>1, <2>2 DEF MixedUp
<1>6. Described'
  <2>1. Described
    BY DEF OInv
  <2>2. sequence' # None => /\ sequence' = sequence /\ sequence.handle \in 1 .. store.last
                            /\ \/ object # None /\ object.handle = sequence.handle
                               \/ sequence.handle \in mixed
    BY <1>2, <2>1 DEF Described
  <2>3. propList' # None /\ propList'.handle # Root =>
           propList' = propList /\ propList.handle \in 1 .. store.last
           /\ object # None /\ object.handle = propList.handle
    BY <1>2, <2>1 DEF Described
  <2>4. propList' # None /\ propList'.handle = Root =>
           \/ object = None
           \/ req'.op = "propList" /\ answer' # None /\ answer'.code = "invalid"
    BY <2>1 DEF Described, Receiving
  <2> QED
    BY <1>2, <2>2, <2>3, <2>4, NoneDiffers DEF Described
<1>7. Sending' /\ PartSending' /\ ToBelieve'
  BY <1>2 DEF Sending, PartSending, ToBelieve
<1>8. Touched' = Touched
  BY DEF Touched
<1>9. Believed'
  BY <1>8 DEF OInv, Believed
<1>10. WritingUnknown'
  <2>1. Root \notin DOMAIN expected
    BY <1>1 DEF Types, Root
  <2> QED
    BY <1>2, <1>8, <2>1, NoneDiffers DEF OInv, WritingUnknown
<1> QED
  BY <1>3, <1>4, <1>5, <1>6, <1>7, <1>9, <1>10 DEF OInv

LEMMA WaitingFacts ==
    ASSUME OInv, NEW op \in Ops, Waiting(op)
    PROVE  /\ req # None /\ answer = None /\ req.op = op /\ host.op = op /\ host.txn = req.txn
           /\ host # NoTxn /\ req \in Requests /\ host \in Transactions /\ ~Concluding
           /\ (Receiving(op) <=> req.code = "ok") /\ (\A other : Receiving(other) => other = op)
BY DEF OInv, Waiting, Transaction, Types, Concluding, Receiving

LEMMA AnswerFacts ==
    ASSUME NEW r \in Requests, NEW code \in EndCodes, NEW handle \in 0 .. TxnBound, Answer(r, code, handle)
    PROVE  /\ answer' \in Answers /\ answer' # None
           /\ answer'.op = r.op /\ answer'.txn = r.txn /\ answer'.code = code /\ answer'.handle = handle
<1>1. answer' = [op |-> r.op, txn |-> r.txn, code |-> code, handle |-> handle]
  BY DEF Answer
<1>2. r.op \in Ops /\ r.txn \in 1 .. TxnBound
  BY DEF Requests
<1>3. answer' \in Answers
  BY <1>1, <1>2 DEF Answers
<1> QED
  BY <1>1, <1>3, NoneDiffers

\* Data of an operation that has failed already
LEMMA IgnoredOInv ==
    ASSUME OInv, NEW op \in Ops, Waiting(op), req.code # "ok", Ignored,
           UNCHANGED <<host, object, expected, mixed>>, UNCHANGED budget
    PROVE  OInv'
<1>1. /\ req # None /\ answer = None /\ req.op = op /\ host.op = op /\ host.txn = req.txn
      /\ host # NoTxn /\ req \in Requests /\ host \in Transactions /\ ~Receiving("propList")
  BY WaitingFacts DEF Receiving
<1>2. req.code \in EndCodes /\ req.code # "invalid" /\ Root \in 0 .. TxnBound
  BY <1>1, Bounds DEF Requests, Codes, EndCodes, Root
<1>3. Answer(req, req.code, Root) /\ UNCHANGED <<session, req, sequence, propList, edit, store>>
  BY DEF Ignored
<1>4. answer' \in Answers /\ answer' # None /\ answer'.op = req.op /\ answer'.txn = req.txn /\ answer'.code = req.code
  BY <1>1, <1>2, <1>3, AnswerFacts
<1>5. UNCHANGED <<txns, signals, fails>>
  BY DEF budget
<1>6. Types /\ host.left \in Nat /\ (host.first => host.left = host.size)
  BY DEF OInv, Types, Transactions, Transaction
<1>7. IsStorage(store') /\ (\A k : SizeKnown(k) => SizeKnown(k)')
  BY <1>3, <1>6 DEF Types, SizeKnown
<1>8. edit' \in Edits \cup {None} /\ fails' \in 0 .. FailBound /\ host'.left <= host.left
  BY <1>3, <1>5, <1>6 DEF Types
<1> QED
  BY <1>1, <1>2, <1>3, <1>4, <1>5, <1>6, <1>7, <1>8, FailureOInv

\* The data set of a description is in order: its object is there.
LEMMA AddedOInv ==
    ASSUME OInv, NEW op \in {"info", "propList"}, Waiting(op), req.code = "ok",
           NEW added, added = AddItem(store, host.name, host.size),
           store' = added.store, Answer(req, "ok", added.handle),
           UNCHANGED <<session, req, edit, host, object, expected, txns, signals, fails>>,
           op = "info" => /\ sequence' \in Description /\ sequence'.handle = added.handle
                          /\ propList' = None /\ mixed' = mixed,
           op = "propList" => /\ propList' \in PropLists /\ propList'.handle = added.handle
                              /\ sequence' = sequence
                              /\ mixed' = IF sequence = None THEN mixed ELSE mixed \cup {added.handle}
    PROVE  OInv'
<1>1. /\ req # None /\ answer = None /\ req.op = op /\ host.op = op /\ host.txn = req.txn
      /\ host # NoTxn /\ req \in Requests /\ host \in Transactions /\ ~Concluding /\ Receiving(op)
  BY WaitingFacts DEF Ops
<1>2. Types /\ host.name \in Names /\ host.size \in Sizes /\ host.size \in Nat /\ host.left = 0
  BY <1>1, Bounds DEF OInv, Types
<1>3. store.last < txns /\ txns <= TxnBound /\ txns \in Nat /\ store.last \in Nat
      /\ TxnBound \in Nat /\ IsStorage(store) /\ store.last < TxnBound
  <2>1. store.last < txns
    BY <1>1 DEF OInv, Transaction
  <2>2. IsStorage(store) /\ store.last \in Nat
    BY <1>2, StorageFacts DEF Types
  <2> QED
    BY <1>2, <2>1, <2>2, Bounds DEF Types
<1>4. /\ IsStorage(store') /\ added.handle \in 1 .. store'.last
      /\ store'.last \in store.last .. store.last + 1
      /\ DOMAIN store'.files \subseteq DOMAIN store.files \cup {store.last + 1}
      /\ \A k \in DOMAIN store.files : store'.files[k] = store.files[k]
      /\ store.closed \subseteq store'.closed /\ store'.writing = store.writing
  BY <1>2, <1>3, AddItemFacts
<1>5. added.handle \in 0 .. TxnBound /\ added.handle # Root /\ store'.last \in Nat /\ store'.last <= txns
  BY <1>3, <1>4 DEF Root
<1>6. /\ answer' \in Answers /\ answer' # None /\ answer'.op = op /\ answer'.txn = req.txn
      /\ answer'.code = "ok" /\ answer'.handle = added.handle
  BY <1>1, <1>5, AnswerFacts DEF EndCodes, Codes
<1>7. mixed \subseteq mixed' /\ mixed' \in SUBSET (1 .. store'.last)
  <2>1. mixed \in SUBSET (1 .. store.last)
    BY <1>2 DEF Types
  <2>2. mixed \in SUBSET (1 .. store'.last)
    BY <1>3, <1>4, <2>1
  <2>3. CASE op = "info"
    BY <2>2, <2>3
  <2>4. CASE op = "propList"
    BY <1>4, <2>2, <2>4
  <2> QED
    BY <2>3, <2>4
<1>8. MixedUp'
  <2>1. MixedUp /\ Described
    BY DEF OInv
  <2>2. session /\ (Concluding' /\ req' = req /\ req # None /\ object' = object)
    BY <1>1, <1>6, <2>1 DEF MixedUp, Concluding, Receiving
  <2>3. CASE op = "info"
    BY <1>1, <2>1, <2>2, <2>3 DEF MixedUp
  <2>4. CASE op = "propList"
    <3>1. propList # None /\ propList' # None
      BY <1>1, <2>1, <2>4, NoneDiffers DEF Described
    <3>2. ASSUME sequence # None
          PROVE  sequence.handle \in mixed /\ added.handle \in mixed'
                 /\ (object # None => object.handle \in mixed)
      <4>1. sequence.handle \in mixed
        BY <2>1, <3>1, <3>2 DEF MixedUp
      <4>2. object # None => object.handle \in mixed
        BY <1>1, <2>1, <3>2, <4>1 DEF MixedUp, Confused
      <4> QED
        BY <2>4, <3>2, <4>1, <4>2
    <3> QED
      BY <1>7, <2>2, <2>4, <3>1, <3>2 DEF MixedUp, Confused
  <2> QED
    BY <2>3, <2>4
<1>9. /\ op = "info" => sequence' # None /\ propList' = None
      /\ op = "propList" => /\ propList' # None /\ sequence' = sequence
                            /\ sequence # None => /\ sequence.handle \in mixed'
                                                  /\ sequence.handle \in 1 .. store.last
  <2>1. Described /\ MixedUp
    BY DEF OInv
  <2>2. op = "propList" => propList # None
    BY <1>1, <2>1 DEF Described
  <2> QED
    BY <1>7, <2>1, <2>2, NoneDiffers DEF Described, MixedUp
<1>10. Types'
  <2>1. sequence' \in Description \cup {None} /\ propList' \in PropLists \cup {None}
    BY <1>2, <1>9 DEF Types
  <2>2. (object # None => object.handle <= store'.last) /\ DOMAIN expected \subseteq 1 .. store'.last
    <3>1. DOMAIN expected \subseteq 1 .. store.last /\ (object # None => object.handle <= store.last /\ object.handle \in Nat)
      BY <1>2, Bounds DEF Types, Objects, Handles
    <3> QED
      BY <1>3, <1>4, <3>1
  <2> QED
    BY <1>2, <1>4, <1>6, <1>7, <2>1, <2>2 DEF Types
<1>11. Transaction'
  <2>1. ~Receiving("info")' /\ ~Receiving("propList")'
    BY <1>6 DEF Receiving
  <2>2. req' = req /\ host' = host
    OBVIOUS
  <2>3. Transaction
    BY DEF OInv
  <2> QED
    BY <1>1, <1>5, <1>6, <2>1, <2>2, <2>3 DEF Transaction, Concluding
<1>12. Described'
  <2>1. Concluding' /\ req'.op = op /\ req' = req /\ answer'.code # "invalid" /\ (\A other : ~Receiving(other)')
    BY <1>1, <1>6 DEF Concluding, Receiving
  <2>2. sequence' # None => \/ op = "info" /\ sequence'.handle = added.handle
                            \/ op = "propList" /\ sequence'.handle \in mixed'
                               /\ sequence'.handle \in 1 .. store'.last
    BY <1>3, <1>4, <1>9
  <2>3. propList' # None => op = "propList" /\ propList'.handle = added.handle /\ propList'.handle # Root
    BY <1>5, <1>9
  <2> QED
    BY <1>4, <1>5, <1>6, <1>9, <2>1, <2>2, <2>3 DEF Described
<1>13. Sending' /\ PartSending'
  BY <1>6 DEF Sending, PartSending, Receiving
<1>14. ToBelieve'
  BY <1>1 DEF ToBelieve
<1>15. Believed'
  <2>1. Touched = {} /\ Touched' = {}
    BY <1>1 DEF Touched
  <2>2. ASSUME NEW k \in (DOMAIN expected \cap DOMAIN store'.files) \ mixed'
        PROVE  store'.files[k].content = expected[k] /\ SizeKnown(k)'
    <3>1. DOMAIN expected \subseteq 1 .. store.last
      BY <1>2 DEF Types
    <3>2. k \in DOMAIN store.files
      BY <1>3, <1>4, <2>2, <3>1
    <3>3. store.files[k].content = expected[k] /\ SizeKnown(k)
      BY <1>7, <2>1, <2>2, <3>2 DEF OInv, Believed
    <3> QED
      BY <1>4, <3>2, <3>3 DEF SizeKnown
  <2> QED
    BY <2>1, <2>2 DEF Believed
<1>16. WritingUnknown'
  <2>1. store.writing \notin DOMAIN expected \ mixed
    BY <1>1 DEF OInv, WritingUnknown
  <2> QED
    BY <1>1, <1>4, <1>7, <2>1 DEF WritingUnknown
<1> QED
  BY <1>8, <1>10, <1>11, <1>12, <1>13, <1>14, <1>15, <1>16 DEF OInv

LEMMA AddedHandle ==
    ASSUME OInv, NEW op \in {"info", "propList"}, Waiting(op), req.code = "ok"
    PROVE  AddItem(store, host.name, host.size).handle \in 0 .. TxnBound /\ host.size \in Sizes
<1> DEFINE added == AddItem(store, host.name, host.size)
<1>1. Types /\ Receiving(op) /\ host.op = op
  BY WaitingFacts DEF OInv, Receiving, Ops
<1>2. host.name \in Names /\ host.size \in Sizes /\ host.size \in Nat /\ IsStorage(store)
  BY <1>1, Bounds DEF Types
<1>3. store.last < TxnBound /\ store.last \in Nat /\ TxnBound \in Nat
  <2>1. store.last < txns /\ txns \in 0 .. TxnBound
    BY <1>1 DEF OInv, Types, Transaction
  <2> QED
    BY <1>2, <2>1, StorageFacts, Bounds
<1>4. added.handle \in 1 .. added.store.last /\ added.store.last \in store.last .. store.last + 1
  BY <1>2, <1>3, AddItemFacts
<1> QED
  BY <1>2, <1>3, <1>4

LEMMA SendObjectInfoDataOInv == ASSUME OInv, SendObjectInfoData PROVE OInv'
<1>1. Waiting("info") /\ UNCHANGED <<host, object, expected, mixed>> /\ UNCHANGED budget
  BY DEF SendObjectInfoData
<1>2. UNCHANGED <<txns, signals, fails>>
  BY <1>1 DEF budget
<1>3. /\ req # None /\ answer = None /\ req.op = "info" /\ host.op = "info" /\ host.txn = req.txn
      /\ host # NoTxn /\ req \in Requests /\ host \in Transactions /\ ~Receiving("propList")
  BY <1>1, WaitingFacts DEF Ops
<1>4. CASE req.code # "ok"
  <2>1. Ignored
    BY <1>4 DEF SendObjectInfoData
  <2> QED
    BY <1>1, <1>4, <2>1, IgnoredOInv DEF Ops
<1>5. CASE req.code = "ok" /\ host.good
  <2> DEFINE added == AddItem(store, host.name, host.size)
             d == [handle |-> added.handle, size |-> host.size, count |-> 0]
  <2>1. /\ propList' = None /\ store' = added.store /\ sequence' = d
        /\ Answer(req, "ok", added.handle) /\ UNCHANGED <<session, req, edit>>
    BY <1>5 DEF SendObjectInfoData
  <2>2. added.handle \in 0 .. TxnBound /\ host.size \in Sizes
    BY <1>1, <1>5, AddedHandle
  <2> HIDE DEF added
  <2>3. d \in Description /\ d.handle = added.handle
    BY <2>2 DEF Description
  <2> HIDE DEF d
  <2>4. added = AddItem(store, host.name, host.size)
    BY DEF added
  <2> QED
    BY <1>1, <1>2, <1>5, <2>1, <2>3, <2>4, AddedOInv
<1>6. CASE req.code = "ok" /\ ~host.good
  <2>1. /\ propList' = None /\ sequence' = None /\ Answer(req, "invalid", Root) /\ store' = store
        /\ UNCHANGED <<session, req, edit>>
    BY <1>6 DEF SendObjectInfoData
  <2>2. Root \in 0 .. TxnBound
    BY Bounds DEF Root
  <2>3. answer' \in Answers /\ answer'.op = req.op /\ answer'.txn = req.txn /\ answer'.code = "invalid" /\ answer' # None
    BY <1>3, <2>1, <2>2, AnswerFacts DEF EndCodes
  <2>4. Types /\ host.left \in Nat /\ (host.first => host.left = host.size)
    BY DEF OInv, Types, Transactions, Transaction
  <2>5. IsStorage(store') /\ (\A k : SizeKnown(k) => SizeKnown(k)')
    BY <2>1, <2>4 DEF Types, SizeKnown
  <2>6. edit' \in Edits \cup {None} /\ fails' \in 0 .. FailBound /\ host'.left <= host.left
    BY <1>1, <1>2, <2>1, <2>4 DEF Types
  <2> QED
    BY <1>1, <1>2, <1>3, <2>1, <2>3, <2>4, <2>5, <2>6, FailureOInv
<1> QED
  BY <1>4, <1>5, <1>6

LEMMA SendObjectPropListDataOInv == ASSUME OInv, SendObjectPropListData PROVE OInv'
<1>1. Waiting("propList") /\ UNCHANGED <<host, object, expected>> /\ UNCHANGED budget
  BY DEF SendObjectPropListData
<1>2. UNCHANGED <<txns, signals, fails>>
  BY <1>1 DEF budget
<1>3. /\ req # None /\ answer = None /\ req.op = "propList" /\ host.op = "propList" /\ host.txn = req.txn
      /\ host # NoTxn /\ req \in Requests /\ host \in Transactions
      /\ (Receiving("propList") <=> req.code = "ok")
  BY <1>1, WaitingFacts DEF Ops
<1>4. req.code = "ok" => /\ propList # None /\ propList.handle = Root
                         /\ sequence # None => sequence.handle \in mixed
  BY <1>3 DEF OInv, Described, MixedUp
<1>5. CASE req.code # "ok"
  <2>1. Ignored /\ UNCHANGED mixed
    BY <1>5 DEF SendObjectPropListData
  <2> QED
    BY <1>1, <1>5, <2>1, IgnoredOInv DEF Ops
<1>6. CASE req.code = "ok" /\ host.good
  <2> DEFINE added == AddItem(store, host.name, host.size)
             d == [propList EXCEPT !.handle = added.handle]
  <2>1. /\ store' = added.store /\ propList' = d
        /\ Answer(req, "ok", added.handle) /\ UNCHANGED <<session, req, sequence, edit>>
        /\ mixed' = IF sequence = None THEN mixed ELSE mixed \cup {added.handle}
    BY <1>4, <1>6 DEF SendObjectPropListData
  <2>2. added.handle \in 0 .. TxnBound
    BY <1>1, <1>6, AddedHandle
  <2> HIDE DEF added
  <2>3. propList \in PropLists
    BY <1>4, <1>6 DEF OInv, Types
  <2>4. d \in PropLists /\ d.handle = added.handle
    BY <2>2, <2>3 DEF PropLists
  <2> HIDE DEF d
  <2>5. added = AddItem(store, host.name, host.size)
    BY DEF added
  <2> QED
    BY <1>1, <1>2, <1>6, <2>1, <2>4, <2>5, AddedOInv
<1>7. CASE req.code = "ok" /\ ~host.good
  <2>1. /\ propList' = propList /\ sequence' = sequence /\ Answer(req, "invalid", Root) /\ store' = store
        /\ UNCHANGED <<session, req, edit, mixed>>
    BY <1>4, <1>7 DEF SendObjectPropListData
  <2>2. Root \in 0 .. TxnBound
    BY Bounds DEF Root
  <2>3. answer' \in Answers /\ answer'.op = req.op /\ answer'.txn = req.txn /\ answer'.code = "invalid" /\ answer' # None
    BY <1>3, <2>1, <2>2, AnswerFacts DEF EndCodes
  <2>4. Types /\ host.left \in Nat /\ (host.first => host.left = host.size)
    BY DEF OInv, Types, Transactions, Transaction
  <2>5. IsStorage(store') /\ (\A k : SizeKnown(k) => SizeKnown(k)')
    BY <2>1, <2>4 DEF Types, SizeKnown
  <2>6. edit' \in Edits \cup {None} /\ fails' \in 0 .. FailBound /\ host'.left <= host.left
    BY <1>1, <1>2, <2>1, <2>4 DEF Types
  <2> QED
    BY <1>1, <1>2, <1>3, <1>4, <1>7, <2>1, <2>3, <2>4, <2>5, <2>6, FailureOInv
<1> QED
  BY <1>5, <1>6, <1>7

\* A packet of the host
LEMMA PacketFacts ==
    ASSUME OInv, NEW len, Packet(len)
    PROVE  /\ len \in Nat /\ len <= host.left /\ host.left \in Nat
           /\ host' \in Transactions /\ host'.left = host.left - len /\ ~host'.first
           /\ host'.op = host.op /\ host'.txn = host.txn /\ host'.name = host.name /\ host'.size = host.size
           /\ host'.handle = host.handle /\ host'.offset = host.offset
<1>1. host \in Transactions /\ host.left \in Nat
  BY DEF OInv, Types, Transactions
<1>2. len \in Nat /\ len <= host.left /\ host' = [host EXCEPT !.left = @ - len, !.first = FALSE]
  BY <1>1 DEF Packet
<1> DEFINE left == host.left - len
<1>3. left \in Nat /\ host' = [host EXCEPT !.left = left, !.first = FALSE]
  BY <1>1, <1>2
<1> HIDE DEF left
<1>4. /\ host' \in Transactions /\ host'.left = left /\ host'.first = FALSE
      /\ host'.op = host.op /\ host'.txn = host.txn /\ host'.name = host.name /\ host'.size = host.size
      /\ host'.handle = host.handle /\ host'.offset = host.offset
  BY <1>1, <1>3 DEF Transactions
<1> QED
  BY <1>1, <1>2, <1>4 DEF left

LEMMA IgnoreDataOInv == ASSUME OInv, NEW len, IgnoreData(len) PROVE OInv'
<1> PICK op \in {"object", "partial"} : Waiting(op)
  BY DEF IgnoreData
<1>1. /\ req # None /\ answer = None /\ req.op = op /\ host.op = op /\ host.txn = req.txn
      /\ host # NoTxn /\ req \in Requests /\ host \in Transactions
      /\ ~Receiving("propList") /\ req.code # "ok"
  BY WaitingFacts DEF Ops, IgnoreData, Receiving
<1>2. /\ len \in Nat /\ len <= host.left /\ host.left \in Nat
      /\ host' \in Transactions /\ host'.left = host.left - len /\ ~host'.first
      /\ host'.op = host.op /\ host'.txn = host.txn /\ host'.name = host.name /\ host'.size = host.size
      /\ host'.handle = host.handle
  BY PacketFacts DEF IgnoreData
<1>3. host' # NoTxn /\ host'.left <= host.left
  BY <1>1, <1>2, NoTxnFacts
<1>4. /\ UNCHANGED <<session, req, sequence, propList, edit, store, object, expected, mixed, txns, signals, fails>>
      /\ (answer' = None \/ Answer(req, req.code, Root))
  BY <1>1 DEF IgnoreData, budget
<1>5. req.code \in EndCodes /\ req.code # "invalid" /\ Root \in 0 .. TxnBound
  BY <1>1, Bounds DEF Requests, Codes, EndCodes, Root
<1>6. answer' = None \/
      (answer' \in Answers /\ answer'.op = req.op /\ answer'.txn = req.txn /\ answer'.code = req.code)
  BY <1>1, <1>4, <1>5, AnswerFacts
<1>7. Types
  BY DEF OInv
<1>8. IsStorage(store') /\ (\A k : SizeKnown(k) => SizeKnown(k)')
      /\ edit' \in Edits \cup {None} /\ fails' \in 0 .. FailBound
  BY <1>4, <1>7 DEF Types, SizeKnown
<1> QED
  BY <1>1, <1>2, <1>3, <1>4, <1>5, <1>6, <1>8, FailureOInv

-----------------------------------------------------------------------------
(* The data of a SendObject. *)

DataFor(h) == h = Target

\* The object the data is for, and how much of it is in its file.
LEMMA SendingFacts ==
    ASSUME OInv, Waiting("object"), req.code = "ok", NEW h, DataFor(h)
    PROVE  /\ h \in 0 .. TxnBound
           /\ h # Root => h \in Touched \cup mixed
           /\ h # Root /\ object # None => object.handle = h \/ object.handle \in mixed
           /\ sequence = None => propList # None
           /\ propList = None \/ propList.txn \in 0 .. TxnBound
           /\ host.size - host.left \in Nat /\ host.left \in Nat /\ host.size \in Nat
           /\ req.txn \in 0 .. TxnBound /\ req.txn \in 1 .. TxnBound /\ host.first \in BOOLEAN
           /\ IF host.first THEN host.size - host.left = 0 ELSE store.data = OpenAt(h, host.size - host.left)
           /\ ~host.first =>
                /\ h \in DOMAIN store.files
                /\ \A i \in 1 .. host.size - host.left :
                      i <= Len(store.files[h].content) /\ store.files[h].content[i] = req.txn
<1>1. /\ req # None /\ answer = None /\ req.op = "object" /\ host.op = "object"
      /\ req \in Requests /\ host \in Transactions /\ ~Concluding /\ Receiving("object")
      /\ ~Receiving("propList")
  BY WaitingFacts DEF Ops, Receiving
<1>2. Types
  BY DEF OInv
<1>3. sequence # None \/ propList # None
  BY <1>1 DEF OInv, Sending
<1>4. /\ sequence # None => sequence.handle \in 0 .. TxnBound
      /\ propList # None => propList.handle \in 0 .. TxnBound /\ propList.txn \in 1 .. TxnBound
  BY <1>2 DEF Types, Description, PropLists
<1>5. /\ sequence # None => \/ object # None /\ object.handle = sequence.handle
                            \/ sequence.handle \in mixed /\ (object # None => object.handle \in mixed)
      /\ propList # None /\ propList.handle # Root => object # None /\ object.handle = propList.handle
  BY <1>1 DEF OInv, Described, MixedUp, Confused
<1>6. h # Root => \/ object # None /\ object.handle = h
                  \/ h \in mixed /\ (object # None => object.handle \in mixed)
  BY <1>3, <1>5 DEF DataFor, Target
<1>7. object # None => Touched = {object.handle}
  BY <1>1 DEF Touched
<1>8. host.left \in Nat /\ host.size \in Nat /\ host.left <= host.size /\ req.txn \in 1 .. TxnBound
      /\ host.first \in BOOLEAN
  BY <1>1, <1>2 DEF Types, Transactions, Requests
<1>9. host.first => host.left = host.size
  BY DEF OInv, Transaction
<1>10. ASSUME ~host.first
       PROVE  /\ h \in DOMAIN store.files
              /\ store.data = OpenAt(h, host.size - host.left)
              /\ \A i \in 1 .. host.size - host.left :
                    i <= Len(store.files[h].content) /\ store.files[h].content[i] = req.txn
  BY <1>1, <1>10 DEF OInv, Sending, DataFor
<1>11. h \in 0 .. TxnBound
  BY <1>3, <1>4 DEF DataFor, Target
<1> QED
  BY <1>3, <1>4, <1>6, <1>7, <1>8, <1>9, <1>10, <1>11, Bounds

\* What the end of a SendObject that has failed leaves
LEMMA ObjectFailedOInv ==
    ASSUME OInv, Waiting("object"), req.code = "ok", NEW h, DataFor(h), NEW len, Packet(len),
           NEW code \in EndCodes \ {"ok", "invalid"}, Answer(req, code, h), sequence' = None,
           UNCHANGED <<session, req, edit, propList, object, expected, mixed, txns, signals>>,
           fails' \in 0 .. FailBound,
           IsStorage(store'), store'.last = store.last, DOMAIN store'.files = DOMAIN store.files,
           \A k \in DOMAIN store.files \ (Touched \cup mixed) :
              store'.files[k].content = store.files[k].content /\ (SizeKnown(k) => SizeKnown(k)'),
           store'.writing \in {store.writing, Root}
    PROVE  OInv'
<1>1. /\ req # None /\ answer = None /\ req.op = "object" /\ host.op = "object" /\ host.txn = req.txn
      /\ host # NoTxn /\ req \in Requests /\ ~Receiving("propList")
  BY WaitingFacts DEF Ops, Receiving
<1>2. /\ host.left \in Nat /\ len \in Nat
      /\ host' \in Transactions /\ host'.left = host.left - len /\ ~host'.first
      /\ host'.op = host.op /\ host'.txn = host.txn /\ host'.name = host.name /\ host'.size = host.size
      /\ host'.handle = host.handle
  BY PacketFacts
<1>3. host' # NoTxn /\ host'.left <= host.left
  BY <1>1, <1>2, NoTxnFacts
<1>4. h \in 0 .. TxnBound
  BY SendingFacts
<1>5. answer' \in Answers /\ answer' # None /\ answer'.op = req.op /\ answer'.txn = req.txn /\ answer'.code = code
  BY <1>1, <1>4, AnswerFacts
<1>6. edit' \in Edits \cup {None}
  BY DEF OInv, Types
<1> QED
  BY <1>1, <1>2, <1>3, <1>5, <1>6, FailureOInv

LEMMA CannotWriteOInv ==
    ASSUME OInv, Waiting("object"), req.code = "ok", NEW h, DataFor(h), NEW len, Packet(len),
           ~CanWrite(store, h), ObjectDone(OpenFails(store, h), h, "general"),
           UNCHANGED <<session, req, edit, propList, object, expected, mixed, txns, signals, fails>>
    PROVE  OInv'
<1>1. Types /\ IsStorage(store)
  BY DEF OInv, Types
<1>2. h \notin DOMAIN store.files
  BY DEF CanWrite
<1>3. store' = CloseFile(OpenFails(store, h), h) /\ sequence' = None /\ Answer(req, "general", h)
  BY DEF ObjectDone
<1>4. /\ IsStorage(store') /\ store'.files = store.files /\ store'.closed = store.closed
      /\ store'.last = store.last /\ store'.writing \in {store.writing, Root}
  BY <1>1, <1>2, <1>3, NotOpenedFacts
<1>5. \A k : SizeKnown(k) => SizeKnown(k)'
  BY <1>4 DEF SizeKnown
<1>6. fails' \in 0 .. FailBound /\ "general" \in EndCodes \ {"ok", "invalid"}
  BY <1>1 DEF Types, EndCodes, Codes
<1> QED
  BY <1>3, <1>4, <1>5, <1>6, ObjectFailedOInv

\* The object is closed, with what was written.
LEMMA ObjectClosed ==
    ASSUME OInv, Waiting("object"), req.code = "ok", NEW h, DataFor(h), CanWrite(store, h),
           NEW len \in Nat, NEW code \in EndCodes,
           ObjectDone(WriteData(store, h, len, host.first, req.txn), h, code)
    PROVE  /\ sequence' = None /\ Answer(req, code, h)
           /\ h \in DOMAIN store.files /\ h \in Touched \cup mixed
           /\ object # None => object.handle = h \/ object.handle \in mixed
           /\ IsStorage(store') /\ store'.last = store.last /\ DOMAIN store'.files = DOMAIN store.files
           /\ \A k \in DOMAIN store.files \ (Touched \cup mixed) :
                 store'.files[k].content = store.files[k].content /\ (SizeKnown(k) => SizeKnown(k)')
           /\ store'.writing = Root /\ h \in store'.closed
           /\ code = "ok" =>
                store'.files[h].content =
                   Resized(Overwritten(store.files[h].content, host.size - host.left, len, req.txn),
                           host.size - host.left + len)
<1>1. IsStorage(store)
  BY DEF OInv, Types
<1>2. h \in DOMAIN store.files /\ h # Root
  BY <1>1, StorageFacts DEF CanWrite
<1>3. /\ h \in Touched \cup mixed
      /\ object # None => object.handle = h \/ object.handle \in mixed
      /\ host.size - host.left \in Nat /\ req.txn \in 0 .. TxnBound /\ host.first \in BOOLEAN
      /\ propList = None \/ propList.txn \in 0 .. TxnBound
      /\ IF host.first THEN host.size - host.left = 0 ELSE store.data = OpenAt(h, host.size - host.left)
  BY <1>2, SendingFacts
<1>4. /\ store' = ObjectFinished(store, h, len, host.first, req.txn, code)
      /\ sequence' = None /\ Answer(req, code, h)
  BY DEF ObjectDone, ObjectFinished
<1>5. /\ IsStorage(store') /\ OnlyChanges(store, store', h) /\ store'.writing = Root /\ h \in store'.closed
      /\ code = "ok" =>
           store'.files[h].content =
              Resized(Overwritten(store.files[h].content, host.size - host.left, len, req.txn),
                      host.size - host.left + len)
  BY <1>1, <1>2, <1>3, <1>4, ObjectFinishedFacts
<1>6. \A k \in DOMAIN store.files \ (Touched \cup mixed) :
         store'.files[k].content = store.files[k].content /\ (SizeKnown(k) => SizeKnown(k)')
  BY <1>3, <1>5 DEF OnlyChanges, SizeKnown
<1> QED
  BY <1>2, <1>3, <1>4, <1>5, <1>6 DEF OnlyChanges

LEMMA ObjectDoneOInv ==
    ASSUME OInv, Waiting("object"), req.code = "ok", NEW h, DataFor(h), CanWrite(store, h),
           NEW len, Packet(len),
           ObjectDone(WriteData(store, h, len, host.first, req.txn), h, "ok"),
           UNCHANGED <<session, req, edit, propList, object, expected, mixed, txns, signals, fails>>
    PROVE  OInv'
<1>1. /\ req # None /\ answer = None /\ req.op = "object" /\ host.op = "object" /\ host.txn = req.txn
      /\ host # NoTxn /\ req \in Requests /\ ~Receiving("propList")
  BY WaitingFacts DEF Ops, Receiving
<1>2. /\ host.left \in Nat /\ len \in Nat /\ len <= host.left
      /\ host' \in Transactions /\ host'.left = host.left - len /\ ~host'.first
      /\ host'.op = host.op /\ host'.txn = host.txn /\ host'.name = host.name /\ host'.size = host.size
      /\ host'.handle = host.handle
  BY PacketFacts
<1>3. host' # NoTxn /\ host'.left <= host.left
  BY <1>1, <1>2, NoTxnFacts
<1>4. /\ sequence' = None /\ Answer(req, "ok", h)
      /\ h \in DOMAIN store.files /\ h \in Touched \cup mixed
      /\ object # None => object.handle = h \/ object.handle \in mixed
      /\ IsStorage(store') /\ store'.last = store.last /\ DOMAIN store'.files = DOMAIN store.files
      /\ \A k \in DOMAIN store.files \ (Touched \cup mixed) :
            store'.files[k].content = store.files[k].content /\ (SizeKnown(k) => SizeKnown(k)')
      /\ store'.writing = Root /\ h \in store'.closed
      /\ store'.files[h].content =
            Resized(Overwritten(store.files[h].content, host.size - host.left, len, req.txn),
                    host.size - host.left + len)
  BY <1>2, ObjectClosed DEF EndCodes, Codes
<1>5. /\ h \in 0 .. TxnBound
      /\ host.size - host.left \in Nat /\ host.left \in Nat /\ host.size \in Nat
      /\ req.txn \in 0 .. TxnBound /\ req.txn \in 1 .. TxnBound /\ host.first \in BOOLEAN
      /\ IF host.first THEN host.size - host.left = 0 ELSE store.data = OpenAt(h, host.size - host.left)
      /\ ~host.first =>
            \A i \in 1 .. host.size - host.left :
               i <= Len(store.files[h].content) /\ store.files[h].content[i] = req.txn
  BY SendingFacts
<1>6. /\ answer' \in Answers /\ answer' # None /\ answer'.op = req.op /\ answer'.txn = req.txn
      /\ answer'.code = "ok"
  BY <1>1, <1>4, <1>5, AnswerFacts DEF EndCodes, Codes
<1>7. Types /\ Described /\ Transaction /\ MixedUp
  BY DEF OInv
<1>8. Types'
  <2>1. host'.left <= host'.size
    BY <1>2, <1>5
  <2> QED
    BY <1>1, <1>2, <1>4, <1>6, <1>7, <2>1 DEF Types
<1>9. Transaction'
  BY <1>1, <1>2, <1>3, <1>4, <1>6, <1>7 DEF Transaction, Concluding, Receiving
<1>10. MixedUp'
  BY <1>1, <1>4, <1>7 DEF MixedUp, Confused
<1>11. Described'
  <2>1. propList # None /\ propList.handle # Root => propList.handle \in 1 .. store.last
                                                     /\ object # None /\ object.handle = propList.handle
    BY <1>1, <1>7 DEF Described, Concluding
  <2>2. propList # None /\ propList.handle = Root => object = None
    BY <1>1, <1>7 DEF Described
  <2>3. (\A op : ~Receiving(op)') /\ answer'.code # "invalid" /\ req'.op = "object"
    BY <1>1, <1>6 DEF Receiving
  <2> QED
    BY <1>4, <2>1, <2>2, <2>3 DEF Described
<1>12. Sending' /\ PartSending'
  BY <1>6 DEF Sending, PartSending, Receiving
<1>13. Touched' = Touched
  BY <1>2 DEF Touched
<1>14. ToBelieve'
  <2> SUFFICES ASSUME host'.left = 0
               PROVE  store'.files[h].content = [i \in 1 .. host.size |-> req.txn]
    BY <1>1, <1>2, <1>4 DEF ToBelieve, SizeKnown
  <2> DEFINE pos == host.size - host.left
             old == store.files[h].content
             new == Overwritten(old, pos, len, req.txn)
             sent == [i \in 1 .. host.size |-> req.txn]
  <2>1. pos \in Nat /\ pos + len = host.size /\ old \in Contents
    <3>1. IsStorage(store)
      BY <1>7 DEF Types
    <3>2. h \in DOMAIN store.files
      BY <1>4
    <3>3. old \in Contents
      BY <3>1, <3>2, StorageFacts
    <3>4. len = host.left
      BY <1>2
    <3>5. pos \in Nat /\ pos + len = host.size
      BY <1>5, <3>4
    <3> QED
      BY <3>3, <3>5
  <2>2. \A i \in 1 .. pos : i <= Len(old) /\ old[i] = req.txn
    BY <1>5
  <2>3. store'.files[h].content = Resized(new, host.size)
    BY <1>4, <2>1
  <2> HIDE DEF pos, old
  <2>4. /\ new \in Contents /\ Len(new) = Extent(old, pos, len)
        /\ \A i \in 1 .. Extent(old, pos, len) :
              new[i] = IF pos < i /\ i <= pos + len THEN req.txn ELSE IF i <= Len(old) THEN old[i] ELSE 0
    <3> DEFINE txn == req.txn
    <3>1. len \in Nat /\ txn \in 0 .. TxnBound
      BY <1>2, <1>5
    <3> HIDE DEF txn
    <3>2. /\ Overwritten(old, pos, len, txn) \in Contents /\ Len(Overwritten(old, pos, len, txn)) = Extent(old, pos, len)
          /\ \A i \in 1 .. Extent(old, pos, len) :
                Overwritten(old, pos, len, txn)[i] =
                   IF pos < i /\ i <= pos + len THEN txn ELSE IF i <= Len(old) THEN old[i] ELSE 0
      BY <2>1, <3>1, OverwrittenFacts
    <3> QED
      BY <3>2 DEF txn
  <2>5. \A i \in 1 .. host.size : i <= Len(new) /\ new[i] = req.txn
    <3> TAKE i \in 1 .. host.size
    <3>1. Len(old) \in Nat
      BY <2>1, ContentFacts
    <3>2. i <= pos => i <= Len(old) /\ old[i] = req.txn
      BY <1>5, <2>1, <2>2
    <3>3. i <= Extent(old, pos, len)
      BY <1>2, <1>5, <2>1, <3>1, <3>2 DEF Extent, Longer
    <3>4. Extent(old, pos, len) \in Nat
      BY <1>2, <2>1, <3>1 DEF Extent, Longer
    <3>5. i \in 1 .. Extent(old, pos, len)
      BY <3>3, <3>4
    <3>6. new[i] = IF pos < i /\ i <= pos + len THEN req.txn ELSE IF i <= Len(old) THEN old[i] ELSE 0
      BY <2>4, <3>5
    <3> QED
      BY <1>5, <2>1, <2>4, <3>2, <3>3, <3>6
  <2> HIDE DEF new
  <2>6. /\ Resized(new, host.size) \in Contents /\ Len(Resized(new, host.size)) = host.size
        /\ \A i \in 1 .. host.size : Resized(new, host.size)[i] = IF i <= Len(new) THEN new[i] ELSE 0
    <3>1. host.size \in Nat /\ new \in Contents
      BY <1>5, <2>4
    <3> QED
      BY <3>1, ResizedFacts
  <2>7. sent \in Contents /\ Len(sent) = host.size
    <3>1. sent \in [1 .. host.size -> 0 .. TxnBound]
      BY <1>5
    <3> QED
      BY <1>5, <3>1, FunctionIsContent
  <2>8. \A i \in 1 .. host.size : sent[i] = req.txn
    OBVIOUS
  <2> HIDE DEF sent
  <2>9. Resized(new, host.size) = sent
    BY <2>5, <2>6, <2>7, <2>8, ContentEqual
  <2> QED
    BY <2>3, <2>9 DEF sent
<1>15. Believed'
  BY <1>4, <1>13 DEF OInv, Believed
<1>16. WritingUnknown'
  <2>1. Root \notin DOMAIN expected
    BY <1>7 DEF Types, Root
  <2> QED
    BY <1>4, <2>1 DEF WritingUnknown
<1> QED
  BY <1>8, <1>9, <1>10, <1>11, <1>12, <1>14, <1>15, <1>16 DEF OInv

\* The description stays, but for the count of what was sent.
LEMMA CountedFacts ==
    ASSUME OInv, NEW len \in Nat, Counted(len)
    PROVE  /\ sequence' \in Description \cup {None} /\ propList' \in PropLists \cup {None}
           /\ sequence' = None <=> sequence = None
           /\ propList' = None <=> propList = None
           /\ sequence # None => sequence'.handle = sequence.handle
           /\ propList # None => propList'.handle = propList.handle
<1>1. sequence \in Description \cup {None} /\ propList \in PropLists \cup {None}
  BY DEF OInv, Types
<1>2. ASSUME propList # None
      PROVE  propList' \in PropLists /\ propList'.handle = propList.handle
  <2> DEFINE count == propList.count + len
  <2>1. propList \in PropLists /\ count \in Nat
    BY <1>1, <1>2 DEF PropLists
  <2>2. propList' = [propList EXCEPT !.count = count]
    BY <1>2 DEF Counted
  <2> HIDE DEF count
  <2> QED
    BY <2>1, <2>2 DEF PropLists
<1>3. ASSUME sequence # None
      PROVE  sequence' \in Description /\ sequence'.handle = sequence.handle
  <2> DEFINE count == sequence.count + len
  <2>1. sequence \in Description /\ count \in Nat
    BY <1>1, <1>3 DEF Description
  <2>2. sequence' = [sequence EXCEPT !.count = count] \/ sequence' = sequence
    BY <1>3 DEF Counted
  <2> HIDE DEF count
  <2> QED
    BY <2>1, <2>2 DEF Description
<1>4. (propList = None => propList' = None) /\ (sequence = None => sequence' = None)
  BY DEF Counted
<1> QED
  BY <1>2, <1>3, <1>4, NoneDiffers

LEMMA ObjectGoesOnOInv ==
    ASSUME OInv, Waiting("object"), req.code = "ok", NEW h, DataFor(h), CanWrite(store, h),
           NEW len, Packet(len), Counted(len),
           store' = WriteData(store, h, len, host.first, req.txn),
           UNCHANGED <<session, req, answer, edit, object, expected, mixed, txns, signals, fails>>
    PROVE  OInv'
<1>1. /\ req # None /\ answer = None /\ req.op = "object" /\ host.op = "object" /\ host.txn = req.txn
      /\ host # NoTxn /\ req \in Requests /\ ~Receiving("propList") /\ ~Concluding
  BY WaitingFacts DEF Ops, Receiving
<1>2. /\ host.left \in Nat /\ len \in Nat /\ len <= host.left
      /\ host' \in Transactions /\ host'.left = host.left - len /\ ~host'.first
      /\ host'.op = host.op /\ host'.txn = host.txn /\ host'.name = host.name /\ host'.size = host.size
      /\ host'.handle = host.handle
  BY PacketFacts
<1>3. host' # NoTxn
  BY <1>1, <1>2, NoTxnFacts
<1>4. /\ sequence' \in Description \cup {None} /\ propList' \in PropLists \cup {None}
      /\ sequence' = None <=> sequence = None
      /\ propList' = None <=> propList = None
      /\ sequence # None => sequence'.handle = sequence.handle
      /\ propList # None => propList'.handle = propList.handle
  BY <1>2, CountedFacts
<1>5. Types /\ IsStorage(store) /\ Transaction /\ Described /\ MixedUp
  BY DEF OInv, Types
<1>6. h \in DOMAIN store.files /\ h # Root /\ h \in Handles
  BY <1>5, StorageFacts DEF CanWrite
<1>7. /\ h \in Touched \cup mixed
      /\ sequence = None => propList # None
      /\ host.size - host.left \in Nat /\ host.left \in Nat /\ host.size \in Nat
      /\ req.txn \in 0 .. TxnBound /\ host.first \in BOOLEAN
      /\ IF host.first THEN host.size - host.left = 0 ELSE store.data = OpenAt(h, host.size - host.left)
      /\ ~host.first =>
            \A i \in 1 .. host.size - host.left :
               i <= Len(store.files[h].content) /\ store.files[h].content[i] = req.txn
  BY <1>6, SendingFacts
<1> DEFINE pos == host.size - host.left
           old == store.files[h].content
<1>8. /\ IsStorage(store') /\ OnlyChanges(store, store', h)
      /\ store'.files[h].content = Overwritten(old, pos, len, req.txn)
      /\ store'.data = OpenAt(h, pos + len) /\ store'.writing = h
  <2> DEFINE txn == req.txn
             first == host.first
             t == WriteData(store, h, len, first, txn)
  <2>1. pos \in Nat /\ len \in Nat /\ txn \in 0 .. TxnBound /\ first \in BOOLEAN
        /\ (IF first THEN pos = 0 ELSE store.data = OpenAt(h, pos))
    BY <1>2, <1>7
  <2>2. store' = t
    OBVIOUS
  <2> HIDE DEF pos, txn, first
  <2>3. /\ IsStorage(t) /\ OnlyChanges(store, t, h)
        /\ t.files[h].content = Overwritten(store.files[h].content, pos, len, txn)
        /\ t.data = OpenAt(h, pos + len) /\ t.writing = h
    BY <1>5, <1>6, <2>1, WriteDataFacts
  <2> QED
    BY <2>2, <2>3 DEF txn
<1>9. DOMAIN store'.files = DOMAIN store.files /\ store'.last = store.last
      /\ \A k \in DOMAIN store.files \ (Touched \cup mixed) :
            store'.files[k].content = store.files[k].content /\ (SizeKnown(k) => SizeKnown(k)')
  BY <1>7, <1>8 DEF OnlyChanges, SizeKnown
<1>10. host'.left \in Nat /\ host'.left <= host'.size /\ host'.size - host'.left = pos + len
  BY <1>2, <1>7
<1>11. Types'
  BY <1>1, <1>2, <1>4, <1>5, <1>8, <1>9, <1>10 DEF Types
<1>12. Transaction'
  BY <1>1, <1>2, <1>3, <1>5, <1>9 DEF Transaction, Concluding, Receiving
<1>13. MixedUp'
  <2>1. Confused' <=> Confused
    BY <1>4 DEF Confused
  <2> QED
    BY <1>1, <1>4, <1>5, <2>1 DEF MixedUp
<1>14. Described'
  <2>1. /\ sequence' # None => /\ sequence'.handle \in 1 .. store.last
                               /\ \/ object # None /\ object.handle = sequence'.handle
                                  \/ sequence'.handle \in mixed
        /\ propList' # None /\ propList'.handle # Root => propList'.handle \in 1 .. store.last
                               /\ object # None /\ object.handle = propList'.handle
        /\ propList' # None /\ propList'.handle = Root => object = None
    BY <1>1, <1>4, <1>5 DEF Described, Concluding
  <2>2. answer' = None /\ ~Concluding' /\ ~Receiving("propList")'
    BY <1>1 DEF Concluding, Receiving
  <2> QED
    BY <1>9, <2>1, <2>2 DEF Described
<1>15. Sending'
  <2>1. sequence' # None \/ propList' # None
    BY <1>4, <1>7
  <2>2. Target' = h
    BY <1>4, <1>7 DEF DataFor, Target
  <2>3. \A i \in 1 .. pos + len : i <= Len(store'.files[h].content) /\ store'.files[h].content[i] = req.txn
    <3> DEFINE txn == req.txn
               new == Overwritten(old, pos, len, txn)
    <3>1. pos \in Nat /\ len \in Nat /\ old \in Contents /\ txn \in 0 .. TxnBound
      BY <1>2, <1>5, <1>6, <1>7, StorageFacts
    <3>2. \A i \in 1 .. pos : i <= Len(old) /\ old[i] = txn
      BY <1>7
    <3>3. store'.files[h].content = new
      BY <1>8
    <3> HIDE DEF pos, old, txn
    <3>4. /\ Len(new) = Extent(old, pos, len)
          /\ \A i \in 1 .. Extent(old, pos, len) :
                new[i] = IF pos < i /\ i <= pos + len THEN txn ELSE IF i <= Len(old) THEN old[i] ELSE 0
      BY <3>1, OverwrittenFacts
    <3>5. Len(old) \in Nat
      BY <3>1, ContentFacts
    <3>6. ASSUME NEW i \in 1 .. pos + len
          PROVE  i <= Len(new) /\ new[i] = txn
      <4>1. i <= pos => i <= Len(old) /\ old[i] = txn
        BY <3>1, <3>2
      <4>2. i <= Extent(old, pos, len) /\ Extent(old, pos, len) \in Nat
        BY <3>1, <3>5, <4>1 DEF Extent, Longer
      <4>3. i \in 1 .. Extent(old, pos, len)
        BY <3>1, <4>2
      <4>4. new[i] = IF pos < i /\ i <= pos + len THEN txn ELSE IF i <= Len(old) THEN old[i] ELSE 0
        BY <3>4, <4>3
      <4> QED
        BY <3>1, <3>4, <4>1, <4>2, <4>4
    <3> QED
      BY <3>3, <3>6 DEF txn
  <2> QED
    BY <1>6, <1>7, <1>8, <1>9, <1>10, <2>1, <2>2, <2>3 DEF Sending
<1>16. PartSending' /\ ToBelieve'
  BY <1>1 DEF PartSending, ToBelieve, Receiving, Concluding
<1>17. Touched' = Touched
  BY <1>2 DEF Touched
<1>18. Believed'
  BY <1>9, <1>17 DEF OInv, Believed
<1>19. WritingUnknown'
  BY <1>1, <1>7, <1>8, <1>17 DEF WritingUnknown, Concluding
<1> QED
  BY <1>11, <1>12, <1>13, <1>14, <1>15, <1>16, <1>18, <1>19 DEF OInv

LEMMA SendObjectDataOInv == ASSUME OInv, NEW len, SendObjectData(len) PROVE OInv'
<1> DEFINE h == IF sequence # None THEN sequence.handle ELSE propList.handle
           last == host.left = len
           written == WriteData(store, h, len, host.first, req.txn)
           code == SendObjectCheck(len, last)
<1>1. /\ Waiting("object") /\ req.code = "ok" /\ Packet(len)
      /\ UNCHANGED <<session, req, edit, object, expected, mixed, txns, signals>>
  BY DEF SendObjectData
<1>2. DataFor(h)
  BY DEF DataFor, Target
<1>3. \/ /\ ~CanWrite(store, h)
         /\ ObjectDone(OpenFails(store, h), h, "general")
         /\ UNCHANGED <<propList, fails>>
      \/ /\ CanWrite(store, h) /\ Fails
         /\ ObjectDone(WriteData(store, h, 0, host.first, req.txn), h, "general")
         /\ UNCHANGED propList
      \/ /\ CanWrite(store, h)
         /\ IF code = "undefined"
            THEN Counted(len) /\ store' = written /\ UNCHANGED answer
            ELSE ObjectDone(written, h, code) /\ UNCHANGED propList
         /\ UNCHANGED fails
  BY DEF SendObjectData
<1>4. len \in Nat /\ answer = None
  BY <1>1, PacketFacts DEF Waiting
<1>5. code \in {"ok", "incomplete", "undefined"}
  BY DEF SendObjectCheck
<1>6. Types
  BY DEF OInv
<1> HIDE DEF h, code
<1>7. CASE ~CanWrite(store, h)
  BY <1>1, <1>2, <1>3, <1>7, CannotWriteOInv
<1>8. CASE CanWrite(store, h) /\ code = "undefined" /\ UNCHANGED fails /\ Counted(len)
           /\ store' = written /\ UNCHANGED answer
  BY <1>1, <1>2, <1>8, ObjectGoesOnOInv
<1>9. CASE CanWrite(store, h) /\ UNCHANGED fails /\ ObjectDone(written, h, "ok") /\ UNCHANGED propList
  BY <1>1, <1>2, <1>9, ObjectDoneOInv
<1>10. ASSUME CanWrite(store, h), fails' \in 0 .. FailBound, UNCHANGED propList,
              NEW some \in Nat, NEW end \in {"general", "incomplete"},
              ObjectDone(WriteData(store, h, some, host.first, req.txn), h, end)
       PROVE  OInv'
  <2>1. end \in EndCodes /\ end \in EndCodes \ {"ok", "invalid"}
    BY DEF EndCodes, Codes
  <2>2. /\ sequence' = None /\ Answer(req, end, h)
        /\ IsStorage(store') /\ store'.last = store.last /\ DOMAIN store'.files = DOMAIN store.files
        /\ \A k \in DOMAIN store.files \ (Touched \cup mixed) :
              store'.files[k].content = store.files[k].content /\ (SizeKnown(k) => SizeKnown(k)')
        /\ store'.writing = Root
    BY <1>1, <1>2, <1>10, <2>1, ObjectClosed
  <2> QED
    BY <1>1, <1>2, <1>10, <2>1, <2>2, ObjectFailedOInv
<1>11. CASE CanWrite(store, h) /\ Fails /\ UNCHANGED propList
            /\ ObjectDone(WriteData(store, h, 0, host.first, req.txn), h, "general")
  <2>1. fails' \in 0 .. FailBound
    BY <1>6, <1>11, Bounds DEF Fails, Types
  <2> QED
    BY <1>10, <1>11, <2>1
<1>12. CASE CanWrite(store, h) /\ UNCHANGED <<propList, fails>> /\ ObjectDone(written, h, "incomplete")
  <2>1. fails' \in 0 .. FailBound
    BY <1>6, <1>12 DEF Types
  <2> QED
    BY <1>4, <1>10, <1>12, <2>1
<1> QED
  BY <1>3, <1>5, <1>7, <1>8, <1>9, <1>11, <1>12

-----------------------------------------------------------------------------
(* The data of a SendPartialObject. *)

\* Writing a segment, the last one or not, to the object that is edited
LEMMA PartWritten ==
    ASSUME OInv, Waiting("partial"), req.code = "ok", NEW len \in Nat, NEW last \in BOOLEAN,
           edit.handle \in DOMAIN store.files,
           store' = WritePartialData(store, edit.handle, edit.offset, len, host.first, last, req.txn)
    PROVE  /\ Touched = {host.handle} /\ edit.handle = host.handle /\ edit \in Edits
           /\ host.handle \in DOMAIN store.files
           /\ IsStorage(store') /\ store'.last = store.last /\ DOMAIN store'.files = DOMAIN store.files
           /\ \A k \in DOMAIN store.files \ (Touched \cup mixed) :
                 store'.files[k].content = store.files[k].content /\ (SizeKnown(k) => SizeKnown(k)')
           /\ store'.files[host.handle].content =
                 Overwritten(store.files[host.handle].content, edit.offset, len, req.txn)
           /\ last => store'.writing = Root /\ host.handle \in store'.closed
           /\ ~last => /\ store'.data # None /\ store'.data.handle = host.handle
                       /\ store'.writing \in {host.handle, store.writing}
<1>1. /\ req # None /\ answer = None /\ req.op = "partial" /\ host.op = "partial" /\ host.txn = req.txn
      /\ req \in Requests /\ host \in Transactions /\ Receiving("partial")
  BY WaitingFacts DEF Ops, Receiving
<1>2. IsStorage(store) /\ edit \in Edits \cup {None}
  BY DEF OInv, Types
<1>3. /\ edit # None /\ edit.handle = host.handle
      /\ ~host.first => store.data # None /\ store.data.handle = host.handle
  BY <1>1 DEF OInv, PartSending
<1> DEFINE h == edit.handle
           offset == edit.offset
           first == host.first
           txn == req.txn
           t == WritePartialData(store, h, offset, len, first, last, txn)
<1>4. offset \in Nat /\ first \in BOOLEAN /\ txn \in 0 .. TxnBound /\ h \in DOMAIN store.files
      /\ edit \in Edits /\ (first \/ (store.data # None /\ store.data.handle = h))
  BY <1>1, <1>2, <1>3, Bounds DEF Edits, Transactions, Requests
<1>5. store' = t
  OBVIOUS
<1>6. h = host.handle
  BY <1>3
<1>7. Touched = {h}
  BY <1>1, <1>3 DEF Touched
<1> HIDE DEF h, offset, first, txn
<1>8. /\ IsStorage(t) /\ OnlyChanges(store, t, h)
      /\ t.files[h].content = Overwritten(store.files[h].content, offset, len, txn)
      /\ last => t.writing = Root /\ h \in t.closed
      /\ ~last => t.data # None /\ t.data.handle = h /\ t.writing \in {h, store.writing}
  BY <1>2, <1>4, WritePartialFacts
<1> HIDE DEF t
<1>9. /\ store'.last = store.last /\ DOMAIN store'.files = DOMAIN store.files
      /\ \A k \in DOMAIN store.files \ (Touched \cup mixed) :
            store'.files[k].content = store.files[k].content /\ (SizeKnown(k) => SizeKnown(k)')
  BY <1>5, <1>7, <1>8 DEF OnlyChanges, SizeKnown
<1> QED
  BY <1>4, <1>5, <1>6, <1>7, <1>8, <1>9 DEF h, offset, txn

LEMMA OffsetMoves ==
    ASSUME edit \in Edits, NEW len \in Nat, edit' = [edit EXCEPT !.offset = @ + len]
    PROVE  edit' \in Edits /\ edit'.handle = edit.handle /\ edit'.offset = edit.offset + len
<1> DEFINE offset == edit.offset + len
<1>1. offset \in Nat /\ edit' = [edit EXCEPT !.offset = offset]
  BY DEF Edits
<1> HIDE DEF offset
<1>2. edit' \in Edits /\ edit'.handle = edit.handle /\ edit'.offset = offset
  BY <1>1 DEF Edits
<1> QED
  BY <1>2 DEF offset

\* A segment that is not written
LEMMA PartFailedOInv ==
    ASSUME OInv, Waiting("partial"), req.code = "ok", NEW len, Packet(len),
           NEW code \in {"badHandle", "general"}, req' = [req EXCEPT !.code = code],
           edit' = [edit EXCEPT !.offset = @ + len],
           UNCHANGED answer \/ Answer(req, req'.code, edit.handle),
           UNCHANGED <<session, sequence, propList, object, expected, mixed, txns, signals>>,
           fails' \in 0 .. FailBound,
           IsStorage(store'), store'.last = store.last, DOMAIN store'.files = DOMAIN store.files,
           \A k \in DOMAIN store.files \ (Touched \cup mixed) :
              store'.files[k].content = store.files[k].content /\ (SizeKnown(k) => SizeKnown(k)'),
           store'.writing \in {store.writing, Root}
    PROVE  OInv'
<1>1. /\ req # None /\ answer = None /\ req.op = "partial" /\ host.op = "partial" /\ host.txn = req.txn
      /\ host # NoTxn /\ req \in Requests /\ Receiving("partial") /\ ~Receiving("propList")
  BY WaitingFacts DEF Ops, Receiving
<1>2. /\ host.left \in Nat /\ len \in Nat
      /\ host' \in Transactions /\ host'.left = host.left - len /\ ~host'.first
      /\ host'.op = host.op /\ host'.txn = host.txn /\ host'.name = host.name /\ host'.size = host.size
      /\ host'.handle = host.handle
  BY PacketFacts
<1>3. host' # NoTxn /\ host'.left <= host.left
  BY <1>1, <1>2, NoTxnFacts
<1>4. edit \in Edits /\ edit.handle \in 0 .. TxnBound
  BY <1>1, Bounds DEF OInv, Types, PartSending, Edits, Handles
<1>5. edit' \in Edits
  BY <1>2, <1>4, OffsetMoves
<1>6. req' \in Requests /\ req'.op = req.op /\ req'.txn = req.txn /\ req'.code = code
      /\ code \in EndCodes /\ code # "ok" /\ code # "invalid"
  BY <1>1 DEF Requests, Codes, EndCodes
<1>7. answer' = None \/ (/\ answer' \in Answers /\ answer'.op = req.op /\ answer'.txn = req.txn
                         /\ answer'.code = code)
  BY <1>1, <1>4, <1>6, AnswerFacts
<1> QED
  BY <1>1, <1>2, <1>3, <1>5, <1>6, <1>7, FailureOInv

LEMMA PartWrittenOInv ==
    ASSUME OInv, Waiting("partial"), req.code = "ok", NEW len, Packet(len), NEW last,
           last = (host.left = len), edit.handle \in DOMAIN store.files,
           store' = WritePartialData(store, edit.handle, edit.offset, len, host.first, last, req.txn),
           edit' = [edit EXCEPT !.offset = @ + len],
           IF last THEN Answer(req, "ok", edit.handle) ELSE UNCHANGED answer,
           UNCHANGED <<session, req, sequence, propList, object, expected, mixed, txns, signals, fails>>
    PROVE  OInv'
<1>1. /\ req # None /\ answer = None /\ req.op = "partial" /\ host.op = "partial" /\ host.txn = req.txn
      /\ host # NoTxn /\ req \in Requests /\ host \in Transactions /\ Receiving("partial")
      /\ ~Receiving("propList") /\ ~Concluding
  BY WaitingFacts DEF Ops, Receiving
<1>2. /\ host.left \in Nat /\ len \in Nat /\ len <= host.left
      /\ host' \in Transactions /\ host'.left = host.left - len /\ ~host'.first
      /\ host'.op = host.op /\ host'.txn = host.txn /\ host'.name = host.name /\ host'.size = host.size
      /\ host'.handle = host.handle /\ host'.offset = host.offset
  BY PacketFacts
<1>3. host' # NoTxn
  BY <1>1, <1>2, NoTxnFacts
<1>4. last \in BOOLEAN
  OBVIOUS
<1>5. /\ Touched = {host.handle} /\ edit.handle = host.handle /\ edit \in Edits
      /\ host.handle \in DOMAIN store.files
      /\ IsStorage(store') /\ store'.last = store.last /\ DOMAIN store'.files = DOMAIN store.files
      /\ \A k \in DOMAIN store.files \ (Touched \cup mixed) :
            store'.files[k].content = store.files[k].content /\ (SizeKnown(k) => SizeKnown(k)')
      /\ store'.files[host.handle].content =
            Overwritten(store.files[host.handle].content, edit.offset, len, req.txn)
      /\ last => store'.writing = Root /\ host.handle \in store'.closed
      /\ ~last => /\ store'.data # None /\ store'.data.handle = host.handle
                  /\ store'.writing \in {host.handle, store.writing}
  BY <1>2, <1>4, PartWritten
<1>6. edit' \in Edits /\ edit'.handle = host.handle /\ edit'.offset = edit.offset + len
      /\ edit' # None /\ edit.offset \in Nat
  <2>1. edit' \in Edits /\ edit'.handle = host.handle /\ edit'.offset = edit.offset + len
    BY <1>2, <1>5, OffsetMoves
  <2> QED
    BY <1>5, <2>1, NoneDiffers DEF Edits
<1>7. Types /\ Transaction /\ Described /\ PartSending /\ MixedUp
  BY DEF OInv
<1>8. /\ ~last => answer' = None
      /\ last => /\ answer' \in Answers /\ answer' # None /\ answer'.op = req.op /\ answer'.txn = req.txn
                 /\ answer'.code = "ok"
  <2>1. edit.handle \in 0 .. TxnBound /\ "ok" \in EndCodes
    BY <1>5, Bounds DEF Edits, Handles, EndCodes, Codes
  <2> QED
    BY <1>1, <2>1, AnswerFacts
<1>9. host.size \in Nat /\ host.left <= host.size /\ host.offset \in Nat /\ host'.left \in Nat
      /\ host'.left <= host'.size /\ (last <=> host'.left = 0)
  <2>1. host.size \in Nat /\ host.left <= host.size /\ host.offset \in Nat
    BY <1>1, <1>7 DEF Types, Transactions
  <2>2. host'.left \in Nat /\ host'.left <= host'.size /\ (host.left = len <=> host'.left = 0)
    BY <1>2, <2>1
  <2>3. last <=> host.left = len
    OBVIOUS
  <2> QED
    BY <2>1, <2>2, <2>3
<1>10. Types'
  BY <1>1, <1>2, <1>5, <1>6, <1>7, <1>8, <1>9 DEF Types
<1>11. Transaction'
  BY <1>1, <1>2, <1>3, <1>5, <1>7, <1>8 DEF Transaction, Concluding, Receiving
<1>12. MixedUp'
  BY <1>1, <1>7 DEF MixedUp, Confused
<1>13. Described'
  <2>1. /\ sequence # None => /\ sequence.handle \in 1 .. store.last
                              /\ \/ object # None /\ object.handle = sequence.handle
                                 \/ sequence.handle \in mixed
        /\ propList # None /\ propList.handle # Root => propList.handle \in 1 .. store.last
                              /\ object # None /\ object.handle = propList.handle
        /\ propList # None /\ propList.handle = Root => object = None
    BY <1>1, <1>7 DEF Described
  <2>2. req'.op = "partial" /\ ~Receiving("propList")' /\ (answer' # None => answer'.code # "invalid")
    BY <1>1, <1>8 DEF Receiving
  <2> QED
    BY <1>5, <2>1, <2>2 DEF Described
<1>14. Sending'
  BY <1>1 DEF Sending, Receiving
<1>15. ASSUME host.handle \in DOMAIN expected \ mixed
       PROVE  store'.files[host.handle].content =
                 Overwritten(expected[host.handle], host.offset, host'.size - host'.left, req.txn)
  <2> DEFINE done == host.size - host.left
             txn == req.txn
             content == expected[host.handle]
             offset == host.offset
  <2>1. /\ edit.offset = offset + done
        /\ store.files[host.handle].content = Overwritten(content, offset, done, txn)
    BY <1>1, <1>5, <1>7, <1>15 DEF PartSending, EditedTo
  <2>2. done \in Nat /\ offset \in Nat /\ txn \in 0 .. TxnBound /\ content \in Contents
        /\ host'.size - host'.left = done + len
    BY <1>1, <1>2, <1>7, <1>9, <1>15, Bounds DEF Requests, Types
  <2>3. store'.files[host.handle].content =
           Overwritten(Overwritten(content, offset, done, txn), offset + done, len, txn)
    BY <1>5, <2>1
  <2> HIDE DEF done, txn, content, offset
  <2>4. Overwritten(Overwritten(content, offset, done, txn), offset + done, len, txn)
           = Overwritten(content, offset, done + len, txn)
    BY <1>2, <2>2, OverwrittenTwice
  <2>5. store'.files[host.handle].content = Overwritten(content, offset, host'.size - host'.left, txn)
    BY <2>2, <2>3, <2>4
  <2> QED
    BY <2>5 DEF content, offset, txn
<1>16. PartSending'
  <2> SUFFICES ASSUME ~last PROVE PartSending'
    BY <1>8 DEF PartSending, Receiving
  <2>1. edit'.offset = host'.offset + (host'.size - host'.left)
    <3>1. edit.offset = host.offset + (host.size - host.left)
      BY <1>1, <1>7 DEF PartSending
    <3> QED
      BY <1>2, <1>6, <1>9, <3>1
  <2>2. EditedTo(host.handle, Overwritten(expected[host.handle], host.offset, host.size - host.left, req.txn))'
    BY <1>2, <1>15 DEF EditedTo
  <2> QED
    BY <1>2, <1>5, <1>6, <2>1, <2>2 DEF PartSending
<1>17. Sending' /\ ToBelieve'
  <2> SUFFICES ASSUME last, host'.left = 0 PROVE ToBelieve'
    BY <1>8, <1>9, <1>14 DEF ToBelieve, Concluding
  <2>1. host'.size - host'.left = host'.size
    BY <1>2, <1>9
  <2>2. EditedTo(host.handle, Overwritten(expected[host.handle], host.offset, host.size, req.txn))'
    BY <1>2, <1>15, <2>1 DEF EditedTo
  <2>3. SizeKnown(host.handle)'
    BY <1>2, <1>5 DEF SizeKnown
  <2> QED
    BY <1>1, <2>2, <2>3 DEF ToBelieve
<1>18. Touched' = Touched
  BY <1>2 DEF Touched
<1>19. Believed'
  BY <1>5, <1>18 DEF OInv, Believed
<1>20. WritingUnknown'
  <2>1. Root \notin DOMAIN expected
    BY <1>7 DEF Types, Root
  <2>2. store'.writing \in DOMAIN expected \ mixed => store'.writing \in Touched
    BY <1>5, <2>1 DEF OInv, WritingUnknown
  <2>3. Concluding' => store'.writing = Root
    BY <1>5, <1>8 DEF Concluding
  <2> QED
    BY <1>1, <1>18, <2>2, <2>3 DEF WritingUnknown
<1> QED
  BY <1>10, <1>11, <1>12, <1>13, <1>16, <1>17, <1>19, <1>20 DEF OInv

LEMMA SendPartialObjectDataOInv == ASSUME OInv, NEW len, SendPartialObjectData(len) PROVE OInv'
<1> DEFINE h == edit.handle
           last == host.left = len
<1>1. /\ Waiting("partial") /\ req.code = "ok" /\ Packet(len)
      /\ edit' = [edit EXCEPT !.offset = @ + len]
      /\ IF last THEN Answer(req, req'.code, h) ELSE UNCHANGED answer
      /\ UNCHANGED <<session, sequence, propList, object, expected, mixed, txns, signals>>
  BY DEF SendPartialObjectData
<1>2. \/ /\ h \notin DOMAIN store.files
         /\ req' = [req EXCEPT !.code = "badHandle"]
         /\ UNCHANGED <<store, fails>>
      \/ /\ h \in DOMAIN store.files /\ Fails
         /\ req' = [req EXCEPT !.code = "general"]
         /\ store' = WritePartialData(store, h, edit.offset, 0, host.first, TRUE, req.txn)
      \/ /\ h \in DOMAIN store.files
         /\ store' = WritePartialData(store, h, edit.offset, len, host.first, last, req.txn)
         /\ UNCHANGED <<req, fails>>
  BY DEF SendPartialObjectData
<1>3. Types
  BY DEF OInv
<1>4. CASE /\ req' = [req EXCEPT !.code = "badHandle"] /\ UNCHANGED <<store, fails>>
  <2>1. IsStorage(store') /\ (\A k : SizeKnown(k) => SizeKnown(k)') /\ fails' \in 0 .. FailBound
    BY <1>3, <1>4 DEF Types, SizeKnown
  <2> QED
    BY <1>1, <1>4, <2>1, PartFailedOInv
<1>5. CASE /\ h \in DOMAIN store.files /\ Fails /\ req' = [req EXCEPT !.code = "general"]
           /\ store' = WritePartialData(store, h, edit.offset, 0, host.first, TRUE, req.txn)
  <2>1. fails' \in 0 .. FailBound
    BY <1>3, <1>5, Bounds DEF Fails, Types
  <2>2. /\ IsStorage(store') /\ store'.last = store.last /\ DOMAIN store'.files = DOMAIN store.files
        /\ \A k \in DOMAIN store.files \ (Touched \cup mixed) :
              store'.files[k].content = store.files[k].content /\ (SizeKnown(k) => SizeKnown(k)')
        /\ store'.writing = Root
    BY <1>1, <1>5, PartWritten
  <2> QED
    BY <1>1, <1>5, <2>1, <2>2, PartFailedOInv
<1>6. CASE /\ h \in DOMAIN store.files /\ UNCHANGED <<req, fails>>
           /\ store' = WritePartialData(store, h, edit.offset, len, host.first, last, req.txn)
  BY <1>1, <1>6, PartWrittenOInv
<1> QED
  BY <1>2, <1>4, <1>5, <1>6

-----------------------------------------------------------------------------
(* The end of a transaction. *)

\* The host is in no transaction, and what it believes is so.
LEMMA EndedOInv ==
    ASSUME OInv, host' = NoTxn, req' = None,
           session' \in BOOLEAN, mixed' = mixed, answer' \in Answers \cup {None},
           edit' \in Edits \cup {None},
           sequence' # None => /\ sequence' = sequence /\ session'
                               /\ \/ object' # None /\ object'.handle = sequence.handle
                                  \/ /\ sequence.handle \in mixed
                                     /\ object' # None => object'.handle \in mixed,
           propList' # None => propList' = propList /\ session'
                               /\ (IF propList.handle = Root THEN object' = None
                                   ELSE object' # None /\ object'.handle = propList.handle),
           object' \in Objects \cup {None}, object' # None => object'.handle <= store'.last,
           IsStorage(store'), store'.last = store.last, store'.writing = store.writing,
           expected' \in [DOMAIN expected' -> Contents], DOMAIN expected' \subseteq 1 .. store.last,
           \A h \in (DOMAIN expected' \cap DOMAIN store'.files) \ mixed :
              store'.files[h].content = expected'[h] /\ SizeKnown(h)',
           store.writing \notin DOMAIN expected' \ mixed,
           txns' = txns, signals' \in 0 .. SignalBound, fails' = fails
    PROVE  OInv'
<1>1. Types /\ Transaction /\ Described /\ MixedUp
  BY DEF OInv
<1>2. NoTxn \in Transactions /\ NoTxn.op = "none" /\ NoTxn.left = 0 /\ NoTxn.size = 0 /\ NoTxn.first = FALSE
  BY NoTxnFacts
<1>3. ~Concluding' /\ (\A op : ~Receiving(op)')
  BY DEF Concluding, Receiving
<1>4. /\ sequence' \in Description \cup {None} /\ propList' \in PropLists \cup {None}
  BY <1>1 DEF Types
<1>5. Types'
  BY <1>1, <1>2, <1>4 DEF Types
<1>6. Transaction'
  BY <1>1, <1>2, <1>3 DEF Transaction
<1>7. MixedUp'
  BY <1>1 DEF MixedUp, Confused
<1>8. Described'
  <2>1. sequence' # None => sequence.handle \in 1 .. store.last
    BY <1>1 DEF Described
  <2>2. propList' # None /\ propList.handle # Root => propList.handle \in 1 .. store.last
    BY <1>1 DEF Described
  <2> QED
    BY <1>3, <2>1, <2>2 DEF Described
<1>9. Sending' /\ PartSending' /\ ToBelieve'
  BY <1>3 DEF Sending, PartSending, ToBelieve
<1>10. Touched' = {}
  BY <1>2 DEF Touched
<1>11. Believed' /\ WritingUnknown'
  BY <1>3, <1>10 DEF Believed, WritingUnknown
<1> QED
  BY <1>5, <1>6, <1>7, <1>8, <1>9, <1>11 DEF OInv

\* What the host has touched it no longer believes in.
LEMMA UnknownFacts ==
    ASSUME OInv, Unknown, UNCHANGED store
    PROVE  /\ expected' \in [DOMAIN expected' -> Contents] /\ DOMAIN expected' \subseteq 1 .. store.last
           /\ \A h \in (DOMAIN expected' \cap DOMAIN store.files) \ mixed :
                 store.files[h].content = expected'[h] /\ SizeKnown(h)
           /\ store.writing \notin DOMAIN expected' \ mixed
<1>1. /\ DOMAIN expected' = DOMAIN expected \ Touched
      /\ \A h \in DOMAIN expected' : expected'[h] = expected[h]
      /\ expected' = [h \in DOMAIN expected' |-> expected'[h]]
  BY DEF Unknown
<1>2. expected \in [DOMAIN expected -> Contents] /\ DOMAIN expected \subseteq 1 .. store.last
  BY DEF OInv, Types
<1>3. \A h \in (DOMAIN expected' \cap DOMAIN store.files) \ mixed :
         store.files[h].content = expected'[h] /\ SizeKnown(h)
  BY <1>1 DEF OInv, Believed
<1>4. store.writing \notin DOMAIN expected' \ mixed
  BY <1>1 DEF OInv, WritingUnknown
<1> QED
  BY <1>1, <1>2, <1>3, <1>4

\* What a response lets the host believe
LEMMA KnownFacts ==
    ASSUME OInv, NEW h, NEW content \in Contents, Known(h, content), h \in 1 .. store.last,
           Touched \subseteq {h}, store.writing \notin DOMAIN expected \ mixed,
           store.writing # h \/ h \in mixed,
           h \in DOMAIN store.files \ mixed => store.files[h].content = content /\ SizeKnown(h)
    PROVE  /\ expected' \in [DOMAIN expected' -> Contents] /\ DOMAIN expected' \subseteq 1 .. store.last
           /\ \A k \in (DOMAIN expected' \cap DOMAIN store.files) \ mixed :
                 store.files[k].content = expected'[k] /\ SizeKnown(k)
           /\ store.writing \notin DOMAIN expected' \ mixed
<1>1. /\ DOMAIN expected' = DOMAIN expected \cup {h}
      /\ \A k \in DOMAIN expected' : expected'[k] = IF k = h THEN content ELSE expected[k]
      /\ expected' = [k \in DOMAIN expected' |-> expected'[k]]
  BY DEF Known
<1>2. expected \in [DOMAIN expected -> Contents] /\ DOMAIN expected \subseteq 1 .. store.last
  BY DEF OInv, Types
<1>3. expected' \in [DOMAIN expected' -> Contents]
  <2>1. \A k \in DOMAIN expected' : expected'[k] \in Contents
    BY <1>1, <1>2
  <2> QED
    BY <1>1, <2>1
<1>4. \A k \in (DOMAIN expected' \cap DOMAIN store.files) \ mixed :
         store.files[k].content = expected'[k] /\ SizeKnown(k)
  BY <1>1 DEF OInv, Believed
<1> QED
  BY <1>1, <1>2, <1>3, <1>4

LEMMA CancelTransactionOInv == ASSUME OInv, CancelTransaction PROVE OInv'
<1> DEFINE h == IF propList # None THEN propList.handle
                ELSE IF sequence # None THEN sequence.handle ELSE Root
<1>1. /\ req # None /\ req' = None /\ host' = NoTxn /\ signals < SignalBound /\ signals' = signals + 1
      /\ Unknown /\ UNCHANGED <<mixed, txns, fails, session, answer, edit>>
  BY DEF CancelTransaction, HostGivesUp
<1>2. Types /\ IsStorage(store)
  BY DEF OInv, Types
<1>3. signals' \in 0 .. SignalBound /\ session' \in BOOLEAN
      /\ answer' \in Answers \cup {None} /\ edit' \in Edits \cup {None}
  BY <1>1, <1>2, Bounds DEF Types
<1>4. /\ DOMAIN expected' = DOMAIN expected \ Touched
      /\ \A k \in DOMAIN expected' : expected'[k] = expected[k]
      /\ expected' \in [DOMAIN expected' -> Contents] /\ DOMAIN expected' \subseteq 1 .. store.last
  <2>1. /\ DOMAIN expected' = DOMAIN expected \ Touched
        /\ \A k \in DOMAIN expected' : expected'[k] = expected[k]
        /\ expected' = [k \in DOMAIN expected' |-> expected'[k]]
    BY <1>1 DEF Unknown
  <2> QED
    BY <1>2, <2>1 DEF Types
<1>5. store.writing \notin DOMAIN expected' \ mixed
  BY <1>4 DEF OInv, WritingUnknown
<1>6. \A k \in (DOMAIN expected' \cap DOMAIN store.files) \ mixed : store.files[k].content = expected'[k] /\ SizeKnown(k)
  BY <1>4 DEF OInv, Believed
<1>7. CASE req.op \in {"info", "propList", "object"}
  <2>1. /\ store' = IF h = Root THEN store ELSE DeleteItem(store, h)
        /\ propList' = None /\ (sequence' = None \/ (propList # None /\ sequence' = sequence)) /\ object' = None
    <3>1. /\ store' = IF h = Root THEN store ELSE DeleteItem(store, h)
          /\ propList' = None /\ sequence' = (IF propList # None THEN sequence ELSE None) /\ object' = None
      BY <1>7, Zenon DEF CancelTransaction
    <3>2. sequence' = None \/ (propList # None /\ sequence' = sequence)
      BY <3>1
    <3> HIDE DEF h
    <3> QED
      BY <3>1, <3>2
  <2>2. sequence' # None => /\ sequence' = sequence /\ session' /\ sequence.handle \in mixed
                            /\ object' = None
    BY <1>1, <2>1 DEF OInv, MixedUp
  <2>3. /\ IsStorage(store') /\ store'.last = store.last /\ store'.writing = store.writing
        /\ \A k \in DOMAIN store'.files : /\ k \in DOMAIN store.files /\ store'.files[k] = store.files[k]
                                          /\ k \in store.closed => k \in store'.closed
    <3>1. CASE h = Root
      BY <1>2, <2>1, <3>1
    <3>2. CASE h # Root
      <4> DEFINE t == DeleteItem(store, h)
      <4>1. store' = t
        BY <2>1, <3>2
      <4> HIDE DEF h
      <4>2. /\ IsStorage(t) /\ DOMAIN t.files = DOMAIN store.files \ {h}
            /\ \A k \in DOMAIN t.files : t.files[k] = store.files[k]
            /\ t.closed = store.closed \ {h} /\ t.writing = store.writing /\ t.last = store.last
        BY <1>2, DeleteItemFacts
      <4> HIDE DEF t
      <4> QED
        BY <4>1, <4>2
    <3> QED
      BY <3>1, <3>2
  <2>4. \A k \in (DOMAIN expected' \cap DOMAIN store'.files) \ mixed :
           store'.files[k].content = expected'[k] /\ SizeKnown(k)'
    BY <1>6, <2>3 DEF SizeKnown
  <2>5. fails' = fails /\ txns' = txns
    BY <1>1
  <2> QED
    BY <1>1, <1>3, <1>4, <1>5, <2>1, <2>2, <2>3, <2>4, <2>5, EndedOInv
<1>8. CASE req.op \notin {"info", "propList", "object"}
  <2>1. UNCHANGED <<store, propList, sequence, object>>
    BY <1>8 DEF CancelTransaction
  <2>2. /\ sequence # None => /\ session
                              /\ \/ object # None /\ object.handle = sequence.handle
                                 \/ /\ sequence.handle \in mixed
                                    /\ object # None => object.handle \in mixed
        /\ propList # None => /\ session
                              /\ IF propList.handle = Root THEN object = None
                                 ELSE object # None /\ object.handle = propList.handle
    BY <1>8 DEF OInv, Described, MixedUp, Confused, Receiving
  <2>3. object \in Objects \cup {None} /\ (object # None => object.handle <= store.last)
    BY <1>2 DEF Types
  <2>4. \A k \in (DOMAIN expected' \cap DOMAIN store'.files) \ mixed :
           store'.files[k].content = expected'[k] /\ SizeKnown(k)'
    BY <1>6, <2>1 DEF SizeKnown
  <2> QED
    BY <1>1, <1>2, <1>3, <1>4, <1>5, <2>1, <2>2, <2>3, <2>4, EndedOInv
<1> QED
  BY <1>7, <1>8

LEMMA DeviceResetOInv == ASSUME OInv, DeviceReset PROVE OInv'
<1>1. /\ req' = None /\ host' = NoTxn /\ signals < SignalBound /\ signals' = signals + 1
      /\ Unknown /\ UNCHANGED <<mixed, txns, fails, answer, edit, store>>
      /\ session' = FALSE /\ sequence' = None /\ propList' = None /\ object' = None
  BY DEF DeviceReset, HostGivesUp, ForgetDescriptions
<1>2. Types /\ IsStorage(store)
  BY DEF OInv, Types
<1>3. signals' \in 0 .. SignalBound
      /\ answer' \in Answers \cup {None} /\ edit' \in Edits \cup {None}
  BY <1>1, <1>2, Bounds DEF Types
<1>4. /\ expected' \in [DOMAIN expected' -> Contents] /\ DOMAIN expected' \subseteq 1 .. store.last
      /\ \A h \in (DOMAIN expected' \cap DOMAIN store.files) \ mixed :
            store.files[h].content = expected'[h] /\ SizeKnown(h)
      /\ store.writing \notin DOMAIN expected' \ mixed
  BY <1>1, UnknownFacts
<1>5. \A h \in (DOMAIN expected' \cap DOMAIN store'.files) \ mixed :
         store'.files[h].content = expected'[h] /\ SizeKnown(h)'
  BY <1>1, <1>4 DEF SizeKnown
<1> QED
  BY <1>1, <1>2, <1>3, <1>4, <1>5, EndedOInv

LEMMA FSModifyOInv == ASSUME OInv, NEW h \in store.closed, FSModify(h) PROVE OInv'
<1>1. /\ store' = IF h = store.writing THEN [store EXCEPT !.closed = @ \ {h}]
                  ELSE [store EXCEPT !.closed = @ \ {h}, !.files[h].size = Len(store.files[h].content)]
      /\ UNCHANGED <<session, req, answer, sequence, propList, edit, host, object, expected, mixed,
                     txns, signals, fails>>
  BY DEF FSModify, responder, budget
<1>2. Types /\ IsStorage(store)
  BY DEF OInv, Types
<1>3. h \in DOMAIN store.files /\ h # Root
  BY <1>2, StorageFacts
<1>4. /\ IsStorage(store') /\ store'.last = store.last /\ store'.data = store.data
      /\ store'.writing = store.writing /\ DOMAIN store'.files = DOMAIN store.files
      /\ store'.closed = store.closed \ {h}
      /\ \A k \in DOMAIN store.files : store'.files[k].content = store.files[k].content
      /\ \A k \in DOMAIN store.files \ {h} : store'.files[k].size = store.files[k].size
      /\ h # store.writing => store'.files[h].size = Len(store.files[h].content)
  <2> DEFINE closed == store.closed \ {h}
             s == [store EXCEPT !.closed = closed]
  <2>1. /\ store = Storage(store.files, store.data, store.writing, store.closed, store.last)
        /\ store.files \in [DOMAIN store.files -> File] /\ store.data \in OpenFiles \cup {None}
        /\ store.writing \in 0 .. TxnBound /\ store.closed \in SUBSET DOMAIN store.files
    BY <1>2, StorageIs
  <2>2. closed \in SUBSET DOMAIN store.files
    BY <2>1
  <2>3. s = Storage(store.files, store.data, store.writing, closed, store.last)
    <3> HIDE DEF closed
    <3> QED
      BY <2>1 DEF Storage
  <2>4. IsStorage(s)
    <3> HIDE DEF closed, s
    <3> QED
      BY <1>2, <2>1, <2>2, <2>3, StorageMade
  <2>5. /\ s.files = store.files /\ s.data = store.data /\ s.writing = store.writing
        /\ s.closed = closed /\ s.last = store.last
    <3> HIDE DEF closed, s
    <3> QED
      BY <2>3 DEF Storage
  <2>6. CASE h = store.writing
    <3>1. store' = s
      BY <1>1, <2>6
    <3> HIDE DEF s
    <3> QED
      BY <2>4, <2>5, <2>6, <3>1
  <2>7. CASE h # store.writing
    <3> DEFINE size == Len(store.files[h].content)
               file == [s.files[h] EXCEPT !.size = size]
               files == [s.files EXCEPT ![h] = file]
               t == [s EXCEPT !.files = files]
    <3>1. store' = t
      BY <1>1, <2>7
    <3>2. size \in Nat /\ s.files[h] \in File
      <4>1. store.files[h].content \in Contents /\ store.files[h] \in File
        BY <1>2, <1>3, StorageFacts
      <4> HIDE DEF s
      <4> QED
        BY <2>5, <4>1, ContentFacts
    <3> HIDE DEF size
    <3>3. file \in File /\ file.content = s.files[h].content /\ file.size = size
      <4> HIDE DEF s
      <4> QED
        BY <3>2 DEF File
    <3> HIDE DEF file
    <3>4. files \in [DOMAIN s.files -> File] /\ files[h] = file /\ (\A k \in DOMAIN s.files \ {h} : files[k] = s.files[k])
      <4>1. s.files \in [DOMAIN s.files -> File] /\ h \in DOMAIN s.files
        BY <1>3, <2>1, <2>5
      <4> HIDE DEF s
      <4> QED
        BY <3>3, <4>1
    <3> HIDE DEF files
    <3>5. t = Storage(files, s.data, s.writing, s.closed, s.last)
      <4> HIDE DEF s, closed
      <4> QED
        BY <2>3 DEF Storage
    <3> HIDE DEF s, t
    <3>6. IsStorage(t)
      <4>1. s.data \in OpenFiles \cup {None} /\ s.writing \in 0 .. TxnBound /\ s.closed \in SUBSET DOMAIN s.files
        BY <2>4, StorageIs
      <4> QED
        BY <2>4, <3>4, <3>5, <4>1, StorageMade
    <3>7. /\ t.files = files /\ t.data = s.data /\ t.writing = s.writing /\ t.closed = s.closed /\ t.last = s.last
      BY <3>5 DEF Storage
    <3>8. /\ \A k \in DOMAIN store.files : t.files[k].content = store.files[k].content
          /\ \A k \in DOMAIN store.files \ {h} : t.files[k].size = store.files[k].size
          /\ t.files[h].size = Len(store.files[h].content) /\ DOMAIN t.files = DOMAIN store.files
      BY <2>5, <3>3, <3>4, <3>7 DEF size
    <3> QED
      BY <2>5, <3>1, <3>6, <3>7, <3>8
  <2> QED
    BY <2>6, <2>7
<1>5. \A k \in DOMAIN store.files : SizeKnown(k) /\ k # store.writing => SizeKnown(k)'
  BY <1>4 DEF SizeKnown
<1>6. Types'
  BY <1>1, <1>2, <1>4 DEF Types
<1>7. Transaction' /\ MixedUp' /\ Described'
  BY <1>1, <1>4 DEF OInv, Transaction, MixedUp, Confused, Described, Concluding, Receiving
<1>8. Sending'
  BY <1>1, <1>4 DEF OInv, Sending, Receiving, Target
<1>9. PartSending'
  BY <1>1, <1>4 DEF OInv, PartSending, Receiving, EditedTo
<1>10. Touched' = Touched
  BY <1>1 DEF Touched
<1>11. Concluding' <=> Concluding
  BY <1>1 DEF Concluding
<1>12. ToBelieve'
  <2> SUFFICES ASSUME Concluding, host.left = 0 PROVE ToBelieve'
    BY <1>1, <1>11 DEF ToBelieve
  <2>1. req.op \in {"object", "partial"} => store.writing = Root
    BY DEF OInv, WritingUnknown
  <2>2. req.op = "truncate" => store.writing \notin DOMAIN expected \ mixed
    BY DEF OInv, WritingUnknown
  <2>3. Root \notin DOMAIN store.files
    BY <1>2, StorageFacts
  <2>4. ToBelieve
    BY DEF OInv
  <2> QED
    BY <1>1, <1>4, <1>5, <2>1, <2>2, <2>3, <2>4 DEF ToBelieve, EditedTo
<1>13. Believed'
  <2>1. \A k \in (DOMAIN expected \cap DOMAIN store.files) \ (Touched \cup mixed) : k # store.writing
    BY DEF OInv, WritingUnknown
  <2> QED
    BY <1>1, <1>4, <1>5, <1>10, <2>1 DEF OInv, Believed
<1>14. WritingUnknown'
  BY <1>1, <1>4, <1>10, <1>11 DEF OInv, WritingUnknown
<1> QED
  BY <1>6, <1>7, <1>8, <1>9, <1>12, <1>13, <1>14 DEF OInv

\* A response of a transaction the host is no longer in
LEMMA LateResponseOInv ==
    ASSUME OInv, ResponseSent, req = None PROVE OInv'
<1>1. /\ answer # None /\ answer' = None /\ req' = None
      /\ UNCHANGED <<session, sequence, edit, store, mixed, txns, signals, fails>>
      /\ propList' = IF answer.op = "object" THEN None ELSE propList
  BY DEF ResponseSent, budget
<1>2. host = NoTxn /\ Types
  BY DEF OInv, Transaction
<1>3. UNCHANGED <<host, object, expected>>
  <2>1. host.txn # answer.txn
    BY <1>1, <1>2, NoTxnFacts DEF Types, Answers
  <2> QED
    BY <2>1 DEF ResponseSent
<1>4. /\ store.writing \notin DOMAIN expected \ mixed
      /\ \A h \in (DOMAIN expected \cap DOMAIN store.files) \ mixed :
            store.files[h].content = expected[h] /\ SizeKnown(h)
      /\ sequence # None => \/ object # None /\ object.handle = sequence.handle
                            \/ /\ sequence.handle \in mixed
                               /\ object # None => object.handle \in mixed
      /\ propList # None /\ propList.handle # Root => object # None /\ object.handle = propList.handle
      /\ propList # None /\ propList.handle = Root => object = None
  BY <1>2, IdleFacts DEF Confused
<1>5. \A h : SizeKnown(h) => SizeKnown(h)'
  BY <1>1 DEF SizeKnown
<1>6. (sequence # None => session) /\ (propList # None => session)
  BY DEF OInv, MixedUp
<1>7. /\ session' \in BOOLEAN /\ edit' \in Edits \cup {None}
      /\ object' \in Objects \cup {None} /\ (object' # None => object'.handle <= store'.last)
      /\ IsStorage(store') /\ signals' \in 0 .. SignalBound
      /\ expected' \in [DOMAIN expected' -> Contents] /\ DOMAIN expected' \subseteq 1 .. store.last
  BY <1>1, <1>2, <1>3 DEF Types
<1> QED
  BY <1>1, <1>2, <1>3, <1>4, <1>5, <1>6, <1>7, EndedOInv

\* What is left of a description is of the object the host knows.
LEMMA DescriptionLeft ==
    ASSUME OInv, ResponseSent, req # None, Concluded(answer)
    PROVE  /\ object' \in Objects \cup {None} /\ (object' # None => object'.handle <= store.last)
           /\ sequence # None => \/ object' # None /\ object'.handle = sequence.handle
                                 \/ /\ sequence.handle \in mixed
                                    /\ object' # None => object'.handle \in mixed
           /\ propList' # None => /\ propList' = propList
                                  /\ IF propList.handle = Root THEN object' = None
                                     ELSE object' # None /\ object'.handle = propList.handle
<1>1. /\ answer # None /\ propList' = IF answer.op = "object" THEN None ELSE propList
  BY DEF ResponseSent
<1>2. Types /\ Described /\ Transaction /\ MixedUp
  BY DEF OInv
<1>3. answer \in Answers /\ host \in Transactions /\ answer.op = req.op /\ host.op = req.op
  BY <1>1, <1>2 DEF Types, Transaction
<1>4. ~Receiving("propList")
  BY <1>1 DEF Receiving
<1>5. object \in Objects \cup {None} /\ (object # None => object.handle <= store.last)
  BY <1>2 DEF Types
<1>6. CASE answer.code # "ok" \/ host.left > 0
  <2>1. object' = IF answer.code = "invalid" THEN None ELSE object
    BY <1>6 DEF Concluded
  <2>2. Concluding => req.op \notin {"info", "propList"}
    <3>1. host.op \notin {"object", "partial"} => host.left = 0
      BY <1>2 DEF Types
    <3> QED
      BY <1>3, <1>6, <3>1 DEF Concluding
  <2> QED
    BY <1>1, <1>2, <1>3, <1>4, <1>5, <2>1, <2>2 DEF Described, MixedUp, Confused
<1>7. CASE answer.code = "ok" /\ ~(host.left > 0)
  <2>1. Concluding
    BY <1>1, <1>7 DEF Concluding
  <2>2. req.code = "ok"
    BY <1>2, <2>1 DEF Transaction
  <2>3. CASE answer.op \in {"info", "propList"}
    <3> DEFINE h == answer.handle
               size == host.size
    <3>1. object' = [handle |-> h, size |-> size]
      BY <1>7, <2>3 DEF Concluded
    <3>2. h \in 1 .. store.last /\ h # Root
          /\ (answer.op = "info" => sequence # None /\ sequence.handle = h /\ propList = None)
          /\ (answer.op = "propList" => /\ propList # None /\ propList.handle = h
                                        /\ sequence # None => sequence.handle \in mixed /\ h \in mixed)
      BY <1>2, <1>3, <2>1, <2>2, <2>3 DEF Described, MixedUp, Root
    <3>3. store.last \in 0 .. TxnBound /\ size \in Nat
      BY <1>2, <1>3, StorageFacts DEF Types, Transactions
    <3>4. h \in Handles /\ h <= store.last
      BY <3>2, <3>3, Bounds DEF Handles
    <3> HIDE DEF h, size
    <3>5. object' \in Objects /\ object'.handle = h
      BY <3>1, <3>3, <3>4 DEF Objects
    <3> QED
      BY <1>1, <2>3, <3>2, <3>4, <3>5, NoneDiffers
  <2>4. CASE answer.op = "object"
    <3>1. object' = None /\ propList' = None
      BY <1>1, <1>7, <2>4 DEF Concluded
    <3>2. sequence = None
      BY <1>2, <1>3, <2>1, <2>4 DEF Described
    <3> QED
      BY <3>1, <3>2
  <2>5. CASE answer.op \in {"open", "close"}
    <3>1. object' = None
      BY <1>7, <2>5 DEF Concluded
    <3>2. sequence = None /\ propList = None
      BY <1>2, <1>3, <2>1, <2>5 DEF Described
    <3> QED
      BY <1>1, <3>1, <3>2
  <2>6. CASE answer.op \in {"partial", "truncate", "begin", "end"}
    <3>1. object' = object
      BY <1>7, <2>6 DEF Concluded
    <3> QED
      BY <1>1, <1>2, <1>3, <1>4, <1>5, <1>7, <2>6, <3>1 DEF Described, MixedUp, Confused
  <2> QED
    BY <1>3, <2>3, <2>4, <2>5, <2>6 DEF Answers, Ops
<1> QED
  BY <1>6, <1>7

\* The host believes what it sent, and it is so.
LEMMA BelievesWhatIsSo ==
    ASSUME OInv, ResponseSent, req # None, Concluded(answer)
    PROVE  /\ expected' \in [DOMAIN expected' -> Contents] /\ DOMAIN expected' \subseteq 1 .. store.last
           /\ \A h \in (DOMAIN expected' \cap DOMAIN store.files) \ mixed :
                 store.files[h].content = expected'[h] /\ SizeKnown(h)
           /\ store.writing \notin DOMAIN expected' \ mixed
<1>1. answer # None /\ UNCHANGED store
  BY DEF ResponseSent
<1>2. Types /\ Transaction /\ ToBelieve /\ WritingUnknown
  BY DEF OInv
<1>3. /\ answer \in Answers /\ host \in Transactions /\ answer.op = req.op /\ host.op = req.op
      /\ answer.txn = req.txn /\ req.txn \in 0 .. TxnBound
      /\ host.left \in Nat /\ host.size \in Nat /\ host.offset \in Nat
      /\ expected \in [DOMAIN expected -> Contents] /\ DOMAIN expected \subseteq 1 .. store.last
  BY <1>1, <1>2, Bounds DEF Types, Transaction, Transactions, Requests
<1>4. CASE Unknown
  BY <1>1, <1>4, UnknownFacts
<1>5. CASE ~Unknown
  <2>1. answer.code = "ok" /\ host.left = 0 /\ Concluding
    <3>1. answer.code = "ok" /\ ~(host.left > 0)
      BY <1>5 DEF Concluded
    <3> QED
      BY <1>1, <1>3, <3>1 DEF Concluding
  <2>2. CASE answer.op = "object"
    <3> DEFINE sent == [i \in 1 .. host.size |-> answer.txn]
    <3>1. object # None /\ Known(object.handle, sent)
      BY <1>5, <2>1, <2>2 DEF Concluded
    <3>2. /\ object.handle \notin mixed => /\ SizeKnown(object.handle)
                                           /\ store.files[object.handle].content = sent
          /\ store.writing = Root
      BY <1>2, <1>3, <2>1, <2>2, <3>1 DEF ToBelieve, WritingUnknown
    <3>3. sent \in Contents
      <4>1. sent \in [1 .. host.size -> 0 .. TxnBound]
        BY <1>3
      <4> QED
        BY <1>3, <4>1, FunctionIsContent
    <3>4. Touched = {object.handle} /\ object.handle \in 1 .. store.last
          /\ store.writing # object.handle /\ store.writing \notin DOMAIN expected
      <4>1. IsStorage(store) /\ object \in Objects /\ object.handle <= store.last
        BY <1>2, <3>1 DEF Types
      <4>2. object.handle \in 1 .. store.last /\ Root \notin 1 .. store.last
        BY <4>1, StorageFacts, Bounds DEF Objects, Handles, Root
      <4> QED
        BY <1>3, <2>2, <3>1, <3>2, <4>2 DEF Touched
    <3> HIDE DEF sent
    <3> QED
      BY <3>1, <3>2, <3>3, <3>4, KnownFacts
  <2>3. CASE answer.op \in {"partial", "truncate"}
    <3> DEFINE h == host.handle
               content == IF answer.op = "partial"
                          THEN Overwritten(expected[h], host.offset, host.size, answer.txn)
                          ELSE Resized(expected[h], host.size)
    <3>1. h \in DOMAIN expected /\ Known(h, content)
      BY <1>5, <2>1, <2>3 DEF Concluded
    <3>2. h \in DOMAIN store.files \ mixed => store.files[h].content = content /\ SizeKnown(h)
      BY <1>2, <1>3, <2>1, <2>3, <3>1 DEF ToBelieve, EditedTo
    <3>3. content \in Contents
      BY <1>3, <3>1, OverwrittenFacts, ResizedFacts
    <3>4. Touched = {h} /\ h \in 1 .. store.last
      BY <1>3, <2>3, <3>1 DEF Touched
    <3>5. store.writing \notin DOMAIN expected \ mixed /\ (store.writing # h \/ h \in mixed)
      BY <1>2, <1>3, <2>1, <2>3, <3>1 DEF WritingUnknown, Root
    <3> HIDE DEF content, h
    <3> QED
      BY <3>1, <3>2, <3>3, <3>4, <3>5, KnownFacts
  <2>4. CASE answer.op \notin {"object", "partial", "truncate"}
    <3>1. expected' = expected
      BY <2>1, <2>4 DEF Concluded
    <3>2. Touched = {}
      BY <1>3, <2>4 DEF Touched
    <3>3. store.writing \notin DOMAIN expected \ mixed
      BY <1>2, <3>2 DEF WritingUnknown
    <3> QED
      BY <1>3, <3>1, <3>2, <3>3 DEF OInv, Believed
  <2> QED
    BY <2>2, <2>3, <2>4
<1> QED
  BY <1>4, <1>5

LEMMA ResponseSentOInv == ASSUME OInv, ResponseSent PROVE OInv'
<1>1. CASE req = None
  BY <1>1, LateResponseOInv
<1>2. CASE req # None
  <2>1. /\ answer # None /\ answer' = None /\ req' = None
        /\ UNCHANGED <<session, sequence, edit, store, mixed, txns, signals, fails>>
    BY DEF ResponseSent, budget
  <2>2. host' = NoTxn /\ Concluded(answer)
    <3>1. host.txn = answer.txn
      BY <1>2, <2>1 DEF OInv, Transaction
    <3> QED
      BY <3>1 DEF ResponseSent
  <2>3. Types
    BY DEF OInv
  <2>4. /\ object' \in Objects \cup {None} /\ (object' # None => object'.handle <= store.last)
        /\ sequence # None => \/ object' # None /\ object'.handle = sequence.handle
                              \/ /\ sequence.handle \in mixed
                                 /\ object' # None => object'.handle \in mixed
        /\ propList' # None => /\ propList' = propList
                               /\ IF propList.handle = Root THEN object' = None
                                  ELSE object' # None /\ object'.handle = propList.handle
    BY <1>2, <2>2, DescriptionLeft
  <2>5. /\ expected' \in [DOMAIN expected' -> Contents] /\ DOMAIN expected' \subseteq 1 .. store.last
        /\ \A h \in (DOMAIN expected' \cap DOMAIN store.files) \ mixed :
              store.files[h].content = expected'[h] /\ SizeKnown(h)
        /\ store.writing \notin DOMAIN expected' \ mixed
    BY <1>2, <2>2, BelievesWhatIsSo
  <2>6. \A h \in (DOMAIN expected' \cap DOMAIN store'.files) \ mixed :
           store'.files[h].content = expected'[h] /\ SizeKnown(h)'
    BY <2>1, <2>5 DEF SizeKnown
  <2>7. (sequence # None => session) /\ (propList # None => session)
    BY DEF OInv, MixedUp
  <2>8. /\ session' \in BOOLEAN /\ edit' \in Edits \cup {None}
        /\ IsStorage(store') /\ signals' \in 0 .. SignalBound
    BY <2>1, <2>3 DEF Types
  <2> QED
    BY <2>1, <2>2, <2>4, <2>5, <2>6, <2>7, <2>8, EndedOInv
<1> QED
  BY <1>1, <1>2

-----------------------------------------------------------------------------
(* The invariant. *)

LEMMA InitOInv == ASSUME Init PROVE OInv
<1>1. /\ session = FALSE /\ req = None /\ answer = None /\ sequence = None /\ propList = None /\ edit = None
      /\ store = EmptyStorage /\ host = NoTxn /\ object = None /\ expected = <<>> /\ mixed = {}
      /\ txns = 0 /\ signals = 0 /\ fails = 0
  BY DEF Init
<1>2. /\ NoTxn \in Transactions /\ NoTxn.op = "none" /\ NoTxn.txn = 0 /\ NoTxn.left = 0
      /\ NoTxn.size = 0 /\ NoTxn.first = FALSE
  BY NoTxnFacts
<1>3. store.files = <<>> /\ DOMAIN store.files = {} /\ store.closed = {} /\ store.last = Root
      /\ store.writing = Root /\ store.data = None
  BY <1>1 DEF EmptyStorage
<1>4. IsStorage(store)
  <2>1. store \in [files : {store.files}, data : OpenFiles \cup {None}, writing : 0 .. TxnBound,
                   closed : SUBSET Handles, last : 0 .. TxnBound]
    BY <1>1, Bounds DEF EmptyStorage, Root
  <2>2. store.files \in [DOMAIN store.files -> File]
    BY <1>3
  <2> QED
    BY <1>3, <2>1, <2>2 DEF IsStorage
<1>5. DOMAIN expected = {} /\ expected \in [DOMAIN expected -> Contents]
  BY <1>1
<1>6. Types
  <2>1. txns \in 0 .. TxnBound /\ signals \in 0 .. SignalBound /\ fails \in 0 .. FailBound
    BY <1>1, Bounds
  <2>2. host \in Transactions /\ host.left <= host.size /\ (host.op \notin {"object", "partial"} => host.left = 0)
        /\ host.op \notin {"info", "propList"}
    BY <1>1, <1>2
  <2>3. DOMAIN expected \subseteq 1 .. store.last
    BY <1>5
  <2> QED
    BY <1>1, <1>4, <1>5, <2>1, <2>2, <2>3 DEF Types
<1>7. ~Concluding /\ (\A op : ~Receiving(op))
  BY <1>1 DEF Concluding, Receiving
<1>8. Transaction /\ MixedUp /\ Described
  BY <1>1, <1>2, <1>3, <1>7 DEF Transaction, MixedUp, Confused, Described, Root
<1>9. Sending /\ PartSending /\ ToBelieve /\ Believed /\ WritingUnknown
  BY <1>5, <1>7 DEF Sending, PartSending, ToBelieve, Believed, WritingUnknown
<1> QED
  BY <1>6, <1>8, <1>9 DEF OInv

LEMMA StutterOInv == ASSUME OInv, UNCHANGED vars PROVE OInv'
<1>1. UNCHANGED <<session, req, answer, sequence, propList, edit, store, host, object,
                  expected, mixed, txns, signals, fails>>
  BY DEF vars
<1>2. Types' /\ Transaction' /\ MixedUp' /\ Described'
  BY <1>1 DEF OInv, Types, Transaction, MixedUp, Confused, Described, Concluding, Receiving
<1>3. Sending' /\ PartSending' /\ ToBelieve'
  BY <1>1 DEF OInv, Sending, Target, PartSending, ToBelieve, Concluding, Receiving, EditedTo, SizeKnown
<1>4. Believed' /\ WritingUnknown'
  BY <1>1 DEF OInv, Believed, WritingUnknown, Touched, Concluding, SizeKnown
<1> QED
  BY <1>2, <1>3, <1>4 DEF OInv

LEMMA NextOInv == ASSUME OInv, [Next]_vars PROVE OInv'
<1>1. CASE Commands
  <2>1. CASE OpenSession
    BY <2>1, OpenSessionOInv
  <2>2. CASE CloseSession
    BY <2>2, CloseSessionOInv
  <2>3. ASSUME NEW n \in Names, NEW s \in Sizes, NEW good \in BOOLEAN,
               SendObjectInfo(n, s, good) \/ \E p \in BOOLEAN : SendObjectPropList(n, s, good, p)
        PROVE  OInv'
    BY <2>3, SendObjectInfoOInv, SendObjectPropListOInv
  <2>4. ASSUME NEW s \in Sizes, SendObject(s) PROVE OInv'
    BY <2>4, SendObjectOInv
  <2>5. ASSUME NEW h \in DOMAIN store.files, BeginEditObject(h) \/ EndEditObject(h) PROVE OInv'
    BY <2>5, BeginEditObjectOInv, EndEditObjectOInv
  <2>6. ASSUME NEW h \in DOMAIN store.files, NEW s \in Sizes,
               TruncateObject(h, s) \/ \E o \in Sizes : SendPartialObject(h, o, s)
        PROVE  OInv'
    BY <2>6, TruncateObjectOInv, SendPartialObjectOInv
  <2> QED
    BY <1>1, <2>1, <2>2, <2>3, <2>4, <2>5, <2>6 DEF Commands
<1>2. CASE DataPhase
  <2>1. CASE SendObjectInfoData \/ SendObjectPropListData
    BY <2>1, SendObjectInfoDataOInv, SendObjectPropListDataOInv
  <2>2. ASSUME NEW len \in 0 .. host.left,
               SendObjectData(len) \/ SendPartialObjectData(len) \/ IgnoreData(len)
        PROVE  OInv'
    BY <2>2, SendObjectDataOInv, SendPartialObjectDataOInv, IgnoreDataOInv
  <2> QED
    BY <1>2, <2>1, <2>2 DEF DataPhase
<1>3. CASE ResponseSent
  BY <1>3, ResponseSentOInv
<1>4. CASE CancelTransaction
  BY <1>4, CancelTransactionOInv
<1>5. CASE DeviceReset
  BY <1>5, DeviceResetOInv
<1>6. ASSUME NEW h \in store.closed, FSModify(h) PROVE OInv'
  BY <1>6, FSModifyOInv
<1>7. CASE UNCHANGED vars
  BY <1>7, StutterOInv
<1> QED
  BY <1>1, <1>2, <1>3, <1>4, <1>5, <1>6, <1>7 DEF Next

\* The handles of descriptions, the objects open for writing, what a response
\* will let the host believe and what it believes already agree in every state.
THEOREM Invariance == Spec => []OInv
<1>1. Init => OInv
  BY InitOInv
<1>2. OInv /\ [Next]_vars => OInv'
  BY NextOInv
<1> QED
  BY <1>1, <1>2, PTL DEF Spec

-----------------------------------------------------------------------------
(* What the runs check, for all constants. *)

\* Every part of the responder's and the storage's state has its type.
THEOREM TypeCorrect == Spec => []TypeOK
<1>1. OInv => TypeOK
  <2> SUFFICES ASSUME OInv PROVE TypeOK
    OBVIOUS
  <2>1. Types
    BY DEF OInv
  <2>2. IsStorage(store) /\ host.left \in Nat /\ host.size \in Nat /\ host.left <= host.size
    BY <2>1 DEF Types, Transactions
  <2>3. /\ DOMAIN store.files \subseteq 1 .. store.last /\ store.last \in 0 .. TxnBound
        /\ \A h \in DOMAIN store.files : store.files[h] \in File
        /\ store.closed \subseteq DOMAIN store.files
    BY <2>2, StorageFacts
  <2> QED
    <3>1. mixed \subseteq Handles
      BY <2>1, <2>3, Bounds DEF Types, Handles
    <3> QED
      BY <2>1, <2>2, <2>3, <3>1 DEF Types, TypeOK, PropLists, Edits
<1> QED
  BY <1>1, Invariance, PTL

\* The data of a SendObject goes to the object described last in the session,
\* unless that was described by a list on top of a description by SendObjectInfo:
\* then it goes to the object of the older one (sendObjectData(), MTPResponder).
THEOREM DataGoesWhereDescribed == Spec => []DataWhereDescribed
<1>1. OInv => DataWhereDescribed
  <2> DEFINE h == IF Confused THEN sequence.handle ELSE object.handle
  <2> SUFFICES ASSUME OInv, host.op = "object", req # None, answer = None, ~host.first, req.code = "ok"
               PROVE  /\ store.data # None /\ (object # None \/ Confused)
                      /\ store.data.handle = h /\ store.writing = h
    BY DEF DataWhereDescribed
  <2>1. Receiving("object") /\ ~Concluding /\ ~Receiving("propList") /\ Types
    BY DEF OInv, Transaction, Receiving, Concluding
  <2>2. /\ Target \in DOMAIN store.files /\ store.writing = Target
        /\ store.data = OpenAt(Target, host.size - host.left)
        /\ sequence # None \/ propList # None
    BY <2>1 DEF OInv, Sending
  <2>3. Target \in Handles /\ Target # Root /\ host.size - host.left \in Nat
    BY <2>1, <2>2, StorageFacts DEF Types, Transactions
  <2>4. Confused \/ (object # None /\ object.handle = Target)
    BY <2>1, <2>2, <2>3 DEF OInv, Described, Confused, Target
  <2>5. h = Target
    BY <2>4 DEF Confused, Target
  <2> HIDE DEF h
  <2> QED
    BY <2>2, <2>3, <2>4, <2>5, OpenAtFacts
<1> QED
  BY <1>1, Invariance, PTL

\* An object the host was told was written keeps the content it sent, unless it
\* was mixed up with another.
THEOREM ContentIsAsSent == Spec => []ContentAsSent
<1>1. OInv => ContentAsSent
  BY DEF OInv, Believed, ContentAsSent
<1> QED
  BY <1>1, Invariance, PTL

\* Its size is the size of the file, once the notifications are handled.
THEOREM SizeIsTold == Spec => []SizeAgrees
<1>1. OInv => SizeAgrees
  BY DEF OInv, Believed, SizeKnown, SizeAgrees
<1> QED
  BY <1>1, Invariance, PTL

\* A cancel while an object is described or sent, or, of one described by a list,
\* while the response to its data is sent, leaves neither the object nor a
\* description of it (handleCancelTransaction(), MTPResponder), unless the object
\* was mixed up with another.
THEOREM CancelledIsGone == Spec => CancelLeavesNothing
<1> DEFINE Gone(h) == /\ h \notin DOMAIN store'.files
                      /\ sequence' = None \/ sequence'.handle # h
                      /\ propList' = None \/ propList'.handle # h
<1>1. ASSUME OInv, CancelTransaction, NEW h \in Abandoned \ mixed
      PROVE  Gone(h)
  <2>1. req.op \in {"info", "propList", "object"} /\ req # None
    BY <1>1 DEF Abandoned, CancelTransaction
  <2>2. Types /\ Described /\ MixedUp /\ Transaction
    BY <1>1 DEF OInv
  <2>3. propList' = None /\ sequence' = (IF propList # None THEN sequence ELSE None)
    BY <1>1, <2>1, Zenon DEF CancelTransaction
  <2>4. h # Root /\ h = IF propList # None THEN propList.handle
                        ELSE IF sequence # None THEN sequence.handle ELSE Root
    <3>1. CASE req.op = "info"
      <4>1. answer # None /\ answer.code = "ok" /\ h = answer.handle /\ Concluding
        BY <1>1, <2>1, <3>1 DEF Abandoned, Concluding
      <4> QED
        BY <2>2, <3>1, <4>1 DEF Described, Root
    <3>2. CASE req.op = "propList"
      <4>1. answer # None /\ answer.code = "ok" /\ h = answer.handle /\ Concluding
        BY <1>1, <2>1, <3>2 DEF Abandoned, Concluding
      <4> QED
        BY <2>2, <3>2, <4>1 DEF Described
    <3>3. CASE req.op = "object"
      <4>1. /\ req.code = "ok" /\ object # None /\ h = object.handle
            /\ answer = None \/ propList # None
        BY <1>1, <3>3 DEF Abandoned
      <4>2. (Concluding => req.op = "object") /\ ~Receiving("propList")
        BY <2>1, <3>3 DEF Receiving
      <4>3. h \in Handles /\ h # Root
        BY <2>2, <4>1, Bounds DEF Types, Objects, Handles, Root
      <4>4. CASE propList # None
        BY <2>2, <3>3, <4>1, <4>2, <4>3, <4>4 DEF Described
      <4>5. CASE propList = None
        <5>1. Receiving("object")
          BY <2>1, <3>3, <4>1, <4>5 DEF Receiving
        <5>2. sequence # None
          BY <1>1, <4>5, <5>1 DEF OInv, Sending
        <5>3. sequence.handle \notin mixed
          BY <1>1, <2>2, <3>3, <4>1, <5>2 DEF MixedUp, Confused
        <5> QED
          BY <2>2, <3>3, <4>1, <4>3, <4>5, <5>2, <5>3 DEF Described
      <4> QED
        BY <4>4, <4>5
    <3> QED
      BY <2>1, <3>1, <3>2, <3>3
  <2>5. store' = DeleteItem(store, h)
    BY <1>1, <2>1, <2>4, Zenon DEF CancelTransaction
  <2>6. h \notin DOMAIN store'.files
    BY <2>2, <2>5, DeleteItemFacts DEF Types
  <2>7. sequence' = None
    BY <1>1, <2>2, <2>3, <2>4 DEF MixedUp
  <2> QED
    BY <2>3, <2>6, <2>7
<1>2. OInv /\ [Next]_vars => [CancelTransaction => \A h \in Abandoned \ mixed : Gone(h)]_vars
  BY <1>1
<1> QED
  BY <1>2, Invariance, PTL DEF Spec, CancelLeavesNothing
=============================================================================
