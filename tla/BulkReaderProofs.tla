--------------------------- MODULE BulkReaderProofs ----------------------------
(***************************************************************************)
(* Proofs about BulkReader, for every size of the buffer and of a read and *)
(* for streams of any length.                                              *)
(*                                                                         *)
(* The safety properties are not inductive: they say where the data is,    *)
(* not why the reader keeps clear of it.  IInv adds what the reader knows  *)
(* between computing its offset and using it (Flight), when a secondary    *)
(* piece exists at all (TailUsedUp), what it has read but not yet marked   *)
(* (Fresh), and how many signals are owed (Signals).                       *)
(***************************************************************************)
EXTENDS BulkReader, Sequences, SequenceTheorems, TLAPS

-----------------------------------------------------------------------------
(* The inductive invariant. *)

\* The secondary piece is begun only when the tail has no room for a read, and
\* nothing gives the tail room again before the pieces are switched.
TailUsedUp == dataSize2 > 0 => ~TailRoom

\* The offset of a read in progress is at the end of the last piece, and there
\* is still the room that was found when it was computed; or the buffer was
\* emptied under the read, and the offset has the room it always had.
AtTail == offset = dataStart + dataSize1 /\ TailRoom
AtHead == offset = dataSize2 /\ HeadRoom /\ ~TailRoom
AtNothing ==
    /\ undercut
    /\ dataStart = 0 /\ dataSize1 = 0 /\ dataSize2 = 0
    /\ offset \in 0 .. BufferSize - MaxDataIn
Flight == readerPc \in {"read", "mark"} => AtTail \/ AtHead \/ AtNothing

\* What has been read continues what is in the pieces.
Fresh == readerPc = "mark" =>
             \A k \in 0 .. readSize - 1 : buffer[offset + k] = Accepted + k

\* Every piece the main thread has not looked at in full has its signal.
Unseen    == (IF dataSize1 > view.len THEN 1 ELSE 0) + (IF dataSize2 > 0 THEN 1 ELSE 0)
Announced == dataReady + (IF readerPc = "emit" THEN 1 ELSE 0)
Signals   == Unseen <= Announced

Layout == PiecesDisjoint /\ TailUsedUp /\ Flight

ViewIsOldest == view.len > 0 => view.ptr = dataStart /\ view.len <= dataSize1

IInv ==
    /\ TypeOK
    /\ Layout
    /\ ViewIsOldest
    /\ Signals
    /\ WaitsOnlyForRelease
    /\ Fresh
    /\ InOrder

-----------------------------------------------------------------------------

\* Initially the buffer is empty and nobody waits.
LEMMA InitIInv == Init => IInv
<1> SUFFICES ASSUME Init PROVE IInv
  OBVIOUS
<1> USE SizesAssumption
<1>1. buffer \in [0 .. BufferSize - 1 -> Nat] /\ view \in [ptr : 0 .. BufferSize, len : 0 .. BufferSize]
  BY DEF Init, NoView
<1>2. TypeOK
  <2>1. readerPc = "off" /\ shouldExit \in BOOLEAN /\ mainPc = "run"
    BY DEF Init
  <2>2. offset = 0 /\ readSize = 0 /\ dataReady = 0 /\ released = 0 /\ undercut = FALSE
    BY DEF Init
  <2>3. dataStart = 0 /\ dataSize1 = 0 /\ dataSize2 = 0
    BY DEF Init
  <2>4. /\ offset \in -1 .. BufferSize /\ readSize \in 0 .. MaxDataIn
        /\ dataStart \in 0 .. BufferSize /\ dataSize1 \in 0 .. BufferSize /\ dataSize2 \in 0 .. BufferSize
    BY <2>2, <2>3
  <2> QED
    BY <1>1, <2>1, <2>2, <2>4 DEF TypeOK
<1>3. Layout /\ ViewIsOldest /\ Signals /\ WaitsOnlyForRelease /\ Fresh
  BY DEF Init, Layout, PiecesDisjoint, TailUsedUp, Flight, ViewIsOldest, Signals, Unseen, Announced,
         WaitsOnlyForRelease, Fresh, NoView
<1>4. InOrder
  BY DEF Init, InOrder, NoView
<1> QED
  BY <1>2, <1>3, <1>4 DEF IInv

\* Steps in which the reader only stops, starts or starts over, and steps of the
\* main thread around them: a reader that has no read() in progress and no signal
\* to post has nothing to keep to.
LEMMA OnlyReaderPc ==
    ASSUME IInv,
           UNCHANGED <<offset, readSize, buffer, dataStart, dataSize1, dataSize2, dataReady, view,
                       released, undercut>>,
           readerPc' = readerPc \/ (readerPc' \in {"off", "acquire"} /\ readerPc # "emit"),
           shouldExit' \in BOOLEAN, mainPc' \in {"run", "exiting"}
    PROVE  IInv'
<1>1. TypeOK'
  BY DEF IInv, TypeOK
<1>2. Layout'
  BY DEF IInv, Layout, PiecesDisjoint, TailUsedUp, Flight, AtTail, AtHead, AtNothing, TailRoom, HeadRoom
<1>3. ViewIsOldest' /\ Signals' /\ WaitsOnlyForRelease'
  BY DEF IInv, ViewIsOldest, Signals, Unseen, Announced, WaitsOnlyForRelease
<1>4. Fresh' /\ InOrder'
  BY DEF IInv, Fresh, Accepted, InOrder
<1> QED
  BY <1>1, <1>2, <1>3, <1>4 DEF IInv

-----------------------------------------------------------------------------
(* The steps of the reader thread. *)

\* Computing the offset, or waiting, under the lock.  An empty buffer of the
\* assumed size has room for a read at one of its ends.
LEMMA AcquireKeeps ==
    ASSUME IInv, Acquire PROVE IInv'
<1> USE SizesAssumption DEF IInv, Acquire, GetOffset, indices, mainVars, history
<1>1. TypeOK'
  <2>1. offset' \in -1 .. BufferSize /\ readerPc' \in {"off", "wait", "read"}
    BY DEF TypeOK, Layout, PiecesDisjoint, TailRoom, HeadRoom
  <2>2. UNCHANGED <<readSize, buffer, dataStart, dataSize1, dataSize2, dataReady, view, mainPc,
                    shouldExit, released>> /\ undercut' \in BOOLEAN
    OBVIOUS
  <2> HIDE DEF Acquire
  <2> QED
    BY <2>1, <2>2 DEF TypeOK
<1>2. Layout'
  BY DEF TypeOK, Layout, PiecesDisjoint, TailUsedUp, Flight, AtTail, AtHead, AtNothing, TailRoom, HeadRoom
<1>3. ViewIsOldest'
  BY DEF TypeOK, ViewIsOldest, Layout, PiecesDisjoint
<1>4. Signals'
  BY DEF TypeOK, Signals, Unseen, Announced, ViewIsOldest
<1>5. WaitsOnlyForRelease'
  BY DEF TypeOK, WaitsOnlyForRelease, Layout, PiecesDisjoint, TailRoom, HeadRoom
<1>6. Fresh'
  BY DEF TypeOK, Fresh, Accepted
<1>7. InOrder'
  BY DEF TypeOK, InOrder
<1> QED
  BY <1>1, <1>2, <1>3, <1>4, <1>5, <1>6, <1>7

\* read() writes only where nothing is, so what it has read continues the pieces
\* and the pieces are as they were.
LEMMA ReadType ==
    ASSUME IInv, NEW n \in 0 .. MaxDataIn, ReadDone(n) PROVE TypeOK'
<1> USE SizesAssumption
<1>1. buffer' \in [0 .. BufferSize - 1 -> Nat]
  <2>1. \A p \in 0 .. BufferSize - 1 : p \in offset .. offset + n - 1 => Accepted + (p - offset) \in Nat
    BY DEF Accepted, IInv, TypeOK
  <2>2. \A p \in 0 .. BufferSize - 1 : buffer[p] \in Nat
    BY DEF IInv, TypeOK
  <2> QED
    BY <2>1, <2>2 DEF ReadDone
<1>2. readSize' \in 0 .. MaxDataIn /\ readerPc' = "mark"
  BY DEF ReadDone
<1>3. UNCHANGED <<offset, dataStart, dataSize1, dataSize2, dataReady, released, undercut, view,
                  mainPc, shouldExit>>
  BY DEF ReadDone, indices, mainVars, history
<1> QED
  BY <1>1, <1>2, <1>3 DEF IInv, TypeOK

\* The bytes read are the next ones of the stream.
LEMMA ReadFresh ==
    ASSUME IInv, NEW n \in 0 .. MaxDataIn, ReadDone(n) PROVE Fresh'
<1> USE SizesAssumption
<1>1. /\ UNCHANGED <<offset, dataStart, dataSize1, dataSize2, released>>
      /\ readSize' = n /\ Accepted' = Accepted
  BY DEF ReadDone, indices, mainVars, history, Accepted
<1>2. offset \in Nat /\ offset + MaxDataIn <= BufferSize
  BY DEF ReadDone, IInv, TypeOK, Layout, PiecesDisjoint, Flight, AtTail, AtHead, AtNothing, TailRoom, HeadRoom
<1>3. Accepted \in Int
  BY DEF IInv, TypeOK, Accepted
<1>4. \A p \in 0 .. BufferSize - 1 :
        buffer'[p] = IF p \in offset .. offset + n - 1 THEN Accepted + (p - offset) ELSE buffer[p]
  BY DEF ReadDone
<1>5. \A k \in 0 .. n - 1 : buffer'[offset + k] = Accepted + k
  BY <1>2, <1>3, <1>4
<1> QED
  BY <1>1, <1>5 DEF Fresh

\* The bytes in the pieces are not touched.
LEMMA ReadInOrder ==
    ASSUME IInv, NEW n \in 0 .. MaxDataIn, ReadDone(n) PROVE InOrder'
<1> USE SizesAssumption
<1>1. UNCHANGED <<dataStart, dataSize1, dataSize2, released, view>>
  BY DEF ReadDone, indices, mainVars, history
<1>2. \A p \in 0 .. BufferSize - 1 : p \notin offset .. offset + n - 1 => buffer'[p] = buffer[p]
  BY DEF ReadDone
<1>3. /\ dataStart \in Nat /\ dataSize1 \in Nat /\ dataSize2 \in Nat /\ offset \in Int
      /\ dataStart + dataSize1 <= BufferSize /\ dataSize2 <= dataStart
  BY DEF IInv, TypeOK, Layout, PiecesDisjoint
<1>4. \/ offset = dataStart + dataSize1 /\ dataSize2 = 0
      \/ offset = dataSize2 /\ dataSize2 + MaxDataIn <= dataStart
      \/ dataSize1 = 0 /\ dataSize2 = 0
  BY DEF ReadDone, IInv, TypeOK, Layout, PiecesDisjoint, Flight, TailUsedUp, AtTail, AtHead, AtNothing,
         TailRoom, HeadRoom
<1>5. \A i \in 0 .. dataSize1 - 1 : buffer'[dataStart + i] = buffer[dataStart + i]
  BY <1>2, <1>3, <1>4
<1>6. \A i \in 0 .. dataSize2 - 1 : buffer'[i] = buffer[i]
  BY <1>2, <1>3, <1>4
<1> QED
  BY <1>1, <1>5, <1>6 DEF IInv, InOrder

\* read() fills the room behind the offset, without the lock.
LEMMA ReadKeeps ==
    ASSUME IInv, NEW n \in 0 .. MaxDataIn, ReadDone(n) PROVE IInv'
<1> USE SizesAssumption DEF IInv, ReadDone, indices, mainVars, history
<1>1. TypeOK'
  BY ReadType
<1>2. Layout'
  BY DEF TypeOK, Layout, PiecesDisjoint, TailUsedUp, Flight, AtTail, AtHead, AtNothing, TailRoom, HeadRoom
<1>3. ViewIsOldest'
  BY DEF TypeOK, ViewIsOldest, Layout, PiecesDisjoint
<1>4. Signals'
  BY DEF TypeOK, Signals, Unseen, Announced, ViewIsOldest
<1>5. WaitsOnlyForRelease'
  BY DEF TypeOK, WaitsOnlyForRelease
<1>6. Fresh'
  BY ReadFresh
<1>7. InOrder'
  BY ReadInOrder
<1> QED
  BY <1>1, <1>2, <1>3, <1>4, <1>5, <1>6, <1>7

\* What was read becomes the end of the piece its offset belongs to.
LEMMA MarkInOrder ==
    ASSUME IInv, MarkNewData PROVE InOrder'
<1> USE SizesAssumption
<1>1. UNCHANGED <<dataStart, released, view, buffer>>
  BY DEF MarkNewData, mainVars, history
<1>2. /\ dataStart \in Nat /\ dataSize1 \in Nat /\ dataSize2 \in Nat /\ offset \in Int /\ readSize \in Nat
      /\ released \in Nat /\ view.len \in Nat
      /\ dataStart + dataSize1 <= BufferSize /\ dataSize2 <= dataStart
  BY DEF IInv, TypeOK, Layout, PiecesDisjoint
<1>3. /\ \A i \in 0 .. dataSize1 - 1 : buffer[dataStart + i] = released + i
      /\ \A i \in 0 .. dataSize2 - 1 : buffer[i] = released + dataSize1 + i
      /\ \A k \in 0 .. readSize - 1 : buffer[offset + k] = released + dataSize1 + dataSize2 + k
      /\ view.len > 0 => view.ptr = dataStart /\ view.len <= dataSize1
  BY DEF MarkNewData, IInv, InOrder, Fresh, Accepted
<1>4. CASE offset = dataStart + dataSize1
  <2>1. dataSize2 = 0
    BY <1>2, <1>4 DEF MarkNewData, IInv, Layout, Flight, TailUsedUp, AtTail, AtHead, AtNothing, TailRoom, HeadRoom
  <2>2. dataSize1' = dataSize1 + readSize /\ dataSize2' = dataSize2
    BY <1>4, <2>1 DEF MarkNewData
  <2>3. ASSUME NEW i \in dataSize1 .. dataSize1 + readSize - 1
        PROVE  buffer[dataStart + i] = released + i
    <3> i - dataSize1 \in 0 .. readSize - 1
      BY <1>2
    <3>1. buffer[offset + (i - dataSize1)] = released + dataSize1 + dataSize2 + (i - dataSize1)
      BY <1>3
    <3>2. offset + (i - dataSize1) = dataStart + i
      BY <1>2, <1>4
    <3>3. released + dataSize1 + dataSize2 + (i - dataSize1) = released + i
      BY <1>2, <2>1
    <3> QED
      BY <3>1, <3>2, <3>3
  <2>4. \A i \in 0 .. dataSize1' - 1 : buffer[dataStart + i] = released + i
    BY <1>2, <1>3, <2>2, <2>3
  <2> QED
    BY <1>1, <1>2, <1>3, <2>1, <2>2, <2>4 DEF InOrder
<1>5. CASE offset # dataStart + dataSize1 /\ offset = dataSize2
  <2>1. offset = dataSize2
    BY <1>5
  <2>2. dataSize1' = dataSize1 /\ dataSize2' = dataSize2 + readSize
    BY <1>5, <2>1 DEF MarkNewData
  <2>3. ASSUME NEW i \in dataSize2 .. dataSize2 + readSize - 1
        PROVE  buffer[i] = released + dataSize1 + i
    <3> i - dataSize2 \in 0 .. readSize - 1
      BY <1>2
    <3>1. buffer[offset + (i - dataSize2)] = released + dataSize1 + dataSize2 + (i - dataSize2)
      BY <1>3
    <3>2. offset + (i - dataSize2) = i
      BY <1>2, <2>1
    <3>3. released + dataSize1 + dataSize2 + (i - dataSize2) = released + dataSize1 + i
      BY <1>2
    <3> QED
      BY <3>1, <3>2, <3>3
  <2>4. \A i \in 0 .. dataSize2' - 1 : buffer[i] = released + dataSize1 + i
    BY <1>2, <1>3, <2>2, <2>3
  <2> QED
    BY <1>1, <1>2, <1>3, <2>2, <2>4 DEF InOrder
<1>6. CASE offset # dataStart + dataSize1 /\ offset # dataSize2
  <2>1. dataSize1' = dataSize1 /\ dataSize2' = dataSize2
    BY <1>6 DEF MarkNewData
  <2> QED
    BY <1>1, <1>3, <2>1 DEF InOrder
<1> QED
  BY <1>4, <1>5, <1>6

\* What was read becomes part of a piece, or is dropped.
LEMMA MarkKeeps ==
    ASSUME IInv, MarkNewData PROVE IInv'
<1> USE SizesAssumption DEF IInv, MarkNewData, OffsetAtPieceEnd, mainVars, history
<1>1. TypeOK'
  BY DEF TypeOK, Layout, PiecesDisjoint, TailUsedUp, Flight, AtTail, AtHead, AtNothing, TailRoom, HeadRoom
<1>2. Layout'
  BY DEF TypeOK, Layout, PiecesDisjoint, TailUsedUp, Flight, AtTail, AtHead, AtNothing, TailRoom, HeadRoom
<1>3. ViewIsOldest'
  BY DEF TypeOK, ViewIsOldest, Layout, PiecesDisjoint
<1>4. Signals'
  BY DEF TypeOK, Signals, Unseen, Announced, ViewIsOldest
<1>5. WaitsOnlyForRelease'
  BY DEF TypeOK, WaitsOnlyForRelease
<1>6. Fresh'
  BY DEF TypeOK, Fresh, Accepted
<1>7. InOrder'
  BY MarkInOrder
<1> QED
  BY <1>1, <1>2, <1>3, <1>4, <1>5, <1>6, <1>7

\* The signal for it is posted.
LEMMA EmitKeeps ==
    ASSUME IInv, EmitDataReady PROVE IInv'
<1> USE SizesAssumption DEF IInv, EmitDataReady, indices, mainVars, history
<1>1. TypeOK'
  BY DEF TypeOK, Layout, PiecesDisjoint, TailUsedUp, Flight, AtTail, AtHead, AtNothing, TailRoom, HeadRoom
<1>2. Layout'
  BY DEF TypeOK, Layout, PiecesDisjoint, TailUsedUp, Flight, AtTail, AtHead, AtNothing, TailRoom, HeadRoom
<1>3. ViewIsOldest'
  BY DEF TypeOK, ViewIsOldest, Layout, PiecesDisjoint
<1>4. Signals'
  BY DEF TypeOK, Signals, Unseen, Announced, ViewIsOldest
<1>5. WaitsOnlyForRelease'
  BY DEF TypeOK, WaitsOnlyForRelease
<1>6. Fresh'
  BY DEF TypeOK, Fresh, Accepted
<1>7. InOrder'
  BY DEF TypeOK, InOrder
<1> QED
  BY <1>1, <1>2, <1>3, <1>4, <1>5, <1>6, <1>7

-----------------------------------------------------------------------------
(* The steps of the main thread. *)

\* getData() switches the pieces under a read in progress: an offset at the head
\* of the buffer becomes one at the tail of the new primary piece.
LEMMA HandleRest ==
    ASSUME IInv, HandleDataReady PROVE Layout' /\ Fresh' /\ InOrder'
<1> USE SizesAssumption
<1>1. UNCHANGED <<readerPc, offset, readSize, buffer, released, undercut>>
  BY DEF HandleDataReady, readerVars, history
<1>2. /\ dataStart \in Nat /\ dataSize1 \in Nat /\ dataSize2 \in Nat /\ released \in Nat
      /\ dataStart + dataSize1 <= BufferSize /\ dataSize2 <= dataStart
  BY DEF IInv, TypeOK, Layout, PiecesDisjoint
<1>3. view' = [ptr |-> IF dataSize1' > 0 THEN dataStart' ELSE 0, len |-> dataSize1']
  BY DEF HandleDataReady, GetData
<1>4. CASE dataSize1 = 0 /\ dataSize2 > 0
  <2>1. dataStart' = 0 /\ dataSize1' = dataSize2 /\ dataSize2' = 0
    BY <1>4 DEF HandleDataReady, GetData, SwitchPieces
  <2>2. Accepted' = Accepted
    BY <1>1, <1>2, <1>4, <2>1 DEF Accepted
  <2>3. Layout'
    BY <1>1, <1>2, <1>4, <2>1 DEF IInv, Layout, PiecesDisjoint, Flight, TailUsedUp, AtTail, AtHead, AtNothing, TailRoom, HeadRoom
  <2>4. Fresh'
    BY <1>1, <2>2 DEF IInv, Fresh
  <2>5. \A i \in 0 .. dataSize2 - 1 : buffer[i] = released + i
    BY <1>2, <1>4 DEF IInv, InOrder
  <2>6. InOrder'
    BY <1>1, <1>2, <1>3, <2>1, <2>5 DEF InOrder
  <2> QED
    BY <2>3, <2>4, <2>6
<1>5. CASE ~(dataSize1 = 0 /\ dataSize2 > 0)
  <2>1. UNCHANGED <<dataStart, dataSize1, dataSize2>>
    BY <1>5 DEF HandleDataReady, GetData, SwitchPieces
  <2>2. Layout' /\ Fresh'
    BY <1>1, <2>1 DEF IInv, Layout, PiecesDisjoint, Flight, TailUsedUp, AtTail, AtHead, AtNothing, TailRoom, HeadRoom, Fresh, Accepted
  <2>3. InOrder'
    BY <1>1, <1>2, <1>3, <2>1 DEF IInv, InOrder
  <2> QED
    BY <2>2, <2>3
<1> QED
  BY <1>4, <1>5

\* The main thread gets the primary piece.
LEMMA HandleKeeps ==
    ASSUME IInv, HandleDataReady PROVE IInv'
<1> USE SizesAssumption DEF IInv, HandleDataReady, GetData, SwitchPieces, readerVars, history
<1>1. TypeOK'
  BY DEF TypeOK, Layout, PiecesDisjoint, TailUsedUp, Flight, AtTail, AtHead, AtNothing, TailRoom, HeadRoom
<1>2. Layout'
  BY HandleRest
<1>3. ViewIsOldest'
  BY DEF TypeOK, ViewIsOldest, Layout, PiecesDisjoint
<1>4. Signals'
  BY DEF TypeOK, Signals, Unseen, Announced, ViewIsOldest
<1>5. WaitsOnlyForRelease'
  BY DEF TypeOK, WaitsOnlyForRelease
<1>6. Fresh'
  BY HandleRest
<1>7. InOrder'
  BY HandleRest
<1> QED
  BY <1>1, <1>2, <1>3, <1>4, <1>5, <1>6, <1>7

\* So does releaseData(), which also takes bytes off the primary piece.
LEMMA ReleaseRest ==
    ASSUME IInv, NEW n \in 1 .. BufferSize, Release(n) PROVE TypeOK' /\ Layout' /\ Fresh' /\ InOrder'
<1> USE SizesAssumption
<1>1. /\ UNCHANGED <<offset, readSize, buffer, dataReady, mainPc, shouldExit, undercut>>
      /\ released' = released + n
      /\ readerPc' = IF readerPc = "wait" THEN "acquire" ELSE readerPc
  BY DEF Release, ReleaseData, WakeReader
<1>2. /\ dataStart \in Nat /\ dataSize1 \in Nat /\ dataSize2 \in Nat /\ released \in Nat
      /\ dataStart + dataSize1 <= BufferSize /\ dataSize2 <= dataStart
  BY DEF IInv, TypeOK, Layout, PiecesDisjoint
<1>3. view.len \in Nat /\ n <= view.len /\ view.ptr = dataStart /\ view.len <= dataSize1
  BY DEF Release, IInv, TypeOK, ViewIsOldest
<1>4. view' = IF n = view.len THEN [ptr |-> 0, len |-> 0] ELSE [ptr |-> dataStart + n, len |-> view.len - n]
  BY <1>3 DEF Release, NoView
<1>5. view' \in [ptr : 0 .. BufferSize, len : 0 .. BufferSize]
  BY <1>2, <1>3, <1>4
<1>6. CASE dataSize1 - n = 0 /\ dataSize2 > 0
  <2>1. dataStart' = 0 /\ dataSize1' = dataSize2 /\ dataSize2' = 0
    BY <1>6 DEF Release, ReleaseData, SwitchPieces
  <2>2. n = dataSize1 /\ Accepted' = Accepted
    BY <1>1, <1>2, <1>6, <2>1 DEF Accepted
  <2>3. TypeOK'
    BY <1>1, <1>2, <1>5, <2>1 DEF IInv, TypeOK
  <2>4. Layout'
    <3>1. PiecesDisjoint' /\ TailUsedUp'
      BY <1>2, <2>1 DEF PiecesDisjoint, TailUsedUp
    <3>2. ~TailRoom
      BY <1>6 DEF IInv, Layout, TailUsedUp
    <3>3. Flight'
      BY <1>1, <1>2, <2>1, <3>2 DEF IInv, Layout, Flight, AtTail, AtHead, AtNothing, TailRoom, HeadRoom
    <3> QED
      BY <3>1, <3>3 DEF Layout
  <2>5. Fresh'
    BY <1>1, <2>2 DEF IInv, Fresh
  <2>6. \A i \in 0 .. dataSize2 - 1 : buffer[i] = released + n + i
    BY <2>2 DEF IInv, InOrder
  <2>7. view'.len = 0
    BY <1>2, <1>3, <1>4, <2>2
  <2>8. InOrder'
    BY <1>1, <1>2, <2>1, <2>6, <2>7 DEF InOrder
  <2> QED
    BY <2>3, <2>4, <2>5, <2>8
<1>7. CASE ~(dataSize1 - n = 0 /\ dataSize2 > 0)
  <2>1. dataStart' = dataStart + n /\ dataSize1' = dataSize1 - n /\ dataSize2' = dataSize2
    BY <1>7 DEF Release, ReleaseData, SwitchPieces
  <2>2. Accepted' = Accepted
    BY <1>1, <1>2, <2>1 DEF Accepted
  <2>3. TypeOK'
    BY <1>1, <1>2, <1>3, <1>5, <2>1 DEF IInv, TypeOK
  <2>4. Layout'
    BY <1>1, <1>2, <1>3, <2>1 DEF IInv, Layout, PiecesDisjoint, Flight, TailUsedUp, AtTail, AtHead, AtNothing, TailRoom, HeadRoom
  <2>5. Fresh'
    BY <1>1, <2>2 DEF IInv, Fresh
  <2>6. \A i \in 0 .. dataSize1 - n - 1 : buffer[dataStart + n + i] = released + n + i
    <3>1. ASSUME NEW i \in 0 .. dataSize1 - n - 1
          PROVE  buffer[dataStart + (n + i)] = released + (n + i)
      BY <1>2 DEF IInv, InOrder
    <3>2. ASSUME NEW i \in 0 .. dataSize1 - n - 1
          PROVE  dataStart + (n + i) = dataStart + n + i /\ released + (n + i) = released + n + i
      BY <1>2
    <3> QED
      BY <3>1, <3>2
  <2>7. \A i \in 0 .. dataSize2 - 1 : buffer[i] = released + n + (dataSize1 - n) + i
    BY <1>2 DEF IInv, InOrder
  <2>8. view'.len > 0 => view'.ptr = dataStart + n /\ view'.len <= dataSize1 - n
    BY <1>2, <1>3, <1>4
  <2>9. InOrder'
    BY <1>1, <2>1, <2>6, <2>7, <2>8 DEF InOrder
  <2> QED
    BY <2>3, <2>4, <2>5, <2>9
<1> QED
  BY <1>6, <1>7

\* The main thread releases data, wherever the reader is.
LEMMA ReleaseKeeps ==
    ASSUME IInv, NEW n \in 1 .. BufferSize, Release(n) PROVE IInv'
<1> USE SizesAssumption DEF IInv, Release, ReleaseData, SwitchPieces, WakeReader, NoView
<1>1. TypeOK'
  BY ReleaseRest
<1>2. Layout'
  BY ReleaseRest
<1>3. ViewIsOldest'
  BY SMTT(30) DEF TypeOK, ViewIsOldest, Layout, PiecesDisjoint
<1>4. Signals'
  BY SMTT(30) DEF TypeOK, Signals, Unseen, Announced, ViewIsOldest
<1>5. WaitsOnlyForRelease'
  BY DEF TypeOK, WaitsOnlyForRelease
<1>6. Fresh'
  BY ReleaseRest
<1>7. InOrder'
  BY ReleaseRest
<1> QED
  BY <1>1, <1>2, <1>3, <1>4, <1>5, <1>6, <1>7

\* The buffer is emptied, whatever the reader is doing.
LEMMA ResetKeeps ==
    ASSUME IInv, Reset PROVE IInv'
<1> USE SizesAssumption DEF IInv, Reset, ResetData, readerVars, NoView, Accepted
<1>1. TypeOK'
  BY DEF TypeOK, Layout, PiecesDisjoint, TailUsedUp, Flight, AtTail, AtHead, AtNothing, TailRoom, HeadRoom
<1>2. Layout'
  BY DEF TypeOK, Layout, PiecesDisjoint, TailUsedUp, Flight, AtTail, AtHead, AtNothing, TailRoom, HeadRoom
<1>3. ViewIsOldest'
  BY DEF TypeOK, ViewIsOldest, Layout, PiecesDisjoint
<1>4. Signals'
  BY DEF TypeOK, Signals, Unseen, Announced, ViewIsOldest
<1>5. WaitsOnlyForRelease'
  BY DEF TypeOK, WaitsOnlyForRelease
<1>6. Fresh'
  <2>1. Accepted' = Accepted /\ UNCHANGED <<readerPc, offset, readSize, buffer>>
    BY DEF TypeOK
  <2>2. Fresh
    OBVIOUS
  <2> QED
    BY <2>1, <2>2, Zenon DEF Fresh
<1>7. InOrder'
  BY DEF TypeOK, InOrder
<1> QED
  BY <1>1, <1>2, <1>3, <1>4, <1>5, <1>6, <1>7

-----------------------------------------------------------------------------
(* The theorems. *)

\* Every step of either thread preserves the invariant.
LEMMA NextIInv == IInv /\ [Next]_vars => IInv'
<1> SUFFICES ASSUME IInv, [Next]_vars PROVE IInv'
  OBVIOUS
<1>1. CASE Reader
  <2>1. CASE Acquire
    BY <2>1, AcquireKeeps
  <2>2. CASE WakeToExit
    BY <2>2, OnlyReaderPc DEF WakeToExit, indices, mainVars, history, IInv, TypeOK
  <2>3. CASE \E n \in 0 .. MaxDataIn : ReadDone(n)
    BY <2>3, ReadKeeps
  <2>4. CASE ReadToExit
    BY <2>4, OnlyReaderPc DEF ReadToExit, indices, mainVars, history, IInv, TypeOK
  <2>5. CASE \E retry \in BOOLEAN : ReadFails(retry)
    BY <2>5, OnlyReaderPc DEF ReadFails, indices, mainVars, history, IInv, TypeOK
  <2>6. CASE MarkNewData
    BY <2>6, MarkKeeps
  <2>7. CASE EmitDataReady
    BY <2>7, EmitKeeps
  <2> QED
    BY <1>1, <2>1, <2>2, <2>3, <2>4, <2>5, <2>6, <2>7 DEF Reader
<1>2. CASE Main
  <2>1. CASE Start
    BY <2>1, OnlyReaderPc DEF Start, StartReader, indices, mainVars, history, IInv, TypeOK
  <2>2. CASE HandleDataReady
    BY <2>2, HandleKeeps
  <2>3. CASE \E n \in 1 .. BufferSize : Release(n)
    BY <2>3, ReleaseKeeps
  <2>4. CASE Reset
    BY <2>4, ResetKeeps
  <2>5. CASE BeginExit \/ EndExit
    BY <2>5, OnlyReaderPc DEF BeginExit, EndExit, readerVars, indices, history, IInv, TypeOK
  <2> QED
    BY <1>2, <2>1, <2>2, <2>3, <2>4, <2>5 DEF Main
<1>3. CASE UNCHANGED vars
  BY <1>3, OnlyReaderPc DEF vars, readerVars, indices, mainVars, history, IInv, TypeOK
<1> QED
  BY <1>1, <1>2, <1>3 DEF Next

\* The inductive invariant holds in every behaviour of the two threads.
THEOREM Invariance == Spec => []IInv
BY InitIInv, NextIInv, PTL DEF Spec

\* The variables keep the types their declarations in the class give them.
THEOREM TypeCorrect == Spec => []TypeOK
<1>1. IInv => TypeOK
  BY DEF IInv
<1> QED
  BY <1>1, Invariance, PTL

\* The two pieces of the buffer never overlap nor leave it ("These data ranges
\* must never overlap").
THEOREM PiecesStayDisjoint == Spec => []PiecesDisjoint
<1>1. IInv => PiecesDisjoint
  BY DEF IInv, Layout
<1> QED
  BY <1>1, Invariance, PTL

\* An unlocked read() never writes over data the main thread may be looking at,
\* although that moves the pieces after the offset was computed.
THEOREM ReadsStayClear == Spec => []InFlightClear
<1>1. IInv => InFlightClear
  BY SizesAssumption DEF IInv, TypeOK, Layout, PiecesDisjoint, Flight, TailUsedUp, AtTail, AtHead, AtNothing,
     TailRoom, HeadRoom, InFlightClear
<1> QED
  BY <1>1, Invariance, PTL

\* The reader thread exits "due to bad offset" only if resetData was called under
\* its read(): whatever is released and switched meanwhile, what it read is added
\* to a piece.
THEOREM NothingThrownAway == Spec => []OffsetStaysGood
<1>1. IInv => OffsetStaysGood
  BY DEF IInv, Layout, Flight, AtTail, AtHead, AtNothing, OffsetStaysGood, OffsetAtPieceEnd
<1> QED
  BY <1>1, Invariance, PTL

\* The main thread gets the bytes in the order in which the host sent them, none
\* missing and none twice.
THEOREM StreamInOrder == Spec => []InOrder
<1>1. IInv => InOrder
  BY DEF IInv
<1> QED
  BY <1>1, Invariance, PTL

\* One dataReady per read() suffices, although getData() hands out one piece.
THEOREM SignalsSuffice == Spec => []NoStrandedData
<1>1. IInv => NoStrandedData
  BY SizesAssumption DEF IInv, TypeOK, Signals, Unseen, Announced, NoStrandedData
<1> QED
  BY <1>1, Invariance, PTL

\* A reader that waits for room has data in the buffer to wait for, with every
\* buffer of at least 2 * MaxDataIn - 1 bytes, unless resetData was called while
\* it waited.
THEOREM NeverWaitsOnEmpty == Spec => []WaitsOnlyForRelease
<1>1. IInv => WaitsOnlyForRelease
  BY DEF IInv
<1> QED
  BY <1>1, Invariance, PTL

-----------------------------------------------------------------------------
(* BulkReader implements ByteQueue.  The contents of the two pieces are the *)
(* next bytes of the stream (ContentsAreRun); a step then only has to be    *)
(* matched by what it does to the number of bytes kept and released.       *)

\* The n bytes of the stream from the place r on.
Run(r, n) == [i \in 1 .. n |-> r + i - 1]

Kept == dataSize1 + dataSize2

-----------------------------------------------------------------------------
(* Runs of the stream as sequences. *)

LEMMA RunIsSeq ==
    ASSUME NEW r \in Nat, NEW n \in Nat
    PROVE  Run(r, n) \in Seq(Nat) /\ Len(Run(r, n)) = n
BY DEF Run

LEMMA RunConcat ==
    ASSUME NEW r \in Nat, NEW n \in Nat, NEW m \in Nat
    PROVE  Run(r, n) \o Run(r + n, m) = Run(r, n + m)
<1> DEFINE s == Run(r, n)
           t == Run(r + n, m)
           u == Run(r, n + m)
<1> r + n \in Nat /\ n + m \in Nat
  OBVIOUS
<1>1. s \in Seq(Nat) /\ Len(s) = n
  BY RunIsSeq
<1>2. t \in Seq(Nat) /\ Len(t) = m
  BY RunIsSeq
<1>3. u \in Seq(Nat) /\ Len(u) = n + m
  BY RunIsSeq
<1>4. /\ \A i \in 1 .. n : s[i] = r + i - 1
      /\ \A i \in 1 .. m : t[i] = r + n + i - 1
      /\ \A i \in 1 .. n + m : u[i] = r + i - 1
  BY DEF Run
<1> HIDE DEF s, t, u
<1>5. /\ s \o t \in Seq(Nat)
      /\ Len(s \o t) = Len(s) + Len(t)
      /\ \A i \in 1 .. Len(s) + Len(t) : (s \o t)[i] = IF i <= Len(s) THEN s[i] ELSE t[i - Len(s)]
  BY <1>1, <1>2, ConcatProperties
<1>6. ASSUME NEW i \in 1 .. n + m
      PROVE  (s \o t)[i] = u[i]
  <2>1. (s \o t)[i] = IF i <= n THEN s[i] ELSE t[i - n]
    <3>1. i \in 1 .. Len(s) + Len(t)
      BY <1>1, <1>2
    <3> QED
      BY <1>1, <1>5, <3>1
  <2>2. CASE i <= n
    BY <1>4, <2>1, <2>2
  <2>3. CASE i > n
    <3>1. i - n \in 1 .. m
      BY <2>3
    <3>2. t[i - n] = r + n + (i - n) - 1
      BY <1>4, <3>1
    <3> QED
      BY <1>4, <2>1, <2>3, <3>2
  <2>4. i <= n \/ i > n
    OBVIOUS
  <2> QED
    BY <2>2, <2>3, <2>4, Zenon
<1>7. s \o t = u
  BY <1>1, <1>2, <1>3, <1>5, <1>6, SeqEqual
<1> QED
  BY <1>7 DEF s, t, u

LEMMA RunSuffix ==
    ASSUME NEW r \in Nat, NEW n \in Nat, NEW m \in 0 .. n
    PROVE  SubSeq(Run(r, n), m + 1, n) = Run(r + m, n - m)
<1> DEFINE s == Run(r, n)
           t == Run(r + m, n - m)
           u == SubSeq(s, m + 1, n)
<1> m \in Nat /\ r + m \in Nat /\ n - m \in Nat /\ m + 1 \in Int /\ n \in Int
  OBVIOUS
<1>1. t \in Seq(Nat) /\ Len(t) = n - m
  BY RunIsSeq
<1>2. /\ \A i \in 1 .. n : s[i] = r + i - 1
      /\ \A i \in 1 .. n - m : t[i] = r + m + i - 1
  BY DEF Run
<1> HIDE DEF s, t
<1>3. \A i \in m + 1 .. n : s[i] \in Nat
  BY <1>2
<1>4. /\ u \in Seq(Nat)
      /\ Len(u) = IF m + 1 <= n THEN n - (m + 1) + 1 ELSE 0
      /\ \A i \in 1 .. n - (m + 1) + 1 : u[i] = s[(m + 1) + i - 1]
  BY <1>3, SubSeqProperties
<1> HIDE DEF u
<1>5. Len(u) = n - m
  BY <1>4
<1>6. ASSUME NEW i \in 1 .. n - m
      PROVE  u[i] = t[i]
  <2>1. i \in 1 .. n - (m + 1) + 1 /\ (m + 1) + i - 1 = m + i /\ m + i \in 1 .. n
    OBVIOUS
  <2>2. u[i] = s[m + i]
    BY <1>4, <2>1
  <2>3. s[m + i] = r + (m + i) - 1
    BY <1>2, <2>1
  <2> QED
    BY <1>2, <2>2, <2>3
<1>7. u = t
  BY <1>1, <1>4, <1>5, <1>6, SeqEqual
<1> QED
  BY <1>7 DEF s, t, u

-----------------------------------------------------------------------------
(* The contents of the buffer as a run of the stream. *)

ContentsRun ==
    /\ Contents = Run(released, Kept)
    /\ released \in Nat /\ Kept \in Nat /\ Kept <= BufferSize

LEMMA ContentsAreRun == IInv => ContentsRun
<1> SUFFICES ASSUME IInv PROVE ContentsRun
  OBVIOUS
<1>1. /\ dataStart \in Nat /\ dataSize1 \in Nat /\ dataSize2 \in Nat /\ released \in Nat
      /\ dataStart + dataSize1 <= BufferSize /\ dataSize2 <= dataStart
  BY SizesAssumption DEF IInv, TypeOK, Layout, PiecesDisjoint
<1>2. Kept \in Nat /\ Kept <= BufferSize
  BY <1>1, SizesAssumption DEF Kept
<1>3. ASSUME NEW i \in 1 .. dataSize1 + dataSize2
      PROVE  (IF i <= dataSize1 THEN buffer[dataStart + i - 1] ELSE buffer[i - dataSize1 - 1])
                = released + i - 1
  <2>1. CASE i <= dataSize1
    <3>1. i - 1 \in 0 .. dataSize1 - 1 /\ dataStart + (i - 1) = dataStart + i - 1
      BY <1>1, <2>1
    <3>2. buffer[dataStart + (i - 1)] = released + (i - 1)
      BY <3>1 DEF IInv, InOrder
    <3> QED
      BY <1>1, <2>1, <3>1, <3>2
  <2>2. CASE ~(i <= dataSize1)
    <3>1. i - dataSize1 - 1 \in 0 .. dataSize2 - 1
      BY <1>1, <2>2
    <3>2. buffer[i - dataSize1 - 1] = released + dataSize1 + (i - dataSize1 - 1)
      BY <3>1 DEF IInv, InOrder
    <3> QED
      BY <1>1, <2>2, <3>2
  <2> QED
    BY <2>1, <2>2
<1>4. Contents = Run(released, Kept)
  BY <1>3 DEF Contents, Run, Kept
<1> QED
  BY <1>1, <1>2, <1>4 DEF ContentsRun

LEMMA ContentsAreRunNext == IInv' => ContentsRun'
BY ContentsAreRun, PTL

\* A step that keeps what is kept and released leaves the queue alone.
LEMMA KeepsQueue ==
    ASSUME IInv, IInv', released' = released, Kept' = Kept
    PROVE  UNCHANGED <<Contents, released>>
<1>1. Contents = Run(released, Kept) /\ Contents' = Run(released', Kept')
  BY ContentsAreRun, ContentsAreRunNext DEF ContentsRun
<1> QED
  BY <1>1

\* One that keeps n bytes more puts the next n bytes of the stream.
LEMMA PutsInQueue ==
    ASSUME IInv, IInv', NEW n \in 0 .. MaxDataIn, released' = released, Kept' = Kept + n
    PROVE  Queue!Put(n)
<1> n \in Nat
  BY SizesAssumption
<1>1. Contents = Run(released, Kept) /\ released \in Nat /\ Kept \in Nat
  BY ContentsAreRun DEF ContentsRun
<1>2. Contents' = Run(released, Kept + n) /\ Kept + n <= BufferSize
  BY ContentsAreRunNext DEF ContentsRun
<1>3. Len(Contents) = Kept
  BY <1>1, RunIsSeq
<1>4. [k \in 1 .. n |-> released + Len(Contents) + k - 1] = Run(released + Kept, n)
  BY <1>3 DEF Run
<1>5. Run(released, Kept) \o Run(released + Kept, n) = Run(released, Kept + n)
  BY <1>1, RunConcat
<1>6. Contents' = Contents \o [k \in 1 .. n |-> released + Len(Contents) + k - 1]
  BY <1>1, <1>2, <1>4, <1>5
<1> QED
  BY <1>2, <1>3, <1>6 DEF Queue!Put

\* One that releases n bytes takes the n oldest ones.
LEMMA TakesFromQueue ==
    ASSUME IInv, IInv', NEW n \in Nat, released' = released + n, Kept' = Kept - n
    PROVE  Queue!Take(n)
<1>1. Contents = Run(released, Kept) /\ released \in Nat /\ Kept \in Nat
  BY ContentsAreRun DEF ContentsRun
<1>2. Contents' = Run(released + n, Kept - n) /\ Kept - n \in Nat
  BY ContentsAreRunNext DEF ContentsRun
<1>3. Len(Contents) = Kept
  BY <1>1, RunIsSeq
<1>4. n \in 0 .. Kept
  BY <1>1, <1>2
<1>5. SubSeq(Run(released, Kept), n + 1, Kept) = Run(released + n, Kept - n)
  BY <1>1, <1>4, RunSuffix
<1> QED
  BY <1>1, <1>2, <1>3, <1>4, <1>5 DEF Queue!Take

\* One that releases all discards the queue.
LEMMA DiscardsQueue ==
    ASSUME IInv, IInv', released' = released + Kept, Kept' = 0
    PROVE  Queue!Discard
<1>1. Contents = Run(released, Kept) /\ released \in Nat /\ Kept \in Nat
  BY ContentsAreRun DEF ContentsRun
<1>2. Contents' = Run(released', 0)
  BY ContentsAreRunNext DEF ContentsRun
<1>3. Len(Contents) = Kept
  BY <1>1, RunIsSeq
<1>4. Run(released', 0) = <<>>
  BY DEF Run
<1> QED
  BY <1>2, <1>3, <1>4 DEF Queue!Discard

-----------------------------------------------------------------------------
(* The refinement. *)

QueueVars == <<Contents, released>>

\* An empty buffer is the empty queue.
LEMMA InitRefines == Init => Queue!Init
BY DEF Init, Queue!Init, Contents

\* The steps that leave the pieces alone, or only switch them.
LEMMA SilentSteps ==
    ASSUME IInv, IInv',
           \/ Acquire \/ WakeToExit \/ (\E n \in 0 .. MaxDataIn : ReadDone(n)) \/ ReadToExit
           \/ (\E retry \in BOOLEAN : ReadFails(retry)) \/ EmitDataReady
           \/ Start \/ HandleDataReady \/ BeginExit \/ EndExit \/ UNCHANGED vars
    PROVE  UNCHANGED QueueVars
<1>1. CASE HandleDataReady
  <2>1. released' = released
    BY <1>1 DEF HandleDataReady, history
  <2>2. Kept' = Kept
    <3>1. dataSize1 \in Nat /\ dataSize2 \in Nat
      BY SizesAssumption DEF IInv, TypeOK
    <3>2. SwitchPieces(dataStart, dataSize1, dataSize2)
      BY <1>1 DEF HandleDataReady, GetData
    <3> QED
      BY <3>1, <3>2 DEF SwitchPieces, Kept
  <2> QED
    BY <2>1, <2>2, KeepsQueue DEF QueueVars
<1>2. CASE ~HandleDataReady
  <2>1. UNCHANGED indices /\ released' = released
    BY <1>2 DEF Acquire, WakeToExit, ReadDone, ReadToExit, ReadFails, EmitDataReady, Start, BeginExit,
       EndExit, vars, indices, history
  <2>2. Kept' = Kept
    BY <2>1 DEF indices, Kept
  <2> QED
    BY <2>1, <2>2, KeepsQueue DEF QueueVars
<1> QED
  BY <1>1, <1>2

LEMMA MarkRefines ==
    ASSUME IInv, IInv', MarkNewData
    PROVE  (\E n \in 0 .. MaxDataIn : Queue!Put(n)) \/ UNCHANGED QueueVars
<1>1. released' = released /\ readSize \in 0 .. MaxDataIn
  BY DEF MarkNewData, IInv, TypeOK, history
<1>2. CASE OffsetAtPieceEnd
  <2>1. Kept' = Kept + readSize
    BY <1>2, SizesAssumption DEF MarkNewData, OffsetAtPieceEnd, Kept, IInv, TypeOK
  <2>2. Queue!Put(readSize)
    BY <1>1, <2>1, PutsInQueue
  <2> QED
    BY <1>1, <2>2
<1>3. CASE ~OffsetAtPieceEnd
  <2>1. Kept' = Kept
    BY <1>3 DEF MarkNewData, OffsetAtPieceEnd, Kept
  <2> QED
    BY <1>1, <2>1, KeepsQueue DEF QueueVars
<1> QED
  BY <1>2, <1>3

LEMMA ReleaseRefines ==
    ASSUME IInv, IInv', NEW n \in 1 .. BufferSize, Release(n)
    PROVE  Queue!Take(n)
<1>1. released' = released + n
  BY DEF Release, ReleaseData
<1>2. n \in Nat /\ dataSize1 \in Nat /\ dataSize2 \in Nat
  BY SizesAssumption DEF IInv, TypeOK
<1>3. Kept' = Kept - n
  BY <1>2 DEF Release, ReleaseData, SwitchPieces, Kept
<1> QED
  BY <1>1, <1>2, <1>3, TakesFromQueue

LEMMA ResetRefines ==
    ASSUME IInv, IInv', Reset
    PROVE  Queue!Discard
<1>1. released' = released + Kept /\ Kept' = 0
  BY DEF Reset, ResetData, Accepted, Kept, IInv, TypeOK
<1> QED
  BY <1>1, DiscardsQueue

\* Every step of either thread is a step of the queue or leaves it alone.
LEMMA NextRefines == IInv /\ IInv' /\ [Next]_vars => [Queue!Next]_QueueVars
<1> SUFFICES ASSUME IInv, IInv', [Next]_vars PROVE Queue!Next \/ UNCHANGED QueueVars
  OBVIOUS
<1>1. CASE MarkNewData
  BY <1>1, MarkRefines DEF Queue!Next
<1>2. CASE \E n \in 1 .. BufferSize : Release(n)
  BY <1>2, ReleaseRefines DEF Queue!Next
<1>3. CASE Reset
  BY <1>3, ResetRefines DEF Queue!Next
<1>4. CASE ~(MarkNewData \/ (\E n \in 1 .. BufferSize : Release(n)) \/ Reset)
  BY <1>4, SilentSteps DEF Next, Reader, Main
<1> QED
  BY <1>1, <1>2, <1>3, <1>4

\* The buffer the two threads share, with its two pieces and its unlocked reads
\* and writes, is one bounded first-in first-out queue.
THEOREM Refinement == Spec => ImplementsQueue
<1>1. IInv /\ IInv' /\ [Next]_vars => [Queue!Next]_<<Contents, released>>
  BY NextRefines DEF QueueVars
<1> QED
  BY <1>1, InitRefines, Invariance, PTL DEF Spec, ImplementsQueue, Queue!Spec
=============================================================================
