--------------------------- MODULE UsbReceiverProofs ---------------------------
(***************************************************************************)
(* Proofs about UsbReceiver, for every size of the buffer and of a read    *)
(* and containers of any lengths, whether the reader is ended or goes on   *)
(* running when its data is discarded.                                     *)
(*                                                                         *)
(* UsbInv has three parts.  Ring says where the data is and why a read in  *)
(* progress keeps clear of it; Work relates the view and the packet of     *)
(* processReceivedData() to it.  Stream follows the boundaries of the      *)
(* containers from the place the main thread has reached to the last byte  *)
(* read, so that containerReadLen and what the host has left to send are   *)
(* two ends of the same chain.                                             *)
(***************************************************************************)
EXTENDS UsbReceiver, BulkReaderProofs

USE DEF history

-----------------------------------------------------------------------------
(* The inductive invariant. *)

Pieces ==
    /\ \A i \in 0 .. dataSize1 - 1 : buffer[dataStart + i] = released + i
    /\ \A i \in 0 .. dataSize2 - 1 : buffer[i] = released + dataSize1 + i

Ring == TypeOK /\ Layout /\ Fresh /\ Pieces

\* The view is the oldest data, unless a reset has emptied the buffer under it;
\* the packet is the beginning of the view.
Work ==
    /\ frame = "none" <=> readerBusy = "free"
    /\ frame # "none" /\ ~stale /\ view.len > 0 => view.ptr = dataStart /\ view.len <= dataSize1
    /\ Delivering => view.len > 0 /\ packet.ptr = view.ptr /\ packet.len \in 0 .. view.len

\* Where the main thread has come to, where the container it is reading ends and
\* what has been read from the endpoint.
Reached == released + (IF Delivering THEN packet.len ELSE 0)
Border  == Reached + containerReadLen
Total   == Accepted + (IF readerPc = "mark" THEN readSize ELSE 0)

\* The container that began at s ends where the next begins, or is the last.
EndOf(s) == s + starts[s]

Adjacent(s) ==
    /\ Border <= s
    /\ EndOf(s) < Total => EndOf(s) \in Starts
    /\ EndOf(s) >= Total => hostLeft = EndOf(s) - Total
    /\ \A t \in Starts : s < t /\ t < Total => EndOf(s) <= t

\* The containers that follow the border are complete and adjacent, but for the
\* last, of which the host has hostLeft bytes to send.
Follows ==
    /\ Border < Total => Border \in Starts
    /\ Border >= Total => hostLeft = Border - Total
    /\ \A s \in Starts : Reached <= s /\ s < Total => Adjacent(s)

\* The container that ends at the border is the last one that began before
\* what was reached, and the packet lies in it.
BorderOf(b) ==
    /\ b + starts[b] = Border
    /\ b < Reached
    /\ \A t \in Starts : t <= b \/ Reached <= t
    /\ Delivering => /\ b <= released
                     /\ packet.first <=> released = b
                     /\ packet.last <=> containerReadLen = 0

Current ==
    /\ Delivering => packet.len > 0
    /\ containerReadLen > 0 \/ Delivering => \E b \in Starts : BorderOf(b)

Stream ==
    /\ \A s \in Starts : s <= Accepted
    /\ Total <= StreamBound
    /\ readerPc = "mark" => readSize > 0
    /\ intact => Follows /\ Current

UsbInv == UsbTypeOK /\ shouldExit = FALSE /\ Ring /\ Work /\ Stream

-----------------------------------------------------------------------------
(* The buffer, whoever works in it. *)

Views == [ptr : 0 .. BufferSize, len : 0 .. BufferSize]

LEMMA RingFacts ==
    ASSUME Ring
    PROVE  /\ dataStart \in Nat /\ dataSize1 \in Nat /\ dataSize2 \in Nat /\ released \in Nat
           /\ dataStart + dataSize1 <= BufferSize /\ dataSize2 <= dataStart
           /\ offset \in Int /\ readSize \in 0 .. MaxDataIn /\ dataReady \in Nat /\ view \in Views
           /\ readerPc \in {"off", "acquire", "wait", "read", "mark", "emit"}
           /\ MaxDataIn \in Nat \ {0} /\ BufferSize \in Nat
           /\ Accepted \in Nat /\ Accepted = released + dataSize1 + dataSize2
BY SizesAssumption DEF Ring, TypeOK, Layout, PiecesDisjoint, Views, Accepted

\* The data stays where it is and no read begins.
LEMMA RingSame ==
    ASSUME Ring,
           UNCHANGED <<offset, readSize, buffer, dataStart, dataSize1, dataSize2, released, undercut,
                       mainPc, shouldExit>>,
           readerPc' = readerPc \/ readerPc' \in {"off", "acquire", "emit"},
           dataReady' \in Nat, view' \in Views
    PROVE  Ring' /\ Accepted' = Accepted
<1>1. TypeOK'
  BY DEF Ring, TypeOK, Views
<1>2. Layout'
  BY DEF Ring, Layout, PiecesDisjoint, TailUsedUp, Flight, AtTail, AtHead, AtNothing, TailRoom, HeadRoom
<1>3. Fresh' /\ Pieces' /\ Accepted' = Accepted
  BY DEF Ring, Fresh, Pieces, Accepted
<1> QED
  BY <1>1, <1>2, <1>3 DEF Ring

\* The reader computes its offset.
LEMMA RingAcquire ==
    ASSUME Ring, Acquire PROVE Ring' /\ Accepted' = Accepted
<1>1. UNCHANGED <<readSize, buffer, dataStart, dataSize1, dataSize2, dataReady, view, mainPc, shouldExit,
                  released>> /\ undercut' = FALSE
  BY DEF Acquire, indices, mainVars
<1>2. Layout' /\ offset' \in -1 .. BufferSize /\ readerPc' \in {"off", "wait", "read"}
  BY SizesAssumption
     DEF Ring, Acquire, GetOffset, indices, TypeOK, Layout, PiecesDisjoint, TailUsedUp, Flight, AtTail,
         AtHead, AtNothing, TailRoom, HeadRoom
<1>3. TypeOK'
  BY <1>1, <1>2 DEF Ring, TypeOK
<1>4. Fresh' /\ Pieces' /\ Accepted' = Accepted
  BY <1>1, <1>2 DEF Ring, Fresh, Pieces, Accepted
<1> QED
  BY <1>2, <1>3, <1>4 DEF Ring

\* read() writes behind the pieces.
LEMMA RingRead ==
    ASSUME Ring, NEW n \in 0 .. MaxDataIn, ReadDone(n) PROVE Ring' /\ Accepted' = Accepted
<1> USE RingFacts, SizesAssumption
<1>1. /\ readerPc = "read" /\ readerPc' = "mark" /\ readSize' = n
      /\ UNCHANGED <<offset, dataStart, dataSize1, dataSize2, dataReady, view, mainPc, shouldExit,
                     released, undercut>>
      /\ \A p \in 0 .. BufferSize - 1 :
           buffer'[p] = IF p \in offset .. offset + n - 1 THEN Accepted + (p - offset) ELSE buffer[p]
  BY DEF ReadDone, indices, mainVars
<1>2. offset \in Nat /\ offset + MaxDataIn <= BufferSize
  BY <1>1 DEF Ring, Layout, Flight, AtTail, AtHead, AtNothing, TailRoom, HeadRoom
<1>3. TypeOK'
  <2>1. buffer' \in [0 .. BufferSize - 1 -> Nat]
    <3>1. \A p \in 0 .. BufferSize - 1 : p \in offset .. offset + n - 1 => Accepted + (p - offset) \in Nat
      OBVIOUS
    <3>2. \A p \in 0 .. BufferSize - 1 : buffer[p] \in Nat
      BY DEF Ring, TypeOK
    <3> QED
      BY <3>1, <3>2 DEF ReadDone
  <2> QED
    BY <1>1, <2>1 DEF Ring, TypeOK
<1>4. Layout'
  BY <1>1 DEF Ring, Layout, PiecesDisjoint, TailUsedUp, Flight, AtTail, AtHead, AtNothing, TailRoom, HeadRoom
<1>5. Accepted' = Accepted
  BY <1>1 DEF Accepted
<1>6. Fresh'
  <2>1. \A k \in 0 .. n - 1 : buffer'[offset + k] = Accepted + k
    BY <1>1, <1>2
  <2> QED
    BY <1>1, <1>5, <2>1 DEF Fresh
<1>7. Pieces'
  <2>1. \/ offset = dataStart + dataSize1 /\ dataSize2 = 0
        \/ offset = dataSize2 /\ dataSize2 + MaxDataIn <= dataStart
        \/ dataSize1 = 0 /\ dataSize2 = 0
    BY <1>1 DEF Ring, Layout, Flight, TailUsedUp, AtTail, AtHead, AtNothing, TailRoom, HeadRoom
  <2>2. \A i \in 0 .. dataSize1 - 1 : buffer'[dataStart + i] = buffer[dataStart + i]
    BY <1>1, <2>1
  <2>3. \A i \in 0 .. dataSize2 - 1 : buffer'[i] = buffer[i]
    BY <1>1, <2>1
  <2> QED
    BY <1>1, <2>2, <2>3 DEF Ring, Pieces
<1> QED
  BY <1>3, <1>4, <1>5, <1>6, <1>7 DEF Ring

\* What was read with a good offset becomes part of the last piece.
LEMMA RingMark ==
    ASSUME Ring, readerPc = "mark", readerPc' \in {"emit", "off"}, OffsetAtPieceEnd,
           UNCHANGED <<offset, readSize, buffer, dataStart, view, mainPc, shouldExit, released, undercut>>,
           dataSize1' = IF offset = dataStart + dataSize1 THEN dataSize1 + readSize ELSE dataSize1,
           dataSize2' = IF offset # dataStart + dataSize1 /\ offset = dataSize2
                        THEN dataSize2 + readSize ELSE dataSize2,
           dataReady' \in Nat
    PROVE  Ring' /\ Accepted' = Accepted + readSize
<1> USE RingFacts, SizesAssumption
<1>1. \/ AtTail /\ dataSize2 = 0
      \/ AtHead /\ offset # dataStart + dataSize1
  BY DEF Ring, Layout, Flight, TailUsedUp, AtTail, AtHead, AtNothing, TailRoom, HeadRoom, OffsetAtPieceEnd
<1>2. \A k \in 0 .. readSize - 1 : buffer[offset + k] = released + dataSize1 + dataSize2 + k
  BY DEF Ring, Fresh, Accepted
<1>3. CASE AtTail /\ dataSize2 = 0
  <2>1. dataSize1' = dataSize1 + readSize /\ dataSize2' = dataSize2 /\ offset = dataStart + dataSize1
    BY <1>3 DEF AtTail
  <2>2. TypeOK' /\ Layout'
    BY <1>3, <2>1 DEF Ring, TypeOK, Layout, PiecesDisjoint, TailUsedUp, Flight, AtTail, TailRoom
  <2>3. ASSUME NEW i \in dataSize1 .. dataSize1 + readSize - 1
        PROVE  buffer[dataStart + i] = released + i
    <3>1. i - dataSize1 \in 0 .. readSize - 1
      OBVIOUS
    <3>2. buffer[offset + (i - dataSize1)] = released + dataSize1 + dataSize2 + (i - dataSize1)
      BY <1>2, <3>1
    <3>3. offset + (i - dataSize1) = dataStart + i
          /\ released + dataSize1 + dataSize2 + (i - dataSize1) = released + i
      BY <1>3, <2>1
    <3> QED
      BY <3>2, <3>3
  <2>4. Pieces'
    <3>1. \A i \in 0 .. dataSize1' - 1 : buffer[dataStart + i] = released + i
      BY <2>1, <2>3 DEF Ring, Pieces
    <3> QED
      BY <1>3, <2>1, <3>1 DEF Pieces
  <2>5. Fresh' /\ Accepted' = Accepted + readSize
    BY <2>1 DEF Fresh, Accepted
  <2> QED
    BY <2>1, <2>2, <2>4, <2>5 DEF Ring
<1>4. CASE AtHead /\ offset # dataStart + dataSize1
  <2>1. dataSize1' = dataSize1 /\ dataSize2' = dataSize2 + readSize /\ offset = dataSize2
    BY <1>4 DEF AtHead
  <2>2. TypeOK' /\ Layout'
    BY <1>4, <2>1
       DEF Ring, TypeOK, Layout, PiecesDisjoint, TailUsedUp, Flight, AtHead, AtNothing, TailRoom, HeadRoom
  <2>3. ASSUME NEW i \in dataSize2 .. dataSize2 + readSize - 1
        PROVE  buffer[i] = released + dataSize1 + i
    <3>1. i - dataSize2 \in 0 .. readSize - 1
      OBVIOUS
    <3>2. buffer[offset + (i - dataSize2)] = released + dataSize1 + dataSize2 + (i - dataSize2)
      BY <1>2, <3>1
    <3>3. offset + (i - dataSize2) = i
          /\ released + dataSize1 + dataSize2 + (i - dataSize2) = released + dataSize1 + i
      BY <2>1
    <3> QED
      BY <3>2, <3>3
  <2>4. Pieces'
    <3>1. \A i \in 0 .. dataSize2' - 1 : buffer[i] = released + dataSize1 + i
      BY <2>1, <2>3 DEF Ring, Pieces
    <3>2. \A i \in 0 .. dataSize1 - 1 : buffer[dataStart + i] = released + i
      BY DEF Ring, Pieces
    <3> QED
      BY <2>1, <3>1, <3>2 DEF Pieces
  <2>5. Fresh' /\ Accepted' = Accepted + readSize
    BY <2>1 DEF Fresh, Accepted
  <2> QED
    BY <2>1, <2>2, <2>4, <2>5 DEF Ring
<1> QED
  BY <1>1, <1>3, <1>4

\* The pieces are switched, if need be after n bytes were taken off.
LEMMA RingSwitch ==
    ASSUME Ring, NEW n \in 0 .. dataSize1, SwitchPieces(dataStart + n, dataSize1 - n, dataSize2),
           UNCHANGED <<offset, readSize, buffer, mainPc, shouldExit, undercut>>, dataReady' \in Nat,
           readerPc' = readerPc \/ (readerPc = "wait" /\ readerPc' = "acquire"),
           released' = released + n, view' \in Views
    PROVE  /\ Ring' /\ Accepted' = Accepted
           /\ dataStart' \in Nat /\ dataSize1' \in 0 .. BufferSize
           /\ dataSize1 > n => dataStart' = dataStart + n /\ dataSize1' = dataSize1 - n
<1> USE RingFacts, SizesAssumption
<1>1. CASE dataSize1 - n = 0 /\ dataSize2 > 0
  <2>1. dataStart' = 0 /\ dataSize1' = dataSize2 /\ dataSize2' = 0 /\ n = dataSize1
    BY <1>1 DEF SwitchPieces
  <2>2. Accepted' = Accepted
    BY <2>1 DEF Accepted
  <2>3. TypeOK'
    BY <2>1, SMTT(30) DEF Ring, TypeOK, Views
  <2>4. Layout'
    <3>1. PiecesDisjoint' /\ TailUsedUp'
      BY <2>1 DEF PiecesDisjoint, TailUsedUp
    <3>2. ~TailRoom
      BY <1>1 DEF Ring, Layout, TailUsedUp
    <3>3. Flight'
      BY <2>1, <3>2 DEF Ring, Layout, Flight, AtTail, AtHead, AtNothing, TailRoom, HeadRoom
    <3> QED
      BY <3>1, <3>3 DEF Layout
  <2>5. Fresh'
    BY <2>2 DEF Ring, Fresh
  <2>6. \A i \in 0 .. dataSize2 - 1 : buffer[i] = released + n + i
    BY <2>1 DEF Ring, Pieces
  <2>7. Pieces'
    BY <2>1, <2>6 DEF Pieces
  <2> QED
    BY <2>1, <2>2, <2>3, <2>4, <2>5, <2>7 DEF Ring
<1>2. CASE ~(dataSize1 - n = 0 /\ dataSize2 > 0)
  <2>1. dataStart' = dataStart + n /\ dataSize1' = dataSize1 - n /\ dataSize2' = dataSize2
    BY <1>2 DEF SwitchPieces
  <2>2. Accepted' = Accepted
    BY <2>1 DEF Accepted
  <2>3. TypeOK'
    BY <2>1, SMTT(30) DEF Ring, TypeOK, Views
  <2>4. Layout'
    BY <2>1 DEF Ring, Layout, PiecesDisjoint, Flight, TailUsedUp, AtTail, AtHead, AtNothing, TailRoom, HeadRoom
  <2>5. Fresh'
    BY <2>2 DEF Ring, Fresh
  <2>6. \A i \in 0 .. dataSize1 - n - 1 : buffer[dataStart + n + i] = released + n + i
    <3>1. ASSUME NEW i \in 0 .. dataSize1 - n - 1
          PROVE  buffer[dataStart + (n + i)] = released + (n + i)
      BY DEF Ring, Pieces
    <3>2. ASSUME NEW i \in 0 .. dataSize1 - n - 1
          PROVE  dataStart + (n + i) = dataStart + n + i /\ released + (n + i) = released + n + i
      OBVIOUS
    <3> QED
      BY <3>1, <3>2
  <2>7. \A i \in 0 .. dataSize2 - 1 : buffer[i] = released + n + (dataSize1 - n) + i
    BY DEF Ring, Pieces
  <2>8. Pieces'
    BY <2>1, <2>6, <2>7 DEF Pieces
  <2> QED
    BY <2>1, <2>2, <2>3, <2>4, <2>5, <2>8 DEF Ring
<1> QED
  BY <1>1, <1>2

\* The data is discarded, under a read in progress too.
LEMMA RingReset ==
    ASSUME Ring, ResetData, readerPc' = readerPc \/ readerPc' \in {"off", "acquire"},
           UNCHANGED <<offset, readSize, buffer, view, mainPc, shouldExit>>, dataReady' \in Nat
    PROVE  Ring' /\ Accepted' = Accepted /\ released' = Accepted
<1> USE RingFacts, SizesAssumption
<1>1. dataStart' = 0 /\ dataSize1' = 0 /\ dataSize2' = 0 /\ released' = Accepted /\ undercut' = TRUE
  BY DEF ResetData
<1>2. TypeOK'
  BY <1>1 DEF Ring, TypeOK
<1>3. Layout'
  BY <1>1 DEF Ring, Layout, PiecesDisjoint, TailUsedUp, Flight, AtTail, AtHead, AtNothing, TailRoom,
              HeadRoom
<1>4. Accepted' = Accepted /\ Pieces'
  BY <1>1 DEF Pieces, Accepted
<1>5. Fresh'
  BY <1>4 DEF Ring, Fresh
<1> QED
  BY <1>1, <1>2, <1>3, <1>4, <1>5 DEF Ring

-----------------------------------------------------------------------------
(* The boundaries of the containers. *)

LEMMA StreamFacts ==
    ASSUME UsbTypeOK, Ring, Stream
    PROVE  /\ hostLeft \in Nat /\ containerReadLen \in Nat /\ packet.len \in Nat /\ StreamBound \in Nat
           /\ Reached \in Nat /\ Border \in Nat /\ Total \in Nat
           /\ Border = Reached + containerReadLen /\ Accepted <= Total /\ Total <= StreamBound
           /\ \A s \in Starts : s \in Nat /\ starts[s] \in Nat \ {0} /\ s <= Accepted
           /\ \A s \in 0 .. StreamBound : s \notin Starts => starts[s] = 0
<1>1. hostLeft \in Nat /\ containerReadLen \in Nat /\ packet.len \in Nat
      /\ starts \in [0 .. StreamBound -> Nat]
  BY DEF UsbTypeOK
<1>2. StreamBound \in Nat
  BY SizesAssumption
<1>3. Accepted \in Nat /\ released \in Nat /\ readSize \in Nat
  BY RingFacts
<1>4. Reached \in Nat /\ Total \in Nat /\ Accepted <= Total
  BY <1>1, <1>3 DEF Reached, Total
<1>5. /\ \A s \in Starts : s \in Nat /\ starts[s] \in Nat \ {0} /\ s <= Accepted
      /\ \A s \in 0 .. StreamBound : s \notin Starts => starts[s] = 0
  BY <1>1, <1>2 DEF Stream, Starts
<1> QED
  BY <1>1, <1>2, <1>4, <1>5 DEF Border, Stream

\* Nothing happens to the stream.
LEMMA StreamKept ==
    ASSUME UsbTypeOK, Ring, Stream, Accepted' \in Nat, Accepted <= Accepted',
           UNCHANGED <<starts, hostLeft, containerReadLen>>, Total' = Total, Reached' = Reached,
           readerPc' = "mark" => readSize' > 0, intact' => intact,
           Delivering' => Delivering /\ UNCHANGED <<packet, released>>
    PROVE  Stream'
<1>1. Border' = Border /\ Starts' = Starts
  BY DEF Border, Starts
<1>2. Follows => Follows'
  BY <1>1 DEF Follows, Adjacent, EndOf
<1>3. Current => Current'
  BY <1>1 DEF Current, BorderOf
<1>4. \A s \in Starts' : s <= Accepted'
  BY <1>1, StreamFacts, RingFacts
<1> QED
  BY <1>2, <1>3, <1>4 DEF Stream

\* Something of the stream is lost.
LEMMA StreamBroken ==
    ASSUME UsbTypeOK, Ring, Stream, starts' = starts, Accepted' = Accepted, intact' = FALSE,
           \/ readerPc' # "mark"
           \/ readerPc = "mark" /\ readSize' = readSize
    PROVE  Stream'
<1>1. Starts' = Starts
  BY DEF Starts
<1>2. Total' <= Total /\ Total <= StreamBound /\ Total' \in Nat
  BY StreamFacts, RingFacts DEF Total
<1>3. readerPc' = "mark" => readSize' > 0
  BY DEF Stream
<1> QED
  BY <1>1, <1>2, <1>3, StreamFacts DEF Stream

\* The buffer was emptied; the host begins a new container, unless something
\* is missing in the one it goes on with or is still to come.
LEMMA StreamEmptied ==
    ASSUME UsbTypeOK, Ring, Stream, Accepted' = Accepted, released' = Accepted, starts' = starts,
           containerReadLen' = 0, ~Delivering', intact' \in BOOLEAN,
           readerPc' = readerPc \/ readerPc' # "mark", readSize' = readSize,
           intact' => hostLeft' = 0 /\ readerPc' # "mark"
    PROVE  Stream'
<1>1. CASE intact'
  <2>1. Accepted \in Nat /\ readerPc' # "mark"
    BY <1>1, RingFacts
  <2>2. Reached' = Accepted /\ Total' = Accepted
    BY <2>1 DEF Reached, Total
  <2>3. Border' = Accepted /\ Starts' = Starts
    BY <2>1, <2>2 DEF Border, Starts
  <2>4. Follows'
    BY <1>1, <2>1, <2>2, <2>3, StreamFacts DEF Follows, Adjacent, EndOf
  <2>5. Current'
    BY DEF Current
  <2>6. Total' <= StreamBound /\ \A s \in Starts' : s <= Accepted'
    BY <2>1, <2>2, <2>3, StreamFacts
  <2> QED
    BY <2>1, <2>4, <2>5, <2>6 DEF Stream
<1>2. CASE ~intact'
  BY <1>2, StreamBroken
<1> QED
  BY <1>1, <1>2

\* The host sends the next part of its container, or begins one.
LEMMA ReadSizes ==
    ASSUME UsbTypeOK, NEW left \in ToSend
    PROVE  /\ left \in Nat \ {0} /\ ReadOf(left) \in 1 .. left /\ ReadOf(left) \in 0 .. MaxDataIn
           /\ left - ReadOf(left) \in Nat
           /\ hostLeft # 0 => left = hostLeft
<1>1. left \in Nat \ {0} /\ (hostLeft # 0 => left = hostLeft)
  BY UsbAssumption DEF UsbTypeOK, ToSend
<1>2. ReadOf(left) \in 1 .. left /\ ReadOf(left) \in 0 .. MaxDataIn
  BY <1>1, SizesAssumption DEF ReadOf, Least
<1> QED
  BY <1>1, <1>2

LEMMA StreamRead ==
    ASSUME UsbTypeOK, Ring, Work, Stream, NEW left \in ToSend, HostSends(left) PROVE Stream'
<1> DEFINE n == ReadOf(left)
<1>1. /\ readerPc = "read" /\ readerPc' = "mark" /\ readSize' = n /\ ReadDone(n)
      /\ hostLeft' = left - n /\ Accepted + n <= StreamBound
      /\ starts' = [starts EXCEPT ![Accepted] = IF hostLeft = 0 THEN left ELSE 0]
      /\ UNCHANGED <<released, packet, containerReadLen, frame, stale, intact>>
  BY DEF HostSends, ReadDone, usbVars
<1>2. /\ left \in Nat \ {0} /\ n \in 1 .. left /\ n \in 0 .. MaxDataIn
      /\ hostLeft # 0 => left = hostLeft
  BY ReadSizes
<1>3. /\ hostLeft \in Nat /\ Reached \in Nat /\ Border \in Nat /\ Total \in Nat /\ Accepted \in Nat
      /\ StreamBound \in Nat /\ Reached <= Border /\ starts \in [0 .. StreamBound -> Nat]
      /\ \A s \in Starts : s \in Nat /\ starts[s] \in Nat \ {0} /\ s <= Accepted
  <2>1. starts \in [0 .. StreamBound -> Nat]
    BY DEF UsbTypeOK
  <2>2. Reached <= Border /\ Accepted \in Nat
    BY StreamFacts, RingFacts
  <2> QED
    BY <2>1, <2>2, StreamFacts
<1>4. Accepted' = Accepted
  BY <1>1, <1>2, RingRead
<1>5. Total = Accepted /\ Total' = Accepted + n /\ Reached' = Reached /\ Border' = Border
  BY <1>1, <1>3, <1>4 DEF Total, Reached, Border, Delivering
<1> HIDE DEF n
<1>6. /\ Accepted \in 0 .. StreamBound
      /\ starts'[Accepted] = IF hostLeft = 0 THEN left ELSE 0
      /\ \A s \in 0 .. StreamBound : s # Accepted => starts'[s] = starts[s]
  BY <1>1, <1>2, <1>3
<1>7. /\ \A s \in Starts' : s = Accepted \/ s \in Starts
      /\ \A s \in Starts : s # Accepted => s \in Starts' /\ starts'[s] = starts[s]
      /\ Accepted \in Starts' <=> hostLeft = 0
  BY <1>2, <1>6 DEF Starts
<1>8. ASSUME Follows, hostLeft = 0 PROVE Follows'
  <2>1. hostLeft' = left - n /\ Accepted \in Starts' /\ starts'[Accepted] = left
    BY <1>1, <1>6, <1>7, <1>8
  <2>2. Border <= Total
    BY <1>3, <1>8 DEF Follows, Adjacent, EndOf
  <2>3. Border < Total => Border \in Starts'
    BY <1>3, <1>5, <1>7, <1>8 DEF Follows, Adjacent, EndOf
  <2>4. Border < Total' /\ Border \in Starts'
    BY <1>2, <1>3, <1>5, <2>1, <2>2, <2>3
  <2>5. ASSUME NEW s \in Starts', Reached <= s PROVE Adjacent(s)'
    <3>1. CASE s = Accepted
      <4>1. EndOf(s)' = Accepted + left /\ \A t \in Starts' : t <= s
        BY <1>3, <1>7, <2>1, <3>1 DEF EndOf
      <4> QED
        BY <1>2, <1>3, <1>5, <2>1, <2>2, <3>1, <4>1 DEF Adjacent
    <3>2. CASE s # Accepted
      <4>1. s \in Starts /\ s < Total /\ s \in Nat
        BY <1>3, <1>5, <1>7, <3>2
      <4>2. EndOf(s)' = EndOf(s) /\ EndOf(s) \in Nat
        BY <1>3, <1>7, <3>2, <4>1 DEF EndOf
      <4>3. Adjacent(s)
        BY <1>8, <2>5, <4>1 DEF Follows
      <4>4. EndOf(s) <= Total
        BY <1>3, <1>8, <4>2, <4>3 DEF Adjacent
      <4>5. EndOf(s) \in Starts'
        BY <1>3, <1>5, <1>7, <2>1, <4>2, <4>3, <4>4 DEF Adjacent
      <4>6. ASSUME NEW t \in Starts', s < t, t < Total' PROVE EndOf(s) <= t
        BY <1>3, <1>5, <1>7, <4>2, <4>3, <4>4, <4>6 DEF Adjacent
      <4>7. EndOf(s) < Total'
        BY <1>2, <1>3, <1>5, <4>2, <4>4
      <4>8. Border <= s
        BY <4>3 DEF Adjacent
      <4> QED
        BY <1>3, <1>5, <4>2, <4>5, <4>6, <4>7, <4>8 DEF Adjacent
    <3> QED
      BY <3>1, <3>2
  <2>6. ~(Border >= Total')
    BY <1>3, <1>5, <2>4, <1>2
  <2> QED
    BY <1>5, <2>4, <2>5, <2>6 DEF Follows
<1>9. ASSUME Follows, hostLeft # 0 PROVE Follows'
  <2>1. hostLeft' = hostLeft - n /\ n \in 1 .. hostLeft /\ Accepted \notin Starts'
    BY <1>1, <1>2, <1>7, <1>9
  <2>2. Border # Total
    BY <1>3, <1>9 DEF Follows, Adjacent, EndOf
  <2>3. /\ Border < Total' => Border \in Starts'
        /\ Border >= Total' => hostLeft' = Border - Total'
    <3>1. /\ Border < Total => Border \in Starts
          /\ Border >= Total => hostLeft = Border - Total
      BY <1>9 DEF Follows, Adjacent, EndOf
    <3> QED
      BY <1>2, <1>3, <1>5, <1>7, <2>1, <2>2, <3>1
  <2>4. ASSUME NEW s \in Starts', Reached <= s PROVE Adjacent(s)'
    <3>1. s \in Starts /\ s < Total /\ s \in Nat /\ s # Accepted
      BY <1>3, <1>5, <1>7, <2>1
    <3>2. EndOf(s)' = EndOf(s) /\ EndOf(s) \in Nat
      BY <1>3, <1>7, <3>1 DEF EndOf
    <3>3. Adjacent(s)
      BY <1>9, <2>4, <3>1 DEF Follows
    <3>4. EndOf(s) # Total
      BY <1>3, <1>9, <3>2, <3>3 DEF Adjacent
    <3>5. EndOf(s) < Total' => EndOf(s) \in Starts'
      BY <1>3, <1>5, <1>7, <2>1, <3>2, <3>3, <3>4 DEF Adjacent
    <3>6. EndOf(s) >= Total' => hostLeft' = EndOf(s) - Total'
      <4>1. EndOf(s) >= Total => hostLeft = EndOf(s) - Total
        BY <3>3 DEF Adjacent
      <4> QED
        BY <1>2, <1>3, <1>5, <2>1, <3>2, <4>1
    <3>7. \A t \in Starts' : t \in Starts /\ t < Total
      BY <1>3, <1>5, <1>7, <2>1
    <3>8. ASSUME NEW t \in Starts', s < t, t < Total' PROVE EndOf(s) <= t
      BY <3>3, <3>7, <3>8 DEF Adjacent
    <3>9. Border <= s
      BY <3>3 DEF Adjacent
    <3> QED
      BY <1>5, <3>2, <3>5, <3>6, <3>8, <3>9 DEF Adjacent
  <2> QED
    BY <1>5, <2>3, <2>4 DEF Follows
<1>10. Current => Current'
  <2> SUFFICES ASSUME Current PROVE Current'
    OBVIOUS
  <2>1. Delivering' = Delivering
    BY <1>1 DEF Delivering
  <2>2. Reached <= Accepted
    <3>1. Delivering => packet.len \in 0 .. dataSize1
      BY RingFacts DEF Delivering, Work, Views
    <3> QED
      BY <3>1, RingFacts DEF Reached
  <2>3. ASSUME NEW b \in Starts, BorderOf(b) PROVE b \in Starts' /\ BorderOf(b)'
    <3>1. b < Accepted /\ b # Accepted
      BY <1>3, <2>2, <2>3 DEF BorderOf
    <3>2. b \in Starts' /\ starts'[b] = starts[b]
      BY <1>7, <3>1
    <3>3. \A t \in Starts' : t <= b \/ Reached <= t
      BY <1>7, <2>2, <2>3 DEF BorderOf
    <3> QED
      BY <1>1, <1>5, <2>1, <2>3, <3>2, <3>3 DEF BorderOf
  <2> QED
    BY <1>1, <2>1, <2>3 DEF Current
<1>11. \A s \in Starts' : s <= Accepted'
  BY <1>3, <1>4, <1>7
<1> QED
  BY <1>1, <1>2, <1>5, <1>8, <1>9, <1>10, <1>11 DEF Stream

\* A header where a container begins gives the length of it.
LEMMA LengthsRead ==
    ASSUME UsbTypeOK, NEW place \in 0 .. StreamBound,
           NEW header \in Headers(place), NEW fetched \in Fetched(place)
    PROVE  /\ LengthFrom(header, fetched) \in Nat
           /\ starts[place] > 0 => LengthFrom(header, fetched) = starts[place]
<1>1. starts[place] \in Nat /\ MaxHeader \in Nat
  BY UsbAssumption DEF UsbTypeOK
<1>2. CASE starts[place] > 0
  BY <1>1, <1>2 DEF Headers, Fetched, LengthFrom, Least
<1>3. CASE ~(starts[place] > 0)
  <2>1. header \in Nat /\ fetched \in Nat
    <3>1. Headers(place) = 0 .. MaxHeader /\ Fetched(place) = {0} \cup ContainerLens
      BY <1>3 DEF Headers, Fetched
    <3>2. ContainerLens \subseteq Nat
      BY UsbAssumption
    <3>3. header \in Nat
      BY <1>1, <3>1
    <3>4. fetched \in Nat
      <4>1. CASE fetched \in {0}
        BY <4>1
      <4>2. CASE fetched \in ContainerLens
        BY <3>2, <4>2, Zenon
      <4> QED
        BY <3>1, <4>1, <4>2, Zenon
    <3> QED
      BY <3>3, <3>4
  <2> QED
    BY <1>3, <2>1 DEF LengthFrom
<1> QED
  BY <1>2, <1>3

\* A packet is cut off, at the end of its container at the latest.
LEMMA DeliverResult ==
    ASSUME UsbTypeOK, Ring, Work, Stream, Deliver
    PROVE  \E len \in Nat, chunk \in 0 .. view.len :
             /\ containerReadLen > 0 => len = containerReadLen
             /\ containerReadLen = 0 /\ released \in Starts => len = starts[released]
             /\ chunk <= len /\ (len > 0 => chunk > 0)
             /\ containerReadLen' = len - chunk
             /\ packet' = [ptr |-> view.ptr, len |-> chunk,
                           first |-> containerReadLen = 0, last |-> len = chunk]
<1>1. view.len \in Nat \ {0} /\ view.ptr = dataStart /\ view.len <= dataSize1
  BY RingFacts DEF Deliver, Work, Views
<1>2. buffer[view.ptr] = released
  <2>1. 0 \in 0 .. dataSize1 - 1
    BY <1>1, RingFacts
  <2>2. buffer[dataStart + 0] = released + 0
    BY <2>1 DEF Ring, Pieces
  <2> QED
    BY <1>1, <2>2, RingFacts
<1>3. released \in 0 .. StreamBound
  BY <1>1, RingFacts, StreamFacts
<1>4. PICK len \in NextLengths :
        /\ containerReadLen' = len - Least(view.len, len)
        /\ packet' = [ptr |-> view.ptr, len |-> Least(view.len, len),
                      first |-> containerReadLen = 0, last |-> len = Least(view.len, len)]
  BY DEF Deliver
<1>5. /\ len \in Nat
      /\ containerReadLen > 0 => len = containerReadLen
      /\ containerReadLen = 0 /\ released \in Starts => len = starts[released]
  <2>1. CASE containerReadLen > 0
    BY <1>4, <2>1, StreamFacts DEF NextLengths
  <2>2. CASE ~(containerReadLen > 0)
    <3>1. PICK header \in Headers(released), fetched \in Fetched(released) :
            len = LengthFrom(header, fetched)
      BY <1>2, <1>4, <2>2 DEF NextLengths
    <3>2. released \in Starts => starts[released] > 0
      BY DEF Starts
    <3> QED
      BY <1>3, <2>2, <3>1, <3>2, LengthsRead
  <2> QED
    BY <2>1, <2>2
<1>6. /\ Least(view.len, len) \in 0 .. view.len /\ Least(view.len, len) <= len
      /\ len > 0 => Least(view.len, len) > 0
  BY <1>1, <1>5 DEF Least
<1> QED
  BY <1>4, <1>5, <1>6

LEMMA StreamDeliver ==
    ASSUME UsbTypeOK, Ring, Work, Stream, Deliver PROVE Stream'
<1> DEFINE c == containerReadLen
<1>1. PICK len \in Nat, chunk \in 0 .. view.len :
        /\ c > 0 => len = c
        /\ c = 0 /\ released \in Starts => len = starts[released]
        /\ chunk <= len /\ (len > 0 => chunk > 0)
        /\ c' = len - chunk
        /\ packet' = [ptr |-> view.ptr, len |-> chunk, first |-> c = 0, last |-> len = chunk]
  BY DeliverResult
<1>2. /\ frame = "next" /\ frame' = "deliver" /\ ~stale
      /\ UNCHANGED <<stale, starts, hostLeft, intact, released, readerPc, readSize, dataSize1, dataSize2>>
  BY DEF Deliver, vars, readerVars, indices, hostVars
<1>3. view.len \in Nat \ {0} /\ view.len <= dataSize1
  BY RingFacts DEF Deliver, Work, Views
<1>4. /\ c \in Nat /\ hostLeft \in Nat /\ released \in Nat
      /\ Total \in Nat /\ Accepted \in Nat /\ released + chunk <= Accepted /\ Accepted <= Total
      /\ released < Accepted
      /\ \A s \in Starts : s \in Nat /\ starts[s] \in Nat \ {0} /\ s <= Accepted
  BY <1>3, StreamFacts, RingFacts
<1>5. Reached = released /\ Border = released + c
  BY <1>2, <1>4 DEF Reached, Border, Delivering
<1>6. /\ packet'.len = chunk /\ (packet'.first <=> c = 0) /\ (packet'.last <=> len = chunk)
      /\ Delivering' /\ Total' = Total /\ Accepted' = Accepted /\ Starts' = Starts
  BY <1>1, <1>2 DEF Delivering, Total, Accepted, Starts
<1>7. Reached' = released + chunk /\ Border' = released + len
  <2>1. Reached' = released + chunk
    BY <1>2, <1>6 DEF Reached
  <2> QED
    BY <1>1, <1>4, <2>1 DEF Border
<1>8. len = chunk <=> c' = 0
  BY <1>1, <1>4
<1>9. ASSUME Follows, Current PROVE Follows' /\ Current'
  <2>1. /\ Border < Total => Border \in Starts
        /\ Border >= Total => hostLeft = Border - Total
        /\ \A s \in Starts : released <= s /\ s < Total => Adjacent(s)
    BY <1>5, <1>9 DEF Follows
  <2> \A s \in Starts : EndOf(s) \in Nat /\ EndOf(s)' = EndOf(s)
    BY <1>2, <1>4 DEF EndOf
  <2> HIDE DEF c
  <2>2. CASE c > 0
    <3>1. len = c /\ Border' = Border /\ released < Border /\ chunk > 0
      BY <1>1, <1>4, <1>5, <1>7, <2>2
    <3>2. Follows'
      <4>1. ASSUME NEW s \in Starts, Reached' <= s, s < Total PROVE Adjacent(s)'
        <5>1. Adjacent(s)
          BY <1>1, <1>4, <1>7, <2>1, <4>1
        <5> QED
          BY <1>2, <1>6, <3>1, <5>1 DEF Adjacent
      <4> QED
        BY <1>1, <1>2, <1>4, <1>6, <1>7, <2>1, <3>1, <4>1 DEF Follows
    <3>3. PICK b \in Starts : BorderOf(b)
      BY <1>9, <2>2 DEF Current, c
    <3>4. b \in Nat /\ b < released /\ b + starts[b] = Border /\ \A t \in Starts : t <= b \/ released <= t
      BY <1>4, <1>5, <3>3 DEF BorderOf
    <3>5. ASSUME NEW t \in Starts PROVE t <= b \/ released + chunk <= t
      BY <1>1, <1>4, <1>5, <2>1, <3>1, <3>4 DEF Adjacent
    <3>6. ~packet'.first
      BY <1>4, <1>6, <2>2
    <3>7. BorderOf(b)'
      <4>1. b + starts'[b] = Border' /\ b < Reached' /\ b <= released' /\ released' # b
        BY <1>1, <1>2, <1>4, <1>7, <3>1, <3>4
      <4> QED
        BY <1>2, <1>6, <1>7, <1>8, <3>5, <3>6, <4>1 DEF BorderOf, c
    <3>8. Current'
      BY <1>6, <3>1, <3>7 DEF Current
    <3> QED
      BY <3>2, <3>8
  <2>3. CASE c = 0
    <3>1. Border = released /\ released < Total /\ released \in Starts
      BY <1>1, <1>3, <1>4, <1>5, <2>1, <2>3
    <3> DEFINE L == starts[released]
    <3> Adjacent(released) /\ EndOf(released) = released + L
      BY <1>4, <2>1, <3>1 DEF EndOf
    <3>2. len = L /\ Border' = released + L /\ L \in Nat \ {0} /\ chunk > 0
      BY <1>1, <1>4, <1>7, <2>3, <3>1
    <3>3. /\ released + L < Total => released + L \in Starts
          /\ released + L >= Total => hostLeft = released + L - Total
          /\ \A t \in Starts : released < t /\ t < Total => released + L <= t
      BY <1>4, <2>1, <3>1 DEF Adjacent
    <3> HIDE DEF L
    <3>4. ASSUME NEW s \in Starts, released + chunk <= s, s < Total
          PROVE  released <= s /\ released + L <= s
      BY <1>1, <1>4, <3>2, <3>3, <3>4
    <3>5. Follows'
      <4>1. ASSUME NEW s \in Starts, Reached' <= s, s < Total PROVE Adjacent(s)'
        <5>1. released <= s /\ released + L <= s
          BY <1>7, <3>4, <4>1
        <5>2. Adjacent(s)
          BY <2>1, <4>1, <5>1
        <5> QED
          BY <1>2, <1>6, <3>2, <5>1, <5>2 DEF Adjacent
      <4> QED
        BY <1>2, <1>4, <1>6, <1>7, <2>1, <3>2, <3>3, <4>1 DEF Follows
    <3>6. ASSUME NEW t \in Starts PROVE t <= released \/ released + chunk <= t
      BY <1>1, <1>4, <3>2, <3>3
    <3>7. packet'.first
      BY <1>6, <2>3
    <3>8. BorderOf(released)'
      <4>1. released' + starts'[released'] = Border' /\ released' < Reached'
        BY <1>2, <1>4, <1>7, <1>1, <3>2 DEF L
      <4> QED
        BY <1>2, <1>4, <1>6, <1>7, <1>8, <3>6, <3>7, <4>1 DEF BorderOf, c
    <3>9. Current'
      <4>1. released' \in Starts'
        BY <1>2, <1>6, <3>1
      <4> QED
        BY <1>6, <3>2, <3>8, <4>1 DEF Current
    <3> QED
      BY <3>5, <3>9
  <2> QED
    BY <1>4, <2>2, <2>3
<1>10. \A s \in Starts' : s <= Accepted'
  BY <1>4, <1>6
<1>11. readerPc' = "mark" => readSize' > 0
  BY <1>2 DEF Stream
<1>12. Total' <= StreamBound
  BY <1>6 DEF Stream
<1> QED
  BY <1>2, <1>9, <1>10, <1>11, <1>12 DEF Stream

-----------------------------------------------------------------------------
(* The steps. *)

LEMMA InitUsbInv == UsbInit => UsbInv
<1> SUFFICES ASSUME UsbInit PROVE UsbInv
  OBVIOUS
<1>1. Init
  BY DEF UsbInit
<1>2. TypeOK /\ Layout /\ Fresh /\ Pieces
  BY <1>1, InitIInv DEF IInv, InOrder, Pieces
<1>3. shouldExit = FALSE /\ released = 0 /\ readerPc = "off" /\ Accepted = 0
  BY <1>1 DEF Init, Accepted
<1>4. UsbTypeOK
  <2>1. NoPacket \in [ptr : 0 .. BufferSize, len : 0 .. BufferSize, first : BOOLEAN, last : BOOLEAN]
    BY SizesAssumption DEF NoPacket
  <2>2. 0 \in Nat /\ [place \in 0 .. StreamBound |-> 0] \in [0 .. StreamBound -> Nat]
    OBVIOUS
  <2> QED
    BY <1>2, <2>1, <2>2, Zenon DEF UsbInit, UsbTypeOK
<1>5. frame = "none" /\ readerBusy = "free" /\ Starts = {} /\ hostLeft = 0 /\ containerReadLen = 0
  BY DEF UsbInit, Starts
<1>6. Work
  BY <1>5 DEF Work, Delivering
<1>7. Stream
  <2>1. Reached = 0 /\ Total = 0
    BY <1>3, <1>5 DEF Reached, Total, Delivering
  <2>2. Border = 0
    BY <1>5, <2>1 DEF Border
  <2> QED
    BY <1>3, <1>5, <2>1, <2>2, SizesAssumption DEF Stream, Follows, Current, Delivering
<1> QED
  BY <1>2, <1>3, <1>4, <1>6, <1>7 DEF UsbInv, Ring

\* Steps that move no data, end no delivery and leave the stream alone, or lose
\* something that was read.
LEMMA QuietStep ==
    ASSUME UsbInv, Ring', Accepted' = Accepted, shouldExit' = FALSE,
           UNCHANGED <<released, dataStart, dataSize1, view, packet, stale, starts, containerReadLen>>,
           \/ frame' = frame
           \/ frame \in {"deliver", "disabled"} /\ frame' \in {"deliver", "disabled"},
           readerBusy' = readerBusy \/ (readerBusy # "free" /\ readerBusy' = "postponed"),
           \/ readerPc # "mark" /\ readerPc' # "mark"
           \/ readerPc' = readerPc /\ readSize' = readSize,
           endpointsOpen' \in BOOLEAN, readerEnabled' \in BOOLEAN, storageReady' \in BOOLEAN,
           \/ UNCHANGED <<hostLeft, intact>>
           \/ hostLeft' \in Nat /\ intact' = FALSE
    PROVE  UsbInv'
<1> USE DEF UsbInv
<1>1. UsbTypeOK'
  BY DEF UsbTypeOK, Ring
<1>2. Delivering' = Delivering
  BY DEF Delivering
<1>3. Work'
  BY <1>2 DEF Work
<1>4. Total' = Total /\ Reached' = Reached
  <2>1. Reached' = Reached
    BY <1>2 DEF Reached
  <2> QED
    BY <2>1 DEF Total
<1>5. Accepted \in Nat
  BY RingFacts
<1>6. readerPc' = "mark" => readSize' > 0
  BY DEF Stream
<1>7. CASE UNCHANGED <<hostLeft, intact>>
  <2>1. Stream'
    BY <1>2, <1>4, <1>5, <1>6, <1>7, StreamKept
  <2> QED
    BY <1>1, <1>3, <2>1
<1>8. CASE intact' = FALSE
  <2>1. Stream'
    BY <1>8, StreamBroken
  <2> QED
    BY <1>1, <1>3, <2>1
<1> QED
  BY <1>7, <1>8

\* What was read is lost.
LEMMA LostKeeps ==
    ASSUME UsbInv, Ring', Accepted' = Accepted, readerPc' = "off", intact' = FALSE,
           UNCHANGED <<shouldExit, released, dataStart, dataSize1, view, packet, stale, starts,
                       containerReadLen, readerBusy, endpointsOpen, readerEnabled, storageReady, hostLeft>>,
           \/ frame' = frame
           \/ frame \in {"deliver", "disabled"} /\ frame' \in {"deliver", "disabled"}
    PROVE  UsbInv'
<1> USE DEF UsbInv
<1>1. UsbTypeOK'
  BY DEF UsbTypeOK, Ring
<1>2. Work'
  BY DEF Work, Delivering
<1>3. Stream'
  BY StreamBroken
<1> QED
  BY <1>1, <1>2, <1>3

\* What was read joins the data.
LEMMA MarkedKeeps ==
    ASSUME UsbInv, readerPc = "mark", readerPc' \in {"emit", "off"}, OffsetAtPieceEnd,
           UNCHANGED <<offset, readSize, buffer, dataStart, view, mainPc, shouldExit, released, undercut>>,
           dataSize1' = IF offset = dataStart + dataSize1 THEN dataSize1 + readSize ELSE dataSize1,
           dataSize2' = IF offset # dataStart + dataSize1 /\ offset = dataSize2
                        THEN dataSize2 + readSize ELSE dataSize2,
           dataReady' \in Nat,
           UNCHANGED <<packet, stale, starts, containerReadLen, readerBusy, endpointsOpen, readerEnabled,
                       storageReady, hostLeft>>,
           intact' = (intact /\ OffsetAtPieceEnd),
           \/ frame' = frame
           \/ frame \in {"deliver", "disabled"} /\ frame' \in {"deliver", "disabled"}
    PROVE  UsbInv'
<1> USE DEF UsbInv
<1>1. Ring' /\ Accepted' = Accepted + readSize
  BY RingMark
<1>2. Delivering' = Delivering /\ intact' = intact
  BY DEF Delivering, UsbTypeOK
<1>3. UsbTypeOK'
  BY <1>1, <1>2 DEF UsbTypeOK, Ring
<1>4. dataSize1 <= dataSize1'
  BY RingFacts
<1>5. Work'
  BY <1>2, <1>4, RingFacts DEF Work, Views
<1>6. Total' = Total /\ Reached' = Reached /\ Accepted' \in Nat /\ Accepted <= Accepted'
  <2>1. Total' = Accepted' /\ Total = Accepted + readSize
    BY <1>1, RingFacts DEF Total
  <2>2. Reached' = Reached
    BY <1>2 DEF Reached
  <2> QED
    BY <1>1, <2>1, <2>2, RingFacts
<1>7. Stream'
  BY <1>2, <1>6, StreamKept
<1> QED
  BY <1>1, <1>3, <1>5, <1>7

\* Acquire, ReadFails, EmitDataReady, and what only starts the thread.
LEMMA ReaderStepKeeps ==
    ASSUME UsbInv, ReaderThread PROVE UsbInv'
<1> USE DEF UsbInv
<1>1. UsbTypeOK /\ Ring /\ Work /\ Stream
  OBVIOUS
<1>2. CASE \E left \in ToSend : HostSends(left)
  <2>0. PICK left \in ToSend : HostSends(left)
    BY <1>2
  <2>1. ReadDone(ReadOf(left)) /\ ReadOf(left) \in 0 .. MaxDataIn /\ hostLeft' \in Nat
    BY <2>0, ReadSizes DEF HostSends
  <2>2. Ring'
    BY <2>1, RingRead
  <2>3. Stream'
    BY <2>0, StreamRead
  <2>4. /\ UNCHANGED <<dataStart, dataSize1, view, shouldExit, intact>> /\ UNCHANGED usbVars
    BY <2>0, <2>1 DEF HostSends, ReadDone, indices, mainVars
  <2>5. starts' \in [0 .. StreamBound -> Nat]
    <3>1. left \in Nat /\ 0 \in Nat /\ starts \in [0 .. StreamBound -> Nat]
      BY ReadSizes DEF UsbTypeOK
    <3> QED
      BY <2>0, <3>1 DEF HostSends
  <2>6. UsbTypeOK' /\ Work'
    BY <2>1, <2>2, <2>4, <2>5 DEF UsbTypeOK, Ring, Work, Delivering, usbVars
  <2> QED
    BY <2>2, <2>3, <2>4, <2>6
<1>3. CASE UNCHANGED <<usbVars, hostVars>> /\ (Acquire \/ (\E retry \in BOOLEAN : ReadFails(retry)) \/ EmitDataReady)
  <2>1. /\ UNCHANGED <<released, dataStart, dataSize1, dataSize2, view, shouldExit, mainPc, readSize, buffer>>
        /\ readerPc # "mark" /\ readerPc' # "mark"
    BY <1>3 DEF Acquire, ReadFails, EmitDataReady, indices, mainVars
  <2>2. Ring' /\ Accepted' = Accepted
    <3>1. CASE Acquire
      BY <3>1, RingAcquire
    <3>2. CASE (\E retry \in BOOLEAN : ReadFails(retry)) \/ EmitDataReady
      <4>1. /\ UNCHANGED <<offset, undercut>> /\ readerPc' \in {"off", "acquire"} /\ dataReady' \in Nat /\ view' \in Views
        BY <2>1, <3>2, RingFacts DEF ReadFails, EmitDataReady
      <4> QED
        BY <2>1, <4>1, RingSame
    <3> QED
      BY <1>3, <3>1, <3>2
  <2>3. endpointsOpen \in BOOLEAN /\ readerEnabled \in BOOLEAN /\ storageReady \in BOOLEAN
    BY DEF UsbTypeOK
  <2>4. UNCHANGED <<packet, stale, starts, containerReadLen, frame, readerBusy, endpointsOpen,
                    readerEnabled, storageReady, hostLeft, intact>>
    BY <1>3 DEF usbVars, hostVars
  <2> QED
    BY <2>1, <2>2, <2>3, <2>4, QuietStep
<1>4. CASE ReadMarked
  <2>1. /\ readerPc = "mark" /\ readerPc' = (IF OffsetAtPieceEnd THEN "emit" ELSE "off")
        /\ UNCHANGED <<offset, readSize, buffer, dataStart, dataReady, view, mainPc, shouldExit, released,
                       undercut>>
        /\ dataSize1' = IF offset = dataStart + dataSize1 THEN dataSize1 + readSize ELSE dataSize1
        /\ dataSize2' = IF offset # dataStart + dataSize1 /\ offset = dataSize2
                        THEN dataSize2 + readSize ELSE dataSize2
        /\ intact' = (intact /\ OffsetAtPieceEnd)
    BY <1>4 DEF ReadMarked, MarkNewData, mainVars
  <2>2. /\ UNCHANGED <<packet, stale, starts, containerReadLen, frame, readerBusy, endpointsOpen,
                       readerEnabled, storageReady, hostLeft>>
        /\ Delivering' = Delivering
    BY <1>4 DEF ReadMarked, usbVars, Delivering
  <2>3. endpointsOpen \in BOOLEAN /\ readerEnabled \in BOOLEAN /\ storageReady \in BOOLEAN
    BY DEF UsbTypeOK
  <2>4. CASE OffsetAtPieceEnd
    BY <2>1, <2>2, <2>4, MarkedKeeps, RingFacts
  <2>5. CASE ~OffsetAtPieceEnd
    <3>1. UNCHANGED <<dataSize1, dataSize2>> /\ readerPc' = "off"
      BY <2>1, <2>5 DEF OffsetAtPieceEnd
    <3>2. Ring' /\ Accepted' = Accepted
      BY <2>1, <3>1, RingSame, RingFacts
    <3> QED
      BY <2>1, <2>2, <2>5, <3>1, <3>2, LostKeeps
  <2> QED
    BY <2>4, <2>5
<1> QED
  <2>1. TRUE \in BOOLEAN /\ FALSE \in BOOLEAN
    OBVIOUS
  <2> QED
    BY <1>2, <1>3, <1>4, <2>1 DEF ReaderThread

\* handleDataReady, at once or postponed, and the end of processReceivedData():
\* the view is fetched or given up.
LEMMA ViewFetched ==
    ASSUME UsbInv, GetData, UNCHANGED <<readerVars, released, undercut, mainPc, shouldExit>>,
           dataReady' \in Nat,
           UNCHANGED <<endpointsOpen, readerEnabled, storageReady, containerReadLen, packet, hostVars>>,
           frame \in {"none", "next"}, frame' = "next", stale' = FALSE, readerBusy' = "busy"
    PROVE  UsbInv'
<1> USE DEF UsbInv
<1>1. SwitchPieces(dataStart, dataSize1, dataSize2)
  BY DEF GetData
<1>2. /\ dataStart \in 0 .. BufferSize /\ dataSize1 \in 0 .. BufferSize /\ dataSize2 \in 0 .. BufferSize
      /\ BufferSize \in Nat
  BY SizesAssumption DEF UsbTypeOK, TypeOK
<1>3. dataStart' \in 0 .. BufferSize /\ dataSize1' \in 0 .. BufferSize
  BY <1>1, <1>2 DEF SwitchPieces
<1>4. /\ view' \in Views /\ view'.len = dataSize1'
      /\ view'.len > 0 => view'.ptr = dataStart'
  BY <1>2, <1>3 DEF GetData, Views
<1>5. Ring' /\ Accepted' = Accepted
  <2>1. 0 \in 0 .. dataSize1 /\ released' = released + 0
        /\ SwitchPieces(dataStart + 0, dataSize1 - 0, dataSize2)
    <3>1. dataStart + 0 = dataStart /\ dataSize1 - 0 = dataSize1 /\ released + 0 = released
      BY RingFacts
    <3> QED
      BY <1>1, <1>2, <3>1
  <2>2. UNCHANGED <<offset, readSize, buffer, readerPc>>
    BY DEF readerVars
  <2> QED
    BY <1>4, <2>1, <2>2, RingSwitch
<1>6. UsbTypeOK'
  BY <1>5 DEF UsbTypeOK, Ring, hostVars
<1>7. ~Delivering /\ ~Delivering'
  BY DEF Delivering
<1>8. Work'
  BY <1>3, <1>4, <1>7 DEF Work
<1>9. Total' = Total /\ Reached' = Reached
  BY <1>5, <1>7 DEF Total, Reached, readerVars
<1>10. Stream'
  <2>1. readerPc' = "mark" => readSize' > 0
    BY DEF Stream, readerVars
  <2> QED
    BY <1>5, <1>7, <1>9, <2>1, StreamKept, RingFacts DEF hostVars
<1> QED
  BY <1>5, <1>6, <1>8, <1>10

LEMMA DataStepKeeps ==
    ASSUME UsbInv, HandleReady \/ EndOfData PROVE UsbInv'
<1> USE DEF UsbInv
<1>1. dataReady \in Nat /\ view \in Views
  BY RingFacts
<1>2. CASE HandleReady /\ readerBusy # "free"
  <2>1. /\ UNCHANGED <<readerPc, offset, readSize, buffer, dataStart, dataSize1, dataSize2, view, released,
                       undercut, mainPc, shouldExit>>
        /\ dataReady' \in Nat /\ readerBusy' = "postponed"
        /\ UNCHANGED <<frame, stale, packet, starts, containerReadLen, endpointsOpen, readerEnabled,
                       storageReady, hostLeft, intact>>
    BY <1>1, <1>2 DEF HandleReady, readerVars, indices, hostVars
  <2>2. Ring' /\ Accepted' = Accepted
    BY <1>1, <2>1, RingSame
  <2>3. endpointsOpen \in BOOLEAN /\ readerEnabled \in BOOLEAN /\ storageReady \in BOOLEAN
    BY DEF UsbTypeOK
  <2> QED
    BY <1>2, <2>1, <2>2, <2>3, QuietStep
<1>3. CASE HandleReady /\ readerBusy = "free"
  <2>1. frame = "none" /\ dataReady' \in Nat
    BY <1>1, <1>3 DEF HandleReady, Work
  <2> QED
    BY <1>3, <2>1, ViewFetched DEF HandleReady
<1>4. CASE EndOfData /\ readerBusy = "postponed"
  <2>1. dataReady' \in Nat
    BY <1>1, <1>4 DEF EndOfData
  <2> QED
    BY <1>4, <2>1, ViewFetched DEF EndOfData
<1>5. CASE EndOfData /\ readerBusy # "postponed"
  <2>1. /\ frame = "next" /\ frame' = "none" /\ readerBusy' = "free" /\ stale' = FALSE
        /\ view' \in Views /\ dataReady' \in Nat
        /\ UNCHANGED <<readerPc, offset, readSize, buffer, dataStart, dataSize1, dataSize2, released,
                       undercut, mainPc, shouldExit, packet, containerReadLen, starts, hostLeft, intact, endpointsOpen,
                       readerEnabled, storageReady>>
    <3>1. view' \in Views /\ dataReady' \in Nat
      BY <1>1, <1>5, SizesAssumption DEF EndOfData, NoView, Views
    <3> QED
      BY <1>5, <3>1 DEF EndOfData, readerVars, indices, hostVars
  <2>2. Ring' /\ Accepted' = Accepted
    BY <2>1, RingSame
  <2>3. UsbTypeOK'
    BY <2>1, <2>2 DEF UsbTypeOK, Ring
  <2>4. ~Delivering /\ ~Delivering'
    BY <2>1 DEF Delivering
  <2>5. Work'
    BY <2>1, <2>4 DEF Work
  <2>6. Total' = Total /\ Reached' = Reached
    BY <2>1, <2>2, <2>4 DEF Total, Reached
  <2>7. Stream'
    <3>1. readerPc' = "mark" => readSize' > 0
      BY <2>1 DEF Stream
    <3> QED
      BY <2>1, <2>2, <2>4, <2>6, <3>1, StreamKept, RingFacts
  <2> QED
    BY <2>1, <2>2, <2>3, <2>5, <2>7
<1> QED
  BY <1>2, <1>3, <1>4, <1>5

LEMMA DeliverKeeps ==
    ASSUME UsbInv, Deliver PROVE UsbInv'
<1> USE DEF UsbInv
<1>1. /\ UNCHANGED <<readerPc, offset, readSize, buffer, dataStart, dataSize1, dataSize2, released,
                     undercut, mainPc, shouldExit, dataReady, view>>
      /\ UNCHANGED <<endpointsOpen, readerEnabled, storageReady, readerBusy, stale, starts, hostLeft, intact>>
      /\ frame = "next" /\ frame' = "deliver" /\ ~stale /\ view.len > 0
  BY DEF Deliver, vars, readerVars, indices, mainVars, hostVars
<1>2. Ring'
  BY <1>1, RingSame, RingFacts
<1>3. PICK len \in Nat, chunk \in 0 .. view.len :
        /\ chunk <= len /\ containerReadLen' = len - chunk
        /\ packet' = [ptr |-> view.ptr, len |-> chunk,
                      first |-> containerReadLen = 0, last |-> len = chunk]
  BY DeliverResult
<1>4. view.ptr \in 0 .. BufferSize /\ view.len \in 0 .. BufferSize /\ BufferSize \in Nat
  BY RingFacts DEF Views
<1>5. UsbTypeOK'
  <2>1. containerReadLen' \in Nat
    BY <1>3, <1>4
  <2>2. chunk \in 0 .. BufferSize /\ (containerReadLen = 0) \in BOOLEAN /\ (len = chunk) \in BOOLEAN
    BY <1>4
  <2>3. packet' \in [ptr : 0 .. BufferSize, len : 0 .. BufferSize, first : BOOLEAN, last : BOOLEAN]
    BY <1>3, <1>4, <2>2, Zenon
  <2> QED
    BY <1>1, <1>2, <2>1, <2>3 DEF UsbTypeOK, Ring
<1>6. Work'
  <2>1. packet'.ptr = view.ptr /\ packet'.len = chunk
    BY <1>3
  <2> QED
    BY <1>1, <2>1 DEF Work
<1> QED
  BY <1>1, <1>2, <1>5, <1>6, StreamDeliver

\* The packet is released when dataReceived() returns.
LEMMA DeliveredKeeps ==
    ASSUME UsbInv, Delivered PROVE UsbInv'
<1> USE DEF UsbInv
<1>1. /\ UNCHANGED <<offset, readSize, buffer, dataReady, mainPc, shouldExit, undercut>>
      /\ UNCHANGED <<endpointsOpen, readerEnabled, storageReady, readerBusy, containerReadLen, stale,
                     starts, hostLeft, intact>>
      /\ frame = "deliver" /\ frame' = "next" /\ packet' = NoPacket
  BY DEF Delivered, hostVars
<1>2. NoPacket \in [ptr : 0 .. BufferSize, len : 0 .. BufferSize, first : BOOLEAN, last : BOOLEAN]
  BY SizesAssumption DEF NoPacket
<1>3. ~Delivering'
  BY <1>1 DEF Delivering
<1>4. CASE stale
  <2>1. UNCHANGED <<view, dataStart, dataSize1, dataSize2, readerPc, released>> /\ ~Delivering
    BY <1>4 DEF Delivered, indices, Delivering
  <2>2. Ring' /\ Accepted' = Accepted
    BY <1>1, <2>1, RingSame, RingFacts
  <2>3. UsbTypeOK' /\ Work'
    BY <1>1, <1>2, <1>3, <1>4, <2>2 DEF UsbTypeOK, Work, Ring
  <2>4. Total' = Total /\ Reached' = Reached
    BY <1>1, <1>3, <2>1, <2>2 DEF Total, Reached
  <2>5. Stream'
    <3>1. readerPc' = "mark" => readSize' > 0
      BY <1>1, <2>1 DEF Stream
    <3> QED
      BY <1>1, <1>3, <2>2, <2>4, <3>1, StreamKept, RingFacts
  <2> QED
    BY <1>1, <2>2, <2>3, <2>5
<1>5. CASE ~stale
  <2> DEFINE n == packet.len
  <2>1. /\ SwitchPieces(dataStart + n, dataSize1 - n, dataSize2)
        /\ readerPc' = readerPc \/ (readerPc = "wait" /\ readerPc' = "acquire")
        /\ released' = released + n
        /\ view' = [ptr |-> view.ptr + n, len |-> view.len - n]
    BY <1>5, <1>1 DEF Delivered, ReleaseData, WakeReader
  <2>2. Delivering
    BY <1>1, <1>5 DEF Delivering
  <2>3. /\ packet.ptr = view.ptr /\ n \in 0 .. view.len /\ (view.len > 0 => view.ptr = dataStart /\ view.len <= dataSize1)
        /\ n \in 0 .. dataSize1
    BY <1>1, <1>5, <2>2, RingFacts DEF Work, Views
  <2>4. view' \in Views /\ view'.ptr = dataStart + n /\ view'.len = view.len - n
    <3>1. /\ view.ptr = dataStart /\ view.len \in Nat /\ n \in Nat /\ n <= view.len
          /\ view.len <= dataSize1 /\ dataStart \in Nat /\ dataStart + dataSize1 <= BufferSize
          /\ dataSize1 \in Nat /\ BufferSize \in Nat
      BY <2>2, <2>3, RingFacts DEF Work, Views
    <3>2. view.ptr + n \in 0 .. BufferSize /\ view.len - n \in 0 .. BufferSize
      BY <3>1
    <3>3. view' \in Views /\ view'.ptr = view.ptr + n /\ view'.len = view.len - n
      BY <2>1, <3>2 DEF Views
    <3> QED
      BY <3>1, <3>3
  <2> HIDE DEF n
  <2>5. /\ Ring' /\ Accepted' = Accepted
        /\ dataSize1 > n => dataStart' = dataStart + n /\ dataSize1' = dataSize1 - n
        /\ dataSize1' \in 0 .. BufferSize
    BY <1>1, <2>1, <2>3, <2>4, RingSwitch, RingFacts
  <2>6. view'.len > 0 => view'.ptr = dataStart' /\ view'.len <= dataSize1'
    BY <2>3, <2>4, <2>5, RingFacts DEF Views
  <2>7. view'.len <= dataSize1'
    BY <2>3, <2>4, <2>5, <2>6, RingFacts DEF Views
  <2>8. UsbTypeOK' /\ Work'
    BY <1>1, <1>2, <1>3, <2>5, <2>6, <2>7 DEF UsbTypeOK, Work, Ring
  <2>9. Total' = Total /\ Reached' = Reached
    <3>1. readerPc' = "mark" <=> readerPc = "mark"
      BY <2>1
    <3>2. Reached' = released' /\ Reached = released + n
      BY <1>3, <2>1, <2>2, <2>3, RingFacts DEF Reached, n
    <3> QED
      BY <1>1, <2>1, <2>5, <3>1, <3>2 DEF Total
  <2>10. Stream'
    <3>1. readerPc' = "mark" => readSize' > 0
      BY <1>1, <2>1 DEF Stream
    <3> QED
      BY <1>1, <1>3, <2>5, <2>9, <3>1, StreamKept, RingFacts
  <2> QED
    BY <1>1, <2>5, <2>8, <2>10
<1> QED
  BY <1>4, <1>5

\* Events that start the reader at most.
LEMMA StartKeeps ==
    ASSUME UsbInv, StartRead \/ OpenDevices \/ OnStorageReady \/ EnableRW PROVE UsbInv'
<1> USE DEF UsbInv
<1>1. /\ UNCHANGED <<offset, readSize, buffer, dataStart, dataSize1, dataSize2, released, undercut, view,
                     mainPc, shouldExit, dataReady>>
      /\ UNCHANGED <<packet, stale, starts, containerReadLen, readerBusy, hostLeft, intact>>
      /\ \/ readerPc' = readerPc
         \/ readerPc = "off" /\ readerPc' = "acquire"
      /\ \/ frame' = frame
         \/ frame = "disabled" /\ frame' = "deliver"
  BY DEF StartRead, OpenDevices, OnStorageReady, EnableRW, Rethink, indices, mainVars, hostVars
<1>2. endpointsOpen' \in BOOLEAN /\ readerEnabled' \in BOOLEAN /\ storageReady' \in BOOLEAN
  BY DEF UsbTypeOK, StartRead, OpenDevices, OnStorageReady, EnableRW
<1>3. Ring' /\ Accepted' = Accepted
  BY <1>1, RingSame, RingFacts
<1> QED
  BY <1>1, <1>2, <1>3, QuietStep

\* A reader that is told to exit adds what it has read, or drops it.
LEMMA DisableKeeps ==
    ASSUME UsbInv, DisableRW PROVE UsbInv'
<1> USE DEF UsbInv
<1>1. /\ UNCHANGED <<offset, readSize, buffer, dataStart, released, undercut, view, mainPc, shouldExit>>
      /\ UNCHANGED <<packet, stale, starts, containerReadLen, readerBusy, endpointsOpen, readerEnabled,
                     storageReady>>
      /\ readerPc' = "off" /\ dataReady' \in Nat
      /\ frame = "deliver" /\ frame' = "disabled"
  <2>1. dataReady' \in Nat
    BY RingFacts DEF DisableRW, ExitReader, SignalOnExit
  <2> QED
    BY <2>1 DEF DisableRW, ExitReader, mainVars
<1>2. endpointsOpen \in BOOLEAN /\ readerEnabled \in BOOLEAN /\ storageReady \in BOOLEAN
  BY DEF UsbTypeOK
<1>3. CASE readerPc = "mark"
  <2>1. /\ dataSize1' = IF offset = dataStart + dataSize1 THEN dataSize1 + readSize ELSE dataSize1
        /\ dataSize2' = IF offset # dataStart + dataSize1 /\ offset = dataSize2
                        THEN dataSize2 + readSize ELSE dataSize2
        /\ hostLeft' = hostLeft /\ intact' = (intact /\ OffsetAtPieceEnd)
    BY <1>3 DEF DisableRW, ExitReader
  <2>2. CASE OffsetAtPieceEnd
    BY <1>1, <1>3, <2>1, <2>2, MarkedKeeps
  <2>3. CASE ~OffsetAtPieceEnd
    <3>1. UNCHANGED <<dataSize1, dataSize2>>
      BY <2>1, <2>3 DEF OffsetAtPieceEnd
    <3>2. Ring' /\ Accepted' = Accepted
      BY <1>1, <3>1, RingSame, RingFacts
    <3> QED
      BY <1>1, <2>1, <2>3, <3>1, <3>2, LostKeeps
  <2> QED
    BY <2>2, <2>3
<1>4. CASE readerPc # "mark"
  <2>1. /\ UNCHANGED <<dataSize1, dataSize2>>
        /\ \/ UNCHANGED <<hostLeft, intact>>
           \/ (\E left \in ToSend : hostLeft' = left - ReadOf(left)) /\ intact' = FALSE
    BY <1>4 DEF DisableRW, ExitReader
  <2>2. Ring' /\ Accepted' = Accepted
    BY <1>1, <2>1, RingSame, RingFacts
  <2>3. UNCHANGED <<hostLeft, intact>> \/ (hostLeft' \in Nat /\ intact' = FALSE)
    BY <2>1, ReadSizes
  <2> QED
    BY <1>1, <1>2, <1>4, <2>1, <2>2, <2>3, QuietStep
<1> QED
  BY <1>3, <1>4

\* The data is discarded, under a delivery too: its packet is no longer looked
\* at.  The reader may be anywhere.
LEMMA ResetStepKeeps ==
    ASSUME UsbInv, StopRead \/ CloseDevices \/ ResetTransport PROVE UsbInv'
<1> USE DEF UsbInv
<1>1. /\ ResetData /\ UNCHANGED <<offset, readSize, buffer, view, mainPc, shouldExit>>
      /\ containerReadLen' = 0 /\ stale' = (frame # "none")
      /\ UNCHANGED <<packet, frame, readerBusy, starts>>
  BY DEF StopRead, CloseDevices, ResetTransport, DropContainer, readerVars, mainVars
<1>2. readerPc' = readerPc \/ readerPc' \in {"off", "acquire"}
  BY DEF StopRead, CloseDevices, ResetTransport, Rethink, readerVars
<1>3. dataReady' \in Nat
  <2>1. dataReady' \in {dataReady, dataReady + 1}
    BY DEF StopRead, CloseDevices, ResetTransport, SignalOnExit
  <2>2. dataReady \in Nat
    BY RingFacts
  <2> QED
    BY <2>1, <2>2
<1>4. /\ endpointsOpen' \in BOOLEAN /\ readerEnabled' \in BOOLEAN /\ storageReady' \in BOOLEAN
      /\ intact' \in BOOLEAN
  BY DEF UsbTypeOK, StopRead, CloseDevices, ResetTransport
<1>5. intact' => hostLeft' = 0 /\ readerPc' # "mark"
  BY DEF StopRead, CloseDevices, ResetTransport, Rethink, readerVars
<1>6. hostLeft' \in Nat
  <2>1. hostLeft' \in {0, hostLeft}
    BY DEF StopRead, CloseDevices, ResetTransport
  <2>2. hostLeft \in Nat
    BY DEF UsbTypeOK
  <2> QED
    BY <2>1, <2>2
<1>7. Ring' /\ Accepted' = Accepted /\ released' = Accepted
  BY <1>1, <1>2, <1>3, RingReset
<1>8. UsbTypeOK'
  <2>1. containerReadLen' \in Nat /\ stale' \in BOOLEAN
    BY <1>1
  <2> QED
    BY <1>1, <1>4, <1>6, <1>7, <2>1 DEF UsbTypeOK, Ring
<1>9. ~Delivering'
  BY <1>1 DEF Delivering
<1>10. Work'
  BY <1>1, <1>9 DEF Work
<1>11. Stream'
  <2>1. readerPc' = readerPc \/ readerPc' # "mark"
    BY <1>2
  <2> QED
    BY <1>1, <1>4, <1>5, <1>7, <1>9, <2>1, StreamEmptied
<1> QED
  BY <1>1, <1>7, <1>8, <1>10, <1>11

LEMMA NextUsbInv ==
    ASSUME UsbInv, [UsbNext]_allVars PROVE UsbInv'
<1>1. CASE ReaderThread
  BY <1>1, ReaderStepKeeps
<1>2. CASE MainThread
  BY <1>2, DataStepKeeps, DeliverKeeps, DeliveredKeeps, StartKeeps, DisableKeeps, ResetStepKeeps
     DEF MainThread
<1>3. CASE UNCHANGED allVars
  <2> USE <1>3 DEF UsbInv, allVars, vars, usbVars, hostVars, readerVars, indices, mainVars
  <2>1. Ring' /\ Accepted' = Accepted
    BY RingSame, RingFacts
  <2>2. endpointsOpen \in BOOLEAN /\ readerEnabled \in BOOLEAN /\ storageReady \in BOOLEAN
    BY DEF UsbTypeOK
  <2> QED
    BY <2>1, <2>2, QuietStep
<1> QED
  BY <1>1, <1>2, <1>3 DEF UsbNext

-----------------------------------------------------------------------------
(* The theorems. *)

\* The inductive invariant, also when DISABLE and SUSPEND discard the data of a
\* reader that runs or waits.
THEOREM ReceiverInvariance == UsbSpec => []UsbInv
<1>1. UsbInv /\ [UsbNext]_allVars => UsbInv'
  BY NextUsbInv
<1> QED
  BY <1>1, InitUsbInv, PTL DEF UsbSpec

\* All variables of the receive path keep their types: no piece, view or packet
\* leaves the buffer.
THEOREM ReceiverTypes == UsbSpec => []UsbTypeOK
<1>1. UsbInv => UsbTypeOK
  BY DEF UsbInv
<1> QED
  BY <1>1, ReceiverInvariance, PTL

LEMMA PacketWhere ==
    ASSUME UsbInv, Delivering
    PROVE  /\ packet.ptr = dataStart /\ packet.len <= dataSize1 /\ packet.len \in Nat
           /\ \A k \in 0 .. packet.len - 1 : buffer[packet.ptr + k] = released + k
           /\ packet.len > 0 => buffer[packet.ptr] = released
<1>1. Ring /\ Work /\ frame # "none" /\ ~stale
  BY DEF UsbInv, Delivering
<1>2. packet.ptr = dataStart /\ packet.len <= dataSize1 /\ packet.len \in Nat
  BY <1>1, RingFacts DEF Work, Views
<1>3. \A i \in 0 .. dataSize1 - 1 : buffer[dataStart + i] = released + i
  BY <1>1 DEF Ring, Pieces
<1>4. \A k \in 0 .. packet.len - 1 : buffer[packet.ptr + k] = released + k
  BY <1>1, <1>2, <1>3, RingFacts
<1>5. packet.len > 0 => buffer[packet.ptr + 0] = released + 0
  BY <1>2, <1>4
<1> QED
  BY <1>1, <1>2, <1>4, <1>5, RingFacts

\* What the responder works on is neither moved nor overwritten under it,
\* whatever is in the headers and whenever the data is discarded.
THEOREM PacketIsSafe == UsbSpec => []PacketIsOldestData
<1>1. UsbInv => PacketIsOldestData
  BY PacketWhere DEF PacketIsOldestData
<1> QED
  BY <1>1, ReceiverInvariance, PTL

\* Packets are not empty, and marked first and last exactly where containers
\* begin and end, while nothing was dropped of a container that goes on.
THEOREM ContainersFramed == UsbSpec => []Framing
<1>1. UsbInv => Framing
  <2> SUFFICES ASSUME UsbInv, Delivering, intact
               PROVE  /\ packet.len > 0
                      /\ packet.first <=> released \in Starts
                      /\ packet.last <=> \E s \in Starts :
                           BeganAt(released, s) /\ released + packet.len = s + starts[s]
    BY PacketWhere DEF Framing
  <2>1. UsbTypeOK /\ Ring /\ Work /\ Stream /\ Current
    BY DEF UsbInv, Stream
  <2>2. PICK b \in Starts : BorderOf(b)
    BY <2>1 DEF Current
  <2>3. /\ packet.len \in Nat /\ packet.len > 0 /\ released \in Nat
        /\ Reached = released + packet.len
        /\ containerReadLen \in Nat /\ Border = Reached + containerReadLen
        /\ \A t \in Starts : t \in Nat /\ starts[t] \in Nat
    <3>1. packet.len > 0 /\ Reached = released + packet.len
      BY <2>1 DEF Current, Reached
    <3> QED
      BY <2>1, <3>1, RingFacts, StreamFacts
  <2>4. /\ b + starts[b] = Border /\ b <= released
        /\ \A t \in Starts : t <= b \/ Reached <= t
        /\ packet.first <=> released = b
        /\ packet.last <=> containerReadLen = 0
    BY <2>2 DEF BorderOf
  <2>5. packet.first <=> released \in Starts
    <3>1. released \in Starts => released = b
      BY <2>2, <2>3, <2>4
    <3> QED
      BY <2>2, <2>4, <3>1
  <2>6. BeganAt(released, b)
    BY <2>2, <2>3, <2>4 DEF BeganAt
  <2>7. ASSUME NEW s \in Starts, BeganAt(released, s) PROVE s = b
    BY <2>2, <2>3, <2>4, <2>7 DEF BeganAt
  <2>8. containerReadLen = 0 <=> released + packet.len = b + starts[b]
    BY <2>2, <2>3, <2>4
  <2> QED
    BY <2>2, <2>3, <2>4, <2>5, <2>6, <2>7, <2>8
<1> QED
  BY <1>1, ReceiverInvariance, PTL

=============================================================================
