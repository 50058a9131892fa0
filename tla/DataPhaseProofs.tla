---------------------------- MODULE DataPhaseProofs ----------------------------
(***************************************************************************)
(* Proofs about DataPhase: a transfer of an object is whole, for all sizes *)
(* of packets, writes, buffers and files.                                  *)
(*                                                                         *)
(* DInv follows the bytes of a file from readData() to the host: between   *)
(* two writes the host has everything that was read (BetweenWrites), in    *)
(* the middle of one it has a prefix and the writer thread the rest        *)
(* (DuringWrite).  That only the last packet of a transfer is short needs  *)
(* arithmetic modulo PacketSize: buffers that are not the last, and the    *)
(* sizes writes are cut to, are multiples of it.                           *)
(***************************************************************************)
EXTENDS DataPhase, SequenceTheorems, FiniteSetTheorems, WellFoundedInduction, TLAPS

\* The sizes of writes there can be
WriteSizes ==
    CHOOSE sizes \in SUBSET (1 .. WriteMax) :
        /\ WriteMax \in sizes
        /\ \A n \in sizes : n % PacketSize = 0 /\ (n > PacketSize => n \div 2 \in sizes)

Octets == Nat \X Nat
Gets == {"GetObject", "GetPartialObject", "GetPartialObject64"}

-----------------------------------------------------------------------------
(* The inductive invariant. *)

\* The part of the file that was asked for, and how far it has been read
Span ==
    /\ req.offs \in Nat /\ req.size \in Nat /\ req.known \in Nat /\ req.offs <= req.known
    /\ sender \in [begun : BOOLEAN, now : Nat, end : Nat, sent : Nat]
    /\ sender.end = Least(req.offs + req.size, req.known)
    /\ sender.now \in req.offs .. sender.end
    /\ sender.sent = sender.now - req.offs
    /\ ~sender.begun => sender.now = req.offs

\* The handler that is running belongs to the request.
Kinds ==
    /\ file \in FileSizes /\ writeMax \in WriteSizes
    /\ "op" \in DOMAIN req
    /\ {"data", "zero", "for"} \subseteq DOMAIN writer
    /\ phase = "segment" => req.op \in Gets
    /\ phase \in {"fill", "receive", "read"} => req.op \notin Gets
    /\ phase = "write" => (writer.for = "list" <=> req.op \notin Gets)
    /\ phase \in {"segment", "write"} /\ req.op \in Gets => Span
    /\ answer # <<>> => phase = "idle"

\* What has been given to the writer since the request began
Whole == sender.end - req.offs
Length == IF Whole > MaxContent THEN Sentinel ELSE HeaderSize + Whole
Told == Bytes(HeaderSize, <<Length>>) \o Content(req.offs, sender.sent)

\* Between two writes the host has all of it, and a transfer if it was the last.
BetweenWrites ==
    phase = "segment" /\ ~broken =>
        IF ~sender.begun THEN incoming = <<>> /\ transfers = <<>>
        ELSE IF Remaining > 0 THEN incoming = Told /\ transfers = <<>>
        ELSE incoming = <<>> /\ transfers = <<Told>>

\* During a write the host has the beginning of it, and the writer the rest;
\* only the last one ends with a packet that is not full, or empty.
DuringWrite ==
    phase = "write" /\ req.op \in Gets /\ ~broken =>
        /\ sender.begun
        /\ writer.data \in Seq(Octets) /\ writer.zero \in BOOLEAN /\ incoming \in Seq(Octets)
        /\ IF transfers = <<>>
           THEN /\ incoming \o writer.data = Told
                /\ writer.zero <=> Remaining = 0 /\ Len(writer.data) % PacketSize = 0
                /\ Remaining > 0 => Len(writer.data) % PacketSize = 0
           ELSE /\ transfers = <<Told>> /\ incoming = <<>>
                /\ writer.data = <<>> /\ ~writer.zero /\ Remaining = 0

DInv == Kinds /\ BetweenWrites /\ DuringWrite /\ TransferWhole

-----------------------------------------------------------------------------
(* The assumptions, one by one. *)

LEMMA Constants ==
    /\ PacketSize \in Nat \ {0} /\ HeaderSize \in Nat \ {0} /\ BufferMax \in Nat /\ MaxContent \in Nat
    /\ BufferMax % PacketSize = 0 /\ BufferMax > HeaderSize
    /\ FileSizes \subseteq Nat /\ Offsets \subseteq Nat /\ Sizes \subseteq Nat
BY ContainersAssumption, DataPhaseAssumption

\* A size of writes is a whole number of packets, and stays one when it is halved.
LEMMA WriteSizesWhole ==
    /\ WriteSizes \subseteq Nat \ {0} /\ WriteMax \in WriteSizes
    /\ \A n \in WriteSizes : n % PacketSize = 0 /\ (n > PacketSize => n \div 2 \in WriteSizes)
<1> DEFINE Chosen(sizes) == /\ WriteMax \in sizes
                            /\ \A n \in sizes : n % PacketSize = 0 /\ (n > PacketSize => n \div 2 \in sizes)
<1>1. \E sizes \in SUBSET (1 .. WriteMax) : Chosen(sizes)
  BY DataPhaseAssumption
<1>2. WriteSizes \in SUBSET (1 .. WriteMax) /\ Chosen(WriteSizes)
  BY <1>1 DEF WriteSizes
<1>3. WriteMax \in Nat
  BY DataPhaseAssumption
<1> QED
  BY <1>2, <1>3

-----------------------------------------------------------------------------
(* Whole numbers of packets. *)

LEMMA Divided ==
    ASSUME NEW p \in Nat \ {0}, NEW n \in Nat
    PROVE  n \div p \in Nat /\ n % p \in 0 .. p - 1 /\ n % p = n - p * (n \div p)
OBVIOUS

LEMMA RemainderIs ==
    ASSUME NEW p \in Nat \ {0}, NEW n \in Nat, NEW q \in Int, NEW r \in 0 .. p - 1, n = p * q + r
    PROVE  n % p = r
OBVIOUS

LEMMA Distributes ==
    ASSUME NEW p \in Int, NEW m \in Int, NEW n \in Int
    PROVE  p * (m + n) = p * m + p * n
OBVIOUS

\* Whole packets more or less leave the same short one.
LEMMA WholePacketsMore ==
    ASSUME NEW m \in Nat, NEW n \in Nat, m % PacketSize = 0
    PROVE  (m + n) % PacketSize = n % PacketSize
<1> DEFINE p == PacketSize
           q == m \div p
           s == n \div p
           r == n % p
<1>1. p \in Nat \ {0}
  BY Constants
<1>2. q \in Nat /\ s \in Nat /\ r \in 0 .. p - 1
  BY <1>1, Divided
<1>3. 0 = m - p * q
  BY <1>1, Divided
<1>4. r = n - p * s
  BY <1>1, Divided
<1> HIDE DEF p, q, s, r
<1>5. p * q \in Int /\ p * s \in Int /\ p * (q + s) = p * q + p * s
  BY <1>1, <1>2, Distributes
<1>6. m + n = p * (q + s) + r
  <2> DEFINE a == p * q
             b == p * s
             c == p * (q + s)
  <2>1. a \in Int /\ b \in Int /\ c = a + b /\ 0 = m - a /\ r = n - b /\ r \in Int
    BY <1>1, <1>2, <1>3, <1>4, <1>5
  <2> HIDE DEF a, b, c
  <2>2. m + n = c + r
    BY <2>1
  <2> QED
    BY <2>2 DEF c
<1>7. m + n \in Nat /\ q + s \in Int
  BY <1>2
<1>8. (m + n) % p = r
  BY <1>1, <1>2, <1>6, <1>7, RemainderIs
<1> QED
  BY <1>8 DEF p, r

LEMMA WholePacketsLess ==
    ASSUME NEW n \in Nat, NEW m \in 0 .. n, m % PacketSize = 0
    PROVE  (n - m) % PacketSize = n % PacketSize
<1>1. (m + (n - m)) % PacketSize = (n - m) % PacketSize
  <2> DEFINE d == n - m
  <2>1. d \in Nat /\ m \in Nat
    OBVIOUS
  <2> HIDE DEF d
  <2>2. (m + d) % PacketSize = d % PacketSize
    BY <2>1, WholePacketsMore
  <2> QED
    BY <2>2 DEF d
<1>2. m + (n - m) = n
  OBVIOUS
<1> QED
  BY <1>1, <1>2

LEMMA NothingIsWhole == 0 % PacketSize = 0
BY Constants

-----------------------------------------------------------------------------
(* Sequences of bytes. *)

LEMMA SequenceIs ==
    ASSUME NEW S, NEW n \in Nat, NEW f \in [1 .. n -> S]
    PROVE  f \in Seq(S) /\ Len(f) = n
<1>1. f \in Seq(S)
  BY SeqDef
<1> QED
  BY <1>1, LenProperties

\* A sequence is its beginning and the rest.
LEMMA CutInTwo ==
    ASSUME NEW S, NEW s \in Seq(S), NEW n \in 0 .. Len(s)
    PROVE  /\ SubSeq(s, 1, n) \in Seq(S) /\ Len(SubSeq(s, 1, n)) = n
           /\ SubSeq(s, n + 1, Len(s)) \in Seq(S) /\ Len(SubSeq(s, n + 1, Len(s))) = Len(s) - n
           /\ SubSeq(s, 1, n) \o SubSeq(s, n + 1, Len(s)) = s
<1>1. Len(s) \in Nat /\ n \in Nat
  BY LenProperties
<1>2. \A i \in 1 .. Len(s) : s[i] \in S
  BY ElementOfSeq
<1>3. SubSeq(s, 1, n) \in Seq(S) /\ Len(SubSeq(s, 1, n)) = n
  <2>1. \A i \in 1 .. n : s[i] \in S
    BY <1>1, <1>2
  <2>2. SubSeq(s, 1, n) \in Seq(S) /\ Len(SubSeq(s, 1, n)) = IF 1 <= n THEN n - 1 + 1 ELSE 0
    BY <1>1, <2>1, SubSeqProperties
  <2> QED
    BY <1>1, <2>2
<1>4. SubSeq(s, n + 1, Len(s)) \in Seq(S) /\ Len(SubSeq(s, n + 1, Len(s))) = Len(s) - n
  <2> DEFINE m == n + 1
             l == Len(s)
  <2>1. m \in Int /\ l \in Int /\ \A i \in m .. l : s[i] \in S
    BY <1>1, <1>2
  <2> HIDE DEF m, l
  <2>2. SubSeq(s, m, l) \in Seq(S) /\ Len(SubSeq(s, m, l)) = IF m <= l THEN l - m + 1 ELSE 0
    BY <2>1, SubSeqProperties
  <2> QED
    BY <1>1, <2>2 DEF m, l
<1>5. SubSeq(s, 1, n) \o SubSeq(s, n + 1, Len(s)) = SubSeq(s, 1, Len(s))
  <2> DEFINE l == Len(s)
  <2>1. 1 \in 1 .. Len(s) + 1 /\ n \in 1 - 1 .. Len(s) /\ l \in n .. Len(s)
    BY <1>1
  <2> HIDE DEF l
  <2>2. SubSeq(s, 1, n) \o SubSeq(s, n + 1, l) = SubSeq(s, 1, l)
    BY <2>1, ConcatAdjacentSubSeq
  <2> QED
    BY <2>2 DEF l
<1>6. SubSeq(s, 1, Len(s)) = s
  BY SubSeqFull
<1> QED
  BY <1>3, <1>4, <1>5, <1>6

\* A write moves bytes from the beginning of what is left to what the host has.
LEMMA Moved ==
    ASSUME NEW had \in Seq(Octets), NEW left \in Seq(Octets), NEW n \in 0 .. Len(left)
    PROVE  \E got, rest \in Seq(Octets) :
               /\ got = had \o SubSeq(left, 1, n) /\ rest = SubSeq(left, n + 1, Len(left))
               /\ Len(rest) = Len(left) - n
               /\ got \o rest = had \o left
               /\ rest = <<>> => got = had \o left
<1> DEFINE first == SubSeq(left, 1, n)
           rest == SubSeq(left, n + 1, Len(left))
<1>1. first \in Seq(Octets) /\ rest \in Seq(Octets) /\ Len(rest) = Len(left) - n /\ first \o rest = left
  BY CutInTwo
<1> HIDE DEF first, rest
<1>2. had \o first \in Seq(Octets)
  BY <1>1, ConcatProperties
<1>3. (had \o first) \o rest = had \o left
  <2>1. first \in Seq(Octets) /\ rest \in Seq(Octets)
    BY <1>1
  <2>2. (had \o first) \o rest = had \o (first \o rest)
    BY <2>1, ConcatAssociative, SMTT(20)
  <2> QED
    BY <1>1, <2>2
<1>4. rest = <<>> => had \o first = had \o left
  BY <1>2, <1>3, ConcatEmptySeq
<1>5. had \o first = had \o SubSeq(left, 1, n) /\ rest = SubSeq(left, n + 1, Len(left))
  BY DEF first, rest
<1> QED
  BY <1>1, <1>2, <1>3, <1>4, <1>5

LEMMA NoLength ==
    ASSUME NEW S, NEW s \in Seq(S)
    PROVE  Len(s) \in Nat /\ (Len(s) = 0 <=> s = <<>>)
BY EmptySeq, LenProperties

LEMMA ContentFacts ==
    ASSUME NEW from \in Nat, NEW n \in Nat
    PROVE  /\ Content(from, n) \in Seq(Octets) /\ Len(Content(from, n)) = n
           /\ \A k \in 1 .. n : Content(from, n)[k] = <<from + k - 1, HeaderSize>>
<1>1. \A k \in 1 .. n : from + k - 1 \in Nat /\ HeaderSize \in Nat
  BY Constants
<1>2. Content(from, n) \in [1 .. n -> Octets]
  BY <1>1 DEF Content, Octets
<1> QED
  BY <1>2, SequenceIs DEF Content

\* What is read next follows what has been read.
LEMMA ContentGoesOn ==
    ASSUME NEW from \in Nat, NEW m \in Nat, NEW n \in Nat
    PROVE  Content(from, m) \o Content(from + m, n) = Content(from, m + n)
<1> DEFINE a == Content(from, m)
           b == Content(from + m, n)
           c == Content(from, m + n)
<1>1. from + m \in Nat /\ m + n \in Nat
  OBVIOUS
<1>2. a \in Seq(Octets) /\ Len(a) = m /\ \A k \in 1 .. m : a[k] = <<from + k - 1, HeaderSize>>
  BY ContentFacts
<1>3. b \in Seq(Octets) /\ Len(b) = n /\ \A k \in 1 .. n : b[k] = <<from + m + k - 1, HeaderSize>>
  BY <1>1, ContentFacts
<1>4. c \in Seq(Octets) /\ Len(c) = m + n /\ \A k \in 1 .. m + n : c[k] = <<from + k - 1, HeaderSize>>
  BY <1>1, ContentFacts
<1> HIDE DEF a, b, c
<1>5. /\ a \o b \in Seq(Octets) /\ Len(a \o b) = m + n
      /\ \A k \in 1 .. m + n : (a \o b)[k] = IF k <= m THEN a[k] ELSE b[k - m]
  BY <1>2, <1>3, ConcatProperties
<1>6. ASSUME NEW k \in 1 .. m + n PROVE (a \o b)[k] = c[k]
  <2>1. CASE k <= m
    <3>1. k \in 1 .. m
      BY <2>1
    <3> QED
      BY <1>2, <1>4, <1>5, <2>1, <3>1
  <2>2. CASE k > m
    <3> DEFINE j == k - m
    <3>1. j \in 1 .. n /\ from + m + j - 1 = from + k - 1
      BY <2>2
    <3>2. (a \o b)[k] = b[j]
      BY <1>5, <2>2
    <3> HIDE DEF j
    <3>3. b[j] = <<from + m + j - 1, HeaderSize>>
      BY <1>3, <3>1
    <3> QED
      BY <1>4, <3>1, <3>2, <3>3
  <2>3. k <= m \/ k > m
    OBVIOUS
  <2> QED
    BY <2>1, <2>2, <2>3, Zenon
<1>7. a \o b = c
  BY <1>4, <1>5, <1>6, SeqEqual
<1> QED
  BY <1>7 DEF a, b, c

\* The header of a container, one element of HeaderSize bytes
LEMMA HeaderFacts ==
    ASSUME NEW length \in Nat
    PROVE  Bytes(HeaderSize, <<length>>) \in Seq(Octets) /\ Len(Bytes(HeaderSize, <<length>>)) = HeaderSize
<1> DEFINE h == HeaderSize
           header == Bytes(h, <<length>>)
<1>1. h \in Nat \ {0} /\ Len(<<length>>) = 1 /\ h * 1 = h
  BY Constants
<1>2. \A k \in 1 .. h : (k - 1) \div h = 0 /\ (k - 1) % h \in Nat
  <2> TAKE k \in 1 .. h
  <2> DEFINE n == k - 1
  <2>1. n \in Nat /\ n < h
    BY <1>1
  <2> HIDE DEF n, h
  <2>2. n \div h \in Nat /\ n % h \in 0 .. h - 1 /\ n % h = n - h * (n \div h)
    BY <1>1, <2>1, Divided
  <2>3. n % h = n
    BY <1>1, <2>1
  <2>4. n \div h = 0
    BY <1>1, <2>1
  <2> QED
    BY <2>2, <2>4 DEF n
<1> HIDE DEF h
<1>3. header = [k \in 1 .. h |-> <<<<length>>[(k - 1) \div h + 1], (k - 1) % h>>]
  BY <1>1 DEF Bytes
<1>4. \A k \in 1 .. h : <<<<length>>[(k - 1) \div h + 1], (k - 1) % h>> \in Octets
  BY <1>2 DEF Octets
<1>5. header \in [1 .. h -> Octets]
  BY <1>3, <1>4
<1>6. header \in Seq(Octets) /\ Len(header) = h
  BY <1>1, <1>5, SequenceIs
<1> QED
  BY <1>6 DEF h

-----------------------------------------------------------------------------
(* What is sent. *)

LEMMA LeastFacts ==
    ASSUME NEW a \in Nat, NEW b \in Nat
    PROVE  /\ Least(a, b) \in Nat /\ Least(a, b) <= a /\ Least(a, b) <= b
           /\ Least(a, b) = a \/ Least(a, b) = b
BY DEF Least

\* A container with as much room as is estimated takes what is put into it,
\* and its buffer begins with the length that was set.
LEMMA ContainerBuffer ==
    ASSUME NEW bytes \in Seq(Octets), NEW length \in Nat \ {0}
    PROVE  Buffer(Fill(SetContainerLength(NewTx(Len(bytes)), length), bytes))
              = Bytes(HeaderSize, <<length>>) \o bytes
<1> DEFINE n == Len(bytes)
           t == SetContainerLength(NewTx(n), length)
           u == Fill(t, bytes)
<1>1. n \in Nat /\ HeaderSize \in Nat /\ bytes = [k \in 1 .. n |-> bytes[k]]
  BY LenProperties, Constants
<1>2. t = [cap |-> HeaderSize + n, payload |-> <<>>, length |-> length]
  BY DEF NewTx, SetContainerLength
<1> HIDE DEF t
<1>3. Len(<<>>) = 0 /\ Offset(t) = HeaderSize
  BY <1>1, <1>2 DEF Offset
<1>4. u = Store(t, bytes)
  BY <1>1, <1>2, <1>3 DEF Fill
<1>5. [k \in 1 .. n |-> IF Offset(t) + k <= t.cap THEN bytes[k] ELSE <<Garbled, 0>>] = bytes
  <2>1. t.cap = HeaderSize + n
    BY <1>2
  <2>2. \A k \in 1 .. n : Offset(t) + k <= t.cap
    BY <1>1, <1>3, <2>1
  <2> QED
    BY <1>1, <2>2
<1> HIDE DEF u
<1>6. u.payload = bytes /\ u.length = length
  <2>1. t.payload = <<>> /\ t.length = length
    BY <1>2
  <2>2. u = [t EXCEPT !.payload = t.payload \o bytes]
    BY <1>4, <1>5 DEF Store
  <2>3. "payload" \in DOMAIN t
    BY <1>2
  <2>4. u.payload = t.payload \o bytes /\ u.length = t.length
    BY <2>2, <2>3
  <2>5. <<>> \o bytes = bytes
    BY ConcatEmptySeq
  <2> QED
    BY <2>1, <2>4, <2>5
<1>7. ContainerLength(u) = length
  BY <1>6 DEF ContainerLength
<1>8. Buffer(u) = Bytes(HeaderSize, <<length>>) \o bytes
  BY <1>6, <1>7 DEF Buffer
<1> QED
  BY <1>8 DEF u, t, n

\* The bytes a request is about lie between offset and end.
LEMMA AskedCount ==
    ASSUME NEW offs \in Nat, NEW size \in Nat, NEW known \in Nat, offs <= known,
           req.offs = offs, req.size = size, req.known = known
    PROVE  Cardinality(Asked) = Least(offs + size, known) - offs
<1> DEFINE last == Least(offs + size, known) - 1
<1>1. Least(offs + size, known) \in Nat /\ offs <= Least(offs + size, known)
  BY LeastFacts DEF Least
<1>2. Asked = offs .. last
  BY DEF Asked, Least
<1>3. offs \in Int /\ last \in Int
  BY <1>1
<1>4. Cardinality(offs .. last) = IF offs > last THEN 0 ELSE last - offs + 1
  <2> HIDE DEF last
  <2> QED
    BY <1>3, FS_Interval
<1> QED
  BY <1>1, <1>2, <1>4

\* What has been told of a request, and how much there is to tell
LEMMA SpanFacts ==
    ASSUME Span
    PROVE  /\ req.offs \in Nat /\ Whole \in Nat /\ Remaining \in Nat
           /\ sender.now \in Nat /\ sender.sent \in Nat
           /\ sender.now = req.offs + sender.sent /\ Whole = sender.sent + Remaining
           /\ Cardinality(Asked) = Whole
<1>1. /\ sender.now \in Nat /\ sender.end \in Nat /\ sender.sent \in Nat
      /\ sender.begun \in BOOLEAN
  BY DEF Span
<1>2. req.offs \in Nat /\ sender.now \in req.offs .. sender.end /\ sender.sent = sender.now - req.offs
  BY DEF Span
<1>3. Cardinality(Asked) = sender.end - req.offs
  BY AskedCount DEF Span
<1> QED
  BY <1>1, <1>2, <1>3 DEF Whole, Remaining

\* A header and content after it, and after that what is read next
LEMMA Telling ==
    ASSUME NEW length \in Nat, NEW offs \in Nat, NEW m \in Nat
    PROVE  /\ Bytes(HeaderSize, <<length>>) \o Content(offs, m) \in Seq(Octets)
           /\ Len(Bytes(HeaderSize, <<length>>) \o Content(offs, m)) = HeaderSize + m
<1> DEFINE header == Bytes(HeaderSize, <<length>>)
           content == Content(offs, m)
<1>1. header \in Seq(Octets) /\ Len(header) = HeaderSize
  BY HeaderFacts
<1>2. content \in Seq(Octets) /\ Len(content) = m
  BY ContentFacts
<1> HIDE DEF header, content
<1>3. header \o content \in Seq(Octets) /\ Len(header \o content) = HeaderSize + m
  BY <1>1, <1>2, ConcatProperties
<1> QED
  BY <1>3 DEF header, content

LEMMA TellingGoesOn ==
    ASSUME NEW length \in Nat, NEW offs \in Nat, NEW m \in Nat, NEW n \in Nat
    PROVE  (Bytes(HeaderSize, <<length>>) \o Content(offs, m)) \o Content(offs + m, n)
              = Bytes(HeaderSize, <<length>>) \o Content(offs, m + n)
<1> DEFINE header == Bytes(HeaderSize, <<length>>)
           content == Content(offs, m)
           more == Content(offs + m, n)
<1>1. header \in Seq(Octets)
  BY HeaderFacts
<1>2. content \in Seq(Octets)
  BY ContentFacts
<1>3. more \in Seq(Octets)
  <2>1. offs + m \in Nat
    OBVIOUS
  <2> QED
    BY <2>1, ContentFacts
<1>4. content \o more = Content(offs, m + n)
  BY ContentGoesOn
<1> HIDE DEF header, content, more
<1>5. (header \o content) \o more = header \o (content \o more)
  BY <1>1, <1>2, <1>3, ConcatAssociative, SMTT(20)
<1> QED
  BY <1>4, <1>5 DEF header, content, more

LEMMA ToldFacts ==
    ASSUME Span
    PROVE  /\ Length \in Nat \ {0} /\ Told \in Seq(Octets) /\ Len(Told) = HeaderSize + sender.sent
           /\ \A n \in Nat : Told \o Content(sender.now, n)
                             = Bytes(HeaderSize, <<Length>>) \o Content(req.offs, sender.sent + n)
<1>1. Length \in Nat \ {0}
  BY SpanFacts, Constants DEF Length, Sentinel
<1>2. PICK length \in Nat, offs \in Nat, m \in Nat : length = Length /\ offs = req.offs /\ m = sender.sent
  BY <1>1, SpanFacts
<1>3. Told = Bytes(HeaderSize, <<length>>) \o Content(offs, m) /\ sender.now = offs + m
  BY <1>2, SpanFacts DEF Told
<1> DEFINE told == Bytes(HeaderSize, <<length>>) \o Content(offs, m)
<1>4. told \in Seq(Octets) /\ Len(told) = HeaderSize + m
  BY Telling, Zenon
<1>5. \A n \in Nat : told \o Content(offs + m, n) = Bytes(HeaderSize, <<length>>) \o Content(offs, m + n)
  BY TellingGoesOn, Zenon
<1>6. Told = told
  BY <1>3
<1> HIDE DEF told
<1> QED
  BY <1>1, <1>2, <1>3, <1>4, <1>5, <1>6

-----------------------------------------------------------------------------
(* What a step keeps. *)

LEMMA Unmoved ==
    ASSUME UNCHANGED <<req, sender>>
    PROVE  /\ Span' <=> Span
           /\ Told' = Told /\ Remaining' = Remaining
BY DEF Span, Told, Length, Whole, Remaining

LEMMA SameTransfers ==
    ASSUME TransferWhole, UNCHANGED <<req, answer, broken, incoming, transfers>>
    PROVE  TransferWhole'
BY DEF TransferWhole, Asked

LEMMA NotAnswered == answer = <<>> => TransferWhole
BY DEF TransferWhole

\* Nothing is claimed of other requests and of transfers that were given up.
LEMMA NothingClaimed ==
    ASSUME Kinds', req'.op \notin Gets \/ broken' PROVE DInv'
BY DEF DInv, Kinds, BetweenWrites, DuringWrite, TransferWhole, Gets

LEMMA InitDInv == Init => DInv
<1> SUFFICES ASSUME Init PROVE DInv
  OBVIOUS
<1>1. Kinds
  BY WriteSizesWhole DEF Init, Kinds, Gets, NoWriter
<1>2. req.op \notin Gets
  BY DEF Init, Gets
<1> QED
  BY <1>1, <1>2 DEF Init, DInv, BetweenWrites, DuringWrite, TransferWhole

-----------------------------------------------------------------------------
(* Property lists, and the user. *)

LEMMA UserResizesKeeps == ASSUME DInv, UserResizes PROVE DInv'
<1>1. /\ UNCHANGED <<phase, req, sender, writer, writeMax, broken, incoming, transfers, answer>>
      /\ file' \in FileSizes
  BY DEF UserResizes, phaseVars, writerVars, hostVars
<1>2. Kinds'
  BY <1>1, Unmoved DEF DInv, Kinds
<1>3. BetweenWrites' /\ DuringWrite'
  BY <1>1, Unmoved DEF DInv, BetweenWrites, DuringWrite
<1> QED
  BY <1>1, <1>2, <1>3, SameTransfers DEF DInv

LEMMA ListKeeps ==
    ASSUME DInv, GetObjectPropList \/ SerializeProperty \/ SendList \/ SetObjectPropList \/ ReceivePacket
                 \/ ReadCount \/ SetProperty \/ SetDone
    PROVE  DInv'
<1>1. /\ file' = file /\ writeMax' = writeMax /\ req'.op \notin Gets /\ "op" \in DOMAIN req'
      /\ phase' \in {"fill", "receive", "read", "idle", "write"}
      /\ phase' = "write" => writer'.for = "list"
      /\ {"data", "zero", "for"} \subseteq DOMAIN writer'
      /\ answer' # <<>> => phase' = "idle"
  <2>1. CASE GetObjectPropList
    <3>1. PICK list \in Lists : Ask([op |-> "GetObjectPropList", list |-> list])
      BY <2>1 DEF GetObjectPropList
    <3>2. req' = [op |-> "GetObjectPropList", list |-> list] /\ UNCHANGED <<file, writeMax, writer>>
      BY <3>1 DEF Ask
    <3>3. phase' = "fill" /\ answer' = <<>>
      BY <2>1 DEF GetObjectPropList
    <3> QED
      BY <3>2, <3>3 DEF Gets, DInv, Kinds
  <2>2. CASE SetObjectPropList
    <3>1. req' = [req EXCEPT !.op = "SetObjectPropList"] /\ UNCHANGED <<file, writeMax, writer>>
      BY <2>2 DEF SetObjectPropList, Ask
    <3>2. "op" \in DOMAIN req
      BY DEF DInv, Kinds
    <3>3. req'.op = "SetObjectPropList" /\ "op" \in DOMAIN req'
      BY <3>1, <3>2
    <3>4. phase' = "receive" /\ answer' = <<>>
      BY <2>2 DEF SetObjectPropList
    <3> QED
      BY <3>1, <3>3, <3>4 DEF Gets, DInv, Kinds
  <2>3. CASE SerializeProperty \/ ReceivePacket
    BY <2>3 DEF SerializeProperty, ReceivePacket, phaseVars, writerVars, hostVars, fileVars, DInv, Kinds
  <2>4. CASE SendList
    BY <2>4 DEF SendList, StartWriter, hostVars, fileVars, DInv, Kinds
  <2>5. CASE ReadCount
    BY <2>5 DEF ReadCount, writerVars, hostVars, fileVars, DInv, Kinds
  <2>6. CASE SetProperty
    <3>1. /\ phase = "read" /\ UNCHANGED <<req, writer, writeMax, file>>
          /\ phase' \in {phase, "idle"} /\ (phase' = "idle" \/ answer' = answer)
      BY <2>6 DEF SetProperty, Respond, writerVars, fileVars
    <3> QED
      BY <3>1 DEF DInv, Kinds
  <2>7. CASE SetDone
    BY <2>7 DEF SetDone, Respond, writerVars, fileVars, DInv, Kinds
  <2> QED
    BY <2>1, <2>2, <2>3, <2>4, <2>5, <2>6, <2>7
<1>2. Kinds'
  BY <1>1 DEF DInv, Kinds
<1> QED
  BY <1>1, <1>2, NothingClaimed DEF DInv

-----------------------------------------------------------------------------
(* The writer thread. *)

\* During a write for an object of which the host has nothing whole yet
LEMMA WriteState ==
    ASSUME DInv, phase = "write", req.op \in Gets, ~broken
    PROVE  /\ Span /\ writer.for # "list" /\ answer = <<>> /\ writeMax \in Nat \ {0}
           /\ writeMax % PacketSize = 0 /\ sender.begun
           /\ writer.data \in Seq(Octets) /\ writer.zero \in BOOLEAN /\ incoming \in Seq(Octets)
           /\ Len(writer.data) \in Nat /\ (Len(writer.data) = 0 <=> writer.data = <<>>)
           /\ Remaining \in Nat
<1>1. /\ Span /\ writer.for # "list" /\ answer = <<>> /\ writeMax \in WriteSizes /\ sender.begun
      /\ writer.data \in Seq(Octets) /\ writer.zero \in BOOLEAN /\ incoming \in Seq(Octets)
  BY DEF DInv, Kinds, DuringWrite
<1>2. writeMax \in Nat \ {0} /\ writeMax % PacketSize = 0
  BY <1>1, WriteSizesWhole
<1>3. Len(writer.data) \in Nat /\ (Len(writer.data) = 0 <=> writer.data = <<>>)
  BY <1>1, NoLength
<1> QED
  BY <1>1, <1>2, <1>3, SpanFacts

LEMMA WriteNowKeeps == ASSUME DInv, WriteNow PROVE DInv'
<1>1. /\ phase = "write" /\ (writer.data # <<>> \/ writer.zero)
      /\ UNCHANGED <<req, phase, sender, writeMax, broken, answer, file>>
      /\ DOMAIN writer' = DOMAIN writer /\ writer'.for = writer.for
  BY DEF WriteNow, Writing, phaseVars, fileVars
<1>2. Kinds'
  BY <1>1, Unmoved DEF DInv, Kinds
<1>3. CASE req.op \notin Gets \/ broken
  BY <1>1, <1>2, <1>3, NothingClaimed
<1>4. CASE req.op \in Gets /\ ~broken
  <2>1. phase = "write" /\ req.op \in Gets /\ ~broken
    BY <1>1, <1>4
  <2>2. /\ Span /\ answer = <<>> /\ writeMax \in Nat \ {0} /\ writeMax % PacketSize = 0 /\ sender.begun
        /\ writer.data \in Seq(Octets) /\ writer.zero \in BOOLEAN /\ incoming \in Seq(Octets)
        /\ Remaining \in Nat
    BY <2>1, WriteState
  <2>3. /\ transfers = <<>> /\ incoming \o writer.data = Told
        /\ writer.zero <=> Remaining = 0 /\ Len(writer.data) % PacketSize = 0
        /\ Remaining > 0 => Len(writer.data) % PacketSize = 0
    <3>1. transfers = <<>>
      BY <1>1, <2>1 DEF DInv, DuringWrite
    <3> QED
      BY <2>1, <3>1 DEF DInv, DuringWrite
  <2>4. PICK left \in Seq(Octets), had \in Seq(Octets), most \in Nat \ {0} :
            left = writer.data /\ had = incoming /\ most = writeMax
    BY <2>2
  <2> DEFINE n == Least(Len(left), most)
             ends == n % PacketSize # 0 \/ n = 0
  <2>5. Len(left) \in Nat /\ (Len(left) = 0 <=> left = <<>>)
    BY NoLength
  <2>6. n \in 0 .. Len(left) /\ (n = Len(left) \/ n = most)
    BY <2>5 DEF Least
  <2>7. PICK got \in Seq(Octets), rest \in Seq(Octets) :
            /\ got = had \o SubSeq(left, 1, n) /\ rest = SubSeq(left, n + 1, Len(left))
            /\ Len(rest) = Len(left) - n
            /\ got \o rest = had \o left
            /\ rest = <<>> => got = had \o left
    <3> HIDE DEF n
    <3> QED
      BY <2>6, Moved
  <2>8. /\ writer'.data = rest /\ writer'.zero = (writer.zero /\ left # <<>>)
        /\ transfers' = IF ends THEN Append(transfers, got) ELSE transfers
        /\ incoming' = IF ends THEN <<>> ELSE got
    <3>1. writer' = [writer EXCEPT !.data = rest, !.zero = writer.zero /\ left # <<>>]
      BY <2>4, <2>7 DEF WriteNow
    <3>2. {"data", "zero"} \subseteq DOMAIN writer
      BY DEF DInv, Kinds
    <3>3. writer'.data = rest /\ writer'.zero = (writer.zero /\ left # <<>>)
      BY <3>1, <3>2
    <3> QED
      BY <2>4, <2>7, <3>3 DEF WriteNow
  <2> HIDE DEF n
  <2>9. Len(rest) \in Nat /\ (Len(rest) = 0 <=> rest = <<>>)
    BY <2>7, NoLength
  <2>10. got \o rest = Told
    BY <2>3, <2>4, <2>7
  <2>11. BetweenWrites'
    BY <1>1, <2>1 DEF BetweenWrites
  <2>12. TransferWhole'
    BY <1>1, <2>2 DEF TransferWhole
  <2>13. Told' = Told /\ Remaining' = Remaining
    BY <1>1, Unmoved
  <2>14. CASE ends
    <3>1. n = Len(left) /\ rest = <<>>
      <4>1. n = most => n % PacketSize = 0 /\ n # 0
        BY <2>2, <2>4
      <4> QED
        BY <2>5, <2>6, <2>7, <2>9, <2>14, <4>1
    <3>2. Remaining = 0
      <4>1. ASSUME Remaining > 0 PROVE FALSE
        <5>1. n % PacketSize = 0 /\ ~writer.zero
          BY <2>3, <2>4, <3>1, <4>1
        <5>2. n = 0 /\ left = <<>>
          BY <2>5, <2>14, <3>1, <5>1
        <5> QED
          BY <1>1, <2>4, <5>1, <5>2
      <4> QED
        BY <2>2, <4>1
    <3>3. transfers' = <<Told>> /\ incoming' = <<>>
      <4>1. got = Told
        BY <2>3, <2>4, <2>7, <3>1
      <4>2. Append(<<>>, got) = <<got>>
        OBVIOUS
      <4> QED
        BY <2>3, <2>8, <2>14, <4>1, <4>2
    <3>4. ~writer'.zero
      <4>1. ASSUME writer.zero, left # <<>> PROVE FALSE
        <5>1. n % PacketSize = 0 /\ n # 0
          BY <2>3, <2>4, <2>5, <3>1, <4>1
        <5> QED
          BY <2>14, <5>1
      <4> QED
        BY <2>8, <4>1
    <3>5. DuringWrite'
      <4>1. <<>> \in Seq(Octets) /\ <<Told>> # <<>>
        OBVIOUS
      <4> QED
        BY <1>1, <2>2, <2>8, <2>13, <3>1, <3>2, <3>3, <3>4, <4>1 DEF DuringWrite
    <3> QED
      BY <1>2, <2>11, <2>12, <3>5 DEF DInv
  <2>15. CASE ~ends
    <3>1. transfers' = <<>> /\ incoming' = got
      BY <2>3, <2>8, <2>15
    <3>2. Len(rest) % PacketSize = Len(left) % PacketSize
      <4>1. n % PacketSize = 0
        BY <2>15
      <4> QED
        BY <2>5, <2>6, <2>7, <4>1, WholePacketsLess
    <3>3. writer'.zero <=> Remaining = 0 /\ Len(rest) % PacketSize = 0
      <4>1. left # <<>>
        BY <2>5, <2>6, <2>15
      <4> QED
        BY <2>3, <2>4, <2>8, <3>2, <4>1
    <3>4. Remaining > 0 => Len(rest) % PacketSize = 0
      BY <2>3, <2>4, <3>2
    <3>5. DuringWrite'
      <4>1. writer'.zero \in BOOLEAN
        BY <2>8
      <4> QED
        BY <1>1, <2>2, <2>8, <2>7, <2>10, <2>13, <3>1, <3>3, <3>4, <4>1 DEF DuringWrite
    <3> QED
      BY <1>2, <2>11, <2>12, <3>5 DEF DInv
  <2> QED
    BY <2>14, <2>15
<1> QED
  BY <1>3, <1>4

LEMMA WriteTooLongKeeps == ASSUME DInv, WriteTooLong PROVE DInv'
<1>1. /\ UNCHANGED <<phase, req, sender, writer, broken, incoming, transfers, answer, file>>
      /\ writeMax > PacketSize /\ writeMax' = writeMax \div 2
  BY DEF WriteTooLong, phaseVars, hostVars, fileVars
<1>2. writeMax' \in WriteSizes
  BY <1>1, WriteSizesWhole DEF DInv, Kinds
<1>3. Kinds'
  BY <1>1, <1>2, Unmoved DEF DInv, Kinds
<1>4. BetweenWrites' /\ DuringWrite'
  BY <1>1, Unmoved DEF DInv, BetweenWrites, DuringWrite
<1> QED
  BY <1>1, <1>3, <1>4, SameTransfers DEF DInv

\* After a write the handler goes on, or the request is over.
LEMMA WrittenKinds ==
    ASSUME DInv, phase = "write", NEW result \in BOOLEAN, Written(result),
           UNCHANGED <<req, sender, writeMax, file>>
    PROVE  /\ Kinds'
           /\ req.op \in Gets => answer' = <<>> /\ (phase' = "segment" \/ (~result /\ phase' = "idle"))
<1>1. DOMAIN writer' = {"data", "zero", "for"}
  BY DEF Written, NoWriter
<1>2. answer = <<>> /\ (writer.for = "list" <=> req.op \notin Gets) /\ (req.op \in Gets => Span)
  BY DEF DInv, Kinds
<1>3. CASE writer.for = "list"
  <2>1. phase' = "idle"
    BY <1>3 DEF Written, Respond
  <2> QED
    BY <1>1, <1>2, <1>3, <2>1 DEF DInv, Kinds
<1>4. CASE writer.for # "list"
  <2>1. answer' = answer /\ (phase' = "segment" \/ (~result /\ phase' = "idle"))
    <3>1. CASE writer.for = "more" /\ ~result
      BY <1>4, <3>1 DEF Written
    <3>2. CASE ~(writer.for = "more" /\ ~result)
      <4>1. ~(writer.for = "list") /\ ~(writer.for = "more" /\ ~result)
        BY <1>4, <3>2
      <4>2. phase' = "segment" /\ UNCHANGED answer
        BY <4>1, SMT DEF Written, Respond
      <4>3. phase' = "segment" /\ answer' = answer
        BY <4>2
      <4> QED
        BY <4>3
    <3> QED
      BY <3>1, <3>2
  <2> QED
    BY <1>1, <1>2, <1>4, <2>1, Unmoved DEF DInv, Kinds
<1> QED
  BY <1>3, <1>4

LEMMA WriteReturnsKeeps == ASSUME DInv, WriteReturns PROVE DInv'
<1>1. /\ phase = "write" /\ writer.data = <<>> /\ ~writer.zero /\ Written(TRUE)
      /\ UNCHANGED <<req, sender, writeMax, broken, incoming, transfers, file>>
  BY DEF WriteReturns, Writing, fileVars
<1>2. /\ Kinds'
      /\ req.op \in Gets => answer' = <<>> /\ phase' = "segment"
  BY <1>1, WrittenKinds
<1>3. CASE req.op \notin Gets \/ broken
  BY <1>1, <1>2, <1>3, NothingClaimed
<1>4. CASE req.op \in Gets /\ ~broken
  <2>1. /\ sender.begun /\ Remaining \in Nat /\ incoming \in Seq(Octets)
    BY <1>1, <1>4, WriteState
  <2>2. IF Remaining > 0 THEN incoming = Told /\ transfers = <<>> ELSE incoming = <<>> /\ transfers = <<Told>>
    <3>1. Len(<<>>) = 0
      OBVIOUS
    <3>2. CASE transfers = <<>>
      <4>1. incoming \o writer.data = Told /\ (writer.zero <=> Remaining = 0 /\ Len(writer.data) % PacketSize = 0)
        BY <1>1, <1>4, <3>2 DEF DInv, DuringWrite
      <4>2. incoming \o <<>> = incoming
        BY <2>1, ConcatEmptySeq
      <4>3. Remaining > 0
        BY <1>1, <2>1, <3>1, <4>1, NothingIsWhole
      <4> QED
        BY <1>1, <3>2, <4>1, <4>2, <4>3
    <3>3. CASE transfers # <<>>
      BY <1>1, <1>4, <3>3 DEF DInv, DuringWrite
    <3> QED
      BY <3>2, <3>3
  <2>3. BetweenWrites'
    BY <1>1, <1>2, <1>4, <2>1, <2>2, Unmoved DEF BetweenWrites
  <2>4. DuringWrite' /\ TransferWhole'
    BY <1>2, <1>4 DEF DuringWrite, TransferWhole
  <2> QED
    BY <1>2, <2>3, <2>4 DEF DInv
<1> QED
  BY <1>3, <1>4

LEMMA WriteGivenUpKeeps == ASSUME DInv, WriteGivenUp PROVE DInv'
<1> DEFINE result == writer.data = <<>>
<1>1. /\ phase = "write" /\ Written(result) /\ result \in BOOLEAN /\ broken' = TRUE
      /\ UNCHANGED <<req, sender, writeMax, file>>
  BY DEF WriteGivenUp, Writing, fileVars
<1> HIDE DEF result
<1>2. Kinds'
  BY <1>1, WrittenKinds
<1> QED
  BY <1>1, <1>2, NothingClaimed

-----------------------------------------------------------------------------
(* Requests for an object. *)

LEMMA GetObjectCommonKeeps ==
    ASSUME DInv, NEW op \in Gets, NEW offs \in Nat, NEW size \in Nat, GetObjectCommon(op, offs, size)
    PROVE  DInv'
<1>1. /\ req' = [op |-> op, offs |-> offs, size |-> size, known |-> file]
      /\ incoming' = <<>> /\ transfers' = <<>> /\ ~broken' /\ UNCHANGED <<file, writer, writeMax>>
  BY DEF GetObjectCommon, Ask
<1>2. file \in Nat /\ file \in FileSizes
  BY Constants DEF DInv, Kinds
<1>3. req'.op = op /\ req'.offs = offs /\ req'.size = size /\ req'.known = file /\ "op" \in DOMAIN req'
  BY <1>1
<1>4. CASE offs > file
  <2>1. answer' = <<"InvalidParameter", 0>> /\ phase' = "idle"
    BY <1>4 DEF GetObjectCommon, Respond
  <2>2. Kinds'
    BY <1>1, <1>2, <1>3, <2>1 DEF DInv, Kinds
  <2>3. BetweenWrites' /\ DuringWrite'
    BY <2>1 DEF BetweenWrites, DuringWrite
  <2>4. answer'[1] # "OK"
    BY <2>1
  <2>5. TransferWhole'
    BY <1>1, <2>4 DEF TransferWhole
  <2> QED
    BY <2>2, <2>3, <2>5 DEF DInv
<1>5. CASE ~(offs > file)
  <2>1. /\ answer' = <<>> /\ phase' = "segment"
        /\ sender' = [NoSpan EXCEPT !.now = offs, !.end = Least(offs + size, file)]
    BY <1>5 DEF GetObjectCommon
  <2>2. sender' = [begun |-> FALSE, now |-> offs, end |-> Least(offs + size, file), sent |-> 0]
    BY <2>1 DEF NoSpan
  <2>3. offs <= file /\ Least(offs + size, file) \in Nat /\ offs <= Least(offs + size, file)
    BY <1>2, <1>5 DEF Least
  <2>4. Span'
    BY <1>2, <1>3, <2>2, <2>3 DEF Span
  <2>5. Kinds'
    BY <1>1, <1>2, <1>3, <2>1, <2>4 DEF DInv, Kinds
  <2>6. BetweenWrites' /\ DuringWrite' /\ TransferWhole'
    <3>1. ~sender'.begun
      BY <2>2
    <3>2. BetweenWrites'
      BY <1>1, <3>1 DEF BetweenWrites
    <3>3. DuringWrite' /\ TransferWhole'
      BY <2>1 DEF DuringWrite, TransferWhole
    <3> QED
      BY <3>2, <3>3
  <2> QED
    BY <2>5, <2>6 DEF DInv
<1> QED
  BY <1>4, <1>5

LEMMA GetKeeps ==
    ASSUME DInv, GetObject \/ GetPartialObject \/ GetPartialObject64 PROVE DInv'
<1>1. 0 \in Nat /\ MaxContent \in Nat /\ Offsets \subseteq Nat /\ Sizes \subseteq Nat
  BY Constants
<1>2. CASE GetObject
  BY <1>1, <1>2, GetObjectCommonKeeps DEF GetObject, Gets
<1>3. CASE GetPartialObject
  BY <1>1, <1>3, GetObjectCommonKeeps DEF GetPartialObject, Gets
<1>4. CASE GetPartialObject64
  BY <1>1, <1>4, GetObjectCommonKeeps DEF GetPartialObject64, Gets
<1> QED
  BY <1>2, <1>3, <1>4

\* When the handler reads on, the next bytes are the n the writer gets.
LEMMA Advanced ==
    ASSUME Span, NEW n \in 0 .. Remaining, Advance(n), UNCHANGED req
    PROVE  /\ Span' /\ sender'.begun /\ Remaining' = Remaining - n /\ Length' = Length
           /\ Told' = Bytes(HeaderSize, <<Length>>) \o Content(req.offs, sender.sent + n)
<1>1. sender' = [sender EXCEPT !.begun = TRUE, !.now = sender.now + n, !.sent = sender.sent + n]
  BY DEF Advance
<1>2. sender \in [begun : BOOLEAN, now : Nat, end : Nat, sent : Nat]
  BY DEF Span
<1>3. /\ sender'.begun = TRUE /\ sender'.now = sender.now + n /\ sender'.end = sender.end
      /\ sender'.sent = sender.sent + n
  BY <1>1, <1>2
<1>4. n \in Nat /\ n <= sender.end - sender.now /\ sender.now \in Nat /\ sender.end \in Nat /\ sender.sent \in Nat
  BY <1>2, SpanFacts DEF Remaining
<1>5. sender' \in [begun : BOOLEAN, now : Nat, end : Nat, sent : Nat]
  <2>1. sender.now + n \in Nat /\ sender.sent + n \in Nat
    BY <1>4
  <2> QED
    BY <1>1, <1>2, <2>1
<1>6. Span'
  BY <1>3, <1>4, <1>5 DEF Span
<1>7. Remaining' = Remaining - n
  BY <1>3, <1>4 DEF Remaining
<1>8. Length' = Length
  BY <1>3 DEF Length, Whole
<1>9. Told' = Bytes(HeaderSize, <<Length>>) \o Content(req.offs, sender.sent + n)
  BY <1>3, <1>8 DEF Told
<1> QED
  BY <1>3, <1>6, <1>7, <1>8, <1>9

\* A write has begun whose bytes are, after those the host has, all that was read.
LEMMA WriteBegins ==
    ASSUME DInv, req.op \in Gets, Span', sender'.begun, NEW left \in Seq(Octets), NEW last \in BOOLEAN,
           NEW for \in {"first", "more"}, StartWriter(left, last, for), answer = <<>>,
           UNCHANGED <<req, writeMax, broken, incoming, transfers, answer, file>>,
           last <=> Remaining' = 0,
           ~broken => /\ transfers = <<>> /\ incoming \in Seq(Octets) /\ incoming \o left = Told'
                      /\ (~last => Len(left) % PacketSize = 0)
    PROVE  DInv'
<1>1. phase' = "write" /\ writer' = [data |-> left, zero |-> last /\ Len(left) % PacketSize = 0, for |-> for]
  BY DEF StartWriter
<1>2. Kinds'
  <2>1. writer'.for # "list" /\ {"data", "zero", "for"} \subseteq DOMAIN writer'
    BY <1>1
  <2> QED
    BY <1>1, <2>1 DEF DInv, Kinds
<1>3. CASE broken
  BY <1>2, <1>3, NothingClaimed
<1>4. CASE ~broken
  <2>1. writer'.data = left /\ writer'.zero = (last /\ Len(left) % PacketSize = 0)
    BY <1>1
  <2>2. writer'.zero \in BOOLEAN
    BY <2>1
  <2>3. writer'.zero <=> Remaining' = 0 /\ Len(writer'.data) % PacketSize = 0
    BY <2>1
  <2>4. Remaining' > 0 => Len(writer'.data) % PacketSize = 0
    <3>1. 0 > 0 <=> FALSE
      OBVIOUS
    <3> QED
      BY <1>4, <2>1, <3>1
  <2>5. DuringWrite'
    BY <1>4, <2>1, <2>2, <2>3, <2>4 DEF DuringWrite
  <2>6. BetweenWrites' /\ TransferWhole'
    BY <1>1 DEF BetweenWrites, TransferWhole
  <2> QED
    BY <1>2, <2>5, <2>6 DEF DInv
<1> QED
  BY <1>3, <1>4

LEMMA SendFirstKeeps == ASSUME DInv, SendFirst PROVE DInv'
<1> DEFINE n == Least(Remaining, BufferMax - HeaderSize)
           length == IF Remaining > MaxContent THEN Sentinel ELSE HeaderSize + Remaining
           container == Fill(SetContainerLength(NewTx(n), length), Content(sender.now, n))
<1>1. /\ phase = "segment" /\ ~sender.begun
      /\ UNCHANGED <<req, writeMax, broken, incoming, transfers, file>>
  BY DEF SendFirst, fileVars
<1>2. req.op \in Gets /\ Span /\ answer = <<>>
  BY <1>1 DEF DInv, Kinds
<1>3. /\ sender.sent = 0 /\ sender.now = req.offs /\ Remaining = Whole /\ Length = length
      /\ Remaining \in Nat /\ req.offs \in Nat
  <2>1. sender.now = req.offs /\ sender.sent = sender.now - req.offs
    BY <1>1, <1>2 DEF Span
  <2>2. Remaining = Whole
    BY <2>1 DEF Remaining, Whole
  <2> QED
    BY <1>2, <2>1, <2>2, SpanFacts DEF Length
<1>4. /\ n \in 0 .. Remaining /\ n <= BufferMax - HeaderSize
      /\ n # Remaining => HeaderSize + n = BufferMax
  BY <1>3, Constants DEF Least
<1>5. ~broken => incoming = <<>> /\ transfers = <<>>
  BY <1>1 DEF DInv, BetweenWrites
<1>6. CASE Readable(n)
  <2>1. /\ StartWriter(Buffer(container), n = Remaining, "first") /\ Advance(n) /\ answer' = answer
    BY <1>6 DEF SendFirst
  <2>2. PICK offs \in Nat, many \in Nat, told \in Nat \ {0} : offs = req.offs /\ many = n /\ told = Length
    BY <1>2, <1>3, <1>4, ToldFacts
  <2> DEFINE left == Bytes(HeaderSize, <<told>>) \o Content(offs, many)
  <2>3. left \in Seq(Octets) /\ Len(left) = HeaderSize + many
    <3>1. told \in Nat
      OBVIOUS
    <3> QED
      BY <3>1, Telling, Zenon
  <2>4. Buffer(container) = left
    <3>1. Content(offs, many) \in Seq(Octets) /\ Len(Content(offs, many)) = many
      BY ContentFacts
    <3>2. Buffer(Fill(SetContainerLength(NewTx(many), told), Content(offs, many))) = left
      BY <3>1, ContainerBuffer
    <3> QED
      BY <1>3, <2>2, <3>2
  <2> HIDE DEF n, container, length
  <2>5. /\ Span' /\ sender'.begun /\ Remaining' = Remaining - n
        /\ Told' = Bytes(HeaderSize, <<Length>>) \o Content(req.offs, sender.sent + n)
    BY <1>1, <1>2, <1>4, <2>1, Advanced
  <2>6. Told' = left
    <3>1. sender.sent + n = many
      BY <1>3, <2>2
    <3> QED
      BY <2>2, <2>5, <3>1
  <2> HIDE DEF left
  <2>7. <<>> \in Seq(Octets) /\ <<>> \o left = left
    BY <2>3, ConcatEmptySeq
  <2>8. n = Remaining <=> Remaining' = 0
    BY <1>3, <1>4, <2>5
  <2>9. n # Remaining => Len(left) % PacketSize = 0
    BY <1>4, <2>2, <2>3, Constants
  <2> DEFINE last == n = Remaining
  <2>10. StartWriter(left, last, "first") /\ last \in BOOLEAN /\ (last <=> Remaining' = 0)
    BY <2>1, <2>4, <2>8
  <2>11. ~broken => /\ transfers = <<>> /\ incoming \in Seq(Octets) /\ incoming \o left = Told'
                    /\ (~last => Len(left) % PacketSize = 0)
    BY <1>5, <2>6, <2>7, <2>9
  <2> HIDE DEF last
  <2> QED
    BY <1>1, <1>2, <2>1, <2>3, <2>5, <2>10, <2>11, WriteBegins
<1>7. CASE ~Readable(n)
  <2>1. answer' = <<"GeneralError", 0>> /\ phase' = "idle" /\ UNCHANGED writer
    BY <1>7 DEF SendFirst, Respond
  <2>2. Kinds' /\ BetweenWrites' /\ DuringWrite'
    BY <1>1, <2>1 DEF DInv, Kinds, BetweenWrites, DuringWrite
  <2>3. answer'[1] # "OK"
    BY <2>1
  <2>4. TransferWhole'
    BY <1>1, <1>5, <2>3 DEF TransferWhole
  <2> QED
    BY <2>2, <2>4 DEF DInv
<1> QED
  BY <1>6, <1>7

LEMMA SendMoreKeeps == ASSUME DInv, SendMore PROVE DInv'
<1> DEFINE n == Least(Remaining, BufferMax)
<1>1. /\ phase = "segment" /\ sender.begun /\ Remaining > 0
      /\ UNCHANGED <<req, writeMax, broken, incoming, transfers, answer, file>>
  BY DEF SendMore, hostVars, fileVars
<1>2. req.op \in Gets /\ Span /\ answer = <<>>
  BY <1>1 DEF DInv, Kinds
<1>3. sender.now \in Nat /\ sender.sent \in Nat /\ Remaining \in Nat
  BY <1>2, SpanFacts
<1>4. /\ n \in 0 .. Remaining /\ n \in Nat
      /\ n # Remaining => n = BufferMax
  BY <1>3, Constants DEF Least
<1>5. ~broken => incoming = Told /\ transfers = <<>>
  BY <1>1 DEF DInv, BetweenWrites
<1>6. CASE Readable(n)
  <2>1. StartWriter(Content(sender.now, n), n = Remaining, "more") /\ Advance(n)
    BY <1>6 DEF SendMore
  <2> DEFINE left == Content(sender.now, n)
             last == n = Remaining
  <2> HIDE DEF n
  <2>2. left \in Seq(Octets) /\ Len(left) = n
    BY <1>3, <1>4, ContentFacts
  <2>3. /\ Span' /\ sender'.begun /\ Remaining' = Remaining - n
        /\ Told' = Bytes(HeaderSize, <<Length>>) \o Content(req.offs, sender.sent + n)
    BY <1>1, <1>2, <1>4, <2>1, Advanced
  <2>4. Told \in Seq(Octets) /\ Told \o left = Told'
    BY <1>2, <1>4, <2>3, ToldFacts
  <2>5. last <=> Remaining' = 0
    BY <1>3, <1>4, <2>3
  <2>6. ~last => Len(left) % PacketSize = 0
    BY <1>4, <2>2, Constants
  <2>7. StartWriter(left, last, "more") /\ last \in BOOLEAN
    BY <2>1
  <2> HIDE DEF left, last
  <2>8. ~broken => /\ transfers = <<>> /\ incoming \in Seq(Octets) /\ incoming \o left = Told'
                   /\ (~last => Len(left) % PacketSize = 0)
    BY <1>5, <2>4, <2>6
  <2> QED
    BY <1>1, <1>2, <2>2, <2>3, <2>5, <2>7, <2>8, WriteBegins
<1>7. CASE ~Readable(n)
  <2>1. phase' = "idle" /\ UNCHANGED writer
    BY <1>7 DEF SendMore
  <2>2. Kinds' /\ BetweenWrites' /\ DuringWrite'
    BY <1>1, <2>1 DEF DInv, Kinds, BetweenWrites, DuringWrite
  <2>3. TransferWhole'
    BY <1>1, <1>2 DEF TransferWhole
  <2> QED
    BY <2>2, <2>3 DEF DInv
<1> QED
  BY <1>6, <1>7

LEMMA SendDoneKeeps == ASSUME DInv, SendDone PROVE DInv'
<1> DEFINE param == IF req.op # "GetPartialObject" THEN 0
                    ELSE IF sender.sent > MaxContent THEN Sentinel ELSE sender.sent
<1>1. /\ phase = "segment" /\ sender.begun /\ Remaining = 0
      /\ answer' = <<"OK", param>> /\ phase' = "idle"
      /\ UNCHANGED <<req, sender, writer, writeMax, broken, incoming, transfers, file>>
  BY DEF SendDone, Respond, writerVars, fileVars
<1>2. req.op \in Gets /\ Span
  BY <1>1 DEF DInv, Kinds
<1>3. Kinds' /\ BetweenWrites' /\ DuringWrite'
  BY <1>1, Unmoved DEF DInv, Kinds, BetweenWrites, DuringWrite
<1>4. TransferWhole'
  <2>1. /\ sender.sent = Whole /\ Cardinality(Asked) = Whole /\ Whole \in Nat
    BY <1>1, <1>2, SpanFacts
  <2>2. Cardinality(Asked)' = Whole
    <3>1. Asked' = Asked
      BY <1>1 DEF Asked
    <3> QED
      BY <2>1, <3>1
  <2>3. HeaderSize + Whole > Sentinel <=> Whole > MaxContent
    BY <2>1, Constants DEF Sentinel
  <2>4. Length = IF HeaderSize + Whole > Sentinel THEN Sentinel ELSE HeaderSize + Whole
    BY <2>3 DEF Length
  <2>5. ~broken => incoming = <<>> /\ transfers = <<Bytes(HeaderSize, <<Length>>) \o Content(req.offs, Whole)>>
    <3>1. ASSUME ~broken PROVE incoming = <<>> /\ transfers = <<Told>>
      <4>1. ~(Remaining > 0)
        BY <1>1
      <4> QED
        BY <1>1, <3>1, <4>1 DEF DInv, BetweenWrites
    <3> QED
      BY <2>1, <3>1 DEF Told
  <2>6. answer'[1] = "OK" /\ answer'[2] = param
    BY <1>1
  <2>7. req.op = "GetPartialObject" => param = IF Whole > MaxContent THEN Sentinel ELSE Whole
    BY <2>1
  <2> QED
    BY <1>1, <2>2, <2>4, <2>5, <2>6, <2>7 DEF TransferWhole
<1> QED
  BY <1>3, <1>4 DEF DInv

-----------------------------------------------------------------------------
(* Every step, and the theorems. *)

LEMMA NextDInv == DInv /\ [Next]_vars => DInv'
<1> SUFFICES ASSUME DInv, [Next]_vars PROVE DInv'
  OBVIOUS
<1>1. CASE UserResizes
  BY <1>1, UserResizesKeeps
<1>2. CASE WriteNow
  BY <1>2, WriteNowKeeps
<1>3. CASE WriteTooLong
  BY <1>3, WriteTooLongKeeps
<1>4. CASE WriteReturns
  BY <1>4, WriteReturnsKeeps
<1>5. CASE WriteGivenUp
  BY <1>5, WriteGivenUpKeeps
<1>6. CASE GetObject \/ GetPartialObject \/ GetPartialObject64
  BY <1>6, GetKeeps
<1>7. CASE SendFirst
  BY <1>7, SendFirstKeeps
<1>8. CASE SendMore
  BY <1>8, SendMoreKeeps
<1>9. CASE SendDone
  BY <1>9, SendDoneKeeps
<1>10. CASE \/ GetObjectPropList \/ SerializeProperty \/ SendList \/ SetObjectPropList
            \/ ReceivePacket \/ ReadCount \/ SetProperty \/ SetDone
  BY <1>10, ListKeeps
<1>11. CASE UNCHANGED vars
  <2>1. UNCHANGED <<phase, req, sender, writer, writeMax, broken, incoming, transfers, answer, file>>
    BY <1>11 DEF vars, phaseVars, writerVars, hostVars, fileVars
  <2>2. Kinds' /\ BetweenWrites' /\ DuringWrite'
    BY <2>1, Unmoved DEF DInv, Kinds, BetweenWrites, DuringWrite
  <2> QED
    BY <2>1, <2>2, SameTransfers DEF DInv
<1> QED
  BY <1>1, <1>2, <1>3, <1>4, <1>5, <1>6, <1>7, <1>8, <1>9, <1>10, <1>11 DEF Next

\* Between two writes the host has everything that was read, and during one
\* what it has and what the writer has left make it up, however many bytes a
\* write takes and wherever the file is cut. (sendObjectSegmented,
\* BulkWriterThread)
THEOREM Invariance == Spec => []DInv
<1>1. Init => DInv
  BY InitDInv
<1>2. DInv /\ [Next]_vars => DInv'
  BY NextDInv
<1> QED
  BY <1>1, <1>2, PTL DEF Spec

\* A GetObject that is answered with an OK was one transfer with the whole of
\* what was asked for, for files, spans, buffers and packets of any size and
\* writes that fail and are halved any number of times; one that is refused
\* was none. (getObjectCommon, sendObjectSegmented, BulkWriterThread)
THEOREM TransfersWhole == Spec => []TransferWhole
<1>1. DInv => TransferWhole
  BY DEF DInv
<1> QED
  BY <1>1, Invariance, PTL

-----------------------------------------------------------------------------
(* Data sets.  Whatever is put into a container, as long as its offset is  *)
(* in its buffer: there is room for all of it.                             *)

TxContainers == [cap : Nat, payload : Seq(Octets), length : Nat]
HasRoom(t) == t \in TxContainers /\ Offset(t) <= t.cap

\* u is t with more bytes behind what it had.
Appended(u, t, bytes) == HasRoom(u) /\ u.payload = t.payload \o bytes

LEMMA BytesFacts ==
    ASSUME NEW w \in Nat \ {0}, NEW elements \in Seq(Nat)
    PROVE  /\ w * Len(elements) \in Nat
           /\ Bytes(w, elements) \in Seq(Octets) /\ Len(Bytes(w, elements)) = w * Len(elements)
<1> DEFINE many == Len(elements)
           size == w * many
<1>1. many \in Nat /\ \A i \in 1 .. many : elements[i] \in Nat
  BY LenProperties, ElementOfSeq
<1> HIDE DEF many
<1>2. size \in Nat
  BY <1>1
<1>3. \A k \in 1 .. size : (k - 1) \div w + 1 \in 1 .. many /\ (k - 1) % w \in Nat
  <2> TAKE k \in 1 .. size
  <2> DEFINE n == k - 1
             d == n \div w
             e == d - many
  <2>1. n \in Nat /\ n < w * many
    BY <1>2
  <2> HIDE DEF n
  <2>2. d \in Nat /\ n % w \in 0 .. w - 1 /\ n % w = n - w * d
    BY <2>1, Divided
  <2> HIDE DEF d
  <2>3. d < many
    <3> SUFFICES ASSUME ~(d < many) PROVE FALSE
      OBVIOUS
    <3>1. e \in Nat /\ d = many + e
      BY <1>1, <2>2
    <3> HIDE DEF e
    <3>2. w * d = w * many + w * e /\ w * many \in Int /\ w * e \in Nat
      BY <1>1, <3>1, Distributes
    <3>3. w * d <= n
      BY <1>1, <2>1, <2>2, <3>2
    <3> QED
      BY <2>1, <2>2, <3>2, <3>3
  <2>4. d + 1 \in 1 .. many /\ n % w \in Nat
    BY <1>1, <2>2, <2>3
  <2> QED
    BY <2>4 DEF n, d
<1>4. Bytes(w, elements) = [k \in 1 .. size |-> <<elements[(k - 1) \div w + 1], (k - 1) % w>>]
  BY DEF Bytes, many
<1> HIDE DEF size
<1>5. Bytes(w, elements) \in [1 .. size -> Octets]
  <2>1. \A k \in 1 .. size : <<elements[(k - 1) \div w + 1], (k - 1) % w>> \in Octets
    BY <1>1, <1>3 DEF Octets
  <2> QED
    BY <1>4, <2>1
<1>6. Bytes(w, elements) \in Seq(Octets) /\ Len(Bytes(w, elements)) = size
  BY <1>2, <1>5, SequenceIs
<1> QED
  BY <1>2, <1>6 DEF size, many

\* What fits is stored as it is.
LEMMA StoreKeeps ==
    ASSUME NEW t \in TxContainers, NEW bytes \in Seq(Octets), Offset(t) + Len(bytes) <= t.cap
    PROVE  Appended(Store(t, bytes), t, bytes) /\ Store(t, bytes).cap = t.cap
           /\ Offset(Store(t, bytes)) = Offset(t) + Len(bytes)
<1> DEFINE n == Len(bytes)
<1>1. /\ n \in Nat /\ bytes = [k \in 1 .. n |-> bytes[k]]
      /\ t.payload \in Seq(Octets) /\ Len(t.payload) \in Nat /\ t.cap \in Nat /\ HeaderSize \in Nat
  BY LenProperties, Constants DEF TxContainers
<1>2. [k \in 1 .. n |-> IF Offset(t) + k <= t.cap THEN bytes[k] ELSE <<Garbled, 0>>] = bytes
  <2>1. \A k \in 1 .. n : Offset(t) + k <= t.cap
    BY <1>1 DEF Offset
  <2> QED
    BY <1>1, <2>1
<1>3. Store(t, bytes) = [t EXCEPT !.payload = t.payload \o bytes]
  BY <1>2 DEF Store
<1>4. t.payload \o bytes \in Seq(Octets) /\ Len(t.payload \o bytes) = Len(t.payload) + n
  BY <1>1, ConcatProperties
<1> DEFINE u == Store(t, bytes)
<1>5. u \in TxContainers /\ u.payload = t.payload \o bytes /\ u.cap = t.cap
  BY <1>3, <1>4 DEF TxContainers
<1> HIDE DEF u
<1>6. Offset(u) = Offset(t) + n
  BY <1>1, <1>4, <1>5 DEF Offset
<1> QED
  BY <1>5, <1>6 DEF Appended, HasRoom, u

LEMMA ExpandKeeps ==
    ASSUME NEW t \in TxContainers, NEW n \in Nat
    PROVE  /\ ExpandBuffer(t, n) \in TxContainers /\ ExpandBuffer(t, n).payload = t.payload
           /\ ExpandBuffer(t, n).cap >= t.cap + n /\ Offset(ExpandBuffer(t, n)) = Offset(t)
<1>1. Expansion \in Nat
  BY ContainersAssumption
<1> QED
  BY <1>1 DEF TxContainers, ExpandBuffer, Offset

LEMMA OffsetIs == ASSUME NEW t \in TxContainers PROVE Offset(t) \in Nat /\ t.cap \in Nat
BY LenProperties, Constants DEF TxContainers, Offset

LEMMA SerializeKeeps ==
    ASSUME NEW t, HasRoom(t), NEW w \in Nat \ {0}, NEW elements \in Seq(Nat)
    PROVE  Appended(Serialize(t, w, elements), t, Bytes(w, elements))
<1> DEFINE size == w * Len(elements)
           n == Offset(t) + size
           u == IF n > t.cap THEN ExpandBuffer(t, n) ELSE t
           bytes == Bytes(w, elements)
<1>1. size \in Nat /\ bytes \in Seq(Octets) /\ Len(bytes) = size
  BY BytesFacts
<1>2. t \in TxContainers /\ Offset(t) \in Nat /\ t.cap \in Nat /\ Offset(t) <= t.cap
  BY OffsetIs DEF HasRoom
<1>3. Serialize(t, w, elements) = Store(u, bytes)
  BY DEF Serialize
<1> HIDE DEF size, bytes
<1>4. u \in TxContainers /\ u.payload = t.payload /\ Offset(u) + Len(bytes) <= u.cap
  <2>1. n \in Nat
    BY <1>1, <1>2
  <2>2. CASE n > t.cap
    <3>1. u = ExpandBuffer(t, n)
      BY <2>2
    <3> HIDE DEF u
    <3>2. u \in TxContainers /\ u.payload = t.payload /\ u.cap >= t.cap + n /\ Offset(u) = Offset(t)
      BY <1>2, <2>1, <3>1, ExpandKeeps
    <3>3. u.cap \in Nat
      BY <3>2, OffsetIs
    <3> QED
      BY <1>1, <1>2, <3>2, <3>3
  <2>3. CASE ~(n > t.cap)
    BY <1>1, <1>2, <2>3
  <2> QED
    BY <2>2, <2>3
<1> HIDE DEF u
<1>5. Appended(Store(u, bytes), u, bytes)
  BY <1>1, <1>4, StoreKeeps
<1> QED
  BY <1>3, <1>4, <1>5 DEF Appended, bytes

\* Two things are put into a container, one after the other.
LEMMA AppendedTwice ==
    ASSUME NEW t, HasRoom(t), NEW u, NEW v, NEW a \in Seq(Octets), NEW b \in Seq(Octets),
           Appended(u, t, a), Appended(v, u, b)
    PROVE  Appended(v, t, a \o b)
<1>1. PICK had \in Seq(Octets) : had = t.payload
  BY DEF HasRoom, TxContainers
<1>2. (had \o a) \o b = had \o (a \o b)
  BY ConcatAssociative, SMTT(20)
<1>3. HasRoom(v) /\ v.payload = (had \o a) \o b
  BY <1>1 DEF Appended
<1> QED
  BY <1>1, <1>2, <1>3 DEF Appended

LEMMA OneElement == ASSUME NEW n \in Nat PROVE <<n>> \in Seq(Nat)
OBVIOUS

LEMMA Widths == {1, 2, 4, 8, 16} \subseteq Nat \ {0} /\ 1 \in Nat \ {0} /\ 2 \in Nat \ {0} /\ 4 \in Nat \ {0}
OBVIOUS

LEMMA Smallest ==
    ASSUME NEW T \in SUBSET Nat, T # {}
    PROVE  \E k \in T : \A j \in T : k <= j
<1> DEFINE Less == OpToRel(<, Nat)
<1>1. IsWellFoundedOn(Less, Nat)
  BY NatLessThanWellFounded
<1>2. \A x, y \in Nat : x < y => <<x, y>> \in Less
  BY DEF OpToRel
<1> HIDE DEF Less
<1>3. PICK k \in T : \A j \in T : ~(<<j, k>> \in Less)
  BY <1>1, WFMin
<1>4. \A j \in T : ~(j < k)
  BY <1>2, <1>3
<1> QED
  BY <1>3, <1>4

LEMMA UnitsFacts == ASSUME NEW s \in Seq(Nat) PROVE Units(s) \in Seq(Nat)
<1> DEFINE n == Least(Len(s), StringLimit)
           ends == {k \in 1 .. n : s[k] = 0}
           first == CHOOSE k \in ends : \A j \in ends : k <= j
<1>1. Len(s) \in Nat /\ StringLimit \in Nat /\ \A i \in 1 .. Len(s) : s[i] \in Nat
  BY LenProperties, ElementOfSeq, ContainersAssumption
<1>2. n \in 0 .. Len(s)
  BY <1>1 DEF Least
<1>3. ends # {} => first \in 1 .. n
  <2>1. ends \in SUBSET Nat /\ \A k \in ends : k \in 1 .. n
    BY <1>2
  <2> HIDE DEF ends
  <2>2. ends # {} => \E k \in ends : \A j \in ends : k <= j
    BY <2>1, Smallest
  <2> QED
    BY <2>1, <2>2
<1>4. Units(s) = IF ends = {} THEN SubSeq(s, 1, n) ELSE SubSeq(s, 1, first - 1)
  BY DEF Units
<1> HIDE DEF n, ends, first
<1>5. PICK m \in 0 .. Len(s) : Units(s) = SubSeq(s, 1, m)
  <2>1. CASE ends = {}
    BY <1>2, <1>4, <2>1
  <2>2. CASE ends # {}
    <3>1. first - 1 \in 0 .. Len(s)
      BY <1>1, <1>2, <1>3, <2>2
    <3> QED
      BY <1>4, <2>2, <3>1
  <2> QED
    BY <2>1, <2>2
<1> QED
  BY <1>5, CutInTwo

\* What a value is in a data set
Image(v) ==
    CASE v.type = String -> IF Units(v.of) = <<>> THEN Bytes(1, <<0>>)
                            ELSE Bytes(1, <<Len(Units(v.of)) + 1>>) \o Bytes(2, Append(Units(v.of), 0))
      [] IsArray(v.type) -> Bytes(4, <<Len(v.of)>>) \o Bytes(Width(v.type), v.of)
      [] OTHER           -> Bytes(Width(v.type), <<v.of>>)

LEMMA StringKeeps ==
    ASSUME NEW t, HasRoom(t), NEW s \in Seq(Nat)
    PROVE  Appended(SerializeString(t, s), t,
                    IF Units(s) = <<>> THEN Bytes(1, <<0>>)
                    ELSE Bytes(1, <<Len(Units(s)) + 1>>) \o Bytes(2, Append(Units(s), 0)))
<1>1. PICK units \in Seq(Nat) : units = Units(s)
  BY UnitsFacts
<1>2. CASE units = <<>>
  <2>1. <<0>> \in Seq(Nat)
    BY OneElement
  <2>2. Appended(Serialize(t, 1, <<0>>), t, Bytes(1, <<0>>))
    BY <2>1, Widths, SerializeKeeps, Zenon
  <2> QED
    BY <1>1, <1>2, <2>2 DEF SerializeString
<1>3. CASE units # <<>>
  <2> DEFINE n == Len(units) + 1
             all == Append(units, 0)
             u == Serialize(t, 1, <<n>>)
  <2>1. <<n>> \in Seq(Nat) /\ all \in Seq(Nat)
    BY LenProperties, AppendProperties
  <2>2. SerializeString(t, s) = Serialize(u, 2, all)
    BY <1>1, <1>3 DEF SerializeString
  <2> HIDE DEF n, all
  <2>3. /\ Appended(u, t, Bytes(1, <<n>>))
        /\ Bytes(1, <<n>>) \in Seq(Octets) /\ Bytes(2, all) \in Seq(Octets)
    <3>1. Appended(u, t, Bytes(1, <<n>>))
      BY <2>1, Widths, SerializeKeeps, Zenon
    <3> QED
      BY <2>1, <3>1, Widths, BytesFacts, Zenon
  <2> HIDE DEF u
  <2>4. Appended(Serialize(u, 2, all), u, Bytes(2, all))
    <3>1. HasRoom(u)
      BY <2>3 DEF Appended
    <3> QED
      BY <2>1, <3>1, Widths, SerializeKeeps, Zenon
  <2>5. Appended(Serialize(u, 2, all), t, Bytes(1, <<n>>) \o Bytes(2, all))
    BY <2>3, <2>4, AppendedTwice
  <2> QED
    BY <1>1, <1>3, <2>2, <2>5 DEF n, all
<1> QED
  BY <1>2, <1>3

LEMMA VectorKeeps ==
    ASSUME NEW t, HasRoom(t), NEW w \in Nat \ {0}, NEW elements \in Seq(Nat)
    PROVE  Appended(SerializeVector(t, w, elements), t, Bytes(4, <<Len(elements)>>) \o Bytes(w, elements))
<1> DEFINE n == Len(elements)
           u == Serialize(t, 4, <<n>>)
<1>1. <<n>> \in Seq(Nat)
  BY LenProperties
<1>2. SerializeVector(t, w, elements) = Serialize(u, w, elements)
  BY DEF SerializeVector
<1> HIDE DEF n
<1>3. /\ Appended(u, t, Bytes(4, <<n>>))
      /\ Bytes(4, <<n>>) \in Seq(Octets) /\ Bytes(w, elements) \in Seq(Octets)
  <2>1. Appended(u, t, Bytes(4, <<n>>))
    BY <1>1, Widths, SerializeKeeps, Zenon
  <2> QED
    BY <1>1, <2>1, Widths, BytesFacts, Zenon
<1> HIDE DEF u
<1>4. Appended(Serialize(u, w, elements), u, Bytes(w, elements))
  <2>1. HasRoom(u)
    BY <1>3 DEF Appended
  <2> QED
    BY <2>1, SerializeKeeps, Zenon
<1>5. Appended(Serialize(u, w, elements), t, Bytes(4, <<n>>) \o Bytes(w, elements))
  BY <1>3, <1>4, AppendedTwice
<1> QED
  BY <1>2, <1>5 DEF n

LEMMA Vector128Keeps ==
    ASSUME NEW t, HasRoom(t), NEW elements \in Seq(Nat)
    PROVE  Appended(SerializeVector128(t, elements), t, Bytes(4, <<Len(elements)>>) \o Bytes(16, elements))
<1> DEFINE n == Len(elements)
           size == 16 * n + 4
           u == IF t.cap < Offset(t) + size THEN ExpandBuffer(t, size) ELSE t
           bytes == Bytes(4, <<n>>)
           all == Bytes(16, elements)
           v == Serialize(u, 4, <<n>>)
<1>1. n \in Nat /\ size \in Nat /\ <<n>> \in Seq(Nat) /\ Len(<<n>>) = 1
  BY LenProperties
<1>2. t \in TxContainers /\ Offset(t) \in Nat /\ t.cap \in Nat /\ Offset(t) <= t.cap
  BY OffsetIs DEF HasRoom
<1>3. SerializeVector128(t, elements) = Store(v, all)
  BY DEF SerializeVector128
<1>4. size = 16 * n + 4
  OBVIOUS
<1>5. /\ bytes \in Seq(Octets) /\ Len(bytes) = 4 * Len(<<n>>)
      /\ all \in Seq(Octets) /\ Len(all) = 16 * n
  <2>1. 16 \in Nat \ {0} /\ 4 \in Nat \ {0}
    OBVIOUS
  <2> QED
    BY <1>1, <2>1, BytesFacts, Zenon
<1> HIDE DEF n, size, bytes, all
<1>6. u \in TxContainers /\ u.payload = t.payload /\ Offset(u) + size <= u.cap
  <2>1. CASE t.cap < Offset(t) + size
    <3>1. u = ExpandBuffer(t, size)
      BY <2>1
    <3> HIDE DEF u
    <3>2. u \in TxContainers /\ u.payload = t.payload /\ u.cap >= t.cap + size /\ Offset(u) = Offset(t)
      BY <1>1, <1>2, <3>1, ExpandKeeps
    <3>3. u.cap \in Nat
      BY <3>2, OffsetIs
    <3> QED
      BY <1>1, <1>2, <3>2, <3>3
  <2>2. CASE ~(t.cap < Offset(t) + size)
    BY <1>1, <1>2, <2>2
  <2> QED
    BY <2>1, <2>2
<1>7. /\ Appended(v, t, bytes) /\ Offset(v) + Len(all) <= v.cap
  <2>1. v = Store(IF Offset(u) + 4 * Len(<<n>>) > u.cap
                  THEN ExpandBuffer(u, Offset(u) + 4 * Len(<<n>>)) ELSE u, bytes)
    BY DEF Serialize, bytes
  <2> HIDE DEF u, v
  <2>2. Offset(u) \in Nat /\ u.cap \in Nat
    BY <1>6, OffsetIs
  <2>3. Offset(u) + Len(bytes) <= u.cap /\ 4 * Len(<<n>>) = 4
    BY <1>1, <1>4, <1>5, <1>6, <2>2
  <2>4. ~(Offset(u) + 4 * Len(<<n>>) > u.cap)
    BY <1>5, <2>2, <2>3
  <2>5. v = Store(u, bytes)
    BY <2>1, <2>4
  <2>6. /\ Appended(v, u, bytes) /\ v.cap = u.cap /\ Offset(v) = Offset(u) + Len(bytes)
    BY <1>5, <1>6, <2>3, <2>5, StoreKeeps
  <2>7. Offset(v) + Len(all) <= v.cap
    BY <1>1, <1>4, <1>5, <1>6, <2>2, <2>3, <2>6
  <2> QED
    BY <1>6, <2>6, <2>7 DEF Appended
<1> HIDE DEF u, v
<1>8. Appended(Store(v, all), v, all)
  BY <1>5, <1>7, StoreKeeps DEF Appended, HasRoom
<1>9. Appended(Store(v, all), t, bytes \o all)
  BY <1>5, <1>7, <1>8, AppendedTwice
<1> QED
  BY <1>3, <1>9 DEF bytes, all, n

LEMMA TypesAreNumbers == Types \subseteq Nat
<1>1. /\ {Integer(w) : w \in {1, 2, 4, 8, 16}} \subseteq Nat
      /\ {Array(w) : w \in {1, 2, 4, 8, 16}} \subseteq Nat
  BY DEF Integer, Array
<1> QED
  BY <1>1 DEF Types, String

\* A value of any type is put into a data set as a whole, however little room
\* was estimated, and the data set keeps what it had. (MTPTxContainer)
THEOREM ValuesWhole ==
    ASSUME NEW t, HasRoom(t), NEW v, IsValue(v)
    PROVE  Appended(SerializeVariant(t, v), t, Image(v))
<1>1. ~IsArray(String)
  BY DEF String, Array, IsArray
<1>2. v.type # String => Width(v.type) \in Nat \ {0}
  BY DEF IsValue, Types, Integer, Array, String, IsArray, Width
<1>3. CASE v.type = String
  <2>1. v.of \in Seq(Nat) /\ ~IsArray(v.type)
    BY <1>1, <1>3 DEF IsValue
  <2>2. SerializeVariant(t, v) = SerializeString(t, v.of)
    BY <1>3, <2>1 DEF SerializeVariant
  <2>3. Image(v) = IF Units(v.of) = <<>> THEN Bytes(1, <<0>>)
                   ELSE Bytes(1, <<Len(Units(v.of)) + 1>>) \o Bytes(2, Append(Units(v.of), 0))
    BY <1>3, <2>1 DEF Image
  <2> QED
    BY <2>1, <2>2, <2>3, StringKeeps
<1>4. CASE IsArray(v.type)
  <2>1. v.of \in Seq(Nat) /\ v.type # String
    BY <1>1, <1>4 DEF IsValue
  <2>2. Image(v) = Bytes(4, <<Len(v.of)>>) \o Bytes(Width(v.type), v.of)
    BY <1>4, <2>1 DEF Image
  <2>3. CASE Width(v.type) = 16
    <3>1. SerializeVariant(t, v) = SerializeVector128(t, v.of)
      BY <1>4, <2>1, <2>3 DEF SerializeVariant
    <3> QED
      BY <2>1, <2>2, <2>3, <3>1, Vector128Keeps
  <2>4. CASE Width(v.type) # 16
    <3>1. SerializeVariant(t, v) = SerializeVector(t, Width(v.type), v.of)
      BY <1>4, <2>1, <2>4 DEF SerializeVariant
    <3> QED
      BY <1>2, <2>1, <2>2, <3>1, VectorKeeps
  <2> QED
    BY <2>3, <2>4
<1>5. CASE v.type # String /\ ~IsArray(v.type)
  <2>1. v.of \in Nat
    BY <1>5 DEF IsValue
  <2>2. SerializeVariant(t, v) = Serialize(t, Width(v.type), <<v.of>>)
    BY <1>5 DEF SerializeVariant
  <2>3. Image(v) = Bytes(Width(v.type), <<v.of>>)
    BY <1>5 DEF Image
  <2> QED
    BY <1>2, <1>5, <2>1, <2>2, <2>3, OneElement, SerializeKeeps
<1> QED
  BY <1>3, <1>4, <1>5

-----------------------------------------------------------------------------
(* The data set of a GetObjectPropList. *)

Filling ==
    phase = "fill" =>
        /\ HasRoom(tx)
        /\ req.list \in Lists /\ next \in Nat \ {0}

LEMMA SerializePropertyKeeps == ASSUME Filling, SerializeProperty PROVE Filling'
<1>1. phase = "fill" /\ next <= Len(req.list) /\ next' = next + 1 /\ UNCHANGED <<phase, req>>
  BY DEF SerializeProperty, phaseVars
<1>2. HasRoom(tx) /\ req.list \in Lists /\ next \in Nat \ {0}
  BY <1>1 DEF Filling
<1>3. HasRoom(tx')
  <2> DEFINE p == req.list[next]
             t1 == Serialize(tx, 4, <<p.handle>>)
             t2 == Serialize(t1, 2, <<p.code>>)
             t3 == Serialize(t2, 2, <<p.value.type>>)
  <2>1. p.handle \in Nat /\ p.code \in Nat /\ IsValue(p.value)
    <3>1. next \in 1 .. Len(req.list)
      BY <1>1, <1>2
    <3> QED
      BY <1>2, <3>1, DataPhaseAssumption
  <2>2. p.value.type \in Nat
    BY <2>1, TypesAreNumbers DEF IsValue
  <2>3. tx' = tx \/ tx' = SerializeVariant(t3, p.value)
    BY DEF SerializeProperty
  <2> HIDE DEF p
  <2>4. <<p.handle>> \in Seq(Nat) /\ <<p.code>> \in Seq(Nat) /\ <<p.value.type>> \in Seq(Nat)
    BY <2>1, <2>2, OneElement
  <2>5. HasRoom(t1)
    BY <1>2, <2>4, Widths, SerializeKeeps, Zenon DEF Appended
  <2> HIDE DEF t1
  <2>6. HasRoom(t2)
    BY <2>4, <2>5, Widths, SerializeKeeps, Zenon DEF Appended
  <2> HIDE DEF t2
  <2>7. HasRoom(t3)
    BY <2>4, <2>6, Widths, SerializeKeeps, Zenon DEF Appended
  <2> HIDE DEF t3
  <2>8. HasRoom(SerializeVariant(t3, p.value))
    BY <2>1, <2>7, ValuesWhole, Zenon DEF Appended
  <2> QED
    BY <1>2, <2>3, <2>8
<1> QED
  BY <1>1, <1>2, <1>3 DEF Filling

LEMMA NextFilling == Filling /\ [Next]_vars => Filling'
<1> SUFFICES ASSUME Filling, [Next]_vars PROVE Filling'
  OBVIOUS
<1>1. CASE SerializeProperty
  BY <1>1, SerializePropertyKeeps
<1>2. CASE GetObjectPropList
  <2>1. PICK list \in Lists :
            /\ Ask([op |-> "GetObjectPropList", list |-> list])
            /\ tx' = Serialize(NewTx(BufferMax - HeaderSize), 4, <<1>>)
    BY <1>2 DEF GetObjectPropList
  <2>2. req'.list = list /\ next' = 1
    BY <2>1 DEF Ask
  <2> DEFINE t == NewTx(BufferMax - HeaderSize)
  <2>3. HasRoom(t)
    <3>1. <<>> \in Seq(Octets) /\ Len(<<>>) = 0
      OBVIOUS
    <3>2. t = [cap |-> BufferMax, payload |-> <<>>, length |-> 0]
      BY Constants DEF NewTx
    <3> HIDE DEF t
    <3>3. t \in TxContainers /\ t.payload = <<>> /\ t.cap = BufferMax
      BY <3>1, <3>2, Constants DEF TxContainers
    <3>4. Offset(t) = HeaderSize
      BY <3>1, <3>3, Constants DEF Offset
    <3> QED
      BY <3>3, <3>4, Constants DEF HasRoom
  <2> HIDE DEF t
  <2>4. HasRoom(Serialize(t, 4, <<1>>))
    BY <2>3, Widths, OneElement, SerializeKeeps, Zenon DEF Appended
  <2>5. HasRoom(tx')
    BY <2>1, <2>4 DEF t
  <2> QED
    BY <2>2, <2>5 DEF Filling
<1>3. CASE UserResizes \/ WriteNow \/ WriteTooLong \/ UNCHANGED vars
  BY <1>3 DEF UserResizes, WriteNow, WriteTooLong, Writing, Filling, vars, phaseVars, listVars
<1>4. CASE WriteReturns \/ WriteGivenUp
  <2>1. phase' # "fill"
    BY <1>4 DEF WriteReturns, WriteGivenUp, Written, Respond
  <2> QED
    BY <2>1 DEF Filling
<1>5. CASE GetObject \/ GetPartialObject \/ GetPartialObject64
  <2>1. phase' # "fill"
    BY <1>5 DEF GetObject, GetPartialObject, GetPartialObject64, GetObjectCommon, Respond
  <2> QED
    BY <2>1 DEF Filling
<1>6. CASE SendFirst \/ SendMore \/ SendDone \/ SendList
  <2>1. phase' # "fill"
    BY <1>6 DEF SendFirst, SendMore, SendDone, SendList, StartWriter, Respond
  <2> QED
    BY <2>1 DEF Filling
<1>7. CASE SetObjectPropList \/ ReceivePacket \/ ReadCount \/ SetProperty \/ SetDone
  <2>1. phase' # "fill"
    BY <1>7 DEF SetObjectPropList, ReceivePacket, ReadCount, SetProperty, SetDone, Respond, phaseVars
  <2> QED
    BY <2>1 DEF Filling
<1> QED
  BY <1>1, <1>2, <1>3, <1>4, <1>5, <1>6, <1>7 DEF Next

\* The data set of a GetObjectPropList never outgrows its buffer, and nothing
\* in it is garbled, whatever the properties are and however small the buffer
\* was at first. (serializePropList, MTPTxContainer)
THEOREM DatasetFits == Spec => [](phase = "fill" => HasRoom(tx))
<1>1. Init => Filling
  BY DEF Init, Filling
<1>2. Filling /\ [Next]_vars => Filling'
  BY NextFilling
<1>3. Filling => (phase = "fill" => HasRoom(tx))
  BY DEF Filling
<1> QED
  BY <1>1, <1>2, <1>3, PTL DEF Spec
=============================================================================
