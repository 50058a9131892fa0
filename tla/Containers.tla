------------------------------ MODULE Containers ------------------------------
(***************************************************************************)
(* MTPContainer, MTPTxContainer and MTPRxContainer: how values become the  *)
(* bytes of a container and are read back.  A container is a record, and   *)
(* the methods are functions of it.                                        *)
(*                                                                         *)
(* Byte number i of an element v of w bytes is <<v, i>>, so that bytes     *)
(* read with the wrong width or from the wrong place are seen to be wrong. *)
(* The header is one element, the length of the container; its type, code  *)
(* and transaction id are left out.  A value is a record [type, of], of    *)
(* being an integer, a sequence of integers, or the UTF-16 units of a      *)
(* string; the number of a type says the width of its elements.            *)
(***************************************************************************)
EXTENDS Integers, Sequences

CONSTANTS
    HeaderSize,   \* MTP_HEADER_SIZE: 12
    Expansion,    \* EXPANSION_STEP_SIZE: 512
    StringLimit   \* units of a string without its terminator: 254

ASSUME ContainersAssumption ==
    HeaderSize \in Nat \ {0} /\ Expansion \in Nat /\ StringLimit \in Nat

Least(a, b) == IF a < b THEN a ELSE b

\* The data types: integers of w bytes, arrays of them, strings
Integer(w) == w
Array(w) == 100 + w
String == 200
IsArray(type) == type \in {Array(w) : w \in {1, 2, 4, 8, 16}}
Width(type) == IF type = String THEN 2 ELSE IF IsArray(type) THEN type - 100 ELSE type

Types == {Integer(w) : w \in {1, 2, 4, 8, 16}} \cup {Array(w) : w \in {1, 2, 4, 8, 16}} \cup {String}

IsValue(v) ==
    /\ v.type \in Types
    /\ IF v.type = String \/ IsArray(v.type) THEN v.of \in Seq(Nat) ELSE v.of \in Nat

\* What is read where nothing of that kind was written
Garbled == -1

Bytes(w, elements) ==
    [k \in 1 .. w * Len(elements) |-> <<elements[(k - 1) \div w + 1], (k - 1) % w>>]

-----------------------------------------------------------------------------
(* MTPTxContainer: cap is m_bufferCapacity, payload what m_offset has      *)
(* passed of the payload, length the one that was set, or 0.               *)

NewTx(estimate) == [cap |-> HeaderSize + estimate, payload |-> <<>>, length |-> 0]

Offset(t) == HeaderSize + Len(t.payload)

\* mutant: the buffer is as large as the first estimate for ever
ExpandBufferNot(t, n) == t

ExpandBuffer(t, n) == [t EXCEPT !.cap = @ + n + Expansion]

\* What does not fit is written over something else.
Store(t, bytes) ==
    [t EXCEPT !.payload = @ \o [k \in 1 .. Len(bytes) |->
                                    IF Offset(t) + k <= t.cap THEN bytes[k] ELSE <<Garbled, 0>>]]

Serialize(t, w, elements) ==
    LET n == Offset(t) + w * Len(elements)
    IN  Store(IF n > t.cap THEN ExpandBuffer(t, n) ELSE t, Bytes(w, elements))

\* Cut to the longest string there can be, and at a terminator within
Units(s) ==
    LET ends == {k \in 1 .. Least(Len(s), StringLimit) : s[k] = 0}
    IN  IF ends = {} THEN SubSeq(s, 1, Least(Len(s), StringLimit))
        ELSE SubSeq(s, 1, (CHOOSE k \in ends : \A j \in ends : k <= j) - 1)

SerializeString(t, s) ==
    LET units == Units(s)
    IN  IF units = <<>> THEN Serialize(t, 1, <<0>>)
        ELSE Serialize(Serialize(t, 1, <<Len(units) + 1>>), 2, Append(units, 0))

SerializeVector(t, w, elements) == Serialize(Serialize(t, 4, <<Len(elements)>>), w, elements)

\* 128 bit integers: room is made for the array as a whole.
SerializeVector128(t, elements) ==
    LET size == 16 * Len(elements) + 4
        roomy == IF t.cap < Offset(t) + size THEN ExpandBuffer(t, size) ELSE t
    IN  Store(Serialize(roomy, 4, <<Len(elements)>>), Bytes(16, elements))

SerializeVariant(t, v) ==
    CASE v.type = String    -> SerializeString(t, v.of)
      [] IsArray(v.type)    -> IF Width(v.type) = 16 THEN SerializeVector128(t, v.of)
                               ELSE SerializeVector(t, Width(v.type), v.of)
      [] OTHER              -> Serialize(t, Width(v.type), <<v.of>>)

\* memcpy() to the payload of an empty container, and seek() over it: the
\* offset stays when there is not as much room.
Fill(t, bytes) == IF Offset(t) + Len(bytes) <= t.cap THEN Store(t, bytes) ELSE t

SetContainerLength(t, n) == [t EXCEPT !.length = n]

\* putl32() at the start of the payload
PutFirst(t, n) == [t EXCEPT !.payload = Bytes(4, <<n>>) \o SubSeq(@, 5, Len(@))]

ContainerLength(t) == IF t.length = 0 THEN Offset(t) ELSE t.length
Buffer(t) == Bytes(HeaderSize, <<ContainerLength(t)>>) \o t.payload

-----------------------------------------------------------------------------
(* MTPRxContainer: buffer is what has been received of expected bytes.     *)

NewRx(bytes) == [buffer |-> bytes, expected |-> bytes[1][1], offset |-> HeaderSize]

\* A chunk that is too long is dropped as a whole.
AppendChunk(r, bytes) ==
    IF Len(r.buffer) + Len(bytes) <= r.expected THEN [r EXCEPT !.buffer = @ \o bytes] ELSE r

ElementAt(r, w, at) ==
    IF at \in 0 .. Len(r.buffer) - w /\ \A i \in 0 .. w - 1 : r.buffer[at + i + 1] = <<r.buffer[at + 1][1], i>>
    THEN r.buffer[at + 1][1] ELSE Garbled

Deserialize(r, w, n) == [k \in 1 .. n |-> ElementAt(r, w, r.offset + (k - 1) * w)]
Skip(r, n) == [r EXCEPT !.offset = @ + n]

DeserializeString(r) ==
    LET n == ElementAt(r, 1, r.offset)
    IN  IF n = 0 THEN [of |-> <<>>, rx |-> Skip(r, 1)]
        ELSE [of |-> Deserialize(Skip(r, 1), 2, n - 1), rx |-> Skip(r, 1 + 2 * n)]

DeserializeVector(r, w) ==
    LET n == ElementAt(r, 4, r.offset)
    IN  [of |-> Deserialize(Skip(r, 4), w, n), rx |-> Skip(r, 4 + w * n)]

\* What is read, and the container after it; nothing of an unknown type
DeserializeVariant(r, type) ==
    CASE type = String      -> DeserializeString(r)
      [] IsArray(type)      -> DeserializeVector(r, Width(type))
      [] type \notin Types  -> [of |-> Garbled, rx |-> r]
      [] OTHER              -> [of |-> ElementAt(r, type, r.offset), rx |-> Skip(r, type)]
=============================================================================
