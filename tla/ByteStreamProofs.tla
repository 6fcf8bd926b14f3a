-------------------------- MODULE ByteStreamProofs --------------------------
(***************************************************************************)
(* However the bytes are cut, what is read is what was sent.               *)
(*                                                                         *)
(* A command is known by what is sent of it: its header announces the      *)
(* payload behind it and names one class (Sound), and what is read from    *)
(* it shows what its sender meant (Agreed).  The bytes of all commands are *)
(* laid one behind the other; the loop of recv reads those that are whole, *)
(* up to a place of its own, and keeps the rest (StreamInv).  That every   *)
(* class of command is Agreed is shown class by class.                     *)
(***************************************************************************)
EXTENDS ByteStream, SequenceTheorems, WellFoundedInduction, TLAPS

(***************************************************************************)
(* Numbers.                                                                *)
(***************************************************************************)
Below == {p \in Nat \X Nat : p[1] < p[2]}

\* A set of natural numbers has a smallest element.
LEMMA Smallest ==
  ASSUME NEW S \in SUBSET Nat, S # {}
  PROVE  \E x \in S : \A y \in S : x <= y
<1>1. IsWellFoundedOn(Below, Nat)
  BY NatLessThanWellFounded DEF OpToRel, Below
<1>2. PICK x \in S : \A y \in S : ~(<<y, x>> \in Below)
  BY <1>1, WFMin
<1>3. \A y \in S : x <= y
  <2>. SUFFICES ASSUME NEW y \in S, y < x PROVE FALSE
    OBVIOUS
  <2>1. <<y, x>> \in Below
    BY DEF Below
  <2>. QED  BY <1>2, <2>1
<1>. QED  BY <1>3

\* Induction up to a bound, for a property given as the set of the numbers that have it.
LEMMA Induction ==
  ASSUME NEW N \in Nat, NEW S, 0 \in S, \A n \in 0 .. N - 1 : n \in S => n + 1 \in S
  PROVE  \A n \in 0 .. N : n \in S
<1>. SUFFICES ASSUME {n \in 0 .. N : n \notin S} # {} PROVE FALSE
  OBVIOUS
<1>. DEFINE T == {n \in 0 .. N : n \notin S}
<1>1. PICK x \in T : \A y \in T : x <= y
  <2>1. T \in SUBSET Nat /\ T # {}
    OBVIOUS
  <2>. HIDE DEF T
  <2>. QED  BY <2>1, Smallest
<1>2. x # 0 /\ x - 1 \in 0 .. N - 1
  BY <1>1
<1>3. x - 1 \in S
  BY <1>1, <1>2
<1>. QED  BY <1>1, <1>2, <1>3

\* A field of 16 bits holds less than one of 32, and enough for what follows.
LEMMA Widths ==
  /\ MAX_16BIT \in Nat /\ MAX_32BIT \in Nat
  /\ MAX_16BIT >= 63 /\ MAX_32BIT >= 4095 /\ MAX_16BIT <= MAX_32BIT
<1>1. Byte \in Nat /\ Byte >= 8
  BY ByteAssumption
<1>. DEFINE B2 == Byte * Byte
            B3 == B2 * Byte
            B4 == B3 * Byte
<1>2. B2 \in Nat /\ B2 >= 64
  BY <1>1
<1>3. B3 \in Nat /\ B3 >= 512 /\ B3 >= B2
  <2>. HIDE DEF B2
  <2>. QED  BY <1>1, <1>2
<1>4. B4 \in Nat /\ B4 >= 4096 /\ B4 >= B3
  <2>. HIDE DEF B3
  <2>. QED  BY <1>1, <1>3
<1>5. MAX_16BIT = B2 - 1 /\ MAX_32BIT = B4 - 1
  BY <1>1 DEF MAX_16BIT, MAX_32BIT
<1>. HIDE DEF B2, B3, B4
<1>. QED  BY <1>2, <1>3, <1>4, <1>5

\* What fits in a field is kept in it.
LEMMA Kept ==
  /\ \A n \in 0 .. MAX_16BIT : u16(n) = n
  /\ \A n \in 0 .. MAX_32BIT : u32(n) = n
  /\ \A n \in Nat : u16(n) \in 0 .. MAX_16BIT /\ u32(n) \in 0 .. MAX_32BIT
BY Widths DEF u16, u32

(***************************************************************************)
(* Bytes and headers.                                                      *)
(***************************************************************************)
\* the headers of 24 bytes, field by field
LongHeaders  == [command : U16, payload_size : U32, data_type : U16, data_count : U32,
                 parameter1 : U32, parameter2 : U32, extended : {TRUE}]

\* what the other bytes of a payload encode
Objects == {s.text : s \in Texts} \cup {d.v : d \in Values} \cup Metadata \cup {0} \cup U16 \cup Events

Plain == {"text", "nul", "version", "metadata", "data", "event"}

Octets == ({"header"} \X ShortHeaders \X Nat) \cup ({"sizes"} \X (U32 \X U32) \X Nat)
          \cup (Plain \X Objects \X Nat)

\* An object in a byte of a header is a header, in a byte of sizes two numbers.
LEMMA OctetTypes ==
  ASSUME NEW o \in Octets
  PROVE  /\ o[1] = "header" => o[2] \in ShortHeaders
         /\ o[1] = "sizes" => o[2] \in U32 \X U32
BY DEF Octets, Plain

\* the header that the first 16 bytes of an encoded header are
FirstHeader(h) == IF h.extended THEN [h EXCEPT !.payload_size = MARKER1, !.data_count = MARKER2,
                                               !.extended = FALSE]
                  ELSE h

\* Two sequences, one behind the other.
LEMMA Joined ==
  ASSUME NEW S, NEW s \in Seq(S), NEW t \in Seq(S)
  PROVE  /\ s \o t \in Seq(S) /\ Len(s \o t) = Len(s) + Len(t)
         /\ \A i \in 1 .. Len(s) : (s \o t)[i] = s[i]
         /\ \A i \in 1 .. Len(t) : (s \o t)[Len(s) + i] = t[i]
OBVIOUS

\* Sequences of the same elements are the same.
LEMMA SameSequence ==
  ASSUME NEW S, NEW s \in Seq(S), NEW t \in Seq(S), Len(s) = Len(t),
         \A i \in 1 .. Len(t) : s[i] = t[i]
  PROVE  s = t
OBVIOUS

\* The bytes of a header, one by one.
LEMMA HeaderOctets ==
  ASSUME NEW h \in ShortHeaders \cup LongHeaders
  PROVE  /\ FirstHeader(h) \in ShortHeaders
         /\ HeaderBytes(h) \in Seq(Octets)
         /\ Len(HeaderBytes(h)) = HeaderSize(h)
         /\ (HeaderSize(h) = 24 \/ (~h.extended /\ HeaderSize(h) = 16))
         /\ \A i \in 1 .. 16 : HeaderBytes(h)[i] = <<"header", FirstHeader(h), i>>
         /\ h.extended => \A i \in 1 .. 8 :
              HeaderBytes(h)[16 + i] = <<"sizes", <<h.payload_size, h.data_count>>, i>>
<1>1. FirstHeader(h) \in ShortHeaders
  <2>1. MARKER1 \in U16 /\ MARKER2 \in U16
    BY Widths DEF U16, MARKER1, MARKER2
  <2>2. CASE h \in ShortHeaders
    BY <2>2 DEF FirstHeader, ShortHeaders
  <2>3. CASE h \in LongHeaders
    <3>1. FirstHeader(h) = [h EXCEPT !.payload_size = MARKER1, !.data_count = MARKER2,
                                     !.extended = FALSE]
      BY <2>3 DEF FirstHeader, LongHeaders
    <3>2. /\ h.command \in U16 /\ h.data_type \in U16 /\ h.parameter1 \in U32 /\ h.parameter2 \in U32
          /\ h = [command |-> h.command, payload_size |-> h.payload_size,
                  data_type |-> h.data_type, data_count |-> h.data_count,
                  parameter1 |-> h.parameter1, parameter2 |-> h.parameter2,
                  extended |-> h.extended]
      BY <2>3 DEF LongHeaders
    <3>3. PICK g : g = [h EXCEPT !.payload_size = MARKER1]
      OBVIOUS
    <3>4. PICK f : f = [g EXCEPT !.data_count = MARKER2]
      OBVIOUS
    <3>5. FirstHeader(h) = [f EXCEPT !.extended = FALSE]
      BY <3>1, <3>3, <3>4
    <3>6. g = [command |-> h.command, payload_size |-> MARKER1, data_type |-> h.data_type,
               data_count |-> h.data_count, parameter1 |-> h.parameter1,
               parameter2 |-> h.parameter2, extended |-> h.extended]
      BY <3>2, <3>3
    <3>7. f = [command |-> h.command, payload_size |-> MARKER1, data_type |-> h.data_type,
               data_count |-> MARKER2, parameter1 |-> h.parameter1,
               parameter2 |-> h.parameter2, extended |-> h.extended]
      BY <3>4, <3>6
    <3>. QED  BY <2>1, <3>2, <3>5, <3>7 DEF ShortHeaders
  <2>. QED  BY <2>2, <2>3
<1>2. PICK first : first = [i \in 1 .. 16 |-> <<"header", FirstHeader(h), i>>]
  OBVIOUS
<1>3. first \in Seq(Octets) /\ Len(first) = 16
  BY <1>1, <1>2 DEF Octets
<1>4. CASE ~h.extended
  BY <1>1, <1>2, <1>3, <1>4 DEF FirstHeader, HeaderBytes, Bytes, HeaderSize, MessageHeaderSize
<1>5. CASE h.extended
  <2>1. h.payload_size \in U32 /\ h.data_count \in U32
    BY <1>5 DEF ShortHeaders, LongHeaders
  <2>2. PICK sizes : sizes = [i \in 1 .. 8 |-> <<"sizes", <<h.payload_size, h.data_count>>, i>>]
    OBVIOUS
  <2>3. sizes \in Seq(Octets) /\ Len(sizes) = 8
    BY <2>1, <2>2 DEF Octets
  <2>4. HeaderBytes(h) = first \o sizes
    BY <1>2, <1>5, <2>2 DEF FirstHeader, HeaderBytes, Bytes, MessageHeaderSize
  <2>5. /\ first \o sizes \in Seq(Octets)
        /\ Len(first \o sizes) = Len(first) + Len(sizes)
        /\ \A i \in 1 .. Len(first) : (first \o sizes)[i] = first[i]
        /\ \A i \in 1 .. Len(sizes) : (first \o sizes)[Len(first) + i] = sizes[i]
    <3>1. first \in Seq(Octets) /\ sizes \in Seq(Octets)
      BY <1>3, <2>3
    <3>. QED  BY <3>1, Joined
  <2>6. HeaderBytes(h) \in Seq(Octets) /\ Len(HeaderBytes(h)) = 24
    BY <1>3, <2>3, <2>4, <2>5
  <2>7. /\ \A i \in 1 .. 16 : HeaderBytes(h)[i] = first[i]
        /\ \A i \in 1 .. 8 : HeaderBytes(h)[16 + i] = sizes[i]
    BY <1>3, <2>3, <2>4, <2>5
  <2>. QED  BY <1>1, <1>2, <1>5, <2>2, <2>6, <2>7 DEF HeaderSize, ExtendedMessageHeaderSize
<1>. QED  BY <1>4, <1>5

\* What a slice is, of any sequence.
LEMMA Sliced ==
  ASSUME NEW S, NEW b \in Seq(S), NEW m \in Nat \ {0}, NEW n \in Nat
  PROVE  LET e == IF n > Len(b) THEN Len(b) ELSE n
         IN  /\ Slice(b, m, n) \in Seq(S)
             /\ Len(Slice(b, m, n)) = IF m <= e THEN e - m + 1 ELSE 0
             /\ \A i \in 1 .. e - m + 1 : Slice(b, m, n)[i] = b[m + i - 1]
<1>. DEFINE e == IF n > Len(b) THEN Len(b) ELSE n
<1>1. e \in Nat /\ e <= Len(b) /\ Slice(b, m, n) = SubSeq(b, m, e)
  BY DEF Slice
<1>2. \A i \in m .. e : b[i] \in S
  BY <1>1
<1>. HIDE DEF e
<1>3. /\ SubSeq(b, m, e) \in Seq(S)
      /\ Len(SubSeq(b, m, e)) = IF m <= e THEN e - m + 1 ELSE 0
      /\ \A i \in 1 .. e - m + 1 : SubSeq(b, m, e)[i] = b[m + i - 1]
  BY <1>1, <1>2, SubSeqProperties
<1>. QED  BY <1>1, <1>3 DEF e

\* Whatever the bytes are, what is taken from them is a header.
LEMMA SomeHeader ==
  ASSUME NEW b \in Seq(Octets)
  PROVE  HeaderFrom(b) \in ShortHeaders
<1>1. PICK s : s = Slice(b, 1, MessageHeaderSize)
  OBVIOUS
<1>2. s \in Seq(Octets)
  BY <1>1, Sliced DEF MessageHeaderSize
<1>3. CASE IsEncoding("header", s)
  <2>1. 1 \in DOMAIN s /\ s[1] \in Octets
    BY <1>2, <1>3 DEF IsEncoding
  <2>2. s[1][1] = "header"
    BY <1>3, <2>1 DEF IsEncoding
  <2>. QED  BY <1>1, <1>3, <2>1, <2>2, OctetTypes DEF HeaderFrom
<1>4. CASE ~IsEncoding("header", s)
  <2>1. HeaderFrom(b) = MessageHeader(Unknown, 0, 0, 0, 0, 0)
    BY <1>1, <1>4 DEF HeaderFrom
  <2>2. 63 \in U16 /\ 0 \in U16 /\ 0 \in U32 /\ u16(63) = 63 /\ u16(0) = 0 /\ u32(0) = 0
    BY Widths, Kept DEF U16, U32
  <2>. QED  BY <2>1, <2>2 DEF MessageHeader, Unknown, ShortHeaders
<1>. QED  BY <1>3, <1>4

\* And with what is behind it, an extended header.
LEMMA SomeLongHeader ==
  ASSUME NEW b \in Seq(Octets)
  PROVE  ExtendedHeaderFrom(b) \in LongHeaders
<1>1. PICK s : s = Slice(b, MessageHeaderSize + 1, ExtendedMessageHeaderSize)
  OBVIOUS
<1>2. s \in Seq(Octets)
  BY <1>1, Sliced DEF MessageHeaderSize, ExtendedMessageHeaderSize
<1>3. PICK sizes : sizes = IF IsEncoding("sizes", s) THEN s[1][2] ELSE <<0, 0>>
  OBVIOUS
<1>4. sizes \in U32 \X U32
  <2>1. CASE IsEncoding("sizes", s)
    <3>1. 1 \in DOMAIN s /\ s[1] \in Octets
      BY <1>2, <2>1 DEF IsEncoding
    <3>2. s[1][1] = "sizes"
      BY <2>1, <3>1 DEF IsEncoding
    <3>. QED  BY <1>3, <2>1, <3>1, <3>2, OctetTypes
  <2>2. CASE ~IsEncoding("sizes", s)
    BY <1>3, <2>2, Widths DEF U32
  <2>. QED  BY <2>1, <2>2
<1>5. PICK h \in ShortHeaders : h = HeaderFrom(b)
  BY SomeHeader
<1>6. ExtendedHeaderFrom(b) = ExtendedMessageHeader(h.command, sizes[1], h.data_type, sizes[2],
                                                    h.parameter1, h.parameter2)
  BY <1>1, <1>3, <1>5 DEF ExtendedHeaderFrom
<1>7. sizes[1] \in U32 /\ sizes[2] \in U32
  BY <1>4
<1>8. h.command \in U16 /\ h.data_type \in U16 /\ h.parameter1 \in U32 /\ h.parameter2 \in U32
  BY DEF ShortHeaders
<1>9. /\ u16(h.command) \in U16 /\ u16(h.data_type) \in U16
      /\ u32(h.parameter1) \in U32 /\ u32(h.parameter2) \in U32
      /\ u32(sizes[1]) \in U32 /\ u32(sizes[2]) \in U32
  BY <1>7, <1>8, Kept DEF U16, U32
<1>. QED  BY <1>6, <1>9 DEF ExtendedMessageHeader, LongHeaders

\* The size of what a header announces is a number, not less than 16.
LEMMA HeaderSizes ==
  ASSUME NEW h \in ShortHeaders \cup LongHeaders
  PROVE  /\ h.payload_size \in Nat /\ HeaderSize(h) \in {16, 24}
         /\ HeaderSize(h) + h.payload_size \in Nat /\ HeaderSize(h) + h.payload_size >= 16
<1>1. h.payload_size \in Nat
  <2>1. h.payload_size \in U16 \cup U32
    BY DEF ShortHeaders, LongHeaders
  <2>. QED  BY <2>1, Widths DEF U16, U32
<1>2. HeaderSize(h) \in {16, 24}
  BY DEF HeaderSize, MessageHeaderSize, ExtendedMessageHeaderSize
<1>. QED  BY <1>1, <1>2

\* bytes_needed_for_command, case by case.
LEMMA NeededBytes ==
  ASSUME NEW b \in Seq(Octets), NEW short, short = HeaderFrom(b), NEW h, h = WholeHeader(b)
  PROVE  /\ Len(b) < 16 => bytes_needed_for_command(b) = <<NEED_DATA, 16 - Len(b)>>
         /\ ~(Len(b) < 16) /\ Marked(short) /\ Len(b) < 24
              => bytes_needed_for_command(b) = <<NEED_DATA, 24 - Len(b)>>
         /\ ~(Len(b) < 16) /\ ~(Marked(short) /\ Len(b) < 24)
              => bytes_needed_for_command(b) = <<h, Missing(h, b)>>
         /\ \A total : total = HeaderSize(h) + h.payload_size
              => /\ Len(b) < total => Missing(h, b) = total - Len(b)
                 /\ ~(Len(b) < total) => Missing(h, b) = 0
<1>1. ASSUME Len(b) < 16 PROVE bytes_needed_for_command(b) = <<NEED_DATA, 16 - Len(b)>>
  BY <1>1 DEF bytes_needed_for_command, MessageHeaderSize
<1>2. ASSUME ~(Len(b) < 16), Marked(short), Len(b) < 24
      PROVE  bytes_needed_for_command(b) = <<NEED_DATA, 24 - Len(b)>>
  BY <1>2 DEF bytes_needed_for_command, MessageHeaderSize, ExtendedMessageHeaderSize
<1>3. ASSUME ~(Len(b) < 16), ~(Marked(short) /\ Len(b) < 24)
      PROVE  bytes_needed_for_command(b) = <<h, Missing(h, b)>>
  BY <1>3 DEF bytes_needed_for_command, MessageHeaderSize, ExtendedMessageHeaderSize
<1>4. ASSUME NEW total, total = HeaderSize(h) + h.payload_size
      PROVE  /\ Len(b) < total => Missing(h, b) = total - Len(b)
             /\ ~(Len(b) < total) => Missing(h, b) = 0
  BY <1>4 DEF Missing
<1>. QED  BY <1>1, <1>2, <1>3, <1>4

\* What a slice is that lies within the sequence.
LEMMA SlicedWithin ==
  ASSUME NEW S, NEW b \in Seq(S), NEW m \in Nat \ {0}, NEW n \in Nat,
         n <= Len(b), m <= n + 1
  PROVE  /\ Slice(b, m, n) \in Seq(S)
         /\ Len(Slice(b, m, n)) = n - m + 1
         /\ \A i \in 1 .. n - m + 1 : Slice(b, m, n)[i] = b[m + i - 1]
<1>1. Slice(b, m, n) = SubSeq(b, m, n)
  BY DEF Slice
<1>2. \A i \in m .. n : b[i] \in S
  OBVIOUS
<1>. QED  BY <1>1, <1>2, SubSeqProperties

\* A command that is read takes at least the 16 bytes of its header.
LEMMA Progress ==
  ASSUME NEW b \in Seq(Octets), NEW role, read_from_bytestream(b, role).command[1] = "command"
  PROVE  /\ Len(b) >= 16
         /\ Len(read_from_bytestream(b, role).data) \in 0 .. Len(b) - 16
<1>1. PICK needed_ : needed_ = bytes_needed_for_command(b)
  OBVIOUS
<1>2. ~(needed_[2] > 0) /\ read_from_bytestream(b, role) = CommandBehind(needed_[1], b, role)
  <2>1. CASE needed_[2] > 0
    <3>1. read_from_bytestream(b, role).command = <<NEED_DATA>>
      BY <1>1, <2>1 DEF read_from_bytestream
    <3>. QED  BY <3>1 DEF NEED_DATA
  <2>2. CASE ~(needed_[2] > 0)
    BY <1>1, <2>2 DEF read_from_bytestream
  <2>. QED  BY <2>1, <2>2
<1>3. ~(Len(b) < 16)
  BY <1>1, <1>2 DEF bytes_needed_for_command, MessageHeaderSize
<1>4. PICK h \in ShortHeaders \cup LongHeaders :
        /\ needed_[1] = h
        /\ h = WholeHeader(b) /\ needed_[2] = Missing(h, b)
  <2>1. PICK short \in ShortHeaders : short = HeaderFrom(b)
    BY SomeHeader
  <2>2. PICK h : h = WholeHeader(b)
    OBVIOUS
  <2>3. h \in ShortHeaders \cup LongHeaders
    BY <2>2, SomeHeader, SomeLongHeader DEF WholeHeader
  <2>4. ~(Marked(short) /\ Len(b) < 24)
    <3>. SUFFICES ASSUME Marked(short), Len(b) < 24 PROVE FALSE
      OBVIOUS
    <3>1. needed_ = <<NEED_DATA, 24 - Len(b)>>
      BY <1>1, <1>3, <2>1, <2>2, <2>3, NeededBytes
    <3>. QED  BY <1>2, <3>1
  <2>5. needed_ = <<h, Missing(h, b)>>
    BY <1>1, <1>3, <2>1, <2>2, <2>3, <2>4, NeededBytes
  <2>. QED  BY <2>2, <2>3, <2>5
<1>5. PICK total : total = HeaderSize(h) + h.payload_size
  OBVIOUS
<1>6. total \in Nat /\ total >= 16 /\ total <= Len(b)
  <2>1. total \in Nat /\ total >= 16
    BY <1>5, HeaderSizes
  <2>2. Len(b) < total => Missing(h, b) = total - Len(b)
    BY <1>4, <1>5, NeededBytes
  <2>. QED  BY <1>2, <1>4, <2>1, <2>2
<1>7. read_from_bytestream(b, role).data = Slice(b, total + 1, Len(b))
  <2>1. CASE CommandClasses(role, h.command) = {}
    <3>1. read_from_bytestream(b, role).command = <<ProtocolError>>
      BY <1>2, <1>4, <2>1 DEF CommandBehind
    <3>. QED  BY <3>1 DEF ProtocolError
  <2>2. CASE CommandClasses(role, h.command) # {}
    BY <1>2, <1>4, <1>5, <2>2 DEF CommandBehind
  <2>. QED  BY <2>1, <2>2
<1>8. Len(Slice(b, total + 1, Len(b))) = Len(b) - (total + 1) + 1
  <2>1. PICK m \in Nat \ {0} : m = total + 1
    BY <1>6
  <2>2. PICK n \in Nat : n = Len(b)
    OBVIOUS
  <2>3. n <= Len(b) /\ m <= n + 1
    BY <1>6, <2>1, <2>2
  <2>4. Len(Slice(b, m, n)) = n - m + 1
    BY <2>3, SlicedWithin
  <2>. QED  BY <2>1, <2>2, <2>4
<1>. QED  BY <1>3, <1>6, <1>7, <1>8

(***************************************************************************)
(* The loop of recv.                                                       *)
(***************************************************************************)
\* the last n bytes
Rest(bytes, n) == SubSeq(bytes, Len(bytes) - n + 1, Len(bytes))

\* what the loop gives where n bytes are left, if f is what it gives where fewer are
Round(bytes, role, f, n) ==
  LET result == read_from_bytestream(Rest(bytes, n), role)
  IN  IF result.command[1] # "command"
      THEN [commands |-> <<>>, data |-> Rest(bytes, n), needed |-> result.needed,
            failed |-> result.command[1] = ProtocolError]
      ELSE [f[Len(result.data)] EXCEPT !.commands = <<result.command[2]>> \o @]

Rounds(bytes, role) == CHOOSE f : f = [n \in 0 .. Len(bytes) |-> Round(bytes, role, f, n)]

\* The last n bytes are n bytes.
LEMMA Rests ==
  ASSUME NEW S, NEW bytes \in Seq(S), NEW n \in 0 .. Len(bytes)
  PROVE  /\ Rest(bytes, n) \in Seq(S) /\ Len(Rest(bytes, n)) = n
         /\ \A i \in 1 .. n : Rest(bytes, n)[i] = bytes[Len(bytes) - n + i]
<1>1. PICK first : first = Len(bytes) - n + 1
  OBVIOUS
<1>2. first \in Int /\ Len(bytes) \in Int /\ \A i \in first .. Len(bytes) : bytes[i] \in S
  BY <1>1
<1>3. /\ SubSeq(bytes, first, Len(bytes)) \in Seq(S)
      /\ Len(SubSeq(bytes, first, Len(bytes)))
         = IF first <= Len(bytes) THEN Len(bytes) - first + 1 ELSE 0
      /\ \A i \in 1 .. Len(bytes) - first + 1 :
           SubSeq(bytes, first, Len(bytes))[i] = bytes[first + i - 1]
  BY <1>2, SubSeqProperties
<1>. QED  BY <1>1, <1>3 DEF Rest

\* A round looks only at what is given where fewer bytes are left.
LEMMA RoundsLookDown ==
  ASSUME NEW bytes \in Seq(Octets), NEW role, NEW n \in 0 .. Len(bytes), NEW f, NEW g,
         \A m \in 0 .. n - 1 : f[m] = g[m]
  PROVE  Round(bytes, role, f, n) = Round(bytes, role, g, n)
<1>1. PICK result : result = read_from_bytestream(Rest(bytes, n), role)
  OBVIOUS
<1>2. CASE result.command[1] # "command"
  BY <1>1, <1>2 DEF Round
<1>3. CASE result.command[1] = "command"
  <2>1. Rest(bytes, n) \in Seq(Octets) /\ Len(Rest(bytes, n)) = n
    BY Rests
  <2>2. Len(result.data) \in 0 .. n - 1
    BY <1>1, <1>3, <2>1, Progress
  <2>3. f[Len(result.data)] = g[Len(result.data)]
    BY <2>2
  <2>. QED  BY <1>1, <1>3, <2>3, Zenon DEF Round
<1>. QED  BY <1>2, <1>3

\* The recursion of the loop is well founded.
LEMMA RoundsAreDefined ==
  ASSUME NEW bytes \in Seq(Octets), NEW role
  PROVE  \E f : f = [n \in 0 .. Len(bytes) |-> Round(bytes, role, f, n)]
<1>. DEFINE Upto(N, f) == f = [n \in 0 .. N |-> Round(bytes, role, f, n)]
            Good == {N \in 0 .. Len(bytes) : \E f : Upto(N, f)}
<1>1. Len(bytes) \in Nat
  OBVIOUS
<1>2. 0 \in Good
  <2>1. PICK f : f = [n \in 0 .. 0 |-> Round(bytes, role, <<>>, n)]
    OBVIOUS
  <2>2. Round(bytes, role, <<>>, 0) = Round(bytes, role, f, 0)
    BY RoundsLookDown
  <2>3. Upto(0, f)
    BY <2>1, <2>2
  <2>. QED  BY <1>1, <2>3
<1>3. ASSUME NEW N \in 0 .. Len(bytes) - 1, N \in Good PROVE N + 1 \in Good
  <2>1. PICK f : Upto(N, f)
    BY <1>3
  <2>2. PICK g : g = [n \in 0 .. N + 1 |-> Round(bytes, role, f, n)]
    OBVIOUS
  <2>3. \A n \in 0 .. N : g[n] = f[n]
    BY <2>1, <2>2
  <2>4. ASSUME NEW n \in 0 .. N + 1 PROVE Round(bytes, role, f, n) = Round(bytes, role, g, n)
    <3>1. n \in 0 .. Len(bytes) /\ \A m \in 0 .. n - 1 : f[m] = g[m]
      BY <1>1, <2>3
    <3>. QED  BY <3>1, RoundsLookDown
  <2>5. Upto(N + 1, g)
    BY <2>2, <2>4
  <2>. QED  BY <1>1, <2>5
<1>. HIDE DEF Good
<1>4. \A N \in 0 .. Len(bytes) : N \in Good
  BY <1>1, <1>2, <1>3, Induction
<1>. QED  BY <1>1, <1>4 DEF Good

\* ReadAll is its last round, and each round is what it should be.
LEMMA ReadAllRounds ==
  ASSUME NEW bytes \in Seq(Octets), NEW role
  PROVE  /\ ReadAll(bytes, role) = Rounds(bytes, role)[Len(bytes)]
         /\ \A n \in 0 .. Len(bytes) :
              Rounds(bytes, role)[n] = Round(bytes, role, Rounds(bytes, role), n)
<1>1. ReadAll(bytes, role) = Rounds(bytes, role)[Len(bytes)]
  BY DEF ReadAll, Rounds, Round, Rest
<1>2. Rounds(bytes, role) = [n \in 0 .. Len(bytes) |-> Round(bytes, role, Rounds(bytes, role), n)]
  BY RoundsAreDefined DEF Rounds
<1>3. PICK f : /\ f = Rounds(bytes, role)
               /\ f = [n \in 0 .. Len(bytes) |-> Round(bytes, role, f, n)]
  BY <1>2, Zenon
<1>. QED  BY <1>1, <1>3

(***************************************************************************)
(* One command, read from bytes that begin as its own do.                  *)
(***************************************************************************)
Encoded(c) == HeaderBytes(c.header) \o Payload(c)

\* the bytes there are of b are those of e
Begins(b, e) == \A i \in 1 .. Len(b) : i <= Len(e) => b[i] = e[i]

\* the command that x is read as
ReadOf(x) == from_wire(ReadAs(x), x.command.header, Payload(x.command))

\* The header of what is sent keeps its fields, does not look extended when it
\* is not, announces the payload that follows, and names one class.
Sound(role, x) ==
  /\ x.command.header \in ShortHeaders \cup LongHeaders
  /\ ~x.command.header.extended => ~Marked(x.command.header)
  /\ Payload(x.command) \in Seq(Octets)
  /\ Len(Payload(x.command)) = x.command.header.payload_size
  /\ CommandClasses(role, x.command.header.command) = {ReadAs(x)}

\* The bytes of a command are its header and its payload.
LEMMA EncodedBytes ==
  ASSUME NEW role, NEW x, Sound(role, x), NEW c, c = x.command
  PROVE  /\ Encoded(c) \in Seq(Octets)
         /\ Len(Encoded(c)) = HeaderSize(c.header) + c.header.payload_size
         /\ (HeaderSize(c.header) = 24 \/ (~c.header.extended /\ HeaderSize(c.header) = 16))
         /\ \A i \in 1 .. 16 : Encoded(c)[i] = <<"header", FirstHeader(c.header), i>>
         /\ c.header.extended => \A i \in 1 .. 8 :
              Encoded(c)[16 + i] = <<"sizes", <<c.header.payload_size, c.header.data_count>>, i>>
         /\ \A i \in 1 .. Len(Payload(c)) : Encoded(c)[HeaderSize(c.header) + i] = Payload(c)[i]
<1>1. c.header \in ShortHeaders \cup LongHeaders /\ Payload(c) \in Seq(Octets)
      /\ Len(Payload(c)) = c.header.payload_size
  BY DEF Sound
<1>2. PICK h \in ShortHeaders \cup LongHeaders : h = c.header
  BY <1>1
<1>3. PICK hb : hb = HeaderBytes(h)
  OBVIOUS
<1>4. PICK p : p = Payload(c)
  OBVIOUS
<1>5. /\ hb \in Seq(Octets) /\ Len(hb) = HeaderSize(h)
      /\ (HeaderSize(h) = 24 \/ (~h.extended /\ HeaderSize(h) = 16))
      /\ \A i \in 1 .. 16 : hb[i] = <<"header", FirstHeader(h), i>>
      /\ h.extended => \A i \in 1 .. 8 : hb[16 + i] = <<"sizes", <<h.payload_size, h.data_count>>, i>>
  BY <1>3, HeaderOctets
<1>6. /\ hb \o p \in Seq(Octets) /\ Len(hb \o p) = Len(hb) + Len(p)
      /\ \A i \in 1 .. Len(hb) : (hb \o p)[i] = hb[i]
      /\ \A i \in 1 .. Len(p) : (hb \o p)[Len(hb) + i] = p[i]
  <2>1. hb \in Seq(Octets) /\ p \in Seq(Octets)
    BY <1>1, <1>4, <1>5
  <2>. QED  BY <2>1, Joined
<1>7. Encoded(c) = hb \o p
  BY <1>2, <1>3, <1>4 DEF Encoded
<1>8. PICK e : e = hb \o p
  OBVIOUS
<1>9. \A i \in 1 .. 16 : e[i] = <<"header", FirstHeader(h), i>>
  <2>. SUFFICES ASSUME NEW i \in 1 .. 16 PROVE e[i] = <<"header", FirstHeader(h), i>>
    OBVIOUS
  <2>1. Len(hb) \in Int /\ Len(hb) >= 16
    BY <1>5
  <2>2. i \in 1 .. Len(hb)
    BY <2>1
  <2>. QED  BY <1>5, <1>6, <1>8, <2>2
<1>10. h.extended => \A i \in 1 .. 8 : e[16 + i] = <<"sizes", <<h.payload_size, h.data_count>>, i>>
  <2>. SUFFICES ASSUME h.extended, NEW i \in 1 .. 8
                PROVE  e[16 + i] = <<"sizes", <<h.payload_size, h.data_count>>, i>>
    OBVIOUS
  <2>1. Len(hb) = 24
    <3>1. Len(hb) = HeaderSize(h) /\ (HeaderSize(h) = 24 \/ (~h.extended /\ HeaderSize(h) = 16))
      BY <1>5
    <3>. QED  BY <3>1
  <2>2. 16 + i \in 1 .. Len(hb)
    BY <2>1
  <2>3. e[16 + i] = hb[16 + i]
    BY <1>6, <1>8, <2>2
  <2>. QED  BY <1>5, <2>3
<1>11. e \in Seq(Octets) /\ Len(e) = HeaderSize(h) + h.payload_size
  <2>1. Len(hb) = HeaderSize(h) /\ Len(p) = h.payload_size
    BY <1>1, <1>2, <1>4, <1>5
  <2>2. hb \o p \in Seq(Octets) /\ Len(hb \o p) = Len(hb) + Len(p)
    BY <1>6
  <2>. QED  BY <1>8, <2>1, <2>2
<1>12. \A i \in 1 .. Len(p) : e[HeaderSize(h) + i] = p[i]
  <2>1. Len(hb) = HeaderSize(h)
    BY <1>5
  <2>. QED  BY <1>6, <1>8, <2>1
<1>13. (HeaderSize(h) = 24 \/ (~h.extended /\ HeaderSize(h) = 16))
  BY <1>5
<1>14. Encoded(c) = e
  BY <1>7, <1>8
<1>. QED  BY <1>2, <1>4, <1>9, <1>10, <1>11, <1>12, <1>13, <1>14

\* Joining octets is associative.
LEMMA Regrouped ==
  ASSUME NEW s \in Seq(Octets), NEW t \in Seq(Octets), NEW u \in Seq(Octets)
  PROVE  (s \o t) \o u = s \o (t \o u)
BY ConcatAssociative

\* Its last bytes are its payload.
LEMMA PayloadBytes ==
  ASSUME NEW role, NEW x, Sound(role, x), NEW c, c = x.command
  PROVE  \A i \in 1 .. Len(Payload(c)) : Encoded(c)[HeaderSize(c.header) + i] = Payload(c)[i]
<1>. SUFFICES ASSUME NEW i \in 1 .. Len(Payload(c))
              PROVE  Encoded(c)[HeaderSize(c.header) + i] = Payload(c)[i]
  OBVIOUS
<1>1. c.header \in ShortHeaders \cup LongHeaders /\ Payload(c) \in Seq(Octets)
  BY DEF Sound
<1>2. PICK hb, p : hb = HeaderBytes(c.header) /\ p = Payload(c)
  OBVIOUS
<1>3. hb \in Seq(Octets) /\ Len(hb) = HeaderSize(c.header) /\ p \in Seq(Octets)
  BY <1>1, <1>2, HeaderOctets
<1>4. i \in 1 .. Len(p)
  BY <1>2
<1>5. (hb \o p)[Len(hb) + i] = p[i]
  BY <1>3, <1>4, Joined
<1>6. Encoded(c) = hb \o p
  BY <1>2 DEF Encoded
<1>. QED  BY <1>2, <1>3, <1>5, <1>6

\* The header is read back from bytes that begin with it.
LEMMA HeaderIsRead ==
  ASSUME NEW role, NEW x, Sound(role, x), NEW c, c = x.command,
         NEW b \in Seq(Octets), Begins(b, Encoded(c)), ~(Len(b) < 16)
  PROVE  /\ HeaderFrom(b) = FirstHeader(c.header)
         /\ Marked(HeaderFrom(b)) <=> c.header.extended
         /\ (c.header.extended => ~(Len(b) < 24)) => WholeHeader(b) = c.header
<1>1. PICK h \in ShortHeaders \cup LongHeaders : h = c.header /\ (~h.extended => ~Marked(h))
  BY DEF Sound
<1>2. PICK e : e = Encoded(c)
  OBVIOUS
<1>3. /\ e \in Seq(Octets)
      /\ Len(e) = HeaderSize(h) + h.payload_size
      /\ (HeaderSize(h) = 24 \/ (~h.extended /\ HeaderSize(h) = 16))
      /\ \A i \in 1 .. 16 : e[i] = <<"header", FirstHeader(h), i>>
      /\ h.extended => \A i \in 1 .. 8 : e[16 + i] = <<"sizes", <<h.payload_size, h.data_count>>, i>>
  BY <1>1, <1>2, EncodedBytes
<1>4. h.payload_size \in Nat /\ Len(e) >= 16 /\ (h.extended => Len(e) >= 24)
  <2>1. h.payload_size \in Nat
    BY HeaderSizes
  <2>2. Len(e) = HeaderSize(h) + h.payload_size /\ (HeaderSize(h) = 24 \/ (~h.extended /\ HeaderSize(h) = 16))
    BY <1>3
  <2>. QED  BY <2>1, <2>2
<1>5. HeaderFrom(b) = FirstHeader(h)
  <2>1. PICK s : s = Slice(b, 1, 16)
    OBVIOUS
  <2>2. /\ s \in Seq(Octets) /\ Len(s) = 16
        /\ \A i \in 1 .. 16 : s[i] = b[i]
    <3>1. s \in Seq(Octets)
      BY <2>1, SlicedWithin
    <3>2. s = SubSeq(b, 1, 16)
      BY <2>1 DEF Slice
    <3>. QED  BY <3>1, <3>2
  <2>3. \A i \in 1 .. 16 : b[i] = <<"header", FirstHeader(h), i>>
    <3>. SUFFICES ASSUME NEW i \in 1 .. 16 PROVE b[i] = <<"header", FirstHeader(h), i>>
      OBVIOUS
    <3>1. i \in 1 .. Len(b) /\ i <= Len(e)
      BY <1>4
    <3>. QED  BY <1>2, <1>3, <3>1 DEF Begins
  <2>4. \A i \in 1 .. Len(s) : s[i] = <<"header", FirstHeader(h), i>>
    BY <2>2, <2>3
  <2>5. IsEncoding("header", s) /\ s[1][2] = FirstHeader(h)
    <3>1. s \in Seq(Octets)
      BY <2>2
    <3>2. Len(s) > 0
      BY <2>2
    <3>. QED  BY <2>4, <3>1, <3>2 DEF IsEncoding
  <2>. QED  BY <2>1, <2>5 DEF HeaderFrom, MessageHeaderSize
<1>6. CASE ~h.extended
  <2>1. FirstHeader(h) = h
    BY <1>6 DEF FirstHeader
  <2>. QED  BY <1>1, <1>5, <1>6, <2>1 DEF WholeHeader
<1>7. CASE h.extended
  <2>1. PICK f : f = FirstHeader(h)
    OBVIOUS
  <2>2. h \in LongHeaders
    BY <1>7 DEF ShortHeaders
  <2>3. /\ f.payload_size = MAX_16BIT /\ f.data_count = 0
        /\ f.command = h.command /\ f.data_type = h.data_type
        /\ f.parameter1 = h.parameter1 /\ f.parameter2 = h.parameter2
    BY <1>7, <2>1, <2>2 DEF FirstHeader, MARKER1, MARKER2, LongHeaders
  <2>4. Marked(f)
    BY <2>3 DEF Marked
  <2>5. ASSUME ~(Len(b) < 24) PROVE WholeHeader(b) = h
    <3>1. PICK s : s = Slice(b, 17, 24)
      OBVIOUS
    <3>2. /\ s \in Seq(Octets) /\ Len(s) = 8
          /\ \A i \in 1 .. 8 : s[i] = b[16 + i]
      <4>1. s \in Seq(Octets)
        BY <2>5, <3>1, SlicedWithin
      <4>2. s = SubSeq(b, 17, 24)
        BY <2>5, <3>1 DEF Slice
      <4>. QED  BY <2>5, <4>1, <4>2
    <3>3. \A i \in 1 .. 8 : b[16 + i] = <<"sizes", <<h.payload_size, h.data_count>>, i>>
      <4>. SUFFICES ASSUME NEW i \in 1 .. 8
                    PROVE  b[16 + i] = <<"sizes", <<h.payload_size, h.data_count>>, i>>
        OBVIOUS
      <4>1. 16 + i \in 1 .. Len(b) /\ 16 + i <= Len(e)
        BY <1>4, <1>7, <2>5
      <4>2. b[16 + i] = e[16 + i]
        BY <1>2, <4>1 DEF Begins
      <4>. QED  BY <1>3, <1>7, <4>2
    <3>4. \A i \in 1 .. Len(s) : s[i] = <<"sizes", <<h.payload_size, h.data_count>>, i>>
      BY <3>2, <3>3
    <3>5. IsEncoding("sizes", s) /\ s[1][2] = <<h.payload_size, h.data_count>>
      <4>1. s \in Seq(Octets)
        BY <3>2
      <4>2. Len(s) > 0
        BY <3>2
      <4>3. PICK o : o = <<h.payload_size, h.data_count>>
        OBVIOUS
      <4>4. \A i \in 1 .. Len(s) : s[i] = <<"sizes", o, i>>
        BY <3>4, <4>3
      <4>5. IsEncoding("sizes", s) /\ s[1][2] = o
        BY <4>1, <4>2, <4>4 DEF IsEncoding
      <4>. QED  BY <4>3, <4>5
    <3>6. ExtendedHeaderFrom(b) = ExtendedMessageHeader(f.command, h.payload_size, f.data_type,
                                                        h.data_count, f.parameter1, f.parameter2)
      BY <1>5, <2>1, <3>1, <3>5 DEF ExtendedHeaderFrom, MessageHeaderSize, ExtendedMessageHeaderSize
    <3>7. /\ h.command \in U16 /\ h.data_type \in U16 /\ h.payload_size \in U32
          /\ h.data_count \in U32 /\ h.parameter1 \in U32 /\ h.parameter2 \in U32
          /\ h = [command |-> h.command, payload_size |-> h.payload_size,
                  data_type |-> h.data_type, data_count |-> h.data_count,
                  parameter1 |-> h.parameter1, parameter2 |-> h.parameter2,
                  extended |-> TRUE]
      BY <2>2 DEF LongHeaders
    <3>8. /\ u16(h.command) = h.command /\ u16(h.data_type) = h.data_type
          /\ u32(h.payload_size) = h.payload_size /\ u32(h.data_count) = h.data_count
          /\ u32(h.parameter1) = h.parameter1 /\ u32(h.parameter2) = h.parameter2
      BY <3>7, Kept DEF U16, U32
    <3>9. ExtendedHeaderFrom(b) = h
      BY <2>3, <3>6, <3>7, <3>8 DEF ExtendedMessageHeader
    <3>. QED  BY <1>5, <2>1, <2>4, <3>9 DEF WholeHeader
  <2>. QED  BY <1>1, <1>5, <1>7, <2>1, <2>4, <2>5
<1>. QED  BY <1>6, <1>7

\* A command is read when its bytes are all there, and not before; until then
\* no more bytes are asked for than it has left.
LEMMA CommandIsRead ==
  ASSUME NEW role, NEW x, Sound(role, x), NEW c, c = x.command,
         NEW b \in Seq(Octets), Begins(b, Encoded(c)), NEW result,
         result = read_from_bytestream(b, role)
  PROVE  /\ Len(Encoded(c)) \in Nat /\ Len(Encoded(c)) >= 16
         /\ Len(b) < Len(Encoded(c))
              => /\ result.command = <<NEED_DATA>>
                 /\ result.needed \in 1 .. Len(Encoded(c)) - Len(b)
         /\ ~(Len(b) < Len(Encoded(c)))
              => /\ result.command = <<"command", ReadOf(x)>>
                 /\ result.data = Slice(b, Len(Encoded(c)) + 1, Len(b))
<1>1. PICK h \in ShortHeaders \cup LongHeaders : h = c.header
  BY DEF Sound
<1>2. PICK e : e = Encoded(c)
  OBVIOUS
<1>3. /\ e \in Seq(Octets) /\ Len(e) = HeaderSize(h) + h.payload_size
      /\ (HeaderSize(h) = 24 \/ (~h.extended /\ HeaderSize(h) = 16))
      /\ \A i \in 1 .. Len(Payload(c)) : e[HeaderSize(h) + i] = Payload(c)[i]
  <2>1. Encoded(c) \in Seq(Octets)
    BY EncodedBytes
  <2>2. Len(Encoded(c)) = HeaderSize(c.header) + c.header.payload_size
    BY EncodedBytes
  <2>4. HeaderSize(c.header) = 24 \/ (~c.header.extended /\ HeaderSize(c.header) = 16)
    BY DEF HeaderSize, MessageHeaderSize, ExtendedMessageHeaderSize
  <2>3. \A i \in 1 .. Len(Payload(c)) : Encoded(c)[HeaderSize(c.header) + i] = Payload(c)[i]
    BY PayloadBytes
  <2>. QED  BY <1>1, <1>2, <2>1, <2>2, <2>3, <2>4
<1>4. PICK total : total = HeaderSize(h) + h.payload_size
  OBVIOUS
<1>5. /\ total = Len(e) /\ total \in Nat /\ total >= 16 /\ (h.extended => total >= 24)
      /\ h.payload_size \in Nat /\ HeaderSize(h) \in {16, 24}
  <2>1. h.payload_size \in Nat
    BY HeaderSizes
  <2>2. Len(e) = HeaderSize(h) + h.payload_size /\ (HeaderSize(h) = 24 \/ (~h.extended /\ HeaderSize(h) = 16))
    BY <1>3
  <2>. QED  BY <1>4, <2>1, <2>2
<1>6. PICK n : n = bytes_needed_for_command(b)
  OBVIOUS
<1>7. ASSUME n[2] > 0 PROVE result.command = <<NEED_DATA>> /\ result.needed = n[2]
  BY <1>6, <1>7 DEF read_from_bytestream
<1>8. CASE Len(b) < 16
  <2>1. n = <<NEED_DATA, 16 - Len(b)>>
    BY <1>6, <1>8, NeededBytes
  <2>2. n[2] = 16 - Len(b) /\ n[2] > 0
    BY <1>8, <2>1
  <2>3. result.command = <<NEED_DATA>> /\ result.needed = 16 - Len(b)
    BY <1>7, <2>2
  <2>. QED  BY <1>2, <1>5, <1>8, <2>3
<1>9. CASE ~(Len(b) < 16)
  <2>1. /\ Marked(HeaderFrom(b)) <=> h.extended
        /\ (h.extended => ~(Len(b) < 24)) => WholeHeader(b) = h
    BY <1>1, <1>9, HeaderIsRead
  <2>2. CASE h.extended /\ Len(b) < 24
    <3>1. n = <<NEED_DATA, 24 - Len(b)>>
      BY <1>6, <1>9, <2>1, <2>2, NeededBytes
    <3>2. n[2] = 24 - Len(b) /\ n[2] > 0
      BY <2>2, <3>1
    <3>3. result.command = <<NEED_DATA>> /\ result.needed = 24 - Len(b)
      BY <1>7, <3>2
    <3>. QED  BY <1>2, <1>5, <2>2, <3>3
  <2>3. CASE ~(h.extended /\ Len(b) < 24)
    <3>1. WholeHeader(b) = h
      BY <2>1, <2>3
    <3>2. n = <<h, Missing(h, b)>>
      BY <1>6, <1>9, <2>1, <2>3, <3>1, NeededBytes
    <3>3. /\ Len(b) < total => Missing(h, b) = total - Len(b)
          /\ ~(Len(b) < total) => Missing(h, b) = 0
      BY <1>4, <3>1, NeededBytes
    <3>4. CASE Len(b) < total
      <4>1. n[2] = total - Len(b) /\ n[2] > 0
        BY <1>5, <3>2, <3>3, <3>4
      <4>2. result.command = <<NEED_DATA>> /\ result.needed = total - Len(b)
        BY <1>7, <4>1
      <4>. QED  BY <1>2, <1>5, <3>4, <4>2
    <3>5. CASE ~(Len(b) < total)
      <4>1. n[1] = h /\ ~(n[2] > 0)
        BY <3>2, <3>3, <3>5
      <4>2. result = CommandBehind(h, b, role)
        BY <1>6, <4>1 DEF read_from_bytestream
      <4>3. CommandClasses(role, h.command) = {ReadAs(x)}
        BY <1>1 DEF Sound
      <4>4. (CHOOSE k \in CommandClasses(role, h.command) : TRUE) = ReadAs(x)
        BY <4>3
      <4>5. /\ result.data = Slice(b, total + 1, Len(b))
            /\ result.command
               = <<"command", from_wire(ReadAs(x), h, Slice(b, HeaderSize(h) + 1, total))>>
        BY <1>4, <4>2, <4>3, <4>4 DEF CommandBehind
      <4>6. Slice(b, HeaderSize(h) + 1, total) = Payload(c)
        <5>1. PICK s : s = Slice(b, HeaderSize(h) + 1, total)
          OBVIOUS
        <5>2. PICK p : p = Payload(c)
          OBVIOUS
        <5>3. p \in Seq(Octets) /\ Len(p) = h.payload_size
          BY <1>1, <5>2 DEF Sound
        <5>4. PICK k : k = HeaderSize(h)
          OBVIOUS
        <5>5. k \in Nat /\ total \in Nat /\ total = k + Len(p) /\ total <= Len(b) /\ Len(p) \in Nat
          BY <1>4, <1>5, <3>5, <5>3, <5>4
        <5>6. PICK m : m = k + 1
          OBVIOUS
        <5>7. m \in Nat \ {0} /\ m <= total + 1 /\ total - m + 1 = Len(p)
          BY <5>5, <5>6
        <5>8. /\ s \in Seq(Octets)
              /\ Len(s) = total - m + 1
              /\ \A i \in 1 .. total - m + 1 : s[i] = b[m + i - 1]
          <6>1. s = Slice(b, m, total)
            BY <5>1, <5>4, <5>6
          <6>2. m \in Nat \ {0} /\ total \in Nat /\ total <= Len(b) /\ m <= total + 1
            BY <5>5, <5>7
          <6>3. s \in Seq(Octets)
            BY <6>1, <6>2, SlicedWithin
          <6>4. Len(s) = total - m + 1
            BY <6>1, <6>2, SlicedWithin
          <6>5. \A i \in 1 .. total - m + 1 : s[i] = b[m + i - 1]
            BY <6>1, <6>2, SlicedWithin
          <6>. QED  BY <6>3, <6>4, <6>5
        <5>9. Len(s) = Len(p)
          BY <5>7, <5>8
        <5>10. ASSUME NEW i \in 1 .. Len(p) PROVE s[i] = p[i]
          <6>1. s[i] = b[m + i - 1] /\ m + i - 1 = k + i
            BY <5>5, <5>6, <5>7, <5>8
          <6>2. k + i \in 1 .. Len(b) /\ k + i <= Len(e)
            BY <1>5, <5>5
          <6>3. b[k + i] = e[k + i]
            BY <1>2, <6>2 DEF Begins
          <6>4. e[k + i] = p[i]
            BY <1>3, <5>2, <5>4
          <6>. QED  BY <6>1, <6>3, <6>4
        <5>11. s \in Seq(Octets) /\ p \in Seq(Octets)
          BY <5>3, <5>8
        <5>12. s = p
          BY <5>9, <5>10, <5>11, SameSequence
        <5>. QED  BY <5>1, <5>2, <5>12
      <4>7. result.command = <<"command", ReadOf(x)>>
        BY <1>1, <4>5, <4>6 DEF ReadOf
      <4>. QED  BY <1>2, <1>5, <3>5, <4>5, <4>7
    <3>. QED  BY <3>4, <3>5
  <2>. QED  BY <2>2, <2>3
<1>. QED  BY <1>8, <1>9

(***************************************************************************)
(* The commands of a stream, one behind the other.                         *)
(***************************************************************************)
Size(x) == Len(Encoded(x.command))

\* whole holds the bytes of all of xs; those of xs[i] end at pos[i]
Laid(whole, xs, pos) ==
  /\ whole \in Seq(Octets)
  /\ pos \in [0 .. Len(xs) -> Nat]
  /\ pos[0] = 0 /\ pos[Len(xs)] = Len(whole)
  /\ \A i \in 1 .. Len(xs) : pos[i] = pos[i - 1] + Size(xs[i])
  /\ \A i \in 1 .. Len(xs) : \A k \in 1 .. Size(xs[i]) :
       whole[pos[i - 1] + k] = Encoded(xs[i].command)[k]

\* b is what whole has from just behind the place p up to the place e
Cut(b, whole, p, e) ==
  /\ b \in Seq(Octets)
  /\ p <= e /\ Len(b) = e - p
  /\ \A q \in 1 .. Len(b) : b[q] = whole[p + q]

\* what the commands behind the i-th up to the j-th are read as
ReadFrom(xs, i, j) == [q \in 1 .. j - i |-> ReadOf(xs[i + q])]

\* what the loop gives when nothing is wrong
Given(cs, rest, n) == [commands |-> cs, data |-> rest, needed |-> n, failed |-> FALSE]

\* What the loop gives for the bytes behind pos[i] up to e: the commands up to
\* the j-th, and of the next one not all.
Outcome(r, whole, xs, pos, i, j, e) ==
  /\ r = Given(r.commands, r.data, r.needed)
  /\ r.commands = ReadFrom(xs, i, j)
  /\ Cut(r.data, whole, pos[j], e)
  /\ j < Len(xs) => e < pos[j + 1]
  /\ r.data # <<>> => j < Len(xs) /\ r.needed \in 1 .. pos[j + 1] - e

\* The places where commands end come in order.
LEMMA PlacesInOrder ==
  ASSUME NEW X, NEW role, \A x \in X : Sound(role, x),
         NEW xs \in Seq(X), NEW whole, NEW pos, Laid(whole, xs, pos)
  PROVE  \A i, j \in 0 .. Len(xs) : i <= j => pos[i] <= pos[j]
<1>1. \A i \in 0 .. Len(xs) : pos[i] \in Nat
  BY DEF Laid
<1>2. ASSUME NEW i \in 1 .. Len(xs) PROVE pos[i - 1] <= pos[i]
  <2>1. xs[i] \in X
    OBVIOUS
  <2>2. Encoded(xs[i].command) \in Seq(Octets)
    BY <2>1, EncodedBytes
  <2>3. Size(xs[i]) \in Nat
    BY <2>2 DEF Size
  <2>4. pos[i] = pos[i - 1] + Size(xs[i])
    BY DEF Laid
  <2>5. pos[i - 1] \in Nat
    BY <1>1
  <2>. QED  BY <2>3, <2>4, <2>5
<1>3. SUFFICES ASSUME NEW i \in 0 .. Len(xs) PROVE \A j \in 0 .. Len(xs) : i <= j => pos[i] <= pos[j]
  OBVIOUS
<1>4. PICK S : S = {j \in 0 .. Len(xs) : i <= j => pos[i] <= pos[j]}
  OBVIOUS
<1>5. Len(xs) \in Nat
  OBVIOUS
<1>6. 0 \in S
  BY <1>1, <1>4, <1>5
<1>7. ASSUME NEW n \in 0 .. Len(xs) - 1, n \in S PROVE n + 1 \in S
  <2>1. n + 1 \in 1 .. Len(xs)
    BY <1>5
  <2>2. pos[n] <= pos[n + 1]
    BY <1>2, <1>5, <2>1
  <2>3. pos[n] \in Nat /\ pos[n + 1] \in Nat /\ pos[i] \in Nat
    BY <1>1, <1>5
  <2>4. CASE i <= n
    BY <1>4, <1>5, <1>7, <2>2, <2>3, <2>4
  <2>5. CASE ~(i <= n)
    BY <1>4, <1>5, <2>3, <2>5
  <2>. QED  BY <2>4, <2>5
<1>8. \A n \in 0 .. Len(xs) : n \in S
  BY <1>5, <1>6, <1>7, Induction
<1>. QED  BY <1>4, <1>8

\* The bytes behind a place where a command ends begin as the next one does.
LEMMA NextBegins ==
  ASSUME NEW X, NEW role, \A x \in X : Sound(role, x),
         NEW xs \in Seq(X), NEW whole, NEW pos, Laid(whole, xs, pos),
         NEW i \in 0 .. Len(xs) - 1, NEW e \in Nat, NEW b, Cut(b, whole, pos[i], e)
  PROVE  /\ xs[i + 1] \in X /\ Size(xs[i + 1]) \in Nat
         /\ pos[i + 1] = pos[i] + Size(xs[i + 1])
         /\ Begins(b, Encoded(xs[i + 1].command))
<1>1. PICK n : n = i + 1
  OBVIOUS
<1>2. n \in 1 .. Len(xs) /\ n - 1 = i
  BY <1>1
<1>3. PICK x \in X : x = xs[n]
  BY <1>2
<1>4. Encoded(x.command) \in Seq(Octets)
  BY EncodedBytes
<1>5. Size(x) \in Nat
  BY <1>4 DEF Size
<1>6. pos[n] = pos[i] + Size(x)
  BY <1>2, <1>3 DEF Laid
<1>7. ASSUME NEW q \in 1 .. Len(b), q <= Len(Encoded(x.command))
      PROVE  b[q] = Encoded(x.command)[q]
  <2>1. b \in Seq(Octets) /\ b[q] = whole[pos[i] + q]
    BY DEF Cut
  <2>2. q \in 1 .. Size(x)
    BY <1>5, <1>7, <2>1 DEF Size
  <2>3. whole[pos[n - 1] + q] = Encoded(xs[n].command)[q]
    BY <1>2, <1>3, <2>2 DEF Laid
  <2>. QED  BY <1>2, <1>3, <2>1, <2>3
<1>8. Begins(b, Encoded(x.command))
  BY <1>7 DEF Begins
<1>. QED  BY <1>1, <1>3, <1>5, <1>6, <1>8

\* The rest of a cut is a cut.
LEMMA RestIsCut ==
  ASSUME NEW b, NEW whole, NEW p \in Nat, NEW e \in Nat, Cut(b, whole, p, e),
         NEW r \in Nat, p <= r, r <= e
  PROVE  /\ e - r \in 0 .. Len(b)
         /\ Cut(Rest(b, e - r), whole, r, e)
<1>1. b \in Seq(Octets) /\ Len(b) = e - p /\ \A q \in 1 .. Len(b) : b[q] = whole[p + q]
  BY DEF Cut
<1>2. PICK n : n = e - r
  OBVIOUS
<1>3. n \in 0 .. Len(b) /\ Len(b) - n = r - p /\ n \in Nat
  BY <1>1, <1>2
<1>4. Rest(b, n) \in Seq(Octets) /\ Len(Rest(b, n)) = n
  BY <1>1, <1>3, Rests
<1>5. ASSUME NEW q \in 1 .. n PROVE Rest(b, n)[q] = whole[r + q]
  <2>1. Rest(b, n)[q] = b[Len(b) - n + q]
    BY <1>1, <1>3, Rests
  <2>2. PICK m : m = Len(b) - n + q
    OBVIOUS
  <2>3. m \in 1 .. Len(b) /\ p + m = r + q
    BY <1>1, <1>3, <2>2
  <2>4. b[m] = whole[p + m]
    BY <1>1, <2>3
  <2>. QED  BY <2>1, <2>2, <2>3, <2>4
<1>6. Cut(Rest(b, n), whole, r, e)
  BY <1>2, <1>4, <1>5 DEF Cut
<1>. QED  BY <1>2, <1>3, <1>6

\* Where no command is complete, the round ends the loop.
LEMMA LastRound ==
  ASSUME NEW role, NEW bytes \in Seq(Octets), NEW n \in 0 .. Len(bytes), NEW f,
         NEW result, result = read_from_bytestream(Rest(bytes, n), role),
         result.command = <<NEED_DATA>>
  PROVE  Round(bytes, role, f, n) = Given(<<>>, Rest(bytes, n), result.needed)
<1>1. result.command[1] = NEED_DATA
  OBVIOUS
<1>2. result.command[1] # "command" /\ (result.command[1] = ProtocolError) = FALSE
  BY <1>1 DEF NEED_DATA, ProtocolError
<1>. QED  BY <1>2 DEF Round, Given

\* The fields of what is given.
LEMMA GivenFields ==
  ASSUME NEW cs, NEW rest, NEW n
  PROVE  /\ Given(cs, rest, n).commands = cs
         /\ Given(cs, rest, n).data = rest
         /\ Given(cs, rest, n).needed = n
BY DEF Given

\* One of them changed.
LEMMA GivenMore ==
  ASSUME NEW cs, NEW rest, NEW n, NEW more, NEW r, r = Given(cs, rest, n)
  PROVE  [r EXCEPT !.commands = more] = Given(more, rest, n)
<1>1. PICK S : S = {cs, rest, n, FALSE, more}
  OBVIOUS
<1>2. cs \in S /\ rest \in S /\ n \in S /\ FALSE \in S
  BY <1>1
<1>3. r \in [commands : S, data : S, needed : S, failed : S]
  BY <1>2 DEF Given
<1>4. r.data = rest /\ r.needed = n /\ r.failed = FALSE
  BY DEF Given
<1>5. [r EXCEPT !.commands = more]
      = [commands |-> more, data |-> r.data, needed |-> r.needed, failed |-> r.failed]
  BY <1>3
<1>. QED  BY <1>4, <1>5 DEF Given

\* Where one is, it is put in front of what the rest gives.
LEMMA OneMoreRound ==
  ASSUME NEW role, NEW bytes \in Seq(Octets), NEW n \in 0 .. Len(bytes), NEW f,
         NEW result, result = read_from_bytestream(Rest(bytes, n), role),
         NEW c, result.command = <<"command", c>>,
         NEW cs, NEW rest, NEW k, f[Len(result.data)] = Given(cs, rest, k)
  PROVE  Round(bytes, role, f, n) = Given(<<c>> \o cs, rest, k)
<1>1. result.command[1] = "command" /\ result.command[2] = c
  OBVIOUS
<1>2. PICK r : r = Given(cs, rest, k)
  OBVIOUS
<1>3. r.commands = cs
  BY <1>2, GivenFields
<1>4. PICK s : s = <<c>> \o cs
  OBVIOUS
<1>5. s = <<c>> \o r.commands
  BY <1>3, <1>4
<1>6. r = f[Len(result.data)]
  BY <1>2
<1>7. Round(bytes, role, f, n)
      = [f[Len(result.data)] EXCEPT !.commands = <<result.command[2]>> \o @]
  BY <1>1, Zenon DEF Round
<1>8. Round(bytes, role, f, n) = [r EXCEPT !.commands = <<c>> \o r.commands]
  BY <1>1, <1>6, <1>7, Zenon
<1>9. Round(bytes, role, f, n) = [r EXCEPT !.commands = s]
  BY <1>5, <1>8, Zenon
<1>10. [r EXCEPT !.commands = s] = Given(s, rest, k)
  BY <1>2, GivenMore
<1>. QED  BY <1>4, <1>9, <1>10

\* What the loop gives, from its parts.
LEMMA OutcomeOf ==
  ASSUME NEW r, NEW cs, NEW rest, NEW n, r = Given(cs, rest, n),
         NEW whole, NEW xs, NEW pos, NEW i, NEW j, NEW e,
         cs = ReadFrom(xs, i, j), Cut(rest, whole, pos[j], e),
         j < Len(xs) => e < pos[j + 1],
         rest # <<>> => j < Len(xs) /\ n \in 1 .. pos[j + 1] - e
  PROVE  Outcome(r, whole, xs, pos, i, j, e)
<1>1. r.commands = cs
  BY GivenFields
<1>2. r.data = rest
  BY GivenFields
<1>3. r.needed = n
  BY GivenFields
<1>4. r = Given(r.commands, r.data, r.needed)
  BY <1>1, <1>2, <1>3, Zenon
<1>5. r.commands = ReadFrom(xs, i, j) /\ Cut(r.data, whole, pos[j], e)
  BY <1>1, <1>2, Zenon
<1>6. r.data # <<>> => j < Len(xs) /\ r.needed \in 1 .. pos[j + 1] - e
  BY <1>2, <1>3, Zenon
<1>. QED  BY <1>4, <1>5, <1>6, Zenon DEF Outcome

\* One more command in front of those that follow it.
LEMMA OneInFront ==
  ASSUME NEW X, NEW xs \in Seq(X), NEW i \in Nat, NEW j \in Nat, i < j, j <= Len(xs),
         NEW m, m = i + 1
  PROVE  <<ReadOf(xs[m])>> \o ReadFrom(xs, m, j) = ReadFrom(xs, i, j)
<1>. DEFINE R == {ReadOf(x) : x \in X}
<1>1. PICK one : one = <<ReadOf(xs[m])>>
  OBVIOUS
<1>2. PICK more : more = [q \in 1 .. j - m |-> ReadOf(xs[m + q])]
  OBVIOUS
<1>3. PICK all : all = [q \in 1 .. j - i |-> ReadOf(xs[i + q])]
  OBVIOUS
<1>4. PICK d \in Nat : d = j - m
  OBVIOUS
<1>5. \A q \in 1 .. Len(xs) : ReadOf(xs[q]) \in R
  OBVIOUS
<1>. HIDE DEF R
<1>6. m \in 1 .. Len(xs) /\ \A q \in 1 .. d : m + q \in 1 .. Len(xs)
  BY <1>4
<1>7. one \in Seq(R) /\ Len(one) = 1 /\ one[1] = ReadOf(xs[m])
  BY <1>1, <1>5, <1>6
<1>8. more = [q \in 1 .. d |-> ReadOf(xs[m + q])]
  BY <1>2, <1>4
<1>9. more \in Seq(R) /\ Len(more) = d /\ \A q \in 1 .. d : more[q] = ReadOf(xs[m + q])
  BY <1>5, <1>6, <1>8
<1>10. PICK w \in Nat : w = d + 1 /\ w = j - i
  BY <1>4
<1>11. all = [q \in 1 .. w |-> ReadOf(xs[i + q])] /\ \A q \in 1 .. w : i + q \in 1 .. Len(xs)
  BY <1>3, <1>10
<1>12. all \in Seq(R) /\ Len(all) = w
  BY <1>5, <1>11
<1>13. one \o more \in Seq(R) /\ Len(one \o more) = Len(one) + Len(more)
  <2>1. one \in Seq(R) /\ more \in Seq(R)
    BY <1>7, <1>9
  <2>. QED  BY <2>1, Joined
<1>14. ASSUME NEW q \in 1 .. w PROVE (one \o more)[q] = all[q]
  <2>1. one \in Seq(R) /\ more \in Seq(R)
    BY <1>7, <1>9
  <2>2. CASE q = 1
    <3>1. 1 \in 1 .. Len(one)
      BY <1>7
    <3>2. (one \o more)[1] = one[1]
      BY <2>1, <3>1, Joined
    <3>. QED  BY <1>7, <1>10, <1>11, <2>2, <3>2
  <2>3. CASE q # 1
    <3>1. PICK p \in 1 .. d : p = q - 1 /\ q = 1 + p
      BY <1>10, <2>3
    <3>2. (one \o more)[Len(one) + p] = more[p]
      BY <1>9, <2>1, Joined
    <3>3. more[p] = ReadOf(xs[m + p]) /\ m + p = i + q
      BY <1>9, <3>1
    <3>. QED  BY <1>7, <1>11, <3>1, <3>2, <3>3
  <2>. QED  BY <2>2, <2>3
<1>15. Len(one \o more) = Len(all)
  BY <1>7, <1>9, <1>10, <1>12, <1>13
<1>16. one \o more = all
  <2>1. \A q \in 1 .. Len(all) : (one \o more)[q] = all[q]
    BY <1>12, <1>14
  <2>2. one \o more \in Seq(R) /\ all \in Seq(R)
    BY <1>12, <1>13
  <2>. QED  BY <1>15, <2>1, <2>2, SameSequence
<1>. QED  BY <1>1, <1>2, <1>3, <1>16 DEF ReadFrom

\* The loop reads the commands that are all there, in order, and stops at the next.
LEMMA LoopReads ==
  ASSUME NEW X, NEW role, \A x \in X : Sound(role, x),
         NEW xs \in Seq(X), NEW whole, NEW pos, Laid(whole, xs, pos),
         NEW k \in 0 .. Len(xs), NEW e \in Nat, e <= Len(whole),
         NEW bytes, Cut(bytes, whole, pos[k], e)
  PROVE  \E j \in k .. Len(xs) : Outcome(ReadAll(bytes, role), whole, xs, pos, k, j, e)
<1>1. PICK N \in Nat : N = Len(xs)
  OBVIOUS
<1>2. \A i \in 0 .. N : pos[i] \in Nat
  BY <1>1 DEF Laid
<1>3. bytes \in Seq(Octets) /\ pos[k] <= e /\ Len(bytes) = e - pos[k]
  BY DEF Cut
<1>4. PICK f : f = Rounds(bytes, role)
  OBVIOUS
<1>5. /\ ReadAll(bytes, role) = f[Len(bytes)]
      /\ \A n \in 0 .. Len(bytes) : f[n] = Round(bytes, role, f, n)
  BY <1>3, <1>4, ReadAllRounds
<1>6. \A i, j \in 0 .. N : i <= j => pos[i] <= pos[j]
  BY <1>1, PlacesInOrder
<1>. DEFINE Reads(i) == pos[i] <= e => \E j \in i .. N : Outcome(f[e - pos[i]], whole, xs, pos, i, j, e)
            Good == {d \in 0 .. N - k : Reads(N - d)}
<1>7. N - k \in Nat
  BY <1>1
<1>8. ASSUME NEW i \in k .. N, pos[i] <= e
      PROVE  /\ pos[i] \in Nat /\ e - pos[i] \in 0 .. Len(bytes)
             /\ Cut(Rest(bytes, e - pos[i]), whole, pos[i], e)
             /\ f[e - pos[i]] = Round(bytes, role, f, e - pos[i])
  <2>1. i \in 0 .. N /\ k \in 0 .. N /\ k <= i
    BY <1>1
  <2>2. pos[i] \in Nat /\ pos[k] \in Nat /\ pos[k] <= pos[i]
    BY <1>2, <1>6, <2>1
  <2>3. /\ e - pos[i] \in 0 .. Len(bytes)
        /\ Cut(Rest(bytes, e - pos[i]), whole, pos[i], e)
    BY <1>8, <2>2, RestIsCut
  <2>. QED  BY <1>5, <2>2, <2>3
\* all commands have been read
<1>9. 0 \in Good
  <2>. SUFFICES ASSUME pos[N] <= e PROVE \E j \in N .. N : Outcome(f[e - pos[N]], whole, xs, pos, N, j, e)
    BY <1>1, <1>7
  <2>1. pos[N] = Len(whole) /\ whole \in Seq(Octets)
    BY <1>1 DEF Laid
  <2>2. e - pos[N] = 0 /\ N \in k .. N
    BY <1>1, <2>1
  <2>3. Cut(Rest(bytes, 0), whole, pos[N], e) /\ f[0] = Round(bytes, role, f, 0) /\ 0 \in 0 .. Len(bytes)
    BY <1>8, <2>2
  <2>4. Rest(bytes, 0) \in Seq(Octets) /\ Len(Rest(bytes, 0)) = 0
    BY <1>3, <2>3, Rests
  <2>5. PICK result : result = read_from_bytestream(Rest(bytes, 0), role)
    OBVIOUS
  <2>6. result.command = <<NEED_DATA>>
    <3>1. bytes_needed_for_command(Rest(bytes, 0)) = <<NEED_DATA, 16 - 0>>
      BY <2>4, NeededBytes
    <3>. QED  BY <2>5, <3>1 DEF read_from_bytestream
  <2>7. f[0] = Given(<<>>, Rest(bytes, 0), result.needed)
    BY <1>3, <2>3, <2>5, <2>6, LastRound
  <2>8. Rest(bytes, 0) = <<>>
    BY <2>4
  <2>9. <<>> = ReadFrom(xs, N, N)
    BY <1>1 DEF ReadFrom
  <2>10. Outcome(f[0], whole, xs, pos, N, N, e)
    <3>1. ~(N < Len(xs))
      BY <1>1
    <3>. QED  BY <2>3, <2>7, <2>8, <2>9, <3>1, OutcomeOf
  <2>. QED  BY <2>2, <2>10
<1>10. ASSUME NEW d \in 0 .. N - k - 1, d \in Good PROVE d + 1 \in Good
  <2>0. PICK i : i = N - (d + 1)
    OBVIOUS
  <2>1. i \in Nat /\ i = N - (d + 1) /\ i + 1 = N - d
    BY <1>1, <2>0
  <2>2. i \in k .. N /\ i + 1 \in k .. N /\ i \in 0 .. Len(xs) - 1 /\ i \in 0 .. N /\ i + 1 \in 0 .. N
    BY <1>1, <2>1
  <2>3. Reads(i + 1)
    BY <1>10, <2>1
  <2>. SUFFICES ASSUME pos[i] <= e PROVE \E j \in i .. N : Outcome(f[e - pos[i]], whole, xs, pos, i, j, e)
    BY <1>1, <2>1
  <2>4. PICK n : n = e - pos[i]
    OBVIOUS
  <2>5. PICK rest : rest = Rest(bytes, n)
    OBVIOUS
  <2>6. /\ pos[i] \in Nat /\ n \in 0 .. Len(bytes)
        /\ Cut(rest, whole, pos[i], e)
        /\ f[n] = Round(bytes, role, f, n)
    BY <1>8, <2>2, <2>4, <2>5
  <2>7. rest \in Seq(Octets) /\ Len(rest) = n
    BY <2>4, <2>6 DEF Cut
  <2>8. PICK x : x = xs[i + 1]
    OBVIOUS
  <2>9. /\ x \in X /\ Size(x) \in Nat
        /\ pos[i + 1] = pos[i] + Size(x)
        /\ Begins(rest, Encoded(x.command))
    <3>1. e \in Nat /\ Cut(rest, whole, pos[i], e) /\ i \in 0 .. Len(xs) - 1
      BY <2>2, <2>6
    <3>2. /\ xs[i + 1] \in X /\ Size(xs[i + 1]) \in Nat
          /\ pos[i + 1] = pos[i] + Size(xs[i + 1])
          /\ Begins(rest, Encoded(xs[i + 1].command))
      BY <3>1, NextBegins
    <3>. QED  BY <2>8, <3>2
  <2>10. PICK result : result = read_from_bytestream(rest, role)
    OBVIOUS
  <2>11. /\ Size(x) >= 16
         /\ n < Size(x) => result.command = <<NEED_DATA>> /\ result.needed \in 1 .. Size(x) - n
         /\ ~(n < Size(x)) => /\ result.command = <<"command", ReadOf(x)>>
                              /\ result.data = Slice(rest, Size(x) + 1, n)
    BY <2>7, <2>9, <2>10, CommandIsRead DEF Size
  <2>12. CASE n < Size(x)
    <3>1. f[n] = Given(<<>>, rest, result.needed)
      BY <1>3, <2>5, <2>6, <2>10, <2>11, <2>12, LastRound
    <3>2. <<>> = ReadFrom(xs, i, i)
      BY <2>1 DEF ReadFrom
    <3>3. i < Len(xs) /\ e < pos[i + 1] /\ Size(x) - n = pos[i + 1] - e
      BY <1>1, <2>2, <2>4, <2>6, <2>9, <2>12
    <3>4. Outcome(f[n], whole, xs, pos, i, i, e)
      BY <2>6, <2>11, <2>12, <3>1, <3>2, <3>3, OutcomeOf
    <3>. QED  BY <2>2, <2>4, <3>4
  <2>13. CASE ~(n < Size(x))
    <3>0. PICK t \in Nat : t = i + 1
      BY <2>1
    <3>1. PICK r : r = f[e - pos[i + 1]]
      OBVIOUS
    <3>2. pos[i + 1] <= e /\ n - Size(x) = e - pos[i + 1]
      BY <2>4, <2>6, <2>9, <2>13
    <3>3. PICK j \in t .. N : Outcome(r, whole, xs, pos, t, j, e)
      BY <2>3, <3>0, <3>1, <3>2
    <3>4. Len(result.data) = n - Size(x)
      <4>1. PICK m : m = Size(x) + 1
        OBVIOUS
      <4>2. m \in Nat \ {0} /\ n \in Nat /\ n <= Len(rest) /\ m <= n + 1
        BY <2>6, <2>7, <2>9, <2>13, <4>1
      <4>3. Len(Slice(rest, m, n)) = n - m + 1
        BY <2>7, <4>2, SlicedWithin
      <4>4. n - m + 1 = n - Size(x)
        BY <2>9, <4>1, <4>2
      <4>5. result.data = Slice(rest, m, n)
        BY <2>11, <2>13, <4>1
      <4>. QED  BY <4>3, <4>4, <4>5
    <3>5. PICK cs : cs = ReadFrom(xs, i, j)
      OBVIOUS
    <3>6. /\ r = Given(r.commands, r.data, r.needed) /\ r.commands = ReadFrom(xs, t, j)
          /\ Cut(r.data, whole, pos[j], e)
          /\ j < Len(xs) => e < pos[j + 1]
          /\ r.data # <<>> => j < Len(xs) /\ r.needed \in 1 .. pos[j + 1] - e
      BY <3>3, Zenon DEF Outcome
    <3>7. j \in Nat /\ i < j /\ j <= Len(xs) /\ j \in i .. N
      BY <1>1, <2>1, <2>2, <3>0
    <3>8. <<ReadOf(x)>> \o r.commands = cs
      BY <2>1, <2>8, <3>0, <3>5, <3>6, <3>7, OneInFront
    <3>9. f[n] = Given(cs, r.data, r.needed)
      <4>1. f[Len(result.data)] = Given(r.commands, r.data, r.needed)
        BY <3>1, <3>2, <3>4, <3>6
      <4>2. result.command = <<"command", ReadOf(x)>>
        BY <2>11, <2>13
      <4>3. result = read_from_bytestream(Rest(bytes, n), role)
        BY <2>5, <2>10
      <4>4. bytes \in Seq(Octets) /\ n \in 0 .. Len(bytes)
        BY <1>3, <2>6
      <4>5. Round(bytes, role, f, n) = Given(<<ReadOf(x)>> \o r.commands, r.data, r.needed)
        BY <4>1, <4>2, <4>3, <4>4, OneMoreRound
      <4>. QED  BY <2>6, <3>8, <4>5
    <3>10. Outcome(f[n], whole, xs, pos, i, j, e)
      BY <3>5, <3>6, <3>9, OutcomeOf
    <3>. QED  BY <2>4, <3>7, <3>10
  <2>. QED  BY <2>12, <2>13
<1>11. \A d \in 0 .. N - k : d \in Good
  <2>. HIDE DEF Good
  <2>. QED  BY <1>7, <1>9, <1>10, Induction
<1>12. Reads(k)
  <2>1. PICK d : d = N - k
    OBVIOUS
  <2>2. d \in 0 .. N - k /\ N - d = k
    BY <1>1, <1>7, <2>1
  <2>3. d \in Good
    BY <1>11, <2>2
  <2>4. Reads(N - d)
    BY <2>3
  <2>. QED  BY <2>2, <2>4
<1>. QED  BY <1>1, <1>3, <1>5, <1>12

(***************************************************************************)
(* The stream.                                                             *)
(***************************************************************************)
\* sender and receiver agree on the command: it can be read, and shows the same fields
Agreed(role, x) == Sound(role, x) /\ SameCommand(x, ReadOf(x))

Hangup == Message(DISCONNECTED, 0, <<>>)

\* k commands have been read, and of the next one, if there is one, not all
\* bytes have been received; e bytes have been
Live(whole, pos, k, e) ==
  /\ commands = ReadFrom(sent, 0, k)
  /\ Cut(data, whole, pos[k], e)
  /\ Cut(wire, whole, e, Len(whole))
  /\ k < Len(sent) => e < pos[k + 1]
  /\ data # <<>> => k < Len(sent) /\ needed \in 1 .. pos[k + 1] - e

\* the connection ended when k commands had been read
Over(k) == commands = Append(ReadFrom(sent, 0, k), Hangup) /\ wire = <<>>

StreamInv ==
  /\ their_role \in {CLIENT, SERVER}
  /\ sent \in Seq(Streams[their_role])
  /\ \E whole, pos : \E k \in 0 .. Len(sent) :
       /\ Laid(whole, sent, pos)
       /\ Over(k) \/ \E e \in 0 .. Len(whole) : Live(whole, pos, k, e)

\* What is read is no message that the connection ended.
LEMMA NoHangup ==
  ASSUME NEW role \in {CLIENT, SERVER}, NEW x, Sound(role, x)
  PROVE  ReadOf(x).cls # DISCONNECTED /\ ReadOf(x).cls = ReadAs(x)
<1>1. ReadOf(x).cls = ReadAs(x)
  BY DEF ReadOf, from_wire, Message
<1>2. ReadAs(x) \in DOMAIN Ids(role)
  BY DEF Sound, CommandClasses
<1>3. DISCONNECTED \notin DOMAIN Ids(role)
  <2>1. CASE role = CLIENT
    BY <2>1 DEF Ids, RequestId, DISCONNECTED
  <2>2. CASE role # CLIENT
    BY <2>2 DEF Ids, ResponseId, DISCONNECTED
  <2>. QED  BY <2>1, <2>2
<1>. QED  BY <1>1, <1>2, <1>3

\* What has been read is a sequence of commands, one for each that was read.
LEMMA ReadFromIsSeq ==
  ASSUME NEW X, NEW xs \in Seq(X), NEW i \in Nat, NEW j \in Nat, i <= j, j <= Len(xs)
  PROVE  /\ ReadFrom(xs, i, j) \in Seq({ReadOf(x) : x \in X})
         /\ Len(ReadFrom(xs, i, j)) = j - i
         /\ \A q \in 1 .. j - i : ReadFrom(xs, i, j)[q] = ReadOf(xs[i + q])
<1>. DEFINE R == {ReadOf(x) : x \in X}
<1>1. PICK d \in Nat : d = j - i
  OBVIOUS
<1>2. \A q \in 1 .. d : i + q \in 1 .. Len(xs)
  BY <1>1
<1>3. \A q \in 1 .. d : ReadOf(xs[i + q]) \in R
  BY <1>2
<1>. HIDE DEF R
<1>4. PICK f : f = [q \in 1 .. d |-> ReadOf(xs[i + q])]
  OBVIOUS
<1>5. f \in Seq(R) /\ Len(f) = d /\ \A q \in 1 .. d : f[q] = ReadOf(xs[i + q])
  BY <1>3, <1>4
<1>6. ReadFrom(xs, i, j) = f
  BY <1>1, <1>4 DEF ReadFrom
<1>. QED  BY <1>1, <1>5, <1>6 DEF R

\* Commands read later come behind those read before.
LEMMA ReadOn ==
  ASSUME NEW X, NEW xs \in Seq(X), NEW i \in Nat, NEW j \in Nat, i <= j, j <= Len(xs)
  PROVE  ReadFrom(xs, 0, i) \o ReadFrom(xs, i, j) = ReadFrom(xs, 0, j)
<1>. DEFINE R == {ReadOf(x) : x \in X}
<1>1. PICK a, b, c : a = ReadFrom(xs, 0, i) /\ b = ReadFrom(xs, i, j) /\ c = ReadFrom(xs, 0, j)
  OBVIOUS
<1>2. a \in Seq(R) /\ Len(a) = i /\ \A q \in 1 .. i : a[q] = ReadOf(xs[q])
  <2>1. a \in Seq(R)
    BY <1>1, ReadFromIsSeq
  <2>2. Len(a) = i - 0 /\ \A q \in 1 .. i - 0 : a[q] = ReadOf(xs[0 + q])
    <3>1. 0 \in Nat /\ 0 <= i /\ i <= Len(xs)
      OBVIOUS
    <3>2. Len(ReadFrom(xs, 0, i)) = i - 0
      BY <3>1, ReadFromIsSeq
    <3>3. \A q \in 1 .. i - 0 : ReadFrom(xs, 0, i)[q] = ReadOf(xs[0 + q])
      BY <3>1, ReadFromIsSeq
    <3>. QED  BY <1>1, <3>2, <3>3
  <2>. QED  BY <2>1, <2>2
<1>3. b \in Seq(R) /\ Len(b) = j - i /\ \A q \in 1 .. j - i : b[q] = ReadOf(xs[i + q])
  BY <1>1, ReadFromIsSeq
<1>4. c \in Seq(R) /\ Len(c) = j /\ \A q \in 1 .. j : c[q] = ReadOf(xs[q])
  <2>1. c \in Seq(R)
    BY <1>1, ReadFromIsSeq
  <2>2. Len(c) = j - 0 /\ \A q \in 1 .. j - 0 : c[q] = ReadOf(xs[0 + q])
    <3>1. 0 \in Nat /\ 0 <= j /\ j <= Len(xs)
      OBVIOUS
    <3>2. Len(ReadFrom(xs, 0, j)) = j - 0
      BY <3>1, ReadFromIsSeq
    <3>3. \A q \in 1 .. j - 0 : ReadFrom(xs, 0, j)[q] = ReadOf(xs[0 + q])
      BY <3>1, ReadFromIsSeq
    <3>. QED  BY <1>1, <3>2, <3>3
  <2>. QED  BY <2>1, <2>2
<1>. HIDE DEF R
<1>5. PICK s : s = a \o b
  OBVIOUS
<1>6. s \in Seq(R) /\ Len(s) = Len(a) + Len(b)
      /\ (\A q \in 1 .. Len(a) : s[q] = a[q])
      /\ \A q \in 1 .. Len(b) : s[Len(a) + q] = b[q]
  <2>1. a \in Seq(R) /\ b \in Seq(R)
    BY <1>2, <1>3
  <2>. QED  BY <1>5, <2>1, Joined
<1>7. ASSUME NEW q \in 1 .. j PROVE s[q] = c[q]
  <2>1. CASE q <= i
    <3>1. q \in 1 .. Len(a) /\ q \in 1 .. i
      BY <1>2, <2>1
    <3>. QED  BY <1>2, <1>4, <1>6, <3>1
  <2>2. CASE ~(q <= i)
    <3>1. PICK t \in Nat : t = q - i /\ q = i + t
      BY <2>2
    <3>2. t \in 1 .. j - i /\ t \in 1 .. Len(b)
      BY <1>3, <2>2, <3>1
    <3>3. s[Len(a) + t] = b[t] /\ b[t] = ReadOf(xs[i + t])
      BY <1>3, <1>6, <3>2
    <3>. QED  BY <1>2, <1>4, <3>1, <3>3
  <2>. QED  BY <2>1, <2>2
<1>8. Len(s) = Len(c)
  BY <1>2, <1>3, <1>4, <1>6
<1>9. s \in Seq(R) /\ c \in Seq(R) /\ \A q \in 1 .. Len(c) : s[q] = c[q]
  BY <1>4, <1>6, <1>7
<1>. QED  BY <1>1, <1>5, <1>8, <1>9, SameSequence

\* Two cuts, the second from where the first ends.
LEMMA CutsJoined ==
  ASSUME NEW a, NEW b, NEW whole, NEW p \in Nat, NEW m \in Nat, NEW e \in Nat,
         Cut(a, whole, p, m), Cut(b, whole, m, e)
  PROVE  Cut(a \o b, whole, p, e)
<1>1. a \in Seq(Octets) /\ p <= m /\ Len(a) = m - p /\ \A q \in 1 .. Len(a) : a[q] = whole[p + q]
  BY DEF Cut
<1>2. b \in Seq(Octets) /\ m <= e /\ Len(b) = e - m /\ \A q \in 1 .. Len(b) : b[q] = whole[m + q]
  BY DEF Cut
<1>3. PICK s : s = a \o b
  OBVIOUS
<1>4. s \in Seq(Octets) /\ Len(s) = Len(a) + Len(b)
      /\ (\A q \in 1 .. Len(a) : s[q] = a[q])
      /\ \A q \in 1 .. Len(b) : s[Len(a) + q] = b[q]
  <2>1. a \in Seq(Octets) /\ b \in Seq(Octets)
    BY <1>1, <1>2
  <2>. QED  BY <1>3, <2>1, Joined
<1>5. ASSUME NEW q \in 1 .. Len(s) PROVE s[q] = whole[p + q]
  <2>1. q \in Nat /\ Len(s) = Len(a) + Len(b) /\ Len(a) \in Nat /\ Len(b) \in Nat
    BY <1>1, <1>2, <1>4
  <2>2. CASE q <= Len(a)
    <3>1. q \in 1 .. Len(a)
      BY <2>1, <2>2
    <3>. QED  BY <1>1, <1>4, <3>1
  <2>3. CASE ~(q <= Len(a))
    <3>0. PICK t : t = q - Len(a)
      OBVIOUS
    <3>1. t \in Nat /\ t = q - Len(a) /\ q = Len(a) + t
      BY <2>1, <2>3, <3>0
    <3>2. t \in 1 .. Len(b)
      BY <2>1, <2>3, <3>1
    <3>3. s[Len(a) + t] = b[t] /\ b[t] = whole[m + t]
      BY <1>2, <1>4, <3>2
    <3>4. m + t = p + q
      BY <1>1, <3>1
    <3>. QED  BY <3>1, <3>3, <3>4
  <2>. QED  BY <2>2, <2>3
<1>6. p <= e /\ Len(s) = e - p
  <2>1. Len(s) = Len(a) + Len(b) /\ Len(a) = m - p /\ Len(b) = e - m /\ p <= m /\ m <= e
    BY <1>1, <1>2, <1>4
  <2>. QED  BY <2>1
<1>7. s \in Seq(Octets)
  BY <1>4
<1>. QED  BY <1>3, <1>5, <1>6, <1>7 DEF Cut

\* A cut, cut in two.
LEMMA CutInTwo ==
  ASSUME NEW w, NEW whole, NEW m \in Nat, NEW e \in Nat, Cut(w, whole, m, e), NEW n \in 0 .. Len(w)
  PROVE  /\ m + n \in Nat /\ m + n <= e
         /\ Cut(SubSeq(w, 1, n), whole, m, m + n)
         /\ Cut(SubSeq(w, n + 1, Len(w)), whole, m + n, e)
<1>1. w \in Seq(Octets) /\ m <= e /\ Len(w) = e - m /\ \A q \in 1 .. Len(w) : w[q] = whole[m + q]
  BY DEF Cut
<1>2. n \in Nat /\ n <= Len(w)
  BY <1>1
<1>0. w \in Seq(Octets)
  BY <1>1
<1>3. Cut(SubSeq(w, 1, n), whole, m, m + n)
  <2>1. PICK s : s = Slice(w, 1, n)
    OBVIOUS
  <2>2. s = SubSeq(w, 1, n)
    BY <1>1, <1>2, <2>1 DEF Slice
  <2>3. 1 \in Nat \ {0} /\ n \in Nat /\ n <= Len(w) /\ 1 <= n + 1
    BY <1>2
  <2>4. s \in Seq(Octets)
    BY <1>1, <2>1, <2>3, SlicedWithin
  <2>5. Len(Slice(w, 1, n)) = n - 1 + 1
    BY <1>0, <2>3, SlicedWithin
  <2>6. \A i \in 1 .. n - 1 + 1 : Slice(w, 1, n)[i] = w[1 + i - 1]
    BY <1>0, <2>3, SlicedWithin
  <2>7. Len(s) = (m + n) - m /\ m <= m + n /\ Len(s) = n
    BY <1>2, <2>1, <2>5
  <2>8. ASSUME NEW q \in 1 .. Len(s) PROVE s[q] = whole[m + q]
    <3>1. q \in 1 .. n - 1 + 1 /\ 1 + q - 1 = q /\ q \in 1 .. Len(w)
      BY <1>1, <1>2, <2>7
    <3>. QED  BY <1>1, <2>1, <2>6, <3>1
  <2>9. Cut(s, whole, m, m + n)
    BY <2>4, <2>7, <2>8 DEF Cut
  <2>. QED  BY <2>2, <2>9
<1>4. Cut(SubSeq(w, n + 1, Len(w)), whole, m + n, e)
  <2>0. PICK l \in Nat : l = Len(w)
    BY <1>1
  <2>1. PICK f : f = n + 1
    OBVIOUS
  <2>2. PICK s : s = Slice(w, f, l)
    OBVIOUS
  <2>3. s = SubSeq(w, f, l)
    BY <1>1, <2>0, <2>2 DEF Slice
  <2>4. f \in Nat \ {0} /\ l \in Nat /\ l <= Len(w) /\ f <= l + 1
    BY <1>1, <1>2, <2>0, <2>1
  <2>5. s \in Seq(Octets)
    BY <1>1, <2>2, <2>4, SlicedWithin
  <2>6. Len(Slice(w, f, l)) = l - f + 1
    BY <1>0, <2>4, SlicedWithin
  <2>7. \A i \in 1 .. l - f + 1 : Slice(w, f, l)[i] = w[f + i - 1]
    BY <1>0, <2>4, SlicedWithin
  <2>8. Len(s) = e - (m + n) /\ m + n <= e /\ Len(s) = l - f + 1
    BY <1>1, <1>2, <2>0, <2>1, <2>2, <2>6
  <2>9. ASSUME NEW q \in 1 .. Len(s) PROVE s[q] = whole[m + n + q]
    <3>1. PICK t : t = f + q - 1
      OBVIOUS
    <3>2. q \in 1 .. l - f + 1
      BY <2>8
    <3>3. t \in 1 .. Len(w) /\ m + t = m + n + q
      BY <1>2, <2>0, <2>1, <3>1, <3>2
    <3>4. s[q] = w[t]
      BY <2>2, <2>7, <3>1, <3>2
    <3>. QED  BY <1>1, <3>3, <3>4
  <2>10. Cut(s, whole, m + n, e)
    BY <2>5, <2>8, <2>9 DEF Cut
  <2>. QED  BY <2>0, <2>1, <2>3, <2>10
<1>. QED  BY <1>1, <1>2, <1>3, <1>4

\* More bytes behind the whole do not disturb what is cut from it.
LEMMA CutFromMore ==
  ASSUME NEW b, NEW whole \in Seq(Octets), NEW more \in Seq(Octets), NEW p \in Nat, NEW e \in Nat,
         e <= Len(whole), Cut(b, whole, p, e)
  PROVE  Cut(b, whole \o more, p, e)
<1>1. b \in Seq(Octets) /\ p <= e /\ Len(b) = e - p /\ \A q \in 1 .. Len(b) : b[q] = whole[p + q]
  BY DEF Cut
<1>2. \A i \in 1 .. Len(whole) : (whole \o more)[i] = whole[i]
  BY Joined
<1>3. ASSUME NEW q \in 1 .. Len(b) PROVE b[q] = (whole \o more)[p + q]
  <2>1. p + q \in 1 .. Len(whole)
    BY <1>1
  <2>. QED  BY <1>1, <1>2, <2>1
<1>. QED  BY <1>1, <1>3 DEF Cut

\* They are a cut of the longer whole.
LEMMA LastCut ==
  ASSUME NEW whole \in Seq(Octets), NEW more \in Seq(Octets)
  PROVE  /\ whole \o more \in Seq(Octets)
         /\ Len(whole \o more) = Len(whole) + Len(more)
         /\ Cut(more, whole \o more, Len(whole), Len(whole \o more))
<1>1. PICK w : w = whole \o more
  OBVIOUS
<1>2. w \in Seq(Octets) /\ Len(w) = Len(whole) + Len(more)
      /\ \A i \in 1 .. Len(more) : w[Len(whole) + i] = more[i]
  BY <1>1, Joined
<1>3. Len(whole) <= Len(w) /\ Len(more) = Len(w) - Len(whole)
  BY <1>2
<1>4. Cut(more, w, Len(whole), Len(w))
  BY <1>2, <1>3 DEF Cut
<1>. QED  BY <1>1, <1>2, <1>4

\* the places when x is laid behind the others
Longer(places, whole, xs, pos, x) ==
  /\ Laid(whole \o Encoded(x.command), Append(xs, x), places)
  /\ \A i \in 0 .. Len(xs) : places[i] = pos[i]
  /\ places[Len(xs) + 1] = Len(whole) + Len(Encoded(x.command))

\* One more command, laid behind the others.
LEMMA LaidBehind ==
  ASSUME NEW X, NEW role, \A x \in X : Sound(role, x),
         NEW xs \in Seq(X), NEW whole, NEW pos, Laid(whole, xs, pos), NEW x \in X
  PROVE  \E places : Longer(places, whole, xs, pos, x)
<1>0. PICK ys, more, all : ys = Append(xs, x) /\ more = Encoded(x.command) /\ all = whole \o more
  OBVIOUS
<1>1. PICK N \in Nat : N = Len(xs)
  OBVIOUS
<1>2. /\ whole \in Seq(Octets) /\ pos \in [0 .. N -> Nat]
      /\ pos[0] = 0 /\ pos[N] = Len(whole)
  BY <1>1 DEF Laid
<1>3. /\ \A i \in 1 .. N : pos[i] = pos[i - 1] + Size(xs[i])
      /\ \A i \in 1 .. N : \A k \in 1 .. Size(xs[i]) :
           whole[pos[i - 1] + k] = Encoded(xs[i].command)[k]
  BY <1>1 DEF Laid
<1>4. more \in Seq(Octets) /\ Size(x) = Len(more)
  BY <1>0, EncodedBytes DEF Size
<1>5. all \in Seq(Octets) /\ Len(all) = Len(whole) + Len(more)
      /\ (\A i \in 1 .. Len(whole) : all[i] = whole[i])
      /\ \A i \in 1 .. Len(more) : all[Len(whole) + i] = more[i]
  BY <1>0, <1>2, <1>4, Joined
<1>6. PICK M \in Nat : M = N + 1
  BY <1>1
<1>7. ys \in Seq(X) /\ Len(ys) = M /\ ys[M] = x /\ \A i \in 1 .. N : ys[i] = xs[i]
  BY <1>0, <1>1, <1>6
<1>8. PICK places : places = [i \in 0 .. M |-> IF i = M THEN Len(all) ELSE pos[i]]
  OBVIOUS
<1>9. places \in [0 .. M -> Nat] /\ places[M] = Len(all) /\ \A i \in 0 .. N : places[i] = pos[i]
  <2>1. \A i \in 0 .. M : i # M => i \in 0 .. N
    BY <1>1, <1>6
  <2>2. Len(all) \in Nat
    BY <1>5
  <2>3. \A i \in 0 .. N : i # M /\ i \in 0 .. M
    BY <1>1, <1>6
  <2>4. M \in 0 .. M
    BY <1>6
  <2>. QED  BY <1>2, <1>8, <2>1, <2>2, <2>3, <2>4
<1>10. places[0] = 0
  BY <1>1, <1>2, <1>9
<1>11. \A i \in 0 .. N : pos[i] \in Nat /\ pos[i] <= Len(whole)
  <2>1. \A i, j \in 0 .. Len(xs) : i <= j => pos[i] <= pos[j]
    BY PlacesInOrder
  <2>2. ASSUME NEW i \in 0 .. N PROVE pos[i] \in Nat /\ pos[i] <= Len(whole)
    <3>1. pos[i] \in Nat
      BY <1>2
    <3>2. i \in 0 .. Len(xs) /\ N \in 0 .. Len(xs) /\ i <= N
      BY <1>1
    <3>. QED  BY <1>2, <2>1, <3>1, <3>2
  <2>. QED  BY <2>2
<1>12. ASSUME NEW i \in 1 .. M
       PROVE  /\ places[i] = places[i - 1] + Size(ys[i])
              /\ \A k \in 1 .. Size(ys[i]) : all[places[i - 1] + k] = Encoded(ys[i].command)[k]
  <2>1. CASE i = M
    <3>1. i - 1 = N /\ N \in 0 .. N
      BY <1>1, <1>6, <2>1
    <3>2. places[i - 1] = Len(whole) /\ ys[i] = x
      BY <1>2, <1>7, <1>9, <2>1, <3>1
    <3>3. places[i] = places[i - 1] + Size(ys[i])
      BY <1>4, <1>5, <1>9, <2>1, <3>2
    <3>4. ASSUME NEW k \in 1 .. Size(ys[i]) PROVE all[places[i - 1] + k] = Encoded(ys[i].command)[k]
      <4>1. k \in 1 .. Len(more) /\ Encoded(ys[i].command) = more
        BY <1>0, <1>4, <3>2
      <4>. QED  BY <1>5, <3>2, <4>1
    <3>. QED  BY <3>3, <3>4
  <2>2. CASE i # M
    <3>1. i \in 1 .. N /\ i \in 0 .. N /\ i - 1 \in 0 .. N
      BY <1>1, <1>6, <2>2
    <3>2. ys[i] = xs[i] /\ places[i] = pos[i] /\ places[i - 1] = pos[i - 1]
      BY <1>7, <1>9, <3>1
    <3>3. pos[i] = pos[i - 1] + Size(xs[i])
      BY <1>3, <3>1
    <3>4. Size(xs[i]) \in Nat
      <4>1. PICK y \in X : y = xs[i]
        BY <1>1, <3>1
      <4>2. Encoded(y.command) \in Seq(Octets)
        BY EncodedBytes
      <4>. QED  BY <4>1, <4>2 DEF Size
    <3>5. ASSUME NEW k \in 1 .. Size(xs[i]) PROVE all[pos[i - 1] + k] = Encoded(xs[i].command)[k]
      <4>1. pos[i - 1] \in Nat /\ pos[i] \in Nat /\ pos[i] <= Len(whole) /\ Len(whole) \in Nat
        BY <1>2, <1>11, <3>1
      <4>2. pos[i - 1] + k \in 1 .. Len(whole)
        <5>1. PICK a, b, l, n : a = pos[i - 1] /\ b = pos[i] /\ l = Len(whole) /\ n = Size(xs[i])
          OBVIOUS
        <5>2. a \in Nat /\ b \in Nat /\ l \in Nat /\ n \in Nat /\ b = a + n /\ b <= l /\ k \in 1 .. n
          BY <3>3, <3>4, <4>1, <5>1
        <5>3. a + k \in 1 .. l
          BY <5>2
        <5>. QED  BY <5>1, <5>3
      <4>3. whole[pos[i - 1] + k] = Encoded(xs[i].command)[k]
        BY <1>3, <3>1
      <4>. QED  BY <1>5, <4>2, <4>3
    <3>. QED  BY <3>2, <3>3, <3>5
  <2>. QED  BY <2>1, <2>2
<1>13. Laid(all, ys, places)
  <2>1. /\ all \in Seq(Octets) /\ places \in [0 .. Len(ys) -> Nat]
        /\ places[0] = 0 /\ places[Len(ys)] = Len(all)
    BY <1>5, <1>7, <1>9, <1>10
  <2>2. \A i \in 1 .. Len(ys) : places[i] = places[i - 1] + Size(ys[i])
    BY <1>7, <1>12
  <2>3. \A i \in 1 .. Len(ys) : \A k \in 1 .. Size(ys[i]) :
          all[places[i - 1] + k] = Encoded(ys[i].command)[k]
    BY <1>7, <1>12
  <2>. QED  BY <2>1, <2>2, <2>3, Zenon DEF Laid
<1>. QED  BY <1>0, <1>1, <1>5, <1>6, <1>9, <1>13 DEF Longer

\* Nothing is laid out as nothing.
LEMMA LaidEmpty ==
  ASSUME NEW pos, pos = [i \in 0 .. 0 |-> 0]
  PROVE  Laid(<<>>, <<>>, pos)
<1>1. Len(<<>>) = 0 /\ <<>> \in Seq(Octets)
  OBVIOUS
<1>2. pos \in [0 .. 0 -> Nat] /\ pos[0] = 0
  OBVIOUS
<1>. QED  BY <1>1, <1>2 DEF Laid

\* What has been read stays what it is when more is sent.
LEMMA ReadStays ==
  ASSUME NEW X, NEW xs \in Seq(X), NEW x, NEW k \in 0 .. Len(xs)
  PROVE  ReadFrom(Append(xs, x), 0, k) = ReadFrom(xs, 0, k)
<1>1. \A q \in 1 .. k - 0 : Append(xs, x)[0 + q] = xs[0 + q]
  OBVIOUS
<1>. QED  BY <1>1 DEF ReadFrom

Agreement == \A role \in {CLIENT, SERVER} : \A x \in Streams[role] : Agreed(role, x)

\* At the start nothing was sent and nothing read.
LEMMA StreamInit ==
  Init => StreamInv
<1>. SUFFICES ASSUME Init PROVE StreamInv
  OBVIOUS
<1>1. their_role \in {CLIENT, SERVER} /\ sent = <<>> /\ wire = <<>> /\ data = <<>> /\ commands = <<>>
  BY DEF Init
<1>2. PICK pos : pos = [i \in 0 .. 0 |-> 0]
  OBVIOUS
<1>3. Laid(<<>>, sent, pos)
  BY <1>1, <1>2, LaidEmpty
<1>4. pos[0] = 0
  BY <1>2
<1>5. Cut(<<>>, <<>>, 0, 0)
  BY DEF Cut
<1>6. <<>> = ReadFrom(<<>>, 0, 0)
  BY DEF ReadFrom
<1>7. Len(<<>>) = 0 /\ 0 \in 0 .. 0
  OBVIOUS
<1>8. ~(0 < Len(<<>>))
  BY <1>7
<1>9. Live(<<>>, pos, 0, 0)
  <2>1. Cut(data, <<>>, pos[0], 0) /\ Cut(wire, <<>>, 0, Len(<<>>))
    BY <1>1, <1>4, <1>5, <1>7
  <2>2. commands = ReadFrom(sent, 0, 0)
    BY <1>1, <1>6
  <2>3. ~(0 < Len(sent))
    BY <1>1, <1>8
  <2>. QED  BY <1>1, <2>1, <2>2, <2>3 DEF Live
<1>10. sent \in Seq(Streams[their_role])
  BY <1>1
<1>11. 0 \in 0 .. Len(sent) /\ 0 \in 0 .. Len(<<>>)
  BY <1>1, <1>7
<1>. QED  BY <1>1, <1>3, <1>9, <1>10, <1>11 DEF StreamInv

\* A live stream has not ended, one that is over has.
LEMMA EndedOrLive ==
  ASSUME Agreement, their_role \in {CLIENT, SERVER}, sent \in Seq(Streams[their_role]),
         NEW k \in 0 .. Len(sent)
  PROVE  /\ commands = ReadFrom(sent, 0, k) => ~Ended
         /\ Over(k) => Ended /\ Front(commands) = ReadFrom(sent, 0, k)
<1>. DEFINE R == {ReadOf(x) : x \in Streams[their_role]}
<1>1. PICK cs : cs = ReadFrom(sent, 0, k)
  OBVIOUS
<1>2. k \in Nat /\ k <= Len(sent) /\ 0 \in Nat /\ 0 <= k
  OBVIOUS
<1>3. cs \in Seq(R)
  BY <1>1, <1>2, ReadFromIsSeq
<1>4. \A c \in R : c.cls # DISCONNECTED
  <2>. SUFFICES ASSUME NEW x \in Streams[their_role] PROVE ReadOf(x).cls # DISCONNECTED
    OBVIOUS
  <2>1. Sound(their_role, x)
    BY DEF Agreement, Agreed
  <2>. QED  BY <2>1, NoHangup
<1>. HIDE DEF R
<1>5. ASSUME commands = cs, Ended PROVE FALSE
  <2>1. cs # <<>> /\ Last(cs).cls = DISCONNECTED
    BY <1>5 DEF Ended
  <2>2. Last(cs) \in R
    BY <1>3, <2>1 DEF Last
  <2>. QED  BY <1>4, <2>1, <2>2
<1>6. ASSUME Over(k) PROVE Ended /\ Front(commands) = cs
  <2>1. PICK h : h = Hangup
    OBVIOUS
  <2>2. h.cls = DISCONNECTED
    BY <2>1 DEF Hangup, Message
  <2>3. PICK S : S = R \cup {h}
    OBVIOUS
  <2>4. cs \in Seq(S) /\ h \in S
    BY <1>3, <2>3
  <2>5. PICK ds : ds = Append(cs, h)
    OBVIOUS
  <2>6. ds \in Seq(S) /\ Len(ds) = Len(cs) + 1 /\ ds[Len(ds)] = h
    BY <2>4, <2>5
  <2>7. commands = ds
    BY <1>1, <1>6, <2>1, <2>5 DEF Over
  <2>8. ds # <<>> /\ Last(ds) = h
    BY <2>6 DEF Last
  <2>9. Front(ds) = cs
    <3>1. cs \in Seq(S) /\ h \in S
      BY <2>4
    <3>2. Front(Append(cs, h)) = cs
      BY <3>1 DEF Front
    <3>. QED  BY <2>5, <3>2
  <2>. QED  BY <2>2, <2>7, <2>8, <2>9 DEF Ended
<1>. QED  BY <1>1, <1>5, <1>6

\* A live stream, as its parts.
LEMMA LiveParts ==
  ASSUME NEW whole, NEW pos, NEW k, NEW e, Live(whole, pos, k, e)
  PROVE  /\ commands = ReadFrom(sent, 0, k)
         /\ Cut(data, whole, pos[k], e)
         /\ Cut(wire, whole, e, Len(whole))
         /\ k < Len(sent) => e < pos[k + 1]
         /\ data # <<>> => k < Len(sent) /\ needed \in 1 .. pos[k + 1] - e
BY Zenon DEF Live

\* One more command is sent.
LEMMA StreamSend ==
  ASSUME Agreement, StreamInv, NEW x \in Streams[their_role], Send(x)
  PROVE  StreamInv'
<1>1. their_role \in {CLIENT, SERVER} /\ sent \in Seq(Streams[their_role])
  BY DEF StreamInv
<1>2. /\ their_role' = their_role /\ data' = data /\ needed' = needed /\ commands' = commands
      /\ sent' = Append(sent, x) /\ ~Ended
      /\ wire' = wire \o HeaderBytes(x.command.header) \o Payload(x.command)
  BY DEF Send
<1>3. PICK whole, pos : \E k \in 0 .. Len(sent) :
         /\ Laid(whole, sent, pos)
         /\ Over(k) \/ \E e \in 0 .. Len(whole) : Live(whole, pos, k, e)
  BY DEF StreamInv
<1>4. PICK k \in 0 .. Len(sent) :
         /\ Laid(whole, sent, pos)
         /\ Over(k) \/ \E e \in 0 .. Len(whole) : Live(whole, pos, k, e)
  BY <1>3
<1>5. PICK e \in 0 .. Len(whole) : Live(whole, pos, k, e)
  BY <1>1, <1>2, <1>4, EndedOrLive
<1>6. PICK X : X = Streams[their_role]
  OBVIOUS
<1>7. \A y \in X : Sound(their_role, y)
  BY <1>1, <1>6 DEF Agreement, Agreed
<1>8. sent \in Seq(X) /\ x \in X
  BY <1>1, <1>6
<1>9. PICK N \in Nat : N = Len(sent)
  BY <1>8
<1>10. /\ whole \in Seq(Octets) /\ pos \in [0 .. N -> Nat] /\ pos[N] = Len(whole)
  BY <1>4, <1>9 DEF Laid
<1>11. PICK more : more = Encoded(x.command)
  OBVIOUS
<1>12. more \in Seq(Octets) /\ Len(more) \in Nat /\ Len(more) >= 16
  <2>1. Sound(their_role, x)
    BY <1>7, <1>8
  <2>2. more \in Seq(Octets)
    BY <1>11, <2>1, EncodedBytes
  <2>3. PICK h \in ShortHeaders \cup LongHeaders : h = x.command.header
    BY <2>1 DEF Sound
  <2>4. Len(more) = HeaderSize(h) + h.payload_size
    BY <1>11, <2>1, <2>3, EncodedBytes
  <2>5. HeaderSize(h) + h.payload_size >= 16
    BY HeaderSizes
  <2>. QED  BY <2>2, <2>4, <2>5
<1>13. PICK all : all = whole \o more
  OBVIOUS
<1>14. PICK places : /\ Laid(all, sent', places)
                     /\ \A i \in 0 .. Len(sent) : places[i] = pos[i]
                     /\ places[Len(sent) + 1] = Len(whole) + Len(more)
  <2>2. Laid(whole, sent, pos)
    BY <1>4
  <2>3. \E places : Longer(places, whole, sent, pos, x)
    BY <1>7, <1>8, <2>2, LaidBehind
  <2>. QED  BY <1>2, <1>11, <1>13, <2>3 DEF Longer
<1>15. /\ all \in Seq(Octets) /\ Len(all) = Len(whole) + Len(more)
       /\ Cut(more, all, Len(whole), Len(all))
  BY <1>10, <1>12, <1>13, LastCut
<1>16. sent' \in Seq(X) /\ Len(sent') = N + 1
  BY <1>2, <1>8, <1>9
<1>17. /\ commands = ReadFrom(sent, 0, k)
       /\ Cut(data, whole, pos[k], e)
       /\ Cut(wire, whole, e, Len(whole))
       /\ k < Len(sent) => e < pos[k + 1]
       /\ data # <<>> => k < Len(sent) /\ needed \in 1 .. pos[k + 1] - e
  BY <1>5, LiveParts
<1>18. k \in 0 .. N /\ k \in Nat /\ e \in Nat /\ e <= Len(whole) /\ pos[k] \in Nat /\ Len(whole) \in Nat
       /\ Len(all) \in Nat
  BY <1>9, <1>10, <1>15
<1>19. commands' = ReadFrom(sent', 0, k)
  <2>1. ReadFrom(Append(sent, x), 0, k) = ReadFrom(sent, 0, k)
    BY <1>8, ReadStays
  <2>. QED  BY <1>2, <1>17, <2>1
<1>20. Cut(data', all, places[k], e)
  <2>1. Cut(data, all, pos[k], e)
    BY <1>10, <1>12, <1>13, <1>17, <1>18, CutFromMore
  <2>. QED  BY <1>2, <1>14, <2>1
<1>21. Cut(wire', all, e, Len(all))
  <2>1. Cut(wire, all, e, Len(whole))
    BY <1>10, <1>12, <1>13, <1>17, <1>18, CutFromMore
  <2>2. Cut(wire \o more, all, e, Len(all))
    BY <1>15, <1>18, <2>1, CutsJoined
  <2>3. wire' = wire \o more
    <3>1. wire \in Seq(Octets)
      BY <1>17 DEF Cut
    <3>2. Sound(their_role, x)
      BY <1>7, <1>8
    <3>3. PICK h, p : h = HeaderBytes(x.command.header) /\ p = Payload(x.command)
      OBVIOUS
    <3>4. h \in Seq(Octets) /\ p \in Seq(Octets)
      BY <3>2, <3>3, HeaderOctets DEF Sound
    <3>5. (wire \o h) \o p = wire \o (h \o p)
      BY <3>1, <3>4, Regrouped
    <3>. QED  BY <1>2, <1>11, <3>3, <3>5 DEF Encoded
  <2>. QED  BY <2>2, <2>3
<1>22. CASE k < N
  <2>1. k + 1 \in 0 .. N /\ places[k + 1] = pos[k + 1] /\ k < Len(sent) /\ k < Len(sent')
    BY <1>9, <1>14, <1>16, <1>18, <1>22
  <2>2. k < Len(sent') => e < places[k + 1]
    BY <1>17, <2>1
  <2>3. data' # <<>> => k < Len(sent') /\ needed' \in 1 .. places[k + 1] - e
    BY <1>2, <1>17, <2>1
  <2>4. Live(all, places, k, e)'
    BY <1>19, <1>20, <1>21, <2>2, <2>3, Zenon DEF Live
  <2>5. k \in 0 .. Len(sent') /\ e \in 0 .. Len(all)
    BY <1>12, <1>15, <1>16, <1>18
  <2>. QED  BY <1>1, <1>2, <1>6, <1>14, <1>16, <2>4, <2>5 DEF StreamInv
<1>23. CASE ~(k < N)
  <2>1. k = N /\ pos[k] = Len(whole)
    BY <1>10, <1>18, <1>23
  <2>2. e = Len(whole) /\ data = <<>>
    <3>1. data \in Seq(Octets) /\ pos[k] <= e /\ Len(data) = e - pos[k]
      BY <1>17 DEF Cut
    <3>2. e = Len(whole) /\ Len(data) = 0
      BY <1>18, <2>1, <3>1
    <3>. QED  BY <3>1, <3>2
  <2>3. places[k + 1] = Len(whole) + Len(more)
    BY <1>9, <1>14, <2>1
  <2>4. k < Len(sent') => e < places[k + 1]
    BY <1>12, <1>18, <2>2, <2>3
  <2>5. data' = <<>>
    BY <1>2, <2>2
  <2>6. Live(all, places, k, e)'
    BY <1>19, <1>20, <1>21, <2>4, <2>5, Zenon DEF Live
  <2>7. k \in 0 .. Len(sent') /\ e \in 0 .. Len(all)
    BY <1>12, <1>15, <1>16, <1>18
  <2>. QED  BY <1>1, <1>2, <1>6, <1>14, <1>16, <2>6, <2>7 DEF StreamInv
<1>. QED  BY <1>22, <1>23

\* Bytes are received.
LEMMA StreamRecv ==
  ASSUME Agreement, StreamInv, NEW n, Recv(n)
  PROVE  StreamInv'
<1>1. their_role \in {CLIENT, SERVER} /\ sent \in Seq(Streams[their_role])
  BY DEF StreamInv
<1>2. PICK read : read = ReadAll(data \o SubSeq(wire, 1, n), their_role)
  OBVIOUS
<1>3. /\ their_role' = their_role /\ sent' = sent
      /\ n \in 1 .. Len(wire) /\ wire' = SubSeq(wire, n + 1, Len(wire))
      /\ data' = read.data /\ needed' = read.needed
      /\ commands' = commands \o read.commands
                     \o (IF read.failed THEN <<Message(ProtocolError, 0, <<>>)>> ELSE <<>>)
  BY <1>2, Zenon DEF Recv
<1>4. PICK whole, pos : \E k \in 0 .. Len(sent) :
         /\ Laid(whole, sent, pos)
         /\ Over(k) \/ \E e \in 0 .. Len(whole) : Live(whole, pos, k, e)
  BY DEF StreamInv
<1>5. PICK k \in 0 .. Len(sent) :
         /\ Laid(whole, sent, pos)
         /\ Over(k) \/ \E e \in 0 .. Len(whole) : Live(whole, pos, k, e)
  BY <1>4
<1>6. wire # <<>>
  <2>1. CASE wire = <<>>
    <3>1. Len(wire) = 0
      BY <2>1
    <3>. QED  BY <1>3, <3>1
  <2>. QED  BY <2>1
<1>7. PICK e \in 0 .. Len(whole) : Live(whole, pos, k, e)
  BY <1>5, <1>6 DEF Over
<1>8. PICK X : X = Streams[their_role]
  OBVIOUS
<1>9. \A y \in X : Sound(their_role, y)
  BY <1>1, <1>8 DEF Agreement, Agreed
<1>10. sent \in Seq(X)
  BY <1>1, <1>8
<1>11. PICK N \in Nat : N = Len(sent)
  BY <1>10
<1>12. whole \in Seq(Octets) /\ pos \in [0 .. N -> Nat]
  BY <1>5, <1>11 DEF Laid
<1>13. /\ commands = ReadFrom(sent, 0, k)
       /\ Cut(data, whole, pos[k], e)
       /\ Cut(wire, whole, e, Len(whole))
  BY <1>7, LiveParts
<1>14. k \in 0 .. N /\ k \in Nat /\ e \in Nat /\ pos[k] \in Nat /\ Len(whole) \in Nat
  BY <1>11, <1>12
<1>15. PICK m : m = e + n
  OBVIOUS
<1>16. /\ m \in Nat /\ m <= Len(whole)
       /\ Cut(SubSeq(wire, 1, n), whole, e, m)
       /\ Cut(wire', whole, m, Len(whole))
  <2>1. n \in 0 .. Len(wire)
    <3>1. Len(wire) \in Nat
      BY <1>13 DEF Cut
    <3>. QED  BY <1>3, <3>1
  <2>2. /\ e + n \in Nat /\ e + n <= Len(whole)
        /\ Cut(SubSeq(wire, 1, n), whole, e, e + n)
        /\ Cut(SubSeq(wire, n + 1, Len(wire)), whole, e + n, Len(whole))
    BY <1>13, <1>14, <2>1, CutInTwo
  <2>. QED  BY <1>3, <1>15, <2>2
<1>17. PICK bytes : bytes = data \o SubSeq(wire, 1, n)
  OBVIOUS
<1>18. Cut(bytes, whole, pos[k], m)
  BY <1>13, <1>14, <1>16, <1>17, CutsJoined
<1>19. PICK j \in k .. Len(sent) : Outcome(read, whole, sent, pos, k, j, m)
  <2>1. Laid(whole, sent, pos)
    BY <1>5
  <2>2. \E j \in k .. Len(sent) : Outcome(ReadAll(bytes, their_role), whole, sent, pos, k, j, m)
    BY <1>9, <1>10, <1>16, <1>18, <2>1, LoopReads
  <2>. QED  BY <1>2, <1>17, <2>2
<1>20. /\ read = Given(read.commands, read.data, read.needed)
       /\ read.commands = ReadFrom(sent, k, j)
       /\ Cut(read.data, whole, pos[j], m)
       /\ j < Len(sent) => m < pos[j + 1]
       /\ read.data # <<>> => j < Len(sent) /\ read.needed \in 1 .. pos[j + 1] - m
  BY <1>19, Zenon DEF Outcome
<1>21. j \in Nat /\ k <= j /\ j <= Len(sent) /\ j \in 0 .. Len(sent)
  BY <1>11, <1>14
<1>22. commands' = ReadFrom(sent', 0, j)
  <2>1. read.failed = FALSE
    BY <1>20 DEF Given
  <2>2. commands' = commands \o read.commands \o <<>>
    BY <1>3, <2>1
  <2>3. ReadFrom(sent, 0, k) \o ReadFrom(sent, k, j) = ReadFrom(sent, 0, j)
    BY <1>10, <1>14, <1>21, ReadOn
  <2>4. ReadFrom(sent, 0, j) \in Seq({ReadOf(x) : x \in X})
    BY <1>10, <1>21, ReadFromIsSeq
  <2>5. PICK cs : cs = ReadFrom(sent, 0, j)
    OBVIOUS
  <2>6. PICK R : R = {ReadOf(x) : x \in X}
    OBVIOUS
  <2>7. cs \in Seq(R)
    BY <2>4, <2>5, <2>6
  <2>8. cs \o <<>> = cs
    BY <2>7, ConcatEmptySeq
  <2>. QED  BY <1>3, <1>13, <1>20, <2>2, <2>3, <2>5, <2>8
<1>23. Live(whole, pos, j, m)'
  BY <1>3, <1>16, <1>20, <1>22, Zenon DEF Live
<1>24. m \in 0 .. Len(whole)
  BY <1>14, <1>16
<1>. QED  BY <1>1, <1>3, <1>5, <1>21, <1>23, <1>24 DEF StreamInv

\* The connection ends.
LEMMA StreamRecvNothing ==
  ASSUME Agreement, StreamInv, RecvNothing
  PROVE  StreamInv'
<1>1. their_role \in {CLIENT, SERVER} /\ sent \in Seq(Streams[their_role])
  BY DEF StreamInv
<1>2. /\ their_role' = their_role /\ sent' = sent /\ wire' = <<>> /\ ~Ended
      /\ commands' = Append(commands, Hangup)
  BY DEF RecvNothing, Hangup
<1>3. PICK whole, pos : \E k \in 0 .. Len(sent) :
         /\ Laid(whole, sent, pos)
         /\ Over(k) \/ \E e \in 0 .. Len(whole) : Live(whole, pos, k, e)
  BY DEF StreamInv
<1>4. PICK k \in 0 .. Len(sent) :
         /\ Laid(whole, sent, pos)
         /\ Over(k) \/ \E e \in 0 .. Len(whole) : Live(whole, pos, k, e)
  BY <1>3
<1>5. PICK e \in 0 .. Len(whole) : Live(whole, pos, k, e)
  BY <1>1, <1>2, <1>4, EndedOrLive
<1>6. commands = ReadFrom(sent, 0, k)
  BY <1>5, LiveParts
<1>7. Over(k)'
  BY <1>2, <1>6 DEF Over
<1>. QED  BY <1>1, <1>2, <1>4, <1>7 DEF StreamInv

\* Datagrams leave the stream alone.
LEMMA StreamAlone ==
  ASSUME StreamInv, UNCHANGED <<their_role, sent, wire, data, needed, commands>>
  PROVE  StreamInv'
<1>1. ASSUME NEW whole, NEW pos, NEW k, NEW e, Live(whole, pos, k, e) PROVE Live(whole, pos, k, e)'
  <2>1. /\ commands' = ReadFrom(sent', 0, k)
        /\ Cut(data', whole, pos[k], e)
        /\ Cut(wire', whole, e, Len(whole))
    BY <1>1, LiveParts
  <2>2. k < Len(sent') => e < pos[k + 1]
    BY <1>1, LiveParts
  <2>3. data' # <<>> => k < Len(sent') /\ needed' \in 1 .. pos[k + 1] - e
    BY <1>1, LiveParts
  <2>. QED  BY <2>1, <2>2, <2>3, Zenon DEF Live
<1>2. \A k : Over(k) => Over(k)'
  BY DEF Over
<1>. QED  BY <1>1, <1>2 DEF StreamInv

\* Every step keeps the invariant.
LEMMA StreamStep ==
  ASSUME Agreement, StreamInv, [Next]_vars
  PROVE  StreamInv'
<1>1. ASSUME NEW x \in Streams[their_role], Send(x) PROVE StreamInv'
  BY <1>1, StreamSend
<1>2. ASSUME NEW n \in Pieces \cup {Len(wire)}, Recv(n) PROVE StreamInv'
  BY <1>2, StreamRecv
<1>3. CASE RecvNothing
  BY <1>3, StreamRecvNothing
<1>4. ASSUME NEW cs \in Datagrams[their_role], SendDatagram(cs) PROVE StreamInv'
  BY <1>4, StreamAlone DEF SendDatagram
<1>5. CASE Disconnect
  BY <1>5, StreamAlone DEF Disconnect
<1>6. CASE UNCHANGED vars
  BY <1>6, StreamAlone DEF vars
<1>. QED  BY <1>1, <1>2, <1>3, <1>4, <1>5, <1>6 DEF Next

\* The invariant says what ReadBackAsSent and NeededIsDue say.
LEMMA StreamIsRead ==
  ASSUME Agreement, StreamInv
  PROVE  ReadBackAsSent /\ NeededIsDue
<1>1. their_role \in {CLIENT, SERVER} /\ sent \in Seq(Streams[their_role])
  BY DEF StreamInv
<1>2. PICK whole, pos : \E k \in 0 .. Len(sent) :
         /\ Laid(whole, sent, pos)
         /\ Over(k) \/ \E e \in 0 .. Len(whole) : Live(whole, pos, k, e)
  BY DEF StreamInv
<1>3. PICK k \in 0 .. Len(sent) :
         /\ Laid(whole, sent, pos)
         /\ Over(k) \/ \E e \in 0 .. Len(whole) : Live(whole, pos, k, e)
  BY <1>2
<1>4. PICK X : X = Streams[their_role]
  OBVIOUS
<1>5. sent \in Seq(X) /\ \A x \in X : Sound(their_role, x) /\ SameCommand(x, ReadOf(x))
  BY <1>1, <1>4 DEF Agreement, Agreed
<1>6. PICK N \in Nat : N = Len(sent)
  BY <1>5
<1>7. k \in Nat /\ k <= Len(sent) /\ 0 \in Nat /\ 0 <= k
  BY <1>6
<1>8. PICK read : read = ReadFrom(sent, 0, k)
  OBVIOUS
<1>9. /\ read \in Seq({ReadOf(x) : x \in X}) /\ Len(read) = k - 0
      /\ \A q \in 1 .. k - 0 : read[q] = ReadOf(sent[0 + q])
  BY <1>5, <1>7, <1>8, ReadFromIsSeq
<1>10. Len(read) = k /\ DOMAIN read = 1 .. k
  <2>1. Len(read) = k
    BY <1>7, <1>9
  <2>2. DOMAIN read = 1 .. Len(read)
    BY <1>9
  <2>. QED  BY <2>1, <2>2
<1>11. \A i \in 1 .. k : SameCommand(sent[i], read[i])
  <2>. SUFFICES ASSUME NEW i \in 1 .. k PROVE SameCommand(sent[i], read[i])
    OBVIOUS
  <2>1. i \in 1 .. k - 0 /\ 0 + i = i /\ i \in 1 .. Len(sent)
    BY <1>6, <1>7
  <2>2. read[i] = ReadOf(sent[i])
    BY <1>9, <2>1
  <2>3. PICK x \in X : x = sent[i]
    BY <1>5, <2>1
  <2>. QED  BY <1>5, <2>2, <2>3
<1>12. CASE Over(k)
  <2>1. Ended /\ Front(commands) = read
    BY <1>1, <1>8, <1>12, EndedOrLive
  <2>. QED  BY <1>7, <1>10, <1>11, <2>1 DEF ReadBackAsSent, NeededIsDue
<1>13. ASSUME NEW e \in 0 .. Len(whole), Live(whole, pos, k, e) PROVE ReadBackAsSent /\ NeededIsDue
  <2>1. /\ commands = ReadFrom(sent, 0, k)
        /\ Cut(wire, whole, e, Len(whole))
        /\ k < Len(sent) => e < pos[k + 1]
        /\ data # <<>> => k < Len(sent) /\ needed \in 1 .. pos[k + 1] - e
    BY <1>13, LiveParts
  <2>2. ~Ended /\ commands = read
    BY <1>1, <1>8, <2>1, EndedOrLive
  <2>3. ReadBackAsSent
    BY <1>7, <1>10, <1>11, <2>2 DEF ReadBackAsSent
  <2>4. whole \in Seq(Octets) /\ pos \in [0 .. N -> Nat] /\ pos[N] = Len(whole)
    BY <1>3, <1>6 DEF Laid
  <2>5. wire \in Seq(Octets) /\ Len(wire) = Len(whole) - e
    BY <2>1 DEF Cut
  <2>6. k < N => pos[k + 1] \in Nat /\ pos[k + 1] <= Len(whole)
    <3>. SUFFICES ASSUME k < N PROVE pos[k + 1] \in Nat /\ pos[k + 1] <= Len(whole)
      OBVIOUS
    <3>1. k + 1 \in 0 .. N /\ N \in 0 .. N /\ k + 1 <= N
      BY <1>7
    <3>2. \A i, j \in 0 .. Len(sent) : i <= j => pos[i] <= pos[j]
      BY <1>3, <1>5, PlacesInOrder
    <3>. QED  BY <1>6, <2>4, <3>1, <3>2
  <2>7. data # <<>> => needed > 0 /\ needed <= Len(wire)
    <3>. SUFFICES ASSUME data # <<>> PROVE needed > 0 /\ needed <= Len(wire)
      OBVIOUS
    <3>1. k < N /\ needed \in 1 .. pos[k + 1] - e
      BY <1>6, <2>1
    <3>2. PICK p : p = pos[k + 1]
      OBVIOUS
    <3>3. p \in Nat /\ p <= Len(whole) /\ needed \in 1 .. p - e
      BY <2>6, <3>1, <3>2
    <3>4. Len(whole) \in Nat
      BY <2>4
    <3>. QED  BY <2>5, <3>3, <3>4
  <2>8. wire = <<>> => Len(commands) = Len(sent)
    <3>. SUFFICES ASSUME wire = <<>>, k < N PROVE FALSE
      BY <1>6, <1>7, <1>10, <2>2
    <3>1. Len(wire) = 0 /\ Len(whole) \in Nat
      BY <2>4
    <3>2. e = Len(whole)
      BY <2>5, <3>1
    <3>. QED  BY <1>6, <2>1, <2>6, <3>1, <3>2
  <2>. QED  BY <2>3, <2>7, <2>8 DEF NeededIsDue
<1>. QED  BY <1>3, <1>12, <1>13


(***************************************************************************)
(* Sequences, one behind the other.                                        *)
(***************************************************************************)
FlatStep(seqs, f, i) == IF i = 1 THEN seqs[i] ELSE f[i - 1] \o seqs[i]

Flats(seqs) == CHOOSE f : f = [i \in 1 .. Len(seqs) |-> FlatStep(seqs, f, i)]

\* The recursion of FlattenSeq is well founded.
LEMMA FlatsAreDefined ==
  ASSUME NEW S, NEW seqs \in Seq(S)
  PROVE  \E f : f = [i \in 1 .. Len(seqs) |-> FlatStep(seqs, f, i)]
<1>. DEFINE Upto(n, f) == f = [i \in 1 .. n |-> FlatStep(seqs, f, i)]
            Good == {n \in 0 .. Len(seqs) : \E f : Upto(n, f)}
<1>1. Len(seqs) \in Nat
  OBVIOUS
<1>2. 0 \in Good
  <2>1. PICK f : f = [i \in 1 .. 0 |-> FlatStep(seqs, <<>>, i)]
    OBVIOUS
  <2>2. Upto(0, f)
    BY <2>1
  <2>3. \E g : Upto(0, g)
    <3>. HIDE DEF Upto
    <3>. QED  BY <2>2
  <2>4. 0 \in 0 .. Len(seqs)
    BY <1>1
  <2>. HIDE DEF Upto
  <2>. QED  BY <2>3, <2>4
<1>3. ASSUME NEW n \in 0 .. Len(seqs) - 1, n \in Good PROVE n + 1 \in Good
  <2>1. PICK f : Upto(n, f)
    BY <1>3
  <2>2. PICK g : g = [i \in 1 .. n + 1 |-> FlatStep(seqs, f, i)]
    OBVIOUS
  <2>3. \A i \in 1 .. n : g[i] = f[i]
    BY <2>1, <2>2
  <2>4. ASSUME NEW i \in 1 .. n + 1 PROVE FlatStep(seqs, f, i) = FlatStep(seqs, g, i)
    <3>1. CASE i = 1
      BY <3>1 DEF FlatStep
    <3>2. CASE i # 1
      <4>1. i - 1 \in 1 .. n
        BY <1>1, <3>2
      <4>2. f[i - 1] = g[i - 1]
        BY <2>3, <4>1
      <4>. QED  BY <3>2, <4>2 DEF FlatStep
    <3>. QED  BY <3>1, <3>2
  <2>5. Upto(n + 1, g)
    BY <2>2, <2>4
  <2>. QED  BY <1>1, <2>5
<1>. HIDE DEF Good
<1>4. \A n \in 0 .. Len(seqs) : n \in Good
  BY <1>1, <1>2, <1>3, Induction
<1>. QED  BY <1>1, <1>4 DEF Good

\* FlattenSeq, one sequence after the other.
LEMMA Flattened ==
  ASSUME NEW S, NEW seqs \in Seq(S), Len(seqs) # 0
  PROVE  /\ FlattenSeq(seqs) = Flats(seqs)[Len(seqs)]
         /\ Flats(seqs)[1] = seqs[1]
         /\ \A i \in 2 .. Len(seqs) : Flats(seqs)[i] = Flats(seqs)[i - 1] \o seqs[i]
<1>1. FlattenSeq(seqs) = Flats(seqs)[Len(seqs)]
  BY DEF FlattenSeq, Flats, FlatStep
<1>2. PICK f : f = Flats(seqs)
  OBVIOUS
<1>3. Flats(seqs) = [i \in 1 .. Len(seqs) |-> FlatStep(seqs, Flats(seqs), i)]
  BY FlatsAreDefined DEF Flats
<1>4. f = [i \in 1 .. Len(seqs) |-> FlatStep(seqs, f, i)]
  BY <1>2, <1>3
<1>5. \A i \in 1 .. Len(seqs) : f[i] = FlatStep(seqs, f, i)
  BY <1>4
<1>6. 1 \in 1 .. Len(seqs)
  OBVIOUS
<1>7. f[1] = seqs[1]
  BY <1>5, <1>6 DEF FlatStep
<1>8. ASSUME NEW i \in 2 .. Len(seqs) PROVE f[i] = f[i - 1] \o seqs[i]
  <2>1. i \in 1 .. Len(seqs) /\ i # 1
    OBVIOUS
  <2>. QED  BY <1>5, <2>1 DEF FlatStep
<1>. QED  BY <1>1, <1>2, <1>7, <1>8

\* The short cases.
LEMMA FlattenedFew ==
  ASSUME NEW a, NEW b
  PROVE  /\ FlattenSeq(<<>>) = <<>>
         /\ FlattenSeq(<<a>>) = a
         /\ FlattenSeq(<<a, b>>) = a \o b
<1>. DEFINE S == {a, b}
<1>1. FlattenSeq(<<>>) = <<>>
  BY DEF FlattenSeq
<1>2. FlattenSeq(<<a>>) = a
  <2>1. PICK s : s = <<a>>
    OBVIOUS
  <2>2. s \in Seq(S) /\ Len(s) = 1 /\ s[1] = a
    BY <2>1
  <2>. HIDE DEF S
  <2>3. s \in Seq(S) /\ Len(s) # 0
    BY <2>2
  <2>4. FlattenSeq(s) = Flats(s)[Len(s)] /\ Flats(s)[1] = s[1]
    BY <2>3, Flattened
  <2>. QED  BY <2>1, <2>2, <2>4
<1>3. FlattenSeq(<<a, b>>) = a \o b
  <2>1. PICK s : s = <<a, b>>
    OBVIOUS
  <2>2. s \in Seq(S) /\ Len(s) = 2 /\ s[1] = a /\ s[2] = b
    BY <2>1
  <2>. HIDE DEF S
  <2>3. s \in Seq(S) /\ Len(s) # 0
    BY <2>2
  <2>4. PICK f : f = Flats(s)
    OBVIOUS
  <2>5. FlattenSeq(s) = f[Len(s)] /\ f[1] = s[1] /\ \A i \in 2 .. Len(s) : f[i] = f[i - 1] \o s[i]
    BY <2>3, <2>4, Flattened
  <2>6. \A i \in 2 .. 2 : f[i] = f[i - 1] \o s[i]
    BY <2>2, <2>5
  <2>7. f[2] = f[1] \o s[2]
    <3>1. 2 \in 2 .. 2 /\ 2 - 1 = 1
      OBVIOUS
    <3>2. f[2] = f[2 - 1] \o s[2]
      BY <2>6, <3>1, Zenon
    <3>. QED  BY <3>1, <3>2, Zenon
  <2>. QED  BY <2>1, <2>2, <2>5, <2>7
<1>. QED  BY <1>1, <1>2, <1>3

\* three sequences, one behind the other
Chain(a, b, c) == (a \o b) \o c

\* Three sequences, flattened.
LEMMA FlattenedThree ==
  ASSUME NEW a, NEW b, NEW c
  PROVE  FlattenSeq(<<a, b, c>>) = Chain(a, b, c)
<1>. DEFINE S == {a, b, c}
<1>1. PICK s : s = <<a, b, c>>
  OBVIOUS
<1>2. s \in Seq(S) /\ Len(s) = 3 /\ s[1] = a /\ s[2] = b /\ s[3] = c
  BY <1>1
<1>. HIDE DEF S
<1>3. s \in Seq(S) /\ Len(s) # 0
  BY <1>2
<1>4. PICK f : f = Flats(s)
  OBVIOUS
<1>5. FlattenSeq(s) = f[Len(s)] /\ f[1] = s[1] /\ \A i \in 2 .. Len(s) : f[i] = f[i - 1] \o s[i]
  BY <1>3, <1>4, Flattened
<1>6. \A i \in 2 .. 3 : f[i] = f[i - 1] \o s[i]
  BY <1>2, <1>5
<1>7. f[2] = f[1] \o s[2]
  <2>1. 2 \in 2 .. 3 /\ 2 - 1 = 1
    OBVIOUS
  <2>2. f[2] = f[2 - 1] \o s[2]
    BY <1>6, <2>1, Zenon
  <2>. QED  BY <2>1, <2>2, Zenon
<1>8. f[3] = f[2] \o s[3]
  <2>1. 3 \in 2 .. 3 /\ 3 - 1 = 2
    OBVIOUS
  <2>2. f[3] = f[3 - 1] \o s[3]
    BY <1>6, <2>1, Zenon
  <2>. QED  BY <2>1, <2>2, Zenon
<1>. QED  BY <1>1, <1>2, <1>5, <1>7, <1>8 DEF Chain

(***************************************************************************)
(* Datagrams.                                                              *)
(***************************************************************************)
\* what a datagram needs besides: a short header, a payload that needs no
\* padding, and none where the class has none
Packed(role, x) ==
  /\ Sound(role, x)
  /\ ~x.command.header.extended
  /\ x.command.header.payload_size % 8 = 0
  /\ ReadAs(x) \notin HAS_PAYLOAD => x.command.header.payload_size = 0

\* A multiple of 8 is not padded.
LEMMA PaddedMultiple ==
  ASSUME NEW n \in Nat, n % 8 = 0
  PROVE  padded_len(n) - n = 0
BY DEF padded_len

\* The bytes of a command are its header and its payload, uncut and unpadded.
LEMMA PackedBytes ==
  ASSUME NEW role, NEW x, Packed(role, x)
  PROVE  CommandBytes(x.command) = Encoded(x.command)
<1>1. PICK c : c = x.command
  OBVIOUS
<1>2. PICK p : p = Payload(c)
  OBVIOUS
<1>3. /\ c.header \in ShortHeaders \cup LongHeaders
      /\ p \in Seq(Octets) /\ Len(p) = c.header.payload_size /\ c.header.payload_size % 8 = 0
  BY <1>1, <1>2 DEF Packed, Sound
<1>4. PICK n \in Nat : n = c.header.payload_size /\ n = Len(p) /\ n % 8 = 0
  BY <1>3
<1>5. Slice(p, 1, n) = p
  <2>1. Slice(p, 1, n) = SubSeq(p, 1, Len(p))
    BY <1>4 DEF Slice
  <2>2. p \in Seq(Octets)
    BY <1>3
  <2>3. SubSeq(p, 1, Len(p)) = p
    BY <2>2, SubSeqFull
  <2>. QED  BY <2>1, <2>3
<1>6. Zeros(padded_len(Len(p)) - Len(p)) = <<>>
  <2>1. padded_len(Len(p)) - Len(p) = 0
    BY <1>4, PaddedMultiple
  <2>. QED  BY <2>1 DEF Zeros
<1>7. CommandBytes(c) = HeaderBytes(c.header) \o p \o <<>>
  BY <1>2, <1>4, <1>5, <1>6 DEF CommandBytes
<1>8. HeaderBytes(c.header) \in Seq(Octets)
  BY <1>3, HeaderOctets
<1>9. PICK s : s = HeaderBytes(c.header) \o p
  OBVIOUS
<1>10. s \in Seq(Octets)
  BY <1>3, <1>8, <1>9, Joined
<1>11. s \o <<>> = s
  BY <1>10, ConcatEmptySeq
<1>. QED  BY <1>1, <1>2, <1>7, <1>9, <1>11 DEF Encoded

\* The bytes of a datagram are those of its commands, one behind the other.
LEMMA DatagramLaid ==
  ASSUME NEW X, NEW role, \A x \in X : Packed(role, x), NEW cs \in Seq(X), NEW whole,
         whole = FlattenSeq([i \in DOMAIN cs |-> CommandBytes(cs[i].command)])
  PROVE  \E pos : Laid(whole, cs, pos)
<1>0. \A x \in X : Sound(role, x)
  BY DEF Packed
<1>1. PICK N \in Nat : N = Len(cs)
  OBVIOUS
<1>2. PICK seqs : seqs = [i \in DOMAIN cs |-> CommandBytes(cs[i].command)]
  OBVIOUS
<1>3. seqs \in Seq(Seq(Octets)) /\ Len(seqs) = N /\ \A i \in 1 .. N : seqs[i] = Encoded(cs[i].command)
  <2>1. \A i \in 1 .. N : /\ CommandBytes(cs[i].command) = Encoded(cs[i].command)
                          /\ Encoded(cs[i].command) \in Seq(Octets)
    <3>. SUFFICES ASSUME NEW i \in 1 .. N
                  PROVE  /\ CommandBytes(cs[i].command) = Encoded(cs[i].command)
                         /\ Encoded(cs[i].command) \in Seq(Octets)
      OBVIOUS
    <3>1. PICK x \in X : x = cs[i]
      BY <1>1
    <3>2. Packed(role, x) /\ Sound(role, x)
      BY <1>0
    <3>3. CommandBytes(x.command) = Encoded(x.command)
      BY <3>2, PackedBytes
    <3>4. Encoded(x.command) \in Seq(Octets)
      BY <3>2, EncodedBytes
    <3>. QED  BY <3>1, <3>3, <3>4
  <2>2. DOMAIN cs = 1 .. N
    BY <1>1
  <2>3. seqs = [i \in 1 .. N |-> CommandBytes(cs[i].command)]
    BY <1>2, <2>2
  <2>4. \A i \in 1 .. N : seqs[i] = CommandBytes(cs[i].command)
    BY <2>3
  <2>5. seqs \in [1 .. N -> Seq(Octets)]
    <3>. HIDE DEF Octets
    <3>. QED  BY <2>1, <2>3
  <2>6. seqs \in Seq(Seq(Octets)) /\ Len(seqs) = N
    BY <2>3, <2>5
  <2>. QED  BY <2>1, <2>4, <2>6
<1>4. CASE N = 0
  <2>0. cs \in Seq(X) /\ Len(cs) = 0 /\ seqs \in Seq(Seq(Octets)) /\ Len(seqs) = 0
    BY <1>1, <1>3, <1>4
  <2>1. cs = <<>> /\ seqs = <<>>
    BY <2>0, EmptySeq
  <2>2. whole = <<>>
    <3>1. whole = FlattenSeq(seqs)
      BY <1>2
    <3>2. FlattenSeq(<<>>) = <<>>
      BY FlattenedFew
    <3>. QED  BY <2>1, <3>1, <3>2
  <2>3. PICK pos : pos = [i \in 0 .. 0 |-> 0]
    OBVIOUS
  <2>4. Laid(<<>>, <<>>, pos)
    BY <2>3, LaidEmpty
  <2>. QED  BY <2>1, <2>2, <2>4
<1>5. CASE N # 0
  <2>1. PICK f : f = Flats(seqs)
    OBVIOUS
  <2>2. whole = f[N] /\ f[1] = seqs[1] /\ \A i \in 2 .. N : f[i] = f[i - 1] \o seqs[i]
    <3>1. seqs \in Seq(Seq(Octets)) /\ Len(seqs) # 0
      BY <1>3, <1>5
    <3>2. FlattenSeq(seqs) = Flats(seqs)[Len(seqs)]
      BY <3>1, Flattened
    <3>3. Flats(seqs)[1] = seqs[1] /\ \A i \in 2 .. Len(seqs) : Flats(seqs)[i] = Flats(seqs)[i - 1] \o seqs[i]
      BY <3>1, Flattened
    <3>. QED  BY <1>2, <1>3, <2>1, <3>2, <3>3
  <2>. DEFINE Good == {n \in 0 .. N : n = 0 \/ \E pos : Laid(f[n], SubSeq(cs, 1, n), pos)}
  <2>3. 0 \in Good
    OBVIOUS
  <2>4. ASSUME NEW n \in 0 .. N - 1, n \in Good PROVE n + 1 \in Good
    <3>0. PICK m \in Nat : m = n + 1
      OBVIOUS
    <3>1. m \in 1 .. N /\ m \in 0 .. N
      BY <1>1, <3>0
    <3>2. PICK x \in X : x = cs[m]
      BY <1>1, <3>1
    <3>3. PICK xs : xs = SubSeq(cs, 1, n)
      OBVIOUS
    <3>4. xs \in Seq(X) /\ SubSeq(cs, 1, m) = Append(xs, x)
      BY <1>1, <3>0, <3>1, <3>2, <3>3
    <3>5. \E pos : Laid(f[m], Append(xs, x), pos)
      <4>1. CASE n = 0
        <5>1. xs = <<>> /\ m = 1
          BY <3>0, <3>3, <4>1
        <5>2. f[m] = Encoded(x.command)
          BY <1>3, <2>2, <3>1, <3>2, <5>1
        <5>3. PICK pos : pos = [i \in 0 .. 0 |-> 0]
          OBVIOUS
        <5>4. Laid(<<>>, xs, pos)
          BY <5>1, <5>3, LaidEmpty
        <5>5. \E places : Longer(places, <<>>, xs, pos, x)
          BY <1>0, <3>4, <5>4, LaidBehind
        <5>6. \E places : Laid(<<>> \o Encoded(x.command), Append(xs, x), places)
          BY <5>5 DEF Longer
        <5>7. Encoded(x.command) \in Seq(Octets)
          BY <1>0, EncodedBytes
        <5>8. <<>> \o Encoded(x.command) = Encoded(x.command)
          BY <5>7, ConcatEmptySeq
        <5>. QED  BY <5>2, <5>6, <5>8
      <4>2. CASE n # 0
        <5>1. PICK pos : Laid(f[n], xs, pos)
          BY <2>4, <3>3, <4>2
        <5>2. f[m] = f[n] \o Encoded(x.command)
          <6>1. m \in 2 .. N /\ m - 1 = n
            BY <1>1, <3>0, <3>1, <4>2
          <6>. QED  BY <1>3, <2>2, <3>1, <3>2, <6>1
        <5>3. \E places : Longer(places, f[n], xs, pos, x)
          BY <1>0, <3>4, <5>1, LaidBehind
        <5>4. \E places : Laid(f[n] \o Encoded(x.command), Append(xs, x), places)
          BY <5>3 DEF Longer
        <5>. QED  BY <5>2, <5>4
      <4>. QED  BY <4>1, <4>2
    <3>. QED  BY <3>0, <3>1, <3>4, <3>5
  <2>5. N \in Good
    <3>. HIDE DEF Good
    <3>1. \A n \in 0 .. N : n \in Good
      BY <2>3, <2>4, Induction
    <3>. QED  BY <3>1
  <2>6. SubSeq(cs, 1, N) = cs
    BY <1>1
  <2>. QED  BY <1>5, <2>2, <2>5, <2>6
<1>. QED  BY <1>4, <1>5

\* what is read where n bytes are left, if f is what is read where fewer are
Part(bytes, role, f, n) ==
  IF n = 0 THEN <<>>
  ELSE LET rest   == Slice(bytes, Len(bytes) - n + 1, Len(bytes))
           header == HeaderFrom(rest)
           classes == CommandClasses(role, header.command)
       IN  IF n < MessageHeaderSize \/ classes = {} THEN <<Message(ProtocolError, header, <<>>)>>
           ELSE LET cls  == CHOOSE k \in classes : TRUE
                    size == IF cls \in HAS_PAYLOAD THEN header.payload_size ELSE 0
                    body == Slice(rest, MessageHeaderSize + 1, MessageHeaderSize + size)
                IN  <<from_wire(cls, header, body)>>
                    \o f[n - MessageHeaderSize - Len(body)]

Parts(bytes, role) == CHOOSE f : f = [n \in 0 .. Len(bytes) |-> Part(bytes, role, f, n)]

\* the class of the command at the start of rest, and its payload
ClassAt(rest, role) == CHOOSE k \in CommandClasses(role, HeaderFrom(rest).command) : TRUE
SizeAt(rest, role) == IF ClassAt(rest, role) \in HAS_PAYLOAD THEN HeaderFrom(rest).payload_size ELSE 0
BodyAt(rest, role) == Slice(rest, MessageHeaderSize + 1, MessageHeaderSize + SizeAt(rest, role))

\* no command can be read at the start of rest, of which n bytes are left
Broken(rest, role, n) == n < 16 \/ CommandClasses(role, HeaderFrom(rest).command) = {}

\* One part: nothing is left, or
LEMMA PartEnd ==
  ASSUME NEW bytes, NEW role, NEW f
  PROVE  Part(bytes, role, f, 0) = <<>>
BY DEF Part

\* the command is broken, or
LEMMA PartBroken ==
  ASSUME NEW bytes \in Seq(Octets), NEW role, NEW n \in 0 .. Len(bytes), NEW f,
         n # 0, Broken(Rest(bytes, n), role, n)
  PROVE  Part(bytes, role, f, n) = <<Message(ProtocolError, HeaderFrom(Rest(bytes, n)), <<>>)>>
<1>1. Slice(bytes, Len(bytes) - n + 1, Len(bytes)) = Rest(bytes, n)
  BY DEF Slice, Rest
<1>. QED  BY <1>1, Zenon DEF Part, MessageHeaderSize, Broken

\* the command at the start of rest, and what is read behind it
PartOf(rest, role, f, n) ==
  <<from_wire(ClassAt(rest, role), HeaderFrom(rest), BodyAt(rest, role))>>
  \o f[n - 16 - Len(BodyAt(rest, role))]

\* the command is read, and what is behind it.
LEMMA PartMore ==
  ASSUME NEW bytes \in Seq(Octets), NEW role, NEW n \in 0 .. Len(bytes), NEW f,
         n # 0, ~Broken(Rest(bytes, n), role, n)
  PROVE  Part(bytes, role, f, n) = PartOf(Rest(bytes, n), role, f, n)
<1>1. Slice(bytes, Len(bytes) - n + 1, Len(bytes)) = Rest(bytes, n)
  BY DEF Slice, Rest
<1>. QED  BY <1>1, Zenon DEF Part, PartOf, MessageHeaderSize, ClassAt, SizeAt, BodyAt, Broken

\* A part looks only at what is read where fewer bytes are left.
LEMMA PartsLookDown ==
  ASSUME NEW bytes \in Seq(Octets), NEW role, NEW n \in 0 .. Len(bytes), NEW f, NEW g,
         \A m \in 0 .. n - 1 : f[m] = g[m]
  PROVE  Part(bytes, role, f, n) = Part(bytes, role, g, n)
<1>1. PICK rest : rest = Rest(bytes, n)
  OBVIOUS
<1>2. CASE n = 0
  <2>1. Part(bytes, role, f, 0) = <<>>
    BY PartEnd
  <2>2. Part(bytes, role, g, 0) = <<>>
    BY PartEnd
  <2>. QED  BY <1>2, <2>1, <2>2
<1>3. CASE n # 0 /\ Broken(rest, role, n)
  <2>1. Part(bytes, role, f, n) = <<Message(ProtocolError, HeaderFrom(rest), <<>>)>>
    BY <1>1, <1>3, PartBroken
  <2>2. Part(bytes, role, g, n) = <<Message(ProtocolError, HeaderFrom(rest), <<>>)>>
    BY <1>1, <1>3, PartBroken
  <2>. QED  BY <2>1, <2>2
<1>4. CASE n # 0 /\ ~Broken(rest, role, n)
  <2>0. ~(n < 16)
    BY <1>4 DEF Broken
  <2>1. rest \in Seq(Octets) /\ Len(rest) = n
    BY <1>1, Rests
  <2>2. PICK h \in ShortHeaders : h = HeaderFrom(rest)
    BY <2>1, SomeHeader
  <2>3. PICK size \in Nat : size = SizeAt(rest, role)
    BY <2>2, HeaderSizes DEF SizeAt
  <2>4. PICK body : body = Slice(rest, 17, 16 + size)
    OBVIOUS
  <2>5. body = BodyAt(rest, role)
    BY <2>3, <2>4 DEF BodyAt, MessageHeaderSize
  <2>6. body \in Seq(Octets) /\ Len(body) <= n - 16
    <3>1. PICK e : e = IF 16 + size > Len(rest) THEN Len(rest) ELSE 16 + size
      OBVIOUS
    <3>2. e \in Nat /\ e <= n /\ e <= Len(rest) /\ 17 <= e + 1 /\ 17 \in Nat \ {0}
      BY <2>0, <2>1, <3>1
    <3>3. body = Slice(rest, 17, e)
      BY <2>4, <3>1, <3>2 DEF Slice
    <3>4. rest \in Seq(Octets)
      BY <2>1
    <3>5. Slice(rest, 17, e) \in Seq(Octets)
      BY <3>2, <3>4, SlicedWithin
    <3>6. Len(Slice(rest, 17, e)) = e - 17 + 1
      BY <3>2, <3>4, SlicedWithin
    <3>. QED  BY <3>2, <3>3, <3>5, <3>6
  <2>7. n - 16 - Len(body) \in 0 .. n - 1
    BY <2>0, <2>6
  <2>8. f[n - 16 - Len(body)] = g[n - 16 - Len(body)]
    BY <2>7
  <2>9. Part(bytes, role, f, n) = <<from_wire(ClassAt(rest, role), HeaderFrom(rest), body)>> \o f[n - 16 - Len(body)]
    <3>1. Part(bytes, role, f, n) = PartOf(rest, role, f, n)
      BY <1>1, <1>4, PartMore
    <3>. QED  BY <2>5, <3>1, Zenon DEF PartOf
  <2>10. Part(bytes, role, g, n) = <<from_wire(ClassAt(rest, role), HeaderFrom(rest), body)>> \o g[n - 16 - Len(body)]
    <3>1. Part(bytes, role, g, n) = PartOf(rest, role, g, n)
      BY <1>1, <1>4, PartMore
    <3>. QED  BY <2>5, <3>1, Zenon DEF PartOf
  <2>. QED  BY <2>8, <2>9, <2>10
<1>. QED  BY <1>2, <1>3, <1>4

\* The recursion of read_datagram is well founded.
LEMMA PartsAreDefined ==
  ASSUME NEW bytes \in Seq(Octets), NEW role
  PROVE  \E f : f = [n \in 0 .. Len(bytes) |-> Part(bytes, role, f, n)]
<1>. DEFINE Upto(N, f) == f = [n \in 0 .. N |-> Part(bytes, role, f, n)]
            Good == {N \in 0 .. Len(bytes) : \E f : Upto(N, f)}
<1>1. Len(bytes) \in Nat
  OBVIOUS
<1>2. 0 \in Good
  <2>1. PICK f : f = [n \in 0 .. 0 |-> Part(bytes, role, <<>>, n)]
    OBVIOUS
  <2>2. Part(bytes, role, <<>>, 0) = Part(bytes, role, f, 0)
    BY PartsLookDown
  <2>3. Upto(0, f)
    BY <2>1, <2>2
  <2>. QED  BY <1>1, <2>3
<1>3. ASSUME NEW N \in 0 .. Len(bytes) - 1, N \in Good PROVE N + 1 \in Good
  <2>1. PICK f : Upto(N, f)
    BY <1>3
  <2>2. PICK g : g = [n \in 0 .. N + 1 |-> Part(bytes, role, f, n)]
    OBVIOUS
  <2>3. \A n \in 0 .. N : g[n] = f[n]
    BY <2>1, <2>2
  <2>4. ASSUME NEW n \in 0 .. N + 1 PROVE Part(bytes, role, f, n) = Part(bytes, role, g, n)
    <3>1. n \in 0 .. Len(bytes) /\ \A m \in 0 .. n - 1 : f[m] = g[m]
      BY <1>1, <2>3
    <3>. QED  BY <3>1, PartsLookDown
  <2>5. Upto(N + 1, g)
    BY <2>2, <2>4
  <2>. QED  BY <1>1, <2>5
<1>. HIDE DEF Good
<1>4. \A N \in 0 .. Len(bytes) : N \in Good
  BY <1>1, <1>2, <1>3, Induction
<1>. QED  BY <1>1, <1>4 DEF Good

\* read_datagram, part by part.
LEMMA ReadDatagramParts ==
  ASSUME NEW bytes \in Seq(Octets), NEW role
  PROVE  /\ read_datagram(bytes, role) = Parts(bytes, role)[Len(bytes)]
         /\ \A n \in 0 .. Len(bytes) :
              Parts(bytes, role)[n] = Part(bytes, role, Parts(bytes, role), n)
<1>1. read_datagram(bytes, role) = Parts(bytes, role)[Len(bytes)]
  BY DEF read_datagram, Parts, Part
<1>2. Parts(bytes, role) = [n \in 0 .. Len(bytes) |-> Part(bytes, role, Parts(bytes, role), n)]
  BY PartsAreDefined DEF Parts
<1>3. PICK f : f = Parts(bytes, role)
  OBVIOUS
<1>4. f = [n \in 0 .. Len(bytes) |-> Part(bytes, role, f, n)]
  BY <1>2, <1>3
<1>. QED  BY <1>1, <1>3, <1>4

\* The command at the start of the rest of a datagram is read from its own bytes.
LEMMA PackedIsRead ==
  ASSUME NEW role, NEW x, Packed(role, x), NEW rest \in Seq(Octets),
         Begins(rest, Encoded(x.command)), NEW n \in Nat, n = Len(rest), Size(x) <= n
  PROVE  /\ n # 0 /\ ~Broken(rest, role, n)
         /\ from_wire(ClassAt(rest, role), HeaderFrom(rest), BodyAt(rest, role)) = ReadOf(x)
         /\ n - 16 - Len(BodyAt(rest, role)) = n - Size(x)
<1>1. Sound(role, x)
  BY DEF Packed
<1>2. PICK c : c = x.command
  OBVIOUS
<1>3. PICK h \in ShortHeaders \cup LongHeaders : h = c.header /\ ~h.extended
  BY <1>1, <1>2 DEF Packed, Sound
<1>4. PICK e : e = Encoded(c)
  OBVIOUS
<1>5. PICK p : p = Payload(c)
  OBVIOUS
<1>6. HeaderSize(h) = 16
  BY <1>3 DEF HeaderSize, MessageHeaderSize
<1>7. p \in Seq(Octets) /\ Len(p) = h.payload_size /\ CommandClasses(role, h.command) = {ReadAs(x)}
  BY <1>1, <1>2, <1>3, <1>5 DEF Sound
<1>8. e \in Seq(Octets) /\ Len(e) = 16 + Len(p)
  <2>1. e \in Seq(Octets)
    BY <1>1, <1>2, <1>4, EncodedBytes
  <2>2. Len(Encoded(c)) = HeaderSize(c.header) + c.header.payload_size
    BY <1>1, <1>2, EncodedBytes
  <2>. QED  BY <1>3, <1>4, <1>6, <1>7, <2>1, <2>2
<1>9. \A i \in 1 .. Len(p) : e[16 + i] = p[i]
  <2>1. \A i \in 1 .. Len(Payload(c)) : Encoded(c)[HeaderSize(c.header) + i] = Payload(c)[i]
    BY <1>1, <1>2, PayloadBytes
  <2>. QED  BY <1>3, <1>4, <1>5, <1>6, <2>1
<1>10. Size(x) = 16 + Len(p) /\ Len(p) \in Nat /\ 16 + Len(p) <= n
  BY <1>2, <1>4, <1>7, <1>8 DEF Size
<1>11. HeaderFrom(rest) = h
  <2>1. ~(Len(rest) < 16)
    BY <1>10
  <2>2. HeaderFrom(rest) = FirstHeader(c.header)
    BY <1>1, <1>2, <2>1, HeaderIsRead
  <2>. QED  BY <1>3, <2>2 DEF FirstHeader
<1>12. n # 0 /\ ~Broken(rest, role, n)
  <2>1. n # 0 /\ ~(n < 16)
    BY <1>10
  <2>. QED  BY <1>7, <1>11, <2>1 DEF Broken
<1>13. ClassAt(rest, role) = ReadAs(x)
  BY <1>7, <1>11 DEF ClassAt
<1>14. SizeAt(rest, role) = Len(p)
  <2>1. CASE ReadAs(x) \in HAS_PAYLOAD
    BY <1>7, <1>11, <1>13, <2>1 DEF SizeAt
  <2>2. CASE ReadAs(x) \notin HAS_PAYLOAD
    <3>1. h.payload_size = 0
      BY <1>2, <1>3, <2>2 DEF Packed
    <3>. QED  BY <1>7, <1>13, <2>2, <3>1 DEF SizeAt
  <2>. QED  BY <2>1, <2>2
<1>15. PICK m : m = 16 + Len(p)
  OBVIOUS
<1>16. PICK body : body = Slice(rest, 17, m)
  OBVIOUS
<1>17. body = BodyAt(rest, role)
  BY <1>14, <1>15, <1>16 DEF BodyAt, MessageHeaderSize
<1>18. body = p
  <2>1. 17 \in Nat \ {0} /\ m \in Nat /\ m <= Len(rest) /\ 17 <= m + 1
    BY <1>10, <1>15
  <2>2. body \in Seq(Octets)
    BY <1>16, <2>1, SlicedWithin
  <2>3. Len(Slice(rest, 17, m)) = m - 17 + 1
    BY <2>1, SlicedWithin
  <2>4. Len(body) = Len(p)
    BY <1>10, <1>15, <1>16, <2>3
  <2>5. ASSUME NEW i \in 1 .. Len(p) PROVE body[i] = p[i]
    <3>1. body = SubSeq(rest, 17, m)
      BY <1>16, <2>1 DEF Slice
    <3>2. body[i] = rest[16 + i]
      BY <1>10, <1>15, <2>1, <3>1
    <3>3. 16 + i \in 1 .. Len(rest) /\ 16 + i <= Len(e)
      BY <1>8, <1>10
    <3>4. rest[16 + i] = e[16 + i]
      BY <1>2, <1>4, <3>3 DEF Begins
    <3>. QED  BY <1>9, <3>2, <3>4
  <2>. QED  BY <1>7, <2>2, <2>4, <2>5, SameSequence
<1>19. from_wire(ClassAt(rest, role), HeaderFrom(rest), BodyAt(rest, role)) = ReadOf(x)
  BY <1>2, <1>3, <1>5, <1>11, <1>13, <1>17, <1>18 DEF ReadOf
<1>. QED  BY <1>10, <1>12, <1>17, <1>18, <1>19

\* A datagram is read as the commands that were packed.
LEMMA DatagramIsRead ==
  ASSUME NEW X, NEW role, \A x \in X : Packed(role, x), NEW cs \in Seq(X), NEW whole, NEW pos,
         Laid(whole, cs, pos)
  PROVE  read_datagram(whole, role) = ReadFrom(cs, 0, Len(cs))
<1>0. \A x \in X : Sound(role, x)
  BY DEF Packed
<1>1. PICK N \in Nat : N = Len(cs)
  OBVIOUS
<1>2. whole \in Seq(Octets) /\ pos \in [0 .. N -> Nat] /\ pos[0] = 0 /\ pos[N] = Len(whole)
  BY <1>1 DEF Laid
<1>3. PICK l \in Nat : l = Len(whole)
  BY <1>2
<1>4. PICK f : f = Parts(whole, role)
  OBVIOUS
<1>5. /\ read_datagram(whole, role) = f[l]
      /\ \A n \in 0 .. l : f[n] = Part(whole, role, f, n)
  BY <1>2, <1>3, <1>4, ReadDatagramParts
<1>6. \A i \in 0 .. N : pos[i] \in Nat /\ pos[i] <= l
  <2>1. \A i, j \in 0 .. Len(cs) : i <= j => pos[i] <= pos[j]
    BY <1>0, PlacesInOrder
  <2>2. ASSUME NEW i \in 0 .. N PROVE pos[i] \in Nat /\ pos[i] <= l
    <3>1. i \in 0 .. Len(cs) /\ N \in 0 .. Len(cs) /\ i <= N
      BY <1>1
    <3>. QED  BY <1>2, <1>3, <2>1, <3>1
  <2>. QED  BY <2>2
<1>7. Cut(whole, whole, 0, l)
  BY <1>2, <1>3 DEF Cut
<1>. DEFINE Good == {d \in 0 .. N : f[l - pos[N - d]] = ReadFrom(cs, N - d, N)}
<1>8. 0 \in Good
  <2>1. l - pos[N] = 0 /\ 0 \in 0 .. l
    BY <1>2, <1>3
  <2>2. f[0] = <<>>
    BY <1>5, <2>1, PartEnd
  <2>3. ReadFrom(cs, N, N) = <<>>
    BY <1>1 DEF ReadFrom
  <2>4. N - 0 = N /\ 0 \in 0 .. N
    BY <1>1
  <2>. QED  BY <2>1, <2>2, <2>3, <2>4
<1>9. ASSUME NEW d \in 0 .. N - 1, d \in Good PROVE d + 1 \in Good
  <2>0. PICK i : i = N - (d + 1)
    OBVIOUS
  <2>1. PICK t : t = N - d
    OBVIOUS
  <2>2. i \in Nat /\ t \in Nat /\ t = i + 1 /\ i \in 0 .. N /\ i \in 0 .. Len(cs) - 1 /\ d + 1 \in 0 .. N /\ t <= Len(cs)
        /\ i < N
    BY <1>1, <2>0, <2>1
  <2>3. f[l - pos[t]] = ReadFrom(cs, t, N)
    BY <1>9, <2>1
  <2>4. PICK n : n = l - pos[i]
    OBVIOUS
  <2>5. PICK rest : rest = Rest(whole, n)
    OBVIOUS
  <2>6. pos[i] \in Nat /\ pos[i] <= l /\ n \in Nat
    BY <1>6, <2>2, <2>4
  <2>7. n \in 0 .. Len(whole) /\ Cut(rest, whole, pos[i], l)
    <3>1. 0 \in Nat /\ 0 <= pos[i]
      BY <2>6
    <3>2. l - pos[i] \in 0 .. Len(whole) /\ Cut(Rest(whole, l - pos[i]), whole, pos[i], l)
      BY <1>7, <2>6, <3>1, RestIsCut
    <3>. QED  BY <2>4, <2>5, <3>2
  <2>8. PICK x : x = cs[i + 1]
    OBVIOUS
  <2>9. /\ x \in X /\ Size(x) \in Nat
        /\ pos[i + 1] = pos[i] + Size(x)
        /\ Begins(rest, Encoded(x.command))
    <3>1. /\ cs[i + 1] \in X /\ Size(cs[i + 1]) \in Nat
          /\ pos[i + 1] = pos[i] + Size(cs[i + 1])
          /\ Begins(rest, Encoded(cs[i + 1].command))
      BY <1>0, <2>2, <2>7, NextBegins
    <3>. QED  BY <2>8, <3>1
  <2>10. rest \in Seq(Octets) /\ Len(rest) = n
    BY <2>4, <2>7 DEF Cut
  <2>11. pos[t] \in Nat /\ pos[t] <= l /\ pos[t] = pos[i] + Size(x)
    <3>1. t \in 0 .. N
      BY <1>1, <2>2
    <3>. QED  BY <1>6, <2>2, <2>9, <3>1
  <2>12. Size(x) <= n /\ n - Size(x) = l - pos[t]
    BY <2>4, <2>6, <2>9, <2>11
  <2>13. PICK body : body = BodyAt(rest, role)
    OBVIOUS
  <2>14. /\ n # 0 /\ ~Broken(rest, role, n)
         /\ from_wire(ClassAt(rest, role), HeaderFrom(rest), body) = ReadOf(x)
         /\ n - 16 - Len(body) = l - pos[t]
    <3>1. Packed(role, x)
      BY <2>9
    <3>2. /\ n # 0 /\ ~Broken(rest, role, n)
          /\ from_wire(ClassAt(rest, role), HeaderFrom(rest), BodyAt(rest, role)) = ReadOf(x)
          /\ n - 16 - Len(BodyAt(rest, role)) = n - Size(x)
      BY <2>6, <2>9, <2>10, <2>12, <3>1, PackedIsRead
    <3>. QED  BY <2>12, <2>13, <3>2
  <2>15. Part(whole, role, f, n)
         = <<from_wire(ClassAt(rest, role), HeaderFrom(rest), body)>> \o f[n - 16 - Len(body)]
    <3>1. whole \in Seq(Octets) /\ n \in 0 .. Len(whole) /\ n # 0 /\ ~Broken(rest, role, n)
      BY <1>2, <2>7, <2>14
    <3>2. Part(whole, role, f, n) = PartOf(rest, role, f, n)
      BY <2>5, <3>1, PartMore
    <3>. QED  BY <2>13, <3>2, Zenon DEF PartOf
  <2>16. f[n] = <<ReadOf(x)>> \o ReadFrom(cs, t, N)
    <3>1. f[n] = Part(whole, role, f, n)
      BY <1>3, <1>5, <2>7
    <3>. QED  BY <2>3, <2>14, <2>15, <3>1
  <2>17. <<ReadOf(cs[t])>> \o ReadFrom(cs, t, N) = ReadFrom(cs, i, N)
    <3>1. i \in Nat /\ N \in Nat /\ i < N /\ N <= Len(cs) /\ t = i + 1
      BY <1>1, <2>2
    <3>. QED  BY <3>1, OneInFront
  <2>18. f[l - pos[i]] = ReadFrom(cs, i, N)
    BY <2>2, <2>4, <2>8, <2>16, <2>17
  <2>. QED  BY <2>0, <2>2, <2>18
<1>10. N \in Good
  <2>. HIDE DEF Good
  <2>1. \A d \in 0 .. N : d \in Good
    BY <1>8, <1>9, Induction
  <2>. QED  BY <2>1
<1>11. f[l - pos[0]] = ReadFrom(cs, 0, N)
  <2>1. N - N = 0
    OBVIOUS
  <2>. QED  BY <1>10, <2>1
<1>. QED  BY <1>1, <1>2, <1>5, <1>11

(***************************************************************************)
(* The headers of commands.                                                *)
(***************************************************************************)
\* A number of 16 bits that counts whole groups of 8 is not the marker.
LEMMA NoMarker ==
  ASSUME NEW n \in Nat, n % 8 = 0
  PROVE  n # MAX_16BIT
<1>1. PICK k \in Nat : Byte = 2 * k
  <2>1. Byte \in Nat /\ Byte % 2 = 0
    BY ByteAssumption
  <2>2. PICK b \in Nat : b = Byte /\ b % 2 = 0
    BY <2>1
  <2>3. b = 2 * (b \div 2) /\ b \div 2 \in Nat
    BY <2>2
  <2>. QED  BY <2>2, <2>3
<1>2. PICK j \in Nat : MAX_16BIT = 2 * j - 1
  <2>1. MAX_16BIT = (2 * k) * (2 * k) - 1
    BY <1>1 DEF MAX_16BIT
  <2>2. k * k \in Nat /\ (2 * k) * (2 * k) = 4 * (k * k)
    OBVIOUS
  <2>3. PICK q \in Nat : q = k * k
    BY <2>2
  <2>4. MAX_16BIT = 2 * (2 * q) - 1 /\ 2 * q \in Nat
    BY <2>1, <2>2, <2>3
  <2>. QED  BY <2>4
<1>. QED  BY <1>2

\* a header that has the fields that it was given
HeaderOf(h, c, ps, dt, dc, p1, p2) ==
  /\ h \in ShortHeaders \cup LongHeaders
  /\ ~h.extended => ~Marked(h)
  /\ h.command = c /\ h.payload_size = ps /\ h.data_type = dt /\ h.data_count = dc
  /\ h.parameter1 = p1 /\ h.parameter2 = p2

\* Fields that fit are kept.
LEMMA ShortKept ==
  ASSUME NEW c \in U16, NEW ps \in U16, NEW dt \in U16, NEW dc \in U16,
         NEW p1 \in U32, NEW p2 \in U32, ps % 8 = 0
  PROVE  HeaderOf(MessageHeader(c, ps, dt, dc, p1, p2), c, ps, dt, dc, p1, p2)
<1>1. MessageHeader(c, ps, dt, dc, p1, p2)
        = [command |-> c, payload_size |-> ps, data_type |-> dt, data_count |-> dc,
           parameter1 |-> p1, parameter2 |-> p2, extended |-> FALSE]
  BY Kept DEF MessageHeader, U16, U32
<1>2. ps # MAX_16BIT
  BY NoMarker, Widths DEF U16
<1>. QED  BY <1>1, <1>2 DEF HeaderOf, Marked, ShortHeaders

\* A header that counts what must be counted keeps its fields, short or extended.
LEMMA HeaderKept ==
  ASSUME NEW sizes \in SUBSET Nat, NEW c \in U16, NEW ps \in U32, NEW dt \in U16, NEW dc \in U32,
         NEW p1 \in U32, NEW p2 \in U32, ps % 8 = 0,
         ps \in sizes \/ ps \in U16, dc \in sizes \/ dc \in U16
  PROVE  HeaderOf(Header(sizes, c, ps, dt, dc, p1, p2), c, ps, dt, dc, p1, p2)
<1>1. CASE \E n \in sizes : n > MAX_16BIT
  <2>1. Header(sizes, c, ps, dt, dc, p1, p2) = ExtendedMessageHeader(c, ps, dt, dc, p1, p2)
    BY <1>1 DEF Header
  <2>2. ExtendedMessageHeader(c, ps, dt, dc, p1, p2)
          = [command |-> c, payload_size |-> ps, data_type |-> dt, data_count |-> dc,
             parameter1 |-> p1, parameter2 |-> p2, extended |-> TRUE]
    BY Kept DEF ExtendedMessageHeader, U16, U32
  <2>. QED  BY <2>1, <2>2 DEF HeaderOf, Marked, LongHeaders
<1>2. CASE ~ \E n \in sizes : n > MAX_16BIT
  <2>1. Header(sizes, c, ps, dt, dc, p1, p2) = MessageHeader(c, ps, dt, dc, p1, p2)
    BY <1>2 DEF Header
  <2>2. ps \in U16 /\ dc \in U16
    BY <1>2, Widths DEF U16, U32
  <2>. QED  BY <2>1, <2>2, ShortKept
<1>. QED  BY <1>1, <1>2

\* No two classes that a role sends have the same id.
LEMMA IdsDiffer ==
  /\ \A j, k \in DOMAIN RequestId : RequestId[j] = RequestId[k] => j = k
  /\ \A j, k \in DOMAIN ResponseId : ResponseId[j] = ResponseId[k] => j = k
<1>1. \A j, k \in DOMAIN RequestId : RequestId[j] = RequestId[k] => j = k
  BY DEF RequestId
<1>2. \A j, k \in DOMAIN ResponseId : ResponseId[j] = ResponseId[k] => j = k
  BY DEF ResponseId
<1>. QED  BY <1>1, <1>2

\* An id names its class.
LEMMA OneClass ==
  ASSUME NEW role \in {CLIENT, SERVER}, NEW cls \in DOMAIN Ids(role)
  PROVE  CommandClasses(role, Ids(role)[cls]) = {cls}
<1>1. \A k \in DOMAIN Ids(role) : Ids(role)[k] = Ids(role)[cls] => k = cls
  <2>1. CASE role = CLIENT
    BY <2>1, IdsDiffer DEF Ids
  <2>2. CASE role # CLIENT
    BY <2>2, IdsDiffer DEF Ids
  <2>. QED  BY <2>1, <2>2
<1>. QED  BY <1>1 DEF CommandClasses

\* A command that is nothing but its header.
LEMMA HeaderOnly ==
  ASSUME NEW role \in {CLIENT, SERVER}, NEW x, NEW cls \in DOMAIN Ids(role), NEW h,
         cls \notin HAS_PAYLOAD, cls # "EventCancelResponse",
         x.command = Message(cls, h, <<>>),
         NEW dt, NEW dc, NEW p1, NEW p2, HeaderOf(h, Ids(role)[cls], 0, dt, dc, p1, p2)
  PROVE  /\ Sound(role, x) /\ ReadAs(x) = cls
         /\ ReadOf(x) = x.command
<1>1. x.command.cls = cls /\ x.command.header = h /\ x.command.buffers = <<>>
  BY DEF Message
<1>2. ReadAs(x) = cls
  BY <1>1 DEF ReadAs
<1>3. Payload(x.command) = <<>>
  BY <1>1, FlattenedFew DEF Payload
<1>4. Sound(role, x)
  <2>1. h \in ShortHeaders \cup LongHeaders /\ (~h.extended => ~Marked(h))
    BY DEF HeaderOf
  <2>2. h.payload_size = 0 /\ h.command = Ids(role)[cls]
    BY DEF HeaderOf
  <2>3. CommandClasses(role, h.command) = {cls}
    BY <2>2, OneClass
  <2>4. <<>> \in Seq(Octets) /\ Len(<<>>) = 0
    OBVIOUS
  <2>. QED  BY <1>1, <1>2, <1>3, <2>1, <2>2, <2>3, <2>4 DEF Sound
<1>5. ReadOf(x) = x.command
  BY <1>1, <1>2 DEF ReadOf, from_wire, Message
<1>. QED  BY <1>2, <1>4, <1>5

(***************************************************************************)
(* Addresses and statuses.                                                 *)
(***************************************************************************)
\* Division with a remainder.
LEMMA Divided ==
  ASSUME NEW b \in Nat, b > 0, NEW q \in Nat, NEW r \in 0 .. b - 1
  PROVE  (q * b + r) \div b = q /\ (q * b + r) % b = r
<1>1. PICK n \in Nat : n = q * b + r
  OBVIOUS
<1>2. n = b * (n \div b) + (n % b) /\ n % b \in 0 .. b - 1 /\ n \div b \in Int
  OBVIOUS
<1>3. PICK d \in Int : d = n \div b
  BY <1>2
<1>4. PICK s \in 0 .. b - 1 : s = n % b
  BY <1>2
<1>5. b * d + s = b * q + r
  BY <1>1, <1>2, <1>3, <1>4
<1>6. ~(d > q)
  <2>. SUFFICES ASSUME d > q PROVE FALSE
    OBVIOUS
  <2>1. PICK k \in Nat : d = q + 1 + k
    BY <1>3
  <2>2. b * d = b * q + b + b * k /\ b * k >= 0
    BY <2>1
  <2>. QED  BY <1>5, <2>2
<1>7. ~(d < q)
  <2>. SUFFICES ASSUME d < q PROVE FALSE
    OBVIOUS
  <2>1. PICK k \in Nat : q = d + 1 + k
    BY <1>3
  <2>2. b * q = b * d + b + b * k /\ b * k >= 0
    BY <2>1
  <2>. QED  BY <1>5, <2>2
<1>8. d = q /\ s = r
  BY <1>5, <1>6, <1>7
<1>. QED  BY <1>1, <1>3, <1>4, <1>8

\* An address is read back from its number.
LEMMA AddressKept ==
  ASSUME NEW a \in Addresses
  PROVE  /\ ipv4_to_int32(a) \in U32
         /\ ipv4_from_int32(ipv4_to_int32(a)) = a
<1>1. PICK b \in Nat : b = Byte /\ b > 0
  BY ByteAssumption
<1>2. PICK p \in 0 .. b - 1, q \in 0 .. b - 1, r \in 0 .. b - 1, s \in 0 .. b - 1 : a = <<p, q, r, s>>
  BY <1>1 DEF Addresses
<1>3. PICK b2 \in Nat : b2 = b * b /\ b2 > 0
  BY <1>1
<1>4. PICK b3 \in Nat : b3 = b2 * b /\ b3 = b * b * b /\ b3 > 0
  BY <1>1, <1>3
<1>5. PICK n1 \in 0 .. b2 - 1 : n1 = p * b + q
  <2>1. p * b \in Nat /\ p * b <= (b - 1) * b /\ (b - 1) * b = b2 - b
    BY <1>1, <1>3
  <2>. QED  BY <2>1
<1>6. PICK n2 \in 0 .. b3 - 1 : n2 = n1 * b + r
  <2>1. n1 * b \in Nat /\ n1 * b <= (b2 - 1) * b /\ (b2 - 1) * b = b3 - b
    BY <1>1, <1>3, <1>4
  <2>. QED  BY <2>1
<1>7. PICK n \in 0 .. MAX_32BIT : n = n2 * b + s
  <2>1. n2 * b \in Nat /\ n2 * b <= (b3 - 1) * b /\ (b3 - 1) * b = b3 * b - b
    BY <1>1, <1>4
  <2>2. MAX_32BIT = b3 * b - 1
    BY <1>1, <1>4 DEF MAX_32BIT
  <2>3. b3 * b \in Nat
    BY <1>4
  <2>4. PICK b4 \in Nat : b4 = b3 * b
    BY <2>3
  <2>. QED  BY <2>1, <2>2, <2>4
<1>8. ipv4_to_int32(a) = n
  BY <1>1, <1>2, <1>5, <1>6, <1>7 DEF ipv4_to_int32
<1>9. n \div b = n2 /\ n % b = s
  BY <1>1, <1>7, Divided
<1>10. n2 \div b = n1 /\ n2 % b = r
  BY <1>1, <1>6, Divided
<1>11. n \div b2 = n1
  <2>1. n = n1 * b2 + (r * b + s)
    BY <1>3, <1>6, <1>7
  <2>2. PICK t \in 0 .. b2 - 1 : t = r * b + s
    <3>1. r * b \in Nat /\ r * b <= (b - 1) * b /\ (b - 1) * b = b2 - b
      BY <1>1, <1>3
    <3>. QED  BY <3>1
  <2>3. n = n1 * b2 + t
    BY <2>1, <2>2
  <2>. QED  BY <1>3, <2>3, Divided
<1>12. n1 % b = q
  BY <1>1, <1>5, Divided
<1>13. n \div b3 = p
  <2>1. n = p * b3 + (q * b2 + (r * b + s))
    BY <1>3, <1>4, <1>5, <1>6, <1>7
  <2>2. PICK t \in 0 .. b2 - 1 : t = r * b + s
    <3>1. r * b \in Nat /\ r * b <= (b - 1) * b /\ (b - 1) * b = b2 - b
      BY <1>1, <1>3
    <3>. QED  BY <3>1
  <2>3. PICK u \in 0 .. b3 - 1 : u = q * b2 + t
    <3>1. q * b2 \in Nat /\ q * b2 <= (b - 1) * b2 /\ (b - 1) * b2 = b3 - b2
      BY <1>1, <1>3, <1>4
    <3>. QED  BY <3>1
  <2>4. n = p * b3 + u
    BY <2>1, <2>2, <2>3
  <2>. QED  BY <1>4, <2>4, Divided
<1>14. ipv4_from_int32(n) = <<n \div b3, (n \div b2) % b, (n \div b) % b, n % b>>
  BY <1>1, <1>3, <1>4 DEF ipv4_from_int32
<1>15. ipv4_from_int32(n) = <<p, q, r, s>>
  BY <1>9, <1>10, <1>11, <1>12, <1>13, <1>14
<1>. QED  BY <1>2, <1>8, <1>7, <1>15 DEF U32

\* A status is read back from its number.
LEMMA StatusKept ==
  ASSUME NEW code \in Statuses
  PROVE  ensure_eca_value(code) \in U32 /\ eca_value_to_status(ensure_eca_value(code)) = code
<1>1. \A k \in 0 .. 60 : CAStatus[k] \in 0 .. 7
  BY DEF CAStatus, CASeverity
<1>2. DOMAIN CAStatus = 0 .. 60
  BY DEF CAStatus
<1>3. \A k \in 0 .. 60 : ensure_eca_value(k) \in 0 .. 487
  BY <1>1 DEF ensure_eca_value
<1>4. \A j, k \in 0 .. 60 : ensure_eca_value(j) = ensure_eca_value(k) => j = k
  BY <1>1 DEF ensure_eca_value
<1>5. ensure_eca_value(code) \in U32
  <2>1. code \in 0 .. 60
    BY <1>2 DEF Statuses
  <2>2. PICK n \in 0 .. 487 : n = ensure_eca_value(code)
    BY <1>3, <2>1
  <2>. QED  BY <2>2, Widths DEF U32
<1>. QED  BY <1>2, <1>4, <1>5 DEF eca_value_to_status, Statuses

(***************************************************************************)
(* Commands that are nothing but their header, one lemma for each class:   *)
(* the fields it was given fit in the header and are read from it again.   *)
(***************************************************************************)
\* What is sent is read as what it means, and in a datagram too if its header is short.
Readable(role, x) ==
  /\ Agreed(role, x)
  /\ ~x.command.header.extended => Packed(role, x)

\* Small numbers, and those of data types, fit in every field.
LEMMA Smalls ==
  /\ \A n \in 0 .. 63 : n \in U16 /\ n \in U32
  /\ \A n \in ChannelType : n \in U16
  /\ \A n \in U16 : n \in U32
BY Widths DEF U16, U32, ChannelType

\* The numbers of a field are natural numbers.
LEMMA FieldsAreNumbers == U16 \in SUBSET Nat /\ U32 \in SUBSET Nat
BY Widths DEF U16, U32

\* A command that is nothing but its header, if that shows what the command means.
LEMMA Bare ==
  ASSUME NEW role \in {CLIENT, SERVER}, NEW x, NEW cls \in DOMAIN Ids(role), NEW h,
         cls \notin HAS_PAYLOAD, cls # "EventCancelResponse",
         x.command = Message(cls, h, <<>>), Fields(x.command) = x.means,
         NEW dt, NEW dc, NEW p1, NEW p2, HeaderOf(h, Ids(role)[cls], 0, dt, dc, p1, p2)
  PROVE  Readable(role, x)
<1>1. Sound(role, x) /\ ReadAs(x) = cls /\ ReadOf(x) = x.command
  BY HeaderOnly
<1>2. x.command.cls = cls /\ x.command.header = h
  BY DEF Message
<1>3. Agreed(role, x)
  BY <1>1, <1>2 DEF Agreed, SameCommand
<1>4. h.payload_size = 0
  BY DEF HeaderOf
<1>5. ~h.extended => Packed(role, x)
  BY <1>1, <1>2, <1>4 DEF Packed
<1>. QED  BY <1>2, <1>3, <1>5 DEF Readable

\* A Beacon, from a client or a server, shows its version, port, id and address.
LEMMA BeaconRead ==
  ASSUME NEW role \in {CLIENT, SERVER}, NEW x, NEW c, NEW m, c = x.command, m = x.means,
         m \in [version : U16, server_port : U16, beacon_id : U32, address : Addresses],
         c = Beacon(m.version, m.server_port, m.beacon_id, m.address)
  PROVE  Readable(role, x)
<1>1. PICK h : h = MessageHeader(13, 0, m.version, m.server_port, m.beacon_id, ipv4_to_int32(m.address))
  OBVIOUS
<1>2. c = Message("Beacon", h, <<>>)
  BY <1>1 DEF Beacon, BeaconHeader
<1>3. /\ 13 \in U16 /\ 0 \in U16 /\ 0 \in U32
      /\ m.version \in U16 /\ m.server_port \in U16 /\ m.beacon_id \in U32
      /\ ipv4_to_int32(m.address) \in U32
  BY Smalls, AddressKept
<1>4. HeaderOf(h, 13, 0, m.version, m.server_port, m.beacon_id, ipv4_to_int32(m.address))
  BY <1>1, <1>3, ShortKept
<1>5. "Beacon" \in DOMAIN Ids(role) /\ Ids(role)["Beacon"] = 13
  BY DEF Ids, RequestId, ResponseId, CLIENT, SERVER
<1>6. Fields(c) = [version |-> h.data_type, server_port |-> h.data_count, beacon_id |-> h.parameter1,
                address |-> ipv4_from_int32(h.parameter2)]
  BY <1>2 DEF Fields, Message
<1>7. Fields(c) = m
  BY <1>4, <1>6, AddressKept DEF HeaderOf
<1>. QED  BY <1>2, <1>4, <1>5, <1>7, Bare DEF HAS_PAYLOAD

\* A VersionRequest shows its priority and version.
LEMMA VersionRequestRead ==
  ASSUME NEW x, NEW c, NEW m, c = x.command, m = x.means,
         m \in [priority : U16, version : U16],
         c = VersionRequest(m.priority, m.version)
  PROVE  Readable(CLIENT, x)
<1>1. PICK h : h = MessageHeader(0, 0, m.priority, m.version, 0, 0)
  OBVIOUS
<1>2. c = Message("VersionRequest", h, <<>>)
  BY <1>1 DEF VersionRequest, VersionRequestHeader
<1>3. /\ 0 \in U16 /\ 0 \in U16 /\ 0 \in U32
      /\ m.priority \in U16 /\ m.version \in U16
  BY Smalls
<1>4. HeaderOf(h, 0, 0, m.priority, m.version, 0, 0)
  BY <1>1, <1>3, ShortKept
<1>5. "VersionRequest" \in DOMAIN Ids(CLIENT) /\ Ids(CLIENT)["VersionRequest"] = 0
  BY DEF Ids, RequestId, CLIENT, SERVER
<1>6. Fields(c) = [priority |-> h.data_type, version |-> h.data_count]
  BY <1>2 DEF Fields, Message
<1>7. Fields(c) = m
  BY <1>4, <1>6 DEF HeaderOf
<1>. QED  BY <1>2, <1>4, <1>5, <1>7, Bare DEF HAS_PAYLOAD

\* A RepeaterRegisterRequest shows its address.
LEMMA RepeaterRegisterRequestRead ==
  ASSUME NEW x, NEW c, NEW m, c = x.command, m = x.means,
         m \in [address : Addresses],
         c = RepeaterRegisterRequest(m.address)
  PROVE  Readable(CLIENT, x)
<1>1. PICK h : h = MessageHeader(24, 0, 0, 0, 0, ipv4_to_int32(m.address))
  OBVIOUS
<1>2. c = Message("RepeaterRegisterRequest", h, <<>>)
  BY <1>1 DEF RepeaterRegisterRequest, RepeaterRegisterRequestHeader
<1>3. /\ 24 \in U16 /\ 0 \in U16 /\ 0 \in U32
      /\ ipv4_to_int32(m.address) \in U32
  BY Smalls, AddressKept
<1>4. HeaderOf(h, 24, 0, 0, 0, 0, ipv4_to_int32(m.address))
  BY <1>1, <1>3, ShortKept
<1>5. "RepeaterRegisterRequest" \in DOMAIN Ids(CLIENT) /\ Ids(CLIENT)["RepeaterRegisterRequest"] = 24
  BY DEF Ids, RequestId, CLIENT, SERVER
<1>6. Fields(c) = [address |-> ipv4_from_int32(h.parameter2)]
  BY <1>2 DEF Fields, Message
<1>7. Fields(c) = m
  BY <1>4, <1>6, AddressKept DEF HeaderOf
<1>. QED  BY <1>2, <1>4, <1>5, <1>7, Bare DEF HAS_PAYLOAD

\* A ClearChannelRequest shows its sid and cid.
LEMMA ClearChannelRequestRead ==
  ASSUME NEW x, NEW c, NEW m, c = x.command, m = x.means,
         m \in [sid : U32, cid : U32],
         c = ClearChannelRequest(m.sid, m.cid)
  PROVE  Readable(CLIENT, x)
<1>1. PICK h : h = MessageHeader(12, 0, 0, 0, m.sid, m.cid)
  OBVIOUS
<1>2. c = Message("ClearChannelRequest", h, <<>>)
  BY <1>1 DEF ClearChannelRequest, ClearChannelRequestHeader
<1>3. /\ 12 \in U16 /\ 0 \in U16 /\ 0 \in U32
      /\ m.sid \in U32 /\ m.cid \in U32
  BY Smalls
<1>4. HeaderOf(h, 12, 0, 0, 0, m.sid, m.cid)
  BY <1>1, <1>3, ShortKept
<1>5. "ClearChannelRequest" \in DOMAIN Ids(CLIENT) /\ Ids(CLIENT)["ClearChannelRequest"] = 12
  BY DEF Ids, RequestId, CLIENT, SERVER
<1>6. Fields(c) = [sid |-> h.parameter1, cid |-> h.parameter2]
  BY <1>2 DEF Fields, Message
<1>7. Fields(c) = m
  BY <1>4, <1>6 DEF HeaderOf
<1>. QED  BY <1>2, <1>4, <1>5, <1>7, Bare DEF HAS_PAYLOAD

\* A ReadRequest shows the type, the count, its sid and ioid.
LEMMA ReadRequestRead ==
  ASSUME NEW x, NEW c, NEW m, c = x.command, m = x.means,
         m \in [data_type : ChannelType, data_count : U32, sid : U32, ioid : U32],
         c = ReadRequest(m.data_type, m.data_count, m.sid, m.ioid)
  PROVE  Readable(CLIENT, x)
<1>1. PICK h : h = Header({m.data_count}, 3, 0, m.data_type, m.data_count, m.sid, m.ioid)
  OBVIOUS
<1>2. c = Message("ReadRequest", h, <<>>)
  BY <1>1 DEF ReadRequest, ReadRequestHeader
<1>3. /\ 3 \in U16 /\ 0 \in U16 /\ 0 \in U32
      /\ m.data_type \in U16 /\ m.data_count \in U32 /\ m.sid \in U32
      /\ m.ioid \in U32
      /\ {m.data_count} \in SUBSET Nat
  <2>1. 3 \in U16 /\ 0 \in U16 /\ 0 \in U32
    BY Smalls
  <2>2. m.data_count \in U32 /\ m.sid \in U32 /\ m.ioid \in U32
    BY <2>1
  <2>3. m.data_type \in U16
    BY Smalls
  <2>4. {m.data_count} \in SUBSET Nat
    BY <2>1, <2>2, FieldsAreNumbers
  <2>. QED  BY <2>1, <2>2, <2>3, <2>4
<1>4. HeaderOf(h, 3, 0, m.data_type, m.data_count, m.sid, m.ioid)
  BY <1>1, <1>3, HeaderKept
<1>5. "ReadRequest" \in DOMAIN Ids(CLIENT) /\ Ids(CLIENT)["ReadRequest"] = 3
  BY DEF Ids, RequestId, CLIENT, SERVER
<1>6. Fields(c) = [data_type |-> h.data_type, data_count |-> h.data_count,
                sid |-> h.parameter1, ioid |-> h.parameter2]
  BY <1>2 DEF Fields, Message
<1>7. Fields(c) = m
  BY <1>4, <1>6 DEF HeaderOf
<1>. QED  BY <1>2, <1>4, <1>5, <1>7, Bare DEF HAS_PAYLOAD

\* A ReadNotifyRequest shows the type, the count, its sid and ioid.
LEMMA ReadNotifyRequestRead ==
  ASSUME NEW x, NEW c, NEW m, c = x.command, m = x.means,
         m \in [data_type : ChannelType, data_count : U32, sid : U32, ioid : U32],
         c = ReadNotifyRequest(m.data_type, m.data_count, m.sid, m.ioid)
  PROVE  Readable(CLIENT, x)
<1>1. PICK h : h = Header({m.data_count}, 15, 0, m.data_type, m.data_count, m.sid, m.ioid)
  OBVIOUS
<1>2. c = Message("ReadNotifyRequest", h, <<>>)
  BY <1>1 DEF ReadNotifyRequest, ReadNotifyRequestHeader
<1>3. /\ 15 \in U16 /\ 0 \in U16 /\ 0 \in U32
      /\ m.data_type \in U16 /\ m.data_count \in U32 /\ m.sid \in U32
      /\ m.ioid \in U32
      /\ {m.data_count} \in SUBSET Nat
  <2>1. 15 \in U16 /\ 0 \in U16 /\ 0 \in U32
    BY Smalls
  <2>2. m.data_count \in U32 /\ m.sid \in U32 /\ m.ioid \in U32
    BY <2>1
  <2>3. m.data_type \in U16
    BY Smalls
  <2>4. {m.data_count} \in SUBSET Nat
    BY <2>1, <2>2, FieldsAreNumbers
  <2>. QED  BY <2>1, <2>2, <2>3, <2>4
<1>4. HeaderOf(h, 15, 0, m.data_type, m.data_count, m.sid, m.ioid)
  BY <1>1, <1>3, HeaderKept
<1>5. "ReadNotifyRequest" \in DOMAIN Ids(CLIENT) /\ Ids(CLIENT)["ReadNotifyRequest"] = 15
  BY DEF Ids, RequestId, CLIENT, SERVER
<1>6. Fields(c) = [data_type |-> h.data_type, data_count |-> h.data_count,
                sid |-> h.parameter1, ioid |-> h.parameter2]
  BY <1>2 DEF Fields, Message
<1>7. Fields(c) = m
  BY <1>4, <1>6 DEF HeaderOf
<1>. QED  BY <1>2, <1>4, <1>5, <1>7, Bare DEF HAS_PAYLOAD

\* An EventCancelRequest shows the type, its sid and subscription.
LEMMA EventCancelRequestRead ==
  ASSUME NEW x, NEW c, NEW m, c = x.command, m = x.means,
         m \in [data_type : ChannelType, sid : U32, subscriptionid : U32],
         c = EventCancelRequest(m.data_type, m.sid, m.subscriptionid)
  PROVE  Readable(CLIENT, x)
<1>1. PICK h : h = Header({0}, 2, 0, m.data_type, 0, m.sid, m.subscriptionid)
  OBVIOUS
<1>2. c = Message("EventCancelRequest", h, <<>>)
  BY <1>1 DEF EventCancelRequest, EventCancelRequestHeader
<1>3. /\ 2 \in U16 /\ 0 \in U16 /\ 0 \in U32
      /\ m.data_type \in U16 /\ m.sid \in U32 /\ m.subscriptionid \in U32
      /\ {0} \in SUBSET Nat
  <2>1. 2 \in U16 /\ 0 \in U16 /\ 0 \in U32
    BY Smalls
  <2>2. m.sid \in U32 /\ m.subscriptionid \in U32
    BY <2>1
  <2>3. m.data_type \in U16
    BY Smalls
  <2>4. {0} \in SUBSET Nat
    BY <2>1, <2>2, FieldsAreNumbers
  <2>. QED  BY <2>1, <2>2, <2>3, <2>4
<1>4. HeaderOf(h, 2, 0, m.data_type, 0, m.sid, m.subscriptionid)
  BY <1>1, <1>3, HeaderKept
<1>5. "EventCancelRequest" \in DOMAIN Ids(CLIENT) /\ Ids(CLIENT)["EventCancelRequest"] = 2
  BY DEF Ids, RequestId, CLIENT, SERVER
<1>6. Fields(c) = [data_type |-> h.data_type, sid |-> h.parameter1,
                subscriptionid |-> h.parameter2]
  BY <1>2 DEF Fields, Message
<1>7. Fields(c) = m
  BY <1>4, <1>6 DEF HeaderOf
<1>. QED  BY <1>2, <1>4, <1>5, <1>7, Bare DEF HAS_PAYLOAD

\* An EventsOffRequest shows nothing.
LEMMA EventsOffRequestRead ==
  ASSUME NEW x, NEW c, NEW m, c = x.command, m = x.means,
         m = [none |-> 0],
         c = EventsOffRequest
  PROVE  Readable(CLIENT, x)
<1>1. PICK h : h = MessageHeader(8, 0, 0, 0, 0, 0)
  OBVIOUS
<1>2. c = Message("EventsOffRequest", h, <<>>)
  BY <1>1 DEF EventsOffRequest, EventsOffRequestHeader
<1>3. /\ 8 \in U16 /\ 0 \in U16 /\ 0 \in U32
  BY Smalls
<1>4. HeaderOf(h, 8, 0, 0, 0, 0, 0)
  BY <1>1, <1>3, ShortKept
<1>5. "EventsOffRequest" \in DOMAIN Ids(CLIENT) /\ Ids(CLIENT)["EventsOffRequest"] = 8
  BY DEF Ids, RequestId, CLIENT, SERVER
<1>6. Fields(c) = [none |-> 0]
  BY <1>2 DEF Fields, Message
<1>7. Fields(c) = m
  BY <1>4, <1>6 DEF HeaderOf
<1>. QED  BY <1>2, <1>4, <1>5, <1>7, Bare DEF HAS_PAYLOAD

\* An EventsOnRequest shows nothing.
LEMMA EventsOnRequestRead ==
  ASSUME NEW x, NEW c, NEW m, c = x.command, m = x.means,
         m = [none |-> 0],
         c = EventsOnRequest
  PROVE  Readable(CLIENT, x)
<1>1. PICK h : h = MessageHeader(9, 0, 0, 0, 0, 0)
  OBVIOUS
<1>2. c = Message("EventsOnRequest", h, <<>>)
  BY <1>1 DEF EventsOnRequest, EventsOnRequestHeader
<1>3. /\ 9 \in U16 /\ 0 \in U16 /\ 0 \in U32
  BY Smalls
<1>4. HeaderOf(h, 9, 0, 0, 0, 0, 0)
  BY <1>1, <1>3, ShortKept
<1>5. "EventsOnRequest" \in DOMAIN Ids(CLIENT) /\ Ids(CLIENT)["EventsOnRequest"] = 9
  BY DEF Ids, RequestId, CLIENT, SERVER
<1>6. Fields(c) = [none |-> 0]
  BY <1>2 DEF Fields, Message
<1>7. Fields(c) = m
  BY <1>4, <1>6 DEF HeaderOf
<1>. QED  BY <1>2, <1>4, <1>5, <1>7, Bare DEF HAS_PAYLOAD

\* A ReadSyncRequest shows nothing.
LEMMA ReadSyncRequestRead ==
  ASSUME NEW x, NEW c, NEW m, c = x.command, m = x.means,
         m = [none |-> 0],
         c = ReadSyncRequest
  PROVE  Readable(CLIENT, x)
<1>1. PICK h : h = MessageHeader(10, 0, 0, 0, 0, 0)
  OBVIOUS
<1>2. c = Message("ReadSyncRequest", h, <<>>)
  BY <1>1 DEF ReadSyncRequest, ReadSyncRequestHeader
<1>3. /\ 10 \in U16 /\ 0 \in U16 /\ 0 \in U32
  BY Smalls
<1>4. HeaderOf(h, 10, 0, 0, 0, 0, 0)
  BY <1>1, <1>3, ShortKept
<1>5. "ReadSyncRequest" \in DOMAIN Ids(CLIENT) /\ Ids(CLIENT)["ReadSyncRequest"] = 10
  BY DEF Ids, RequestId, CLIENT, SERVER
<1>6. Fields(c) = [none |-> 0]
  BY <1>2 DEF Fields, Message
<1>7. Fields(c) = m
  BY <1>4, <1>6 DEF HeaderOf
<1>. QED  BY <1>2, <1>4, <1>5, <1>7, Bare DEF HAS_PAYLOAD

\* An EchoRequest shows nothing.
LEMMA EchoRequestRead ==
  ASSUME NEW x, NEW c, NEW m, c = x.command, m = x.means,
         m = [none |-> 0],
         c = EchoRequest
  PROVE  Readable(CLIENT, x)
<1>1. PICK h : h = MessageHeader(23, 0, 0, 0, 0, 0)
  OBVIOUS
<1>2. c = Message("EchoRequest", h, <<>>)
  BY <1>1 DEF EchoRequest, EchoRequestHeader
<1>3. /\ 23 \in U16 /\ 0 \in U16 /\ 0 \in U32
  BY Smalls
<1>4. HeaderOf(h, 23, 0, 0, 0, 0, 0)
  BY <1>1, <1>3, ShortKept
<1>5. "EchoRequest" \in DOMAIN Ids(CLIENT) /\ Ids(CLIENT)["EchoRequest"] = 23
  BY DEF Ids, RequestId, CLIENT, SERVER
<1>6. Fields(c) = [none |-> 0]
  BY <1>2 DEF Fields, Message
<1>7. Fields(c) = m
  BY <1>4, <1>6 DEF HeaderOf
<1>. QED  BY <1>2, <1>4, <1>5, <1>7, Bare DEF HAS_PAYLOAD

\* A VersionResponse shows its version.
LEMMA VersionResponseRead ==
  ASSUME NEW x, NEW c, NEW m, c = x.command, m = x.means,
         m \in [version : U16],
         c = VersionResponse(m.version)
  PROVE  Readable(SERVER, x)
<1>1. PICK h : h = MessageHeader(0, 0, 1, m.version, 1, 0)
  OBVIOUS
<1>2. c = Message("VersionResponse", h, <<>>)
  BY <1>1 DEF VersionResponse, VersionResponseHeader
<1>3. /\ 0 \in U16 /\ 0 \in U16 /\ 0 \in U32 /\ 1 \in U16 /\ 1 \in U32
      /\ m.version \in U16
  BY Smalls
<1>4. HeaderOf(h, 0, 0, 1, m.version, 1, 0)
  BY <1>1, <1>3, ShortKept
<1>5. "VersionResponse" \in DOMAIN Ids(SERVER) /\ Ids(SERVER)["VersionResponse"] = 0
  BY DEF Ids, ResponseId, CLIENT, SERVER
<1>6. Fields(c) = [version |-> h.data_count]
  BY <1>2 DEF Fields, Message
<1>7. Fields(c) = m
  BY <1>4, <1>6 DEF HeaderOf
<1>. QED  BY <1>2, <1>4, <1>5, <1>7, Bare DEF HAS_PAYLOAD

\* A NotFoundResponse shows its version and cid.
LEMMA NotFoundResponseRead ==
  ASSUME NEW x, NEW c, NEW m, c = x.command, m = x.means,
         m \in [version : U16, cid : U32],
         c = NotFoundResponse(m.version, m.cid)
  PROVE  Readable(SERVER, x)
<1>1. PICK h : h = MessageHeader(14, 0, DO_REPLY, m.version, m.cid, m.cid)
  OBVIOUS
<1>2. c = Message("NotFoundResponse", h, <<>>)
  BY <1>1 DEF NotFoundResponse, NotFoundResponseHeader
<1>3. /\ 14 \in U16 /\ 0 \in U16 /\ 0 \in U32
      /\ DO_REPLY \in U16 /\ m.version \in U16 /\ m.cid \in U32
  BY Smalls DEF DO_REPLY
<1>4. HeaderOf(h, 14, 0, DO_REPLY, m.version, m.cid, m.cid)
  BY <1>1, <1>3, ShortKept
<1>5. "NotFoundResponse" \in DOMAIN Ids(SERVER) /\ Ids(SERVER)["NotFoundResponse"] = 14
  BY DEF Ids, ResponseId, CLIENT, SERVER
<1>6. Fields(c) = [version |-> h.data_count, cid |-> h.parameter1]
  BY <1>2 DEF Fields, Message
<1>7. Fields(c) = m
  BY <1>4, <1>6 DEF HeaderOf
<1>. QED  BY <1>2, <1>4, <1>5, <1>7, Bare DEF HAS_PAYLOAD

\* A RepeaterConfirmResponse shows its address.
LEMMA RepeaterConfirmResponseRead ==
  ASSUME NEW x, NEW c, NEW m, c = x.command, m = x.means,
         m \in [address : Addresses],
         c = RepeaterConfirmResponse(m.address)
  PROVE  Readable(SERVER, x)
<1>1. PICK h : h = MessageHeader(17, 0, 0, 0, 0, ipv4_to_int32(m.address))
  OBVIOUS
<1>2. c = Message("RepeaterConfirmResponse", h, <<>>)
  BY <1>1 DEF RepeaterConfirmResponse, RepeaterConfirmResponseHeader
<1>3. /\ 17 \in U16 /\ 0 \in U16 /\ 0 \in U32
      /\ ipv4_to_int32(m.address) \in U32
  BY Smalls, AddressKept
<1>4. HeaderOf(h, 17, 0, 0, 0, 0, ipv4_to_int32(m.address))
  BY <1>1, <1>3, ShortKept
<1>5. "RepeaterConfirmResponse" \in DOMAIN Ids(SERVER) /\ Ids(SERVER)["RepeaterConfirmResponse"] = 17
  BY DEF Ids, ResponseId, CLIENT, SERVER
<1>6. Fields(c) = [address |-> ipv4_from_int32(h.parameter2)]
  BY <1>2 DEF Fields, Message
<1>7. Fields(c) = m
  BY <1>4, <1>6, AddressKept DEF HeaderOf
<1>. QED  BY <1>2, <1>4, <1>5, <1>7, Bare DEF HAS_PAYLOAD

\* A CreateChanResponse shows the type, the count, its cid and sid.
LEMMA CreateChanResponseRead ==
  ASSUME NEW x, NEW c, NEW m, c = x.command, m = x.means,
         m \in [data_type : ChannelType, data_count : U32, cid : U32, sid : U32],
         c = CreateChanResponse(m.data_type, m.data_count, m.cid, m.sid)
  PROVE  Readable(SERVER, x)
<1>1. PICK h : h = Header({m.data_count}, 18, 0, m.data_type, m.data_count, m.cid, m.sid)
  OBVIOUS
<1>2. c = Message("CreateChanResponse", h, <<>>)
  BY <1>1 DEF CreateChanResponse, CreateChanResponseHeader
<1>3. /\ 18 \in U16 /\ 0 \in U16 /\ 0 \in U32
      /\ m.data_type \in U16 /\ m.data_count \in U32 /\ m.cid \in U32
      /\ m.sid \in U32
      /\ {m.data_count} \in SUBSET Nat
  <2>1. 18 \in U16 /\ 0 \in U16 /\ 0 \in U32
    BY Smalls
  <2>2. m.data_count \in U32 /\ m.cid \in U32 /\ m.sid \in U32
    BY <2>1
  <2>3. m.data_type \in U16
    BY Smalls
  <2>4. {m.data_count} \in SUBSET Nat
    BY <2>1, <2>2, FieldsAreNumbers
  <2>. QED  BY <2>1, <2>2, <2>3, <2>4
<1>4. HeaderOf(h, 18, 0, m.data_type, m.data_count, m.cid, m.sid)
  BY <1>1, <1>3, HeaderKept
<1>5. "CreateChanResponse" \in DOMAIN Ids(SERVER) /\ Ids(SERVER)["CreateChanResponse"] = 18
  BY DEF Ids, ResponseId, CLIENT, SERVER
<1>6. Fields(c) = [data_type |-> h.data_type, data_count |-> h.data_count,
                cid |-> h.parameter1, sid |-> h.parameter2]
  BY <1>2 DEF Fields, Message
<1>7. Fields(c) = m
  BY <1>4, <1>6 DEF HeaderOf
<1>. QED  BY <1>2, <1>4, <1>5, <1>7, Bare DEF HAS_PAYLOAD

\* A ClearChannelResponse shows its sid and cid.
LEMMA ClearChannelResponseRead ==
  ASSUME NEW x, NEW c, NEW m, c = x.command, m = x.means,
         m \in [sid : U32, cid : U32],
         c = ClearChannelResponse(m.sid, m.cid)
  PROVE  Readable(SERVER, x)
<1>1. PICK h : h = MessageHeader(12, 0, 0, 0, m.sid, m.cid)
  OBVIOUS
<1>2. c = Message("ClearChannelResponse", h, <<>>)
  BY <1>1 DEF ClearChannelResponse, ClearChannelResponseHeader
<1>3. /\ 12 \in U16 /\ 0 \in U16 /\ 0 \in U32
      /\ m.sid \in U32 /\ m.cid \in U32
  BY Smalls
<1>4. HeaderOf(h, 12, 0, 0, 0, m.sid, m.cid)
  BY <1>1, <1>3, ShortKept
<1>5. "ClearChannelResponse" \in DOMAIN Ids(SERVER) /\ Ids(SERVER)["ClearChannelResponse"] = 12
  BY DEF Ids, ResponseId, CLIENT, SERVER
<1>6. Fields(c) = [sid |-> h.parameter1, cid |-> h.parameter2]
  BY <1>2 DEF Fields, Message
<1>7. Fields(c) = m
  BY <1>4, <1>6 DEF HeaderOf
<1>. QED  BY <1>2, <1>4, <1>5, <1>7, Bare DEF HAS_PAYLOAD

\* A WriteNotifyResponse shows the type, the count, its status and ioid.
LEMMA WriteNotifyResponseRead ==
  ASSUME NEW x, NEW c, NEW m, c = x.command, m = x.means,
         m \in [data_type : ChannelType, data_count : U32, status : Statuses, ioid : U32],
         c = WriteNotifyResponse(m.data_type, m.data_count, m.status, m.ioid)
  PROVE  Readable(SERVER, x)
<1>1. PICK h : h = Header({m.data_count}, 19, 0, m.data_type, m.data_count, ensure_eca_value(m.status), m.ioid)
  OBVIOUS
<1>2. c = Message("WriteNotifyResponse", h, <<>>)
  BY <1>1 DEF WriteNotifyResponse, WriteNotifyResponseHeader
<1>3. /\ 19 \in U16 /\ 0 \in U16 /\ 0 \in U32
      /\ m.data_type \in U16 /\ m.data_count \in U32 /\ ensure_eca_value(m.status) \in U32
      /\ m.ioid \in U32
      /\ {m.data_count} \in SUBSET Nat
  <2>1. 19 \in U16 /\ 0 \in U16 /\ 0 \in U32
    BY Smalls
  <2>2. m.data_count \in U32 /\ ensure_eca_value(m.status) \in U32 /\ m.ioid \in U32
    BY StatusKept
  <2>3. m.data_type \in U16
    BY Smalls
  <2>4. {m.data_count} \in SUBSET Nat
    BY <2>1, <2>2, FieldsAreNumbers
  <2>. QED  BY <2>1, <2>2, <2>3, <2>4
<1>4. HeaderOf(h, 19, 0, m.data_type, m.data_count, ensure_eca_value(m.status), m.ioid)
  BY <1>1, <1>3, HeaderKept
<1>5. "WriteNotifyResponse" \in DOMAIN Ids(SERVER) /\ Ids(SERVER)["WriteNotifyResponse"] = 19
  BY DEF Ids, ResponseId, CLIENT, SERVER
<1>6. Fields(c) = [data_type |-> h.data_type, data_count |-> h.data_count,
                status |-> eca_value_to_status(h.parameter1), ioid |-> h.parameter2]
  BY <1>2 DEF Fields, Message
<1>7. Fields(c) = m
  BY <1>4, <1>6, StatusKept DEF HeaderOf
<1>. QED  BY <1>2, <1>4, <1>5, <1>7, Bare DEF HAS_PAYLOAD

\* An AccessRightsResponse shows its cid and the access rights.
LEMMA AccessRightsResponseRead ==
  ASSUME NEW x, NEW c, NEW m, c = x.command, m = x.means,
         m \in [cid : U32, access_rights : U32],
         c = AccessRightsResponse(m.cid, m.access_rights)
  PROVE  Readable(SERVER, x)
<1>1. PICK h : h = MessageHeader(22, 0, 0, 0, m.cid, m.access_rights)
  OBVIOUS
<1>2. c = Message("AccessRightsResponse", h, <<>>)
  BY <1>1 DEF AccessRightsResponse, AccessRightsResponseHeader
<1>3. /\ 22 \in U16 /\ 0 \in U16 /\ 0 \in U32
      /\ m.cid \in U32 /\ m.access_rights \in U32
  BY Smalls
<1>4. HeaderOf(h, 22, 0, 0, 0, m.cid, m.access_rights)
  BY <1>1, <1>3, ShortKept
<1>5. "AccessRightsResponse" \in DOMAIN Ids(SERVER) /\ Ids(SERVER)["AccessRightsResponse"] = 22
  BY DEF Ids, ResponseId, CLIENT, SERVER
<1>6. Fields(c) = [cid |-> h.parameter1, access_rights |-> h.parameter2]
  BY <1>2 DEF Fields, Message
<1>7. Fields(c) = m
  BY <1>4, <1>6 DEF HeaderOf
<1>. QED  BY <1>2, <1>4, <1>5, <1>7, Bare DEF HAS_PAYLOAD

\* A CreateChFailResponse shows its cid.
LEMMA CreateChFailResponseRead ==
  ASSUME NEW x, NEW c, NEW m, c = x.command, m = x.means,
         m \in [cid : U32],
         c = CreateChFailResponse(m.cid)
  PROVE  Readable(SERVER, x)
<1>1. PICK h : h = MessageHeader(26, 0, 0, 0, m.cid, 0)
  OBVIOUS
<1>2. c = Message("CreateChFailResponse", h, <<>>)
  BY <1>1 DEF CreateChFailResponse, CreateChFailResponseHeader
<1>3. /\ 26 \in U16 /\ 0 \in U16 /\ 0 \in U32
      /\ m.cid \in U32
  BY Smalls
<1>4. HeaderOf(h, 26, 0, 0, 0, m.cid, 0)
  BY <1>1, <1>3, ShortKept
<1>5. "CreateChFailResponse" \in DOMAIN Ids(SERVER) /\ Ids(SERVER)["CreateChFailResponse"] = 26
  BY DEF Ids, ResponseId, CLIENT, SERVER
<1>6. Fields(c) = [cid |-> h.parameter1]
  BY <1>2 DEF Fields, Message
<1>7. Fields(c) = m
  BY <1>4, <1>6 DEF HeaderOf
<1>. QED  BY <1>2, <1>4, <1>5, <1>7, Bare DEF HAS_PAYLOAD

\* A ServerDisconnResponse shows its cid.
LEMMA ServerDisconnResponseRead ==
  ASSUME NEW x, NEW c, NEW m, c = x.command, m = x.means,
         m \in [cid : U32],
         c = ServerDisconnResponse(m.cid)
  PROVE  Readable(SERVER, x)
<1>1. PICK h : h = MessageHeader(27, 0, 0, 0, m.cid, 0)
  OBVIOUS
<1>2. c = Message("ServerDisconnResponse", h, <<>>)
  BY <1>1 DEF ServerDisconnResponse, ServerDisconnResponseHeader
<1>3. /\ 27 \in U16 /\ 0 \in U16 /\ 0 \in U32
      /\ m.cid \in U32
  BY Smalls
<1>4. HeaderOf(h, 27, 0, 0, 0, m.cid, 0)
  BY <1>1, <1>3, ShortKept
<1>5. "ServerDisconnResponse" \in DOMAIN Ids(SERVER) /\ Ids(SERVER)["ServerDisconnResponse"] = 27
  BY DEF Ids, ResponseId, CLIENT, SERVER
<1>6. Fields(c) = [cid |-> h.parameter1]
  BY <1>2 DEF Fields, Message
<1>7. Fields(c) = m
  BY <1>4, <1>6 DEF HeaderOf
<1>. QED  BY <1>2, <1>4, <1>5, <1>7, Bare DEF HAS_PAYLOAD

\* An EchoResponse shows nothing.
LEMMA EchoResponseRead ==
  ASSUME NEW x, NEW c, NEW m, c = x.command, m = x.means,
         m = [none |-> 0],
         c = EchoResponse
  PROVE  Readable(SERVER, x)
<1>1. PICK h : h = MessageHeader(23, 0, 0, 0, 0, 0)
  OBVIOUS
<1>2. c = Message("EchoResponse", h, <<>>)
  BY <1>1 DEF EchoResponse, EchoResponseHeader
<1>3. /\ 23 \in U16 /\ 0 \in U16 /\ 0 \in U32
  BY Smalls
<1>4. HeaderOf(h, 23, 0, 0, 0, 0, 0)
  BY <1>1, <1>3, ShortKept
<1>5. "EchoResponse" \in DOMAIN Ids(SERVER) /\ Ids(SERVER)["EchoResponse"] = 23
  BY DEF Ids, ResponseId, CLIENT, SERVER
<1>6. Fields(c) = [none |-> 0]
  BY <1>2 DEF Fields, Message
<1>7. Fields(c) = m
  BY <1>4, <1>6 DEF HeaderOf
<1>. QED  BY <1>2, <1>4, <1>5, <1>7, Bare DEF HAS_PAYLOAD

(***************************************************************************)
(* Payloads.                                                               *)
(***************************************************************************)
\* A sequence that lies in another one is cut out of it.
LEMMA CutOut ==
  ASSUME NEW S, NEW p \in Seq(S), NEW v \in Seq(S), NEW k \in Nat, k + Len(v) <= Len(p),
         \A i \in 1 .. Len(v) : p[k + i] = v[i]
  PROVE  Slice(p, k + 1, k + Len(v)) = v
<1>1. PICK f \in Nat \ {0} : f = k + 1
  OBVIOUS
<1>2. PICK l \in Nat : l = k + Len(v)
  OBVIOUS
<1>3. PICK s : s = Slice(p, f, l)
  OBVIOUS
<1>4. /\ s \in Seq(S) /\ Len(s) = l - f + 1
      /\ \A i \in 1 .. l - f + 1 : s[i] = p[f + i - 1]
  <2>1. l <= Len(p) /\ f <= l + 1
    BY <1>1, <1>2
  <2>2. s \in Seq(S)
    BY <1>3, <2>1, SlicedWithin
  <2>3. Len(s) = l - f + 1
    BY <1>3, <2>1, SlicedWithin
  <2>4. ASSUME NEW i \in 1 .. l - f + 1 PROVE s[i] = p[f + i - 1]
    <3>1. Slice(p, f, l)[i] = p[f + i - 1]
      BY <2>1, SlicedWithin
    <3>. QED  BY <1>3, <3>1
  <2>. QED  BY <2>2, <2>3, <2>4
<1>5. l - f + 1 = Len(v) /\ Len(s) = Len(v)
  BY <1>1, <1>2, <1>4
<1>6. \A i \in 1 .. Len(v) : s[i] = v[i]
  <2>. SUFFICES ASSUME NEW i \in 1 .. Len(v) PROVE s[i] = v[i]
    OBVIOUS
  <2>1. s[i] = p[f + i - 1]
    BY <1>4, <1>5
  <2>2. f + i - 1 = k + i
    BY <1>1
  <2>3. p[k + i] = v[i]
    OBVIOUS
  <2>. QED  BY <2>1, <2>2, <2>3
<1>7. s = v
  BY <1>4, <1>5, <1>6, SameSequence
<1>. QED  BY <1>1, <1>2, <1>3, <1>7

\* Three sequences behind one another, and each of them cut out again.
LEMMA CutParts ==
  ASSUME NEW S, NEW a \in Seq(S), NEW b \in Seq(S), NEW z \in Seq(S),
         NEW p, p = Chain(a, b, z)
  PROVE  /\ p \in Seq(S) /\ Len(p) = Len(a) + Len(b) + Len(z)
         /\ Slice(p, 1, Len(a)) = a
         /\ Slice(p, Len(a) + 1, Len(a) + Len(b)) = b
<1>1. PICK q : q = a \o b
  OBVIOUS
<1>2. /\ q \in Seq(S) /\ Len(q) = Len(a) + Len(b)
      /\ \A i \in 1 .. Len(a) : q[i] = a[i]
      /\ \A i \in 1 .. Len(b) : q[Len(a) + i] = b[i]
  BY <1>1, Joined
<1>3. p = q \o z
  BY <1>1 DEF Chain
<1>4. /\ p \in Seq(S) /\ Len(p) = Len(q) + Len(z)
      /\ \A i \in 1 .. Len(q) : p[i] = q[i]
  <2>1. q \in Seq(S)
    BY <1>2
  <2>2. /\ q \o z \in Seq(S) /\ Len(q \o z) = Len(q) + Len(z)
        /\ \A i \in 1 .. Len(q) : (q \o z)[i] = q[i]
    BY <2>1, Joined
  <2>. QED  BY <1>3, <2>2
<1>5. \A i \in 1 .. Len(a) : p[0 + i] = a[i]
  BY <1>2, <1>4
<1>6. \A i \in 1 .. Len(b) : p[Len(a) + i] = b[i]
  BY <1>2, <1>4
<1>7. Len(p) = Len(a) + Len(b) + Len(z)
  BY <1>2, <1>4
<1>8. Slice(p, 0 + 1, 0 + Len(a)) = a
  <2>1. 0 + Len(a) <= Len(p)
    BY <1>7
  <2>. QED  BY <1>4, <1>5, <2>1, CutOut
<1>9. Slice(p, Len(a) + 1, Len(a) + Len(b)) = b
  <2>1. Len(a) + Len(b) <= Len(p) /\ Len(a) \in Nat
    BY <1>7
  <2>. QED  BY <1>4, <1>6, <2>1, CutOut
<1>10. 0 + 1 = 1 /\ 0 + Len(a) = Len(a)
  OBVIOUS
<1>. QED  BY <1>4, <1>7, <1>8, <1>9, <1>10

\* The bytes of an object.
LEMMA BytesAre ==
  ASSUME NEW kind \in Plain, NEW o \in Objects, NEW n \in Nat
  PROVE  /\ Bytes(kind, o, n) \in Seq(Octets) /\ Len(Bytes(kind, o, n)) = n
         /\ n = 0 => Bytes(kind, o, n) = <<>>
<1>1. \A i \in 1 .. n : <<kind, o, i>> \in Octets
  BY DEF Octets
<1>2. Bytes(kind, o, n) \in Seq(Octets) /\ Len(Bytes(kind, o, n)) = n
  BY <1>1 DEF Bytes
<1>. QED  BY <1>2

\* Padding is bytes like others.
LEMMA ZerosAre ==
  ASSUME NEW n \in Nat
  PROVE  Zeros(n) \in Seq(Octets) /\ Len(Zeros(n)) = n /\ \A i \in 1 .. n : Zeros(n)[i] = NUL
<1>1. NUL \in Octets
  BY DEF NUL, Octets, Plain, Objects
<1>. QED  BY <1>1 DEF Zeros

\* An object is read back from its bytes.
LEMMA BytesReadBack ==
  ASSUME NEW kind, NEW o, NEW n \in Nat, n > 0
  PROVE  ReadBack(kind, Bytes(kind, o, n)) = o
<1>1. PICK b : b = Bytes(kind, o, n)
  OBVIOUS
<1>2. b \in Seq({<<kind, o, i>> : i \in 1 .. n}) /\ Len(b) = n
  BY <1>1 DEF Bytes
<1>3. DOMAIN b = 1 .. n /\ \A i \in 1 .. n : b[i] = <<kind, o, i>>
  BY <1>1 DEF Bytes
<1>4. \A i \in 1 .. n : b[i][1] = kind /\ b[i][2] = o /\ b[i][3] = i
  BY <1>3
<1>5. 1 \in 1 .. n
  OBVIOUS
<1>6. b[1][2] = o
  BY <1>4, <1>5
<1>7. IsEncoding(kind, b)
  BY <1>2, <1>3, <1>4, <1>6 DEF IsEncoding
<1>. QED  BY <1>1, <1>6, <1>7 DEF ReadBack

\* The length a text is padded to.
LEMMA PaddedLength ==
  ASSUME NEW n \in Nat
  PROVE  padded_len(n) \in Nat /\ padded_len(n) % 8 = 0 /\ padded_len(n) - n \in Nat
BY DEF padded_len

\* A command with a payload, if what is read from the payload shows what the command means.
LEMMA Loaded ==
  ASSUME NEW role \in {CLIENT, SERVER}, NEW x, NEW cls \in DOMAIN Ids(role), NEW h, NEW buffers,
         cls \in HAS_PAYLOAD, x.command = Message(cls, h, buffers),
         NEW p \in Seq(Octets), FlattenSeq(buffers) = p, Len(p) % 8 = 0,
         NEW dt, NEW dc, NEW p1, NEW p2, HeaderOf(h, Ids(role)[cls], Len(p), dt, dc, p1, p2),
         NEW r, r = from_wire(cls, h, p), Fields(r) = x.means
  PROVE  Readable(role, x)
<1>1. x.command.cls = cls /\ x.command.header = h /\ x.command.buffers = buffers
  BY DEF Message
<1>2. ReadAs(x) = cls
  BY <1>1 DEF ReadAs, HAS_PAYLOAD
<1>3. Payload(x.command) = p
  BY <1>1 DEF Payload
<1>4. h.payload_size = Len(p) /\ h.command = Ids(role)[cls]
  BY DEF HeaderOf
<1>5. Sound(role, x)
  <2>1. h \in ShortHeaders \cup LongHeaders /\ (~h.extended => ~Marked(h))
    BY DEF HeaderOf
  <2>2. CommandClasses(role, h.command) = {cls}
    BY <1>4, OneClass
  <2>. QED  BY <1>1, <1>2, <1>3, <1>4, <2>1, <2>2 DEF Sound
<1>6. ReadOf(x) = r
  BY <1>1, <1>2, <1>3 DEF ReadOf
<1>7. r.cls = cls
  BY DEF from_wire, Message
<1>8. Agreed(role, x)
  BY <1>2, <1>5, <1>6, <1>7 DEF Agreed, SameCommand
<1>9. ~h.extended => Packed(role, x)
  BY <1>1, <1>2, <1>4, <1>5 DEF Packed
<1>. QED  BY <1>1, <1>8, <1>9 DEF Readable

(***************************************************************************)
(* Texts.                                                                  *)
(***************************************************************************)
StripStep(b, f, n) == IF n = 0 \/ (n > 0 /\ b[n] # NUL) THEN Slice(b, 1, n) ELSE f[n - 1]

Strips(b) == CHOOSE f : f = [n \in 0 .. Len(b) |-> StripStep(b, f, n)]

\* The zeros behind a text are stripped, and nothing of the text.
LEMMA Stripped ==
  ASSUME NEW S, NEW t \in Seq(S), NEW z \in Seq(S), NEW b, b = t \o z,
         \A i \in 1 .. Len(t) : t[i] # NUL, \A i \in 1 .. Len(z) : z[i] = NUL
  PROVE  RStrip(b) = t
<1>1. /\ b \in Seq(S) /\ Len(b) = Len(t) + Len(z)
      /\ \A i \in 1 .. Len(t) : b[i] = t[i]
      /\ \A i \in 1 .. Len(z) : b[Len(t) + i] = z[i]
  BY Joined
<1>2. PICK k \in Nat : k = Len(t)
  OBVIOUS
<1>3. PICK l \in Nat : l = Len(b) /\ k <= l
  BY <1>1, <1>2
<1>4. \A i \in 1 .. k : b[i] # NUL
  BY <1>1, <1>2
<1>5. ASSUME NEW i \in k + 1 .. l PROVE b[i] = NUL
  <2>1. PICK j \in 1 .. Len(z) : i = Len(t) + j
    <3>1. i - k \in 1 .. Len(z) /\ i = Len(t) + (i - k)
      BY <1>1, <1>2, <1>3
    <3>. QED  BY <3>1
  <2>. QED  BY <1>1, <2>1
<1>6. Slice(b, 1, k) = t
  <2>1. \A i \in 1 .. Len(t) : b[0 + i] = t[i]
    BY <1>1
  <2>2. b \in Seq(S) /\ 0 + Len(t) <= Len(b)
    BY <1>1
  <2>3. Slice(b, 0 + 1, 0 + Len(t)) = t
    BY <2>1, <2>2, CutOut
  <2>4. 0 + 1 = 1 /\ 0 + Len(t) = k
    BY <1>2
  <2>. QED  BY <2>3, <2>4
<1>7. \E f : f = [n \in 0 .. l |-> StripStep(b, f, n)]
  <2>1. PICK f : f = [n \in 0 .. l |-> IF n <= k THEN Slice(b, 1, n) ELSE t]
    OBVIOUS
  <2>2. ASSUME NEW n \in 0 .. l PROVE f[n] = StripStep(b, f, n)
    <3>1. CASE n <= k
      <4>1. n = 0 \/ (n > 0 /\ b[n] # NUL)
        <5>1. n = 0 \/ (n > 0 /\ n \in 1 .. k)
          BY <3>1
        <5>. QED  BY <1>4, <5>1
      <4>. QED  BY <2>1, <3>1, <4>1 DEF StripStep
    <3>2. CASE n > k
      <4>1. n > 0 /\ b[n] = NUL
        <5>1. n > 0 /\ n \in k + 1 .. l
          BY <3>2
        <5>. QED  BY <1>5, <5>1
      <4>2. f[n] = t
        BY <2>1, <3>2
      <4>3. PICK j \in 0 .. l : j = n - 1 /\ k <= j
        BY <3>2
      <4>4. f[j] = t
        <5>1. CASE j = k
          BY <1>6, <2>1, <5>1
        <5>2. CASE j # k
          BY <2>1, <4>3, <5>2
        <5>. QED  BY <5>1, <5>2
      <4>. QED  BY <4>1, <4>2, <4>3, <4>4 DEF StripStep
    <3>. QED  BY <3>1, <3>2
  <2>3. f = [n \in 0 .. l |-> StripStep(b, f, n)]
    BY <2>1, <2>2
  <2>. QED  BY <2>3
<1>8. PICK f : f = Strips(b)
  OBVIOUS
<1>9. f = [n \in 0 .. l |-> StripStep(b, f, n)]
  BY <1>3, <1>7, <1>8 DEF Strips
<1>10. \A n \in 0 .. l : f[n] = StripStep(b, f, n)
  BY <1>9
<1>11. f[k] = t
  <2>1. k = 0 \/ (k > 0 /\ b[k] # NUL)
    <3>1. k = 0 \/ (k > 0 /\ k \in 1 .. k)
      OBVIOUS
    <3>. QED  BY <1>4, <3>1
  <2>2. f[k] = StripStep(b, f, k)
    BY <1>3, <1>10
  <2>. QED  BY <1>6, <2>1, <2>2 DEF StripStep
<1>12. PICK N : N = l - k
  OBVIOUS
<1>0. N \in Nat /\ l = k + N
  BY <1>3, <1>12
<1>. DEFINE Good == {n \in 0 .. N : f[k + n] = t}
<1>13. 0 \in Good
  <2>1. 0 \in 0 .. N /\ k + 0 = k
    BY <1>0
  <2>. QED  BY <1>11, <2>1
<1>14. ASSUME NEW n \in 0 .. N - 1, n \in Good PROVE n + 1 \in Good
  <2>1. PICK j : j = k + n + 1
    OBVIOUS
  <2>2. j \in 0 .. l /\ j \in k + 1 .. l /\ j > 0 /\ j - 1 = k + n /\ j = k + (n + 1) /\ n + 1 \in 0 .. N
    BY <1>0, <2>1
  <2>3. b[j] = NUL
    BY <1>5, <2>2
  <2>4. f[j] = StripStep(b, f, j)
    BY <1>10, <2>2
  <2>5. f[j] = f[k + n]
    BY <2>2, <2>3, <2>4 DEF StripStep
  <2>6. f[k + n] = t
    BY <1>14
  <2>. QED  BY <2>2, <2>5, <2>6
<1>. HIDE DEF Good
<1>15. \A n \in 0 .. N : n \in Good
  BY <1>0, <1>13, <1>14, Induction
<1>16. f[l] = t
  BY <1>0, <1>15 DEF Good
<1>17. RStrip(b) = f[Len(b)]
  BY <1>8 DEF RStrip, Strips, StripStep
<1>. QED  BY <1>3, <1>16, <1>17

\* A text is padded to a multiple of 8 bytes and read back without its padding.
LEMMA TextKept ==
  ASSUME NEW s \in Texts
  PROVE  /\ padded_string_payload(s) \in Seq(Octets)
         /\ Len(padded_string_payload(s)) = padded_len(s.len)
         /\ Text(padded_string_payload(s)) = s.text
<1>1. PICK n \in Nat : n = s.len /\ (n = 0 => s.text = "")
  BY TextsAssumption
<1>2. PICK k : k = padded_len(n) - n
  OBVIOUS
<1>0. k \in Nat /\ padded_len(n) = n + k
  BY <1>2, PaddedLength
<1>3. PICK t : t = Bytes("text", s.text, n)
  OBVIOUS
<1>4. PICK z : z = Zeros(k)
  OBVIOUS
<1>5. "text" \in Plain /\ s.text \in Objects
  BY DEF Plain, Objects
<1>6. t \in Seq(Octets) /\ Len(t) = n /\ (n = 0 => t = <<>>)
  BY <1>3, <1>5, BytesAre
<1>7. z \in Seq(Octets) /\ Len(z) = k /\ \A i \in 1 .. k : z[i] = NUL
  BY <1>0, <1>4, ZerosAre
<1>8. PICK b : b = t \o z
  OBVIOUS
<1>9. padded_string_payload(s) = b
  BY <1>1, <1>2, <1>3, <1>4, <1>8 DEF padded_string_payload
<1>10. b \in Seq(Octets) /\ Len(b) = n + k
  <2>1. t \in Seq(Octets) /\ z \in Seq(Octets)
    BY <1>6, <1>7
  <2>2. b \in Seq(Octets) /\ Len(b) = Len(t) + Len(z)
    BY <1>8, <2>1, Joined
  <2>. QED  BY <1>6, <1>7, <2>2
<1>11. \A i \in 1 .. n : t[i] # NUL
  BY <1>3 DEF Bytes, NUL
<1>12. RStrip(b) = t
  <2>1. \A i \in 1 .. Len(t) : t[i] # NUL
    BY <1>6, <1>11
  <2>2. \A i \in 1 .. Len(z) : z[i] = NUL
    BY <1>7
  <2>3. t \in Seq(Octets) /\ z \in Seq(Octets)
    BY <1>6, <1>7
  <2>. QED  BY <1>8, <2>1, <2>2, <2>3, Stripped
<1>13. Text(b) = s.text
  <2>1. CASE n = 0
    BY <1>1, <1>6, <1>12, <2>1 DEF Text
  <2>2. CASE n # 0
    <3>1. ReadBack("text", t) = s.text
      BY <1>3, <2>2, BytesReadBack
    <3>2. t # <<>>
      BY <1>6, <2>2
    <3>. QED  BY <1>12, <3>1, <3>2 DEF Text
  <2>. QED  BY <2>1, <2>2
<1>. QED  BY <1>0, <1>1, <1>9, <1>10, <1>13

(***************************************************************************)
(* Commands with a payload.                                                *)
(***************************************************************************)
\* A text that fits, as the payload of a command.
LEMMA TextPayload ==
  ASSUME NEW s \in Texts, Fits(s), NEW p, p = padded_string_payload(s)
  PROVE  /\ p \in Seq(Octets) /\ Len(p) \in U32 /\ Len(p) + 16 \in U32 /\ Len(p) % 8 = 0
         /\ Text(p) = s.text
         /\ FlattenSeq(<<<<>>, p>>) = p
<1>1. p \in Seq(Octets) /\ Len(p) = padded_len(s.len) /\ Text(p) = s.text
  BY TextKept
<1>2. s.len \in Nat
  BY TextsAssumption
<1>3. padded_len(s.len) \in Nat /\ padded_len(s.len) % 8 = 0
  BY <1>2, PaddedLength
<1>4. padded_len(s.len) + 16 \in U32
  BY DEF Fits, MessageHeaderSize
<1>5. padded_len(s.len) \in U32
  BY <1>3, <1>4, Widths DEF U32
<1>6. FlattenSeq(<<<<>>, p>>) = <<>> \o p
  BY FlattenedFew
<1>7. <<>> \o p = p
  BY <1>1
<1>. QED  BY <1>1, <1>3, <1>4, <1>5, <1>6, <1>7

\* A SearchRequest shows the name, its reply flag, version and cid.
LEMMA SearchRequestRead ==
  ASSUME NEW x, NEW c, NEW m, c = x.command, m = x.means, NEW s \in Texts, Fits(s),
         m \in [reply : U16, version : U16, cid : U32, name : {s.text}],
         c = SearchRequest(s, m.cid, m.version, m.reply)
  PROVE  Readable(CLIENT, x)
<1>1. PICK p : p = padded_string_payload(s)
  OBVIOUS
<1>2. /\ p \in Seq(Octets) /\ Len(p) \in U32 /\ Len(p) % 8 = 0 /\ Text(p) = s.text
      /\ FlattenSeq(<<<<>>, p>>) = p
  BY <1>1, TextPayload
<1>3. PICK h : h = Header({Len(p), m.version}, 6, Len(p), m.reply, m.version, m.cid, m.cid)
  OBVIOUS
<1>4. c = Message("SearchRequest", h, <<<<>>, p>>)
  BY <1>1, <1>3 DEF SearchRequest, SearchRequestHeader
<1>5. 6 \in U16 /\ 0 \in U16 /\ 0 \in U32
  BY Smalls
<1>6. m.reply \in U16 /\ m.version \in U32 /\ m.cid \in U32
  BY Smalls
<1>7. {Len(p), m.version} \in SUBSET Nat
  BY <1>2, <1>6, FieldsAreNumbers
<1>8. HeaderOf(h, 6, Len(p), m.reply, m.version, m.cid, m.cid)
  BY <1>2, <1>3, <1>5, <1>6, <1>7, HeaderKept
<1>9. "SearchRequest" \in DOMAIN Ids(CLIENT) /\ Ids(CLIENT)["SearchRequest"] = 6
  BY DEF Ids, RequestId, CLIENT, SERVER
<1>10. from_wire("SearchRequest", h, p) = c
  BY <1>4 DEF from_wire, HAS_PAYLOAD
<1>11. Fields(c) = [reply |-> h.data_type, version |-> h.data_count, cid |-> h.parameter1,
                name |-> Text(p)]
  BY <1>4 DEF Fields, Message
<1>12. Fields(c) = m
  BY <1>2, <1>8, <1>11 DEF HeaderOf
<1>13. "SearchRequest" \in HAS_PAYLOAD /\ CLIENT \in {CLIENT, SERVER}
  BY DEF HAS_PAYLOAD
<1>14. HeaderOf(h, Ids(CLIENT)["SearchRequest"], Len(p), m.reply, m.version, m.cid, m.cid)
  BY <1>8, <1>9
<1>15. x.command = Message("SearchRequest", h, <<<<>>, p>>) /\ Fields(c) = x.means
  BY <1>4, <1>12
<1>. QED  BY <1>2, <1>9, <1>10, <1>13, <1>14, <1>15, Loaded

\* A HostNameRequest shows the name.
LEMMA HostNameRequestRead ==
  ASSUME NEW x, NEW c, NEW m, c = x.command, m = x.means, NEW s \in Texts, Fits(s),
         m = [name |-> s.text],
         c = HostNameRequest(s)
  PROVE  Readable(CLIENT, x)
<1>1. PICK p : p = padded_string_payload(s)
  OBVIOUS
<1>2. /\ p \in Seq(Octets) /\ Len(p) \in U32 /\ Len(p) % 8 = 0 /\ Text(p) = s.text
      /\ FlattenSeq(<<<<>>, p>>) = p
  BY <1>1, TextPayload
<1>3. PICK h : h = Header({Len(p)}, 21, Len(p), 0, 0, 0, 0)
  OBVIOUS
<1>4. c = Message("HostNameRequest", h, <<<<>>, p>>)
  BY <1>1, <1>3 DEF HostNameRequest, HostNameRequestHeader
<1>5. 21 \in U16 /\ 0 \in U16 /\ 0 \in U32
  BY Smalls
<1>6. m.name = s.text
  OBVIOUS
<1>7. {Len(p)} \in SUBSET Nat
  BY <1>2, <1>6, FieldsAreNumbers
<1>8. HeaderOf(h, 21, Len(p), 0, 0, 0, 0)
  BY <1>2, <1>3, <1>5, <1>6, <1>7, HeaderKept
<1>9. "HostNameRequest" \in DOMAIN Ids(CLIENT) /\ Ids(CLIENT)["HostNameRequest"] = 21
  BY DEF Ids, RequestId, CLIENT, SERVER
<1>10. from_wire("HostNameRequest", h, p) = c
  BY <1>4 DEF from_wire, HAS_PAYLOAD
<1>11. Fields(c) = [name |-> Text(p)]
  BY <1>4 DEF Fields, Message
<1>12. Fields(c) = m
  BY <1>2, <1>8, <1>11 DEF HeaderOf
<1>13. "HostNameRequest" \in HAS_PAYLOAD /\ CLIENT \in {CLIENT, SERVER}
  BY DEF HAS_PAYLOAD
<1>14. HeaderOf(h, Ids(CLIENT)["HostNameRequest"], Len(p), 0, 0, 0, 0)
  BY <1>8, <1>9
<1>15. x.command = Message("HostNameRequest", h, <<<<>>, p>>) /\ Fields(c) = x.means
  BY <1>4, <1>12
<1>. QED  BY <1>2, <1>9, <1>10, <1>13, <1>14, <1>15, Loaded

\* A ClientNameRequest shows the name.
LEMMA ClientNameRequestRead ==
  ASSUME NEW x, NEW c, NEW m, c = x.command, m = x.means, NEW s \in Texts, Fits(s),
         m = [name |-> s.text],
         c = ClientNameRequest(s)
  PROVE  Readable(CLIENT, x)
<1>1. PICK p : p = padded_string_payload(s)
  OBVIOUS
<1>2. /\ p \in Seq(Octets) /\ Len(p) \in U32 /\ Len(p) % 8 = 0 /\ Text(p) = s.text
      /\ FlattenSeq(<<<<>>, p>>) = p
  BY <1>1, TextPayload
<1>3. PICK h : h = Header({Len(p)}, 20, Len(p), 0, 0, 0, 0)
  OBVIOUS
<1>4. c = Message("ClientNameRequest", h, <<<<>>, p>>)
  BY <1>1, <1>3 DEF ClientNameRequest, ClientNameRequestHeader
<1>5. 20 \in U16 /\ 0 \in U16 /\ 0 \in U32
  BY Smalls
<1>6. m.name = s.text
  OBVIOUS
<1>7. {Len(p)} \in SUBSET Nat
  BY <1>2, <1>6, FieldsAreNumbers
<1>8. HeaderOf(h, 20, Len(p), 0, 0, 0, 0)
  BY <1>2, <1>3, <1>5, <1>6, <1>7, HeaderKept
<1>9. "ClientNameRequest" \in DOMAIN Ids(CLIENT) /\ Ids(CLIENT)["ClientNameRequest"] = 20
  BY DEF Ids, RequestId, CLIENT, SERVER
<1>10. from_wire("ClientNameRequest", h, p) = c
  BY <1>4 DEF from_wire, HAS_PAYLOAD
<1>11. Fields(c) = [name |-> Text(p)]
  BY <1>4 DEF Fields, Message
<1>12. Fields(c) = m
  BY <1>2, <1>8, <1>11 DEF HeaderOf
<1>13. "ClientNameRequest" \in HAS_PAYLOAD /\ CLIENT \in {CLIENT, SERVER}
  BY DEF HAS_PAYLOAD
<1>14. HeaderOf(h, Ids(CLIENT)["ClientNameRequest"], Len(p), 0, 0, 0, 0)
  BY <1>8, <1>9
<1>15. x.command = Message("ClientNameRequest", h, <<<<>>, p>>) /\ Fields(c) = x.means
  BY <1>4, <1>12
<1>. QED  BY <1>2, <1>9, <1>10, <1>13, <1>14, <1>15, Loaded

\* A CreateChanRequest shows the name, its cid and version.
LEMMA CreateChanRequestRead ==
  ASSUME NEW x, NEW c, NEW m, c = x.command, m = x.means, NEW s \in Texts, Fits(s),
         m \in [cid : U32, version : U32, name : {s.text}],
         c = CreateChanRequest(s, m.cid, m.version)
  PROVE  Readable(CLIENT, x)
<1>1. PICK p : p = padded_string_payload(s)
  OBVIOUS
<1>2. /\ p \in Seq(Octets) /\ Len(p) \in U32 /\ Len(p) % 8 = 0 /\ Text(p) = s.text
      /\ FlattenSeq(<<<<>>, p>>) = p
  BY <1>1, TextPayload
<1>3. PICK h : h = Header({Len(p)}, 18, Len(p), 0, 0, m.cid, m.version)
  OBVIOUS
<1>4. c = Message("CreateChanRequest", h, <<<<>>, p>>)
  BY <1>1, <1>3 DEF CreateChanRequest, CreateChanRequestHeader
<1>5. 18 \in U16 /\ 0 \in U16 /\ 0 \in U32
  BY Smalls
<1>6. m.cid \in U32 /\ m.version \in U32
  BY Smalls
<1>7. {Len(p)} \in SUBSET Nat
  BY <1>2, <1>6, FieldsAreNumbers
<1>8. HeaderOf(h, 18, Len(p), 0, 0, m.cid, m.version)
  BY <1>2, <1>3, <1>5, <1>6, <1>7, HeaderKept
<1>9. "CreateChanRequest" \in DOMAIN Ids(CLIENT) /\ Ids(CLIENT)["CreateChanRequest"] = 18
  BY DEF Ids, RequestId, CLIENT, SERVER
<1>10. from_wire("CreateChanRequest", h, p) = c
  BY <1>4 DEF from_wire, HAS_PAYLOAD
<1>11. Fields(c) = [cid |-> h.parameter1, version |-> h.parameter2, name |-> Text(p)]
  BY <1>4 DEF Fields, Message
<1>12. Fields(c) = m
  BY <1>2, <1>8, <1>11 DEF HeaderOf
<1>13. "CreateChanRequest" \in HAS_PAYLOAD /\ CLIENT \in {CLIENT, SERVER}
  BY DEF HAS_PAYLOAD
<1>14. HeaderOf(h, Ids(CLIENT)["CreateChanRequest"], Len(p), 0, 0, m.cid, m.version)
  BY <1>8, <1>9
<1>15. x.command = Message("CreateChanRequest", h, <<<<>>, p>>) /\ Fields(c) = x.means
  BY <1>4, <1>12
<1>. QED  BY <1>2, <1>9, <1>10, <1>13, <1>14, <1>15, Loaded

\* A SearchResponse shows port and address, its cid, and the version in its payload.
LEMMA SearchResponseRead ==
  ASSUME NEW x, NEW c, NEW m, c = x.command, m = x.means,
         m \in [port : U16, ip : Addresses, cid : U32, version : U16],
         c = SearchResponse(m.port, m.ip, m.cid, m.version)
  PROVE  Readable(SERVER, x)
<1>1. PICK v : v = Bytes("version", m.version, 2)
  OBVIOUS
<1>2. PICK z : z = Zeros(6)
  OBVIOUS
<1>3. PICK p : p = v \o z
  OBVIOUS
<1>4. v \in Seq(Octets) /\ Len(v) = 2 /\ ReadBack("version", v) = m.version
  <2>1. "version" \in Plain /\ m.version \in Objects
    BY DEF Plain, Objects
  <2>2. v \in Seq(Octets) /\ Len(v) = 2
    BY <1>1, <2>1, BytesAre
  <2>3. ReadBack("version", v) = m.version
    BY <1>1, BytesReadBack
  <2>. QED  BY <2>2, <2>3
<1>5. z \in Seq(Octets) /\ Len(z) = 6
  BY <1>2, ZerosAre
<1>0. v \in Seq(Octets) /\ z \in Seq(Octets)
  BY <1>4, <1>5
<1>6. p \in Seq(Octets) /\ Len(p) = 8
  <2>1. p \in Seq(Octets) /\ Len(p) = Len(v) + Len(z)
    BY <1>0, <1>3, Joined
  <2>. QED  BY <1>4, <1>5, <2>1
<1>7. Slice(p, 1, 2) = v
  <2>1. p \in Seq(Octets) /\ v \in Seq(Octets) /\ 0 + Len(v) <= Len(p)
    BY <1>4, <1>6
  <2>2. \A i \in 1 .. Len(v) : p[0 + i] = v[i]
    BY <1>0, <1>3, Joined
  <2>3. Slice(p, 0 + 1, 0 + Len(v)) = v
    BY <2>1, <2>2, CutOut
  <2>4. 0 + 1 = 1 /\ 0 + Len(v) = 2
    BY <1>4
  <2>. QED  BY <2>3, <2>4
<1>8. PICK h : h = MessageHeader(6, 8, m.port, 0, ipv4_to_int32(m.ip), m.cid)
  OBVIOUS
<1>9. c = Message("SearchResponse", h, <<p>>)
  BY <1>1, <1>2, <1>3, <1>8 DEF SearchResponse, SearchResponseHeader
<1>10. 6 \in U16 /\ 8 \in U16 /\ 0 \in U16 /\ m.port \in U16 /\ m.cid \in U32 /\ 8 % 8 = 0
  BY Smalls
<1>11. ipv4_to_int32(m.ip) \in U32 /\ ipv4_from_int32(ipv4_to_int32(m.ip)) = m.ip
  BY AddressKept
<1>12. HeaderOf(h, 6, 8, m.port, 0, ipv4_to_int32(m.ip), m.cid)
  BY <1>8, <1>10, <1>11, ShortKept
<1>13. "SearchResponse" \in DOMAIN Ids(SERVER) /\ Ids(SERVER)["SearchResponse"] = 6
  BY DEF Ids, ResponseId, CLIENT, SERVER
<1>14. from_wire("SearchResponse", h, p) = c
  BY <1>9 DEF from_wire, HAS_PAYLOAD
<1>15. Fields(c) = [port |-> h.data_type, ip |-> ipv4_from_int32(h.parameter1),
                    cid |-> h.parameter2, version |-> ReadBack("version", Slice(p, 1, 2))]
  BY <1>9 DEF Fields, Message
<1>16. Fields(c) = m
  BY <1>4, <1>7, <1>11, <1>12, <1>15 DEF HeaderOf
<1>17. FlattenSeq(<<p>>) = p
  BY FlattenedFew
<1>18. p \in Seq(Octets) /\ Len(p) % 8 = 0
  BY <1>6
<1>19. "SearchResponse" \in HAS_PAYLOAD /\ SERVER \in {CLIENT, SERVER}
  BY DEF HAS_PAYLOAD
<1>20. HeaderOf(h, Ids(SERVER)["SearchResponse"], Len(p), m.port, 0, ipv4_to_int32(m.ip), m.cid)
  BY <1>6, <1>12, <1>13
<1>21. x.command = Message("SearchResponse", h, <<p>>) /\ Fields(c) = x.means
  BY <1>9, <1>16
<1>. QED  BY <1>13, <1>14, <1>17, <1>18, <1>19, <1>20, <1>21, Loaded

\* An EventAddRequest shows the type, the count, its sid and subscription, and the mask in its payload.
LEMMA EventAddRequestRead ==
  ASSUME NEW x, NEW c, NEW m, c = x.command, m = x.means,
         m \in [data_type : ChannelType, data_count : U32, sid : U32, subscriptionid : U32,
                event : Events],
         c = EventAddRequest(m.data_type, m.data_count, m.sid, m.subscriptionid,
                             m.event[1], m.event[2])
  PROVE  Readable(CLIENT, x)
<1>1. PICK p : p = Bytes("event", m.event, 16)
  OBVIOUS
<1>2. p \in Seq(Octets) /\ Len(p) = 16 /\ ReadBack("event", p) = m.event
  <2>1. "event" \in Plain /\ m.event \in Objects
    BY DEF Plain, Objects
  <2>2. p \in Seq(Octets) /\ Len(p) = 16
    BY <1>1, <2>1, BytesAre
  <2>3. ReadBack("event", p) = m.event
    BY <1>1, BytesReadBack
  <2>. QED  BY <2>2, <2>3
<1>3. Slice(p, 1, 16) = p
  BY <1>2 DEF Slice
<1>4. <<m.event[1], m.event[2]>> = m.event
  BY DEF Events
<1>5. PICK h : h = Header({16, m.data_count}, 1, 16, m.data_type, m.data_count, m.sid,
                          m.subscriptionid)
  OBVIOUS
<1>6. c = Message("EventAddRequest", h, <<p>>)
  BY <1>1, <1>4, <1>5 DEF EventAddRequest, EventAddRequestHeader, EventAddRequestPayload
<1>7. 1 \in U16 /\ 16 \in U16 /\ 16 \in U32 /\ 16 % 8 = 0
  BY Smalls
<1>8. m.data_count \in U32 /\ m.sid \in U32 /\ m.subscriptionid \in U32
  OBVIOUS
<1>9. m.data_type \in U16
  BY Smalls
<1>10. {16, m.data_count} \in SUBSET Nat
  <2>1. m.data_count \in Nat
    BY <1>8, FieldsAreNumbers
  <2>. QED  BY <2>1
<1>11. HeaderOf(h, 1, 16, m.data_type, m.data_count, m.sid, m.subscriptionid)
  BY <1>5, <1>7, <1>8, <1>9, <1>10, HeaderKept
<1>12. "EventAddRequest" \in DOMAIN Ids(CLIENT) /\ Ids(CLIENT)["EventAddRequest"] = 1
  BY DEF Ids, RequestId, CLIENT, SERVER
<1>13. from_wire("EventAddRequest", h, p) = c
  BY <1>3, <1>6 DEF from_wire, HAS_PAYLOAD
<1>14. Fields(c) = [data_type |-> h.data_type, data_count |-> h.data_count,
                    sid |-> h.parameter1, subscriptionid |-> h.parameter2,
                    event |-> ReadBack("event", p)]
  BY <1>6 DEF Fields, Message
<1>15. Fields(c) = m
  BY <1>2, <1>11, <1>14 DEF HeaderOf
<1>16. FlattenSeq(<<p>>) = p
  BY FlattenedFew
<1>17. p \in Seq(Octets) /\ Len(p) % 8 = 0
  BY <1>2
<1>18. "EventAddRequest" \in HAS_PAYLOAD /\ CLIENT \in {CLIENT, SERVER}
  BY DEF HAS_PAYLOAD
<1>19. HeaderOf(h, Ids(CLIENT)["EventAddRequest"], Len(p), m.data_type, m.data_count, m.sid,
                m.subscriptionid)
  BY <1>2, <1>11, <1>12
<1>20. x.command = Message("EventAddRequest", h, <<p>>) /\ Fields(c) = x.means
  BY <1>6, <1>15
<1>. QED  BY <1>12, <1>13, <1>16, <1>17, <1>18, <1>19, <1>20, Loaded

\* An ErrorResponse shows its cid and status, the header it answers and the
\* message with its padding.
LEMMA ErrorResponseRead ==
  ASSUME NEW x, NEW c, NEW m, c = x.command, m = x.means, NEW s \in Texts, Fits(s),
         m \in [cid : U32, status : Statuses, original_request : ShortHeaders,
                error_message : {padded_string_payload(s)}],
         c = ErrorResponse([header |-> m.original_request], m.cid, m.status, s)
  PROVE  Readable(SERVER, x)
<1>1. PICK t : t = padded_string_payload(s)
  OBVIOUS
<1>2. t \in Seq(Octets) /\ Len(t) + 16 \in U32 /\ Len(t) % 8 = 0 /\ Text(t) = s.text
  BY <1>1, TextPayload
<1>3. PICK o \in ShortHeaders : o = m.original_request
  OBVIOUS
<1>4. PICK b : b = HeaderBytes(o)
  OBVIOUS
<1>5. b = Bytes("header", o, 16)
  BY <1>4 DEF HeaderBytes, ShortHeaders, MessageHeaderSize
<1>6. b \in Seq(Octets) /\ Len(b) = 16
  <2>1. \A i \in 1 .. 16 : <<"header", o, i>> \in Octets
    BY DEF Octets
  <2>. QED  BY <1>5, <2>1 DEF Bytes
<1>7. ReadBack("header", b) = o
  BY <1>5, BytesReadBack
<1>8. PICK p : p = b \o t
  OBVIOUS
<1>0. b \in Seq(Octets) /\ t \in Seq(Octets)
  BY <1>2, <1>6
<1>9. p \in Seq(Octets) /\ Len(p) = Len(b) + Len(t)
  BY <1>0, <1>8, Joined
<1>10. Slice(p, 1, 16) = b
  <2>1. p \in Seq(Octets) /\ b \in Seq(Octets) /\ 0 + Len(b) <= Len(p)
    BY <1>2, <1>6, <1>9
  <2>2. \A i \in 1 .. Len(b) : p[0 + i] = b[i]
    BY <1>0, <1>8, Joined
  <2>3. Slice(p, 0 + 1, 0 + Len(b)) = b
    BY <2>1, <2>2, CutOut
  <2>4. 0 + 1 = 1 /\ 0 + Len(b) = 16
    BY <1>6
  <2>. QED  BY <2>3, <2>4
<1>11. Slice(p, 17, Len(p)) = t
  <2>1. p \in Seq(Octets) /\ t \in Seq(Octets) /\ Len(b) + Len(t) <= Len(p) /\ Len(b) \in Nat
    BY <1>2, <1>6, <1>9
  <2>2. \A i \in 1 .. Len(t) : p[Len(b) + i] = t[i]
    BY <1>0, <1>8, Joined
  <2>3. Slice(p, Len(b) + 1, Len(b) + Len(t)) = t
    BY <2>1, <2>2, CutOut
  <2>4. Len(b) + 1 = 17
    BY <1>6
  <2>. QED  BY <1>9, <2>3, <2>4
<1>12. PICK n : n = Len(p)
  OBVIOUS
<1>13. n \in U32 /\ n % 8 = 0
  <2>1. Len(t) \in Nat /\ n = Len(t) + 16
    <3>1. Len(t) \in Nat
      BY <1>0
    <3>. QED  BY <1>6, <1>9, <1>12, <3>1
  <2>2. PICK k \in Nat : k = Len(t) /\ k + 16 \in U32 /\ k % 8 = 0 /\ n = k + 16
    BY <1>2, <2>1
  <2>. QED  BY <2>2
<1>14. PICK h : h = Header({n}, 11, n, 0, 0, m.cid, ensure_eca_value(m.status))
  OBVIOUS
<1>15. c = Message("ErrorResponse", h, <<<<>>, p>>)
  BY <1>1, <1>3, <1>4, <1>8, <1>12, <1>14 DEF ErrorResponse, ErrorResponseHeader
<1>16. 11 \in U16 /\ 0 \in U16 /\ 0 \in U32 /\ m.cid \in U32
  BY Smalls
<1>17. /\ ensure_eca_value(m.status) \in U32
       /\ eca_value_to_status(ensure_eca_value(m.status)) = m.status
  BY StatusKept
<1>18. {n} \in SUBSET Nat
  BY <1>13, FieldsAreNumbers
<1>19. HeaderOf(h, 11, n, 0, 0, m.cid, ensure_eca_value(m.status))
  BY <1>13, <1>14, <1>16, <1>17, <1>18, HeaderKept
<1>20. "ErrorResponse" \in DOMAIN Ids(SERVER) /\ Ids(SERVER)["ErrorResponse"] = 11
  BY DEF Ids, ResponseId, CLIENT, SERVER
<1>21. from_wire("ErrorResponse", h, p) = c
  <2>1. from_wire("ErrorResponse", h, p) = Message("ErrorResponse", h, <<<<>>, p>>)
    BY DEF from_wire, HAS_PAYLOAD
  <2>. QED  BY <1>15, <2>1
<1>22. Fields(c) = [cid |-> h.parameter1, status |-> eca_value_to_status(h.parameter2),
                    original_request |-> ReadBack("header", Slice(p, 1, 16)),
                    error_message |-> Slice(p, MessageHeaderSize + 1, Len(p))]
  <2>1. c.header = h /\ c.cls = "ErrorResponse" /\ c.buffers[2] = p
    BY <1>15 DEF Message
  <2>. QED  BY <2>1 DEF Fields, MessageHeaderSize
<1>23. MessageHeaderSize + 1 = 17
  BY DEF MessageHeaderSize
<1>24. Fields(c) = m
  BY <1>1, <1>3, <1>7, <1>10, <1>11, <1>17, <1>19, <1>22, <1>23 DEF HeaderOf
<1>25. FlattenSeq(<<<<>>, p>>) = p
  <2>1. FlattenSeq(<<<<>>, p>>) = <<>> \o p
    BY FlattenedFew
  <2>. QED  BY <1>9, <2>1
<1>26. p \in Seq(Octets) /\ Len(p) % 8 = 0
  BY <1>9, <1>12, <1>13
<1>27. "ErrorResponse" \in HAS_PAYLOAD /\ SERVER \in {CLIENT, SERVER}
  BY DEF HAS_PAYLOAD
<1>28. HeaderOf(h, Ids(SERVER)["ErrorResponse"], Len(p), 0, 0, m.cid, ensure_eca_value(m.status))
  BY <1>12, <1>19, <1>20
<1>29. x.command = Message("ErrorResponse", h, <<<<>>, p>>) /\ Fields(c) = x.means
  BY <1>15, <1>24
<1>. QED  BY <1>20, <1>21, <1>25, <1>26, <1>27, <1>28, <1>29, Loaded

(***************************************************************************)
(* Sizes of data types.                                                    *)
(***************************************************************************)
SizeStep(fields, f, i) == IF i = 0 THEN 0 ELSE fields[i] + f[i - 1]

SizesUpto(fields) == CHOOSE f : f = [i \in 0 .. Len(fields) |-> SizeStep(fields, f, i)]

\* The recursion of sizeof is well founded.
LEMMA SizesAreDefined ==
  ASSUME NEW S, NEW fields \in Seq(S)
  PROVE  \E f : f = [i \in 0 .. Len(fields) |-> SizeStep(fields, f, i)]
<1>. DEFINE Upto(n, f) == f = [i \in 0 .. n |-> SizeStep(fields, f, i)]
            Good == {n \in 0 .. Len(fields) : \E f : Upto(n, f)}
<1>1. Len(fields) \in Nat
  OBVIOUS
<1>2. 0 \in Good
  <2>1. PICK f : f = [i \in 0 .. 0 |-> 0]
    OBVIOUS
  <2>2. \A i \in 0 .. 0 : SizeStep(fields, f, i) = 0
    BY DEF SizeStep
  <2>3. Upto(0, f)
    BY <2>1, <2>2
  <2>4. \E g : Upto(0, g)
    <3>. HIDE DEF Upto
    <3>. QED  BY <2>3
  <2>5. 0 \in 0 .. Len(fields)
    BY <1>1
  <2>. HIDE DEF Upto
  <2>. QED  BY <2>4, <2>5
<1>3. ASSUME NEW n \in 0 .. Len(fields) - 1, n \in Good PROVE n + 1 \in Good
  <2>1. PICK f : Upto(n, f)
    BY <1>3
  <2>2. PICK g : g = [i \in 0 .. n + 1 |-> SizeStep(fields, f, i)]
    OBVIOUS
  <2>3. \A i \in 0 .. n : g[i] = f[i]
    BY <2>1, <2>2
  <2>4. ASSUME NEW i \in 0 .. n + 1 PROVE SizeStep(fields, f, i) = SizeStep(fields, g, i)
    <3>1. CASE i = 0
      BY <3>1 DEF SizeStep
    <3>2. CASE i # 0
      <4>1. i - 1 \in 0 .. n
        BY <1>1, <3>2
      <4>2. f[i - 1] = g[i - 1]
        BY <2>3, <4>1
      <4>. QED  BY <3>2, <4>2 DEF SizeStep
    <3>. QED  BY <3>1, <3>2
  <2>5. Upto(n + 1, g)
    BY <2>2, <2>4
  <2>. QED  BY <1>1, <2>5
<1>. HIDE DEF Good
<1>4. \A n \in 0 .. Len(fields) : n \in Good
  BY <1>1, <1>2, <1>3, Induction
<1>. QED  BY <1>1, <1>4 DEF Good

\* A structure that has a field takes some bytes.
LEMMA SizePositive ==
  ASSUME NEW fields \in Seq(Nat \ {0}), Len(fields) # 0
  PROVE  sizeof(fields) \in Nat /\ sizeof(fields) > 0
<1>1. PICK f : f = SizesUpto(fields)
  OBVIOUS
<1>2. PICK N \in Nat : N = Len(fields) /\ N # 0
  OBVIOUS
<1>3. f = [i \in 0 .. N |-> SizeStep(fields, f, i)]
  BY <1>1, <1>2, SizesAreDefined DEF SizesUpto
<1>4. \A i \in 0 .. N : f[i] = SizeStep(fields, f, i)
  BY <1>3
<1>5. \A i \in 1 .. N : fields[i] \in Nat /\ fields[i] > 0
  BY <1>2
<1>6. ASSUME NEW i \in 1 .. N PROVE f[i] = fields[i] + f[i - 1]
  <2>1. i \in 0 .. N /\ i # 0
    BY <1>2
  <2>. QED  BY <1>4, <2>1 DEF SizeStep
<1>. DEFINE Good == {n \in 0 .. N : f[n] \in Nat}
<1>7. 0 \in Good
  BY <1>2, <1>4 DEF SizeStep
<1>8. ASSUME NEW n \in 0 .. N - 1, n \in Good PROVE n + 1 \in Good
  <2>1. PICK j : j = n + 1
    OBVIOUS
  <2>2. j \in 1 .. N /\ j - 1 = n /\ j \in 0 .. N
    BY <1>2, <2>1
  <2>3. f[j] = fields[j] + f[j - 1]
    BY <1>6, <2>2
  <2>4. fields[j] \in Nat
    BY <1>5, <2>2
  <2>5. f[n] \in Nat
    BY <1>8
  <2>6. f[j] \in Nat
    BY <2>2, <2>3, <2>4, <2>5
  <2>. QED  BY <2>1, <2>2, <2>6
<1>. HIDE DEF Good
<1>9. \A n \in 0 .. N : n \in Good
  BY <1>2, <1>7, <1>8, Induction
<1>10. PICK k : k = N - 1
  OBVIOUS
<1>11. k \in 0 .. N /\ N \in 1 .. N
  BY <1>2, <1>10
<1>12. f[k] \in Nat
  BY <1>9, <1>11 DEF Good
<1>13. f[N] = fields[N] + f[N - 1]
  BY <1>6, <1>11
<1>14. f[N] = fields[N] + f[k]
  BY <1>10, <1>13
<1>15. fields[N] \in Nat /\ fields[N] > 0
  BY <1>5, <1>11
<1>16. f[N] \in Nat /\ f[N] > 0
  BY <1>12, <1>14, <1>15
<1>17. sizeof(fields) = f[Len(fields)]
  BY <1>1 DEF sizeof, SizesUpto, SizeStep
<1>. QED  BY <1>2, <1>16, <1>17

\* structures: the sizes of their fields
Structs == {s \in Seq(Nat \ {0}) : Len(s) # 0}

\* Structures joined are a structure, and so is one with more fields or none behind it.
LEMMA StructsJoined ==
  ASSUME NEW s \in Structs, NEW t \in Seq(Nat \ {0})
  PROVE  s \o t \in Structs
BY DEF Structs

\* Every native type takes some bytes.
LEMMA NativeSizes == \A n \in native_types : native_size[n] \in Nat \ {0}
<1>1. \A n \in 0 .. 6 : native_size[n] = <<40, 2, 4, 2, 1, 4, 8>>[n + 1]
  BY DEF native_size, native_types, MAX_STRING_SIZE
<1>. QED  BY <1>1 DEF native_types

\* Every native type, with what each promotion puts before it.
LEMMA TypesAreStructs ==
  ASSUME NEW n \in native_types
  PROVE  /\ <<native_size[n]>> \in Structs /\ DBR_STS[n] \in Structs /\ DBR_TIME[n] \in Structs
         /\ DBR_GR[n] \in Structs /\ DBR_CTRL[n] \in Structs
<1>1. <<native_size[n]>> \in Structs
  BY NativeSizes DEF Structs
<1>0. /\ <<>> \in Seq(Nat \ {0}) /\ <<1>> \in Seq(Nat \ {0}) /\ <<2>> \in Seq(Nat \ {0})
      /\ <<4>> \in Seq(Nat \ {0}) /\ <<8>> \in Seq(Nat \ {0}) /\ <<2, 1>> \in Seq(Nat \ {0})
      /\ <<4, 4>> \in Seq(Nat \ {0}) /\ <<2, 2>> \in Seq(Nat \ {0}) /\ <<2, 2>> \in Structs
  <2>1. /\ <<>> \in Seq(Nat \ {0}) /\ <<1>> \in Seq(Nat \ {0}) /\ <<2>> \in Seq(Nat \ {0})
        /\ <<4>> \in Seq(Nat \ {0}) /\ <<8>> \in Seq(Nat \ {0})
    OBVIOUS
  <2>2. <<2, 1>> \in Seq(Nat \ {0}) /\ <<4, 4>> \in Seq(Nat \ {0})
    OBVIOUS
  <2>3. <<2, 2>> \in Seq(Nat \ {0}) /\ Len(<<2, 2>>) = 2
    OBVIOUS
  <2>4. <<2, 2>> \in Structs
    BY <2>3 DEF Structs
  <2>. QED  BY <2>1, <2>2, <2>3, <2>4
<1>2. DBR_STS[n] \in Structs
  <2>. DEFINE e == IF n = CHAR THEN <<1>> ELSE IF n = DOUBLE THEN <<4>> ELSE <<>>
  <2>1. e \in Seq(Nat \ {0})
    BY <1>0, Zenon
  <2>2. DBR_STS[n] = <<2, 2>> \o e
    BY DEF DBR_STS
  <2>. HIDE DEF e
  <2>. QED  BY <1>0, <2>1, <2>2, StructsJoined
<1>3. DBR_TIME[n] \in Structs
  <2>. DEFINE e == IF n \in {INT, ENUM} THEN <<2>> ELSE IF n = CHAR THEN <<2, 1>>
                   ELSE IF n = DOUBLE THEN <<4>> ELSE <<>>
  <2>1. e \in Seq(Nat \ {0})
    BY <1>0, Zenon
  <2>2. DBR_TIME[n] = <<2, 2>> \o <<4, 4>> \o e
    BY DEF DBR_TIME, TimeStamp
  <2>. HIDE DEF e
  <2>3. <<2, 2>> \o <<4, 4>> \in Structs
    BY <1>0, StructsJoined
  <2>. QED  BY <2>1, <2>2, <2>3, StructsJoined
<1>4. \A k \in Nat : Limits(n, k) \in Structs
  <2>. SUFFICES ASSUME NEW k \in Nat PROVE Limits(n, k) \in Structs
    OBVIOUS
  <2>. DEFINE p == IF n \in {FLOAT, DOUBLE} THEN <<2, 2>> ELSE <<>>
              l == [i \in 1 .. k |-> native_size[n]]
              e == IF n = CHAR THEN <<1>> ELSE <<>>
  <2>1. <<2, 2>> \in Structs /\ p \in Seq(Nat \ {0}) /\ <<8>> \in Seq(Nat \ {0})
    BY <1>0, Zenon
  <2>2. l \in Seq(Nat \ {0}) /\ e \in Seq(Nat \ {0})
    <3>1. l \in Seq(Nat \ {0})
      BY NativeSizes
    <3>2. e \in Seq(Nat \ {0})
      BY <1>0, Zenon
    <3>. QED  BY <3>1, <3>2
  <2>3. Limits(n, k) = <<2, 2>> \o p \o <<8>> \o l \o e
    BY DEF Limits, MAX_UNITS_SIZE
  <2>. HIDE DEF p, l, e
  <2>4. <<2, 2>> \o p \in Structs
    BY <2>1, StructsJoined
  <2>5. <<2, 2>> \o p \o <<8>> \in Structs
    BY <2>1, <2>4, StructsJoined
  <2>6. <<2, 2>> \o p \o <<8>> \o l \in Structs
    BY <2>2, <2>5, StructsJoined
  <2>. QED  BY <2>2, <2>3, <2>6, StructsJoined
<1>5. EnumWithStrings \in Structs
  <2>1. [i \in 1 .. 16 |-> 26] \in Seq(Nat \ {0}) /\ <<2, 2, 2>> \in Structs
    BY DEF Structs
  <2>. QED  BY <2>1, StructsJoined DEF EnumWithStrings, MAX_ENUM_STATES, MAX_ENUM_STRING_SIZE
<1>6. DBR_STS[STRING_] \in Structs /\ DBR_TIME[STRING_] \in Structs
  BY DEF DBR_STS, DBR_TIME, TimeStamp, Structs, STRING_, native_types, CHAR, DOUBLE, INT, ENUM
<1>7. DBR_GR[n] \in Structs
  BY <1>4, <1>5, <1>6 DEF DBR_GR
<1>8. DBR_CTRL[n] \in Structs
  BY <1>4, <1>5, <1>6 DEF DBR_CTRL
<1>. QED  BY <1>1, <1>2, <1>3, <1>7, <1>8

\* A data type and its native type take some bytes; only a promoted one has metadata.
LEMMA TypeSizes ==
  ASSUME NEW t \in OrdinaryTypes
  PROVE  /\ sizeof(DBR_TYPES(t)) \in Nat /\ sizeof(DBR_TYPES(t)) > 0
         /\ sizeof(DBR_TYPES(native_type(t))) \in Nat /\ sizeof(DBR_TYPES(native_type(t))) > 0
         /\ has_metadata(t) <=> t \notin native_types
         /\ t \in native_types <=> t < 7
<1>1. t \in 0 .. 34
  BY DEF OrdinaryTypes, ChannelType, special_types
<1>2. native_type(t) = t % 7 /\ t % 7 \in 0 .. 6
  BY <1>1 DEF native_type, field_types_native, ChannelType, special_types
<1>3. ASSUME NEW u \in 0 .. 34 PROVE DBR_TYPES(u) \in Structs
  <2>1. PICK n \in 0 .. 6 : n = u % 7
    OBVIOUS
  <2>2. PICK k \in 1 .. 5 : k = (u \div 7) + 1
    OBVIOUS
  <2>3. u \notin special_types /\ n \in native_types
    BY DEF special_types, native_types
  <2>4. DBR_TYPES(u) = <<<<native_size[n]>>, DBR_STS[n], DBR_TIME[n], DBR_GR[n], DBR_CTRL[n]>>[k]
    BY <2>1, <2>2, <2>3 DEF DBR_TYPES
  <2>5. /\ <<native_size[n]>> \in Structs /\ DBR_STS[n] \in Structs /\ DBR_TIME[n] \in Structs
        /\ DBR_GR[n] \in Structs /\ DBR_CTRL[n] \in Structs
    BY <2>3, TypesAreStructs
  <2>6. k = 1 \/ k = 2 \/ k = 3 \/ k = 4 \/ k = 5
    BY <2>2
  <2>. QED  BY <2>4, <2>5, <2>6
<1>4. DBR_TYPES(t) \in Structs /\ DBR_TYPES(native_type(t)) \in Structs
  BY <1>1, <1>2, <1>3
<1>5. sizeof(DBR_TYPES(t)) \in Nat /\ sizeof(DBR_TYPES(t)) > 0
  BY <1>4, SizePositive DEF Structs
<1>6. sizeof(DBR_TYPES(native_type(t))) \in Nat /\ sizeof(DBR_TYPES(native_type(t))) > 0
  BY <1>4, SizePositive DEF Structs
<1>7. t \in native_types <=> t < 7
  BY <1>1 DEF native_types
<1>8. has_metadata(t) <=> t \notin native_types
  BY <1>1, <1>2 DEF has_metadata, native_types, special_types
<1>. QED  BY <1>5, <1>6, <1>7, <1>8

(***************************************************************************)
(* Data with metadata.                                                     *)
(***************************************************************************)
\* What lies before the data is the metadata, as long as its type says.
LEMMA MetadataKept ==
  ASSUME NEW t \in OrdinaryTypes, NEW md \in Metadata \cup {NoMetadata},
         md = NoMetadata <=> t \in native_types, NEW b, b = parse_metadata(md, t)
  PROVE  /\ b \in Seq(Octets)
         /\ Len(b) = IF has_metadata(t) THEN sizeof(DBR_TYPES(t)) ELSE 0
         /\ extract_metadata(b, t) = md
<1>1. PICK k \in Nat : k = sizeof(DBR_TYPES(t)) /\ k > 0
  BY TypeSizes
<1>2. has_metadata(t) <=> t \notin native_types
  BY TypeSizes
<1>3. t \in native_types <=> t < 7
  BY TypeSizes
<1>4. CASE t \in native_types
  <2>1. b = <<>>
    BY <1>4 DEF parse_metadata
  <2>2. <<>> \in Seq(Octets) /\ Len(<<>>) = 0
    OBVIOUS
  <2>3. extract_metadata(b, t) = md
    BY <1>3, <1>4 DEF extract_metadata
  <2>. QED  BY <1>2, <1>4, <2>1, <2>2, <2>3
<1>5. CASE t \notin native_types
  <2>1. b = Bytes("metadata", md, k)
    BY <1>1, <1>5 DEF parse_metadata
  <2>2. "metadata" \in Plain /\ md \in Objects
    BY <1>5 DEF Plain, Objects
  <2>3. b \in Seq(Octets) /\ Len(b) = k
    BY <2>1, <2>2, BytesAre
  <2>4. ReadBack("metadata", b) = md
    BY <1>1, <2>1, BytesReadBack
  <2>5. extract_metadata(b, t) = md
    BY <1>3, <1>5, <2>4 DEF extract_metadata
  <2>. QED  BY <1>1, <1>2, <1>5, <2>3, <2>5
<1>. QED  BY <1>4, <1>5

\* The elements of a value are read back from their bytes.
LEMMA ValueKept ==
  ASSUME NEW t \in OrdinaryTypes, NEW d \in Values,
         NEW b, b = Bytes("data", d.v, d.n * sizeof(DBR_TYPES(native_type(t))))
  PROVE  /\ b \in Seq(Octets) /\ Len(b) = d.n * sizeof(DBR_TYPES(native_type(t)))
         /\ extract_data(b, t, d.n) = d
<1>1. PICK k \in Nat : k = sizeof(DBR_TYPES(native_type(t))) /\ k > 0
  BY TypeSizes
<1>2. PICK n \in Nat : n = d.n /\ (n = 0 => d.v = "none") /\ d = [v |-> d.v, n |-> n]
  BY ValuesAssumption DEF NoData
<1>3. PICK l \in Nat : l = n * k
  OBVIOUS
<1>4. b = Bytes("data", d.v, l)
  BY <1>1, <1>2, <1>3
<1>5. b \in Seq(Octets) /\ Len(b) = l
  <2>1. "data" \in Plain /\ d.v \in Objects
    BY DEF Plain, Objects
  <2>. QED  BY <1>4, <2>1, BytesAre
<1>6. l \div k = n
  <2>1. 0 \in 0 .. k - 1
    BY <1>1
  <2>2. (n * k + 0) \div k = n
    BY <1>1, <2>1, Divided
  <2>3. n * k + 0 = l
    BY <1>3
  <2>. QED  BY <2>2, <2>3
<1>7. extract_data(b, t, n) = [v |-> IF n = 0 THEN "none" ELSE ReadBack("data", b), n |-> n]
  <2>1. Len(b) \div k = n
    BY <1>5, <1>6
  <2>. QED  BY <1>1, <2>1 DEF extract_data
<1>8. n # 0 => ReadBack("data", b) = d.v
  <2>. SUFFICES ASSUME n # 0 PROVE ReadBack("data", b) = d.v
    OBVIOUS
  <2>1. l > 0
    BY <1>1, <1>3
  <2>. QED  BY <1>4, <2>1, BytesReadBack
<1>9. extract_data(b, t, n) = d
  <2>1. CASE n = 0
    BY <1>2, <1>7, <2>1
  <2>2. CASE n # 0
    BY <1>2, <1>7, <1>8, <2>2
  <2>. QED  BY <2>1, <2>2
<1>. QED  BY <1>1, <1>2, <1>3, <1>5, <1>9

\* Data and metadata are read back from the payload, without its padding.
LEMMA DataKept ==
  ASSUME NEW t \in OrdinaryTypes, NEW d \in Values, NEW md \in Metadata \cup {NoMetadata},
         md = NoMetadata <=> t \in native_types,
         NEW p, p = FlattenSeq(data_payload(d, md, t))
  PROVE  /\ p \in Seq(Octets) /\ Len(p) % 8 = 0
         /\ \E a, b : /\ from_buffer(t, d.n, p) = <<a, b>>
                      /\ extract_metadata(a, t) = md /\ extract_data(b, t, d.n) = d
<1>1. PICK a : a = parse_metadata(md, t)
  OBVIOUS
<1>2. PICK b : b = Bytes("data", d.v, d.n * sizeof(DBR_TYPES(native_type(t))))
  OBVIOUS
<1>3. a \in Seq(Octets) /\ extract_metadata(a, t) = md
  BY <1>1, MetadataKept
<1>4. Len(a) = IF has_metadata(t) THEN sizeof(DBR_TYPES(t)) ELSE 0
  BY <1>1, MetadataKept
<1>5. /\ b \in Seq(Octets) /\ Len(b) = d.n * sizeof(DBR_TYPES(native_type(t)))
      /\ extract_data(b, t, d.n) = d
  BY <1>2, ValueKept
<1>6. PICK size : size = Len(a) + Len(b)
  OBVIOUS
<1>7. PICK k : k = padded_len(size) - size
  OBVIOUS
<1>8. size \in Nat /\ k \in Nat /\ (size + k) % 8 = 0
  <2>1. size \in Nat
    BY <1>3, <1>5, <1>6
  <2>2. padded_len(size) \in Nat /\ padded_len(size) % 8 = 0 /\ k \in Nat
    BY <1>7, <2>1, PaddedLength
  <2>3. size + k = padded_len(size)
    BY <1>7, <2>1, <2>2
  <2>. QED  BY <2>1, <2>2, <2>3
<1>9. PICK z : z = Zeros(k)
  OBVIOUS
<1>10. z \in Seq(Octets) /\ Len(z) = k
  BY <1>8, <1>9, ZerosAre
<1>11. p = Chain(a, b, z)
  <2>1. data_payload(d, md, t) = <<a, b, z>>
    BY <1>1, <1>2, <1>6, <1>7, <1>9 DEF data_payload
  <2>2. FlattenSeq(<<a, b, z>>) = Chain(a, b, z)
    BY FlattenedThree
  <2>. QED  BY <2>1, <2>2
<1>12. a \in Seq(Octets) /\ b \in Seq(Octets) /\ z \in Seq(Octets)
  BY <1>3, <1>5, <1>10
<1>13. p \in Seq(Octets) /\ Len(p) = Len(a) + Len(b) + Len(z)
  BY <1>11, <1>12, CutParts
<1>14. Slice(p, 1, Len(a)) = a /\ Slice(p, Len(a) + 1, Len(a) + Len(b)) = b
  <2>1. Slice(p, 1, Len(a)) = a
    BY <1>11, <1>12, CutParts
  <2>2. Slice(p, Len(a) + 1, Len(a) + Len(b)) = b
    BY <1>11, <1>12, CutParts
  <2>. QED  BY <2>1, <2>2
<1>15. Len(p) = size + k
  BY <1>6, <1>10, <1>13
<1>16. from_buffer(t, d.n, p) = <<Slice(p, 1, Len(a)), Slice(p, Len(a) + 1, Len(a) + Len(b))>>
  BY <1>4, <1>5 DEF from_buffer
<1>. QED  BY <1>3, <1>5, <1>8, <1>13, <1>14, <1>15, <1>16

(***************************************************************************)
(* Commands with data.                                                     *)
(***************************************************************************)
\* A WriteRequest shows data and metadata, its sid and ioid.
LEMMA WriteRequestRead ==
  ASSUME NEW x, NEW c, NEW m, c = x.command, m = x.means, Carries(m),
         m \in [data_type : OrdinaryTypes, data_count : U32, data : Values,
                metadata : Metadata \cup {NoMetadata}, sid : U32, ioid : U32],
         c = WriteRequest(m.data, m.data_type, m.data_count, m.sid, m.ioid, m.metadata)
  PROVE  Readable(CLIENT, x)
<1>1. PICK p : p = FlattenSeq(data_payload(m.data, m.metadata, m.data_type))
  OBVIOUS
<1>2. m.data_count = m.data.n /\ (m.metadata = NoMetadata <=> m.data_type \in native_types)
  BY DEF Carries
<1>3. /\ m.data_type \in OrdinaryTypes /\ m.data \in Values
      /\ m.metadata \in Metadata \cup {NoMetadata}
  OBVIOUS
<1>4. p \in Seq(Octets) /\ Len(p) % 8 = 0
  BY <1>1, <1>2, <1>3, DataKept
<1>5. PICK a, b : /\ from_buffer(m.data_type, m.data.n, p) = <<a, b>>
                  /\ extract_metadata(a, m.data_type) = m.metadata
                  /\ extract_data(b, m.data_type, m.data.n) = m.data
  BY <1>1, <1>2, <1>3, DataKept
<1>6. PICK n : n = Len(p)
  OBVIOUS
<1>7. n \in U32 /\ n % 8 = 0
  BY <1>1, <1>4, <1>6 DEF Carries, DataSize
<1>8. PICK h : h = Header({n, m.data_count}, 4, n, m.data_type, m.data_count, m.sid, m.ioid)
  OBVIOUS
<1>9. c = Message("WriteRequest", h, data_payload(m.data, m.metadata, m.data_type))
  BY <1>1, <1>6, <1>8 DEF WriteRequest, WriteRequestHeader, DataSize
<1>10. 4 \in U16 /\ m.data_type \in U16
  <2>1. m.data_type \in ChannelType
    BY <1>3 DEF OrdinaryTypes
  <2>2. m.data_type \in U16
    BY <2>1, Smalls
  <2>3. 4 \in U16
    BY Smalls
  <2>. QED  BY <2>2, <2>3
<1>11. m.data_count \in U32 /\ m.sid \in U32 /\ m.ioid \in U32
  OBVIOUS
<1>12. {n, m.data_count} \in SUBSET Nat
  BY <1>7, <1>11, FieldsAreNumbers
<1>13. HeaderOf(h, 4, n, m.data_type, m.data_count, m.sid, m.ioid)
  BY <1>7, <1>8, <1>10, <1>11, <1>12, HeaderKept
<1>14. "WriteRequest" \in DOMAIN Ids(CLIENT) /\ Ids(CLIENT)["WriteRequest"] = 4
  BY DEF Ids, RequestId, CLIENT, SERVER
<1>15. PICK r : r = Message("WriteRequest", h, <<a, b>>)
  OBVIOUS
<1>16. from_wire("WriteRequest", h, p) = r
  <2>1. h.data_type = m.data_type /\ h.data_count = m.data.n
    BY <1>2, <1>13 DEF HeaderOf
  <2>2. from_wire("WriteRequest", h, p)
          = Message("WriteRequest", h, from_buffer(h.data_type, h.data_count, p))
    BY DEF from_wire, HAS_PAYLOAD
  <2>. QED  BY <1>5, <1>15, <2>1, <2>2
<1>17. Fields(r) = [data_type |-> h.data_type, data_count |-> h.data_count,
                    data |-> extract_data(b, h.data_type, h.data_count),
                    metadata |-> extract_metadata(a, h.data_type),
                    sid |-> h.parameter1, ioid |-> h.parameter2]
  <2>1. /\ r.cls = "WriteRequest" /\ r.header = h /\ r.buffers = <<a, b>>
        /\ r.buffers[1] = a /\ r.buffers[2] = b /\ r.buffers # <<>>
    BY <1>15 DEF Message
  <2>. QED  BY <2>1 DEF Fields, Data, MetadataIn
<1>18. Fields(r) = m
  BY <1>2, <1>5, <1>13, <1>17 DEF HeaderOf
<1>19. "WriteRequest" \in HAS_PAYLOAD /\ CLIENT \in {CLIENT, SERVER}
  BY DEF HAS_PAYLOAD
<1>20. HeaderOf(h, Ids(CLIENT)["WriteRequest"], Len(p), m.data_type, m.data_count, m.sid, m.ioid)
  BY <1>6, <1>13, <1>14
<1>21. /\ x.command = Message("WriteRequest", h, data_payload(m.data, m.metadata, m.data_type))
       /\ Fields(r) = x.means
  BY <1>9, <1>18
<1>. QED  BY <1>1, <1>4, <1>14, <1>16, <1>19, <1>20, <1>21, Loaded

\* A WriteNotifyRequest shows data and metadata, its sid and ioid.
LEMMA WriteNotifyRequestRead ==
  ASSUME NEW x, NEW c, NEW m, c = x.command, m = x.means, Carries(m),
         m \in [data_type : OrdinaryTypes, data_count : U32, data : Values,
                metadata : Metadata \cup {NoMetadata}, sid : U32, ioid : U32],
         c = WriteNotifyRequest(m.data, m.data_type, m.data_count, m.sid, m.ioid, m.metadata)
  PROVE  Readable(CLIENT, x)
<1>1. PICK p : p = FlattenSeq(data_payload(m.data, m.metadata, m.data_type))
  OBVIOUS
<1>2. m.data_count = m.data.n /\ (m.metadata = NoMetadata <=> m.data_type \in native_types)
  BY DEF Carries
<1>3. /\ m.data_type \in OrdinaryTypes /\ m.data \in Values
      /\ m.metadata \in Metadata \cup {NoMetadata}
  OBVIOUS
<1>4. p \in Seq(Octets) /\ Len(p) % 8 = 0
  BY <1>1, <1>2, <1>3, DataKept
<1>5. PICK a, b : /\ from_buffer(m.data_type, m.data.n, p) = <<a, b>>
                  /\ extract_metadata(a, m.data_type) = m.metadata
                  /\ extract_data(b, m.data_type, m.data.n) = m.data
  BY <1>1, <1>2, <1>3, DataKept
<1>6. PICK n : n = Len(p)
  OBVIOUS
<1>7. n \in U32 /\ n % 8 = 0
  BY <1>1, <1>4, <1>6 DEF Carries, DataSize
<1>8. PICK h : h = Header({n, m.data_count}, 19, n, m.data_type, m.data_count, m.sid, m.ioid)
  OBVIOUS
<1>9. c = Message("WriteNotifyRequest", h, data_payload(m.data, m.metadata, m.data_type))
  BY <1>1, <1>6, <1>8 DEF WriteNotifyRequest, WriteNotifyRequestHeader, DataSize
<1>10. 19 \in U16 /\ m.data_type \in U16
  <2>1. m.data_type \in ChannelType
    BY <1>3 DEF OrdinaryTypes
  <2>2. m.data_type \in U16
    BY <2>1, Smalls
  <2>3. 19 \in U16
    BY Smalls
  <2>. QED  BY <2>2, <2>3
<1>11. m.data_count \in U32 /\ m.sid \in U32 /\ m.ioid \in U32
  OBVIOUS
<1>12. {n, m.data_count} \in SUBSET Nat
  BY <1>7, <1>11, FieldsAreNumbers
<1>13. HeaderOf(h, 19, n, m.data_type, m.data_count, m.sid, m.ioid)
  BY <1>7, <1>8, <1>10, <1>11, <1>12, HeaderKept
<1>14. "WriteNotifyRequest" \in DOMAIN Ids(CLIENT) /\ Ids(CLIENT)["WriteNotifyRequest"] = 19
  BY DEF Ids, RequestId, CLIENT, SERVER
<1>15. PICK r : r = Message("WriteNotifyRequest", h, <<a, b>>)
  OBVIOUS
<1>16. from_wire("WriteNotifyRequest", h, p) = r
  <2>1. h.data_type = m.data_type /\ h.data_count = m.data.n
    BY <1>2, <1>13 DEF HeaderOf
  <2>2. from_wire("WriteNotifyRequest", h, p)
          = Message("WriteNotifyRequest", h, from_buffer(h.data_type, h.data_count, p))
    BY DEF from_wire, HAS_PAYLOAD
  <2>. QED  BY <1>5, <1>15, <2>1, <2>2
<1>17. Fields(r) = [data_type |-> h.data_type, data_count |-> h.data_count,
                    data |-> extract_data(b, h.data_type, h.data_count),
                    metadata |-> extract_metadata(a, h.data_type),
                    sid |-> h.parameter1, ioid |-> h.parameter2]
  <2>1. /\ r.cls = "WriteNotifyRequest" /\ r.header = h /\ r.buffers = <<a, b>>
        /\ r.buffers[1] = a /\ r.buffers[2] = b /\ r.buffers # <<>>
    BY <1>15 DEF Message
  <2>. QED  BY <2>1 DEF Fields, Data, MetadataIn
<1>18. Fields(r) = m
  BY <1>2, <1>5, <1>13, <1>17 DEF HeaderOf
<1>19. "WriteNotifyRequest" \in HAS_PAYLOAD /\ CLIENT \in {CLIENT, SERVER}
  BY DEF HAS_PAYLOAD
<1>20. HeaderOf(h, Ids(CLIENT)["WriteNotifyRequest"], Len(p), m.data_type, m.data_count, m.sid, m.ioid)
  BY <1>6, <1>13, <1>14
<1>21. /\ x.command = Message("WriteNotifyRequest", h, data_payload(m.data, m.metadata, m.data_type))
       /\ Fields(r) = x.means
  BY <1>9, <1>18
<1>. QED  BY <1>1, <1>4, <1>14, <1>16, <1>19, <1>20, <1>21, Loaded

\* A ReadResponse shows data and metadata, its sid and ioid.
LEMMA ReadResponseRead ==
  ASSUME NEW x, NEW c, NEW m, c = x.command, m = x.means, Carries(m),
         m \in [data_type : OrdinaryTypes, data_count : U32, data : Values,
                metadata : Metadata \cup {NoMetadata}, sid : U32, ioid : U32],
         c = ReadResponse(m.data, m.data_type, m.data_count, m.sid, m.ioid, m.metadata)
  PROVE  Readable(SERVER, x)
<1>1. PICK p : p = FlattenSeq(data_payload(m.data, m.metadata, m.data_type))
  OBVIOUS
<1>2. m.data_count = m.data.n /\ (m.metadata = NoMetadata <=> m.data_type \in native_types)
  BY DEF Carries
<1>3. /\ m.data_type \in OrdinaryTypes /\ m.data \in Values
      /\ m.metadata \in Metadata \cup {NoMetadata}
  OBVIOUS
<1>4. p \in Seq(Octets) /\ Len(p) % 8 = 0
  BY <1>1, <1>2, <1>3, DataKept
<1>5. PICK a, b : /\ from_buffer(m.data_type, m.data.n, p) = <<a, b>>
                  /\ extract_metadata(a, m.data_type) = m.metadata
                  /\ extract_data(b, m.data_type, m.data.n) = m.data
  BY <1>1, <1>2, <1>3, DataKept
<1>6. PICK n : n = Len(p)
  OBVIOUS
<1>7. n \in U32 /\ n % 8 = 0
  BY <1>1, <1>4, <1>6 DEF Carries, DataSize
<1>8. PICK h : h = Header({n, m.data_count}, 3, n, m.data_type, m.data_count, m.sid, m.ioid)
  OBVIOUS
<1>9. c = Message("ReadResponse", h, data_payload(m.data, m.metadata, m.data_type))
  BY <1>1, <1>6, <1>8 DEF ReadResponse, ReadResponseHeader, DataSize
<1>10. 3 \in U16 /\ m.data_type \in U16
  <2>1. m.data_type \in ChannelType
    BY <1>3 DEF OrdinaryTypes
  <2>2. m.data_type \in U16
    BY <2>1, Smalls
  <2>3. 3 \in U16
    BY Smalls
  <2>. QED  BY <2>2, <2>3
<1>11. m.data_count \in U32 /\ m.sid \in U32 /\ m.ioid \in U32
  OBVIOUS
<1>12. {n, m.data_count} \in SUBSET Nat
  BY <1>7, <1>11, FieldsAreNumbers
<1>13. HeaderOf(h, 3, n, m.data_type, m.data_count, m.sid, m.ioid)
  BY <1>7, <1>8, <1>10, <1>11, <1>12, HeaderKept
<1>14. "ReadResponse" \in DOMAIN Ids(SERVER) /\ Ids(SERVER)["ReadResponse"] = 3
  BY DEF Ids, ResponseId, CLIENT, SERVER
<1>15. PICK r : r = Message("ReadResponse", h, <<a, b>>)
  OBVIOUS
<1>16. from_wire("ReadResponse", h, p) = r
  <2>1. h.data_type = m.data_type /\ h.data_count = m.data.n
    BY <1>2, <1>13 DEF HeaderOf
  <2>2. from_wire("ReadResponse", h, p)
          = Message("ReadResponse", h, from_buffer(h.data_type, h.data_count, p))
    BY DEF from_wire, HAS_PAYLOAD
  <2>. QED  BY <1>5, <1>15, <2>1, <2>2
<1>17. Fields(r) = [data_type |-> h.data_type, data_count |-> h.data_count,
                    data |-> extract_data(b, h.data_type, h.data_count),
                    metadata |-> extract_metadata(a, h.data_type),
                    sid |-> h.parameter1, ioid |-> h.parameter2]
  <2>1. /\ r.cls = "ReadResponse" /\ r.header = h /\ r.buffers = <<a, b>>
        /\ r.buffers[1] = a /\ r.buffers[2] = b /\ r.buffers # <<>>
    BY <1>15 DEF Message
  <2>. QED  BY <2>1 DEF Fields, Data, MetadataIn
<1>18. Fields(r) = m
  BY <1>2, <1>5, <1>13, <1>17 DEF HeaderOf
<1>19. "ReadResponse" \in HAS_PAYLOAD /\ SERVER \in {CLIENT, SERVER}
  BY DEF HAS_PAYLOAD
<1>20. HeaderOf(h, Ids(SERVER)["ReadResponse"], Len(p), m.data_type, m.data_count, m.sid, m.ioid)
  BY <1>6, <1>13, <1>14
<1>21. /\ x.command = Message("ReadResponse", h, data_payload(m.data, m.metadata, m.data_type))
       /\ Fields(r) = x.means
  BY <1>9, <1>18
<1>. QED  BY <1>1, <1>4, <1>14, <1>16, <1>19, <1>20, <1>21, Loaded

\* A ReadNotifyResponse shows data and metadata, its status and ioid.
LEMMA ReadNotifyResponseRead ==
  ASSUME NEW x, NEW c, NEW m, c = x.command, m = x.means, Carries(m),
         m \in [data_type : OrdinaryTypes, data_count : U32, data : Values,
                metadata : Metadata \cup {NoMetadata}, status : Statuses, ioid : U32],
         c = ReadNotifyResponse(m.data, m.data_type, m.data_count, m.status, m.ioid, m.metadata)
  PROVE  Readable(SERVER, x)
<1>1. PICK p : p = FlattenSeq(data_payload(m.data, m.metadata, m.data_type))
  OBVIOUS
<1>2. m.data_count = m.data.n /\ (m.metadata = NoMetadata <=> m.data_type \in native_types)
  BY DEF Carries
<1>3. /\ m.data_type \in OrdinaryTypes /\ m.data \in Values
      /\ m.metadata \in Metadata \cup {NoMetadata}
  OBVIOUS
<1>4. p \in Seq(Octets) /\ Len(p) % 8 = 0
  BY <1>1, <1>2, <1>3, DataKept
<1>5. PICK a, b : /\ from_buffer(m.data_type, m.data.n, p) = <<a, b>>
                  /\ extract_metadata(a, m.data_type) = m.metadata
                  /\ extract_data(b, m.data_type, m.data.n) = m.data
  BY <1>1, <1>2, <1>3, DataKept
<1>6. PICK n : n = Len(p)
  OBVIOUS
<1>7. n \in U32 /\ n % 8 = 0
  BY <1>1, <1>4, <1>6 DEF Carries, DataSize
<1>8. PICK h : h = Header({n, m.data_count}, 15, n, m.data_type, m.data_count, ensure_eca_value(m.status), m.ioid)
  OBVIOUS
<1>9. c = Message("ReadNotifyResponse", h, data_payload(m.data, m.metadata, m.data_type))
  BY <1>1, <1>6, <1>8 DEF ReadNotifyResponse, ReadNotifyResponseHeader, DataSize
<1>10. 15 \in U16 /\ m.data_type \in U16
  <2>1. m.data_type \in ChannelType
    BY <1>3 DEF OrdinaryTypes
  <2>2. m.data_type \in U16
    BY <2>1, Smalls
  <2>3. 15 \in U16
    BY Smalls
  <2>. QED  BY <2>2, <2>3
<1>11. m.data_count \in U32 /\ ensure_eca_value(m.status) \in U32 /\ m.ioid \in U32
  BY StatusKept
<1>12. {n, m.data_count} \in SUBSET Nat
  BY <1>7, <1>11, FieldsAreNumbers
<1>13. HeaderOf(h, 15, n, m.data_type, m.data_count, ensure_eca_value(m.status), m.ioid)
  BY <1>7, <1>8, <1>10, <1>11, <1>12, HeaderKept
<1>14. "ReadNotifyResponse" \in DOMAIN Ids(SERVER) /\ Ids(SERVER)["ReadNotifyResponse"] = 15
  BY DEF Ids, ResponseId, CLIENT, SERVER
<1>15. PICK r : r = Message("ReadNotifyResponse", h, <<a, b>>)
  OBVIOUS
<1>16. from_wire("ReadNotifyResponse", h, p) = r
  <2>1. h.data_type = m.data_type /\ h.data_count = m.data.n
    BY <1>2, <1>13 DEF HeaderOf
  <2>2. from_wire("ReadNotifyResponse", h, p)
          = Message("ReadNotifyResponse", h, from_buffer(h.data_type, h.data_count, p))
    BY DEF from_wire, HAS_PAYLOAD
  <2>. QED  BY <1>5, <1>15, <2>1, <2>2
<1>17. Fields(r) = [data_type |-> h.data_type, data_count |-> h.data_count,
                    data |-> extract_data(b, h.data_type, h.data_count),
                    metadata |-> extract_metadata(a, h.data_type),
                    status |-> eca_value_to_status(h.parameter1), ioid |-> h.parameter2]
  <2>1. /\ r.cls = "ReadNotifyResponse" /\ r.header = h /\ r.buffers = <<a, b>>
        /\ r.buffers[1] = a /\ r.buffers[2] = b /\ r.buffers # <<>>
    BY <1>15 DEF Message
  <2>. QED  BY <2>1 DEF Fields, Data, MetadataIn
<1>18. Fields(r) = m
  BY <1>2, <1>5, <1>13, <1>17, StatusKept DEF HeaderOf
<1>19. "ReadNotifyResponse" \in HAS_PAYLOAD /\ SERVER \in {CLIENT, SERVER}
  BY DEF HAS_PAYLOAD
<1>20. HeaderOf(h, Ids(SERVER)["ReadNotifyResponse"], Len(p), m.data_type, m.data_count, ensure_eca_value(m.status), m.ioid)
  BY <1>6, <1>13, <1>14
<1>21. /\ x.command = Message("ReadNotifyResponse", h, data_payload(m.data, m.metadata, m.data_type))
       /\ Fields(r) = x.means
  BY <1>9, <1>18
<1>. QED  BY <1>1, <1>4, <1>14, <1>16, <1>19, <1>20, <1>21, Loaded

\* An EventAddResponse shows data and metadata, its status and subscription.
LEMMA EventAddResponseRead ==
  ASSUME NEW x, NEW c, NEW m, c = x.command, m = x.means, Carries(m), Payload(c) # <<>>,
         m \in [data_type : OrdinaryTypes, data_count : U32, data : Values,
                metadata : Metadata \cup {NoMetadata}, status : Statuses, subscriptionid : U32],
         c = EventAddResponse(m.data, m.data_type, m.data_count, m.status, m.subscriptionid,
                              m.metadata)
  PROVE  Readable(SERVER, x)
<1>1. PICK p : p = FlattenSeq(data_payload(m.data, m.metadata, m.data_type))
  OBVIOUS
<1>2. m.data_count = m.data.n /\ (m.metadata = NoMetadata <=> m.data_type \in native_types)
  BY DEF Carries
<1>3. /\ m.data_type \in OrdinaryTypes /\ m.data \in Values
      /\ m.metadata \in Metadata \cup {NoMetadata}
  OBVIOUS
<1>4. p \in Seq(Octets) /\ Len(p) % 8 = 0
  BY <1>1, <1>2, <1>3, DataKept
<1>5. PICK a, b : /\ from_buffer(m.data_type, m.data.n, p) = <<a, b>>
                  /\ extract_metadata(a, m.data_type) = m.metadata
                  /\ extract_data(b, m.data_type, m.data.n) = m.data
  BY <1>1, <1>2, <1>3, DataKept
<1>6. PICK n : n = Len(p)
  OBVIOUS
<1>7. n \in U32 /\ n % 8 = 0
  BY <1>1, <1>4, <1>6 DEF Carries, DataSize
<1>8. PICK h : h = Header({n, m.data_count}, 1, n, m.data_type, m.data_count, ensure_eca_value(m.status), m.subscriptionid)
  OBVIOUS
<1>9. c = Message("EventAddResponse", h, data_payload(m.data, m.metadata, m.data_type))
  BY <1>1, <1>6, <1>8 DEF EventAddResponse, EventAddResponseHeader, DataSize
<1>10. 1 \in U16 /\ m.data_type \in U16
  <2>1. m.data_type \in ChannelType
    BY <1>3 DEF OrdinaryTypes
  <2>2. m.data_type \in U16
    BY <2>1, Smalls
  <2>3. 1 \in U16
    BY Smalls
  <2>. QED  BY <2>2, <2>3
<1>11. m.data_count \in U32 /\ ensure_eca_value(m.status) \in U32 /\ m.subscriptionid \in U32
  BY StatusKept
<1>12. {n, m.data_count} \in SUBSET Nat
  BY <1>7, <1>11, FieldsAreNumbers
<1>13. HeaderOf(h, 1, n, m.data_type, m.data_count, ensure_eca_value(m.status), m.subscriptionid)
  BY <1>7, <1>8, <1>10, <1>11, <1>12, HeaderKept
<1>14. "EventAddResponse" \in DOMAIN Ids(SERVER) /\ Ids(SERVER)["EventAddResponse"] = 1
  BY DEF Ids, ResponseId, CLIENT, SERVER
<1>15. PICK r : r = Message("EventAddResponse", h, <<a, b>>)
  OBVIOUS
<1>16. from_wire("EventAddResponse", h, p) = r
  <2>1. h.data_type = m.data_type /\ h.data_count = m.data.n
    BY <1>2, <1>13 DEF HeaderOf
  <2>2. from_wire("EventAddResponse", h, p)
          = Message("EventAddResponse", h, from_buffer(h.data_type, h.data_count, p))
    <3>1. p # <<>>
      BY <1>1, <1>9 DEF Payload, Message
    <3>. QED  BY <3>1 DEF from_wire, HAS_PAYLOAD
  <2>. QED  BY <1>5, <1>15, <2>1, <2>2
<1>17. Fields(r) = [data_type |-> h.data_type, data_count |-> h.data_count,
                    data |-> extract_data(b, h.data_type, h.data_count),
                    metadata |-> extract_metadata(a, h.data_type),
                    status |-> eca_value_to_status(h.parameter1), subscriptionid |-> h.parameter2]
  <2>1. /\ r.cls = "EventAddResponse" /\ r.header = h /\ r.buffers = <<a, b>>
        /\ r.buffers[1] = a /\ r.buffers[2] = b /\ r.buffers # <<>>
    BY <1>15 DEF Message
  <2>. QED  BY <2>1 DEF Fields, Data, MetadataIn
<1>18. Fields(r) = m
  BY <1>2, <1>5, <1>13, <1>17, StatusKept DEF HeaderOf
<1>19. "EventAddResponse" \in HAS_PAYLOAD /\ SERVER \in {CLIENT, SERVER}
  BY DEF HAS_PAYLOAD
<1>20. HeaderOf(h, Ids(SERVER)["EventAddResponse"], Len(p), m.data_type, m.data_count, ensure_eca_value(m.status), m.subscriptionid)
  BY <1>6, <1>13, <1>14
<1>21. /\ x.command = Message("EventAddResponse", h, data_payload(m.data, m.metadata, m.data_type))
       /\ Fields(r) = x.means
  BY <1>9, <1>18
<1>. QED  BY <1>1, <1>4, <1>14, <1>16, <1>19, <1>20, <1>21, Loaded

\* An EventAddResponse without a payload shows no data: it is what ends a subscription.
LEMMA EventAddResponseEndRead ==
  ASSUME NEW x, NEW c, NEW m, c = x.command, m = x.means, Payload(c) = <<>>,
         m \in [data_type : native_types, data_count : {0}, subscriptionid : U32],
         NEW status \in Statuses,
         c = EventAddResponse(NoData, m.data_type, 0, status, m.subscriptionid, NoMetadata)
  PROVE  Readable(SERVER, x)
<1>1. PICK buffers : buffers = data_payload(NoData, NoMetadata, m.data_type)
  OBVIOUS
<1>2. FlattenSeq(buffers) = <<>>
  <2>1. c.buffers = buffers
    BY <1>1 DEF EventAddResponse, Message
  <2>. QED  BY <2>1 DEF Payload
<1>3. PICK h : h = Header({0}, 1, 0, m.data_type, 0, ensure_eca_value(status), m.subscriptionid)
  OBVIOUS
<1>4. c = Message("EventAddResponse", h, buffers)
  <2>1. DataSize(NoData, NoMetadata, m.data_type) = 0
    BY <1>1, <1>2 DEF DataSize
  <2>2. {0, 0} = {0}
    OBVIOUS
  <2>. QED  BY <1>1, <1>3, <2>1, <2>2 DEF EventAddResponse, EventAddResponseHeader
<1>5. 1 \in U16 /\ 0 \in U16 /\ 0 \in U32 /\ {0} \in SUBSET Nat
  BY Smalls
<1>6. m.data_type \in U16 /\ m.subscriptionid \in U32 /\ ensure_eca_value(status) \in U32
  <2>1. m.data_type \in 0 .. 63
    BY DEF native_types
  <2>2. m.data_type \in U16
    BY <2>1, Smalls
  <2>. QED  BY <2>2, StatusKept
<1>7. HeaderOf(h, 1, 0, m.data_type, 0, ensure_eca_value(status), m.subscriptionid)
  BY <1>3, <1>5, <1>6, HeaderKept
<1>8. "EventAddResponse" \in DOMAIN Ids(SERVER) /\ Ids(SERVER)["EventAddResponse"] = 1
  BY DEF Ids, ResponseId, CLIENT, SERVER
<1>9. PICK r : r = Message("EventAddResponse", h, <<>>)
  OBVIOUS
<1>10. from_wire("EventAddResponse", h, <<>>) = r
  BY <1>9 DEF from_wire
<1>11. Fields(r) = [data_type |-> h.data_type, data_count |-> h.data_count,
                    subscriptionid |-> h.parameter2]
  <2>1. r.cls = "EventAddResponse" /\ r.header = h /\ r.buffers = <<>>
    BY <1>9 DEF Message
  <2>. QED  BY <2>1 DEF Fields
<1>12. Fields(r) = m
  BY <1>7, <1>11 DEF HeaderOf
<1>13. "EventAddResponse" \in HAS_PAYLOAD /\ SERVER \in {CLIENT, SERVER}
  BY DEF HAS_PAYLOAD
<1>14. HeaderOf(h, Ids(SERVER)["EventAddResponse"], Len(<<>>), m.data_type, 0,
                ensure_eca_value(status), m.subscriptionid)
  BY <1>7, <1>8
<1>15. x.command = Message("EventAddResponse", h, buffers) /\ Fields(r) = x.means
  BY <1>4, <1>12
<1>16. <<>> \in Seq(Octets) /\ Len(<<>>) % 8 = 0
  OBVIOUS
<1>. QED  BY <1>2, <1>8, <1>10, <1>13, <1>14, <1>15, <1>16, Loaded

\* An EventCancelResponse is read as an EventAddResponse without a payload.
LEMMA EventCancelResponseRead ==
  ASSUME NEW x, NEW c, NEW m, c = x.command, m = x.means,
         m \in [data_type : ChannelType, data_count : U32, subscriptionid : U32],
         NEW sid \in U32, c = EventCancelResponse(m.data_type, sid, m.subscriptionid, m.data_count)
  PROVE  Readable(SERVER, x)
<1>1. PICK h : h = Header({m.data_count}, 1, 0, m.data_type, m.data_count, sid, m.subscriptionid)
  OBVIOUS
<1>2. c = Message("EventCancelResponse", h, <<>>)
  BY <1>1 DEF EventCancelResponse, EventCancelResponseHeader
<1>3. c.cls = "EventCancelResponse" /\ c.header = h /\ c.buffers = <<>>
  BY <1>2 DEF Message
<1>4. 1 \in U16 /\ 0 \in U16 /\ 0 \in U32 /\ m.data_type \in U16
  BY Smalls
<1>5. m.data_count \in U32 /\ m.subscriptionid \in U32 /\ {m.data_count} \in SUBSET Nat
  BY FieldsAreNumbers
<1>6. HeaderOf(h, 1, 0, m.data_type, m.data_count, sid, m.subscriptionid)
  BY <1>1, <1>4, <1>5, HeaderKept
<1>7. ReadAs(x) = "EventAddResponse"
  BY <1>3 DEF ReadAs
<1>8. Payload(c) = <<>>
  BY <1>3, FlattenedFew DEF Payload
<1>9. CommandClasses(SERVER, 1) = {"EventAddResponse"}
  <2>1. "EventAddResponse" \in DOMAIN Ids(SERVER) /\ Ids(SERVER)["EventAddResponse"] = 1
    BY DEF Ids, ResponseId, CLIENT, SERVER
  <2>2. CommandClasses(SERVER, Ids(SERVER)["EventAddResponse"]) = {"EventAddResponse"}
    BY <2>1, OneClass
  <2>. QED  BY <2>1, <2>2
<1>10. Sound(SERVER, x)
  <2>1. h \in ShortHeaders \cup LongHeaders /\ (~h.extended => ~Marked(h))
    BY <1>6 DEF HeaderOf
  <2>2. h.payload_size = 0 /\ h.command = 1
    BY <1>6 DEF HeaderOf
  <2>3. <<>> \in Seq(Octets) /\ Len(<<>>) = 0
    OBVIOUS
  <2>. QED  BY <1>3, <1>7, <1>8, <1>9, <2>1, <2>2, <2>3 DEF Sound
<1>11. PICK r : r = Message("EventAddResponse", h, <<>>)
  OBVIOUS
<1>12. ReadOf(x) = r
  <2>1. from_wire("EventAddResponse", h, <<>>) = r
    BY <1>11 DEF from_wire
  <2>. QED  BY <1>3, <1>7, <1>8, <2>1 DEF ReadOf
<1>13. r.cls = "EventAddResponse" /\ r.header = h /\ r.buffers = <<>>
  BY <1>11 DEF Message
<1>14. Fields(r) = [data_type |-> h.data_type, data_count |-> h.data_count,
                    subscriptionid |-> h.parameter2]
  BY <1>13 DEF Fields
<1>15. Fields(r) = m
  BY <1>6, <1>14 DEF HeaderOf
<1>16. Agreed(SERVER, x)
  BY <1>7, <1>10, <1>12, <1>13, <1>15 DEF Agreed, SameCommand
<1>17. h.payload_size = 0
  BY <1>6 DEF HeaderOf
<1>18. ~h.extended => Packed(SERVER, x)
  BY <1>3, <1>10, <1>17 DEF Packed
<1>. QED  BY <1>3, <1>16, <1>18 DEF Readable

(***************************************************************************)
(* Every command that can be composed is understood.                       *)
(***************************************************************************)
\* What a client composes, the server reads.
LEMMA RequestsRead ==
  ASSUME NEW x, Requested(x.command, x.means)
  PROVE  Readable(CLIENT, x)
<1>1. PICK c : c = x.command
  OBVIOUS
<1>2. PICK m : m = x.means
  OBVIOUS
<1>3. Requested(c, m)
  BY <1>1, <1>2
<1>4. CASE Broadcasted(c, m)
  <2>1. /\ m \in [version : U16, server_port : U16, beacon_id : U32, address : Addresses]
        /\ c = Beacon(m.version, m.server_port, m.beacon_id, m.address)
    BY <1>4 DEF Broadcasted
  <2>. QED  BY <1>1, <1>2, <2>1, BeaconRead
<1>5. CASE /\ c.cls = "VersionRequest"
           /\ m \in [priority : U16, version : U16]
           /\ c = VersionRequest(m.priority, m.version)
  BY <1>1, <1>2, <1>5, VersionRequestRead
<1>6. CASE /\ c.cls = "SearchRequest"
           /\ \E s \in Texts :
                /\ Fits(s)
                /\ m \in [reply : U16, version : U16, cid : U32, name : {s.text}]
                /\ c = SearchRequest(s, m.cid, m.version, m.reply)
  <2>1. PICK s \in Texts : /\ Fits(s)
                           /\ m \in [reply : U16, version : U16, cid : U32, name : {s.text}]
                           /\ c = SearchRequest(s, m.cid, m.version, m.reply)
    BY <1>6
  <2>. QED  BY <1>1, <1>2, <1>6, <2>1, SearchRequestRead
<1>7. CASE /\ c.cls = "RepeaterRegisterRequest"
           /\ m \in [address : Addresses]
           /\ c = RepeaterRegisterRequest(m.address)
  BY <1>1, <1>2, <1>7, RepeaterRegisterRequestRead
<1>8. CASE /\ c.cls = "HostNameRequest"
           /\ \E s \in Texts : Fits(s) /\ m = [name |-> s.text] /\ c = HostNameRequest(s)
  <2>1. PICK s \in Texts : Fits(s) /\ m = [name |-> s.text] /\ c = HostNameRequest(s)
    BY <1>8
  <2>. QED  BY <1>1, <1>2, <1>8, <2>1, HostNameRequestRead
<1>9. CASE /\ c.cls = "ClientNameRequest"
           /\ \E s \in Texts : Fits(s) /\ m = [name |-> s.text] /\ c = ClientNameRequest(s)
  <2>1. PICK s \in Texts : Fits(s) /\ m = [name |-> s.text] /\ c = ClientNameRequest(s)
    BY <1>9
  <2>. QED  BY <1>1, <1>2, <1>9, <2>1, ClientNameRequestRead
<1>10. CASE /\ c.cls = "CreateChanRequest"
            /\ \E s \in Texts :
                 /\ Fits(s)
                 /\ m \in [cid : U32, version : U32, name : {s.text}]
                 /\ c = CreateChanRequest(s, m.cid, m.version)
  <2>1. PICK s \in Texts : /\ Fits(s)
                           /\ m \in [cid : U32, version : U32, name : {s.text}]
                           /\ c = CreateChanRequest(s, m.cid, m.version)
    BY <1>10
  <2>. QED  BY <1>1, <1>2, <1>10, <2>1, CreateChanRequestRead
<1>11. CASE /\ c.cls = "ClearChannelRequest"
            /\ m \in [sid : U32, cid : U32]
            /\ c = ClearChannelRequest(m.sid, m.cid)
  BY <1>1, <1>2, <1>11, ClearChannelRequestRead
<1>12. CASE /\ c.cls = "ReadRequest"
            /\ m \in [data_type : ChannelType, data_count : U32, sid : U32, ioid : U32]
            /\ c = ReadRequest(m.data_type, m.data_count, m.sid, m.ioid)
  BY <1>1, <1>2, <1>12, ReadRequestRead
<1>13. CASE /\ c.cls = "ReadNotifyRequest"
            /\ m \in [data_type : ChannelType, data_count : U32, sid : U32, ioid : U32]
            /\ c = ReadNotifyRequest(m.data_type, m.data_count, m.sid, m.ioid)
  BY <1>1, <1>2, <1>13, ReadNotifyRequestRead
<1>14. CASE /\ c.cls = "WriteRequest"
            /\ m \in [data_type : OrdinaryTypes, data_count : U32, data : Values,
                      metadata : Metadata \cup {NoMetadata}, sid : U32, ioid : U32]
            /\ Carries(m)
            /\ c = WriteRequest(m.data, m.data_type, m.data_count, m.sid, m.ioid, m.metadata)
  BY <1>1, <1>2, <1>14, WriteRequestRead
<1>15. CASE /\ c.cls = "WriteNotifyRequest"
            /\ m \in [data_type : OrdinaryTypes, data_count : U32, data : Values,
                      metadata : Metadata \cup {NoMetadata}, sid : U32, ioid : U32]
            /\ Carries(m)
            /\ c = WriteNotifyRequest(m.data, m.data_type, m.data_count, m.sid, m.ioid, m.metadata)
  BY <1>1, <1>2, <1>15, WriteNotifyRequestRead
<1>16. CASE /\ c.cls = "EventAddRequest"
            /\ m \in [data_type : ChannelType, data_count : U32, sid : U32, subscriptionid : U32,
                      event : Events]
            /\ c = EventAddRequest(m.data_type, m.data_count, m.sid, m.subscriptionid,
                                   m.event[1], m.event[2])
  BY <1>1, <1>2, <1>16, EventAddRequestRead
<1>17. CASE /\ c.cls = "EventCancelRequest"
            /\ m \in [data_type : ChannelType, sid : U32, subscriptionid : U32]
            /\ c = EventCancelRequest(m.data_type, m.sid, m.subscriptionid)
  BY <1>1, <1>2, <1>17, EventCancelRequestRead
<1>18. CASE /\ m = [none |-> 0]
            /\ c \in {EventsOffRequest, EventsOnRequest, ReadSyncRequest, EchoRequest}
  <2>1. CASE c = EventsOffRequest
    BY <1>1, <1>2, <1>18, <2>1, EventsOffRequestRead
  <2>2. CASE c = EventsOnRequest
    BY <1>1, <1>2, <1>18, <2>2, EventsOnRequestRead
  <2>3. CASE c = ReadSyncRequest
    BY <1>1, <1>2, <1>18, <2>3, ReadSyncRequestRead
  <2>4. CASE c = EchoRequest
    BY <1>1, <1>2, <1>18, <2>4, EchoRequestRead
  <2>. QED  BY <1>18, <2>1, <2>2, <2>3, <2>4
<1>. QED
  BY <1>3, <1>4, <1>5, <1>6, <1>7, <1>8, <1>9, <1>10, <1>11, <1>12, <1>13, <1>14, <1>15, <1>16,
     <1>17, <1>18 DEF Requested

\* What a server composes, the client reads.
LEMMA ResponsesRead ==
  ASSUME NEW x, Responded(x.command, x.means)
  PROVE  Readable(SERVER, x)
<1>1. PICK c : c = x.command
  OBVIOUS
<1>2. PICK m : m = x.means
  OBVIOUS
<1>3. Responded(c, m)
  BY <1>1, <1>2
<1>4. CASE Broadcasted(c, m)
  <2>1. /\ m \in [version : U16, server_port : U16, beacon_id : U32, address : Addresses]
        /\ c = Beacon(m.version, m.server_port, m.beacon_id, m.address)
    BY <1>4 DEF Broadcasted
  <2>. QED  BY <1>1, <1>2, <2>1, BeaconRead
<1>5. CASE /\ c.cls = "VersionResponse"
           /\ m \in [version : U16]
           /\ c = VersionResponse(m.version)
  BY <1>1, <1>2, <1>5, VersionResponseRead
<1>6. CASE /\ c.cls = "SearchResponse"
           /\ m \in [port : U16, ip : Addresses, cid : U32, version : U16]
           /\ c = SearchResponse(m.port, m.ip, m.cid, m.version)
  BY <1>1, <1>2, <1>6, SearchResponseRead
<1>7. CASE /\ c.cls = "NotFoundResponse"
           /\ m \in [version : U16, cid : U32]
           /\ c = NotFoundResponse(m.version, m.cid)
  BY <1>1, <1>2, <1>7, NotFoundResponseRead
<1>8. CASE /\ c.cls = "RepeaterConfirmResponse"
           /\ m \in [address : Addresses]
           /\ c = RepeaterConfirmResponse(m.address)
  BY <1>1, <1>2, <1>8, RepeaterConfirmResponseRead
<1>9. CASE /\ c.cls = "CreateChanResponse"
           /\ m \in [data_type : ChannelType, data_count : U32, cid : U32, sid : U32]
           /\ c = CreateChanResponse(m.data_type, m.data_count, m.cid, m.sid)
  BY <1>1, <1>2, <1>9, CreateChanResponseRead
<1>10. CASE /\ c.cls = "ClearChannelResponse"
            /\ m \in [sid : U32, cid : U32]
            /\ c = ClearChannelResponse(m.sid, m.cid)
  BY <1>1, <1>2, <1>10, ClearChannelResponseRead
<1>11. CASE /\ c.cls = "ReadResponse"
            /\ m \in [data_type : OrdinaryTypes, data_count : U32, data : Values,
                      metadata : Metadata \cup {NoMetadata}, sid : U32, ioid : U32]
            /\ Carries(m)
            /\ c = ReadResponse(m.data, m.data_type, m.data_count, m.sid, m.ioid, m.metadata)
  BY <1>1, <1>2, <1>11, ReadResponseRead
<1>12. CASE /\ c.cls = "ReadNotifyResponse"
            /\ m \in [data_type : OrdinaryTypes, data_count : U32, data : Values,
                      metadata : Metadata \cup {NoMetadata}, status : Statuses, ioid : U32]
            /\ Carries(m)
            /\ c = ReadNotifyResponse(m.data, m.data_type, m.data_count, m.status, m.ioid, m.metadata)
  BY <1>1, <1>2, <1>12, ReadNotifyResponseRead
<1>13. CASE /\ c.cls = "WriteNotifyResponse"
            /\ m \in [data_type : ChannelType, data_count : U32, status : Statuses, ioid : U32]
            /\ c = WriteNotifyResponse(m.data_type, m.data_count, m.status, m.ioid)
  BY <1>1, <1>2, <1>13, WriteNotifyResponseRead
<1>14. CASE /\ c.cls = "EventAddResponse" /\ Payload(c) # <<>>
            /\ m \in [data_type : OrdinaryTypes, data_count : U32, data : Values,
                      metadata : Metadata \cup {NoMetadata}, status : Statuses, subscriptionid : U32]
            /\ Carries(m)
            /\ c = EventAddResponse(m.data, m.data_type, m.data_count, m.status, m.subscriptionid,
                                    m.metadata)
  BY <1>1, <1>2, <1>14, EventAddResponseRead
<1>15. CASE /\ c.cls = "EventAddResponse" /\ Payload(c) = <<>>
            /\ m \in [data_type : native_types, data_count : {0}, subscriptionid : U32]
            /\ \E status \in Statuses :
                 c = EventAddResponse(NoData, m.data_type, 0, status, m.subscriptionid, NoMetadata)
  <2>1. PICK status \in Statuses : c = EventAddResponse(NoData, m.data_type, 0, status, m.subscriptionid, NoMetadata)
    BY <1>15
  <2>. QED  BY <1>1, <1>2, <1>15, <2>1, EventAddResponseEndRead
<1>16. CASE /\ c.cls = "EventCancelResponse"
            /\ m \in [data_type : ChannelType, data_count : U32, subscriptionid : U32]
            /\ c.header.parameter1 \in U32
            /\ c = EventCancelResponse(m.data_type, c.header.parameter1, m.subscriptionid, m.data_count)
  BY <1>1, <1>2, <1>16, EventCancelResponseRead
<1>17. CASE /\ c.cls = "ErrorResponse"
            /\ \E s \in Texts :
                 /\ Fits(s)
                 /\ m \in [cid : U32, status : Statuses, original_request : ShortHeaders,
                           error_message : {padded_string_payload(s)}]
                 /\ c = ErrorResponse([header |-> m.original_request], m.cid, m.status, s)
  <2>1. PICK s \in Texts : /\ Fits(s)
                           /\ m \in [cid : U32, status : Statuses, original_request : ShortHeaders,
                                     error_message : {padded_string_payload(s)}]
                           /\ c = ErrorResponse([header |-> m.original_request], m.cid, m.status, s)
    BY <1>17
  <2>. QED  BY <1>1, <1>2, <1>17, <2>1, ErrorResponseRead
<1>18. CASE /\ c.cls = "AccessRightsResponse"
            /\ m \in [cid : U32, access_rights : U32]
            /\ c = AccessRightsResponse(m.cid, m.access_rights)
  BY <1>1, <1>2, <1>18, AccessRightsResponseRead
<1>19. CASE /\ c.cls = "CreateChFailResponse"
            /\ m \in [cid : U32]
            /\ c = CreateChFailResponse(m.cid)
  BY <1>1, <1>2, <1>19, CreateChFailResponseRead
<1>20. CASE /\ c.cls = "ServerDisconnResponse"
            /\ m \in [cid : U32]
            /\ c = ServerDisconnResponse(m.cid)
  BY <1>1, <1>2, <1>20, ServerDisconnResponseRead
<1>21. CASE m = [none |-> 0] /\ c = EchoResponse
  BY <1>1, <1>2, <1>21, EchoResponseRead
<1>. QED
  BY <1>3, <1>4, <1>5, <1>6, <1>7, <1>8, <1>9, <1>10, <1>11, <1>12, <1>13, <1>14, <1>15, <1>16,
     <1>17, <1>18, <1>19, <1>20, <1>21 DEF Responded

\* What either of them composes, the other reads.
LEMMA ComposedRead ==
  ASSUME NEW role \in {CLIENT, SERVER}, NEW x, Composed(role, x)
  PROVE  Readable(role, x)
<1>1. CASE role = CLIENT
  BY <1>1, RequestsRead DEF Composed
<1>2. CASE role = SERVER
  <2>1. role # CLIENT
    BY <1>2 DEF CLIENT, SERVER
  <2>. QED  BY <1>2, <2>1, ResponsesRead DEF Composed
<1>. QED  BY <1>1, <1>2

\* Whatever may be sent over TCP is understood.
LEMMA StreamsAgree == Agreement
BY StreamsAssumption, ComposedRead DEF Agreement, Readable

(***************************************************************************)
(* The commands of a datagram.                                             *)
(***************************************************************************)
\* What is read from a datagram is what was packed in it.
LEMMA DatagramAgrees ==
  ASSUME NEW role \in {CLIENT, SERVER}, NEW cs \in Datagrams[role], NEW read,
         read = read_datagram(FlattenSeq([i \in DOMAIN cs |-> CommandBytes(cs[i].command)]), role)
  PROVE  /\ Len(read) = Len(cs)
         /\ \A i \in DOMAIN read : SameCommand(cs[i], read[i])
<1>1. PICK X : X = Range(cs)
  OBVIOUS
<1>2. cs \in Seq(X) /\ \A x \in X : Composed(role, x) /\ ~x.command.header.extended
  BY <1>1, DatagramsAssumption
<1>3. \A x \in X : Packed(role, x) /\ SameCommand(x, ReadOf(x))
  BY <1>2, ComposedRead DEF Readable, Agreed
<1>4. cs \in Seq(X)
  BY <1>2
<1>5. \A x \in X : Packed(role, x)
  BY <1>3
<1>6. PICK whole : whole = FlattenSeq([i \in DOMAIN cs |-> CommandBytes(cs[i].command)])
  OBVIOUS
<1>7. PICK pos : Laid(whole, cs, pos)
  BY <1>4, <1>5, <1>6, DatagramLaid
<1>8. PICK n : n = Len(cs)
  OBVIOUS
<1>9. n \in Nat /\ 0 <= n /\ n <= Len(cs) /\ 0 \in Nat
  BY <1>4, <1>8
<1>10. read = ReadFrom(cs, 0, n)
  BY <1>4, <1>5, <1>6, <1>7, <1>8, DatagramIsRead
<1>11. DOMAIN read = 1 .. n - 0
  BY <1>10 DEF ReadFrom
<1>12. Len(read) = n - 0
  BY <1>4, <1>9, <1>10, ReadFromIsSeq
<1>13. ASSUME NEW i \in 1 .. n PROVE SameCommand(cs[i], read[i])
  <2>1. i \in 1 .. n - 0
    BY <1>9
  <2>2. ReadFrom(cs, 0, n)[i] = ReadOf(cs[0 + i])
    BY <1>4, <1>9, <2>1, ReadFromIsSeq
  <2>3. 0 + i = i
    OBVIOUS
  <2>4. cs[i] \in X
    BY <1>4, <1>8
  <2>5. SameCommand(cs[i], ReadOf(cs[i]))
    BY <1>3, <2>4
  <2>. QED  BY <1>10, <2>2, <2>3, <2>5
<1>14. Len(read) = n /\ DOMAIN read = 1 .. n
  BY <1>9, <1>11, <1>12
<1>. QED  BY <1>8, <1>13, <1>14

(***************************************************************************)
(* The theorems.                                                           *)
(***************************************************************************)
\* The invariant of the stream holds.
LEMMA StreamHolds == Spec => []StreamInv
<1>1. StreamInv /\ [Next]_vars => StreamInv'
  BY StreamStep, StreamsAgree
<1>. QED  BY <1>1, StreamInit, PTL DEF Spec

\* However the bytes of a stream are cut and wherever it ends, every command is read
\* as its sender meant it (VirtualCircuit.send and recv, read_from_bytestream).
THEOREM StreamReadBack == Spec => []ReadBackAsSent
<1>1. StreamInv => ReadBackAsSent
  BY StreamIsRead, StreamsAgree
<1>. QED  BY <1>1, StreamHolds, PTL

\* recv never asks for more bytes than are due, and reads every command once all its
\* bytes are in (bytes_needed_for_command).
THEOREM StreamNeeds == Spec => []NeededIsDue
<1>1. StreamInv => NeededIsDue
  BY StreamIsRead, StreamsAgree
<1>. QED  BY <1>1, StreamHolds, PTL

\* The role does not change, and the last datagram was read as it was sent.
DatagramInv == their_role \in {CLIENT, SERVER} /\ DatagramReadBack

\* The commands of a datagram are read as their sender meant them (read_datagram).
THEOREM DatagramsReadBack == Spec => []DatagramReadBack
<1>1. Init => DatagramInv
  BY DEF Init, DatagramInv, DatagramReadBack
<1>2. ASSUME DatagramInv, [Next]_vars PROVE DatagramInv'
  <2>1. ASSUME NEW cs \in Datagrams[their_role], SendDatagram(cs) PROVE DatagramInv'
    <3>1. PICK read : read = read_datagram(
            FlattenSeq([i \in DOMAIN cs |-> CommandBytes(cs[i].command)]), their_role)
      OBVIOUS
    <3>2. Len(read) = Len(cs) /\ \A i \in DOMAIN read : SameCommand(cs[i], read[i])
      BY <1>2, <3>1, DatagramAgrees DEF DatagramInv
    <3>3. datagram' = [sent |-> cs, read |-> read] /\ their_role' = their_role
      BY <2>1, <3>1 DEF SendDatagram
    <3>4. datagram'.sent = cs /\ datagram'.read = read
      BY <3>3
    <3>. QED  BY <1>2, <3>2, <3>3, <3>4 DEF DatagramInv, DatagramReadBack
  <2>2. ASSUME UNCHANGED <<their_role, datagram>> PROVE DatagramInv'
    BY <1>2, <2>2 DEF DatagramInv, DatagramReadBack
  <2>3. ASSUME NEW x \in Streams[their_role], Send(x) PROVE DatagramInv'
    BY <2>2, <2>3 DEF Send
  <2>4. ASSUME NEW n \in Pieces \cup {Len(wire)}, Recv(n) PROVE DatagramInv'
    BY <2>2, <2>4 DEF Recv
  <2>5. CASE RecvNothing
    BY <2>2, <2>5 DEF RecvNothing
  <2>6. CASE Disconnect
    BY <2>2, <2>6 DEF Disconnect
  <2>7. CASE UNCHANGED vars
    BY <2>2, <2>7 DEF vars
  <2>. QED  BY <1>2, <2>1, <2>3, <2>4, <2>5, <2>6, <2>7 DEF Next
<1>3. DatagramInv => DatagramReadBack
  BY DEF DatagramInv
<1>. QED  BY <1>1, <1>2, <1>3, PTL DEF Spec
=============================================================================
