------------------------------- MODULE PbWire -------------------------------
(***************************************************************************)
(* The protobuf wire format (protowire-pb, wire.rs): varints, tags and     *)
(* length-delimited bytes, written to and read from sequences of bytes.    *)
(* A position is the number of bytes before it, as in the code.            *)
(***************************************************************************)
EXTENDS Integers, Sequences

CONSTANTS
  Width,           \* the bits of a u64, and of a usize
  Width32,         \* the bits of a u32
  MaxVarintBytes   \* the most bytes of a varint (10 in the code)

ASSUME WireAssumption ==
  /\ Width \in Nat \ {0} /\ Width32 \in 1..Width
  /\ MaxVarintBytes \in Nat \ {0}

\* Arithmetic, true of any widths; the provers do not know what a power is.
ASSUME PowersAssumption ==
  /\ 2^Width \in Nat \ {0}
  /\ 2^(Width32 - 1) \in Nat /\ 2^Width32 = 2 * 2^(Width32 - 1) /\ 2^Width32 > 0

Byte == 0..255

Varint           == 0
Fixed64          == 1
LengthDelimited  == 2
StartGroup       == 3
EndGroup         == 4
Fixed32          == 5
WireTypes        == 0..5

-----------------------------------------------------------------------------
\* Writer::varint: seven bits to a byte, the low ones first.
PutVarint(v) ==
  LET put[n \in Nat] == IF n < 128 THEN <<n>>
                        ELSE <<128 + (n % 128)>> \o put[n \div 128]
  IN  put[v]

\* Writer::varint_i32 sign-extends.
PutInt32(v) == PutVarint(v % 2^Width)

PutBytes(b) == PutVarint(Len(b)) \o b

PutTag(field, wt) == PutVarint(field * 8 + wt)

-----------------------------------------------------------------------------
\* What a read returns: a value and the position after it, or an error.
Read(val, pos) == [err |-> "none", val |-> val, pos |-> pos]
NoRead(err)    == [err |-> err, val |-> 0, pos |-> 0]

\* The number in the n bytes of a varint that ends at `end`, the last of which
\* has its high bits, for every n up to how many it has after position pos.
Groups(s, pos, end) ==
  LET value[n \in 0..(end - pos)] ==
        IF n = 0 THEN 0 ELSE (s[end + 1 - n] % 128) + 128 * value[n - 1]
  IN  value

\* The varint from pos to end; bits beyond the width are dropped, and the last
\* byte may carry some.
VarintAt(s, pos, end) == Groups(s, pos, end)[end - pos] % 2^Width

\* Where the varint after pos ends, if it does within its limit and in s.
VarintEnds(s, pos) ==
  {end \in (pos + 1)..(pos + MaxVarintBytes) :
     /\ end <= Len(s) /\ s[end] < 128
     /\ \A i \in (pos + 1)..(end - 1) : s[i] >= 128}

VarintTo(s, pos, end) == Read(VarintAt(s, pos, end), end)

VarintUpTo(s, pos, ends) ==
  IF ends # {} THEN VarintTo(s, pos, CHOOSE end \in ends : TRUE)
  ELSE NoRead(IF pos + MaxVarintBytes > Len(s) THEN "TruncatedVarint" ELSE "VarintTooLong")

\* Reader::varint.
GetVarint(s, pos) == VarintUpTo(s, pos, VarintEnds(s, pos))

\* Mutant of AsInt32: the sign is lost.
AsUint32(v) == v % 2^Width32

Signed(u) == IF u < 2^(Width32 - 1) THEN u ELSE u - 2^Width32

\* `as i32`
AsInt32(v) == Signed(v % 2^Width32)

\* The field number of a tag, cut to 32 bits, and its wire type.
TagOf(t) == [number |-> (t \div 8) % 2^Width32, type |-> t % 8]

TagAt(t, tag) ==
  CASE t.err # "none"                           -> t
    [] t.err = "none" /\ tag.type \notin WireTypes -> NoRead("UnknownWireType")
    [] t.err = "none" /\ tag.type \in WireTypes /\ tag.number = 0 -> NoRead("InvalidTag")
    [] OTHER                                    -> Read(tag, t.pos)

TagFrom(t) == TagAt(t, TagOf(t.val))

\* Reader::tag.
GetTag(s, pos) == TagFrom(GetVarint(s, pos))

\* Mutant of EndOf: the length alone is compared with the buffer.
EndUnplaced(s, pos, len, err) ==
  IF len <= Len(s) THEN Read(pos + len, pos) ELSE NoRead(err)

\* The end of the len bytes at pos, which must lie in s; the sum is a checked
\* one.
EndOf(s, pos, len, err) ==
  IF pos + len < 2^Width /\ pos + len <= Len(s) THEN Read(pos + len, pos) ELSE NoRead(err)

LengthFrom(s, len, err) ==
  IF len.err # "none" THEN len ELSE EndOf(s, len.pos, len.val, err)

\* A varint length, and the end of what it measures (Reader::read_length).
GetLength(s, pos, err) == LengthFrom(s, GetVarint(s, pos), err)

BytesUpTo(s, end) ==
  IF end.err # "none" THEN end ELSE Read(SubSeq(s, end.pos + 1, end.val), end.val)

GetBytes(s, pos) == BytesUpTo(s, GetLength(s, pos, "TruncatedLengthDelim"))

\* String::from_utf8, where no two bytes form a character of several bytes.
Utf8(b) ==
  IF b.err = "none" /\ \E i \in DOMAIN b.val : b.val[i] >= 128
  THEN NoRead("InvalidUtf8") ELSE b

GetString(s, pos) == Utf8(GetBytes(s, pos))

GetFixed(s, pos, n, err) == IF pos + n <= Len(s) THEN Read(0, pos + n) ELSE NoRead(err)

\* Reader::skip.
GetSkip(s, pos, wt) ==
  CASE wt = Varint          -> GetVarint(s, pos)
    [] wt = Fixed64         -> GetFixed(s, pos, 8, "TruncatedFixed64")
    [] wt = Fixed32         -> GetFixed(s, pos, 4, "TruncatedFixed32")
    [] wt = LengthDelimited -> GetBytes(s, pos)
    [] OTHER                -> NoRead("GroupNotSupported")
=============================================================================
