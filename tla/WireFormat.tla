----------------------------- MODULE WireFormat -----------------------------
(***************************************************************************)
(* The part of the protocol buffers library that the generated classes of  *)
(* asio/proto call: varints, tags, strings, packed lists and unknown       *)
(* fields, as sequences of bytes.  The library is not under src/: it is    *)
(* modelled from how pb_base.pb.cc and pb_simple.pb.cc use it.             *)
(*                                                                         *)
(* A 64-bit varint is kept as its digits to the base 128, least            *)
(* significant first and without leading zeros (<<0>> is zero), because    *)
(* TLC's integers have 32 bits.  An int32 is an integer; negative ones are *)
(* sign-extended to 64 bits on the wire, which takes ten digits.           *)
(*                                                                         *)
(* A reader takes bytes and returns [ok, val, rest]; reading past the end  *)
(* of the array fails, as every overrun of ParseFromArray does.            *)
(***************************************************************************)
EXTENDS Integers, Sequences, SequencesExt

Failed == [ok |-> FALSE, val |-> <<>>, rest |-> <<>>]
Read(v, r) == [ok |-> TRUE, val |-> v, rest |-> r]

(***************************************************************************)
(* Varints.                                                                *)
(***************************************************************************)
Canonical(d) ==
    LET top == {i \in DOMAIN d : d[i] # 0}
    IN  IF top = {} THEN <<0>> ELSE SubSeq(d, 1, Max(top))

DigitAt(n, i) == (n \div (128 ^ i)) % 128

\* The digits of an int32; \div rounds down, so a negative number gives the
\* digits of its two's complement, and 64 bits leave one bit for the tenth.
Int32Digits(n) ==
    LET low == [i \in 1..4 |-> DigitAt(n, i - 1)]
    IN  IF n >= 0 THEN Canonical(Append(low, DigitAt(n, 4)))
        ELSE low \o <<(n \div (2 ^ 28)) % 128>> \o <<127, 127, 127, 127, 1>>

\* The int32 that a C++ assignment makes of a 64-bit value: its low 32 bits.
Int32Of(d) ==
    LET g == [i \in 1..5 |-> IF i <= Len(d) THEN d[i] ELSE 0]
        high == g[5] % 16
    IN  g[1] + g[2] * 128 + g[3] * (128 ^ 2) + g[4] * (128 ^ 3)
        + (IF high >= 8 THEN high - 16 ELSE high) * (2 ^ 28)

DigitBytes(d) == [i \in DOMAIN d |-> IF i < Len(d) THEN d[i] + 128 ELSE d[i]]

\* At most max bytes, the last one without its continuation bit; of the last
\* one only the bits below lastMod count.
ReadDigits(bytes, max, lastMod) ==
    LET ends == {i \in DOMAIN bytes : i <= max /\ bytes[i] < 128}
        n == Min(ends)
        raw == [i \in 1..n |-> IF i = max THEN bytes[i] % lastMod ELSE bytes[i] % 128]
    IN  IF ends = {} THEN Failed
        ELSE Read(Canonical(raw), SubSeq(bytes, n + 1, Len(bytes)))

ReadVarint64(bytes) == ReadDigits(bytes, 10, 2)
ReadTag(bytes) == ReadDigits(bytes, 5, 16)

\* ReadSize: a length below 2^31; longer than the bytes that are left fails.
ReadSized(bytes) ==
    LET size == ReadDigits(bytes, 5, 128)
        n == Int32Of(size.val)
    IN  IF ~size.ok \/ Len(size.val) > 4 \/ n > Len(size.rest) THEN Failed
        ELSE Read(SubSeq(size.rest, 1, n), SubSeq(size.rest, n + 1, Len(size.rest)))

(***************************************************************************)
(* Strings: VerifyUTF8 accepts structurally valid UTF-8.                   *)
(***************************************************************************)
RECURSIVE IsUtf8(_)
IsUtf8(s) ==
    LET Trail(k) == k <= Len(s) /\ s[k] \in 128..191
        After(k) == IsUtf8(SubSeq(s, k + 1, Len(s)))
    IN  \/ s = <<>>
        \/ s[1] < 128 /\ After(1)
        \/ s[1] \in 194..223 /\ Trail(2) /\ After(2)
        \/ /\ s[1] \in 224..239 /\ Trail(2) /\ Trail(3)
           /\ s[1] = 224 => s[2] >= 160
           /\ s[1] = 237 => s[2] < 160
           /\ After(3)
        \/ /\ s[1] \in 240..244 /\ Trail(2) /\ Trail(3) /\ Trail(4)
           /\ s[1] = 240 => s[2] >= 144
           /\ s[1] = 244 => s[2] < 144
           /\ After(4)

\* InlineGreedyStringParser followed by VerifyUTF8.
ReadString(bytes) ==
    LET s == ReadSized(bytes)
    IN  IF s.ok /\ IsUtf8(s.val) THEN s ELSE Failed

\* PackedInt32Parser: varints that end exactly where the length says.
RECURSIVE Unpacked(_)
Unpacked(bytes) ==
    IF bytes = <<>> THEN Read(<<>>, <<>>)
    ELSE LET v == ReadVarint64(bytes)
             more == Unpacked(v.rest)
         IN  IF v.ok /\ more.ok THEN Read(<<Int32Of(v.val)>> \o more.val, <<>>)
             ELSE Failed

ReadPacked(bytes) ==
    LET s == ReadSized(bytes)
        list == Unpacked(s.val)
    IN  IF s.ok /\ list.ok THEN Read(list.val, s.rest) ELSE Failed

(***************************************************************************)
(* Unknown fields: UnknownFieldParse keeps what it does not know, and      *)
(* InternalSerializeUnknownFieldsToArray writes it again with canonical    *)
(* varints.  The value of UnknownField is those bytes.                     *)
(***************************************************************************)
WireType(tag) == tag[1] % 8
FieldNumberZero(tag) == Len(tag) = 1 /\ tag[1] < 8
StopsParsing(tag) == WireType(tag) = 4 \/ tag = <<0>>

Fixed(bytes, n) ==
    IF Len(bytes) < n THEN Failed
    ELSE Read(SubSeq(bytes, 1, n), SubSeq(bytes, n + 1, Len(bytes)))

RECURSIVE UnknownField(_, _), UnknownGroup(_, _)
UnknownField(tag, bytes) ==
    LET v == ReadVarint64(bytes)
        s == ReadSized(bytes)
        f == Fixed(bytes, IF WireType(tag) = 1 THEN 8 ELSE 4)
        g == UnknownGroup(tag, bytes)
        Keep(r, body) == IF r.ok THEN Read(DigitBytes(tag) \o body, r.rest) ELSE Failed
    IN  CASE FieldNumberZero(tag) -> Failed
          [] WireType(tag) = 0 -> Keep(v, DigitBytes(v.val))
          [] WireType(tag) \in {1, 5} -> Keep(f, f.val)
          [] WireType(tag) = 2 -> Keep(s, DigitBytes(Int32Digits(Len(s.val))) \o s.val)
          [] WireType(tag) = 3 -> Keep(g, g.val)
          [] OTHER -> Failed

\* The fields of a group up to the end tag with the number of its start tag.
UnknownGroup(start, bytes) ==
    LET tag == ReadTag(bytes)
        f == UnknownField(tag.val, tag.rest)
        more == UnknownGroup(start, f.rest)
    IN  IF ~tag.ok THEN Failed
        ELSE IF StopsParsing(tag.val)
             THEN IF tag.val = [start EXCEPT ![1] = @ + 1]
                  THEN Read(DigitBytes(tag.val), tag.rest) ELSE Failed
        ELSE IF f.ok /\ more.ok THEN Read(f.val \o more.val, more.rest)
        ELSE Failed

(***************************************************************************)
(* The tables the generated classes are given as.  A table names, field by *)
(* field, the library call a generated function makes; the operators below *)
(* make those calls.  A message is a record of its fields and of           *)
(* "unknown", the bytes of its unknown fields.                             *)
(***************************************************************************)
Field(kind, number, name) == [kind |-> kind, number |-> number, name |-> name]
Member(kind, name) == [kind |-> kind, name |-> name]

TagBytes(number, wireType) == DigitBytes(Int32Digits(number * 8 + wireType))
Varint(n) == DigitBytes(Int32Digits(n))
Delimited(number, bytes) == TagBytes(number, 2) \o Varint(Len(bytes)) \o bytes
PackedBytes(list) == FlattenSeq([i \in DOMAIN list |-> Varint(list[i])])

\* One field of _InternalSerialize.  SerializePartialToArray calls ByteSizeLong
\* first, so the cached size of a packed list is that of the list written.
Write(m, f) ==
    LET v == m[f.name]
    IN  CASE f.kind = "int32" /\ v # 0 -> TagBytes(f.number, 0) \o Varint(v)
          [] f.kind = "int64" /\ v # <<0>> -> TagBytes(f.number, 0) \o DigitBytes(v)
          [] f.kind = "string" /\ v # <<>> -> Delimited(f.number, v)
          [] f.kind = "packed" /\ v # <<>> -> Delimited(f.number, PackedBytes(v))
          [] f.kind = "strings" ->
                FlattenSeq([i \in DOMAIN v |-> Delimited(f.number, v[i])])
          [] OTHER -> <<>>

\* What one field adds to ByteSizeLong.
VarintSize(n) == Len(Int32Digits(n))
StringSize(s) == VarintSize(Len(s)) + Len(s)
SizeOf(m, f) ==
    LET v == m[f.name]
        packed == FoldSeq(LAMBDA n, sum : sum + VarintSize(n), 0, v)
    IN  CASE f.kind = "int32" /\ v # 0 -> 1 + VarintSize(v)
          [] f.kind = "int64" /\ v # <<0>> -> 1 + Len(v)
          [] f.kind = "string" /\ v # <<>> -> 1 + StringSize(v)
          [] f.kind = "packed" /\ v # <<>> -> 1 + VarintSize(packed) + packed
          [] f.kind = "strings" -> FoldSeq(LAMBDA s, sum : sum + 1 + StringSize(s), 0, v)
          [] OTHER -> 0

\* One field of _InternalParse.
ReadField(m, f, bytes) ==
    LET v == ReadVarint64(bytes)
        s == ReadString(bytes)
        p == ReadPacked(bytes)
        Into(r, x) == IF r.ok THEN Read([m EXCEPT ![f.name] = x], r.rest) ELSE Failed
    IN  CASE f.kind = "int32" -> Into(v, Int32Of(v.val))
          [] f.kind = "int64" -> Into(v, v.val)
          [] f.kind = "addInt32" -> Into(v, Append(m[f.name], Int32Of(v.val)))
          [] f.kind = "string" -> Into(s, s.val)
          [] f.kind = "addString" -> Into(s, Append(m[f.name], s.val))
          [] f.kind = "packed" -> Into(p, m[f.name] \o p.val)

\* The loop of _InternalParse over the bytes of ParseFromArray, which fails
\* when the loop stops at a tag instead of at the end.
RECURSIVE ParseInto(_, _, _)
ParseInto(table, m, bytes) ==
    IF bytes = <<>> THEN Read(m, <<>>)
    ELSE LET tag == ReadTag(bytes)
             known == Len(tag.val) = 1 /\ tag.val[1] \in DOMAIN table
             unusual == UnknownField(tag.val, tag.rest)
             step == IF known THEN ReadField(m, table[tag.val[1]], tag.rest)
                     ELSE IF unusual.ok
                          THEN Read([m EXCEPT !.unknown = @ \o unusual.val], unusual.rest)
                     ELSE Failed
         IN  IF ~tag.ok \/ StopsParsing(tag.val) \/ ~step.ok THEN Failed
             ELSE ParseInto(table, step.val, step.rest)

\* MergeFrom: lists are appended, other fields are set if the source has them.
MergeInto(table, m, from) ==
    LET Has(f) == CASE table[f] = "nonzero" -> from[f] # 0
                    [] table[f] = "nonzero64" -> from[f] # <<0>>
                    [] table[f] = "nonempty" -> from[f] # <<>>
    IN  [f \in DOMAIN m |->
            CASE f = "unknown" -> m[f] \o from[f]
              [] f # "unknown" /\ f \notin DOMAIN table -> m[f]
              [] f \in DOMAIN table -> IF table[f] = "append" THEN m[f] \o from[f]
                                       ELSE IF Has(f) THEN from[f] ELSE m[f]]

\* Clear: the named fields get the value named, unknown fields are dropped.
Cleared(table, m) ==
    [f \in DOMAIN m |-> IF f = "unknown" THEN <<>>
                        ELSE IF f \in DOMAIN table THEN table[f] ELSE m[f]]

\* InternalSwap: what m becomes when it exchanges the named fields with o.
Exchanged(names, m, o) ==
    [f \in DOMAIN m |-> IF f \in names THEN o[f] ELSE m[f]]

Class(new, clear, access, parse, serialize, size, merge, swap) ==
    [new |-> new, clear |-> clear, access |-> access, parse |-> parse,
     serialize |-> serialize, size |-> size, merge |-> merge, swap |-> swap]
=============================================================================
