---------------------------- MODULE ProtoMessage ----------------------------
(***************************************************************************)
(* The life of a protocol message: the application builds it with the      *)
(* generated accessors, ProtoHelp::encode serialises it into the content   *)
(* of a frame, and ProtoHelp::decode parses that content.                  *)
(*                                                                         *)
(* A class is generated as seven functions that repeat the same layout     *)
(* (PbBase, PbSimple); what matters here is that they agree with each      *)
(* other, since the frame's msgSize comes from one of them, its bytes from *)
(* another and what the receiver sees from a third.                        *)
(*                                                                         *)
(* Two messages, a and b, of one class are sent one after the other;       *)
(* their contents follow each other on the wire (the frame headers between *)
(* them belong to Codec).  The receiver parses a window of those bytes:    *)
(* a's content when the headers are right, any window when they are not,   *)
(* because decode takes msgSize from whatever it found after the flag.     *)
(***************************************************************************)
EXTENDS PbBase, PbSimple, FiniteSets

CONSTANTS
    Int32s,      \* the values given to int32 fields, 0 among them
    Int64s,      \* the digits of the values given to int64 fields, <<0>> among them
    Strings,     \* the bytes given to string fields, <<>> among them
    Newer,       \* unknown fields of a message received from a newer peer
    MaxEdits     \* bound on the calls that change the messages

VARIABLES
    cls,         \* the class of a and b
    a, b,        \* the messages
    edits,       \* calls made so far
    wire,        \* the contents on the wire, <<>> before encode
    msgSize,     \* header.msgSize of a's frame
    got          \* what the receiver parsed, and how

vars == <<cls, a, b, edits, wire, msgSize, got>>

Classes == BaseClasses @@ SimpleClasses
Nothing == [reader |-> "none"]

\* Mutant: the unknown fields are not written again.
SerializeKnown(c, m) ==
    LET fields == Classes[c].serialize
    IN  FlattenSeq([i \in DOMAIN fields |-> Write(m, fields[i])])

Serialize(c, m) ==
    LET fields == Classes[c].serialize
    IN  FlattenSeq([i \in DOMAIN fields |-> Write(m, fields[i])]) \o m.unknown

\* Mutant: the unknown fields are not counted.
ByteSizeKnown(c, m) ==
    FoldSeq(LAMBDA f, sum : sum + SizeOf(m, f), 0, Classes[c].size)

ByteSizeLong(c, m) ==
    FoldSeq(LAMBDA f, sum : sum + SizeOf(m, f), Len(m.unknown), Classes[c].size)

ParseFromArray(c, bytes) == ParseInto(Classes[c].parse, Classes[c].new, bytes)

Clear(c, m) == Cleared(Classes[c].clear, m)
MergeFrom(c, m, from) == MergeInto(Classes[c].merge, m, from)
CopyFrom(c, m, from) == MergeFrom(c, Clear(c, m), from)

(***************************************************************************)
(* The messages one call of an accessor makes of m.  A scalar or a string  *)
(* is set, cleared, released or given an allocated string; a list gets a   *)
(* new element, a new value at an index, or is cleared.                    *)
(***************************************************************************)
ListCalls(list, values) ==
    {Append(list, v) : v \in values}
    \cup {[list EXCEPT ![i] = v] : i \in DOMAIN list, v \in values}
    \cup {<<>>}

CallsOn(kind, old) ==
    CASE kind = "int32" -> Int32s
      [] kind = "int64" -> Int64s
      [] kind = "string" -> Strings
      [] kind = "packed" -> ListCalls(old, Int32s)
      [] kind = "strings" -> ListCalls(old, Strings)

Accessed(c, m) ==
    UNION {{[m EXCEPT ![f] = v] : v \in CallsOn(Classes[c].access[f], m[f])} :
              f \in DOMAIN Classes[c].access}

Init ==
    /\ cls \in DOMAIN Classes
    /\ a = Classes[cls].new
    /\ b \in {[Classes[cls].new EXCEPT !.unknown = u] : u \in {<<>>, Newer}}
    /\ edits = 0
    /\ wire = <<>> /\ msgSize = -1 /\ got = Nothing

Building == msgSize = -1 /\ edits < MaxEdits
Sent == msgSize # -1 /\ got = Nothing

Access ==
    /\ Building
    /\ a' \in Accessed(cls, a)
    /\ edits' = edits + 1
    /\ UNCHANGED <<cls, b, wire, msgSize, got>>

Swap ==
    /\ Building
    /\ a' = Exchanged(Classes[cls].swap, a, b)
    /\ b' = Exchanged(Classes[cls].swap, b, a)
    /\ edits' = edits + 1
    /\ UNCHANGED <<cls, wire, msgSize, got>>

Merge ==
    /\ Building
    /\ a' = MergeFrom(cls, a, b)
    /\ edits' = edits + 1
    /\ UNCHANGED <<cls, b, wire, msgSize, got>>

Copy ==
    /\ Building
    /\ b' = CopyFrom(cls, b, a)
    /\ edits' = edits + 1
    /\ UNCHANGED <<cls, a, wire, msgSize, got>>

\* content.resize(ByteSizeLong()), SerializePartialToArray, which refuses an
\* array that is too small, and header.msgSize.
Encode ==
    /\ msgSize = -1
    /\ wire' = Serialize(cls, a) \o Serialize(cls, b)
    /\ msgSize' = ByteSizeLong(cls, a)
    /\ UNCHANGED <<cls, a, b, edits, got>>

\* Classes an older .proto could have had in the place of c: some of its
\* fields, with their numbers and types.
OlderThan(c) ==
    {r \in DOMAIN Classes :
        \A tag \in DOMAIN Classes[r].parse :
            /\ tag \in DOMAIN Classes[c].parse
            /\ Classes[r].parse[tag].kind = Classes[c].parse[tag].kind}

\* ParseFromArray(peek, msgSize) by a receiver whose class is r.
Receive(r, first, size) ==
    /\ got' = [reader |-> r, first |-> first, size |-> size,
               res |-> ParseFromArray(r, SubSeq(wire, first, first + size - 1))]
    /\ UNCHANGED <<cls, a, b, edits, wire, msgSize>>

Next ==
    \/ Access \/ Swap \/ Merge \/ Copy \/ Encode
    \/ /\ Sent
       /\ \/ \E r \in OlderThan(cls) : Receive(r, 1, msgSize)
          \/ \E first \in 1..Len(wire) : \E size \in 0..(Len(wire) - first + 1) :
                Receive(cls, first, size)

Spec == Init /\ [][Next]_vars

-----------------------------------------------------------------------------
Received(first, size) ==
    got # Nothing /\ got.reader = cls /\ got.first = first /\ got.size = size

Utf8(c, m) ==
    \A f \in DOMAIN Classes[c].access :
        /\ Classes[c].access[f] = "string" => IsUtf8(m[f])
        /\ Classes[c].access[f] = "strings" => \A i \in DOMAIN m[f] : IsUtf8(m[f][i])

\* What decode parses out of the msgSize bytes that encode wrote is the message
\* that was sent, whatever calls built it; only a string that is not UTF-8,
\* which _InternalSerialize writes and merely logs, makes the receiver refuse it.
ExactContent ==
    Received(1, msgSize) =>
        IF Utf8(cls, a) THEN got.res = Read(a, <<>>) ELSE ~got.res.ok

\* The contents of two messages in one array are parsed as what MergeFrom makes
\* of the two: _InternalParse and MergeFrom treat every field alike.
ConcatIsMerge ==
    Received(1, Len(wire)) /\ Utf8(cls, a) /\ Utf8(cls, b) =>
        got.res = Read(MergeFrom(cls, a, b), <<>>)

\* Whatever bytes _InternalParse accepts, also when decode starts at the wrong
\* place or with the wrong msgSize: encoding the message again gives as many
\* bytes as ByteSizeLong says, and they are parsed as the same message.
StableContent ==
    got # Nothing /\ got.res.ok =>
        LET again == Serialize(got.reader, got.res.val)
        IN  /\ Len(again) = ByteSizeLong(got.reader, got.res.val)
            /\ ParseFromArray(got.reader, again) = got.res

\* A receiver with an older .proto keeps what it does not know: what it sends
\* on is, for a receiver that knows the class, the message that was sent.
OldReaderKeepsAll ==
    got # Nothing /\ got.first = 1 /\ got.size = msgSize /\ got.res.ok =>
        ParseFromArray(cls, Serialize(got.reader, got.res.val)) =
            ParseFromArray(cls, Serialize(cls, a))

\* InternalSwap exchanges the messages and CopyFrom makes them equal, unknown
\* fields included, whatever the two held before.
SwapAndCopyExact ==
    [][/\ Swap => a' = b /\ b' = a
       /\ Copy => b' = a]_vars
=============================================================================
