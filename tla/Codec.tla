------------------------------- MODULE Codec --------------------------------
(***************************************************************************)
(* How messages become a stream of bytes and messages again: encode() on   *)
(* one side of a connection, and on the other doRead(), which appends what *)
(* a read returned to readBuffer_ and calls decode() in a loop.  doRead()  *)
(* of AsioClient and of Session are the same loop; the messages go to      *)
(* doResponse() or to handleMessage() (posted).                            *)
(*                                                                         *)
(* A byte is the pair of the frame it belongs to and its position there.   *)
(* What a frame contains follows from the message: HeaderSize bytes of     *)
(* header, the type name, the content.  One pass through decode() is one   *)
(* action: it returns a package, returns none, or calls decode() again.    *)
(* pc says whether decode() is running; no other handler runs meanwhile.   *)
(*                                                                         *)
(* The client keeps readBuffer_ when it connects again.  Bytes of two      *)
(* connections then look like one frame: a header of such bytes can say    *)
(* anything, and so can one that is found inside a message.                *)
(***************************************************************************)
EXTENDS Buffer, Integers, FiniteSets

CONSTANTS Messages,        \* what the other side may send
          MaxFrames,       \* bound on how many messages it sends
          HeaderSize,      \* kPackageHeaderSize
          kMaxPackageLen,
          MaxNameLen,      \* the limit of typeNameLen, 1024
          enableCompressSize,
          kTempBufSize,
          kInitialSize,
          MaxLosses        \* bound on lost connections

(* A message: the length of its type name and of its content, serialised   *)
(* and compressed; whether the receiver knows its type, whether the name   *)
(* begins with ProtoBase, whether the content parses, and where the        *)
(* content holds bytes that look like the flag of a header.                *)
MessageType == [name : Nat, size : Nat, zipSize : Nat, known : BOOLEAN,
                base : BOOLEAN, parses : BOOLEAN, marks : SUBSET Nat]

ASSUME CodecAssumption ==
    /\ Messages \subseteq MessageType
    /\ Messages # {} /\ \A m \in Messages : m.name > 0
    /\ HeaderSize \in Nat /\ HeaderSize > 1
    /\ kTempBufSize \in Nat \ {0} /\ kInitialSize \in Nat
    /\ kMaxPackageLen \in Nat /\ MaxNameLen \in Nat
    /\ enableCompressSize \in Int
    /\ MaxFrames \in Nat /\ MaxLosses \in Nat
    /\ NUL \notin Nat \X Nat

VARIABLES msgbus,        \* whether the receiver is built with MSGBUS
          sent,          \* the messages encoded so far; the n-th is frame n
          wire,          \* bytes on the way
          readBuffer_,
          pc,            \* "read" or "decode"
          posted,        \* what decode() returned: frames, and whether intact
          received,      \* all bytes that were read
          losses,        \* how often the connection was lost
          failed,        \* whether decode() met content that does not parse
          misled         \* whether decode() took for a header what is none

vars == <<msgbus, sent, wire, readBuffer_, pc, posted, received, losses, failed, misled>>

Cell == Nat \X Nat

TypeOK ==
    /\ msgbus \in BOOLEAN /\ failed \in BOOLEAN /\ misled \in BOOLEAN
    /\ sent \in Seq(Messages)
    /\ wire \in Seq(Cell) /\ received \in Seq(Cell)
    /\ readBuffer_ \in Buffers(Cell \cup {NUL})
    /\ pc \in {"read", "decode"}
    /\ posted \in Seq([frame : Nat, intact : BOOLEAN])
    /\ losses \in Nat

Init ==
    /\ msgbus \in BOOLEAN
    /\ sent = <<>> /\ wire = <<>> /\ received = <<>> /\ posted = <<>>
    /\ readBuffer_ = NewBuffer(kInitialSize)
    /\ pc = "read"
    /\ losses = 0 /\ failed = FALSE /\ misled = FALSE

-----------------------------------------------------------------------------
(* The header of a message: encode() compresses content that is too long.  *)
Zipped(m) == enableCompressSize >= 0 /\ m.size > enableCompressSize
ContentSize(m) == IF Zipped(m) THEN m.zipSize ELSE m.size
PacSize(m) == HeaderSize + m.name + ContentSize(m)

(* The bytes of frame n. *)
Bytes(n, m) == [i \in 1..PacSize(m) |-> <<n, i>>]

(* encode() and the write of the frame.  The bus writes what it forwards   *)
(* with the header it came with, which is the same frame.  Bytes that      *)
(* arrive while doRead() runs are taken by a later read in any case.       *)
Send(m) ==
    /\ pc = "read"
    /\ Len(sent) < MaxFrames
    /\ sent' = Append(sent, m)
    /\ wire' = wire \o Bytes(Len(sent) + 1, m)
    /\ UNCHANGED <<msgbus, readBuffer_, pc, posted, received, losses, failed, misled>>

(* The connection is lost and connected again.  What is on the way is      *)
(* gone, readBuffer_ stays.  A session does not outlive its connection;    *)
(* the bus consists of sessions.                                           *)
ConnectionLost ==
    /\ pc = "read" /\ ~msgbus
    /\ losses < MaxLosses
    /\ losses' = losses + 1
    /\ wire' = <<>>
    /\ UNCHANGED <<msgbus, sent, readBuffer_, pc, posted, received, failed, misled>>

-----------------------------------------------------------------------------
(* doRead(): a read returned the first n bytes that are on the way. *)
DoRead(n) ==
    /\ pc = "read"
    /\ n <= Len(wire)
    /\ readBuffer_' = append(readBuffer_, SubSeq(wire, 1, n))
    /\ received' = received \o SubSeq(wire, 1, n)
    /\ wire' = SubSeq(wire, n + 1, Len(wire))
    /\ pc' = "decode"
    /\ UNCHANGED <<msgbus, sent, posted, losses, failed, misled>>

(* Whether a byte is flag0, or flag1: those of the header, or bytes of the *)
(* content that look like them.                                            *)
Offset(c) == c[2] - HeaderSize - sent[c[1]].name
IsFlag0(c) == c[2] = 1 \/ Offset(c) \in sent[c[1]].marks
IsFlag1(c) == c[2] = 2 \/ Offset(c) - 1 \in sent[c[1]].marks

(* gotoFlag(): the loop ends at the first place with a flag, or where only *)
(* a header's length of bytes is left.                                     *)
AtFlag(bytes, k) == IsFlag0(bytes[k + 1]) /\ IsFlag1(bytes[k + 2])
ScanEnds(bytes, k) == Len(bytes) - k <= HeaderSize
Skipped(bytes) ==
    CHOOSE k \in 0..Len(bytes) :
        /\ ScanEnds(bytes, k) \/ AtFlag(bytes, k)
        /\ \A j \in 0..(k - 1) : ~ScanEnds(bytes, j) /\ ~AtFlag(bytes, j)
Scanned == retrieve(readBuffer_, Skipped(peek(readBuffer_)))
FoundFlag == readableBytes(Scanned) > HeaderSize

(* The frame that the first byte belongs to, and whether the bytes from i  *)
(* to j are the ones this frame has there.                                 *)
FirstFrame == peek(Scanned)[1][1]
Msg == sent[FirstFrame]
Intact(i, j) ==
    /\ j <= readableBytes(Scanned)
    /\ \A k \in i..j : peek(Scanned)[k] = <<FirstFrame, k>>
HeaderIntact == Intact(1, HeaderSize)

(* Waiting for one byte more than the frame has; waiting for the type name *)
(* only; and waiting for the frame.                                        *)
IncompleteOrExact == readableBytes(Scanned) <= PacSize(Msg)
IncompleteName == readableBytes(Scanned) < HeaderSize + Msg.name
Incomplete == readableBytes(Scanned) < PacSize(Msg)

(* decode() returns no package; doRead() leaves its loop and reads again. *)
Return(buf) ==
    /\ readBuffer_' = buf
    /\ pc' = "read"
    /\ UNCHANGED <<msgbus, sent, wire, posted, received, losses>>

(* decode() calls itself. *)
Again(buf) ==
    /\ readBuffer_' = buf
    /\ pc' = "decode"
    /\ UNCHANGED <<msgbus, sent, wire, posted, received, losses>>

(* decode() finds no flag. *)
DecodeNoFlag ==
    /\ pc = "decode" /\ ~FoundFlag
    /\ Return(Scanned)
    /\ UNCHANGED <<failed, misled>>

(* decode() finds the header of a frame that is not complete yet. *)
DecodeWaits ==
    /\ pc = "decode" /\ FoundFlag /\ HeaderIntact
    /\ Incomplete
    /\ Return(Scanned)
    /\ UNCHANGED <<failed, misled>>

(* decode() finds a length it does not accept, and drops the header. *)
BadLength(m) == PacSize(m) > kMaxPackageLen \/ m.name > MaxNameLen
DecodeBadLength ==
    /\ pc = "decode" /\ FoundFlag /\ HeaderIntact
    /\ ~Incomplete /\ BadLength(Msg)
    /\ Again(retrieve(Scanned, HeaderSize))
    /\ UNCHANGED <<failed, misled>>

(* The buffer after the header and the type name. *)
AfterName == retrieve(retrieve(Scanned, HeaderSize), Msg.name)
NameIntact == Intact(HeaderSize + 1, HeaderSize + Msg.name)

(* decode() has the whole frame and its type name. *)
HasName ==
    /\ pc = "decode" /\ FoundFlag /\ HeaderIntact
    /\ ~Incomplete /\ ~BadLength(Msg)

(* The bus forwards what is not its own without parsing it. *)
Forwards == msgbus /\ ~Msg.base
CreatesMessage == NameIntact /\ Msg.known

DecodeUnknown ==
    /\ HasName /\ ~Forwards /\ ~CreatesMessage
    /\ Again(AfterName)
    /\ UNCHANGED <<failed, misled>>

(* The content up to the length the header states, remainSize.  Content of *)
(* two connections may parse, unless it was compressed.                    *)
ContentIntact == Intact(HeaderSize + Msg.name + 1, PacSize(Msg))
MayParse == IF ContentIntact THEN Msg.parses ELSE ~Zipped(Msg)
MayFail == ~ContentIntact \/ ~Msg.parses

(* retrieve() with the length of the message, not of the content; and with *)
(* remainSize.                                                             *)
ConsumeMsgSize(buf, m) == retrieve(buf, m.size)
Consume(buf, m) == retrieve(buf, ContentSize(m))

(* decode() returns a package, and doRead() decodes on while bytes are left. *)
Deliver(buf, pack) ==
    /\ readBuffer_' = buf
    /\ pc' = IF readableBytes(buf) > 0 THEN "decode" ELSE "read"
    /\ posted' = Append(posted, pack)
    /\ UNCHANGED <<msgbus, sent, wire, received, losses>>

DecodeReturns ==
    /\ HasName
    /\ Forwards \/ (CreatesMessage /\ MayParse)
    /\ Deliver(Consume(AfterName, Msg), [frame |-> FirstFrame, intact |-> ContentIntact])
    /\ UNCHANGED <<failed, misled>>

(* The content does not parse.  It stays in the buffer. *)
DecodeFails ==
    /\ HasName /\ ~Forwards /\ CreatesMessage /\ MayFail
    /\ Return(AfterName)
    /\ failed' = TRUE
    /\ UNCHANGED misled

(* decode() takes for a header what is none.  Its pacSize makes decode()   *)
(* wait, or what it says is dropped or taken for a package (of frame 0).   *)
DecodeMisled ==
    /\ pc = "decode" /\ FoundFlag /\ ~HeaderIntact
    /\ \/ Return(Scanned)
       \/ \E n \in HeaderSize..readableBytes(Scanned) :
            \/ Again(retrieve(Scanned, n))
            \/ Deliver(retrieve(Scanned, n), [frame |-> 0, intact |-> FALSE])
    /\ misled' = TRUE
    /\ UNCHANGED failed

Next ==
    \/ \E m \in Messages : Send(m)
    \/ ConnectionLost
    \/ \E n \in 1..kTempBufSize : DoRead(n)
    \/ DecodeNoFlag \/ DecodeWaits \/ DecodeBadLength \/ DecodeUnknown
    \/ DecodeReturns \/ DecodeFails \/ DecodeMisled

Spec == Init /\ [][Next]_vars

-----------------------------------------------------------------------------
(* The messages decode() is to return. *)
Good(m) == ~BadLength(m) /\ ((msgbus /\ ~m.base) \/ (m.known /\ m.parses))

(* A message that is skipped, and whose content looks like a header. *)
Misleading(m) == ~Good(m) /\ m.marks # {}

Unparsable(m) == ~BadLength(m) /\ ~(msgbus /\ ~m.base) /\ m.known /\ ~m.parses

(* The good frames whose last byte has been read. *)
GoodReceived ==
    {n \in 1..Len(sent) : Good(sent[n]) /\ \E i \in 1..Len(received) :
                                received[i] = <<n, PacSize(sent[n])>>}

PostedFrames == {posted[i].frame : i \in 1..Len(posted)}

(* readBuffer_ holds the last of the bytes that were read, unchanged and   *)
(* in order, however append() moves and grows it.                          *)
TailOfStream ==
    /\ readableBytes(readBuffer_) <= Len(received)
    /\ peek(readBuffer_) = SubSeq(received, Len(received) - readableBytes(readBuffer_) + 1,
                                  Len(received))

(* However the stream is cut into reads, doRead() has handed on exactly    *)
(* the good messages that have arrived when it reads again.  This is about *)
(* one connection, and content that parses; messages the receiver does not *)
(* know and flags inside known messages do no harm.                        *)
Exact ==
    (/\ pc = "read" /\ losses = 0
     /\ \A n \in 1..Len(sent) : ~Misleading(sent[n]) /\ ~Unparsable(sent[n]))
    => PostedFrames = GoodReceived /\ Len(posted) = Cardinality(GoodReceived)

(* Content that does not parse delays the messages behind it, it does not  *)
(* lose them: a good message that has arrived was handed on or is still in *)
(* readBuffer_ as a whole, and decode() is at no byte inside of it.        *)
NothingSkipped ==
    (losses = 0 /\ \A n \in 1..Len(sent) : ~Misleading(sent[n]))
    => \A n \in GoodReceived \ PostedFrames :
           \E i \in 1..readableBytes(readBuffer_) : peek(readBuffer_)[i] = <<n, 1>>

(* Messages are handed on in the order they were sent, none twice and none *)
(* that is not good, also over lost connections.  A lost connection mixes  *)
(* up at most one message, unless decode() was misled.                     *)
OrderKept ==
    /\ \A i, j \in 1..Len(posted) :
           i < j /\ posted[i].intact /\ posted[j].intact
               => posted[i].frame < posted[j].frame
    /\ \A i \in 1..Len(posted) : posted[i].intact => Good(sent[posted[i].frame])
    /\ ~misled => Cardinality({i \in 1..Len(posted) : ~posted[i].intact}) <= losses

(* While decode() fails at nothing, readBuffer_ stays within the largest   *)
(* frame and two reads: makeSpace() uses the bytes in front again before   *)
(* it grows.                                                               *)
BufferBound ==
    ~failed /\ ~misled =>
        \/ Len(readBuffer_.buffer_) <= kInitialSize
        \/ \E m \in Messages :
              Len(readBuffer_.buffer_) <= PacSize(m) + 2 * kTempBufSize - 2
=============================================================================
