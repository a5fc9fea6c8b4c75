---------------------------- MODULE CodecProofs -----------------------------
(***************************************************************************)
(* Theorems about Codec, for any messages, any lengths of header, reads    *)
(* and memory, any cutting of the stream and any number of lost            *)
(* connections.  readBuffer_ holds the bytes as they were read, and does   *)
(* not grow beyond the largest frame and two reads.  decode() hands on     *)
(* good messages only, in order and none twice; on one connection it       *)
(* passes over none, and hands on exactly those that have arrived.         *)
(***************************************************************************)
EXTENDS Codec, BufferProofs, FiniteSetTheorems, WellFoundedInduction

Byte == Cell \cup {NUL}

(* The bytes of frames that were sent. *)
SentCell == (1..Len(sent)) \X Nat

(* All bytes come from frames that were sent. *)
FromSent == wire \in Seq(SentCell) /\ received \in Seq(SentCell)

(* What doRead() leaves in readBuffer_ is less than a frame. *)
LessThanFrame ==
    pc = "read" /\ ~failed /\ ~misled =>
        \E m \in Messages : readableBytes(readBuffer_) < PacSize(m)

CodecInv ==
    TypeOK /\ FromSent /\ Holds(readBuffer_, received) /\ LessThanFrame /\ BufferBound

-----------------------------------------------------------------------------
(* A set of numbers has a least one. *)
LEMMA LeastNat ==
    ASSUME NEW T \in SUBSET Nat, T # {}
    PROVE  \E x \in T : \A y \in T : x <= y
<1>1. PICK x \in T : \A y \in T : ~(<<y, x>> \in OpToRel(<, Nat))
  BY WFMin, NatLessThanWellFounded
<1>2. ASSUME NEW y \in T PROVE x <= y
  <2>1. ~(y < x)
    BY <1>1 DEF OpToRel
  <2> QED
    BY <2>1
<1> QED
  BY <1>2

(* What gotoFlag() skips: it stops where a flag is, or where no more than  *)
(* a header is left, and there was no flag before; so the loop ends.       *)
LEMMA SkippedIs ==
    ASSUME NEW bytes, Len(bytes) \in Nat, NEW k, k = Skipped(bytes)
    PROVE  /\ k \in 0..Len(bytes)
           /\ ScanEnds(bytes, k) \/ AtFlag(bytes, k)
           /\ \A j \in 0..(k - 1) : ~ScanEnds(bytes, j) /\ ~AtFlag(bytes, j)
<1> DEFINE Stop(i) == ScanEnds(bytes, i) \/ AtFlag(bytes, i)
           T == {i \in 0..Len(bytes) : Stop(i)}
<1>1. Len(bytes) \in T
  <2>1. Len(bytes) - Len(bytes) <= HeaderSize
    BY CodecAssumption
  <2>2. ScanEnds(bytes, Len(bytes))
    BY <2>1 DEF ScanEnds
  <2> QED
    BY <2>2
<1>2. PICK x \in T : \A j \in T : x <= j
  <2>1. T \in SUBSET Nat /\ T # {}
    BY <1>1
  <2> HIDE DEF T
  <2> QED
    BY <2>1, LeastNat
<1>3. \A j \in 0..(x - 1) : ~Stop(j)
  BY <1>2
<1>4. \E i \in 0..Len(bytes) : Stop(i) /\ \A j \in 0..(i - 1) :
          ~ScanEnds(bytes, j) /\ ~AtFlag(bytes, j)
  BY <1>2, <1>3
<1> QED
  BY <1>4 DEF Skipped

(* The length of a frame is more than that of a header. *)
LEMMA PacSizeType ==
    ASSUME NEW m \in Messages
    PROVE  /\ m.name \in Nat /\ ContentSize(m) \in Nat
           /\ PacSize(m) \in Nat /\ PacSize(m) > HeaderSize
<1>1. m \in MessageType /\ m.name > 0 /\ HeaderSize \in Nat
  BY CodecAssumption
<1>2. m.name \in Nat /\ m.size \in Nat /\ m.zipSize \in Nat
  BY <1>1 DEF MessageType
<1>3. ContentSize(m) \in Nat
  BY <1>2 DEF ContentSize
<1> QED
  BY <1>1, <1>2, <1>3 DEF PacSize

(* retrieve() in general: what decode() makes of readBuffer_ is made of    *)
(* such steps.  Drops(c) says that c comes from readBuffer_ by them.       *)
Drops(c) ==
    /\ c \in Buffers(Byte)
    /\ Holds(c, received)
    /\ c.buffer_ = readBuffer_.buffer_

(* Dropping more keeps it so. *)
LEMMA DropsMore ==
    ASSUME FromSent, NEW c, Drops(c), NEW n \in Nat
    PROVE  Drops(retrieve(c, n))
<1>1. received \in Seq(SentCell)
  BY DEF FromSent
<1>2. Holds(retrieve(c, n), received)
  BY <1>1, RetrieveHolds DEF Drops
<1> QED
  BY <1>2, RetrieveParts DEF Drops

(* Peeking at a buffer. *)
LEMMA PeekIsReadable ==
    ASSUME NEW c \in Buffers(Byte)
    PROVE  /\ readableBytes(c) \in Nat
           /\ Len(peek(c)) = readableBytes(c)
           /\ \A i \in 1..readableBytes(c) : peek(c)[i] = c.buffer_[c.readerIndex_ + i]
<1> DEFINE r == c.readerIndex_
           w == c.writerIndex_
           mem == c.buffer_
<1>1. /\ mem \in Seq(Byte) /\ Len(mem) \in Nat /\ r \in Nat /\ w \in Nat
      /\ r <= w /\ w <= Len(mem) /\ readableBytes(c) = w - r /\ readableBytes(c) \in Nat
  BY BufferParts
<1>2. peek(c) = SubSeq(mem, r + 1, w)
  BY DEF peek
<1> HIDE DEF r, w, mem
<1>3. \A i \in (r + 1)..w : mem[i] \in Byte
  BY <1>1
<1> DEFINE p == SubSeq(mem, r + 1, w)
<1>4. Len(p) = IF r + 1 <= w THEN w - (r + 1) + 1 ELSE 0
  BY <1>1, <1>3, SubSeqProperties
<1>5. \A i \in 1..(w - r) : p[i] = mem[r + i]
  BY <1>1, <1>3
<1> HIDE DEF p
<1>6. Len(p) = w - r
  BY <1>1, <1>4
<1> QED
  BY <1>1, <1>2, <1>5, <1>6 DEF r, mem, p

(* After gotoFlag(). *)
LEMMA ScannedDrops ==
    ASSUME CodecInv
    PROVE  /\ Drops(readBuffer_)
           /\ Drops(Scanned)
           /\ readableBytes(Scanned) \in Nat
<1>1. Drops(readBuffer_)
  BY DEF CodecInv, TypeOK, Drops, Byte
<1>2. Len(peek(readBuffer_)) \in Nat
  BY <1>1, PeekIsReadable DEF Drops
<1>3. Skipped(peek(readBuffer_)) \in Nat
  BY <1>2, SkippedIs
<1>4. Drops(Scanned)
  BY <1>1, <1>3, DropsMore DEF Scanned, CodecInv
<1> QED
  BY <1>1, <1>4, BufferParts DEF Drops

(* The frame decode() finds was sent. *)
LEMMA FirstFrameSent ==
    ASSUME CodecInv, FoundFlag
    PROVE  FirstFrame \in 1..Len(sent) /\ Msg \in Messages
<1>1. /\ Scanned \in Buffers(Byte) /\ Holds(Scanned, received)
      /\ readableBytes(Scanned) \in Nat
  BY ScannedDrops DEF Drops
<1>2. received \in Seq(SentCell) /\ sent \in Seq(Messages)
  BY DEF CodecInv, FromSent, TypeOK
<1>3. readableBytes(Scanned) > 0
  BY <1>1, CodecAssumption DEF FoundFlag
<1> DEFINE n == readableBytes(Scanned)
           mem == Scanned.buffer_
           r == Scanned.readerIndex_
<1>4. peek(Scanned)[1] = mem[r + 1]
  BY <1>1, <1>3, PeekIsReadable
<1>5. n <= Len(received) /\ \A i \in 1..n : mem[r + i] = received[Len(received) - n + i]
  BY <1>1 DEF Holds
<1> HIDE DEF n, mem, r
<1>6. PICK k \in 1..Len(received) : k = Len(received) - n + 1
  BY <1>1, <1>2, <1>3, <1>5 DEF n
<1>7. mem[r + 1] = received[k]
  BY <1>1, <1>3, <1>5, <1>6 DEF n
<1>8. received[k] \in SentCell
  BY <1>2, <1>6
<1>9. peek(Scanned)[1][1] \in 1..Len(sent)
  BY <1>4, <1>7, <1>8 DEF SentCell
<1> QED
  BY <1>2, <1>9 DEF FirstFrame, Msg

-----------------------------------------------------------------------------
(* The initial state satisfies the invariant. *)
LEMMA InitCodecInv == Init => CodecInv
<1> SUFFICES ASSUME Init PROVE CodecInv
  OBVIOUS
<1>1. /\ NewBuffer(kInitialSize) \in Buffers(Byte)
      /\ readableBytes(NewBuffer(kInitialSize)) = 0
      /\ Len(NewBuffer(kInitialSize).buffer_) = kInitialSize
  BY NewBufferIsEmpty, CodecAssumption DEF Byte
<1>2. TypeOK
  <2>1. readBuffer_ \in Buffers(Cell \cup {NUL})
    BY <1>1 DEF Init, Byte
  <2>2. msgbus \in BOOLEAN /\ failed \in BOOLEAN /\ misled \in BOOLEAN
    BY Zenon DEF Init
  <2>3. /\ sent \in Seq(Messages) /\ wire \in Seq(Cell) /\ received \in Seq(Cell)
        /\ posted \in Seq([frame : Nat, intact : BOOLEAN])
    BY DEF Init
  <2>4. pc \in {"read", "decode"} /\ losses \in Nat
    BY DEF Init
  <2> QED
    BY <2>1, <2>2, <2>3, <2>4, Zenon DEF TypeOK
<1>3. FromSent
  BY DEF Init, FromSent
<1>4. Holds(readBuffer_, received)
  BY <1>1 DEF Init, Holds
<1>5. LessThanFrame
  <2>1. PICK m \in Messages : TRUE
    BY CodecAssumption
  <2>2. 0 < PacSize(m)
    BY PacSizeType, CodecAssumption
  <2> QED
    BY <1>1, <2>2 DEF Init, LessThanFrame
<1>6. BufferBound
  BY <1>1, CodecAssumption DEF Init, BufferBound
<1> QED
  BY <1>2, <1>3, <1>4, <1>5, <1>6 DEF CodecInv

(* A step of decode() only drops bytes. *)
LEMMA DropKeeps ==
    ASSUME CodecInv, NEW c, Drops(c), readBuffer_' = c,
           UNCHANGED <<msgbus, sent, wire, received, losses>>,
           pc' \in {"read", "decode"},
           posted' \in Seq([frame : Nat, intact : BOOLEAN]),
           failed' \in BOOLEAN, misled' \in BOOLEAN,
           ~failed' /\ ~misled' => ~failed /\ ~misled
    PROVE  TypeOK' /\ FromSent' /\ Holds(readBuffer_, received)' /\ BufferBound'
<1>1. TypeOK'
  BY DEF CodecInv, TypeOK, Drops, Byte
<1>2. FromSent'
  BY DEF CodecInv, FromSent, SentCell
<1>3. Holds(readBuffer_', received')
  BY DEF Drops
<1>4. BufferBound'
  BY DEF CodecInv, BufferBound, Drops
<1> QED
  BY <1>1, <1>2, <1>3, <1>4 DEF Holds, readableBytes

(* doRead() without a frame to return. *)
LEMMA DecodeNoFlagInv == ASSUME CodecInv, DecodeNoFlag PROVE CodecInv'
<1>1. /\ Drops(Scanned) /\ readableBytes(Scanned) \in Nat
  BY ScannedDrops
<1>2. TypeOK' /\ FromSent' /\ Holds(readBuffer_, received)' /\ BufferBound'
  BY <1>1, DropKeeps DEF DecodeNoFlag, Return, CodecInv, TypeOK
<1>3. LessThanFrame'
  <2>1. readBuffer_' = Scanned /\ ~(readableBytes(Scanned) > HeaderSize)
    BY DEF DecodeNoFlag, Return, FoundFlag
  <2>2. PICK m \in Messages : TRUE
    BY CodecAssumption
  <2>3. readableBytes(Scanned) < PacSize(m)
    BY <1>1, <2>1, PacSizeType, CodecAssumption
  <2>4. readableBytes(readBuffer_') < PacSize(m)
    BY <2>1, <2>3
  <2>5. readableBytes(readBuffer_)' = readableBytes(readBuffer_')
    BY DEF readableBytes
  <2> QED
    BY <2>4, <2>5 DEF LessThanFrame
<1> QED
  BY <1>2, <1>3 DEF CodecInv

(* A frame that is not complete: it has its own length. *)
LEMMA DecodeWaitsInv == ASSUME CodecInv, DecodeWaits PROVE CodecInv'
<1>1. Drops(Scanned)
  BY ScannedDrops
<1>2. TypeOK' /\ FromSent' /\ Holds(readBuffer_, received)' /\ BufferBound'
  BY <1>1, DropKeeps DEF DecodeWaits, Return, CodecInv, TypeOK
<1>3. LessThanFrame'
  <2>1. Msg \in Messages
    BY FirstFrameSent DEF DecodeWaits
  <2>2. readableBytes(readBuffer_') < PacSize(Msg)
    BY DEF DecodeWaits, Return, Incomplete
  <2>3. readableBytes(readBuffer_)' = readableBytes(readBuffer_')
    BY DEF readableBytes
  <2> DEFINE m == Msg
  <2>4. m \in Messages /\ readableBytes(readBuffer_)' < PacSize(m)
    BY <2>1, <2>2, <2>3
  <2> HIDE DEF m
  <2> QED
    BY <2>4 DEF LessThanFrame
<1> QED
  BY <1>2, <1>3 DEF CodecInv

(* decode() calls itself or gives up: LessThanFrame does not apply. *)
LEMMA DecodeGoesOn ==
    ASSUME CodecInv, NEW c, Drops(c), readBuffer_' = c,
           UNCHANGED <<msgbus, sent, wire, received, losses>>,
           pc' \in {"read", "decode"},
           posted' \in Seq([frame : Nat, intact : BOOLEAN]),
           failed' \in BOOLEAN, misled' \in BOOLEAN,
           ~failed' /\ ~misled' => ~failed /\ ~misled /\ pc' = "decode"
    PROVE  CodecInv'
<1>1. TypeOK' /\ FromSent' /\ Holds(readBuffer_, received)' /\ BufferBound'
  BY DropKeeps
<1>2. LessThanFrame'
  BY DEF LessThanFrame
<1> QED
  BY <1>1, <1>2 DEF CodecInv

(* decode() drops a header, or a header and a type name, and goes on. *)
LEMMA DecodeBadLengthInv == ASSUME CodecInv, DecodeBadLength PROVE CodecInv'
<1>1. Drops(retrieve(Scanned, HeaderSize))
  BY ScannedDrops, DropsMore, CodecAssumption DEF CodecInv
<1> QED
  BY <1>1, DecodeGoesOn DEF DecodeBadLength, Again, CodecInv, TypeOK

(* After the header and the type name. *)
LEMMA AfterNameDrops ==
    ASSUME CodecInv, FoundFlag
    PROVE  Drops(AfterName) /\ readableBytes(AfterName) \in Nat
<1>1. Msg.name \in Nat
  BY FirstFrameSent, PacSizeType
<1>2. Drops(retrieve(Scanned, HeaderSize))
  BY ScannedDrops, DropsMore, CodecAssumption DEF CodecInv
<1>3. Drops(AfterName)
  BY <1>1, <1>2, DropsMore DEF AfterName, CodecInv
<1> QED
  BY <1>3, BufferParts DEF Drops

(* A type the receiver does not know. *)
LEMMA DecodeUnknownInv == ASSUME CodecInv, DecodeUnknown PROVE CodecInv'
<1>1. Drops(AfterName)
  BY AfterNameDrops DEF DecodeUnknown, HasName
<1> QED
  BY <1>1, DecodeGoesOn DEF DecodeUnknown, Again, CodecInv, TypeOK

(* Content that does not parse: from here on the memory is not bounded.    *)
LEMMA DecodeFailsInv == ASSUME CodecInv, DecodeFails PROVE CodecInv'
<1>1. Drops(AfterName)
  BY AfterNameDrops DEF DecodeFails, HasName
<1> QED
  BY <1>1, DecodeGoesOn DEF DecodeFails, Return, CodecInv, TypeOK

(* What is not a header: decode() takes any number of bytes for a frame. *)
LEMMA DecodeMisledInv == ASSUME CodecInv, DecodeMisled PROVE CodecInv'
<1>1. Drops(Scanned) /\ readableBytes(Scanned) \in Nat
  BY ScannedDrops
<1>2. /\ misled' = TRUE /\ failed' = failed /\ failed \in BOOLEAN
      /\ posted \in Seq([frame : Nat, intact : BOOLEAN])
  BY DEF DecodeMisled, CodecInv, TypeOK
<1>3. CASE Return(Scanned)
  BY <1>1, <1>2, <1>3, DecodeGoesOn DEF Return
<1>4. ASSUME NEW n \in HeaderSize..readableBytes(Scanned),
             \/ Again(retrieve(Scanned, n))
             \/ Deliver(retrieve(Scanned, n), [frame |-> 0, intact |-> FALSE])
      PROVE  CodecInv'
  <2>1. n \in Nat
    BY <1>1, CodecAssumption
  <2>2. Drops(retrieve(Scanned, n))
    BY <1>1, <2>1, DropsMore DEF CodecInv
  <2>3. CASE Again(retrieve(Scanned, n))
    BY <1>2, <2>2, <2>3, DecodeGoesOn DEF Again
  <2>4. CASE Deliver(retrieve(Scanned, n), [frame |-> 0, intact |-> FALSE])
    <3>1. posted' \in Seq([frame : Nat, intact : BOOLEAN])
      BY <1>2, <2>4 DEF Deliver
    <3>2. pc' \in {"read", "decode"}
      BY <2>4 DEF Deliver
    <3> QED
      BY <1>2, <2>2, <2>4, <3>1, <3>2, DecodeGoesOn DEF Deliver
  <2> QED
    BY <1>4, <2>3, <2>4
<1> QED
  BY <1>3, <1>4 DEF DecodeMisled

(* A package is returned; doRead() reads again only if nothing is left. *)
LEMMA DecodeReturnsInv == ASSUME CodecInv, DecodeReturns PROVE CodecInv'
<1> DEFINE c == Consume(AfterName, Msg)
           pack == [frame |-> FirstFrame, intact |-> ContentIntact]
<1>1. FirstFrame \in Nat /\ Msg \in Messages /\ Drops(AfterName)
  BY FirstFrameSent, AfterNameDrops DEF DecodeReturns, HasName
<1>2. Drops(c)
  BY <1>1, PacSizeType, DropsMore DEF Consume, CodecInv
<1>3. Deliver(c, pack) /\ UNCHANGED <<failed, misled>>
  BY DEF DecodeReturns
<1>4. pack \in [frame : Nat, intact : BOOLEAN]
  <2>1. ContentIntact \in BOOLEAN
    BY Zenon DEF ContentIntact, Intact
  <2> QED
    BY <1>1, <2>1
<1> HIDE DEF c, pack
<1>5. readableBytes(c) \in Nat
  BY <1>2, BufferParts DEF Drops
<1>6. /\ posted' \in Seq([frame : Nat, intact : BOOLEAN])
      /\ pc' \in {"read", "decode"} /\ readBuffer_' = c
      /\ failed' \in BOOLEAN /\ misled' \in BOOLEAN
  BY <1>3, <1>4 DEF Deliver, CodecInv, TypeOK
<1>7. TypeOK' /\ FromSent' /\ Holds(readBuffer_, received)' /\ BufferBound'
  BY <1>2, <1>3, <1>6, DropKeeps DEF Deliver
<1>8. LessThanFrame'
  <2>1. PICK m \in Messages : TRUE
    BY CodecAssumption
  <2>2. 0 < PacSize(m)
    BY PacSizeType, CodecAssumption
  <2>3. pc' = "read" => readableBytes(c) = 0
    BY <1>3, <1>5 DEF Deliver
  <2>4. readableBytes(readBuffer_)' = readableBytes(c)
    BY <1>6 DEF readableBytes
  <2> QED
    BY <2>2, <2>3, <2>4 DEF LessThanFrame
<1> QED
  BY <1>7, <1>8 DEF CodecInv

(* A new frame: the bytes of earlier frames are still bytes of frames. *)
LEMMA SendInv == ASSUME CodecInv, NEW m \in Messages, Send(m) PROVE CodecInv'
<1> DEFINE bs == Bytes(Len(sent) + 1, m)
<1>1. /\ sent \in Seq(Messages) /\ Len(sent) \in Nat
      /\ wire \in Seq(SentCell) /\ received \in Seq(SentCell)
  BY DEF CodecInv, TypeOK, FromSent
<1>2. sent' \in Seq(Messages) /\ Len(sent') = Len(sent) + 1
  BY <1>1 DEF Send
<1>3. SentCell' = (1..Len(sent')) \X Nat
  BY DEF SentCell
<1>4. SentCell \subseteq SentCell' /\ SentCell' \subseteq Cell
  <2>1. 1..Len(sent) \subseteq 1..Len(sent') /\ 1..Len(sent') \subseteq Nat
    BY <1>1, <1>2
  <2> QED
    BY <1>3, <2>1 DEF SentCell, Cell
<1>5. bs \in Seq(SentCell')
  <2>1. PacSize(m) \in Nat
    BY PacSizeType
  <2>2. Len(sent) + 1 \in 1..Len(sent')
    BY <1>1, <1>2
  <2>3. \A i \in 1..PacSize(m) : <<Len(sent) + 1, i>> \in SentCell'
    BY <1>3, <2>1, <2>2
  <2>4. bs \in [1..PacSize(m) -> SentCell']
    BY <2>3 DEF Bytes
  <2> QED
    BY <2>1, <2>4, MemoryType
<1> HIDE DEF bs
<1>6. wire \in Seq(SentCell') /\ received \in Seq(SentCell')
  BY <1>1, <1>4, SeqMonotonic
<1>7. wire' \in Seq(SentCell')
  <2>1. wire' = wire \o bs
    BY DEF Send, bs
  <2> QED
    BY <1>5, <1>6, <2>1, ConcatProperties
<1>8. FromSent'
  BY <1>6, <1>7 DEF Send, FromSent
<1>9. wire' \in Seq(Cell)
  BY <1>4, <1>7, SeqMonotonic
<1>10. TypeOK'
  BY <1>2, <1>9 DEF Send, CodecInv, TypeOK
<1>11. Holds(readBuffer_, received)'
  BY DEF Send, CodecInv, Holds, readableBytes
<1>12. LessThanFrame' /\ BufferBound'
  BY DEF Send, CodecInv, LessThanFrame, BufferBound, readableBytes
<1> QED
  BY <1>8, <1>10, <1>11, <1>12 DEF CodecInv

(* What is on the way is lost, what was read stays. *)
LEMMA ConnectionLostInv == ASSUME CodecInv, ConnectionLost PROVE CodecInv'
<1>1. wire' \in Seq(Cell) /\ wire' \in Seq(SentCell)
  BY DEF ConnectionLost
<1>2. TypeOK'
  BY <1>1 DEF ConnectionLost, CodecInv, TypeOK
<1>3. FromSent'
  BY <1>1 DEF ConnectionLost, CodecInv, FromSent, SentCell
<1>4. Holds(readBuffer_, received)'
  BY DEF ConnectionLost, CodecInv, Holds, readableBytes
<1>5. LessThanFrame' /\ BufferBound'
  BY DEF ConnectionLost, CodecInv, LessThanFrame, BufferBound, readableBytes
<1> QED
  BY <1>2, <1>3, <1>4, <1>5 DEF CodecInv

(* A read: less than a frame was left, so the memory stays bounded. *)
LEMMA DoReadInv ==
    ASSUME CodecInv, NEW n \in 1..kTempBufSize, DoRead(n)
    PROVE  CodecInv'
<1> DEFINE data == SubSeq(wire, 1, n)
           c == append(readBuffer_, data)
<1>1. /\ wire \in Seq(SentCell) /\ received \in Seq(SentCell) /\ n \in Nat
      /\ n <= Len(wire) /\ n <= kTempBufSize /\ kTempBufSize \in Nat
      /\ wire \in Seq(Cell) /\ received \in Seq(Cell)
      /\ readBuffer_ \in Buffers(Byte) /\ Holds(readBuffer_, received)
  BY CodecAssumption DEF DoRead, CodecInv, FromSent, TypeOK, Byte
<1>2. /\ data \in Seq(SentCell) /\ Len(data) = n
      /\ SubSeq(wire, n + 1, Len(wire)) \in Seq(SentCell)
  BY <1>1
<1>3. SentCell \subseteq Cell /\ SentCell \subseteq Byte /\ NUL \in Byte
  BY DEF SentCell, Cell, Byte
<1> HIDE DEF data
<1>4. data \in Seq(Byte) /\ received \in Seq(Byte)
  BY <1>1, <1>2, <1>3, SeqMonotonic
<1>5. /\ c \in Buffers(Byte)
      /\ \/ Len(c.buffer_) = Len(readBuffer_.buffer_)
         \/ Len(c.buffer_) <= readableBytes(readBuffer_) + 2 * Len(data) - 1
      /\ Holds(c, received \o data)
  BY <1>1, <1>3, <1>4, AppendHolds
<1> HIDE DEF c
<1>6. /\ readBuffer_' = c /\ received' = received \o data
      /\ wire' = SubSeq(wire, n + 1, Len(wire)) /\ pc' = "decode" /\ pc = "read"
      /\ UNCHANGED <<msgbus, sent, posted, losses, failed, misled>>
  BY DEF DoRead, c, data
<1>7. /\ received' \in Seq(SentCell) /\ wire' \in Seq(SentCell)
      /\ received' \in Seq(Cell) /\ wire' \in Seq(Cell)
  <2>1. received' \in Seq(SentCell) /\ wire' \in Seq(SentCell)
    BY <1>1, <1>2, <1>6, ConcatProperties
  <2> QED
    BY <1>3, <2>1, SeqMonotonic
<1>8. TypeOK'
  BY <1>5, <1>6, <1>7 DEF CodecInv, TypeOK, Byte
<1>9. FromSent'
  BY <1>6, <1>7 DEF FromSent, SentCell
<1>10. Holds(readBuffer_, received)'
  <2>1. Holds(readBuffer_', received')
    BY <1>5, <1>6
  <2> QED
    BY <2>1 DEF Holds, readableBytes
<1>11. LessThanFrame'
  BY <1>6 DEF LessThanFrame
<1>12. BufferBound'
  <2> SUFFICES ASSUME ~failed, ~misled
               PROVE  \/ Len(c.buffer_) <= kInitialSize
                      \/ \E m \in Messages :
                            Len(c.buffer_) <= PacSize(m) + 2 * kTempBufSize - 2
    BY <1>6 DEF BufferBound
  <2>1. CASE Len(c.buffer_) = Len(readBuffer_.buffer_)
    BY <2>1 DEF CodecInv, BufferBound
  <2>2. CASE Len(c.buffer_) <= readableBytes(readBuffer_) + 2 * Len(data) - 1
    <3>1. PICK m \in Messages : readableBytes(readBuffer_) < PacSize(m)
      BY <1>6 DEF CodecInv, LessThanFrame
    <3>2. /\ PacSize(m) \in Nat /\ readableBytes(readBuffer_) \in Nat
          /\ Len(c.buffer_) \in Nat
      BY <1>1, <1>5, PacSizeType, BufferParts
    <3>3. Len(c.buffer_) <= PacSize(m) + 2 * kTempBufSize - 2
      BY <1>1, <1>2, <2>2, <3>1, <3>2
    <3> QED
      BY <3>3
  <2> QED
    BY <1>5, <2>1, <2>2
<1> QED
  BY <1>8, <1>9, <1>10, <1>11, <1>12 DEF CodecInv

-----------------------------------------------------------------------------
(* Every step keeps the invariant. *)
LEMMA NextCodecInv == CodecInv /\ [Next]_vars => CodecInv'
<1> SUFFICES ASSUME CodecInv, [Next]_vars PROVE CodecInv'
  OBVIOUS
<1>1. CASE \E m \in Messages : Send(m)
  BY <1>1, SendInv
<1>2. CASE ConnectionLost
  BY <1>2, ConnectionLostInv
<1>3. CASE \E n \in 1..kTempBufSize : DoRead(n)
  BY <1>3, DoReadInv
<1>4. CASE DecodeNoFlag
  BY <1>4, DecodeNoFlagInv
<1>5. CASE DecodeWaits
  BY <1>5, DecodeWaitsInv
<1>6. CASE DecodeBadLength
  BY <1>6, DecodeBadLengthInv
<1>7. CASE DecodeUnknown
  BY <1>7, DecodeUnknownInv
<1>8. CASE DecodeReturns
  BY <1>8, DecodeReturnsInv
<1>9. CASE DecodeFails
  BY <1>9, DecodeFailsInv
<1>10. CASE DecodeMisled
  BY <1>10, DecodeMisledInv
<1>11. CASE UNCHANGED vars
  <2>1. /\ TypeOK' /\ FromSent' /\ LessThanFrame' /\ BufferBound'
    BY <1>11 DEF vars, CodecInv, TypeOK, FromSent, SentCell, LessThanFrame, BufferBound,
                 readableBytes
  <2>2. Holds(readBuffer_, received)'
    BY <1>11 DEF vars, CodecInv, Holds, readableBytes
  <2> QED
    BY <2>1, <2>2 DEF CodecInv
<1> QED
  BY <1>1, <1>2, <1>3, <1>4, <1>5, <1>6, <1>7, <1>8, <1>9, <1>10, <1>11 DEF Next

(* The invariant holds for ever. *)
LEMMA AlwaysCodecInv == Spec => []CodecInv
BY InitCodecInv, NextCodecInv, PTL DEF Spec

(* What the buffer holds is what TailOfStream says. *)
LEMMA HoldsIsTail == CodecInv => TailOfStream
<1> SUFFICES ASSUME CodecInv PROVE TailOfStream
  OBVIOUS
<1> DEFINE n == readableBytes(readBuffer_)
           L == Len(received)
           p == peek(readBuffer_)
           t == SubSeq(received, L - n + 1, L)
<1>1. /\ readBuffer_ \in Buffers(Byte) /\ received \in Seq(Cell) /\ L \in Nat
      /\ Holds(readBuffer_, received)
  BY DEF CodecInv, TypeOK, Byte
<1>2. /\ n \in Nat /\ Len(p) = n
      /\ \A i \in 1..n : p[i] = readBuffer_.buffer_[readBuffer_.readerIndex_ + i]
  BY <1>1, PeekIsReadable
<1>3. /\ n <= L
      /\ \A i \in 1..n : readBuffer_.buffer_[readBuffer_.readerIndex_ + i] = received[L - n + i]
  BY <1>1 DEF Holds
<1> HIDE DEF n, L, p
<1>4. /\ t \in Seq(Cell) /\ Len(t) = n
      /\ \A i \in 1..n : t[i] = received[L - n + i]
  BY <1>1, <1>2, <1>3 DEF L
<1>5. p \in Seq(Byte) /\ t \in Seq(Byte)
  <2>1. p \in Seq(Byte)
    <3>1. /\ readBuffer_.buffer_ \in Seq(Byte) /\ readBuffer_.readerIndex_ \in Nat
          /\ readBuffer_.writerIndex_ \in Nat
          /\ readBuffer_.writerIndex_ <= Len(readBuffer_.buffer_)
      BY <1>1, BufferParts
    <3> QED
      BY <3>1 DEF p, peek
  <2>2. Cell \subseteq Byte
    BY DEF Byte
  <2> HIDE DEF t
  <2>3. t \in Seq(Byte)
    BY <1>4, <2>2, SeqMonotonic
  <2> QED
    BY <2>1, <2>3
<1> HIDE DEF t
<1>6. \A i \in 1..Len(p) : p[i] = t[i]
  BY <1>2, <1>3, <1>4
<1>7. p = t
  BY <1>2, <1>4, <1>5, <1>6, SeqEqual
<1> QED
  BY <1>3, <1>7 DEF TailOfStream, n, L, p, t

(* Type correctness: in particular the indices of readBuffer_ stay in      *)
(* order and inside its memory, whatever is appended and retrieved.        *)
THEOREM CodecTypeCorrect == Spec => []TypeOK
BY AlwaysCodecInv, PTL DEF CodecInv

(* readBuffer_ holds the last bytes that were read, in order: append(),    *)
(* retrieve() and makeSpace() neither lose nor change any of them.         *)
THEOREM BytesInOrder == Spec => []TailOfStream
<1>1. CodecInv => TailOfStream
  BY HoldsIsTail
<1> QED
  BY <1>1, AlwaysCodecInv, PTL

(* The memory of readBuffer_ stays within the largest frame and two reads  *)
(* as long as decode() meets nothing it cannot parse.                      *)
THEOREM MemoryBounded == Spec => []BufferBound
BY AlwaysCodecInv, PTL DEF CodecInv

-----------------------------------------------------------------------------
(***************************************************************************)
(* Which frames are handed on                                              *)
(***************************************************************************)

(* What was read, what is on the way, and the first byte of the next frame *)
(* to be sent.  The first Gone bytes are no longer in readBuffer_.         *)
Stream == received \o wire \o <<<<Len(sent) + 1, 1>>>>
Gone == Len(received) - readableBytes(readBuffer_)

(* The bytes come in the order of the frames, also over lost connections.  *)
Before(b, c) == b[1] < c[1] \/ (b[1] = c[1] /\ b[2] < c[2])
StreamOrdered == \A i, j \in 1..Len(Stream) : i < j => Before(Stream[i], Stream[j])

(* An intact frame that was handed on is good, and all of it is gone.      *)
PostedIsGone ==
    \A i \in 1..Len(posted) : posted[i].intact =>
        LET n == posted[i].frame IN
        /\ n \in 1..Len(sent) /\ Good(sent[n])
        /\ \E p \in 1..Gone : received[p] = <<n, 1>> /\ p + PacSize(sent[n]) - 1 <= Gone

PostedInOrder ==
    \A i, j \in 1..Len(posted) :
        i < j /\ posted[i].intact /\ posted[j].intact => posted[i].frame < posted[j].frame

(* A lost connection leaves one place in the stream where a byte is        *)
(* followed by another than the next one, and a message that is mixed up   *)
(* takes such a place out of the stream that is still to be decoded.       *)
Follows(b, c) ==
    c = IF b[2] < PacSize(sent[b[1]]) THEN <<b[1], b[2] + 1>> ELSE <<b[1] + 1, 1>>
Breaks == {p \in (Gone + 1)..(Len(Stream) - 1) : ~Follows(Stream[p], Stream[p + 1])}
Mixed == {i \in 1..Len(posted) : ~posted[i].intact}
LossesCounted == ~misled => Cardinality(Mixed) + Cardinality(Breaks) <= losses

OrderInv == StreamOrdered /\ PostedIsGone /\ PostedInOrder /\ LossesCounted

(* On one connection the stream consists of whole frames: that of its p-th *)
(* byte begins behind q.                                                   *)
FrameAt(q, n) ==
    /\ q \in Nat /\ q + PacSize(sent[n]) < Len(Stream)
    /\ \A k \in 1..PacSize(sent[n]) : Stream[q + k] = <<n, k>>
    /\ Stream[q + PacSize(sent[n]) + 1][2] = 1
WholeFrames ==
    losses = 0 => \A p \in 1..(Len(Stream) - 1) :
        /\ Stream[p][2] \in 1..PacSize(sent[Stream[p][1]])
        /\ FrameAt(p - Stream[p][2], Stream[p][1])

(* As long as there is nothing to mislead decode(), readBuffer_ starts     *)
(* with a frame or inside one that is skipped, a good frame that is gone   *)
(* was handed on, and doRead() reads again when no whole frame is left.    *)
Clean == losses = 0 /\ \A n \in 1..Len(sent) : ~Misleading(sent[n])
AtFrame == Stream[Gone + 1][2] = 1 \/ ~Good(sent[Stream[Gone + 1][1]])
GoneIsPosted ==
    \A p \in 1..Gone : Stream[p][2] = 1 /\ Good(sent[Stream[p][1]])
        => Stream[p][1] \in PostedFrames
NoneWhole ==
    pc = "read" /\ (\A n \in 1..Len(sent) : ~Unparsable(sent[n])) =>
        \A p \in (Gone + 1)..Len(received) : Stream[p][2] = 1
            => Len(received) < p + PacSize(sent[Stream[p][1]]) - 1
CleanInv == Clean => ~misled /\ AtFrame /\ GoneIsPosted /\ NoneWhole

-----------------------------------------------------------------------------
(* One element more. *)
LEMMA OneMore ==
    ASSUME NEW S, NEW s \in Seq(S), NEW e \in S
    PROVE  /\ s \o <<e>> \in Seq(S) /\ Len(s \o <<e>>) = Len(s) + 1
           /\ \A p \in 1..Len(s) : (s \o <<e>>)[p] = s[p]
           /\ (s \o <<e>>)[Len(s) + 1] = e
<1>1. s \o <<e>> = Append(s, e)
  BY AppendIsConcat
<1>2. /\ Append(s, e) \in Seq(S) /\ Len(Append(s, e)) = Len(s) + 1
      /\ \A p \in 1..Len(s) : Append(s, e)[p] = s[p]
      /\ Append(s, e)[Len(s) + 1] = e
  BY AppendProperties
<1> QED
  BY <1>1, <1>2

(* Two sequences. *)
LEMMA Glued ==
    ASSUME NEW S, NEW r \in Seq(S), NEW w \in Seq(S)
    PROVE  /\ r \o w \in Seq(S) /\ Len(r \o w) = Len(r) + Len(w)
           /\ \A p \in 1..Len(r) : (r \o w)[p] = r[p]
           /\ \A p \in 1..Len(w) : (r \o w)[Len(r) + p] = w[p]
OBVIOUS

(* Two sequences and one element more. *)
LEMMA Joined ==
    ASSUME NEW S, NEW r \in Seq(S), NEW w \in Seq(S), NEW e \in S,
           NEW t, t = r \o w \o <<e>>
    PROVE  /\ t \in Seq(S)
           /\ Len(t) = Len(r) + Len(w) + 1
           /\ \A p \in 1..Len(r) : t[p] = r[p]
           /\ \A p \in 1..Len(w) : t[Len(r) + p] = w[p]
           /\ t[Len(t)] = e
<1> DEFINE s == r \o w
<1>1. /\ s \in Seq(S) /\ Len(s) = Len(r) + Len(w)
      /\ \A p \in 1..Len(r) : s[p] = r[p]
      /\ \A p \in 1..Len(w) : s[Len(r) + p] = w[p]
  OBVIOUS
<1>2. t = s \o <<e>>
  OBVIOUS
<1>3. Len(r) \in Nat /\ Len(w) \in Nat
  OBVIOUS
<1> HIDE DEF s
<1>4. /\ t \in Seq(S) /\ Len(t) = Len(s) + 1
      /\ \A p \in 1..Len(s) : t[p] = s[p]
      /\ t[Len(s) + 1] = e
  <2>1. /\ s \o <<e>> \in Seq(S) /\ Len(s \o <<e>>) = Len(s) + 1
        /\ \A p \in 1..Len(s) : (s \o <<e>>)[p] = s[p]
        /\ (s \o <<e>>)[Len(s) + 1] = e
    BY <1>1, OneMore, Zenon
  <2> QED
    BY <1>2, <2>1, Zenon
<1>5. 1..Len(r) \subseteq 1..Len(s)
  BY <1>1, <1>3
<1>6. \A p \in 1..Len(w) : Len(r) + p \in 1..Len(s)
  BY <1>1, <1>3
<1> QED
  BY <1>1, <1>4, <1>5, <1>6

(* The stream: what was read, what is on the way, and the next frame. *)
LEMMA StreamParts ==
    ASSUME CodecInv
    PROVE  /\ Stream \in Seq(Cell)
           /\ Len(Stream) = Len(received) + Len(wire) + 1
           /\ \A p \in 1..Len(received) : Stream[p] = received[p]
           /\ \A p \in 1..Len(wire) : Stream[Len(received) + p] = wire[p]
           /\ Stream[Len(Stream)] = <<Len(sent) + 1, 1>>
           /\ \A p \in 1..(Len(Stream) - 1) : Stream[p] \in SentCell
<1> DEFINE e == <<Len(sent) + 1, 1>>
<1>1. /\ received \in Seq(SentCell) /\ wire \in Seq(SentCell)
      /\ received \in Seq(Cell) /\ wire \in Seq(Cell)
      /\ sent \in Seq(Messages) /\ Len(sent) \in Nat
      /\ Len(received) \in Nat /\ Len(wire) \in Nat
  BY DEF CodecInv, FromSent, TypeOK
<1>2. e \in Cell /\ Stream = received \o wire \o <<e>>
  BY <1>1 DEF Cell, Stream
<1> HIDE DEF e
<1>3. /\ Stream \in Seq(Cell)
      /\ Len(Stream) = Len(received) + Len(wire) + 1
      /\ \A p \in 1..Len(received) : Stream[p] = received[p]
      /\ \A p \in 1..Len(wire) : Stream[Len(received) + p] = wire[p]
      /\ Stream[Len(Stream)] = e
  BY <1>1, <1>2, Joined
<1>4. ASSUME NEW p \in 1..(Len(Stream) - 1) PROVE Stream[p] \in SentCell
  <2>1. p \in 1..Len(received) \/ p - Len(received) \in 1..Len(wire)
    BY <1>1, <1>3
  <2>2. CASE p \in 1..Len(received)
    BY <1>1, <1>3, <2>2, SMTT(60)
  <2>3. CASE p - Len(received) \in 1..Len(wire)
    <3>1. PICK k \in 1..Len(wire) : k = p - Len(received)
      BY <2>3
    <3>2. p = Len(received) + k
      BY <1>1, <3>1
    <3>3. wire[k] \in SentCell
      BY <1>1
    <3> QED
      BY <1>3, <3>2, <3>3
  <2> QED
    BY <2>1, <2>2, <2>3
<1> QED
  BY <1>3, <1>4 DEF e

(* The parts of a byte. *)
LEMMA ByteParts ==
    ASSUME CodecInv, NEW p \in 1..Len(Stream)
    PROVE  /\ Stream[p][1] \in Nat /\ Stream[p][2] \in Nat
           /\ Stream[p] = <<Stream[p][1], Stream[p][2]>>
           /\ p < Len(Stream) => Stream[p][1] \in 1..Len(sent) /\ sent[Stream[p][1]] \in Messages
<1>1. Stream[p] \in Cell
  BY StreamParts
<1>2. Stream[p][1] \in Nat /\ Stream[p][2] \in Nat /\ Stream[p] = <<Stream[p][1], Stream[p][2]>>
  BY <1>1 DEF Cell
<1>3. ASSUME p < Len(Stream) PROVE Stream[p][1] \in 1..Len(sent)
  <2>1. p \in 1..(Len(Stream) - 1)
    BY <1>3, StreamParts
  <2>2. Stream[p] \in SentCell
    BY <2>1, StreamParts
  <2> QED
    BY <2>2 DEF SentCell
<1>4. sent \in Seq(Messages)
  BY DEF CodecInv, TypeOK
<1> QED
  BY <1>2, <1>3, <1>4

(* Where a buffer starts in the stream, and what it holds. *)
GoneFrom(c) == Len(received) - readableBytes(c)

(* It holds the bytes of the stream from there to the last that was read. *)
LEMMA HeldBytes ==
    ASSUME CodecInv, NEW c, Drops(c)
    PROVE  /\ GoneFrom(c) \in Nat /\ readableBytes(c) \in Nat
           /\ GoneFrom(c) + readableBytes(c) = Len(received)
           /\ Len(received) \in Nat /\ Len(received) < Len(Stream) /\ Len(Stream) \in Nat
           /\ \A i \in 1..readableBytes(c) :
                 peek(c)[i] = Stream[GoneFrom(c) + i] /\ GoneFrom(c) + i \in 1..Len(received)
<1> DEFINE n == readableBytes(c)
           L == Len(received)
<1>1. /\ n \in Nat /\ \A i \in 1..n : peek(c)[i] = c.buffer_[c.readerIndex_ + i]
  BY PeekIsReadable DEF Drops
<1>2. n <= L /\ \A i \in 1..n : c.buffer_[c.readerIndex_ + i] = received[L - n + i]
  BY DEF Drops, Holds
<1>3. L \in Nat /\ Len(wire) \in Nat
  BY DEF CodecInv, TypeOK
<1>4. GoneFrom(c) = L - n
  BY DEF GoneFrom
<1> HIDE DEF n, L
<1>5. \A i \in 1..n : L - n + i \in 1..L
  BY <1>1, <1>2, <1>3
<1>6. \A p \in 1..L : Stream[p] = received[p]
  BY StreamParts DEF L
<1>7. \A i \in 1..n : peek(c)[i] = Stream[L - n + i]
  BY <1>1, <1>2, <1>5, <1>6
<1>8. L - n \in Nat /\ L - n + n = L /\ L < Len(Stream) /\ Len(Stream) \in Nat
  BY <1>1, <1>2, <1>3, StreamParts DEF L
<1> QED
  BY <1>1, <1>3, <1>4, <1>5, <1>7, <1>8 DEF n, L

(* retrieve() moves the start. *)
LEMMA GoneMore ==
    ASSUME CodecInv, NEW c, Drops(c), NEW n \in Nat
    PROVE  /\ Drops(retrieve(c, n))
           /\ n <= readableBytes(c) =>
                 /\ GoneFrom(retrieve(c, n)) = GoneFrom(c) + n
                 /\ readableBytes(retrieve(c, n)) = readableBytes(c) - n
           /\ GoneFrom(c) <= GoneFrom(retrieve(c, n))
<1>1. Drops(retrieve(c, n))
  BY DropsMore DEF CodecInv
<1>2. /\ n < readableBytes(c) => readableBytes(retrieve(c, n)) = readableBytes(c) - n
      /\ ~(n < readableBytes(c)) => readableBytes(retrieve(c, n)) = 0
  BY RetrieveParts DEF Drops
<1>3. readableBytes(c) \in Nat /\ Len(received) \in Nat
  BY HeldBytes
<1> QED
  BY <1>1, <1>2, <1>3 DEF GoneFrom

(* Where readBuffer_ starts after gotoFlag(). *)
LEMMA ScannedStart ==
    ASSUME CodecInv
    PROVE  \E k \in 0..readableBytes(readBuffer_) :
               /\ GoneFrom(Scanned) = Gone + k
               /\ readableBytes(Scanned) = readableBytes(readBuffer_) - k
               /\ FoundFlag => AtFlag(peek(readBuffer_), k)
               /\ \A j \in 0..(k - 1) : /\ readableBytes(readBuffer_) - j > HeaderSize
                                        /\ ~AtFlag(peek(readBuffer_), j)
<1> DEFINE b == peek(readBuffer_)
           r == readableBytes(readBuffer_)
<1>1. Drops(readBuffer_)
  BY ScannedDrops
<1>2. Len(b) = r /\ r \in Nat
  BY <1>1, PeekIsReadable DEF Drops
<1>3. PICK k : k = Skipped(b)
  OBVIOUS
<1> HIDE DEF b, r
<1>4. /\ k \in 0..r
      /\ ScanEnds(b, k) \/ AtFlag(b, k)
      /\ \A j \in 0..(k - 1) : ~ScanEnds(b, j) /\ ~AtFlag(b, j)
  BY <1>2, <1>3, SkippedIs
<1>5. Scanned = retrieve(readBuffer_, k)
  BY <1>3 DEF Scanned, b
<1>6. GoneFrom(Scanned) = Gone + k /\ readableBytes(Scanned) = r - k
  BY <1>1, <1>2, <1>4, <1>5, GoneMore DEF r, Gone, GoneFrom
<1>7. FoundFlag => ~ScanEnds(b, k)
  BY <1>2, <1>4, <1>6, CodecAssumption DEF FoundFlag, ScanEnds
<1>8. \A j \in 0..(k - 1) : r - j > HeaderSize
  BY <1>2, <1>4, CodecAssumption DEF ScanEnds
<1> QED
  BY <1>4, <1>6, <1>7, <1>8 DEF b, r

-----------------------------------------------------------------------------
(* A new frame: its bytes take the place of the first one that the stream  *)
(* ended with.                                                             *)
StreamGrows(m, L, z) ==
    /\ Len(Stream') = L + z /\ L \in Nat \ {0} /\ z \in Nat \ {0}
    /\ \A p \in 1..L : Stream'[p] = Stream[p]
    /\ \A k \in 1..z : Stream'[(L - 1) + k] = <<Len(sent) + 1, k>>
    /\ Stream'[L + z] = <<(Len(sent) + 1) + 1, 1>>
    /\ sent'[Len(sent) + 1] = m /\ Len(sent') = Len(sent) + 1 /\ Len(sent) \in Nat
    /\ \A x \in 1..Len(sent) : sent'[x] = sent[x]
    /\ Gone' = Gone

(* This is what Send() does to the stream. *)
LEMMA SendStream ==
    ASSUME CodecInv, NEW m \in Messages, Send(m),
           NEW L, L = Len(Stream), NEW z, z = PacSize(m)
    PROVE  StreamGrows(m, L, z)
<1> DEFINE bs == Bytes(Len(sent) + 1, m)
           w == wire \o bs
           e == <<(Len(sent) + 1) + 1, 1>>
<1>1. /\ received \in Seq(Cell) /\ wire \in Seq(Cell) /\ sent \in Seq(Messages)
      /\ Len(sent) \in Nat /\ Len(received) \in Nat /\ Len(wire) \in Nat
  BY DEF CodecInv, TypeOK
<1>2. sent' = Append(sent, m) /\ wire' = w /\ received' = received /\ readBuffer_' = readBuffer_
  BY DEF Send
<1>3. z \in Nat \ {0}
  BY PacSizeType, CodecAssumption
<1>4. bs \in Seq(Cell) /\ Len(bs) = z /\ \A k \in 1..z : bs[k] = <<Len(sent) + 1, k>>
  <2>1. bs = [k \in 1..z |-> <<Len(sent) + 1, k>>]
    BY DEF Bytes
  <2>2. \A k \in 1..z : <<Len(sent) + 1, k>> \in Cell
    BY <1>1, <1>3 DEF Cell
  <2>3. bs \in [1..z -> Cell]
    BY <2>1, <2>2
  <2> QED
    BY <1>3, <2>1, <2>3, MemoryType
<1>5. e \in Cell
  BY <1>1 DEF Cell
<1> HIDE DEF bs
<1>6. /\ w \in Seq(Cell) /\ Len(w) = Len(wire) + z
      /\ \A p \in 1..Len(wire) : w[p] = wire[p]
      /\ \A k \in 1..z : w[Len(wire) + k] = bs[k]
  <2>1. /\ w \in Seq(Cell) /\ Len(w) = Len(wire) + Len(bs)
        /\ \A p \in 1..Len(wire) : w[p] = wire[p]
        /\ \A k \in 1..Len(bs) : w[Len(wire) + k] = bs[k]
    <3>1. wire \in Seq(Cell) /\ bs \in Seq(Cell)
      BY <1>1, <1>4
    <3> QED
      BY <3>1, Glued
  <2> QED
    BY <1>4, <2>1
<1> HIDE DEF w, e
<1>7. Len(sent') = Len(sent) + 1 /\ sent'[Len(sent) + 1] = m
      /\ \A x \in 1..Len(sent) : sent'[x] = sent[x]
  BY <1>1, <1>2
<1>8. Stream' = received \o w \o <<e>>
  <2>1. e = <<Len(sent') + 1, 1>>
    BY <1>1, <1>7 DEF e
  <2> QED
    BY <1>2, <2>1 DEF Stream
<1>9. /\ Len(Stream') = Len(received) + Len(w) + 1
      /\ \A p \in 1..Len(received) : Stream'[p] = received[p]
      /\ \A p \in 1..Len(w) : Stream'[Len(received) + p] = w[p]
      /\ Stream'[Len(Stream')] = e
  <2>1. received \in Seq(Cell) /\ w \in Seq(Cell) /\ e \in Cell
    BY <1>1, <1>5, <1>6
  <2>2. PICK t : t = Stream'
    OBVIOUS
  <2>3. t = received \o w \o <<e>>
    BY <1>8, <2>2
  <2>4. /\ Len(t) = Len(received) + Len(w) + 1
        /\ \A p \in 1..Len(received) : t[p] = received[p]
        /\ \A p \in 1..Len(w) : t[Len(received) + p] = w[p]
        /\ t[Len(t)] = e
    BY <2>1, <2>3, Joined
  <2> QED
    BY <2>2, <2>4
<1>10. /\ L = Len(received) + Len(wire) + 1
       /\ \A p \in 1..Len(received) : Stream[p] = received[p]
       /\ \A p \in 1..Len(wire) : Stream[Len(received) + p] = wire[p]
       /\ Stream[L] = <<Len(sent) + 1, 1>>
  BY StreamParts
<1>11. Len(Stream') = L + z /\ L \in Nat \ {0}
  BY <1>1, <1>3, <1>6, <1>9, <1>10, SMTT(60)
<1>12. ASSUME NEW k \in 1..z PROVE Stream'[(L - 1) + k] = <<Len(sent) + 1, k>>
  <2>1. PICK i \in 1..Len(w) : i = Len(wire) + k
    BY <1>1, <1>3, <1>6, SMTT(60)
  <2>2. (L - 1) + k = Len(received) + i
    BY <1>1, <1>3, <1>10, <2>1
  <2>3. Stream'[(L - 1) + k] = w[i]
    BY <1>9, <2>2
  <2>4. w[i] = bs[k]
    BY <1>6, <2>1
  <2> QED
    BY <1>4, <2>3, <2>4
<1>13. ASSUME NEW p \in 1..L PROVE Stream'[p] = Stream[p]
  <2>1. CASE p \in 1..Len(received)
    BY <1>9, <1>10, <2>1
  <2>2. CASE p - Len(received) \in 1..Len(wire)
    <3>1. PICK k \in 1..Len(wire) : k = p - Len(received)
      BY <2>2
    <3>2. p = Len(received) + k /\ k \in 1..Len(w)
      BY <1>1, <1>3, <1>6, <3>1
    <3> QED
      BY <1>6, <1>9, <1>10, <3>2
  <2>3. CASE p = L
    <3>1. (L - 1) + 1 = L /\ 1 \in 1..z
      BY <1>3, <1>11
    <3> QED
      BY <1>10, <1>12, <2>3, <3>1
  <2> QED
    BY <1>1, <1>10, <2>1, <2>2, <2>3
<1>14. Gone' = Gone
  BY <1>2 DEF Gone, readableBytes
<1> QED
  BY <1>1, <1>3, <1>7, <1>9, <1>11, <1>12, <1>13, <1>14 DEF StreamGrows, e

(* A sequence cut in two. *)
LEMMA CutInTwo ==
    ASSUME NEW S, NEW w \in Seq(S), NEW n \in 1..Len(w)
    PROVE  SubSeq(w, 1, n) \o SubSeq(w, n + 1, Len(w)) = w
<1> DEFINE a == SubSeq(w, 1, n)
           b == SubSeq(w, n + 1, Len(w))
           c == a \o b
<1>1. a \in Seq(S) /\ Len(a) = n /\ \A i \in 1..n : a[i] = w[i]
  OBVIOUS
<1>2. b \in Seq(S) /\ Len(b) = Len(w) - n /\ \A i \in 1..(Len(w) - n) : b[i] = w[n + i]
  OBVIOUS
<1>3. Len(w) \in Nat /\ n \in Nat /\ n <= Len(w)
  OBVIOUS
<1> HIDE DEF a, b
<1>4. /\ c \in Seq(S) /\ Len(c) = Len(a) + Len(b)
      /\ \A p \in 1..Len(a) : c[p] = a[p]
      /\ \A p \in 1..Len(b) : c[Len(a) + p] = b[p]
  <2>1. a \in Seq(S) /\ b \in Seq(S)
    BY <1>1, <1>2
  <2> QED
    BY <2>1, Glued
<1> HIDE DEF c
<1>5. Len(c) = Len(w)
  BY <1>1, <1>2, <1>3, <1>4
<1>6. ASSUME NEW i \in 1..Len(c) PROVE c[i] = w[i]
  <2>1. CASE i <= n
    BY <1>1, <1>3, <1>4, <1>5, <2>1
  <2>2. CASE i > n
    <3>1. PICK k \in 1..(Len(w) - n) : i = n + k
      <4>1. i - n \in 1..(Len(w) - n) /\ i = n + (i - n)
        BY <1>3, <1>5, <2>2
      <4> QED
        BY <4>1
    <3> QED
      BY <1>1, <1>2, <1>4, <3>1
  <2> QED
    BY <1>3, <1>5, <2>1, <2>2
<1> QED
  BY <1>4, <1>5, <1>6, SeqEqual DEF a, b, c

(* A read leaves the stream as it is, and drops nothing. *)
LEMMA ReadStream ==
    ASSUME CodecInv, NEW n \in 1..kTempBufSize, DoRead(n)
    PROVE  /\ Stream' = Stream /\ Gone' = Gone /\ Len(received') = Len(received) + n
           /\ \A p \in 1..Len(received) : received'[p] = received[p]
<1> DEFINE a == SubSeq(wire, 1, n)
           b == SubSeq(wire, n + 1, Len(wire))
           e == <<<<Len(sent) + 1, 1>>>>
<1>1. /\ received \in Seq(Cell) /\ wire \in Seq(Cell) /\ n \in 1..Len(wire)
      /\ Len(sent) \in Nat /\ Len(received) \in Nat
      /\ readBuffer_ \in Buffers(Byte) /\ Holds(readBuffer_, received)
  BY CodecAssumption DEF CodecInv, TypeOK, DoRead, Byte
<1>2. a \in Seq(Cell) /\ Len(a) = n /\ b \in Seq(Cell)
  BY <1>1
<1>3. a \o b = wire
  BY <1>1, CutInTwo
<1>4. /\ received' = received \o a /\ wire' = b /\ sent' = sent
      /\ readBuffer_' = append(readBuffer_, a)
  BY DEF DoRead
<1> HIDE DEF a, b
<1>5. (received \o a) \o b = received \o wire
  <2>1. received \in Seq(Cell) /\ a \in Seq(Cell) /\ b \in Seq(Cell)
    BY <1>1, <1>2
  <2>2. (received \o a) \o b = received \o (a \o b)
    BY <2>1, ConcatAssociative, SMTT(60)
  <2> QED
    BY <1>3, <2>2
<1>6. Stream' = ((received \o a) \o b) \o e
  BY <1>4 DEF Stream
<1>7. Stream' = Stream
  BY <1>5, <1>6 DEF Stream
<1>8. readableBytes(append(readBuffer_, a)) = readableBytes(readBuffer_) + n
  <2>1. Cell \subseteq Byte /\ NUL \in Byte
    BY DEF Byte
  <2>2. a \in Seq(Byte) /\ received \in Seq(Byte)
    BY <1>1, <1>2, <2>1, SeqMonotonic
  <2> QED
    BY <1>1, <1>2, <2>1, <2>2, AppendHolds
<1>9. /\ Len(received') = Len(received) + n
      /\ \A p \in 1..Len(received) : received'[p] = received[p]
  <2>1. received \in Seq(Cell) /\ a \in Seq(Cell)
    BY <1>1, <1>2
  <2>2. /\ Len(received \o a) = Len(received) + Len(a)
        /\ \A p \in 1..Len(received) : (received \o a)[p] = received[p]
    BY <2>1, Glued
  <2> QED
    BY <1>2, <1>4, <2>2
<1>10. readableBytes(readBuffer_)' = readableBytes(readBuffer_) + n
  BY <1>4, <1>8 DEF readableBytes
<1>11. readableBytes(readBuffer_) \in Nat
  BY <1>1, BufferParts
<1> QED
  BY <1>1, <1>7, <1>9, <1>10, <1>11 DEF Gone

(* Behind what was read comes the next frame when a connection is lost. *)
LEMMA LostStream ==
    ASSUME CodecInv, ConnectionLost
    PROVE  /\ Len(Stream') = Len(received) + 1 /\ Len(received) \in Nat
           /\ \A p \in 1..Len(received) : Stream'[p] = Stream[p]
           /\ Stream'[Len(received) + 1] = <<Len(sent) + 1, 1>>
           /\ Gone' = Gone
<1> DEFINE e == <<Len(sent) + 1, 1>>
<1>1. received \in Seq(Cell) /\ Len(sent) \in Nat /\ Len(received) \in Nat /\ e \in Cell
  BY DEF CodecInv, TypeOK, Cell
<1>2. wire' = <<>> /\ received' = received /\ sent' = sent /\ readBuffer_' = readBuffer_
  BY DEF ConnectionLost
<1>3. received \o <<>> = received
  BY <1>1, ConcatEmptySeq
<1>4. Stream' = received \o <<e>>
  BY <1>2, <1>3 DEF Stream
<1> HIDE DEF e
<1>5. /\ Len(Stream') = Len(received) + 1
      /\ \A p \in 1..Len(received) : Stream'[p] = received[p]
      /\ Stream'[Len(received) + 1] = e
  <2>1. /\ received \o <<e>> \in Seq(Cell) /\ Len(received \o <<e>>) = Len(received) + 1
        /\ \A p \in 1..Len(received) : (received \o <<e>>)[p] = received[p]
        /\ (received \o <<e>>)[Len(received) + 1] = e
    <3>1. received \in Seq(Cell) /\ e \in Cell
      BY <1>1
    <3> QED
      BY <3>1, OneMore, Zenon
  <2> QED
    BY <1>4, <2>1, Zenon
<1>6. Gone' = Gone
  BY <1>2 DEF Gone, readableBytes
<1> QED
  BY <1>1, <1>5, <1>6, StreamParts DEF e

-----------------------------------------------------------------------------
(* Counting: what is added to one set is taken out of the other. *)
LEMMA CountStep ==
    ASSUME NEW M, NEW B, NEW N, NEW C, NEW k \in Nat,
           IsFiniteSet(M), IsFiniteSet(B), Cardinality(M) + Cardinality(B) <= k,
           \/ N \subseteq M /\ C \subseteq B
           \/ \E x, p : N \subseteq M \cup {x} /\ p \in B /\ C \subseteq B \ {p}
    PROVE  Cardinality(N) + Cardinality(C) <= k
<1>1. Cardinality(M) \in Nat /\ Cardinality(B) \in Nat
  BY FS_CardinalityType
<1>2. CASE N \subseteq M /\ C \subseteq B
  <2>1. /\ Cardinality(N) <= Cardinality(M) /\ Cardinality(C) <= Cardinality(B)
        /\ IsFiniteSet(N) /\ IsFiniteSet(C)
    BY <1>2, FS_Subset
  <2>2. Cardinality(N) \in Nat /\ Cardinality(C) \in Nat
    BY <2>1, FS_CardinalityType
  <2> QED
    BY <1>1, <2>1, <2>2
<1>3. ASSUME NEW x, NEW p, N \subseteq M \cup {x}, p \in B, C \subseteq B \ {p}
      PROVE  Cardinality(N) + Cardinality(C) <= k
  <2>1. /\ IsFiniteSet(M \cup {x}) /\ Cardinality(M \cup {x}) <= Cardinality(M) + 1
    <3>1. /\ IsFiniteSet(M \cup {x})
          /\ Cardinality(M \cup {x}) = IF x \in M THEN Cardinality(M) ELSE Cardinality(M) + 1
      BY FS_AddElement
    <3> QED
      BY <1>1, <3>1
  <2>2. IsFiniteSet(B \ {p}) /\ Cardinality(B \ {p}) = Cardinality(B) - 1
    BY <1>3, FS_RemoveElement
  <2>3. /\ Cardinality(N) <= Cardinality(M \cup {x}) /\ Cardinality(C) <= Cardinality(B \ {p})
        /\ IsFiniteSet(N) /\ IsFiniteSet(C)
    BY <1>3, <2>1, <2>2, FS_Subset
  <2>4. Cardinality(N) \in Nat /\ Cardinality(C) \in Nat /\ Cardinality(M \cup {x}) \in Nat
    BY <2>1, <2>3, FS_CardinalityType
  <2> QED
    BY <1>1, <2>1, <2>2, <2>3, <2>4
<1> QED
  BY <1>2, <1>3

(* The sets that are counted are finite. *)
LEMMA Finite ==
    ASSUME CodecInv
    PROVE  IsFiniteSet(Mixed) /\ IsFiniteSet(Breaks) /\ losses \in Nat
<1>1. IsFiniteSet(1..Len(posted)) /\ Mixed \subseteq 1..Len(posted)
  BY FS_Interval DEF CodecInv, TypeOK, Mixed
<1>2. Gone + 1 \in Int /\ Len(Stream) - 1 \in Int
  BY ScannedDrops, HeldBytes DEF Gone, GoneFrom
<1>3. IsFiniteSet((Gone + 1)..(Len(Stream) - 1))
  BY <1>2, FS_Interval
<1>4. Breaks \subseteq (Gone + 1)..(Len(Stream) - 1)
  BY DEF Breaks
<1> QED
  BY <1>1, <1>3, <1>4, FS_Subset DEF CodecInv, TypeOK

(* A step of decode() that leaves buffer c. *)
Decodes(c) ==
    /\ Drops(c) /\ Gone <= GoneFrom(c) /\ readBuffer_' = c
    /\ UNCHANGED <<msgbus, sent, wire, received, losses>>

(* It drops the bytes before GoneFrom(c), and the breaks between them. *)
LEMMA DecodesStream ==
    ASSUME CodecInv, NEW c, Decodes(c)
    PROVE  /\ Stream' = Stream /\ Gone' = GoneFrom(c) /\ Gone \in Nat /\ Gone' \in Nat
           /\ Gone <= Gone' /\ Gone' <= Len(received) /\ Len(received) < Len(Stream)
           /\ Len(received) \in Nat /\ Len(Stream) \in Nat
           /\ Breaks' = {p \in Breaks : p > Gone'}
           /\ \A m : Good(m)' <=> Good(m)
<1>1. Stream' = Stream /\ Gone' = GoneFrom(c)
  BY DEF Decodes, Stream, Gone, GoneFrom, readableBytes
<1>2. Gone = GoneFrom(readBuffer_) /\ Drops(readBuffer_)
  BY ScannedDrops DEF Gone, GoneFrom
<1>3. /\ Gone \in Nat /\ Gone' \in Nat /\ Gone <= Gone' /\ Gone' <= Len(received)
      /\ Len(received) < Len(Stream) /\ Len(received) \in Nat /\ Len(Stream) \in Nat
  BY <1>1, <1>2, HeldBytes DEF Decodes
<1>4. Breaks' = {p \in (Gone' + 1)..(Len(Stream) - 1) : ~Follows(Stream[p], Stream[p + 1])}
  BY <1>1 DEF Breaks, Follows, Decodes
<1>5. Breaks' = {p \in Breaks : p > Gone'}
  BY <1>3, <1>4 DEF Breaks
<1>6. \A m : Good(m)' <=> Good(m)
  BY DEF Good, Decodes
<1> QED
  BY <1>1, <1>3, <1>5, <1>6

(* What decode() hands on when it leaves buffer c: an intact frame is good *)
(* and starts behind Gone, a mixed one has a break in it.                  *)
StartsFrom(n, c) ==
    \E p \in 1..GoneFrom(c) :
        Gone < p /\ received[p] = <<n, 1>> /\ p + PacSize(sent[n]) - 1 <= GoneFrom(c)
HandsOn(pack, c) ==
    /\ pack \in [frame : Nat, intact : BOOLEAN]
    /\ posted' = Append(posted, pack)
    /\ pack.intact => /\ pack.frame \in 1..Len(sent) /\ Good(sent[pack.frame])
                      /\ StartsFrom(pack.frame, c)
    /\ ~pack.intact /\ ~misled' => \E p \in Breaks : p <= GoneFrom(c)

(* decode() keeps the order. *)
LEMMA DecodesInOrder ==
    ASSUME CodecInv, OrderInv, NEW c, Decodes(c), misled => misled',
           posted' = posted \/ \E pack : HandsOn(pack, c)
    PROVE  OrderInv'
<1>1. /\ Stream' = Stream /\ Gone' = GoneFrom(c) /\ Gone \in Nat /\ Gone' \in Nat
      /\ Gone <= Gone' /\ Gone' <= Len(received) /\ Len(received) < Len(Stream)
      /\ Len(received) \in Nat /\ Len(Stream) \in Nat
  BY DecodesStream
<1>2. Breaks' = {p \in Breaks : p > Gone'} /\ \A m : Good(m)' <=> Good(m)
  BY DecodesStream
<1>3. /\ sent' = sent /\ received' = received /\ losses' = losses
      /\ posted \in Seq([frame : Nat, intact : BOOLEAN]) /\ Len(posted) \in Nat
  BY DEF Decodes, CodecInv, TypeOK
<1>4. StreamOrdered'
  BY <1>1 DEF OrderInv, StreamOrdered, Before
<1>5. IsFiniteSet(Mixed) /\ IsFiniteSet(Breaks) /\ losses \in Nat
  BY Finite
<1>6. \A i \in 1..Len(posted) : posted[i].intact =>
          /\ posted[i].frame \in 1..Len(sent) /\ Good(sent[posted[i].frame])
          /\ \E p \in 1..Gone : /\ received[p] = <<posted[i].frame, 1>>
                                /\ p + PacSize(sent[posted[i].frame]) - 1 <= Gone
  BY DEF OrderInv, PostedIsGone
<1>7. ASSUME NEW i \in 1..Len(posted), posted[i].intact
      PROVE  /\ posted[i].frame \in 1..Len(sent) /\ Good(sent[posted[i].frame])
             /\ \E p \in 1..Gone' : /\ received[p] = <<posted[i].frame, 1>>
                                    /\ p + PacSize(sent[posted[i].frame]) - 1 <= Gone'
  <2>1. posted[i].frame \in 1..Len(sent) /\ Good(sent[posted[i].frame])
    BY <1>6, <1>7
  <2>2. PICK p \in 1..Gone : /\ received[p] = <<posted[i].frame, 1>>
                             /\ p + PacSize(sent[posted[i].frame]) - 1 <= Gone
    BY <1>6, <1>7
  <2>3. sent[posted[i].frame] \in Messages
    BY <2>1 DEF CodecInv, TypeOK
  <2>4. PacSize(sent[posted[i].frame]) \in Nat
    BY <2>3, PacSizeType
  <2>5. p \in 1..Gone' /\ p + PacSize(sent[posted[i].frame]) - 1 <= Gone'
    BY <1>1, <2>2, <2>4
  <2> QED
    BY <2>1, <2>2, <2>5
<1>8. CASE posted' = posted
  <2>1. PostedIsGone'
    BY <1>2, <1>3, <1>7, <1>8 DEF PostedIsGone
  <2>2. PostedInOrder'
    BY <1>8 DEF OrderInv, PostedInOrder
  <2>3. LossesCounted'
    <3> SUFFICES ASSUME ~misled'
                 PROVE  Cardinality(Mixed') + Cardinality(Breaks') <= losses
      BY <1>3 DEF LossesCounted
    <3>1. Cardinality(Mixed) + Cardinality(Breaks) <= losses
      BY DEF OrderInv, LossesCounted
    <3>2. Mixed' \subseteq Mixed
      BY <1>8 DEF Mixed
    <3>3. Breaks' \subseteq Breaks
      BY <1>2
    <3> QED
      BY <1>5, <3>1, <3>2, <3>3, CountStep
  <2> QED
    BY <1>4, <2>1, <2>2, <2>3 DEF OrderInv
<1>9. ASSUME NEW pack, HandsOn(pack, c) PROVE OrderInv'
  <2> DEFINE N == Len(posted) + 1
  <2>1. /\ Len(posted') = N /\ posted'[N] = pack /\ N \in Nat
        /\ \A i \in 1..Len(posted) : posted'[i] = posted[i]
        /\ \A i \in 1..N : i = N \/ i \in 1..Len(posted)
    BY <1>3, <1>9 DEF HandsOn
  <2> HIDE DEF N
  <2>2. ASSUME pack.intact
        PROVE  /\ pack.frame \in 1..Len(sent) /\ Good(sent[pack.frame])
               /\ \E p \in 1..Gone' : /\ Gone < p /\ received[p] = <<pack.frame, 1>>
                                      /\ p + PacSize(sent[pack.frame]) - 1 <= Gone'
    BY <1>1, <1>9, <2>2 DEF HandsOn, StartsFrom
  <2>3. PostedIsGone'
    <3> SUFFICES ASSUME NEW i \in 1..N, posted'[i].intact
                 PROVE  /\ posted'[i].frame \in 1..Len(sent) /\ Good(sent[posted'[i].frame])
                        /\ \E p \in 1..Gone' :
                              /\ received[p] = <<posted'[i].frame, 1>>
                              /\ p + PacSize(sent[posted'[i].frame]) - 1 <= Gone'
      BY <1>2, <1>3, <2>1 DEF PostedIsGone
    <3>1. CASE i = N
      BY <2>1, <2>2, <3>1
    <3>2. CASE i \in 1..Len(posted)
      BY <1>7, <2>1, <3>2
    <3> QED
      BY <2>1, <3>1, <3>2
  <2>4. PostedInOrder'
    <3> SUFFICES ASSUME NEW i \in 1..N, NEW j \in 1..N, i < j,
                        posted'[i].intact, posted'[j].intact
                 PROVE  posted'[i].frame < posted'[j].frame
      BY <2>1 DEF PostedInOrder
    <3>1. i \in 1..Len(posted)
      BY <1>3, <2>1 DEF N
    <3>2. CASE j \in 1..Len(posted)
      BY <2>1, <3>1, <3>2 DEF OrderInv, PostedInOrder
    <3>3. CASE j = N
      <4>1. posted'[j] = pack /\ posted'[i] = posted[i]
        BY <2>1, <3>1, <3>3
      <4>2. PICK q \in 1..Gone' : Gone < q /\ received[q] = <<pack.frame, 1>>
        BY <2>2, <4>1
      <4>3. PICK p \in 1..Gone : received[p] = <<posted[i].frame, 1>>
        BY <1>6, <3>1, <4>1
      <4>4. /\ p \in 1..Len(received) /\ q \in 1..Len(received) /\ p < q
            /\ p \in 1..Len(Stream) /\ q \in 1..Len(Stream)
        BY <1>1, <4>2, <4>3
      <4>5. Before(Stream[p], Stream[q])
        BY <4>4 DEF OrderInv, StreamOrdered
      <4>6. Before(<<posted[i].frame, 1>>, <<pack.frame, 1>>)
        BY <4>2, <4>3, <4>4, <4>5, StreamParts
      <4> QED
        BY <4>1, <4>6 DEF Before
    <3> QED
      BY <2>1, <3>2, <3>3
  <2>5. LossesCounted'
    <3> SUFFICES ASSUME ~misled'
                 PROVE  Cardinality(Mixed') + Cardinality(Breaks') <= losses
      BY <1>3 DEF LossesCounted
    <3>1. Cardinality(Mixed) + Cardinality(Breaks) <= losses
      BY DEF OrderInv, LossesCounted
    <3>2. Mixed' \subseteq Mixed \cup {N}
      BY <2>1 DEF Mixed
    <3>3. CASE pack.intact
      <4>1. Mixed' \subseteq Mixed
        BY <2>1, <3>3 DEF Mixed
      <4>2. Breaks' \subseteq Breaks
        BY <1>2
      <4> QED
        BY <1>5, <3>1, <4>1, <4>2, CountStep
    <3>4. CASE ~pack.intact
      <4>1. PICK p \in Breaks : p <= Gone'
        BY <1>1, <1>9, <3>4 DEF HandsOn
      <4>2. p \in Nat
        BY <1>1, <4>1 DEF Breaks
      <4>3. Breaks' \subseteq Breaks \ {p}
        BY <1>1, <1>2, <4>1, <4>2
      <4> QED
        BY <1>5, <3>1, <3>2, <4>1, <4>3, CountStep
    <3> QED
      BY <3>3, <3>4
  <2> QED
    BY <1>4, <2>3, <2>4, <2>5 DEF OrderInv
<1> QED
  BY <1>8, <1>9

(* The frame that decode() finds: it starts at the flag, behind g bytes,   *)
(* and is gone up to its name or its end when decode() is done with it.    *)
LEMMA FrameFound ==
    ASSUME CodecInv, FoundFlag, NEW g, g = GoneFrom(Scanned), NEW z, z = PacSize(Msg)
    PROVE  /\ g \in Nat /\ Gone \in Nat /\ Gone <= g /\ readableBytes(Scanned) \in Nat
           /\ g + readableBytes(Scanned) = Len(received) /\ Len(received) < Len(Stream)
           /\ Len(Stream) \in Nat /\ Len(received) \in Nat
           /\ readableBytes(Scanned) > HeaderSize /\ HeaderSize \in Nat /\ HeaderSize > 1
           /\ FirstFrame \in 1..Len(sent) /\ FirstFrame \in Nat /\ Msg = sent[FirstFrame]
           /\ Msg \in Messages
           /\ z \in Nat /\ z > HeaderSize /\ Msg.name \in Nat /\ Msg.name > 0
           /\ ContentSize(Msg) \in Nat
           /\ z = HeaderSize + Msg.name + ContentSize(Msg)
           /\ FirstFrame = Stream[g + 1][1]
           /\ \A k \in 1..readableBytes(Scanned) :
                 peek(Scanned)[k] = Stream[g + k] /\ g + k \in 1..Len(received)
<1>1. Drops(Scanned) /\ Drops(readBuffer_) /\ Gone = GoneFrom(readBuffer_)
  BY ScannedDrops DEF Gone, GoneFrom
<1>2. /\ g \in Nat /\ Gone \in Nat /\ readableBytes(Scanned) \in Nat
      /\ g + readableBytes(Scanned) = Len(received) /\ Len(received) < Len(Stream)
      /\ Len(Stream) \in Nat /\ Len(received) \in Nat
      /\ \A k \in 1..readableBytes(Scanned) :
            peek(Scanned)[k] = Stream[g + k] /\ g + k \in 1..Len(received)
  BY <1>1, HeldBytes
<1>3. Gone <= g
  <2>1. PICK k \in 0..readableBytes(readBuffer_) : g = Gone + k
    BY ScannedStart
  <2>2. k \in Nat
    BY <1>1, HeldBytes, <2>1
  <2> QED
    BY <1>2, <2>1, <2>2
<1>4. readableBytes(Scanned) > HeaderSize /\ HeaderSize \in Nat /\ HeaderSize > 1
  BY CodecAssumption DEF FoundFlag
<1>5. FirstFrame \in 1..Len(sent) /\ Msg = sent[FirstFrame] /\ Msg \in Messages
  BY FirstFrameSent DEF Msg
<1>6. Len(sent) \in Nat
  BY DEF CodecInv, TypeOK
<1>7. /\ z \in Nat /\ z > HeaderSize /\ Msg.name \in Nat /\ Msg.name > 0
      /\ ContentSize(Msg) \in Nat /\ z = HeaderSize + Msg.name + ContentSize(Msg)
  BY <1>5, PacSizeType, CodecAssumption DEF PacSize
<1>8. FirstFrame = Stream[g + 1][1]
  <2>1. 1 \in 1..readableBytes(Scanned)
    BY <1>2, <1>4
  <2> QED
    BY <1>2, <2>1 DEF FirstFrame
<1> QED
  BY <1>2, <1>3, <1>4, <1>5, <1>6, <1>7, <1>8, SMTT(60)

(* A frame whose header is intact starts with its first byte, and if it is *)
(* complete without being intact there is a break in it.                   *)
LEMMA FrameStarts ==
    ASSUME CodecInv, FoundFlag, HeaderIntact, NEW g, g = GoneFrom(Scanned)
    PROVE  Stream[g + 1] = <<FirstFrame, 1>>
<1>1. 1 \in 1..HeaderSize /\ 1 \in 1..readableBytes(Scanned)
  BY FrameFound, SMTT(60)
<1>2. peek(Scanned)[1] = <<FirstFrame, 1>>
  BY <1>1 DEF HeaderIntact, Intact
<1> QED
  BY <1>1, <1>2, FrameFound

WholeFrom(g, z) == \A k \in 1..z : Stream[g + k] = <<FirstFrame, k>>

(* Where the bytes of a complete frame are not its own, some byte is not   *)
(* followed by the next one.                                               *)
LEMMA MixedHasBreak ==
    ASSUME CodecInv, FoundFlag, HeaderIntact, ~Incomplete,
           NEW g, g = GoneFrom(Scanned), NEW z, z = PacSize(Msg), ~WholeFrom(g, z)
    PROVE  \E p \in Breaks : p <= g + z
<1> DEFINE T == {k \in 1..z : Stream[g + k] # <<FirstFrame, k>>}
<1>1. /\ g \in Nat /\ Gone \in Nat /\ Gone <= g /\ readableBytes(Scanned) \in Nat
      /\ g + readableBytes(Scanned) = Len(received) /\ Len(received) < Len(Stream)
      /\ Len(Stream) \in Nat /\ Len(received) \in Nat
      /\ FirstFrame \in Nat /\ Msg = sent[FirstFrame] /\ z \in Nat
  BY FrameFound
<1>2. z <= readableBytes(Scanned)
  BY <1>1 DEF Incomplete
<1>3. \E k \in T : \A i \in T : k <= i
  <2>1. T \in SUBSET Nat /\ T # {}
    BY <1>1 DEF WholeFrom
  <2> HIDE DEF T
  <2> QED
    BY <2>1, LeastNat
<1>4. PICK k \in 2..z : k \in T /\ \A i \in T : k <= i
  <2>1. PICK k \in T : \A i \in T : k <= i
    BY <1>3
  <2>2. k # 1 /\ k \in 1..z
    BY FrameStarts
  <2>3. k \in 2..z
    BY <1>1, <2>2
  <2> QED
    BY <2>1, <2>3
<1> HIDE DEF T
<1>5. PICK i \in 1..z : i = k - 1
  BY <1>1, <1>4
<1>6. i \in Nat /\ i < z /\ i < k /\ i + 1 = k /\ (g + i) + 1 = g + k
  BY <1>1, <1>5, SMTT(60)
<1>7. i \notin T
  BY <1>4, <1>6
<1>8. Stream[g + i] = <<FirstFrame, i>> /\ Stream[(g + i) + 1] # <<FirstFrame, k>>
  BY <1>4, <1>6, <1>7 DEF T
<1>9. ~Follows(Stream[g + i], Stream[(g + i) + 1])
  <2>1. <<FirstFrame, i>>[1] = FirstFrame /\ <<FirstFrame, i>>[2] = i
    OBVIOUS
  <2>2. i < PacSize(sent[FirstFrame])
    BY <1>1, <1>6
  <2> QED
    BY <1>6, <1>8, <2>1, <2>2 DEF Follows
<1>10. g + i \in (Gone + 1)..(Len(Stream) - 1) /\ g + i <= g + z
  <2>1. i <= z /\ 1 <= i /\ i \in Nat /\ z \in Nat /\ g \in Nat
    BY <1>1
  <2>2. Gone \in Nat /\ Gone <= g
    BY <1>1
  <2>3. g + z < Len(Stream) /\ Len(Stream) \in Nat
    BY <1>1, <1>2, SMTT(60)
  <2> QED
    BY <2>1, <2>2, <2>3
<1>11. g + i \in Breaks
  BY <1>9, <1>10 DEF Breaks
<1> QED
  BY <1>10, <1>11

(* What is left when a complete frame is dropped up to its name, or all. *)
LEMMA FrameDropped ==
    ASSUME CodecInv, FoundFlag, ~Incomplete, NEW g, g = GoneFrom(Scanned)
    PROVE  /\ Drops(AfterName) /\ GoneFrom(AfterName) = g + HeaderSize + Msg.name
           /\ Drops(Consume(AfterName, Msg))
           /\ GoneFrom(Consume(AfterName, Msg)) = g + PacSize(Msg)
           /\ Drops(retrieve(Scanned, HeaderSize))
           /\ GoneFrom(retrieve(Scanned, HeaderSize)) = g + HeaderSize
<1> DEFINE c == retrieve(Scanned, HeaderSize)
           d == retrieve(c, Msg.name)
           e == retrieve(d, ContentSize(Msg))
           z == PacSize(Msg)
           r == readableBytes(Scanned)
<1>1. /\ g \in Nat /\ r \in Nat /\ HeaderSize \in Nat /\ z \in Nat
      /\ Msg.name \in Nat /\ ContentSize(Msg) \in Nat
      /\ z = HeaderSize + Msg.name + ContentSize(Msg)
  BY FrameFound
<1>2. Drops(Scanned)
  BY ScannedDrops
<1>3. z <= r
  BY <1>1 DEF Incomplete
<1> HIDE DEF z, r
<1>4. Drops(c) /\ GoneFrom(c) = g + HeaderSize /\ readableBytes(c) = r - HeaderSize
  <2>1. HeaderSize <= r
    BY <1>1, <1>3
  <2> QED
    BY <1>1, <1>2, <2>1, GoneMore DEF r
<1> HIDE DEF c
<1>5. Drops(d) /\ GoneFrom(d) = g + HeaderSize + Msg.name
      /\ readableBytes(d) = r - HeaderSize - Msg.name
  <2>1. Msg.name <= readableBytes(c)
    BY <1>1, <1>3, <1>4
  <2> QED
    BY <1>1, <1>4, <2>1, GoneMore
<1> HIDE DEF d
<1>6. Drops(e) /\ GoneFrom(e) = g + z
  <2>1. ContentSize(Msg) <= readableBytes(d)
    BY <1>1, <1>3, <1>5
  <2> QED
    BY <1>1, <1>5, <2>1, GoneMore, SMTT(60)
<1> QED
  BY <1>4, <1>5, <1>6 DEF AfterName, Consume, c, d, e, z

(* What DecodeReturns hands on. *)
LEMMA ReturnsInOrder ==
    ASSUME CodecInv, OrderInv, DecodeReturns
    PROVE  OrderInv'
<1> DEFINE c == Consume(AfterName, Msg)
           n == FirstFrame
           z == PacSize(Msg)
           pack == [frame |-> FirstFrame, intact |-> ContentIntact]
<1>1. /\ FoundFlag /\ HeaderIntact /\ ~Incomplete /\ ~BadLength(Msg)
      /\ Forwards \/ (CreatesMessage /\ MayParse)
      /\ Deliver(c, pack) /\ misled' = misled
  BY DEF DecodeReturns, HasName
<1>2. PICK g : g = GoneFrom(Scanned)
  OBVIOUS
<1>3. /\ g \in Nat /\ Gone \in Nat /\ Gone <= g
      /\ g + readableBytes(Scanned) = Len(received) /\ readableBytes(Scanned) \in Nat
      /\ n \in 1..Len(sent) /\ n \in Nat /\ Msg = sent[n] /\ z \in Nat /\ z > HeaderSize
      /\ HeaderSize \in Nat /\ Msg.name \in Nat
      /\ \A k \in 1..readableBytes(Scanned) :
            peek(Scanned)[k] = Stream[g + k] /\ g + k \in 1..Len(received)
  BY <1>1, <1>2, FrameFound
<1>4. Drops(c) /\ GoneFrom(c) = g + z
  BY <1>1, <1>2, FrameDropped
<1>5. z <= readableBytes(Scanned)
  BY <1>1, <1>3 DEF Incomplete
<1>6. ContentIntact \in BOOLEAN
  BY Zenon DEF ContentIntact, Intact
<1> HIDE DEF c, n, z
<1>7. Decodes(c)
  BY <1>1, <1>3, <1>4 DEF Decodes, Deliver
<1>8. pack \in [frame : Nat, intact : BOOLEAN] /\ pack.frame = n /\ pack.intact = ContentIntact
  BY <1>3, <1>6 DEF n
<1> HIDE DEF pack
<1>9. ASSUME ContentIntact PROVE Good(sent[n])
  BY <1>1, <1>3, <1>9 DEF Good, Forwards, CreatesMessage, MayParse
<1>10. StartsFrom(n, c)
  <2>1. Stream[g + 1] = <<n, 1>>
    BY <1>1, <1>2, FrameStarts DEF n
  <2>2. /\ g + 1 \in 1..GoneFrom(c) /\ Gone < g + 1 /\ g + 1 \in 1..Len(received)
        /\ (g + 1) + z - 1 <= GoneFrom(c)
    BY <1>3, <1>4, <1>5
  <2>3. received[g + 1] = <<n, 1>>
    BY <2>1, <2>2, StreamParts
  <2>4. z = PacSize(sent[n])
    BY <1>3 DEF z
  <2> QED
    BY <2>2, <2>3, <2>4 DEF StartsFrom
<1>11. ASSUME ~ContentIntact PROVE \E p \in Breaks : p <= GoneFrom(c)
  <2>1. PICK k \in (HeaderSize + Msg.name + 1)..z : peek(Scanned)[k] # <<n, k>>
    BY <1>5, <1>11 DEF ContentIntact, Intact, n, z
  <2>2. k \in 1..z /\ k \in 1..readableBytes(Scanned)
    BY <1>3, <1>5
  <2>3. Stream[g + k] # <<n, k>>
    BY <1>3, <2>1, <2>2
  <2>4. ~WholeFrom(g, z)
    BY <2>2, <2>3 DEF WholeFrom, n
  <2> QED
    BY <1>1, <1>2, <1>4, <2>4, MixedHasBreak DEF z
<1>12. HandsOn(pack, c)
  BY <1>1, <1>3, <1>8, <1>9, <1>10, <1>11 DEF HandsOn, Deliver
<1> QED
  BY <1>1, <1>7, <1>12, DecodesInOrder

(* The other steps of decode() only drop bytes, or are misled. *)
LEMMA ScannedDecodes ==
    ASSUME CodecInv, NEW n \in Nat, NEW c, c = retrieve(Scanned, n) \/ c = Scanned,
           readBuffer_' = c, UNCHANGED <<msgbus, sent, wire, received, losses>>
    PROVE  Decodes(c)
<1>1. Drops(Scanned) /\ Drops(readBuffer_) /\ Gone = GoneFrom(readBuffer_)
  BY ScannedDrops DEF Gone, GoneFrom
<1>2. PICK k \in 0..readableBytes(readBuffer_) : GoneFrom(Scanned) = Gone + k
  BY ScannedStart
<1>3. /\ k \in Nat /\ Gone \in Nat /\ GoneFrom(Scanned) \in Nat
      /\ GoneFrom(retrieve(Scanned, n)) \in Nat /\ Drops(retrieve(Scanned, n))
      /\ GoneFrom(Scanned) <= GoneFrom(retrieve(Scanned, n))
  <2>1. Drops(retrieve(Scanned, n)) /\ GoneFrom(Scanned) <= GoneFrom(retrieve(Scanned, n))
    BY <1>1, GoneMore
  <2>2. Gone \in Nat /\ readableBytes(readBuffer_) \in Nat /\ GoneFrom(Scanned) \in Nat
    BY <1>1, HeldBytes
  <2>3. GoneFrom(retrieve(Scanned, n)) \in Nat
    BY <2>1, HeldBytes
  <2> QED
    BY <1>2, <2>1, <2>2, <2>3
<1>4. Drops(c) /\ Gone <= GoneFrom(c)
  BY <1>1, <1>2, <1>3
<1> QED
  BY <1>4 DEF Decodes

(* What decode() is misled to is not intact, and not counted. *)
LEMMA MisledInOrder ==
    ASSUME CodecInv, OrderInv, DecodeMisled
    PROVE  OrderInv'
<1>1. misled' = TRUE /\ 0 \in Nat
  BY DEF DecodeMisled
<1>2. CASE Return(Scanned)
  <2>1. Decodes(Scanned) /\ posted' = posted
    BY <1>1, <1>2, ScannedDecodes DEF Return
  <2> QED
    BY <1>1, <2>1, DecodesInOrder
<1>3. ASSUME NEW n \in HeaderSize..readableBytes(Scanned), Again(retrieve(Scanned, n))
      PROVE  OrderInv'
  <2>1. n \in Nat
    BY ScannedDrops, CodecAssumption
  <2>2. Decodes(retrieve(Scanned, n)) /\ posted' = posted
    BY <1>3, <2>1, ScannedDecodes DEF Again
  <2> QED
    BY <1>1, <2>2, DecodesInOrder
<1>4. ASSUME NEW n \in HeaderSize..readableBytes(Scanned),
             Deliver(retrieve(Scanned, n), [frame |-> 0, intact |-> FALSE])
      PROVE  OrderInv'
  <2>1. n \in Nat
    BY ScannedDrops, CodecAssumption
  <2>2. Decodes(retrieve(Scanned, n))
    BY <1>4, <2>1, ScannedDecodes DEF Deliver
  <2>3. PICK pack : pack = [frame |-> 0, intact |-> FALSE]
    OBVIOUS
  <2>4. pack \in [frame : Nat, intact : BOOLEAN] /\ ~pack.intact
    BY <2>3
  <2>5. posted' = Append(posted, pack)
    BY <1>4, <2>3 DEF Deliver
  <2>6. HandsOn(pack, retrieve(Scanned, n))
    BY <1>1, <2>4, <2>5 DEF HandsOn
  <2> QED
    BY <1>1, <2>2, <2>6, DecodesInOrder
<1> QED
  BY <1>2, <1>3, <1>4 DEF DecodeMisled

(* The steps of decode() that hand nothing on. *)
LEMMA DropsInOrder ==
    ASSUME CodecInv, OrderInv,
           DecodeNoFlag \/ DecodeWaits \/ DecodeBadLength \/ DecodeUnknown \/ DecodeFails
    PROVE  OrderInv'
<1>1. HeaderSize \in Nat /\ misled' = misled /\ posted' = posted
  BY CodecAssumption DEF DecodeNoFlag, DecodeWaits, DecodeBadLength, DecodeUnknown, DecodeFails,
                         Return, Again
<1>2. CASE DecodeNoFlag \/ DecodeWaits
  <2>1. Decodes(Scanned)
    BY <1>1, <1>2, ScannedDecodes DEF DecodeNoFlag, DecodeWaits, Return
  <2> QED
    BY <1>1, <2>1, DecodesInOrder
<1>3. CASE DecodeBadLength
  <2>1. Decodes(retrieve(Scanned, HeaderSize))
    BY <1>1, <1>3, ScannedDecodes DEF DecodeBadLength, Again
  <2> QED
    BY <1>1, <2>1, DecodesInOrder
<1>4. CASE DecodeUnknown \/ DecodeFails
  <2>1. FoundFlag /\ ~Incomplete
    BY <1>4 DEF DecodeUnknown, DecodeFails, HasName
  <2>2. PICK g : g = GoneFrom(Scanned)
    OBVIOUS
  <2>3. /\ g \in Nat /\ Gone \in Nat /\ Gone <= g /\ Msg.name \in Nat /\ HeaderSize \in Nat
    BY <2>1, <2>2, FrameFound
  <2>4. Drops(AfterName) /\ GoneFrom(AfterName) = g + HeaderSize + Msg.name
    BY <2>1, <2>2, FrameDropped
  <2>5. Gone <= GoneFrom(AfterName)
    BY <2>3, <2>4
  <2>6. Decodes(AfterName)
    BY <1>4, <2>4, <2>5 DEF Decodes, DecodeUnknown, DecodeFails, Return, Again
  <2> QED
    BY <1>1, <2>6, DecodesInOrder
<1> QED
  BY <1>2, <1>3, <1>4

(* A new frame comes behind all others, and continues the stream. *)
LEMMA SendInOrder ==
    ASSUME CodecInv, OrderInv, NEW m \in Messages, Send(m)
    PROVE  OrderInv'
<1> DEFINE n == Len(sent) + 1
<1>1. PICK L : L = Len(Stream)
  OBVIOUS
<1>2. PICK z : z = PacSize(m)
  OBVIOUS
<1>3. /\ Len(Stream') = L + z /\ L \in Nat \ {0} /\ z \in Nat \ {0}
      /\ \A p \in 1..L : Stream'[p] = Stream[p]
      /\ \A k \in 1..z : Stream'[(L - 1) + k] = <<n, k>>
      /\ Stream'[L + z] = <<n + 1, 1>>
      /\ sent'[n] = m /\ Len(sent') = Len(sent) + 1 /\ Len(sent) \in Nat
      /\ \A x \in 1..Len(sent) : sent'[x] = sent[x]
      /\ Gone' = Gone
  <2>1. StreamGrows(m, L, z)
    BY <1>1, <1>2, SendStream
  <2> QED
    BY <2>1 DEF StreamGrows
<1>4. UNCHANGED <<msgbus, posted, received, losses, misled>>
  BY DEF Send
<1>5. n \in Nat
  BY <1>3
<1> HIDE DEF n
<1>6. ASSUME NEW p \in 1..(L + z)
      PROVE  \/ p \in 1..(L - 1)
             \/ \E k \in 1..z : p = (L - 1) + k
             \/ p = L + z
  <2>1. CASE p < L
    BY <1>3, <2>1
  <2>2. CASE L <= p /\ p < L + z
    <3>1. (p - L) + 1 \in 1..z /\ p = (L - 1) + ((p - L) + 1)
      BY <1>3, <2>2
    <3> QED
      BY <3>1
  <2> QED
    BY <1>3, <2>1, <2>2
<1>7. ASSUME NEW p \in 1..(L - 1)
      PROVE  /\ p \in 1..L /\ Stream'[p] = Stream[p] /\ Stream[p][1] \in 1..Len(sent)
             /\ Stream[p][1] \in Nat /\ Stream[p][2] \in Nat /\ Stream[p][1] < n
  <2>1. p \in 1..L /\ p < L
    BY <1>3
  <2> QED
    BY <1>1, <1>3, <2>1, ByteParts DEF n
<1>8. StreamOrdered'
  <2> SUFFICES ASSUME NEW i \in 1..(L + z), NEW j \in 1..(L + z), i < j
               PROVE  Before(Stream'[i], Stream'[j])
    BY <1>3 DEF StreamOrdered, Before
  <2>1. CASE j \in 1..(L - 1)
    <3>1. i \in 1..(L - 1) /\ i \in 1..L /\ j \in 1..L
      BY <1>3, <2>1
    <3>2. Before(Stream[i], Stream[j])
      BY <1>1, <3>1 DEF OrderInv, StreamOrdered
    <3> QED
      BY <1>3, <3>1, <3>2
  <2>2. ASSUME NEW k \in 1..z, j = (L - 1) + k PROVE Before(Stream'[i], Stream'[j])
    <3>1. Stream'[j] = <<n, k>> /\ k \in Nat
      BY <1>3, <2>2
    <3>2. CASE i \in 1..(L - 1)
      BY <1>7, <3>1, <3>2 DEF Before
    <3>3. ASSUME NEW x \in 1..z, i = (L - 1) + x PROVE Before(Stream'[i], Stream'[j])
      <4>1. Stream'[i] = <<n, x>> /\ x < k
        BY <1>3, <2>2, <3>3
      <4> QED
        BY <3>1, <4>1 DEF Before
    <3>4. i # L + z
      BY <1>3
    <3> QED
      BY <1>6, <3>2, <3>3, <3>4
  <2>3. CASE j = L + z
    <3>1. Stream'[j] = <<n + 1, 1>>
      BY <1>3, <2>3
    <3>2. CASE i \in 1..(L - 1)
      <4>1. Stream'[i][1] \in Nat /\ Stream'[i][1] < n
        BY <1>7, <3>2
      <4>2. Stream'[i][1] < n + 1
        BY <1>5, <4>1
      <4> QED
        BY <3>1, <4>2 DEF Before
    <3>3. ASSUME NEW x \in 1..z, i = (L - 1) + x PROVE Before(Stream'[i], Stream'[j])
      <4>1. Stream'[i] = <<n, x>> /\ n < n + 1
        BY <1>3, <1>5, <3>3
      <4> QED
        BY <3>1, <4>1 DEF Before
    <3> QED
      BY <1>3, <1>6, <2>3, <3>2, <3>3
  <2> QED
    BY <1>6, <2>1, <2>2, <2>3
<1>9. PostedIsGone'
  <2>1. ASSUME NEW i \in 1..Len(posted), posted[i].intact
        PROVE  /\ posted[i].frame \in 1..Len(sent') /\ Good(sent'[posted[i].frame])
               /\ \E p \in 1..Gone : /\ received[p] = <<posted[i].frame, 1>>
                                     /\ p + PacSize(sent'[posted[i].frame]) - 1 <= Gone
    <3>1. /\ posted[i].frame \in 1..Len(sent) /\ Good(sent[posted[i].frame])
          /\ \E p \in 1..Gone : /\ received[p] = <<posted[i].frame, 1>>
                                /\ p + PacSize(sent[posted[i].frame]) - 1 <= Gone
      BY <2>1 DEF OrderInv, PostedIsGone
    <3>2. posted[i].frame \in 1..Len(sent') /\ sent'[posted[i].frame] = sent[posted[i].frame]
      BY <1>3, <3>1
    <3> QED
      BY <3>1, <3>2
  <2>2. \A x : Good(x)' <=> Good(x)
    BY <1>4 DEF Good
  <2> QED
    BY <1>3, <1>4, <2>1, <2>2 DEF PostedIsGone
<1>10. PostedInOrder'
  BY <1>4 DEF OrderInv, PostedInOrder
<1>11. LossesCounted'
  <2>1. Breaks' \subseteq Breaks
    <3> DEFINE F(b, c) == c = IF b[2] < PacSize(sent'[b[1]])
                              THEN <<b[1], b[2] + 1>> ELSE <<b[1] + 1, 1>>
    <3>0. Breaks' = {p \in (Gone + 1)..(L + z - 1) : ~F(Stream'[p], Stream'[p + 1])}
      BY <1>3 DEF Breaks, Follows
    <3> SUFFICES ASSUME NEW p \in (Gone + 1)..(L + z - 1), p \notin Breaks
                 PROVE  F(Stream'[p], Stream'[p + 1])
      <4> HIDE DEF F
      <4> QED
        BY <3>0
    <3>1. Gone \in Nat
      BY ScannedDrops, HeldBytes DEF Gone, GoneFrom
    <3>2. CASE p \in 1..(L - 1)
      <4>1. Follows(Stream[p], Stream[p + 1])
        BY <1>1, <1>3, <3>1, <3>2 DEF Breaks
      <4>2. p + 1 \in 1..L
        BY <1>3, <3>2
      <4>3. Stream'[p + 1] = Stream[p + 1] /\ Stream'[p] = Stream[p]
        BY <1>3, <1>7, <3>2, <4>2
      <4>4. sent'[Stream[p][1]] = sent[Stream[p][1]]
        BY <1>3, <1>7, <3>2
      <4> QED
        BY <4>1, <4>3, <4>4 DEF Follows
    <3>3. ASSUME NEW k \in 1..z, p = (L - 1) + k PROVE F(Stream'[p], Stream'[p + 1])
      <4>1. Stream'[p] = <<n, k>> /\ sent'[n] = m
        BY <1>3, <3>3
      <4>2. CASE k < z
        <5>1. k + 1 \in 1..z /\ p + 1 = (L - 1) + (k + 1)
          BY <1>3, <3>3, <4>2
        <5>2. Stream'[p + 1] = <<n, k + 1>>
          BY <1>3, <5>1
        <5> QED
          BY <1>2, <4>1, <4>2, <5>2
      <4>3. CASE k = z
        <5>1. p + 1 = L + z /\ ~(k < z)
          BY <1>3, <3>3, <4>3
        <5>2. Stream'[p + 1] = <<n + 1, 1>>
          BY <1>3, <5>1
        <5> QED
          BY <1>2, <4>1, <5>1, <5>2
      <4> QED
        BY <1>3, <4>2, <4>3
    <3>4. p \in 1..(L + z) /\ p # L + z
      BY <1>3, <3>1
    <3> HIDE DEF F
    <3> QED
      BY <1>6, <3>2, <3>3, <3>4
  <2>2. Mixed' \subseteq Mixed
    BY <1>4 DEF Mixed
  <2>3. ASSUME ~misled PROVE Cardinality(Mixed') + Cardinality(Breaks') <= losses
    <3>1. Cardinality(Mixed) + Cardinality(Breaks) <= losses
      BY <2>3 DEF OrderInv, LossesCounted
    <3> QED
      BY <2>1, <2>2, <3>1, Finite, CountStep
  <2> QED
    BY <1>4, <2>3 DEF LossesCounted
<1> QED
  BY <1>8, <1>9, <1>10, <1>11 DEF OrderInv

(* A read changes nothing of this. *)
LEMMA ReadInOrder ==
    ASSUME CodecInv, OrderInv, NEW n \in 1..kTempBufSize, DoRead(n)
    PROVE  OrderInv'
<1>1. /\ Stream' = Stream /\ Gone' = Gone
      /\ \A p \in 1..Len(received) : received'[p] = received[p]
  BY ReadStream
<1>2. UNCHANGED <<msgbus, sent, posted, losses, misled>>
  BY DEF DoRead
<1>3. Gone \in Nat /\ Gone <= Len(received) /\ Len(received) \in Nat
  BY ScannedDrops, HeldBytes DEF Gone, GoneFrom
<1>4. StreamOrdered' /\ PostedInOrder'
  BY <1>1, <1>2 DEF OrderInv, StreamOrdered, Before, PostedInOrder
<1>5. PostedIsGone'
  <2>1. \A p \in 1..Gone : received'[p] = received[p]
    BY <1>1, <1>3
  <2>2. \A m : Good(m)' <=> Good(m)
    BY <1>2 DEF Good
  <2> QED
    BY <1>1, <1>2, <2>1, <2>2 DEF OrderInv, PostedIsGone
<1>6. LossesCounted'
  <2>1. Breaks' = Breaks /\ Mixed' = Mixed
    BY <1>1, <1>2 DEF Breaks, Mixed, Follows
  <2> QED
    BY <1>2, <2>1 DEF OrderInv, LossesCounted
<1> QED
  BY <1>4, <1>5, <1>6 DEF OrderInv

(* A lost connection makes one break, behind what was read. *)
LEMMA LostInOrder ==
    ASSUME CodecInv, OrderInv, ConnectionLost
    PROVE  OrderInv'
<1>1. PICK R : R = Len(received)
  OBVIOUS
<1>2. /\ Len(Stream') = R + 1 /\ R \in Nat
      /\ \A p \in 1..R : Stream'[p] = Stream[p]
      /\ Stream'[R + 1] = <<Len(sent) + 1, 1>>
      /\ Gone' = Gone
  BY <1>1, LostStream
<1>3. UNCHANGED <<msgbus, sent, posted, received, misled>> /\ losses' = losses + 1
  BY DEF ConnectionLost
<1>4. /\ Gone \in Nat /\ Gone <= R /\ R \in Nat /\ R < Len(Stream) /\ Len(Stream) \in Nat
      /\ Len(sent) \in Nat
  BY <1>1, ScannedDrops, HeldBytes, SMTT(60) DEF Gone, GoneFrom, CodecInv, TypeOK
<1>5. StreamOrdered'
  <2> SUFFICES ASSUME NEW i \in 1..(R + 1), NEW j \in 1..(R + 1), i < j
               PROVE  Before(Stream'[i], Stream'[j])
    BY <1>2 DEF StreamOrdered, Before
  <2>1. i \in 1..R /\ i \in 1..Len(Stream) /\ i < Len(Stream)
    BY <1>2, <1>4
  <2>2. CASE j \in 1..R
    <3>1. j \in 1..Len(Stream)
      BY <1>4, <2>2
    <3>2. Before(Stream[i], Stream[j])
      BY <2>1, <3>1 DEF OrderInv, StreamOrdered
    <3> QED
      BY <1>2, <2>1, <2>2, <3>2
  <2>3. CASE j = R + 1
    <3>1. Stream[i][1] \in 1..Len(sent)
      BY <2>1, ByteParts
    <3>2. Stream'[i][1] < Len(sent) + 1
      BY <1>2, <1>4, <2>1, <3>1
    <3> QED
      BY <1>2, <2>3, <3>2 DEF Before
  <2> QED
    BY <1>2, <2>2, <2>3
<1>6. PostedIsGone'
  <2>1. \A m : Good(m)' <=> Good(m)
    BY <1>3 DEF Good
  <2> QED
    BY <1>2, <1>3, <2>1 DEF OrderInv, PostedIsGone
<1>7. PostedInOrder'
  BY <1>3 DEF OrderInv, PostedInOrder
<1>8. LossesCounted'
  <2>1. Breaks' \subseteq Breaks \cup {R}
    <3>1. Breaks' = {p \in (Gone + 1)..((R + 1) - 1) : ~Follows(Stream'[p], Stream'[p + 1])}
      BY <1>2, <1>3 DEF Breaks, Follows
    <3> SUFFICES ASSUME NEW p \in (Gone + 1)..((R + 1) - 1), p # R,
                        ~Follows(Stream'[p], Stream'[p + 1])
                 PROVE  p \in Breaks
      BY <3>1
    <3>2. p \in 1..R /\ p + 1 \in 1..R /\ p \in (Gone + 1)..(Len(Stream) - 1)
      BY <1>2, <1>4
    <3>3. ~Follows(Stream[p], Stream[p + 1])
      BY <1>2, <3>2
    <3> QED
      BY <3>2, <3>3 DEF Breaks
  <2>2. Mixed' = Mixed
    BY <1>3 DEF Mixed
  <2>3. /\ IsFiniteSet(Mixed) /\ IsFiniteSet(Breaks) /\ losses \in Nat
    BY Finite
  <2>4. /\ IsFiniteSet(Breaks \cup {R})
        /\ Cardinality(Breaks \cup {R})
             = IF R \in Breaks THEN Cardinality(Breaks) ELSE Cardinality(Breaks) + 1
    BY <2>3, FS_AddElement
  <2>5. Cardinality(Breaks') <= Cardinality(Breaks \cup {R}) /\ IsFiniteSet(Breaks')
    BY <2>1, <2>4, FS_Subset
  <2>6. /\ Cardinality(Mixed) \in Nat /\ Cardinality(Breaks) \in Nat
        /\ Cardinality(Breaks') \in Nat
    BY <2>3, <2>5, FS_CardinalityType
  <2>7. ~misled => Cardinality(Mixed) + Cardinality(Breaks') <= losses + 1
    <3>1. ~misled => Cardinality(Mixed) + Cardinality(Breaks) <= losses
      BY DEF OrderInv, LossesCounted
    <3> QED
      BY <2>3, <2>4, <2>5, <2>6, <3>1
  <2> QED
    BY <1>3, <2>2, <2>7 DEF LossesCounted
<1> QED
  BY <1>5, <1>6, <1>7, <1>8 DEF OrderInv

(* At first there is nothing. *)
LEMMA InitOrderInv == Init => OrderInv
<1> SUFFICES ASSUME Init PROVE OrderInv
  OBVIOUS
<1>1. CodecInv
  BY InitCodecInv
<1>2. posted = <<>> /\ received = <<>> /\ wire = <<>> /\ losses = 0 /\ Len(posted) = 0
  BY DEF Init
<1>3. Len(Stream) = 1
  BY <1>1, <1>2, StreamParts
<1>4. StreamOrdered
  BY <1>3 DEF StreamOrdered
<1>5. PostedIsGone /\ PostedInOrder
  BY <1>2 DEF PostedIsGone, PostedInOrder
<1>6. Gone \in Nat
  BY <1>1, ScannedDrops, HeldBytes DEF Gone, GoneFrom
<1>7. Breaks = {} /\ Mixed = {}
  BY <1>2, <1>3, <1>6 DEF Breaks, Mixed
<1>8. LossesCounted
  BY <1>2, <1>7, FS_EmptySet DEF LossesCounted
<1> QED
  BY <1>4, <1>5, <1>8 DEF OrderInv

(* Every step keeps the order. *)
LEMMA NextOrderInv == CodecInv /\ OrderInv /\ [Next]_vars => OrderInv'
<1> SUFFICES ASSUME CodecInv, OrderInv, [Next]_vars PROVE OrderInv'
  OBVIOUS
<1>1. CASE \E m \in Messages : Send(m)
  BY <1>1, SendInOrder
<1>2. CASE ConnectionLost
  BY <1>2, LostInOrder
<1>3. CASE \E n \in 1..kTempBufSize : DoRead(n)
  BY <1>3, ReadInOrder
<1>4. CASE DecodeNoFlag \/ DecodeWaits \/ DecodeBadLength \/ DecodeUnknown \/ DecodeFails
  BY <1>4, DropsInOrder
<1>5. CASE DecodeReturns
  BY <1>5, ReturnsInOrder
<1>6. CASE DecodeMisled
  BY <1>6, MisledInOrder
<1>7. CASE UNCHANGED vars
  <2>1. Decodes(readBuffer_)
    <3>1. Drops(readBuffer_) /\ Gone = GoneFrom(readBuffer_) /\ Gone \in Nat
      BY ScannedDrops, HeldBytes DEF Gone, GoneFrom
    <3> QED
      BY <1>7, <3>1 DEF Decodes, vars
  <2> QED
    BY <1>7, <2>1, DecodesInOrder DEF vars
<1> QED
  BY <1>1, <1>2, <1>3, <1>4, <1>5, <1>6, <1>7 DEF Next

(* The order holds for ever. *)
LEMMA AlwaysOrderInv == Spec => []OrderInv
<1>1. CodecInv /\ OrderInv /\ [Next]_vars => OrderInv'
  BY NextOrderInv
<1> QED
  BY <1>1, InitOrderInv, AlwaysCodecInv, PTL DEF Spec

(* This is OrderKept: the breaks that are left count nothing less. *)
LEMMA OrderInvKeepsOrder == CodecInv /\ OrderInv => OrderKept
<1> SUFFICES ASSUME CodecInv, OrderInv PROVE OrderKept
  OBVIOUS
<1>1. \A i, j \in 1..Len(posted) :
          i < j /\ posted[i].intact /\ posted[j].intact => posted[i].frame < posted[j].frame
  BY DEF OrderInv, PostedInOrder
<1>2. \A i \in 1..Len(posted) : posted[i].intact => Good(sent[posted[i].frame])
  BY DEF OrderInv, PostedIsGone
<1>3. ~misled => Cardinality(Mixed) <= losses
  <2>1. ~misled => Cardinality(Mixed) + Cardinality(Breaks) <= losses
    BY DEF OrderInv, LossesCounted
  <2>2. Cardinality(Mixed) \in Nat /\ Cardinality(Breaks) \in Nat /\ losses \in Nat
    BY Finite, FS_CardinalityType
  <2> QED
    BY <2>1, <2>2
<1> QED
  BY <1>1, <1>2, <1>3 DEF OrderKept, Mixed

(* decode() hands on good messages only, in the order they were sent and   *)
(* none twice, however the stream is cut into reads and whatever is lost;  *)
(* as long as it is not misled it mixes up one message for each lost       *)
(* connection at most.                                                     *)
THEOREM OrderIsKept == Spec => []OrderKept
<1>1. CodecInv /\ OrderInv => OrderKept
  BY OrderInvKeepsOrder
<1> QED
  BY <1>1, AlwaysCodecInv, AlwaysOrderInv, PTL

-----------------------------------------------------------------------------
(* On one connection the stream stays a sequence of whole frames. *)
LEMMA SendWholeFrames ==
    ASSUME CodecInv, WholeFrames, NEW m \in Messages, Send(m)
    PROVE  WholeFrames'
<1> DEFINE n == Len(sent) + 1
<1>1. PICK L : L = Len(Stream)
  OBVIOUS
<1>2. PICK z : z = PacSize(m)
  OBVIOUS
<1>3. /\ Len(Stream') = L + z /\ L \in Nat \ {0} /\ z \in Nat \ {0}
      /\ \A p \in 1..L : Stream'[p] = Stream[p]
      /\ \A k \in 1..z : Stream'[(L - 1) + k] = <<n, k>>
      /\ Stream'[L + z] = <<n + 1, 1>>
      /\ sent'[n] = m /\ Len(sent') = Len(sent) + 1 /\ Len(sent) \in Nat
      /\ \A x \in 1..Len(sent) : sent'[x] = sent[x]
  <2>1. StreamGrows(m, L, z)
    BY <1>1, <1>2, SendStream
  <2> QED
    BY <2>1 DEF StreamGrows
<1> HIDE DEF n
<1> DEFINE F(q, x) == /\ q \in Nat /\ q + PacSize(sent'[x]) < Len(Stream')
                      /\ \A k \in 1..PacSize(sent'[x]) : Stream'[q + k] = <<x, k>>
                      /\ Stream'[q + PacSize(sent'[x]) + 1][2] = 1
<1> SUFFICES ASSUME losses = 0, NEW p \in 1..((L + z) - 1)
             PROVE  /\ Stream'[p][2] \in 1..PacSize(sent'[Stream'[p][1]])
                    /\ F(p - Stream'[p][2], Stream'[p][1])
  <2>1. losses' = losses
    BY DEF Send
  <2> QED
    BY <1>3, <2>1 DEF WholeFrames, FrameAt
<1>4. CASE p \in 1..(L - 1)
  <2>1. p \in 1..L /\ p < L
    BY <1>3, <1>4
  <2>2. PICK x \in 1..Len(sent) : x = Stream[p][1]
    BY <1>1, <2>1, ByteParts
  <2>3. PICK i \in 1..PacSize(sent[x]) : i = Stream[p][2] /\ FrameAt(p - i, x)
    BY <1>1, <1>4, <2>2 DEF WholeFrames
  <2>4. PICK q : q = p - i
    OBVIOUS
  <2>5. /\ q \in Nat /\ q + PacSize(sent[x]) < L
        /\ \A k \in 1..PacSize(sent[x]) : Stream[q + k] = <<x, k>>
        /\ Stream[q + PacSize(sent[x]) + 1][2] = 1
    BY <1>1, <2>3, <2>4 DEF FrameAt
  <2>6. Stream'[p] = Stream[p] /\ sent'[x] = sent[x]
    BY <1>3, <2>1
  <2>7. PICK y : y = PacSize(sent[x])
    OBVIOUS
  <2>8. y \in Nat
    <3>1. sent[x] \in Messages
      BY DEF CodecInv, TypeOK
    <3> QED
      BY <2>7, <3>1, PacSizeType
  <2>9. q + y < L + z /\ q + y + 1 \in 1..L /\ \A k \in 1..y : q + k \in 1..L
    <3>1. q \in Nat /\ q + y < L
      BY <2>5, <2>7
    <3>2. L \in Nat /\ z \in Nat
      BY <1>3
    <3> QED
      BY <2>8, <3>1, <3>2
  <2>10. /\ \A k \in 1..y : Stream'[q + k] = <<x, k>>
         /\ Stream'[q + y + 1][2] = 1
    BY <1>3, <2>5, <2>7, <2>9
  <2>11. F(q, x)
    BY <1>3, <2>5, <2>6, <2>7, <2>9, <2>10
  <2> HIDE DEF F
  <2> QED
    BY <2>2, <2>3, <2>4, <2>6, <2>11
<1>5. CASE ~(p \in 1..(L - 1))
  <2>1. PICK k \in 1..z : p = (L - 1) + k
    <3>1. (p - L) + 1 \in 1..z /\ p = (L - 1) + ((p - L) + 1)
      BY <1>3, <1>5
    <3> QED
      BY <3>1
  <2>2. Stream'[p] = <<n, k>> /\ PacSize(sent'[n]) = z
    BY <1>2, <1>3, <2>1
  <2>3. Stream'[p][1] = n /\ Stream'[p][2] = k /\ p - k = L - 1
    BY <1>3, <2>1, <2>2
  <2>4. L - 1 \in Nat /\ (L - 1) + z < L + z /\ (L - 1) + z + 1 = L + z
    BY <1>3
  <2>5. Stream'[(L - 1) + z + 1][2] = 1
    BY <1>3, <2>4
  <2>6. F(L - 1, n)
    BY <1>3, <2>2, <2>4, <2>5
  <2> HIDE DEF F
  <2> QED
    BY <2>2, <2>3, <2>6
<1> QED
  BY <1>4, <1>5

(* No other step changes the stream of one connection. *)
LEMMA NextWholeFrames == CodecInv /\ WholeFrames /\ [Next]_vars => WholeFrames'
<1> SUFFICES ASSUME CodecInv, WholeFrames, [Next]_vars PROVE WholeFrames'
  OBVIOUS
<1>1. CASE \E m \in Messages : Send(m)
  BY <1>1, SendWholeFrames
<1>2. CASE ConnectionLost
  <2>1. losses' = losses + 1 /\ losses \in Nat
    BY <1>2 DEF ConnectionLost, CodecInv, TypeOK
  <2>2. losses' # 0
    BY <2>1
  <2> QED
    BY <2>2 DEF WholeFrames
<1>3. ASSUME Stream' = Stream, sent' = sent, losses' = losses PROVE WholeFrames'
  BY <1>3 DEF WholeFrames, FrameAt
<1>4. CASE \E n \in 1..kTempBufSize : DoRead(n)
  <2>1. PICK n \in 1..kTempBufSize : DoRead(n)
    BY <1>4
  <2> QED
    BY <1>3, <2>1, ReadStream DEF DoRead
<1>5. CASE UNCHANGED <<sent, wire, received, losses>>
  BY <1>3, <1>5 DEF Stream
<1> QED
  BY <1>1, <1>2, <1>4, <1>5
     DEF Next, vars, DecodeNoFlag, DecodeWaits, DecodeBadLength, DecodeUnknown, DecodeReturns,
         DecodeFails, DecodeMisled, Return, Again, Deliver

(* Frame n of length z starts behind q. *)
StartsAt(q, n, z) ==
    /\ q \in Nat /\ n \in 1..Len(sent) /\ n \in Nat /\ sent[n] \in Messages
    /\ z \in Nat /\ z > HeaderSize /\ q + z < Len(Stream) /\ Len(Stream) \in Nat
    /\ \A k \in 1..z : Stream[q + k] = <<n, k>>
    /\ Stream[q + z + 1][2] = 1

(* So it is wherever the stream has the first byte of a frame. *)
LEMMA WholeStart ==
    ASSUME CodecInv, WholeFrames, losses = 0, NEW p \in 1..(Len(Stream) - 1), Stream[p][2] = 1,
           NEW q, q = p - 1, NEW n, n = Stream[p][1], NEW z, z = PacSize(sent[n])
    PROVE  StartsAt(q, n, z)
<1>1. Len(Stream) \in Nat /\ p \in 1..Len(Stream) /\ p < Len(Stream)
  BY StreamParts
<1>2. n \in 1..Len(sent) /\ n \in Nat /\ sent[n] \in Messages
  BY <1>1, ByteParts
<1>3. z \in Nat /\ z > HeaderSize
  BY <1>2, PacSizeType
<1>4. FrameAt(q, n)
  BY DEF WholeFrames
<1> QED
  BY <1>1, <1>2, <1>3, <1>4 DEF FrameAt, StartsAt

-----------------------------------------------------------------------------
(* The front of readBuffer_ while nothing misleads decode(). *)
FrontInv == CodecInv /\ WholeFrames /\ Clean /\ AtFrame

(* gotoFlag() passes no start of a frame. *)
LEMMA SkipsNoStart ==
    ASSUME FrontInv, NEW g, g = GoneFrom(Scanned), NEW p \in (Gone + 1)..g
    PROVE  Stream[p][2] # 1
<1> SUFFICES ASSUME Stream[p][2] = 1 PROVE FALSE
  OBVIOUS
<1> DEFINE b == peek(readBuffer_)
           r == readableBytes(readBuffer_)
<1>1. PICK k \in 0..r :
          /\ g = Gone + k
          /\ \A j \in 0..(k - 1) : r - j > HeaderSize /\ ~AtFlag(b, j)
  BY ScannedStart DEF FrontInv
<1>2. /\ Gone \in Nat /\ r \in Nat /\ Len(received) < Len(Stream) /\ Gone + r = Len(received)
      /\ Len(received) \in Nat /\ Len(Stream) \in Nat
      /\ \A i \in 1..r : b[i] = Stream[Gone + i]
  BY ScannedDrops, HeldBytes DEF FrontInv, Gone, GoneFrom
<1>3. HeaderSize \in Nat /\ HeaderSize > 1
  BY CodecAssumption
<1> HIDE DEF b, r
<1>4. PICK j \in 0..(k - 1) : p = Gone + (j + 1)
  <2>1. (p - Gone) - 1 \in 0..(k - 1) /\ p = Gone + (((p - Gone) - 1) + 1)
    BY <1>1, <1>2
  <2> QED
    BY <2>1
<1>5. r - j > HeaderSize /\ ~AtFlag(b, j) /\ j \in Nat
  BY <1>1, <1>4
<1>6. j + 1 \in 1..r /\ j + 2 \in 1..r
  BY <1>2, <1>3, <1>5
<1>7. b[j + 1] = Stream[p] /\ b[j + 2] = Stream[p + 1]
  <2>1. Gone + (j + 2) = p + 1
    BY <1>2, <1>4, <1>5
  <2> QED
    BY <1>2, <1>4, <1>6, <2>1
<1>8. p \in 1..(Len(Stream) - 1)
  BY <1>2, <1>4, <1>5, <1>6
<1>9. PICK q : q = p - 1
  OBVIOUS
<1>10. PICK n : n = Stream[p][1]
  OBVIOUS
<1>11. PICK z : z = PacSize(sent[n])
  OBVIOUS
<1>12. /\ q \in Nat /\ z \in Nat /\ z > HeaderSize
       /\ \A i \in 1..z : Stream[q + i] = <<n, i>>
  <2>1. StartsAt(q, n, z)
    BY <1>8, <1>9, <1>10, <1>11, WholeStart DEF FrontInv, Clean
  <2> QED
    BY <2>1 DEF StartsAt
<1>13. 2 \in 1..z /\ q + 2 = p + 1
  BY <1>3, <1>8, <1>9, <1>12
<1>14. Stream[p + 1] = <<n, 2>>
  BY <1>12, <1>13
<1>15. IsFlag0(b[j + 1]) /\ IsFlag1(b[j + 2])
  <2>1. b[j + 1][2] = 1 /\ b[j + 2][2] = 2
    BY <1>7, <1>14
  <2> QED
    BY <2>1 DEF IsFlag0, IsFlag1
<1> QED
  BY <1>5, <1>15 DEF AtFlag

(* After gotoFlag() readBuffer_ starts with a frame, or inside one that is *)
(* skipped.                                                                *)
LEMMA SkipsToFrame ==
    ASSUME FrontInv, NEW g, g = GoneFrom(Scanned)
    PROVE  /\ g \in Nat /\ Gone \in Nat /\ Gone <= g
           /\ g + 1 \in 1..Len(Stream) /\ Len(Stream) \in Nat
           /\ Stream[g + 1][2] = 1 \/ ~Good(sent[Stream[g + 1][1]])
<1>1. PICK k \in 0..readableBytes(readBuffer_) : g = Gone + k
  BY ScannedStart DEF FrontInv
<1>2. /\ Gone \in Nat /\ readableBytes(readBuffer_) \in Nat
      /\ Gone + readableBytes(readBuffer_) = Len(received)
      /\ Len(received) \in Nat /\ Len(received) < Len(Stream) /\ Len(Stream) \in Nat
  BY ScannedDrops, HeldBytes DEF FrontInv, Gone, GoneFrom
<1>3. /\ g \in Nat /\ Gone <= g /\ g + 1 \in 1..Len(Stream)
  BY <1>1, <1>2
<1>4. CASE g = Gone
  BY <1>2, <1>3, <1>4 DEF FrontInv, AtFrame
<1>5. ASSUME g # Gone, Stream[g + 1][2] # 1 PROVE ~Good(sent[Stream[g + 1][1]])
  <2>1. Gone + 1 \in (Gone + 1)..g
    BY <1>2, <1>3, <1>5
  <2>2. ~Good(sent[Stream[Gone + 1][1]])
    BY <2>1, SkipsNoStart DEF FrontInv, AtFrame
  <2>3. Stream[Len(Stream)][2] = 1
    BY StreamParts DEF FrontInv
  <2>4. g + 1 \in 1..(Len(Stream) - 1)
    BY <1>2, <1>3, <1>5, <2>3
  <2>5. PICK n : n = Stream[g + 1][1]
    OBVIOUS
  <2>6. PICK i \in 1..PacSize(sent[n]) : i = Stream[g + 1][2] /\ FrameAt((g + 1) - i, n)
    BY <2>4, <2>5 DEF FrontInv, WholeFrames, Clean
  <2>7. PICK q : q = (g + 1) - i
    OBVIOUS
  <2>8. PICK z : z = PacSize(sent[n])
    OBVIOUS
  <2>9. q \in Nat /\ \A k_1 \in 1..z : Stream[q + k_1] = <<n, k_1>>
    BY <2>6, <2>7, <2>8 DEF FrameAt
  <2>10. z \in Nat
    <3>1. g + 1 \in 1..Len(Stream) /\ g + 1 < Len(Stream)
      BY <1>2, <2>4
    <3>2. sent[n] \in Messages
      BY <2>5, <3>1, ByteParts DEF FrontInv
    <3> QED
      BY <2>8, <3>2, PacSizeType
  <2>11. i \in 1..z /\ i # 1
    BY <1>5, <2>6, <2>8
  <2>12. Stream[q + 1][2] = 1
    BY <2>9, <2>10, <2>11
  <2>13. q + 1 \notin (Gone + 1)..g
    BY <2>12, SkipsNoStart
  <2>14. /\ Gone \in Nat /\ g \in Nat /\ Gone <= g /\ q \in Nat /\ z \in Nat
         /\ i \in Nat /\ 1 < i /\ i <= z /\ q = (g + 1) - i
    <3>1. i \in Nat /\ 1 < i /\ i <= z
      BY <2>10, <2>11
    <3> QED
      BY <1>2, <1>3, <2>7, <2>9, <2>10, <3>1
  <2>15. PICK x \in 1..z : Gone + 1 = q + x
    <3>1. q + 1 <= g
      BY <2>14
    <3>2. q + 1 <= Gone
      BY <2>13, <2>14, <3>1
    <3>3. (Gone + 1) - q \in 1..z /\ Gone + 1 = q + ((Gone + 1) - q)
      BY <2>14, <3>2
    <3> QED
      BY <3>3
  <2>16. Stream[Gone + 1][1] = n
    BY <2>9, <2>15
  <2> QED
    BY <2>2, <2>5, <2>16
<1> QED
  BY <1>2, <1>3, <1>4, <1>5

(* A flag that decode() finds is the first byte of a frame, and all bytes  *)
(* behind it are those of the frame.                                       *)
LEMMA FlagIsStart ==
    ASSUME FrontInv, FoundFlag, NEW g, g = GoneFrom(Scanned), NEW z, z = PacSize(Msg)
    PROVE  /\ WholeFrom(g, z) /\ HeaderIntact
           /\ ~Incomplete => NameIntact /\ ContentIntact
           /\ Stream[g + z + 1][2] = 1 /\ g + z < Len(Stream)
<1> DEFINE b == peek(readBuffer_)
           r == readableBytes(Scanned)
           n == FirstFrame
<1>1. PICK k \in 0..readableBytes(readBuffer_) : g = Gone + k /\ AtFlag(b, k)
  BY ScannedStart DEF FrontInv
<1>2. /\ Gone \in Nat /\ readableBytes(readBuffer_) \in Nat
      /\ Gone + readableBytes(readBuffer_) = Len(received)
      /\ \A i \in 1..readableBytes(readBuffer_) : b[i] = Stream[Gone + i]
  BY ScannedDrops, HeldBytes DEF FrontInv, Gone, GoneFrom
<1>3. /\ g \in Nat /\ r \in Nat /\ g + r = Len(received) /\ Len(received) < Len(Stream)
      /\ Len(Stream) \in Nat /\ Len(received) \in Nat
      /\ r > HeaderSize /\ HeaderSize \in Nat /\ HeaderSize > 1
      /\ n \in 1..Len(sent) /\ n \in Nat /\ Msg = sent[n] /\ Msg \in Messages
      /\ z \in Nat /\ z > HeaderSize /\ Msg.name \in Nat /\ ContentSize(Msg) \in Nat
      /\ z = HeaderSize + Msg.name + ContentSize(Msg)
      /\ n = Stream[g + 1][1]
  BY FrameFound DEF FrontInv
<1>4. \A i \in 1..r : peek(Scanned)[i] = Stream[g + i]
  BY FrameFound DEF FrontInv
<1> HIDE DEF b, r, n
<1>5. IsFlag0(Stream[g + 1])
  <2>1. k + 1 \in 1..readableBytes(readBuffer_) /\ Gone + (k + 1) = g + 1
    BY <1>1, <1>2, <1>3
  <2>2. b[k + 1] = Stream[g + 1]
    BY <1>2, <2>1
  <2> QED
    BY <1>1, <2>2 DEF AtFlag
<1>6. Stream[g + 1][2] = 1
  <2>1. Stream[g + 1][2] = 1 \/ ~Good(sent[n])
    BY <1>3, SkipsToFrame
  <2>2. ~Misleading(sent[n])
    BY <1>3 DEF FrontInv, Clean
  <2>3. Good(sent[n]) \/ sent[n].marks = {}
    BY <2>2 DEF Misleading
  <2>4. Stream[g + 1][2] = 1 \/ sent[n].marks # {}
    BY <1>3, <1>5 DEF IsFlag0
  <2> QED
    BY <2>1, <2>3, <2>4
<1>7. PICK p \in Nat : p = g + 1
  BY <1>3
<1>8. p \in 1..(Len(Stream) - 1) /\ g = p - 1
  <2>1. g \in Nat /\ r \in Nat /\ r > 1 /\ g + r < Len(Stream) /\ Len(Stream) \in Nat
    BY <1>3
  <2>2. g = p - 1
    BY <1>7, <2>1
  <2>3. p < Len(Stream) /\ p >= 1
    BY <1>7, <2>1
  <2> QED
    BY <2>1, <2>2, <2>3
<1>9. /\ g + z < Len(Stream)
      /\ \A i \in 1..z : Stream[g + i] = <<n, i>>
      /\ Stream[g + z + 1][2] = 1
  <2>1. Stream[p][2] = 1 /\ n = Stream[p][1] /\ z = PacSize(sent[n])
    BY <1>3, <1>6, <1>7
  <2> QED
    <3>1. StartsAt(g, n, z)
      BY <1>8, <2>1, WholeStart DEF FrontInv, Clean
    <3> QED
      BY <3>1 DEF StartsAt
<1>10. WholeFrom(g, z)
  BY <1>9 DEF WholeFrom, n
<1>11. ASSUME NEW i \in Nat, NEW j \in Nat, i >= 1, j <= z, j <= r PROVE Intact(i, j)
  <2>1. \A x \in i..j : x \in 1..z /\ x \in 1..r
    BY <1>3, <1>11
  <2>2. \A x \in i..j : peek(Scanned)[x] = <<n, x>>
    BY <1>4, <1>9, <2>1
  <2> QED
    BY <1>11, <2>2 DEF Intact, n, r
<1>12. HeaderIntact
  BY <1>3, <1>11 DEF HeaderIntact
<1>13. ASSUME ~Incomplete PROVE NameIntact /\ ContentIntact
  <2>1. z <= r
    BY <1>3, <1>13 DEF Incomplete, r
  <2>2. PICK h \in Nat : h = HeaderSize + Msg.name
    BY <1>3, SMTT(60)
  <2>3. h <= z /\ h <= r /\ z \in Nat /\ r \in Nat /\ HeaderSize \in Nat
    <3>1. PICK c \in Nat : c = ContentSize(Msg)
      BY <1>3
    <3>2. z = h + c /\ z \in Nat /\ r \in Nat /\ HeaderSize \in Nat
      BY <1>3, <2>2, <3>1
    <3> QED
      BY <2>1, <3>2
  <2>4. /\ HeaderSize + 1 \in Nat /\ HeaderSize + 1 >= 1
        /\ h + 1 \in Nat /\ h + 1 >= 1
    BY <2>3
  <2>5. Intact(HeaderSize + 1, h) /\ Intact(h + 1, z)
    BY <1>11, <2>1, <2>3, <2>4
  <2> QED
    BY <2>2, <2>5 DEF NameIntact, ContentIntact
<1> QED
  BY <1>9, <1>10, <1>12, <1>13

(* A step of decode() that leaves buffer c: where it stops, what it has    *)
(* passed, and what is left.                                               *)
StopsAtFrame(c) == Stream[GoneFrom(c) + 1][2] = 1 \/ ~Good(sent[Stream[GoneFrom(c) + 1][1]])
PassesPosted(c) ==
    \A p \in (Gone + 1)..GoneFrom(c) : Stream[p][2] = 1 /\ Good(sent[Stream[p][1]])
        => Stream[p][1] \in PostedFrames'
LeavesNoneWhole(c) ==
    \A p \in (GoneFrom(c) + 1)..Len(received) : Stream[p][2] = 1
        => Len(received) < p + PacSize(sent[Stream[p][1]]) - 1
AllParse == \A n \in 1..Len(sent) : ~Unparsable(sent[n])

(* Such a step keeps decode() on the frames of the stream. *)
LEMMA CleanKept ==
    ASSUME CodecInv, CleanInv, Clean, NEW c, Decodes(c), ~misled',
           PostedFrames \subseteq PostedFrames', StopsAtFrame(c), PassesPosted(c),
           pc' = "read" /\ AllParse => LeavesNoneWhole(c)
    PROVE  CleanInv'
<1>1. /\ Stream' = Stream /\ Gone' = GoneFrom(c) /\ Gone \in Nat /\ Gone' \in Nat
      /\ Gone <= Gone' /\ \A m : Good(m)' <=> Good(m)
  BY DecodesStream
<1>2. UNCHANGED <<msgbus, sent, received>>
  BY DEF Decodes
<1>3. AtFrame'
  BY <1>1, <1>2 DEF AtFrame, StopsAtFrame
<1>4. GoneIsPosted'
  <2> SUFFICES ASSUME NEW p \in 1..Gone', Stream[p][2] = 1, Good(sent[Stream[p][1]])
               PROVE  Stream[p][1] \in PostedFrames'
    BY <1>1, <1>2 DEF GoneIsPosted
  <2>1. CASE p \in 1..Gone
    <3>1. Stream[p][1] \in PostedFrames
      BY <2>1 DEF CleanInv, GoneIsPosted
    <3> QED
      BY <3>1
  <2>2. CASE p \in (Gone + 1)..Gone'
    BY <1>1, <2>2 DEF PassesPosted
  <2> QED
    BY <1>1, <2>1, <2>2
<1>5. NoneWhole'
  <2> SUFFICES ASSUME pc' = "read", \A n \in 1..Len(sent) : ~Unparsable(sent[n])
               PROVE  LeavesNoneWhole(c)
    BY <1>1, <1>2 DEF NoneWhole, LeavesNoneWhole, Unparsable
  <2> QED
    BY DEF AllParse
<1> QED
  BY <1>3, <1>4, <1>5 DEF CleanInv

(* gotoFlag() alone. *)
LEMMA ScanIsClean ==
    ASSUME FrontInv PROVE StopsAtFrame(Scanned) /\ PassesPosted(Scanned)
<1>1. PICK g : g = GoneFrom(Scanned)
  OBVIOUS
<1>2. StopsAtFrame(Scanned)
  BY <1>1, SkipsToFrame DEF StopsAtFrame
<1>3. \A p \in (Gone + 1)..g : Stream[p][2] # 1
  BY <1>1, SkipsNoStart
<1> QED
  BY <1>1, <1>2, <1>3 DEF PassesPosted

(* A frame that is dropped: a part of one that is not good, or all of one  *)
(* that is handed on.                                                      *)
LEMMA FrameIsClean ==
    ASSUME FrontInv, FoundFlag, NEW g, g = GoneFrom(Scanned), NEW z, z = PacSize(Msg),
           NEW d \in 1..z, NEW c, GoneFrom(c) = g + d,
           ~Good(Msg) \/ (d = z /\ FirstFrame \in PostedFrames')
    PROVE  StopsAtFrame(c) /\ PassesPosted(c)
<1> DEFINE n == FirstFrame
<1>1. /\ g \in Nat /\ Gone \in Nat /\ Gone <= g /\ z \in Nat /\ Msg = sent[n]
  BY FrameFound DEF FrontInv
<1>2. /\ \A k \in 1..z : Stream[g + k] = <<n, k>>
      /\ Stream[g + z + 1][2] = 1
  BY FlagIsStart DEF WholeFrom
<1>3. \A p \in (Gone + 1)..g : Stream[p][2] # 1
  BY SkipsNoStart
<1> HIDE DEF n
<1>4. StopsAtFrame(c)
  <2>1. CASE d = z
    BY <1>1, <1>2, <2>1 DEF StopsAtFrame
  <2>2. CASE d # z
    <3>1. ~Good(sent[n])
      BY <1>1, <2>2
    <3>2. PICK k \in 1..z : k = d + 1
      BY <1>1, <2>2
    <3>3. g + d + 1 = g + k
      BY <1>1, <3>2
    <3>4. Stream[g + d + 1][1] = n
      BY <1>2, <3>3
    <3> QED
      BY <3>1, <3>4 DEF StopsAtFrame
  <2> QED
    BY <2>1, <2>2
<1>5. PassesPosted(c)
  <2> SUFFICES ASSUME NEW p \in (Gone + 1)..(g + d), Stream[p][2] = 1, Good(sent[Stream[p][1]])
               PROVE  Stream[p][1] \in PostedFrames'
    BY DEF PassesPosted
  <2>1. PICK k \in 1..z : p = g + k
    <3>1. ~(p \in (Gone + 1)..g)
      BY <1>3
    <3>2. p > g
      BY <1>1, <3>1
    <3>3. p - g \in 1..z /\ p = g + (p - g)
      BY <1>1, <3>2
    <3> QED
      BY <3>3
  <2>2. Stream[p][1] = n
    BY <1>2, <2>1
  <2> QED
    BY <1>1, <2>2 DEF n
<1> QED
  BY <1>4, <1>5

(* decode() waits or finds no flag: no whole frame is left. *)
LEMMA WaitIsClean ==
    ASSUME FrontInv, DecodeNoFlag \/ DecodeWaits
    PROVE  LeavesNoneWhole(Scanned)
<1> SUFFICES ASSUME NEW g, g = GoneFrom(Scanned), NEW p \in (g + 1)..Len(received),
                    Stream[p][2] = 1
             PROVE  Len(received) < p + PacSize(sent[Stream[p][1]]) - 1
  BY DEF LeavesNoneWhole
<1>1. /\ g \in Nat /\ readableBytes(Scanned) \in Nat /\ g + readableBytes(Scanned) = Len(received)
      /\ Len(received) \in Nat /\ Len(received) < Len(Stream) /\ Len(Stream) \in Nat
  BY ScannedDrops, HeldBytes DEF FrontInv
<1>2. PICK y : y = PacSize(sent[Stream[p][1]])
  OBVIOUS
<1>3. p \in Nat /\ p \in 1..Len(Stream) /\ p < Len(Stream) /\ g + 1 <= p
  BY <1>1
<1>4. y \in Nat /\ y > HeaderSize /\ HeaderSize \in Nat
  <2>1. sent[Stream[p][1]] \in Messages
    BY <1>3, ByteParts DEF FrontInv
  <2> QED
    BY <1>2, <2>1, PacSizeType, CodecAssumption
<1>5. CASE DecodeNoFlag
  <2>1. ~(readableBytes(Scanned) > HeaderSize)
    BY <1>5 DEF DecodeNoFlag, FoundFlag
  <2>2. Len(received) < p + y - 1
    BY <1>1, <1>3, <1>4, <2>1
  <2> QED
    BY <1>2, <2>2
<1>6. CASE DecodeWaits
  <2>1. FoundFlag /\ Incomplete
    BY <1>6 DEF DecodeWaits
  <2>2. PICK z : z = PacSize(Msg)
    OBVIOUS
  <2>3. /\ \A k \in 1..z : Stream[g + k] = <<FirstFrame, k>>
    BY <2>1, <2>2, FlagIsStart DEF WholeFrom
  <2>4. z \in Nat /\ Msg = sent[FirstFrame] /\ readableBytes(Scanned) < z
    BY <2>1, <2>2, FrameFound DEF FrontInv, Incomplete
  <2>5. PICK k \in 1..z : p = g + k
    <3>1. p - g \in 1..z /\ p = g + (p - g)
      <4>1. p <= Len(received) /\ z \in Nat /\ readableBytes(Scanned) < z
        BY <1>1, <2>4
      <4> QED
        BY <1>1, <1>3, <4>1
    <3> QED
      BY <3>1
  <2>6. k = 1 /\ Stream[p][1] = FirstFrame
    BY <2>3, <2>5
  <2>7. y = z
    BY <1>2, <2>2, <2>4, <2>6
  <2>8. Len(received) < p + y - 1
    <3>1. p = g + 1 /\ readableBytes(Scanned) < y
      BY <2>4, <2>5, <2>6, <2>7
    <3> QED
      BY <1>1, <1>4, <3>1
  <2> QED
    BY <1>2, <2>8
<1> QED
  BY <1>5, <1>6

(* The steps of decode() while nothing misleads it: gotoFlag() passes no   *)
(* good frame, and what decode() drops is not good or was handed on.       *)
LEMMA StillClean ==
    ASSUME UNCHANGED <<msgbus, sent, losses>>
    PROVE  Clean' => Clean
BY DEF Clean, Misleading, Good

(* decode() finds no frame that is complete. *)
LEMMA WaitsClean ==
    ASSUME CodecInv, WholeFrames, CleanInv, Clean, DecodeNoFlag \/ DecodeWaits
    PROVE  CleanInv'
<1>1. FrontInv /\ ~misled
  BY DEF FrontInv, CleanInv
<1>2. Return(Scanned) /\ misled' = misled
  BY DEF DecodeNoFlag, DecodeWaits
<1>3. Decodes(Scanned)
  <2>1. 0 \in Nat
    OBVIOUS
  <2> QED
    BY <1>2, <2>1, ScannedDecodes DEF Return
<1>4. PostedFrames' = PostedFrames
  BY <1>2 DEF Return, PostedFrames
<1>5. StopsAtFrame(Scanned) /\ PassesPosted(Scanned)
  BY <1>1, ScanIsClean
<1>6. LeavesNoneWhole(Scanned)
  BY <1>1, WaitIsClean
<1> QED
  BY <1>1, <1>2, <1>3, <1>4, <1>5, <1>6, CleanKept

(* decode() drops a frame that is not good, or the front of it.            *)
LEMMA BadClean ==
    ASSUME CodecInv, WholeFrames, CleanInv, Clean,
           DecodeBadLength \/ DecodeUnknown \/ DecodeFails
    PROVE  CleanInv'
<1>1. FrontInv /\ ~misled
  BY DEF FrontInv, CleanInv
<1>2. FoundFlag /\ ~Incomplete /\ misled' = misled /\ posted' = posted
  BY DEF DecodeBadLength, DecodeUnknown, DecodeFails, HasName, Again, Return
<1>3. PICK g : g = GoneFrom(Scanned)
  OBVIOUS
<1>4. PICK z : z = PacSize(Msg)
  OBVIOUS
<1>5. NameIntact /\ ContentIntact
  BY <1>1, <1>2, FlagIsStart
<1>6. /\ g \in Nat /\ Gone \in Nat /\ Gone <= g /\ z \in Nat /\ z > HeaderSize /\ HeaderSize \in Nat
      /\ HeaderSize > 1 /\ Msg.name \in Nat /\ ContentSize(Msg) \in Nat
      /\ z = HeaderSize + Msg.name + ContentSize(Msg)
      /\ FirstFrame \in 1..Len(sent) /\ Msg = sent[FirstFrame]
  BY <1>2, <1>3, <1>4, FrameFound
<1>7. PostedFrames' = PostedFrames
  BY <1>2 DEF PostedFrames
<1>8. ~Good(Msg)
  BY <1>5 DEF DecodeBadLength, DecodeUnknown, DecodeFails, HasName, Good, Forwards, CreatesMessage,
              MayFail
<1>9. ASSUME NEW c, NEW d \in 1..z, Drops(c), GoneFrom(c) = g + d, Return(c) \/ Again(c),
             pc' = "decode" \/ ~AllParse
      PROVE  CleanInv'
  <2>1. Gone <= GoneFrom(c)
    BY <1>6, <1>9
  <2>2. Decodes(c)
    BY <1>9, <2>1 DEF Decodes, Return, Again
  <2>3. StopsAtFrame(c) /\ PassesPosted(c)
    BY <1>1, <1>2, <1>3, <1>4, <1>8, <1>9, FrameIsClean
  <2>4. pc' = "read" /\ AllParse => LeavesNoneWhole(c)
    BY <1>9
  <2> QED
    BY <1>1, <1>2, <1>7, <2>2, <2>3, <2>4, CleanKept
<1>10. CASE DecodeBadLength
  <2>1. HeaderSize \in 1..z
    BY <1>6
  <2>2. /\ Drops(retrieve(Scanned, HeaderSize))
        /\ GoneFrom(retrieve(Scanned, HeaderSize)) = g + HeaderSize
    BY <1>2, <1>3, FrameDropped
  <2>3. Again(retrieve(Scanned, HeaderSize)) /\ pc' = "decode"
    BY <1>10 DEF DecodeBadLength, Again
  <2> QED
    BY <1>9, <2>1, <2>2, <2>3
<1>11. CASE DecodeUnknown \/ DecodeFails
  <2>1. PICK d \in 1..z : d = HeaderSize + Msg.name
    BY <1>6
  <2>2. Drops(AfterName) /\ GoneFrom(AfterName) = g + d
    <3>1. GoneFrom(AfterName) = g + HeaderSize + Msg.name /\ Drops(AfterName)
      BY <1>2, <1>3, FrameDropped
    <3> QED
      BY <1>6, <2>1, <3>1, SMTT(60)
  <2>3. CASE DecodeUnknown
    <3>1. Again(AfterName) /\ pc' = "decode"
      BY <2>3 DEF DecodeUnknown, Again
    <3> QED
      BY <1>9, <2>2, <3>1
  <2>4. CASE DecodeFails
    <3>1. Return(AfterName)
      BY <2>4 DEF DecodeFails
    <3>2. Unparsable(Msg)
      BY <1>5, <2>4 DEF DecodeFails, HasName, Unparsable, Forwards, CreatesMessage, MayFail
    <3>3. ~AllParse
      BY <1>6, <3>2 DEF AllParse
    <3> QED
      BY <1>9, <2>2, <3>1, <3>3
  <2> QED
    BY <1>11, <2>3, <2>4
<1> QED
  BY <1>10, <1>11

(* decode() returns a frame, all of it. *)
LEMMA ReturnsClean ==
    ASSUME CodecInv, WholeFrames, CleanInv, Clean, DecodeReturns
    PROVE  CleanInv'
<1> DEFINE c == Consume(AfterName, Msg)
           pack == [frame |-> FirstFrame, intact |-> ContentIntact]
<1>1. FrontInv /\ ~misled
  BY DEF FrontInv, CleanInv
<1>2. FoundFlag /\ ~Incomplete /\ misled' = misled /\ Deliver(c, pack)
  BY DEF DecodeReturns, HasName
<1>3. PICK g : g = GoneFrom(Scanned)
  OBVIOUS
<1>4. PICK z : z = PacSize(Msg)
  OBVIOUS
<1>5. /\ g \in Nat /\ Gone \in Nat /\ Gone <= g /\ z \in Nat /\ z > HeaderSize /\ HeaderSize \in Nat
  BY <1>2, <1>3, <1>4, FrameFound
<1>6. Drops(c) /\ GoneFrom(c) = g + z
  BY <1>2, <1>3, <1>4, FrameDropped
<1>7. posted \in Seq([frame : Nat, intact : BOOLEAN]) /\ Len(posted) \in Nat
  BY DEF CodecInv, TypeOK
<1>8. posted' = Append(posted, pack) /\ pack.frame = FirstFrame
  BY <1>2 DEF Deliver
<1> HIDE DEF c, pack
<1>9. PostedFrames \subseteq PostedFrames' /\ FirstFrame \in PostedFrames'
  <2>1. /\ Len(posted') = Len(posted) + 1
        /\ \A i \in 1..Len(posted) : posted'[i] = posted[i]
        /\ posted'[Len(posted) + 1] = pack
    BY <1>7, <1>8
  <2>2. \A i \in 1..Len(posted) : i \in 1..(Len(posted) + 1)
    BY <1>7
  <2>3. Len(posted) + 1 \in 1..(Len(posted) + 1)
    BY <1>7
  <2>4. PostedFrames' = {posted'[i].frame : i \in 1..(Len(posted) + 1)}
    BY <2>1 DEF PostedFrames
  <2> QED
    BY <1>8, <2>1, <2>2, <2>3, <2>4 DEF PostedFrames
<1>10. Decodes(c)
  BY <1>2, <1>5, <1>6 DEF Decodes, Deliver
<1>11. z \in 1..z
  BY <1>5
<1>12. StopsAtFrame(c) /\ PassesPosted(c)
  BY <1>1, <1>2, <1>3, <1>4, <1>6, <1>9, <1>11, FrameIsClean
<1>13. ASSUME pc' = "read" PROVE LeavesNoneWhole(c)
  <2>1. /\ GoneFrom(c) \in Nat /\ readableBytes(c) \in Nat
        /\ GoneFrom(c) + readableBytes(c) = Len(received)
    BY <1>6, HeldBytes
  <2>2. ~(readableBytes(c) > 0)
    BY <1>2, <1>13 DEF Deliver
  <2>3. (GoneFrom(c) + 1)..Len(received) = {}
    BY <2>1, <2>2
  <2> QED
    BY <2>3 DEF LeavesNoneWhole
<1> QED
  BY <1>1, <1>2, <1>9, <1>10, <1>12, <1>13, CleanKept

(* A new frame leaves the bytes before it as they are. *)
LEMMA SendClean ==
    ASSUME CodecInv, WholeFrames, CleanInv, NEW m \in Messages, Send(m)
    PROVE  CleanInv'
<1> SUFFICES ASSUME Clean' PROVE ~misled' /\ AtFrame' /\ GoneIsPosted' /\ NoneWhole'
  BY DEF CleanInv
<1>1. PICK L : L = Len(Stream)
  OBVIOUS
<1>2. PICK z : z = PacSize(m)
  OBVIOUS
<1>3. /\ \A p \in 1..L : Stream'[p] = Stream[p]
      /\ Len(sent') = Len(sent) + 1 /\ Len(sent) \in Nat
      /\ \A x \in 1..Len(sent) : sent'[x] = sent[x]
      /\ Gone' = Gone
  <2>1. StreamGrows(m, L, z)
    BY <1>1, <1>2, SendStream
  <2> QED
    BY <2>1 DEF StreamGrows
<1>4. /\ losses' = losses /\ msgbus' = msgbus /\ misled' = misled /\ posted' = posted
      /\ received' = received /\ pc' = pc
  BY DEF Send
<1>5. /\ \A x : Good(x)' <=> Good(x)
      /\ \A x : Unparsable(x)' <=> Unparsable(x)
  BY <1>4 DEF Good, Unparsable
<1>6. 1..Len(sent) \subseteq 1..Len(sent')
  BY <1>3
<1>7. Clean
  <2>1. \A n \in 1..Len(sent') : ~(~Good(sent'[n]) /\ sent'[n].marks # {})
    BY <1>5 DEF Clean, Misleading
  <2>2. \A n \in 1..Len(sent) : ~(~Good(sent[n]) /\ sent[n].marks # {})
    BY <1>3, <1>6, <2>1
  <2> QED
    BY <1>4, <2>2 DEF Clean, Misleading
<1>8. ~misled /\ AtFrame /\ GoneIsPosted /\ NoneWhole
  BY <1>7 DEF CleanInv
<1>9. /\ Gone \in Nat /\ Gone <= Len(received) /\ Len(received) \in Nat
      /\ Len(received) < L /\ L \in Nat
  BY <1>1, ScannedDrops, HeldBytes DEF Gone, GoneFrom
<1>10. ASSUME NEW p \in 1..L, p < L
       PROVE  Stream'[p] = Stream[p] /\ sent'[Stream[p][1]] = sent[Stream[p][1]]
  <2>1. Stream[p][1] \in 1..Len(sent)
    BY <1>1, <1>10, ByteParts
  <2> QED
    BY <1>3, <2>1
<1>11. AtFrame'
  <2>1. CASE Gone + 1 = L
    <3>1. Stream[Gone + 1][2] = 1 /\ Gone + 1 \in 1..L
      BY <1>1, <1>9, <2>1, StreamParts
    <3> QED
      BY <1>3, <3>1 DEF AtFrame
  <2>2. CASE Gone + 1 # L
    <3>1. Gone + 1 \in 1..L /\ Gone + 1 < L
      BY <1>9, <2>2
    <3>2. /\ Stream'[Gone + 1] = Stream[Gone + 1]
          /\ sent'[Stream[Gone + 1][1]] = sent[Stream[Gone + 1][1]]
      BY <1>10, <3>1
    <3> QED
      BY <1>3, <1>5, <1>8, <3>2 DEF AtFrame
  <2> QED
    BY <2>1, <2>2
<1>12. GoneIsPosted'
  <2> SUFFICES ASSUME NEW p \in 1..Gone, Stream'[p][2] = 1, Good(sent'[Stream'[p][1]])
               PROVE  Stream'[p][1] \in PostedFrames
    BY <1>3, <1>4, <1>5 DEF GoneIsPosted, PostedFrames
  <2>1. p \in 1..L /\ p < L
    BY <1>9
  <2> QED
    BY <1>8, <1>10, <2>1 DEF GoneIsPosted
<1>13. NoneWhole'
  <2> SUFFICES ASSUME pc = "read", \A n \in 1..Len(sent') : ~Unparsable(sent'[n]),
                      NEW p \in (Gone + 1)..Len(received), Stream'[p][2] = 1
               PROVE  Len(received) < p + PacSize(sent'[Stream'[p][1]]) - 1
    BY <1>3, <1>4, <1>5 DEF NoneWhole
  <2>1. \A n \in 1..Len(sent) : ~Unparsable(sent[n])
    BY <1>3, <1>6
  <2>2. p \in 1..L /\ p < L
    BY <1>9
  <2> QED
    BY <1>8, <1>10, <2>1, <2>2 DEF NoneWhole
<1> QED
  BY <1>4, <1>8, <1>11, <1>12, <1>13

(* A read is followed by decode(). *)
LEMMA ReadClean ==
    ASSUME CodecInv, CleanInv, NEW n \in 1..kTempBufSize, DoRead(n)
    PROVE  CleanInv'
<1>1. Stream' = Stream /\ Gone' = Gone
  BY ReadStream
<1>2. UNCHANGED <<msgbus, sent, posted, losses, misled>> /\ pc' = "decode"
  BY DEF DoRead
<1>3. NoneWhole'
  BY <1>2 DEF NoneWhole
<1>4. Clean' => Clean
  BY <1>2, StillClean
<1>5. AtFrame' <=> AtFrame
  BY <1>1, <1>2 DEF AtFrame, Good
<1>6. GoneIsPosted' <=> GoneIsPosted
  BY <1>1, <1>2 DEF GoneIsPosted, PostedFrames, Good
<1> QED
  BY <1>2, <1>3, <1>4, <1>5, <1>6 DEF CleanInv

(* Nothing is sent and nothing is read at first. *)
LEMMA InitClean == Init => WholeFrames /\ CleanInv
<1> SUFFICES ASSUME Init PROVE WholeFrames /\ CleanInv
  OBVIOUS
<1>1. CodecInv
  BY InitCodecInv
<1>2. /\ received = <<>> /\ wire = <<>> /\ sent = <<>> /\ Len(received) = 0 /\ Len(wire) = 0
      /\ Len(sent) = 0 /\ ~misled
  BY DEF Init
<1>3. Len(Stream) = 1 /\ Stream[1][2] = 1
  <2>1. Len(Stream) = 1
    BY <1>1, <1>2, StreamParts
  <2>2. Stream[Len(Stream)] = <<Len(sent) + 1, 1>>
    BY <1>1, StreamParts
  <2>3. <<Len(sent) + 1, 1>>[2] = 1
    OBVIOUS
  <2> QED
    BY <2>1, <2>2, <2>3
<1>4. Gone \in Nat /\ Gone <= Len(received)
  BY <1>1, ScannedDrops, HeldBytes DEF Gone, GoneFrom
<1>5. Gone = 0
  BY <1>2, <1>4
<1>6. WholeFrames
  BY <1>3 DEF WholeFrames
<1>7. AtFrame /\ GoneIsPosted
  BY <1>3, <1>5 DEF AtFrame, GoneIsPosted
<1>8. NoneWhole
  BY <1>2, <1>5 DEF NoneWhole
<1> QED
  BY <1>2, <1>6, <1>7, <1>8 DEF CleanInv

(* Every step keeps decode() on the frames of the stream. *)
LEMMA NextClean == CodecInv /\ WholeFrames /\ CleanInv /\ [Next]_vars => CleanInv'
<1> SUFFICES ASSUME CodecInv, WholeFrames, CleanInv, [Next]_vars PROVE CleanInv'
  OBVIOUS
<1>1. CASE \E m \in Messages : Send(m)
  BY <1>1, SendClean
<1>2. CASE ConnectionLost
  <2>1. losses' = losses + 1 /\ losses \in Nat
    BY <1>2 DEF ConnectionLost, CodecInv, TypeOK
  <2>2. losses' # 0
    BY <2>1
  <2> QED
    BY <2>2 DEF CleanInv, Clean
<1>3. CASE \E n \in 1..kTempBufSize : DoRead(n)
  BY <1>3, ReadClean
<1>4. ASSUME DecodeNoFlag \/ DecodeWaits \/ DecodeBadLength \/ DecodeUnknown \/ DecodeReturns
             \/ DecodeFails \/ DecodeMisled
      PROVE  CleanInv'
  <2>1. UNCHANGED <<msgbus, sent, losses>>
    BY <1>4 DEF DecodeNoFlag, DecodeWaits, DecodeBadLength, DecodeUnknown, DecodeReturns,
                DecodeFails, DecodeMisled, Return, Again, Deliver
  <2> SUFFICES ASSUME Clean PROVE CleanInv'
    BY <2>1, StillClean DEF CleanInv
  <2>2. ~DecodeMisled
    <3>1. FrontInv
      BY DEF FrontInv, CleanInv
    <3>2. FoundFlag => HeaderIntact
      BY <3>1, FlagIsStart
    <3> QED
      BY <3>2 DEF DecodeMisled
  <2> QED
    BY <1>4, <2>2, WaitsClean, BadClean, ReturnsClean
<1>5. CASE UNCHANGED vars
  <2>1. Stream' = Stream /\ Gone' = Gone /\ PostedFrames' = PostedFrames
    BY <1>5 DEF vars, Stream, Gone, readableBytes, PostedFrames
  <2>2. UNCHANGED <<msgbus, sent, losses>> /\ misled' = misled /\ received' = received /\ pc' = pc
    BY <1>5 DEF vars
  <2>3. Clean' => Clean
    BY <2>2, StillClean
  <2>4. (AtFrame' <=> AtFrame) /\ (GoneIsPosted' <=> GoneIsPosted)
    BY <2>1, <2>2 DEF AtFrame, GoneIsPosted, Good
  <2>5. NoneWhole' <=> NoneWhole
    BY <2>1, <2>2 DEF NoneWhole, Unparsable
  <2> QED
    BY <2>2, <2>3, <2>4, <2>5 DEF CleanInv
<1> QED
  BY <1>1, <1>2, <1>3, <1>4, <1>5 DEF Next

(* And so it stays. *)
LEMMA AlwaysClean == Spec => [](WholeFrames /\ CleanInv)
<1>1. CodecInv /\ WholeFrames /\ CleanInv /\ [Next]_vars => WholeFrames' /\ CleanInv'
  BY NextWholeFrames, NextClean
<1> QED
  BY <1>1, InitClean, AlwaysCodecInv, PTL DEF Spec

-----------------------------------------------------------------------------
(* A frame whose last byte was read was read from its first byte on. *)
LEMMA ReadWhole ==
    ASSUME CodecInv, WholeFrames, losses = 0, NEW n \in GoodReceived, NEW z, z = PacSize(sent[n])
    PROVE  /\ z \in Nat
           /\ \E p \in 1..Len(received) : Stream[p] = <<n, 1>> /\ p + z - 1 <= Len(received)
<1>1. /\ Len(received) \in Nat /\ Len(Stream) \in Nat /\ Len(received) < Len(Stream)
  BY ScannedDrops, HeldBytes
<1>2. PICK i \in 1..Len(received) : received[i] = <<n, z>>
  BY DEF GoodReceived
<1>3. z \in Nat /\ z > 0
  <2>1. sent[n] \in Messages
    BY DEF GoodReceived, CodecInv, TypeOK
  <2> QED
    BY <2>1, PacSizeType, CodecAssumption
<1>4. i \in 1..(Len(Stream) - 1) /\ i \in Nat
  BY <1>1
<1>5. Stream[i] = <<n, z>>
  BY <1>2, StreamParts
<1>6. Stream[i][1] = n /\ Stream[i][2] = z
  BY <1>5
<1>7. FrameAt(i - z, n)
  BY <1>4, <1>6 DEF WholeFrames
<1>8. PICK q : q = i - z
  OBVIOUS
<1>9. q \in Nat /\ \A k \in 1..z : Stream[q + k] = <<n, k>>
  BY <1>7, <1>8 DEF FrameAt
<1>10. 1 \in 1..z
  BY <1>3
<1>11. Stream[q + 1] = <<n, 1>>
  BY <1>9, <1>10
<1>12. q + 1 \in 1..Len(received) /\ (q + 1) + z - 1 <= Len(received)
  <2>1. q \in Nat /\ q = i - z
    BY <1>8, <1>9
  <2>2. i <= Len(received) /\ i \in Nat
    BY <1>1
  <2> QED
    BY <1>1, <1>3, <2>1, <2>2
<1> QED
  BY <1>3, <1>11, <1>12

(* If it was not handed on it is still in readBuffer_. *)
LEMMA StillHeld ==
    ASSUME CodecInv, WholeFrames, CleanInv, Clean, NEW n \in GoodReceived \ PostedFrames,
           NEW z, z = PacSize(sent[n])
    PROVE  \E p \in (Gone + 1)..Len(received) : Stream[p] = <<n, 1>> /\ p + z - 1 <= Len(received)
<1>1. PICK p \in 1..Len(received) : Stream[p] = <<n, 1>> /\ p + z - 1 <= Len(received)
  BY ReadWhole DEF Clean
<1>2. Stream[p][1] = n /\ Stream[p][2] = 1
  BY <1>1
<1>3. Good(sent[n])
  BY DEF GoodReceived
<1>4. GoneIsPosted
  BY DEF CleanInv
<1>5. p \notin 1..Gone
  BY <1>2, <1>3, <1>4 DEF GoneIsPosted
<1>6. Gone \in Nat /\ Len(received) \in Nat
  BY ScannedDrops, HeldBytes DEF Gone, GoneFrom
<1>7. p \in (Gone + 1)..Len(received)
  BY <1>5, <1>6
<1> QED
  BY <1>1, <1>7

(* readBuffer_ holds what is not gone, byte for byte. *)
LEMMA CleanSkipsNothing == CodecInv /\ WholeFrames /\ CleanInv => NothingSkipped
<1> SUFFICES ASSUME CodecInv, WholeFrames, CleanInv, Clean, NEW n \in GoodReceived \ PostedFrames
             PROVE  \E i \in 1..readableBytes(readBuffer_) : peek(readBuffer_)[i] = <<n, 1>>
  BY DEF NothingSkipped, Clean
<1>1. PICK p \in (Gone + 1)..Len(received) : Stream[p] = <<n, 1>>
  BY StillHeld
<1>2. Gone = GoneFrom(readBuffer_) /\ Drops(readBuffer_)
  BY ScannedDrops DEF Gone, GoneFrom
<1>3. /\ Gone \in Nat /\ readableBytes(readBuffer_) \in Nat
      /\ Gone + readableBytes(readBuffer_) = Len(received) /\ Len(received) \in Nat
      /\ \A i \in 1..readableBytes(readBuffer_) : peek(readBuffer_)[i] = Stream[Gone + i]
  BY <1>2, HeldBytes
<1>4. PICK i \in 1..readableBytes(readBuffer_) : p = Gone + i
  <2>1. p - Gone \in 1..readableBytes(readBuffer_) /\ p = Gone + (p - Gone)
    BY <1>3
  <2> QED
    BY <2>1
<1> QED
  BY <1>1, <1>3, <1>4

(* As long as the connection lasts and no message that is skipped looks    *)
(* like a header, decode() passes over no good message: one that has       *)
(* arrived was handed on, or readBuffer_ still holds it from its first     *)
(* byte on.                                                                *)
THEOREM NothingIsSkipped == Spec => []NothingSkipped
<1>1. CodecInv /\ WholeFrames /\ CleanInv => NothingSkipped
  BY CleanSkipsNothing
<1> QED
  BY <1>1, AlwaysCodecInv, AlwaysClean, PTL

-----------------------------------------------------------------------------
(* On one connection all that is handed on is intact, arrived as a whole,  *)
(* and is handed on once.                                                  *)
LEMMA PostedArrived ==
    ASSUME CodecInv, OrderInv, WholeFrames, CleanInv, Clean
    PROVE  PostedFrames \subseteq GoodReceived /\ \A i \in 1..Len(posted) : posted[i].intact
<1>1. losses = 0 /\ ~misled
  BY DEF Clean, CleanInv
<1>2. Mixed = {}
  <2>1. Cardinality(Mixed) + Cardinality(Breaks) <= 0
    BY <1>1 DEF OrderInv, LossesCounted
  <2>2. Cardinality(Mixed) \in Nat /\ Cardinality(Breaks) \in Nat /\ IsFiniteSet(Mixed)
    BY Finite, FS_CardinalityType
  <2>3. Cardinality(Mixed) = 0
    BY <2>1, <2>2
  <2> QED
    BY <2>2, <2>3, FS_EmptySet
<1>3. \A i \in 1..Len(posted) : posted[i].intact
  BY <1>2 DEF Mixed
<1>4. ASSUME NEW i \in 1..Len(posted) PROVE posted[i].frame \in GoodReceived
  <2>1. PICK n : n = posted[i].frame
    OBVIOUS
  <2>2. PICK z : z = PacSize(sent[n])
    OBVIOUS
  <2>3. /\ n \in 1..Len(sent) /\ Good(sent[n])
        /\ \E p \in 1..Gone : received[p] = <<n, 1>> /\ p + z - 1 <= Gone
    BY <1>3, <2>1, <2>2 DEF OrderInv, PostedIsGone
  <2>4. PICK p \in 1..Gone : received[p] = <<n, 1>> /\ p + z - 1 <= Gone
    BY <2>3
  <2>5. /\ Gone \in Nat /\ Gone <= Len(received) /\ Len(received) \in Nat
        /\ Len(received) < Len(Stream) /\ Len(Stream) \in Nat
    BY ScannedDrops, HeldBytes DEF Gone, GoneFrom
  <2>6. p \in 1..(Len(Stream) - 1) /\ p \in 1..Len(received) /\ p \in Nat
    BY <2>5
  <2>7. Stream[p] = <<n, 1>>
    BY <2>4, <2>6, StreamParts
  <2>8. Stream[p][2] = 1 /\ n = Stream[p][1]
    BY <2>7
  <2>9. PICK q : q = p - 1
    OBVIOUS
  <2>10. /\ q \in Nat /\ z \in Nat /\ z > HeaderSize /\ \A k \in 1..z : Stream[q + k] = <<n, k>>
    <3>1. StartsAt(q, n, z)
      BY <1>1, <2>2, <2>6, <2>8, <2>9, WholeStart
    <3> QED
      BY <3>1 DEF StartsAt
  <2>11. z \in 1..z /\ q + z \in 1..Len(received)
    <3>1. HeaderSize \in Nat
      BY CodecAssumption
    <3>2. q = p - 1 /\ p + z - 1 <= Gone
      BY <2>4, <2>9
    <3>3. z \in Nat /\ z > HeaderSize /\ q \in Nat
      BY <2>10
    <3> QED
      BY <2>5, <2>6, <3>1, <3>2, <3>3
  <2>12. Stream[q + z] = <<n, z>>
    BY <2>10, <2>11
  <2>13. received[q + z] = <<n, z>>
    BY <2>11, <2>12, StreamParts
  <2> QED
    BY <2>1, <2>2, <2>3, <2>11, <2>13 DEF GoodReceived
<1> QED
  BY <1>3, <1>4 DEF PostedFrames

(* What was handed on names frames. *)
LEMMA PostedType ==
    ASSUME CodecInv
    PROVE  Len(posted) \in Nat /\ \A i \in 1..Len(posted) : posted[i].frame \in Nat
<1> DEFINE S == [frame : Nat, intact : BOOLEAN]
<1>1. posted \in Seq(S)
  BY DEF CodecInv, TypeOK
<1>2. \A x \in S : x.frame \in Nat
  OBVIOUS
<1> HIDE DEF S
<1>3. Len(posted) \in Nat /\ \A i \in 1..Len(posted) : posted[i] \in S
  BY <1>1
<1> QED
  BY <1>2, <1>3

(* Frames in order are counted one by one. *)
LEMMA PostedCount ==
    ASSUME CodecInv, OrderInv, \A i \in 1..Len(posted) : posted[i].intact
    PROVE  Len(posted) = Cardinality(PostedFrames)
<1> DEFINE f == [i \in 1..Len(posted) |-> posted[i].frame]
<1>1. Len(posted) \in Nat /\ \A i \in 1..Len(posted) : posted[i].frame \in Nat
  BY PostedType
<1>2. \A i, j \in 1..Len(posted) : i < j => posted[i].frame < posted[j].frame
  BY DEF OrderInv, PostedInOrder
<1>3. \A i, j \in 1..Len(posted) : f[i] = f[j] => i = j
  BY <1>1, <1>2
<1>4. /\ f \in [1..Len(posted) -> PostedFrames]
      /\ \A x \in PostedFrames : \E i \in 1..Len(posted) : f[i] = x
  BY DEF PostedFrames
<1> HIDE DEF f
<1>5. f \in Bijection(1..Len(posted), PostedFrames)
  BY <1>3, <1>4 DEF Bijection, Injection, Surjection, IsInjective
<1>6. ExistsBijection(1..Len(posted), PostedFrames)
  BY <1>5 DEF ExistsBijection
<1> QED
  BY <1>1, <1>6, FS_CountingElements

(* What was handed on has arrived; what arrived and was not handed on      *)
(* would be a whole frame in readBuffer_, and doRead() would not read.     *)
LEMMA CleanIsExact == CodecInv /\ OrderInv /\ WholeFrames /\ CleanInv => Exact
<1> SUFFICES ASSUME CodecInv, OrderInv, WholeFrames, CleanInv, Clean, AllParse, pc = "read"
             PROVE  PostedFrames = GoodReceived /\ Len(posted) = Cardinality(GoodReceived)
  BY DEF Exact, Clean, AllParse
<1>1. PostedFrames \subseteq GoodReceived /\ \A i \in 1..Len(posted) : posted[i].intact
  BY PostedArrived
<1>2. ASSUME NEW n \in GoodReceived \ PostedFrames PROVE FALSE
  <2>1. PICK z : z = PacSize(sent[n])
    OBVIOUS
  <2>2. PICK p \in (Gone + 1)..Len(received) : Stream[p] = <<n, 1>> /\ p + z - 1 <= Len(received)
    BY <2>1, StillHeld
  <2>3. Stream[p][1] = n /\ Stream[p][2] = 1
    BY <2>2
  <2>4. Len(received) < p + z - 1
    BY <2>1, <2>3 DEF CleanInv, NoneWhole, AllParse
  <2>5. Len(received) \in Nat /\ p \in Int /\ z \in Nat
    BY <2>1, ReadWhole, ScannedDrops, HeldBytes DEF Gone, GoneFrom, Clean
  <2> QED
    BY <2>2, <2>4, <2>5
<1>3. PostedFrames = GoodReceived
  BY <1>1, <1>2
<1> QED
  BY <1>1, <1>3, PostedCount

(* However the stream is cut into reads: each time doRead() reads again,   *)
(* it has handed on exactly the good messages that have arrived, each one  *)
(* once, on one connection and with content that parses.                   *)
THEOREM DecodesExactly == Spec => []Exact
<1>1. CodecInv /\ OrderInv /\ WholeFrames /\ CleanInv => Exact
  BY CleanIsExact
<1> QED
  BY <1>1, AlwaysCodecInv, AlwaysOrderInv, AlwaysClean, PTL
=============================================================================
