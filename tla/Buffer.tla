------------------------------- MODULE Buffer -------------------------------
(***************************************************************************)
(* The byte buffer (class Buffer) that frames are written to and read      *)
(* from: a vector of bytes with the index of the first byte to read and of *)
(* the first byte to write.  kCheapPrepend is 0, so bytes before           *)
(* readerIndex_ are free to be used again.                                 *)
(*                                                                         *)
(* A buffer is a record; an operation that changes it is an operator from  *)
(* the old record to the new one.  buffer_[i + 1] is the byte at index i.  *)
(***************************************************************************)
EXTENDS Naturals, Sequences

CONSTANT NUL    \* the byte that fresh memory is filled with

(* The buffers whose memory holds elements of Byte. *)
Buffers(Byte) ==
    {b \in [buffer_ : Seq(Byte), readerIndex_ : Nat, writerIndex_ : Nat] :
        b.readerIndex_ <= b.writerIndex_ /\ b.writerIndex_ <= Len(b.buffer_)}

NewBuffer(initialSize) ==
    [buffer_ |-> [i \in 1..initialSize |-> NUL], readerIndex_ |-> 0, writerIndex_ |-> 0]

readableBytes(b) == b.writerIndex_ - b.readerIndex_
writableBytes(b) == Len(b.buffer_) - b.writerIndex_
prependableBytes(b) == b.readerIndex_

(* The readable bytes: what peek() points at, readableBytes() of them. *)
peek(b) == SubSeq(b.buffer_, b.readerIndex_ + 1, b.writerIndex_)

(* With fewer than len bytes to read this is retrieveAll(), too. *)
retrieve(b, len) ==
    IF len < readableBytes(b)
    THEN [b EXCEPT !.readerIndex_ = @ + len]
    ELSE [b EXCEPT !.readerIndex_ = 0, !.writerIndex_ = 0]

-----------------------------------------------------------------------------
(* makeSpace(): resize() keeps the bytes and appends fresh ones; copying   *)
(* moves the readable bytes to the front and leaves the rest as it was.    *)
Grown(b, len) ==
    [buffer_ |-> [i \in 1..(b.writerIndex_ + len) |->
                     IF i <= Len(b.buffer_) THEN b.buffer_[i] ELSE NUL],
     readerIndex_ |-> b.readerIndex_, writerIndex_ |-> b.writerIndex_]

(* The indices set back without the copy. *)
NotMoved(b) == [b EXCEPT !.readerIndex_ = 0, !.writerIndex_ = readableBytes(b)]
MovedToFront(b) ==
    [buffer_ |-> [i \in 1..Len(b.buffer_) |->
                     IF i <= readableBytes(b) THEN b.buffer_[b.readerIndex_ + i]
                                              ELSE b.buffer_[i]],
     readerIndex_ |-> 0, writerIndex_ |-> readableBytes(b)]

(* makeSpace() that never moves. *)
MakeSpaceGrows(b, len) == Grown(b, len)
makeSpace(b, len) ==
    IF writableBytes(b) + prependableBytes(b) < len
    THEN Grown(b, len)
    ELSE MovedToFront(b)

ensureWritableBytes(b, len) ==
    IF writableBytes(b) < len THEN makeSpace(b, len) ELSE b

(* The memory after copying data to beginWrite(), and hasWritten(). *)
Written(b, data) ==
    [buffer_ |-> [i \in 1..Len(b.buffer_) |->
                     IF i \in (b.writerIndex_ + 1)..(b.writerIndex_ + Len(data))
                     THEN data[i - b.writerIndex_] ELSE b.buffer_[i]],
     readerIndex_ |-> b.readerIndex_, writerIndex_ |-> b.writerIndex_ + Len(data)]

(* append() makes room first. *)
append(b, data) == Written(ensureWritableBytes(b, Len(data)), data)
=============================================================================
