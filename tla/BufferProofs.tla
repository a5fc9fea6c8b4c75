---------------------------- MODULE BufferProofs ----------------------------
(***************************************************************************)
(* What the operations of Buffer do to the bytes, for any bytes and any    *)
(* lengths: append() and retrieve() act on the readable bytes as on a      *)
(* queue, wherever makeSpace() puts them.                                  *)
(***************************************************************************)
EXTENDS Buffer, SequenceTheorems, TLAPS

(* The readable bytes of b are the last ones of s. *)
Holds(b, s) ==
    /\ readableBytes(b) <= Len(s)
    /\ \A i \in 1..readableBytes(b) :
          b.buffer_[b.readerIndex_ + i] = s[Len(s) - readableBytes(b) + i]

(* A sequence given by its elements. *)
LEMMA MemoryType ==
    ASSUME NEW Byte, NEW f, NEW n \in Nat, f \in [1..n -> Byte]
    PROVE  f \in Seq(Byte) /\ Len(f) = n
OBVIOUS

(* The parts of a buffer. *)
LEMMA BufferParts ==
    ASSUME NEW Byte, NEW b \in Buffers(Byte)
    PROVE  /\ b \in [buffer_ : Seq(Byte), readerIndex_ : Nat, writerIndex_ : Nat]
           /\ b.buffer_ \in Seq(Byte) /\ Len(b.buffer_) \in Nat
           /\ b.readerIndex_ \in Nat /\ b.writerIndex_ \in Nat
           /\ b.readerIndex_ <= b.writerIndex_
           /\ b.writerIndex_ <= Len(b.buffer_)
           /\ readableBytes(b) \in Nat
           /\ readableBytes(b) = b.writerIndex_ - b.readerIndex_
<1>1. /\ b \in [buffer_ : Seq(Byte), readerIndex_ : Nat, writerIndex_ : Nat]
      /\ b.readerIndex_ <= b.writerIndex_ /\ b.writerIndex_ <= Len(b.buffer_)
  BY DEF Buffers
<1>2. /\ b.buffer_ \in Seq(Byte) /\ Len(b.buffer_) \in Nat
      /\ b.readerIndex_ \in Nat /\ b.writerIndex_ \in Nat
  BY <1>1
<1> QED
  BY <1>1, <1>2 DEF readableBytes

(* A buffer from its parts. *)
LEMMA BufferFromParts ==
    ASSUME NEW Byte, NEW mem \in Seq(Byte), NEW r \in Nat, NEW w \in Nat,
           r <= w, w <= Len(mem)
    PROVE  [buffer_ |-> mem, readerIndex_ |-> r, writerIndex_ |-> w] \in Buffers(Byte)
BY DEF Buffers

(* The constructor makes an empty buffer. *)
LEMMA NewBufferIsEmpty ==
    ASSUME NEW Byte, NUL \in Byte, NEW n \in Nat
    PROVE  /\ NewBuffer(n) \in Buffers(Byte)
           /\ readableBytes(NewBuffer(n)) = 0
           /\ Len(NewBuffer(n).buffer_) = n
<1> DEFINE mem == [i \in 1..n |-> NUL]
<1>1. mem \in [1..n -> Byte]
  OBVIOUS
<1>2. mem \in Seq(Byte) /\ Len(mem) = n
  BY <1>1, MemoryType
<1>3. NewBuffer(n) = [buffer_ |-> mem, readerIndex_ |-> 0, writerIndex_ |-> 0]
  BY DEF NewBuffer
<1> HIDE DEF mem
<1>4. NewBuffer(n) \in Buffers(Byte)
  BY <1>2, <1>3, BufferFromParts
<1> QED
  BY <1>2, <1>3, <1>4 DEF readableBytes

(* retrieve() keeps the memory and moves the indices. *)
LEMMA RetrieveParts ==
    ASSUME NEW Byte, NEW b \in Buffers(Byte), NEW n \in Nat
    PROVE  /\ retrieve(b, n) \in Buffers(Byte)
           /\ retrieve(b, n).buffer_ = b.buffer_
           /\ n < readableBytes(b) =>
                 /\ readableBytes(retrieve(b, n)) = readableBytes(b) - n
                 /\ retrieve(b, n).readerIndex_ = b.readerIndex_ + n
           /\ ~(n < readableBytes(b)) => readableBytes(retrieve(b, n)) = 0
<1> DEFINE c == retrieve(b, n)
<1>1. /\ b \in [buffer_ : Seq(Byte), readerIndex_ : Nat, writerIndex_ : Nat]
      /\ b.buffer_ \in Seq(Byte) /\ Len(b.buffer_) \in Nat
      /\ b.readerIndex_ \in Nat /\ b.writerIndex_ \in Nat
      /\ b.writerIndex_ <= Len(b.buffer_)
      /\ readableBytes(b) = b.writerIndex_ - b.readerIndex_
  BY BufferParts
<1>2. CASE n < readableBytes(b)
  <2>1. c = [buffer_ |-> b.buffer_, readerIndex_ |-> b.readerIndex_ + n,
             writerIndex_ |-> b.writerIndex_]
    BY <1>1, <1>2 DEF retrieve
  <2>2. b.readerIndex_ + n \in Nat /\ b.readerIndex_ + n <= b.writerIndex_
    BY <1>1, <1>2
  <2> HIDE DEF c
  <2>3. c \in Buffers(Byte)
    BY <1>1, <2>1, <2>2, BufferFromParts
  <2>4. /\ c.buffer_ = b.buffer_ /\ c.readerIndex_ = b.readerIndex_ + n
        /\ c.writerIndex_ = b.writerIndex_
    BY <2>1
  <2>5. readableBytes(c) = readableBytes(b) - n
    BY <1>1, <2>4 DEF readableBytes
  <2> QED
    BY <1>2, <2>3, <2>4, <2>5 DEF c
<1>3. CASE ~(n < readableBytes(b))
  <2>1. c = [buffer_ |-> b.buffer_, readerIndex_ |-> 0, writerIndex_ |-> 0]
    BY <1>1, <1>3 DEF retrieve
  <2> HIDE DEF c
  <2>2. c \in Buffers(Byte)
    BY <1>1, <2>1, BufferFromParts
  <2>3. c.buffer_ = b.buffer_ /\ readableBytes(c) = 0
    BY <2>1 DEF readableBytes
  <2> QED
    BY <1>3, <2>2, <2>3 DEF c
<1> QED
  BY <1>2, <1>3

(* So what a buffer holds it still holds after retrieve(). *)
LEMMA RetrieveHolds ==
    ASSUME NEW Byte, NEW b \in Buffers(Byte), NEW n \in Nat,
           NEW S, NEW s \in Seq(S), Holds(b, s)
    PROVE  Holds(retrieve(b, n), s)
<1> DEFINE c == retrieve(b, n)
           r == readableBytes(b)
<1>1. r \in Nat /\ b.readerIndex_ \in Nat
  BY BufferParts
<1>2. /\ c.buffer_ = b.buffer_
      /\ n < r => readableBytes(c) = r - n /\ c.readerIndex_ = b.readerIndex_ + n
      /\ ~(n < r) => readableBytes(c) = 0
  BY RetrieveParts
<1>3. Len(s) \in Nat
  OBVIOUS
<1>4. r <= Len(s) /\ \A i \in 1..r : b.buffer_[b.readerIndex_ + i] = s[Len(s) - r + i]
  BY DEF Holds
<1> HIDE DEF c, r
<1>5. CASE n < r
  <2>1. ASSUME NEW i \in 1..(r - n)
        PROVE  c.buffer_[c.readerIndex_ + i] = s[Len(s) - (r - n) + i]
    <3>1. n + i \in 1..r
      BY <1>1, <1>5
    <3>2. b.buffer_[b.readerIndex_ + (n + i)] = s[Len(s) - r + (n + i)]
      BY <3>1, <1>4
    <3>3. /\ b.readerIndex_ + n + i = b.readerIndex_ + (n + i)
          /\ Len(s) - r + (n + i) = Len(s) - (r - n) + i
      BY <1>1, <1>3
    <3> QED
      BY <1>2, <1>5, <3>2, <3>3
  <2>2. readableBytes(c) = r - n /\ r - n <= Len(s)
    BY <1>1, <1>2, <1>3, <1>4, <1>5
  <2> QED
    BY <2>1, <2>2 DEF Holds, c
<1>6. CASE ~(n < r)
  <2>1. readableBytes(c) = 0
    BY <1>2, <1>6
  <2> QED
    BY <2>1, <1>3 DEF Holds, c
<1> QED
  BY <1>5, <1>6

-----------------------------------------------------------------------------
(* ensureWritableBytes() makes room for len bytes and keeps the readable   *)
(* ones, wherever it puts them.  It grows the memory only if the free      *)
(* bytes do not suffice, and then to less than twice len more than it has  *)
(* to hold.  The assertion in makeSpace() holds: bytes that are moved have *)
(* free ones in front of them.                                             *)
LEMMA GrownParts ==
    ASSUME NEW Byte, NUL \in Byte, NEW b \in Buffers(Byte), NEW len \in Nat,
           writableBytes(b) + prependableBytes(b) < len
    PROVE  /\ Grown(b, len) \in Buffers(Byte)
           /\ readableBytes(Grown(b, len)) = readableBytes(b)
           /\ Len(Grown(b, len).buffer_) = Grown(b, len).writerIndex_ + len
           /\ Len(Grown(b, len).buffer_) <= readableBytes(b) + 2 * len - 1
           /\ \A i \in 1..readableBytes(b) :
                 Grown(b, len).buffer_[Grown(b, len).readerIndex_ + i]
                     = b.buffer_[b.readerIndex_ + i]
<1> DEFINE c == Grown(b, len)
           r == b.readerIndex_
           w == b.writerIndex_
           old == b.buffer_
           mem == [i \in 1..(w + len) |-> IF i <= Len(old) THEN old[i] ELSE NUL]
<1>1. /\ b \in [buffer_ : Seq(Byte), readerIndex_ : Nat, writerIndex_ : Nat]
      /\ old \in Seq(Byte) /\ Len(old) \in Nat /\ r \in Nat /\ w \in Nat
      /\ r <= w /\ w <= Len(old) /\ readableBytes(b) = w - r
  BY BufferParts
<1>2. c = [buffer_ |-> mem, readerIndex_ |-> r, writerIndex_ |-> w]
  BY <1>1 DEF Grown
<1>3. Len(old) - w + r < len
  BY DEF writableBytes, prependableBytes
<1> HIDE DEF c, r, w, old
<1>4. mem \in [1..(w + len) -> Byte]
  BY <1>1
<1>5. mem \in Seq(Byte) /\ Len(mem) = w + len
  BY <1>1, <1>4, MemoryType
<1>6. \A i \in 1..(w - r) : mem[r + i] = old[r + i]
  BY <1>1
<1> HIDE DEF mem
<1>7. c \in Buffers(Byte)
  BY <1>1, <1>2, <1>5, BufferFromParts
<1>8. c.buffer_ = mem /\ c.readerIndex_ = r /\ c.writerIndex_ = w
  BY <1>2
<1>9. readableBytes(c) = w - r
  BY <1>8 DEF readableBytes
<1>10. w + len <= w - r + 2 * len - 1
  BY <1>1, <1>3
<1> QED
  BY <1>1, <1>5, <1>6, <1>7, <1>8, <1>9, <1>10 DEF c, r, old

LEMMA MovedParts ==
    ASSUME NEW Byte, NEW b \in Buffers(Byte)
    PROVE  /\ MovedToFront(b) \in Buffers(Byte)
           /\ readableBytes(MovedToFront(b)) = readableBytes(b)
           /\ MovedToFront(b).writerIndex_ = readableBytes(b)
           /\ Len(MovedToFront(b).buffer_) = Len(b.buffer_)
           /\ \A i \in 1..readableBytes(b) :
                 MovedToFront(b).buffer_[MovedToFront(b).readerIndex_ + i]
                     = b.buffer_[b.readerIndex_ + i]
<1> DEFINE c == MovedToFront(b)
           r == b.readerIndex_
           n == readableBytes(b)
           old == b.buffer_
           mem == [i \in 1..Len(old) |-> IF i <= n THEN old[r + i] ELSE old[i]]
<1>1. /\ b \in [buffer_ : Seq(Byte), readerIndex_ : Nat, writerIndex_ : Nat]
      /\ old \in Seq(Byte) /\ Len(old) \in Nat /\ r \in Nat /\ n \in Nat
      /\ r + n <= Len(old)
  BY BufferParts
<1>2. c = [buffer_ |-> mem, readerIndex_ |-> 0, writerIndex_ |-> n]
  BY <1>1 DEF MovedToFront
<1> HIDE DEF c, r, n, old
<1>3. mem \in [1..Len(old) -> Byte]
  BY <1>1
<1>4. mem \in Seq(Byte) /\ Len(mem) = Len(old)
  BY <1>1, <1>3, MemoryType
<1>5. \A i \in 1..n : mem[0 + i] = old[r + i]
  BY <1>1
<1> HIDE DEF mem
<1>6. c \in Buffers(Byte)
  <2>1. 0 <= n /\ n <= Len(mem)
    BY <1>1, <1>4
  <2> QED
    BY <1>1, <1>2, <1>4, <2>1, BufferFromParts
<1>7. c.buffer_ = mem /\ c.readerIndex_ = 0 /\ c.writerIndex_ = n
  BY <1>2
<1>8. readableBytes(c) = n
  BY <1>1, <1>7 DEF readableBytes
<1> QED
  BY <1>4, <1>5, <1>6, <1>7, <1>8 DEF c, r, n, old

LEMMA EnsureWritable ==
    ASSUME NEW Byte, NUL \in Byte, NEW b \in Buffers(Byte), NEW len \in Nat
    PROVE  /\ ensureWritableBytes(b, len) \in Buffers(Byte)
           /\ ensureWritableBytes(b, len).writerIndex_ + len
                 <= Len(ensureWritableBytes(b, len).buffer_)
           /\ readableBytes(ensureWritableBytes(b, len)) = readableBytes(b)
           /\ \/ Len(ensureWritableBytes(b, len).buffer_) = Len(b.buffer_)
              \/ Len(ensureWritableBytes(b, len).buffer_) <= readableBytes(b) + 2 * len - 1
           /\ \A i \in 1..readableBytes(b) :
                 ensureWritableBytes(b, len).buffer_[ensureWritableBytes(b, len).readerIndex_ + i]
                     = b.buffer_[b.readerIndex_ + i]
<1>1. /\ Len(b.buffer_) \in Nat /\ b.readerIndex_ \in Nat /\ b.writerIndex_ \in Nat
      /\ readableBytes(b) = b.writerIndex_ - b.readerIndex_
  BY BufferParts
<1>2. CASE ~(writableBytes(b) < len)
  BY <1>1, <1>2 DEF ensureWritableBytes, writableBytes
<1>3. CASE writableBytes(b) < len /\ writableBytes(b) + prependableBytes(b) < len
  <2>1. ensureWritableBytes(b, len) = Grown(b, len)
    BY <1>3 DEF ensureWritableBytes, makeSpace
  <2> DEFINE g == Grown(b, len)
  <2>2. /\ g \in Buffers(Byte)
        /\ readableBytes(g) = readableBytes(b)
        /\ Len(g.buffer_) = g.writerIndex_ + len
        /\ Len(g.buffer_) <= readableBytes(b) + 2 * len - 1
        /\ \A i \in 1..readableBytes(b) :
              g.buffer_[g.readerIndex_ + i] = b.buffer_[b.readerIndex_ + i]
    BY <1>3, GrownParts
  <2> HIDE DEF g
  <2>3. g.writerIndex_ \in Nat /\ Len(g.buffer_) \in Nat
    BY <2>2, BufferParts
  <2>4. g.writerIndex_ + len <= Len(g.buffer_)
    BY <2>2, <2>3
  <2> QED
    BY <2>1, <2>2, <2>4, Zenon DEF g
<1>4. CASE writableBytes(b) < len /\ ~(writableBytes(b) + prependableBytes(b) < len)
  <2>1. ensureWritableBytes(b, len) = MovedToFront(b)
    BY <1>4 DEF ensureWritableBytes, makeSpace
  <2>2. readableBytes(b) + len <= Len(b.buffer_)
    BY <1>1, <1>4 DEF writableBytes, prependableBytes
  <2> QED
    BY <2>1, <2>2, MovedParts
<1> QED
  BY <1>2, <1>3, <1>4

(* Copying data behind the readable bytes: a buffer that holds the last    *)
(* bytes of s then holds the last bytes of s followed by data.             *)
LEMMA WrittenHolds ==
    ASSUME NEW Byte, NEW b \in Buffers(Byte), NEW data \in Seq(Byte),
           b.writerIndex_ + Len(data) <= Len(b.buffer_),
           NEW s \in Seq(Byte), Holds(b, s)
    PROVE  /\ Written(b, data) \in Buffers(Byte)
           /\ Len(Written(b, data).buffer_) = Len(b.buffer_)
           /\ readableBytes(Written(b, data)) = readableBytes(b) + Len(data)
           /\ Holds(Written(b, data), s \o data)
<1> DEFINE c == Written(b, data)
           r == b.readerIndex_
           w == b.writerIndex_
           n == readableBytes(b)
           d == Len(data)
           L == Len(s)
           t == s \o data
           old == b.buffer_
           mem == [i \in 1..Len(old) |-> IF i \in (w + 1)..(w + d)
                                         THEN data[i - w] ELSE old[i]]
<1>1. /\ b \in [buffer_ : Seq(Byte), readerIndex_ : Nat, writerIndex_ : Nat]
      /\ old \in Seq(Byte) /\ Len(old) \in Nat /\ r \in Nat /\ w \in Nat
      /\ r <= w /\ n \in Nat /\ n = w - r
      /\ d \in Nat /\ L \in Nat /\ w + d <= Len(old)
  BY BufferParts
<1>2. c = [buffer_ |-> mem, readerIndex_ |-> r, writerIndex_ |-> w + d]
  BY <1>1 DEF Written
<1>3. n <= L /\ \A i \in 1..n : old[r + i] = s[L - n + i]
  BY DEF Holds
<1>4. /\ Len(t) = L + d
      /\ \A i \in 1..(L + d) : t[i] = IF i <= L THEN s[i] ELSE data[i - L]
  BY ConcatProperties
<1>5. data \in [1..d -> Byte]
  OBVIOUS
<1> HIDE DEF c, r, w, n, old, d, L, t
<1>6. mem \in [1..Len(old) -> Byte]
  BY <1>1, <1>5
<1>7. mem \in Seq(Byte) /\ Len(mem) = Len(old)
  BY <1>1, <1>6, MemoryType
<1>8. \A i \in 1..n : mem[r + i] = old[r + i]
  BY <1>1
<1>9. \A i \in (n + 1)..(n + d) : mem[r + i] = data[i - n]
  <2> SUFFICES ASSUME NEW i \in (n + 1)..(n + d)
               PROVE  mem[r + i] = data[i - n]
    OBVIOUS
  <2>1. PICK j \in 1..Len(old) : j = r + i /\ j \in (w + 1)..(w + d) /\ j - w = i - n
    BY <1>1
  <2>2. mem[j] = data[j - w]
    BY <2>1
  <2> QED
    BY <2>1, <2>2
<1> HIDE DEF mem
<1>10. c \in Buffers(Byte)
  <2>1. w + d \in Nat /\ r <= w + d /\ w + d <= Len(mem)
    BY <1>1, <1>7
  <2> QED
    BY <1>1, <1>2, <1>7, <2>1, BufferFromParts
<1>11. c.buffer_ = mem /\ c.readerIndex_ = r /\ c.writerIndex_ = w + d
  BY <1>2
<1>12. readableBytes(c) = n + d
  BY <1>1, <1>11 DEF readableBytes
<1>13. ASSUME NEW i \in 1..(n + d)
       PROVE  mem[r + i] = t[L + d - (n + d) + i]
  <2>1. PICK k \in 1..(L + d) : k = L + d - (n + d) + i /\ k = L - n + i
    BY <1>1, <1>3
  <2>2. t[k] = IF k <= L THEN s[k] ELSE data[k - L]
    BY <1>4
  <2>3. CASE i <= n
    <3>1. i \in 1..n /\ k <= L
      BY <1>1, <2>1, <2>3
    <3>2. mem[r + i] = old[r + i] /\ old[r + i] = s[k]
      BY <1>3, <1>8, <2>1, <3>1
    <3> QED
      BY <2>1, <2>2, <3>1, <3>2
  <2>4. CASE ~(i <= n)
    <3>1. i \in (n + 1)..(n + d) /\ ~(k <= L) /\ k - L = i - n
      BY <1>1, <2>1, <2>4
    <3>2. mem[r + i] = data[i - n]
      BY <1>9, <3>1
    <3> QED
      BY <2>1, <2>2, <3>1, <3>2
  <2> QED
    BY <2>3, <2>4
<1>14. n + d <= L + d
  BY <1>1, <1>3
<1>15. Holds(c, t)
  BY <1>1, <1>4, <1>11, <1>12, <1>13, <1>14 DEF Holds
<1> QED
  BY <1>7, <1>10, <1>11, <1>12, <1>15 DEF c, n, d, t, old

(* append() puts data behind the readable bytes, and the memory grows no   *)
(* further than ensureWritableBytes() makes it.                            *)
LEMMA AppendHolds ==
    ASSUME NEW Byte, NUL \in Byte, NEW b \in Buffers(Byte), NEW data \in Seq(Byte),
           NEW s \in Seq(Byte), Holds(b, s)
    PROVE  /\ append(b, data) \in Buffers(Byte)
           /\ readableBytes(append(b, data)) = readableBytes(b) + Len(data)
           /\ \/ Len(append(b, data).buffer_) = Len(b.buffer_)
              \/ Len(append(b, data).buffer_) <= readableBytes(b) + 2 * Len(data) - 1
           /\ Holds(append(b, data), s \o data)
<1> DEFINE e == ensureWritableBytes(b, Len(data))
<1>1. Len(data) \in Nat /\ readableBytes(b) \in Nat /\ Len(s) \in Nat
  BY BufferParts
<1>2. /\ e \in Buffers(Byte)
      /\ e.writerIndex_ + Len(data) <= Len(e.buffer_)
      /\ readableBytes(e) = readableBytes(b)
      /\ \/ Len(e.buffer_) = Len(b.buffer_)
         \/ Len(e.buffer_) <= readableBytes(b) + 2 * Len(data) - 1
      /\ \A i \in 1..readableBytes(b) :
            e.buffer_[e.readerIndex_ + i] = b.buffer_[b.readerIndex_ + i]
  BY <1>1, EnsureWritable
<1>3. append(b, data) = Written(e, data)
  BY DEF append
<1> HIDE DEF e
<1>4. Holds(e, s)
  BY <1>1, <1>2 DEF Holds
<1>5. /\ Written(e, data) \in Buffers(Byte)
      /\ Len(Written(e, data).buffer_) = Len(e.buffer_)
      /\ readableBytes(Written(e, data)) = readableBytes(e) + Len(data)
      /\ Holds(Written(e, data), s \o data)
  BY <1>2, <1>4, WrittenHolds
<1> QED
  BY <1>2, <1>3, <1>5
=============================================================================
