-------------------------- MODULE EslBufferProofs ---------------------------
(***************************************************************************)
(* A buffer without a length limit, for every block size, start length,    *)
(* chunk and amount read.  Each operation, as a function of the buffer, is *)
(* shown to keep it sound, so the bytes in use stay inside the block.  From *)
(* that follow, about the search for a packet's end, that a packet goes up *)
(* to its blank line and that the packets announced are those delivered,   *)
(* and, operation by operation, that the buffer implements ByteTape.       *)
(***************************************************************************)
EXTENDS EslBuffer, SequenceTheorems, WellFoundedInduction, TLAPS

\* Memory of any size, and records that may be buffers.
Memory == UNION {[Cells(n) -> Byte] : n \in Nat}

Buffers == [data : Memory, head : Nat, used : Nat, actually_used : Nat,
            datalen : Nat, loops : Int]

\* A well-formed buffer whose bytes in use lie inside its block.
Sound(b) ==
  /\ b \in Buffers
  /\ b.data \in [Cells(b.datalen) -> Byte]
  /\ b.head + b.used = b.actually_used
  /\ b.actually_used <= b.datalen

\* Taking up to what is in use keeps a buffer sound.
LEMMA AdvancedSound ==
  ASSUME NEW b, Sound(b), NEW n \in Nat, n <= b.used
  PROVE  Sound(Advanced(b, n)) /\ Advanced(b, n).actually_used = b.actually_used
<1>1. b.used - n \in Nat /\ b.head + n \in Nat
  BY DEF Sound, Buffers
<1>2. Advanced(b, n) \in Buffers
  BY <1>1, Zenon DEF Sound, Buffers, Advanced
<1>3. /\ Advanced(b, n).data = b.data /\ Advanced(b, n).datalen = b.datalen
      /\ Advanced(b, n).actually_used = b.actually_used
      /\ Advanced(b, n).used = b.used - n /\ Advanced(b, n).head = b.head + n
  BY DEF Sound, Buffers, Advanced
<1>4. b.head \in Nat /\ b.used \in Nat
  BY DEF Sound, Buffers
<1>. QED
  BY <1>2, <1>3, <1>4 DEF Sound

\* What is read is never more than what is in use.
LEMMA ReadingBound ==
  ASSUME NEW b, Sound(b), NEW n \in Nat
  PROVE  reading(b, n) \in Nat /\ reading(b, n) <= b.used
BY DEF Sound, Buffers, reading

\* The bytes in use are bytes.
LEMMA UsingBytes ==
  ASSUME NEW b, Sound(b)
  PROVE  Using(b) \in Seq(Byte) /\ Len(Using(b)) = b.used
<1>1. \A i \in 1 .. b.used : b.head + i - 1 \in Cells(b.datalen)
  BY DEF Sound, Buffers, Cells
<1>2. Using(b) \in [1 .. b.used -> Byte]
  BY <1>1 DEF Using, Sound
<1>. QED
  BY <1>2 DEF Sound, Buffers

\* Going to a place among the bytes kept keeps the buffer sound.
LEMMA SoughtSound ==
  ASSUME NEW b, Sound(b), NEW n \in Nat, n <= b.actually_used
  PROVE  Sound([b EXCEPT !.used = b.actually_used - n, !.head = n])
<1>. DEFINE c == [b EXCEPT !.used = b.actually_used - n, !.head = n]
<1>1. b.actually_used - n \in Nat
  BY DEF Sound, Buffers
<1>2. c \in Buffers
  BY <1>1, Zenon DEF Sound, Buffers
<1>3. /\ c.data = b.data /\ c.datalen = b.datalen
      /\ c.actually_used = b.actually_used
      /\ c.used = b.actually_used - n /\ c.head = n
  BY DEF Sound, Buffers
<1>4. b.actually_used \in Nat
  BY DEF Sound, Buffers
<1>. QED
  BY <1>2, <1>3, <1>4 DEF Sound

\* Emptying the buffer keeps its block.
LEMMA ZeroedSound ==
  ASSUME NEW b, Sound(b)
  PROVE  Sound(Zeroed(b))
<1>1. Zeroed(b) \in Buffers
  BY Zenon DEF Sound, Buffers, Zeroed
<1>2. /\ Zeroed(b).data = b.data /\ Zeroed(b).datalen = b.datalen
      /\ Zeroed(b).actually_used = 0 /\ Zeroed(b).used = 0 /\ Zeroed(b).head = 0
  BY DEF Sound, Buffers, Zeroed
<1>. QED
  BY <1>1, <1>2 DEF Sound, Buffers

\* Compaction keeps the bytes in use inside the block.
LEMMA CompactedSound ==
  ASSUME NEW b, Sound(b)
  PROVE  /\ Sound(Compacted(b))
         /\ Compacted(b).actually_used = b.used /\ Compacted(b).used = b.used
         /\ Compacted(b).head = 0 /\ Compacted(b).datalen = b.datalen
<1>. DEFINE d == [a \in DOMAIN b.data |->
                    IF a < b.used THEN b.data[b.head + a] ELSE b.data[a]]
<1>1. \A a \in Cells(b.datalen) : a < b.used => b.head + a \in Cells(b.datalen)
  BY DEF Sound, Buffers, Cells
<1>2. d \in [Cells(b.datalen) -> Byte]
  BY <1>1 DEF Sound
<1>3. d \in Memory /\ b.used \in Nat
  BY <1>2, Zenon DEF Memory, Sound, Buffers
<1>. HIDE DEF d
<1>4. Compacted(b) = [b EXCEPT !.data = d, !.head = 0, !.actually_used = b.used]
  BY Zenon DEF Compacted, d
<1>5. Compacted(b) \in Buffers
  <2>1. [b EXCEPT !.data = d] \in Buffers
    BY <1>3, Zenon DEF Sound, Buffers
  <2>2. [[b EXCEPT !.data = d] EXCEPT !.head = 0, !.actually_used = b.used] \in Buffers
    BY <1>3, <2>1, Zenon DEF Buffers
  <2>. QED
    BY <1>4, <2>2
<1>6. /\ Compacted(b).data = d
      /\ Compacted(b).actually_used = b.used /\ Compacted(b).used = b.used
      /\ Compacted(b).head = 0 /\ Compacted(b).datalen = b.datalen
  BY <1>4 DEF Sound, Buffers
<1>. QED
  BY <1>2, <1>3, <1>5, <1>6 DEF Sound, Buffers

\* A larger block holds what the smaller one held.
LEMMA EnlargedSound ==
  ASSUME NEW b, Sound(b), b.head = 0, NEW n \in Nat, b.datalen <= n, NEW f \in Byte
  PROVE  /\ Sound(Enlarged(b, n, f))
         /\ Enlarged(b, n, f).datalen = n
         /\ Enlarged(b, n, f).used = b.used /\ Enlarged(b, n, f).head = 0
         /\ Enlarged(b, n, f).actually_used = b.actually_used
<1>. DEFINE d == [a \in Cells(n) |-> IF a < b.datalen THEN b.data[a] ELSE f]
<1>1. d \in [Cells(n) -> Byte]
  BY DEF Sound, Buffers, Cells
<1>2. d \in Memory
  BY <1>1, Zenon DEF Memory
<1>. HIDE DEF d
<1>3. Enlarged(b, n, f) = [b EXCEPT !.data = d, !.head = 0, !.datalen = n]
  BY Zenon DEF Enlarged, d
<1>4. Enlarged(b, n, f) \in Buffers
  <2>1. [b EXCEPT !.data = d] \in Buffers
    BY <1>2, Zenon DEF Sound, Buffers
  <2>2. [[b EXCEPT !.data = d] EXCEPT !.head = 0, !.datalen = n] \in Buffers
    BY <2>1, Zenon DEF Buffers
  <2>. QED
    BY <1>3, <2>2
<1>5. /\ Enlarged(b, n, f).data = d /\ Enlarged(b, n, f).datalen = n
      /\ Enlarged(b, n, f).used = b.used /\ Enlarged(b, n, f).head = 0
      /\ Enlarged(b, n, f).actually_used = b.actually_used
  BY <1>3 DEF Sound, Buffers
<1>. QED
  BY <1>1, <1>4, <1>5 DEF Sound, Buffers

\* Bytes that fit behind those in use leave the buffer sound.
LEMMA FilledSound ==
  ASSUME NEW b, Sound(b), NEW bytes \in Seq(Byte),
         b.actually_used + Len(bytes) <= b.datalen
  PROVE  Sound(Filled(b, bytes))
<1>. DEFINE e == b.head + b.used
            d == [a \in DOMAIN b.data |->
                    IF a \in e .. e + Len(bytes) - 1
                    THEN bytes[a - e + 1] ELSE b.data[a]]
<1>1. e \in Nat /\ Len(bytes) \in Nat /\ b.datalen \in Nat
  BY DEF Sound, Buffers
<1>2. \A a \in Cells(b.datalen) :
        a \in e .. e + Len(bytes) - 1 => a - e + 1 \in 1 .. Len(bytes)
  <2>. HIDE DEF e
  <2>. QED
    BY <1>1 DEF Cells
<1>3. d \in [Cells(b.datalen) -> Byte]
  <2>. HIDE DEF e
  <2>1. \A a \in Cells(b.datalen) : d[a] \in Byte
    BY <1>1, <1>2 DEF Sound
  <2>. QED
    BY <2>1 DEF Sound
<1>4. d \in Memory
  BY <1>3, Zenon DEF Memory, Sound, Buffers
<1>5. Filled(b, bytes) =
        [b EXCEPT !.data = d, !.used = b.used + Len(bytes),
                  !.actually_used = b.actually_used + Len(bytes)]
  BY Zenon DEF Filled
<1>. HIDE DEF d, e
<1>6. b.used + Len(bytes) \in Nat /\ b.actually_used + Len(bytes) \in Nat
  BY <1>1 DEF Sound, Buffers
<1>7. Filled(b, bytes) \in Buffers
  <2>1. [b EXCEPT !.data = d] \in Buffers
    BY <1>4, Zenon DEF Sound, Buffers
  <2>2. [[b EXCEPT !.data = d] EXCEPT
           !.used = b.used + Len(bytes),
           !.actually_used = b.actually_used + Len(bytes)] \in Buffers
    BY <1>6, <2>1, Zenon DEF Buffers
  <2>. QED
    BY <1>5, <2>2
<1>8. /\ Filled(b, bytes).data = d /\ Filled(b, bytes).datalen = b.datalen
      /\ Filled(b, bytes).head = b.head
      /\ Filled(b, bytes).used = b.used + Len(bytes)
      /\ Filled(b, bytes).actually_used = b.actually_used + Len(bytes)
  BY <1>5 DEF Sound, Buffers
<1>. QED
  BY <1>1, <1>3, <1>7, <1>8 DEF Sound, Buffers

\* Room is made by compaction, or there is room; compacted, the bytes in use
\* start the block.
LEMMA MadeRoomSound ==
  ASSUME max_len = 0, NEW b, Sound(b), NEW n \in Nat
  PROVE  /\ Sound(MadeRoom(b, n))
         /\ \/ MadeRoom(b, n).head = 0
            \/ MadeRoom(b, n).datalen - MadeRoom(b, n).actually_used >= n
<1>1. CASE b.datalen - b.actually_used < n
  BY <1>1, CompactedSound DEF MadeRoom
<1>2. CASE ~ (b.datalen - b.actually_used < n)
  <2>1. MadeRoom(b, n) = b
    BY <1>2 DEF MadeRoom
  <2>. QED
    BY <1>2, <2>1 DEF Sound, Buffers
<1>. QED
  BY <1>1, <1>2

\* Whatever a write comes to, the buffer is sound.
LEMMA WrittenSound ==
  ASSUME max_len = 0, NEW b, Sound(b), NEW bytes \in Seq(Byte),
         NEW w \in Written(b, bytes)
  PROVE  Sound(w.buffer) /\ w.ret \in Nat
<1>. DEFINE n == Len(bytes)
            r == MadeRoom(b, n)
<1>1. n \in Nat
  OBVIOUS
<1>2. Sound(r) /\ (r.head = 0 \/ r.datalen - r.actually_used >= n)
  BY <1>1, MadeRoomSound
<1>3. r.used + n \in Nat
  BY <1>1, <1>2 DEF Sound, Buffers
<1>4. CASE r.datalen - r.used >= n
  <2>1. w = [buffer |-> Filled(r, bytes), ret |-> r.used + n]
    BY <1>4 DEF Written
  <2>2. r.actually_used + n <= r.datalen
    BY <1>1, <1>2, <1>4 DEF Sound, Buffers
  <2>3. Sound(Filled(r, bytes))
    BY <1>2, <2>2, FilledSound
  <2>. QED
    BY <1>3, <2>1, <2>3
<1>5. CASE ~ (r.datalen - r.used >= n)
  <2>1. r.head = 0 /\ r.actually_used = r.used
    BY <1>1, <1>2, <1>5 DEF Sound, Buffers
  <2>2. ASSUME NEW f \in Fresh,
               w = [buffer |-> Filled(Enlarged(r, new_size(r, n), f), bytes),
                    ret |-> r.used + n]
        PROVE  Sound(w.buffer) /\ w.ret \in Nat
    <3>1. /\ new_size(r, n) \in Nat /\ r.datalen <= new_size(r, n)
          /\ r.datalen + n <= new_size(r, n)
      <4>1. r.datalen \in Nat /\ blocksize \in Nat
        BY <1>2, CreateAssumption DEF Sound, Buffers
      <4>. HIDE DEF r, n
      <4>. QED
        BY <1>1, <4>1 DEF new_size
    <3>2. f \in Byte
      BY InputAssumption
    <3>. DEFINE q == Enlarged(r, new_size(r, n), f)
    <3>3. Sound(q) /\ q.datalen = new_size(r, n) /\ q.actually_used = r.actually_used
      BY <1>2, <2>1, <3>1, <3>2, EnlargedSound
    <3>4. q.actually_used + n <= q.datalen
      <4>1. /\ r.actually_used \in Nat /\ r.datalen \in Nat
            /\ r.actually_used <= r.datalen
        BY <1>2 DEF Sound, Buffers
      <4>. HIDE DEF q, r, n
      <4>. QED
        BY <1>1, <3>1, <3>3, <4>1
    <3>5. Sound(Filled(q, bytes))
      <4>. HIDE DEF q
      <4>. QED
        BY <3>3, <3>4, FilledSound
    <3>. QED
      BY <1>3, <2>2, <3>5
  <2>3. ASSUME w = [buffer |-> [r EXCEPT !.head = 0], ret |-> 0]
        PROVE  Sound(w.buffer) /\ w.ret \in Nat
    <3>1. [r EXCEPT !.head = 0] = r
      BY <1>2, <2>1 DEF Sound, Buffers
    <3>. QED
      BY <1>2, <2>3, <3>1
  <2>. QED
    BY <1>5, <2>2, <2>3 DEF Written
<1>. QED
  BY <1>4, <1>5

-----------------------------------------------------------------------------

\* The inductive invariant: the buffer is sound, and what was given to it and
\* taken from it are bytes.
IInv == Sound(buffer) /\ in \in Seq(Byte) /\ out \in Seq(Byte) /\ ret \in Nat

\* A new buffer is sound.
LEMMA InitIInv == Init => IInv
<1>. SUFFICES ASSUME Init PROVE IInv
  OBVIOUS
<1>1. PICK f \in Fresh :
        buffer = [data |-> [a \in Cells(start_len) |-> IF a < start_len THEN "0" ELSE f],
                  head |-> 0, used |-> 0, actually_used |-> 0,
                  datalen |-> start_len, loops |-> 0]
  BY DEF Init
<1>2. f \in Byte /\ "0" \in Byte /\ start_len \in Nat
  BY InputAssumption, CreateAssumption DEF Byte
<1>3. buffer.data \in [Cells(start_len) -> Byte]
  BY <1>1, <1>2
<1>4. buffer.data \in Memory
  BY <1>2, <1>3, Zenon DEF Memory
<1>5. Sound(buffer)
  BY <1>1, <1>2, <1>3, <1>4 DEF Sound, Buffers
<1>. QED
  BY <1>5 DEF IInv, Init

\* A read takes bytes in use.
LEMMA ReadIInv ==
  ASSUME IInv, NEW n \in Nat, Read(n)
  PROVE  IInv'
<1>. DEFINE r == reading(buffer, n)
<1>1. r \in Nat /\ r <= buffer.used /\ Sound(buffer)
  BY ReadingBound DEF IInv
<1>2. Using(buffer) \in Seq(Byte) /\ Len(Using(buffer)) = buffer.used
  BY <1>1, UsingBytes
<1>3. SubSeq(Using(buffer), 1, r) \in Seq(Byte)
  <2>. HIDE DEF r
  <2>. QED
    BY <1>1, <1>2 DEF Sound, Buffers
<1>4. Sound(Advanced(buffer, r))
  BY <1>1, AdvancedSound
<1>. QED
  BY <1>1, <1>3, <1>4 DEF Read, IInv

\* A non-empty set of natural numbers has a least element.
LEMMA LeastNatural ==
  ASSUME NEW S \in SUBSET Nat, S # {}
  PROVE  \E x \in S : \A y \in S : x <= y
<1>1. PICK x \in S : \A y \in S : <<y, x>> \notin OpToRel(<, Nat)
  BY NatLessThanWellFounded, WFMin
<1>2. \A y \in S : ~ (y < x)
  BY <1>1 DEF OpToRel
<1>. QED
  BY <1>2

\* A packet has a length.
LEMMA PacketLenType ==
  ASSUME NEW b, Sound(b)
  PROVE  PacketLen(b) \in Nat
<1>. DEFINE e == b.head + b.used
            found == {p \in b.head .. e - 1 :
                        BlankAt(b, p) /\ \A a \in b.head .. p : b.data[a] # "0"}
<1>1. CASE found = {}
  BY <1>1 DEF PacketLen
<1>2. CASE found # {}
  <2>. DEFINE p == CHOOSE p \in found : \A q \in found : p <= q
  <2>1. \E x \in found : \A q \in found : x <= q
    <3>1. found \in SUBSET Nat
      BY DEF Sound, Buffers
    <3>. HIDE DEF found
    <3>. QED
      BY <1>2, <3>1, LeastNatural
  <2>2. p \in found
    <3>. HIDE DEF found
    <3>. QED
      BY <2>1
  <2>3. b.head \in Nat /\ p \in Int /\ b.head <= p
    <3>1. b.head \in Nat /\ e \in Nat
      BY DEF Sound, Buffers
    <3>2. p \in b.head .. e - 1
      <4>. HIDE DEF p
      <4>. QED
        BY <2>2
    <3>. HIDE DEF p, e
    <3>. QED
      BY <3>1, <3>2
  <2>4. PacketLen(b) = Behind(b, p) - b.head
    BY <1>2 DEF PacketLen
  <2>. HIDE DEF p
  <2>. QED
    BY <2>3, <2>4 DEF Behind
<1>. QED
  BY <1>1, <1>2

\* Every step of the interface keeps the invariant: one case per operation.
LEMMA NextIInv ==
  ASSUME max_len = 0, IInv, [Next]_vars
  PROVE  IInv'
<1>1. Sound(buffer) /\ in \in Seq(Byte) /\ out \in Seq(Byte)
  BY DEF IInv
<1>2. ASSUME NEW bytes \in Chunks, esl_buffer_write(bytes)
      PROVE  IInv'
  <2>1. bytes \in Seq(Byte)
    BY InputAssumption
  <2>2. PICK w \in Written(buffer, bytes) :
          buffer' = w.buffer /\ ret' = w.ret /\ in' = bytes /\ out' = out
    BY <1>2 DEF esl_buffer_write
  <2>. QED
    BY <1>1, <2>1, <2>2, WrittenSound DEF IInv
<1>3. ASSUME NEW bytes \in Chunks, esl_buffer_zwrite(bytes)
      PROVE  IInv'
  <2>1. bytes \in Seq(Byte)
    BY InputAssumption
  <2>. PICK w \in Written(buffer, bytes) :
         \E v \in IF w.ret = 0 THEN Written(Zeroed(w.buffer), bytes) ELSE {w} :
           buffer' = v.buffer /\ ret' = v.ret /\ in' = bytes /\ out' = out
    BY <1>3 DEF esl_buffer_zwrite
  <2>2. PICK v \in IF w.ret = 0 THEN Written(Zeroed(w.buffer), bytes) ELSE {w} :
          buffer' = v.buffer /\ ret' = v.ret /\ in' = bytes /\ out' = out
    OBVIOUS
  <2>3. Sound(w.buffer) /\ w.ret \in Nat
    BY <1>1, <2>1, WrittenSound
  <2>4. CASE w.ret = 0
    <3>1. Sound(Zeroed(w.buffer))
      BY <2>3, ZeroedSound
    <3>2. v \in Written(Zeroed(w.buffer), bytes)
      BY <2>4
    <3>3. Sound(v.buffer) /\ v.ret \in Nat
      BY <2>1, <3>1, <3>2, WrittenSound
    <3>. QED
      BY <1>1, <2>1, <2>2, <3>3 DEF IInv
  <2>5. CASE w.ret # 0
    BY <1>1, <2>1, <2>2, <2>3, <2>5 DEF IInv
  <2>. QED
    BY <2>4, <2>5
<1>4. ASSUME NEW n \in Sizes, esl_buffer_read(n)
      PROVE  IInv'
  BY <1>4, InputAssumption, ReadIInv DEF esl_buffer_read
<1>5. ASSUME NEW n \in Nat, esl_buffer_read_packet(n)
      PROVE  IInv'
  <2>1. PacketLen(buffer) \in Nat
    BY <1>1, PacketLenType
  <2>. QED
    BY <1>5, <2>1, ReadIInv DEF esl_buffer_read_packet
<1>6. ASSUME NEW n \in Sizes, esl_buffer_toss(n)
      PROVE  IInv'
  <2>. DEFINE r == reading(buffer, n)
  <2>1. r \in Nat /\ r <= buffer.used
    BY <1>1, InputAssumption, ReadingBound
  <2>2. Sound(Advanced(buffer, r))
    BY <1>1, <2>1, AdvancedSound
  <2>3. Advanced(buffer, r).used \in Nat
    BY <2>2 DEF Sound, Buffers
  <2>. QED
    BY <1>1, <1>6, <2>2, <2>3 DEF esl_buffer_toss, IInv
<1>7. ASSUME NEW n \in Sizes, esl_buffer_seek(n)
      PROVE  IInv'
  <2>. DEFINE r == reading(buffer, n)
  <2>1. r \in Nat /\ r <= buffer.used
    BY <1>1, InputAssumption, ReadingBound
  <2>2. r <= buffer.actually_used
    <3>. HIDE DEF r
    <3>. QED
      BY <1>1, <2>1 DEF Sound, Buffers
  <2>3. Sound([buffer EXCEPT !.used = buffer.actually_used - r, !.head = r])
    BY <1>1, <2>1, <2>2, SoughtSound
  <2>. QED
    BY <1>1, <1>7, <2>1, <2>3 DEF esl_buffer_seek, IInv
<1>8. ASSUME NEW loops \in {-1, 0, 1}, esl_buffer_set_loops(loops)
      PROVE  IInv'
  <2>1. Sound([buffer EXCEPT !.loops = loops])
    BY <1>1 DEF Sound, Buffers
  <2>. QED
    BY <1>1, <1>8, <2>1 DEF esl_buffer_set_loops, IInv
<1>9. ASSUME NEW n \in Sizes, esl_buffer_read_loop(n)
      PROVE  IInv'
  <2>. DEFINE len == reading(buffer, n)
              rest == Advanced(buffer, len)
              again == [rest EXCEPT !.head = 0, !.used = rest.actually_used]
              more == reading(again, n - len)
  <2>1. n \in Nat
    BY InputAssumption
  <2>2. CASE len = n \/ buffer.loops = 0
    BY <1>9, <2>1, <2>2, ReadIInv DEF esl_buffer_read_loop
  <2>3. CASE ~ (len = n \/ buffer.loops = 0)
    <3>1. len \in Nat /\ len <= buffer.used /\ n - len \in Nat
      BY <1>1, <2>1 DEF reading, Sound, Buffers
    <3>2. Sound(rest)
      BY <1>1, <3>1, AdvancedSound
    <3>3. Sound(again)
      <4>1. Sound([rest EXCEPT !.used = rest.actually_used - 0, !.head = 0])
        <5>. HIDE DEF rest
        <5>1. 0 \in Nat /\ 0 <= rest.actually_used
          BY <3>2 DEF Sound, Buffers
        <5>. QED
          BY <3>2, <5>1, SoughtSound
      <4>2. rest.actually_used - 0 = rest.actually_used
        BY <3>2 DEF Sound, Buffers
      <4>3. again = [rest EXCEPT !.used = rest.actually_used - 0, !.head = 0]
        <5>. HIDE DEF rest
        <5>. QED
          BY <3>2, <4>2 DEF Sound, Buffers
      <4>. QED
        BY <4>1, <4>3
    <3>4. more \in Nat /\ more <= again.used
      <4>. HIDE DEF again, len
      <4>. QED
        BY <3>1, <3>3, ReadingBound
    <3>5. Sound(Advanced(again, more))
      <4>. HIDE DEF again, more
      <4>. QED
        BY <3>3, <3>4, AdvancedSound
    <3>6. Sound([Advanced(again, more) EXCEPT !.loops = @ - 1])
      <4>. DEFINE c == Advanced(again, more)
      <4>. HIDE DEF c
      <4>1. Sound(c) => Sound([c EXCEPT !.loops = @ - 1])
        BY DEF Sound, Buffers
      <4>. QED
        BY <3>5, <4>1 DEF c
    <3>7. SubSeq(Using(buffer), 1, len) \o SubSeq(Using(again), 1, more) \in Seq(Byte)
      <4>1. Using(buffer) \in Seq(Byte) /\ Len(Using(buffer)) = buffer.used
        BY <1>1, UsingBytes
      <4>2. Using(again) \in Seq(Byte) /\ Len(Using(again)) = again.used
        <5>. HIDE DEF again
        <5>. QED
          BY <3>3, UsingBytes
      <4>3. buffer.used \in Nat /\ again.used \in Nat
        <5>. HIDE DEF again
        <5>. QED
          BY <1>1, <3>3 DEF Sound, Buffers
      <4>. HIDE DEF again, more, len
      <4>4. SubSeq(Using(buffer), 1, len) \in Seq(Byte)
        BY <3>1, <4>1, <4>3
      <4>5. SubSeq(Using(again), 1, more) \in Seq(Byte)
        BY <3>4, <4>2, <4>3
      <4>. QED
        BY <4>4, <4>5
    <3>8. /\ buffer' = [Advanced(again, more) EXCEPT !.loops = @ - 1]
          /\ out' = SubSeq(Using(buffer), 1, len) \o SubSeq(Using(again), 1, more)
          /\ ret' = more /\ in' = in
      BY <1>9, <2>3, Zenon DEF esl_buffer_read_loop
    <3>. HIDE DEF again, more, len, rest
    <3>. QED
      BY <1>1, <3>4, <3>6, <3>7, <3>8 DEF IInv
  <2>. QED
    BY <2>2, <2>3
<1>10. ASSUME esl_buffer_zero
       PROVE  IInv'
  BY <1>1, <1>10, ZeroedSound DEF esl_buffer_zero, IInv
<1>11. CASE UNCHANGED vars
  BY <1>11 DEF vars, IInv
<1>. QED
  BY <1>2, <1>3, <1>4, <1>5, <1>6, <1>7, <1>8, <1>9, <1>10, <1>11, InputAssumption
     DEF Next, HandleNext

\* Without a length limit, as esl_connect creates it, a buffer that any
\* sequence of calls of the interface works on keeps its bytes in use inside
\* its block and ending where the writer goes on.
THEOREM BufferInBounds ==
  ASSUME max_len = 0
  PROVE  Spec => []InBounds
<1>1. IInv => InBounds
  BY DEF IInv, Sound, InBounds
<1>. QED
  BY InitIInv, NextIInv, <1>1, PTL DEF Spec

\* Under the same assumption all state keeps its types; the memory always has
\* the size the buffer claims.
THEOREM BufferTypes ==
  ASSUME max_len = 0
  PROVE  Spec => []TypeOK
<1>1. IInv => TypeOK
  <2>1. Sound(buffer) => buffer \in [data : {buffer.data}, head : Nat, used : Nat,
                                    actually_used : Nat, datalen : Nat, loops : Int]
    BY DEF Sound, Buffers
  <2>. QED
    BY <2>1 DEF IInv, Sound, TypeOK
<1>. QED
  BY InitIInv, NextIInv, <1>1, PTL DEF Spec

-----------------------------------------------------------------------------
(* Packets.                                                                *)

\* The first blank line before any null byte, if a packet has a length.
FirstBlank(b, p) ==
  /\ p \in b.head .. b.head + b.used - 1
  /\ BlankAt(b, p) /\ PacketLen(b) = Behind(b, p) - b.head
  /\ \A a \in b.head .. p : b.data[a] # "0"
  /\ \A a \in b.head .. p - 1 : ~ BlankAt(b, a)

\* A packet has a length exactly if there is a blank line before any null byte.
LEMMA PacketFound ==
  ASSUME NEW b, Sound(b)
  PROVE  /\ PacketLen(b) # 0 => \E p : FirstBlank(b, p)
         /\ PacketLen(b) = 0 => \A p \in b.head .. b.head + b.used - 1 :
              BlankAt(b, p) => \E a \in b.head .. p : b.data[a] = "0"
<1>. DEFINE e == b.head + b.used
            found == {p \in b.head .. e - 1 :
                        BlankAt(b, p) /\ \A a \in b.head .. p : b.data[a] # "0"}
            p == CHOOSE p \in found : \A q \in found : p <= q
<1>1. b.head \in Nat /\ e \in Nat /\ b.used \in Nat
  BY DEF Sound, Buffers
<1>2. PacketLen(b) = IF found = {} THEN 0 ELSE Behind(b, p) - b.head
  BY Zenon DEF PacketLen
<1>3. \A q : q \in found <=>
        q \in b.head .. e - 1 /\ BlankAt(b, q) /\ \A a \in b.head .. q : b.data[a] # "0"
  OBVIOUS
<1>4. found \in SUBSET Nat
  BY <1>1
<1>5. found # {} => p \in found /\ \A q \in found : p <= q
  <2>. HIDE DEF found
  <2>1. found # {} => \E x \in found : \A q \in found : x <= q
    BY <1>4, LeastNatural
  <2>. QED
    BY <2>1
<1>6. e = b.head + b.used
  OBVIOUS
<1>. HIDE DEF e, found, p
<1>7. found # {} => PacketLen(b) # 0
  BY <1>1, <1>2, <1>3, <1>5 DEF Behind
<1>8. ASSUME PacketLen(b) # 0 PROVE FirstBlank(b, p)
  <2>1. found # {} /\ PacketLen(b) = Behind(b, p) - b.head /\ p \in found
        /\ \A q \in found : p <= q
    BY <1>2, <1>5, <1>8
  <2>2. p \in b.head .. e - 1 /\ BlankAt(b, p) /\ \A a \in b.head .. p : b.data[a] # "0"
    BY <1>3, <2>1
  <2>3. ASSUME NEW a \in b.head .. p - 1 PROVE ~ BlankAt(b, a)
    <3>1. a \in b.head .. e - 1 /\ ~ (p <= a) /\ \A x \in b.head .. a : x \in b.head .. p
      BY <1>1, <2>2
    <3>. QED
      BY <1>3, <2>1, <2>2, <3>1
  <2>4. p \in b.head .. b.head + b.used - 1
    BY <1>1, <1>6, <2>2
  <2>. QED
    BY <2>1, <2>2, <2>3, <2>4, Zenon DEF FirstBlank
<1>9. ASSUME PacketLen(b) = 0, NEW q \in b.head .. b.head + b.used - 1, BlankAt(b, q)
      PROVE  \E a \in b.head .. q : b.data[a] = "0"
  <2>1. q \in b.head .. e - 1 /\ q \notin found
    BY <1>1, <1>6, <1>7, <1>9
  <2>. QED
    BY <1>3, <1>9, <2>1, Zenon
<1>. QED
  BY <1>8, <1>9, Zenon

\* The r bytes s, taken from b, go up to a blank line or lack its last \n.
UpToBlank(b, r, s) ==
  /\ Len(s) = r
  /\ \A i \in 1 .. r - 1 : ~ Blank(s, i)
  /\ \/ Blank(s, r)
     \/ b.used = r /\ Blank(Append(s, "n"), r + 1)

\* A packet that is read goes up to its first blank line.
LEMMA PacketRead ==
  ASSUME NEW b, Sound(b), PacketLen(b) # 0,
         NEW r \in Nat, r = reading(b, PacketLen(b)),
         NEW s, s = SubSeq(Using(b), 1, r)
  PROVE  UpToBlank(b, r, s)
<1>. DEFINE d == b.data
            h == b.head
            e == h + b.used
            len == PacketLen(b)
<1>1. PICK p : FirstBlank(b, p)
  BY PacketFound
<1>2. /\ h \in Nat /\ b.used \in Nat /\ e = h + b.used
  BY DEF Sound, Buffers
<1>3. Using(b) \in Seq(Byte) /\ Len(Using(b)) = b.used
      /\ \A i \in 1 .. b.used : Using(b)[i] = d[h + i - 1]
  BY UsingBytes DEF Using
<1>. DEFINE pe == IF d[p + 1] = "r" THEN p + 2 ELSE p + 1
<1>4. /\ p \in h .. e - 1 /\ d[p] = "n" /\ pe <= e /\ d[pe] = "n"
      /\ len = Behind(b, p) - h
      /\ \A a \in h .. p - 1 : ~ BlankAt(b, a)
  <2>1. /\ p \in b.head .. b.head + b.used - 1 /\ BlankAt(b, p)
        /\ PacketLen(b) = Behind(b, p) - b.head
        /\ \A a \in b.head .. p - 1 : ~ BlankAt(b, a)
    BY <1>1, Zenon DEF FirstBlank
  <2>2. d[p] = "n" /\ pe <= e /\ d[pe] = "n"
    BY <2>1, Zenon DEF BlankAt
  <2>3. h .. e - 1 = b.head .. b.head + b.used - 1
    BY <1>2
  <2>. QED
    BY <2>1, <2>2, <2>3
<1>5. /\ p \in Nat /\ pe \in Nat /\ pe > p /\ len = pe + 1 - h
      /\ pe = p + 1 \/ (pe = p + 2 /\ d[p + 1] = "r")
  <2>1. Behind(b, p) = IF d[p + 1] = "r" THEN p + 3 ELSE p + 2
    BY DEF Behind
  <2>2. p \in Nat
    BY <1>2, <1>4
  <2>. HIDE DEF d, h, e, len
  <2>. QED
    BY <1>2, <1>4, <2>1, <2>2
<1>6. r = IF b.used >= len THEN len ELSE b.used
  BY DEF reading
<1>7. \A a \in Int : BlankAt(b, a) <=>
        /\ d[a] = "n"
        /\ \/ d[a + 1] = "r" /\ a + 2 <= e /\ d[a + 2] = "n"
           \/ d[a + 1] # "r" /\ a + 1 <= e /\ d[a + 1] = "n"
  BY DEF BlankAt
<1>8. d[pe] = "n" /\ d[p] = "n" /\ pe <= e
  BY <1>4
<1>. HIDE DEF d, h, e, len, pe
<1>9. r \in 0 .. b.used /\ r <= len /\ (r = len \/ (r = b.used /\ pe = e))
  <2>0. p \in h .. e - 1
    BY <1>4
  <2>1. e \in Nat /\ len \in Nat /\ len > 0 /\ len <= b.used + 1
    <3>1. pe \in Nat /\ len = pe + 1 - h /\ pe > p /\ pe <= e
      BY <1>5, <1>8
    <3>. QED
      BY <1>2, <2>0, <3>1
  <2>2. CASE b.used >= len
    <3>1. r = len
      BY <1>6, <2>2
    <3>. QED
      BY <1>2, <2>1, <2>2, <3>1
  <2>3. CASE ~ (b.used >= len)
    <3>1. r = b.used /\ len = b.used + 1
      BY <1>2, <1>6, <2>1, <2>3
    <3>2. pe = e
      BY <1>2, <1>5, <2>1, <3>1
    <3>. QED
      BY <1>2, <2>1, <3>1, <3>2
  <2>. QED
    BY <2>2, <2>3
<1>10. /\ s \in Seq(Byte) /\ Len(s) = r
       /\ \A i \in 1 .. r : s[i] = d[h + i - 1]
  <2>. DEFINE u == Using(b)
  <2>1. u \in Seq(Byte) /\ Len(u) = b.used /\ \A i \in 1 .. b.used : u[i] = d[h + i - 1]
    BY <1>3, Zenon
  <2>2. s = SubSeq(u, 1, r)
    OBVIOUS
  <2>3. r \in 0 .. Len(u)
    BY <1>2, <1>9, <2>1
  <2>. HIDE DEF u
  <2>4. s \in Seq(Byte) /\ Len(s) = r
    BY <2>1, <2>2, <2>3
  <2>5. \A i \in 1 .. r : s[i] = u[i]
    BY <2>1, <2>2, <2>3
  <2>6. \A i \in 1 .. r : i \in 1 .. b.used
    BY <1>2, <1>9
  <2>. QED
    BY <2>1, <2>4, <2>5, <2>6, Zenon
<1>11. \A i \in 1 .. r - 1 : ~ Blank(s, i)
  <2>1. SUFFICES ASSUME NEW i \in 1 .. r - 1, Blank(s, i) PROVE FALSE
    OBVIOUS
  <2>. DEFINE a == h + i - 1
  <2>2. a \in Nat /\ a < pe /\ a >= h /\ i \in 1 .. r
    BY <1>2, <1>5, <1>9
  <2>3. d[a] = "n"
    BY <1>10, <2>1, <2>2 DEF Blank
  <2>4. CASE i > 1 /\ s[i - 1] = "n"
    <3>1. i - 1 \in 1 .. r /\ h + (i - 1) - 1 = a - 1 /\ a - 1 \in Int /\ (a - 1) + 1 = a
          /\ a <= e /\ a - 1 >= h
      BY <1>2, <1>8, <1>5, <2>2, <2>4
    <3>2. d[a - 1] = "n"
      BY <1>10, <2>4, <3>1
    <3>3. BlankAt(b, a - 1)
      <4>. HIDE DEF a
      <4>. QED
        BY <1>7, <2>3, <3>1, <3>2
    <3>4. a - 1 >= p
      <4>1. a - 1 < p => a - 1 \in h .. p - 1
        BY <1>2, <1>5, <3>1
      <4>. QED
        BY <1>2, <1>4, <1>5, <3>1, <3>3, <4>1
    <3>5. a = p + 1 /\ pe = p + 2
      BY <1>5, <2>2, <3>4
    <3>. QED
      BY <1>5, <2>3, <3>5
  <2>5. CASE i > 2 /\ s[i - 1] = "r" /\ s[i - 2] = "n"
    <3>1. i - 1 \in 1 .. r /\ h + (i - 1) - 1 = a - 1 /\ i - 2 \in 1 .. r
          /\ h + (i - 2) - 1 = a - 2 /\ a - 2 \in Int /\ (a - 2) + 1 = a - 1
          /\ (a - 2) + 2 = a /\ a <= e /\ a - 2 >= h
      BY <1>2, <1>5, <1>8, <2>2, <2>5
    <3>2. d[a - 1] = "r" /\ d[a - 2] = "n"
      BY <1>10, <2>5, <3>1
    <3>3. BlankAt(b, a - 2)
      <4>. HIDE DEF a
      <4>. QED
        BY <1>7, <2>3, <3>1, <3>2
    <3>4. a - 2 >= p
      <4>1. a - 2 < p => a - 2 \in h .. p - 1
        BY <1>2, <1>5, <3>1
      <4>. QED
        BY <1>2, <1>4, <1>5, <3>1, <3>3, <4>1
    <3>. QED
      BY <1>5, <2>2, <3>4
  <2>. QED
    BY <2>1, <2>4, <2>5 DEF Blank
\* The blank line behind the bytes read, whose last one is at address pe.
<1>12. ASSUME NEW v, NEW k \in Nat, k = pe + 1 - h, v[k] = "n",
              \A i \in 1 .. k - 1 : v[i] = d[h + i - 1]
       PROVE  Blank(v, k)
  <2>1. CASE pe = p + 1
    <3>1. k - 1 \in 1 .. k - 1 /\ h + (k - 1) - 1 = p /\ k > 1
      BY <1>2, <1>4, <1>5, <1>12, <2>1
    <3>2. v[k - 1] = "n"
      BY <1>8, <1>12, <3>1
    <3>. QED
      BY <1>12, <3>1, <3>2 DEF Blank
  <2>2. CASE pe = p + 2 /\ d[p + 1] = "r"
    <3>1. k - 1 \in 1 .. k - 1 /\ h + (k - 1) - 1 = p + 1 /\ k - 2 \in 1 .. k - 1
          /\ h + (k - 2) - 1 = p /\ k > 2
      BY <1>2, <1>4, <1>5, <1>12, <2>2
    <3>2. v[k - 1] = "r" /\ v[k - 2] = "n"
      BY <1>8, <1>12, <2>2, <3>1
    <3>. QED
      BY <1>12, <3>1, <3>2 DEF Blank
  <2>. QED
    BY <1>5, <2>1, <2>2
<1>13. CASE r = len
  <2>1. r = pe + 1 - h /\ r \in 1 .. r /\ h + r - 1 = pe
    BY <1>2, <1>4, <1>5, <1>13
  <2>2. s[r] = "n" /\ \A i \in 1 .. r - 1 : s[i] = d[h + i - 1]
    BY <1>8, <1>10, <2>1
  <2>3. Blank(s, r)
    BY <1>12, <2>1, <2>2
  <2>. QED
    BY <1>10, <1>11, <2>3 DEF UpToBlank
<1>14. CASE r = b.used /\ pe = e
  <2>. DEFINE v == Append(s, "n")
  <2>1. r + 1 = pe + 1 - h
    BY <1>2, <1>14
  <2>2. v[r + 1] = "n" /\ \A i \in 1 .. r : v[i] = d[h + i - 1]
    BY <1>10
  <2>. HIDE DEF v
  <2>3. Blank(v, r + 1)
    BY <1>12, <2>1, <2>2
  <2>. QED
    BY <1>10, <1>11, <1>14, <2>3 DEF v, UpToBlank
<1>. QED
  BY <1>9, <1>13, <1>14

\* The bytes in use fit into the largest block there may be.
Fits == IInv /\ buffer.datalen <= MaxData

\* No operation but a write changes the size of the block.
LEMMA NextFits ==
  ASSUME max_len = 0, Fits, [Next]_vars
  PROVE  Fits'
<1>1. IInv'
  BY NextIInv DEF Fits
<1>2. buffer \in Buffers /\ buffer.datalen <= MaxData
  BY DEF Fits, IInv, Sound
<1>3. \A b \in Buffers : \A n : Advanced(b, n).datalen = b.datalen
  BY DEF Advanced, Buffers
<1>4. ASSUME NEW n, Read(n) PROVE buffer'.datalen <= MaxData
  BY <1>2, <1>3, <1>4 DEF Read
<1>5. ASSUME NEW bytes, esl_buffer_write(bytes) \/ esl_buffer_zwrite(bytes)
      PROVE  buffer'.datalen <= MaxData
  BY <1>5 DEF esl_buffer_write, esl_buffer_zwrite
<1>6. ASSUME NEW n, esl_buffer_read(n) \/ esl_buffer_read_packet(n)
      PROVE  buffer'.datalen <= MaxData
  BY <1>4, <1>6 DEF esl_buffer_read, esl_buffer_read_packet
<1>7. ASSUME NEW n, esl_buffer_toss(n) PROVE buffer'.datalen <= MaxData
  BY <1>2, <1>3, <1>7 DEF esl_buffer_toss
<1>8. ASSUME NEW n, esl_buffer_seek(n) \/ esl_buffer_set_loops(n)
      PROVE  buffer'.datalen <= MaxData
  BY <1>2, <1>8 DEF esl_buffer_seek, esl_buffer_set_loops, Buffers
<1>9. ASSUME esl_buffer_zero PROVE buffer'.datalen <= MaxData
  BY <1>2, <1>9 DEF esl_buffer_zero, Zeroed, Buffers
<1>10. ASSUME NEW n, esl_buffer_read_loop(n) PROVE buffer'.datalen <= MaxData
  <2>. DEFINE len == reading(buffer, n)
              rest == Advanced(buffer, len)
              again == [rest EXCEPT !.head = 0, !.used = rest.actually_used]
              more == reading(again, n - len)
              last == Advanced(again, more)
  <2>1. CASE Read(n)
    BY <1>4, <2>1
  <2>2. CASE buffer' = [last EXCEPT !.loops = @ - 1]
    <3>1. [last EXCEPT !.loops = @ - 1].datalen = last.datalen
      BY DEF Advanced
    <3>2. last.datalen = again.datalen
      BY DEF Advanced
    <3>3. again.datalen = rest.datalen
      BY DEF Advanced
    <3>. HIDE DEF last, again, rest
    <3>4. rest.datalen = buffer.datalen
      BY <1>2, <1>3 DEF rest
    <3>. QED
      BY <1>2, <2>2, <3>1, <3>2, <3>3, <3>4
  <2>. QED
    BY <1>10, <2>1, <2>2 DEF esl_buffer_read_loop
<1>11. ASSUME UNCHANGED vars PROVE buffer'.datalen <= MaxData
  BY <1>2, <1>11 DEF vars
<1>12. buffer'.datalen <= MaxData
  BY <1>5, <1>6, <1>7, <1>8, <1>10, <1>9, <1>11, Zenon DEF Next, HandleNext
<1>. QED
  BY <1>1, <1>12 DEF Fits

\* A packet that is read from a buffer whose bytes fit goes up to its blank
\* line.
LEMMA PacketStep ==
  ASSUME Fits, esl_buffer_read_packet(MaxData), ret' > 0
  PROVE  LET n == Len(out') IN
         /\ \A i \in 1 .. n - 1 : ~ Blank(out', i)
         /\ \/ Blank(out', n)
            \/ buffer'.used = 0 /\ Blank(Append(out', "n"), n + 1)
<1>. DEFINE len == PacketLen(buffer)
            n == IF len > MaxData THEN MaxData ELSE len
            r == reading(buffer, n)
<1>1. Sound(buffer) /\ len \in Nat
  BY PacketLenType DEF Fits, IInv
<1>2. buffer' = Advanced(buffer, r) /\ out' = SubSeq(Using(buffer), 1, r) /\ ret' = r
  BY DEF esl_buffer_read_packet, Read
<1>3. buffer.used \in Nat /\ buffer.used <= MaxData /\ MaxData \in Nat
  BY <1>1, InputAssumption DEF Sound, Buffers, Fits
<1>4. len # 0 /\ r = reading(buffer, len) /\ r \in Nat
  <2>1. r > 0
    BY <1>2
  <2>. HIDE DEF len
  <2>. QED
    BY <1>1, <1>3, <2>1 DEF reading
<1>5. Advanced(buffer, r).used = buffer.used - r
  BY <1>1 DEF Advanced, Sound, Buffers
<1>6. len = PacketLen(buffer)
  OBVIOUS
<1>. HIDE DEF r, n, len
<1>7. /\ Len(out') = r
      /\ \A i \in 1 .. r - 1 : ~ Blank(out', i)
      /\ \/ Blank(out', r)
         \/ buffer.used = r /\ Blank(Append(out', "n"), r + 1)
  <2>. DEFINE s == SubSeq(Using(buffer), 1, r)
  <2>1. PacketLen(buffer) # 0 /\ r \in Nat /\ r = reading(buffer, PacketLen(buffer))
    BY <1>4, <1>6
  <2>2. s = SubSeq(Using(buffer), 1, r) /\ out' = s
    BY <1>2
  <2>. HIDE DEF s
  <2>3. UpToBlank(buffer, r, s)
    BY <1>1, <1>4, <2>1, <2>2, PacketRead
  <2>. QED
    BY <2>2, <2>3 DEF UpToBlank
<1>8. buffer.used = r => buffer'.used = 0
  BY <1>2, <1>3, <1>5
<1>. QED
  BY <1>7, <1>8, Zenon

\* However the stream was cut into chunks and whatever is done with the
\* buffer, a packet that is read goes up to its blank line and not beyond, or
\* lacks the last \n because it is the next byte to come.
THEOREM PacketsEndAtBlank ==
  ASSUME max_len = 0, start_len <= MaxData
  PROVE  Spec => PacketEndsAtBlank
<1>1. Init => Fits
  <2>1. ASSUME Init PROVE buffer.datalen = start_len
    BY <2>1 DEF Init
  <2>. QED
    BY <2>1, InitIInv, InputAssumption, CreateAssumption DEF Fits
<1>. DEFINE Ends == esl_buffer_read_packet(MaxData) /\ ret' > 0 =>
                      LET n == Len(out') IN
                      /\ \A i \in 1 .. n - 1 : ~ Blank(out', i)
                      /\ \/ Blank(out', n)
                         \/ buffer'.used = 0 /\ Blank(Append(out', "n"), n + 1)
<1>2. Fits /\ [Next]_vars => Fits'
  BY NextFits
<1>3. Fits => Ends
  BY PacketStep, Zenon
<1>4. PacketEndsAtBlank <=> [][Ends]_vars
  BY DEF PacketEndsAtBlank
<1>. HIDE DEF Ends
<1>. QED
  BY <1>1, <1>2, <1>3, <1>4, PTL DEF Spec

-----------------------------------------------------------------------------
(* The tape.                                                               *)

\* What a buffer keeps, byte by byte.
LEMMA KeptBytes ==
  ASSUME NEW b, Sound(b)
  PROVE  /\ Kept(b) \in Seq(Byte) /\ Len(Kept(b)) = b.actually_used
         /\ \A i \in 1 .. b.actually_used : Kept(b)[i] = b.data[i - 1]
<1>1. \A i \in 1 .. b.actually_used : i - 1 \in Cells(b.datalen)
  BY DEF Sound, Buffers, Cells
<1>2. Kept(b) \in [1 .. b.actually_used -> Byte]
  BY <1>1 DEF Kept, Sound
<1>3. b.actually_used \in Nat
  BY DEF Sound, Buffers
<1>4. \A i \in 1 .. b.actually_used : Kept(b)[i] = b.data[i - 1]
  BY DEF Kept
<1>5. Kept(b) \in Seq(Byte) /\ Len(Kept(b)) = b.actually_used
  BY <1>2, <1>3
<1>. QED
  BY <1>4, <1>5

\* It depends on the memory and on how much is in use only.
LEMMA KeptSame ==
  ASSUME NEW b, NEW c, c.data = b.data, c.actually_used = b.actually_used
  PROVE  Kept(c) = Kept(b)
BY DEF Kept

\* An emptied buffer keeps nothing.
LEMMA ZeroedKept ==
  ASSUME NEW b, Sound(b)
  PROVE  Kept(Zeroed(b)) = <<>> /\ Zeroed(b).head = 0
<1>1. Sound(Zeroed(b)) /\ Zeroed(b).actually_used = 0 /\ Zeroed(b).head = 0
  BY ZeroedSound DEF Zeroed, Sound, Buffers
<1>2. Kept(Zeroed(b)) \in Seq(Byte) /\ Len(Kept(Zeroed(b))) = 0
  BY <1>1, KeptBytes
<1>. HIDE DEF Zeroed
<1>. QED
  BY <1>1, <1>2, EmptySeq

\* A stretch of a sequence, element by element.
LEMMA Cut ==
  ASSUME NEW k \in Seq(Byte), NEW h \in Nat, NEW n \in Nat, h + n <= Len(k)
  PROVE  /\ SubSeq(k, h + 1, h + n) \in Seq(Byte)
         /\ Len(SubSeq(k, h + 1, h + n)) = n
         /\ \A i \in 1 .. n : SubSeq(k, h + 1, h + n)[i] = k[h + i]
<1>. DEFINE t == SubSeq(k, h + 1, h + n)
<1>1. \A i \in h + 1 .. h + n : k[i] \in Byte
  BY ElementOfSeq
<1>2. /\ t \in Seq(Byte)
      /\ Len(t) = IF h + 1 <= h + n THEN (h + n) - (h + 1) + 1 ELSE 0
      /\ \A i \in 1 .. (h + n) - (h + 1) + 1 : t[i] = k[(h + 1) + i - 1]
  BY <1>1, SubSeqProperties
<1>. HIDE DEF t
<1>3. Len(t) = n
  BY <1>2
<1>4. ASSUME NEW i \in 1 .. n PROVE t[i] = k[h + i]
  <2>1. i \in 1 .. (h + n) - (h + 1) + 1 /\ (h + 1) + i - 1 = h + i
    OBVIOUS
  <2>. QED
    BY <1>2, <2>1
<1>. QED
  BY <1>2, <1>3, <1>4 DEF t

\* The bytes in use are the end of those kept.
LEMMA UsingKept ==
  ASSUME NEW b, Sound(b), NEW n \in Nat, n <= b.used
  PROVE  SubSeq(Using(b), 1, n) = SubSeq(Kept(b), b.head + 1, b.head + n)
<1>. DEFINE u == Using(b)
            k == Kept(b)
            s == SubSeq(u, 1, n)
            t == SubSeq(k, b.head + 1, b.head + n)
<1>1. /\ b.head \in Nat /\ b.used \in Nat
      /\ b.actually_used = b.head + b.used
  BY DEF Sound, Buffers
<1>2. u \in Seq(Byte) /\ Len(u) = b.used
      /\ \A i \in 1 .. b.used : u[i] = b.data[b.head + i - 1]
  BY UsingBytes DEF Using
<1>3. k \in Seq(Byte) /\ Len(k) = b.head + b.used
      /\ \A i \in 1 .. b.head + b.used : k[i] = b.data[i - 1]
  BY <1>1, KeptBytes
<1>. HIDE DEF u, k
<1>4. s \in Seq(Byte) /\ Len(s) = n /\ \A i \in 1 .. n : s[i] = u[i]
  BY <1>1, <1>2
<1>5. t \in Seq(Byte) /\ Len(t) = n /\ \A i \in 1 .. n : t[i] = k[b.head + i]
  <2>1. b.head \in Nat /\ b.head + n <= Len(k)
    BY <1>1, <1>3
  <2>. QED
    BY <1>3, <2>1, Cut
<1>6. ASSUME NEW i \in 1 .. n PROVE s[i] = t[i]
  <2>1. i \in 1 .. b.used /\ b.head + i \in 1 .. b.head + b.used
        /\ b.head + i - 1 = (b.head + i) - 1
    BY <1>1
  <2>2. u[i] = b.data[b.head + i - 1] /\ k[b.head + i] = b.data[(b.head + i) - 1]
    BY <1>2, <1>3, <2>1, Zenon
  <2>. HIDE DEF s, t
  <2>. QED
    BY <1>4, <1>5, <2>1, <2>2
<1>. HIDE DEF s, t
<1>7. s = t
  BY <1>4, <1>5, <1>6, SeqEqual
<1>. QED
  BY <1>7 DEF s, t, u, k

\* What is kept by a buffer from its address h on.
KeptFrom(b, h) == SubSeq(Kept(b), h + 1, Len(Kept(b)))

\* From the start, that is all.
LEMMA KeptAll ==
  ASSUME NEW b, Sound(b)
  PROVE  KeptFrom(b, 0) = Kept(b)
BY KeptBytes, SubSeqFull DEF KeptFrom

\* Compaction forgets what was read.
LEMMA CompactedKept ==
  ASSUME NEW b, Sound(b)
  PROVE  Kept(Compacted(b)) = KeptFrom(b, b.head)
<1>. DEFINE c == Compacted(b)
            s == Kept(c)
            t == KeptFrom(b, b.head)
            k == Kept(b)
<1>1. /\ b.head \in Nat /\ b.used \in Nat /\ b.datalen \in Nat
      /\ b.actually_used = b.head + b.used
      /\ b.head + b.used <= b.datalen /\ DOMAIN b.data = 0 .. b.datalen + 1
  BY DEF Sound, Buffers, Cells
<1>2. c.data = [a \in DOMAIN b.data |->
                  IF a < b.used THEN b.data[b.head + a] ELSE b.data[a]]
  BY DEF Compacted, Sound, Buffers
<1>3. Sound(c) /\ c.actually_used = b.used
  BY CompactedSound
<1>. HIDE DEF c
<1>4. s \in Seq(Byte) /\ Len(s) = b.used /\ \A i \in 1 .. b.used : s[i] = c.data[i - 1]
  BY <1>3, KeptBytes
<1>5. k \in Seq(Byte) /\ Len(k) = b.head + b.used
      /\ \A i \in 1 .. b.head + b.used : k[i] = b.data[i - 1]
  BY <1>1, KeptBytes
<1>6. t = SubSeq(k, b.head + 1, Len(k))
  BY DEF KeptFrom
<1>. HIDE DEF s, t, k
<1>7. t \in Seq(Byte) /\ Len(t) = b.used /\ \A i \in 1 .. b.used : t[i] = k[b.head + i]
  <2>1. b.head + b.used <= Len(k) /\ t = SubSeq(k, b.head + 1, b.head + b.used)
    BY <1>1, <1>5, <1>6
  <2>. QED
    BY <1>1, <1>5, <2>1, Cut
<1>8. ASSUME NEW i \in 1 .. b.used PROVE s[i] = t[i]
  <2>1. i - 1 \in 0 .. b.datalen + 1 /\ i - 1 < b.used
        /\ b.head + i \in 1 .. b.head + b.used /\ b.head + (i - 1) = (b.head + i) - 1
    BY <1>1
  <2>2. c.data[i - 1] = b.data[(b.head + i) - 1]
    BY <1>1, <1>2, <2>1
  <2>. QED
    BY <1>4, <1>5, <1>7, <2>1, <2>2
<1>9. s = t
  BY <1>1, <1>4, <1>7, <1>8, SeqEqual
<1>. QED
  BY <1>9 DEF s, t, c

\* A larger block keeps the same.
LEMMA EnlargedKept ==
  ASSUME NEW b, Sound(b), b.head = 0, NEW n \in Nat, b.datalen <= n, NEW f \in Byte
  PROVE  Kept(Enlarged(b, n, f)) = Kept(b)
<1>. DEFINE c == Enlarged(b, n, f)
            s == Kept(c)
            k == Kept(b)
<1>1. b.actually_used \in Nat /\ b.datalen \in Nat /\ b.actually_used <= b.datalen
  BY DEF Sound, Buffers
<1>2. c.data = [a \in Cells(n) |-> IF a < b.datalen THEN b.data[a] ELSE f]
  BY DEF Enlarged, Sound, Buffers
<1>3. Sound(c) /\ c.actually_used = b.actually_used
  BY EnlargedSound
<1>. HIDE DEF c
<1>4. s \in Seq(Byte) /\ Len(s) = b.actually_used
      /\ \A i \in 1 .. b.actually_used : s[i] = c.data[i - 1]
  BY <1>3, KeptBytes
<1>5. k \in Seq(Byte) /\ Len(k) = b.actually_used
      /\ \A i \in 1 .. b.actually_used : k[i] = b.data[i - 1]
  BY KeptBytes
<1>. HIDE DEF s, k
<1>6. ASSUME NEW i \in 1 .. b.actually_used PROVE s[i] = k[i]
  <2>1. i - 1 \in Cells(n) /\ i - 1 < b.datalen
    BY <1>1 DEF Cells
  <2>. QED
    BY <1>2, <1>4, <1>5, <2>1
<1>7. s = k
  BY <1>1, <1>4, <1>5, <1>6, SeqEqual
<1>. QED
  BY <1>7 DEF s, k, c

\* Bytes written are behind those kept.
LEMMA FilledKept ==
  ASSUME NEW b, Sound(b), NEW bytes \in Seq(Byte),
         b.actually_used + Len(bytes) <= b.datalen
  PROVE  Kept(Filled(b, bytes)) = Kept(b) \o bytes /\ Filled(b, bytes).head = b.head
<1>. DEFINE c == Filled(b, bytes)
            s == Kept(c)
            k == Kept(b)
            t == k \o bytes
            u == b.actually_used
            n == Len(bytes)
<1>1. u \in Nat /\ b.datalen \in Nat /\ n \in Nat /\ u + n <= b.datalen
      /\ b.head + b.used = u /\ DOMAIN b.data = 0 .. b.datalen + 1
  BY DEF Sound, Buffers, Cells
<1>2. c.data = [a \in DOMAIN b.data |->
                  IF a \in u .. u + n - 1 THEN bytes[a - u + 1] ELSE b.data[a]]
      /\ c.actually_used = u + n /\ c.head = b.head
  BY DEF Filled, Sound, Buffers
<1>3. Sound(c)
  BY FilledSound
<1>. HIDE DEF c
<1>4. s \in Seq(Byte) /\ Len(s) = u + n /\ \A i \in 1 .. u + n : s[i] = c.data[i - 1]
  BY <1>2, <1>3, KeptBytes
<1>5. k \in Seq(Byte) /\ Len(k) = u /\ \A i \in 1 .. u : k[i] = b.data[i - 1]
  BY KeptBytes
<1>6. bytes \in Seq(Byte) /\ Len(bytes) = n
  OBVIOUS
<1>. HIDE DEF s, k, u, n
<1>7. t \in Seq(Byte) /\ Len(t) = u + n
      /\ \A i \in 1 .. u + n : t[i] = IF i <= u THEN k[i] ELSE bytes[i - u]
  <2>1. \A i \in 1 .. u + n : i \in 1 .. Len(k) + Len(bytes)
    BY <1>5, <1>6
  <2>. QED
    BY <1>5, <1>6, <2>1, ConcatProperties
<1>. HIDE DEF t
<1>8. ASSUME NEW i \in 1 .. u + n PROVE s[i] = t[i]
  <2>1. i - 1 \in 0 .. b.datalen + 1
    BY <1>1
  <2>2. CASE i <= u
    <3>1. i - 1 \notin u .. u + n - 1 /\ i \in 1 .. u
      BY <1>1, <2>2
    <3>. QED
      BY <1>1, <1>2, <1>4, <1>5, <1>7, <2>1, <2>2, <3>1
  <2>3. CASE ~ (i <= u)
    <3>1. i - 1 \in u .. u + n - 1 /\ (i - 1) - u + 1 = i - u
      BY <1>1, <2>3
    <3>. QED
      BY <1>1, <1>2, <1>4, <1>7, <2>1, <2>3, <3>1
  <2>. QED
    BY <2>2, <2>3
<1>9. s = t
  BY <1>1, <1>4, <1>7, <1>8, SeqEqual
<1>. QED
  BY <1>2, <1>9 DEF s, t, k, c

\* What a write comes to is a write on the tape: all the bytes are appended
\* or none, and only bytes already read are forgotten.
LEMMA WrittenTape ==
  ASSUME max_len = 0, NEW b, Sound(b), NEW bytes \in Seq(Byte),
         NEW w \in Written(b, bytes)
  PROVE  \E k \in {0, b.head}, new \in {<<>>, bytes} :
           Kept(w.buffer) = KeptFrom(b, k) \o new /\ w.buffer.head = b.head - k
<1>. DEFINE n == Len(bytes)
            r == MadeRoom(b, n)
<1>1. n \in Nat /\ b.head \in Nat /\ b.used \in Nat /\ b.datalen \in Nat
      /\ b.actually_used = b.head + b.used
  BY DEF Sound, Buffers
<1>2. Sound(r) /\ (r.head = 0 \/ r.datalen - r.actually_used >= n)
  BY <1>1, MadeRoomSound
<1>3. PICK k \in {0, b.head} : Kept(r) = KeptFrom(b, k) /\ r.head = b.head - k
  <2>1. CASE r = b
    <3>1. Kept(r) = KeptFrom(b, 0) /\ r.head = b.head - 0
      BY <1>1, <2>1, KeptAll
    <3>. QED
      BY <3>1
  <2>2. CASE r = Compacted(b)
    <3>1. Kept(r) = KeptFrom(b, b.head) /\ r.head = b.head - b.head
      BY <1>1, <2>2, CompactedKept, CompactedSound
    <3>. QED
      BY <3>1
  <2>. QED
    BY <2>1, <2>2 DEF MadeRoom
<1>4. ASSUME NEW q, Sound(q), Kept(q) = Kept(r), q.head = r.head,
             q.actually_used + n <= q.datalen, w.buffer = Filled(q, bytes)
      PROVE  Kept(w.buffer) = KeptFrom(b, k) \o bytes /\ w.buffer.head = b.head - k
  <2>1. Kept(Filled(q, bytes)) = Kept(q) \o bytes /\ Filled(q, bytes).head = q.head
    BY <1>4, FilledKept
  <2>. HIDE DEF r
  <2>. QED
    BY <1>3, <1>4, <2>1
<1>5. CASE r.datalen - r.used >= n
  <2>1. w = [buffer |-> Filled(r, bytes), ret |-> r.used + n]
    BY <1>5 DEF Written
  <2>2. r.actually_used + n <= r.datalen
    BY <1>1, <1>2, <1>5 DEF Sound, Buffers
  <2>. QED
    BY <1>2, <1>4, <2>1, <2>2
<1>6. CASE ~ (r.datalen - r.used >= n)
  <2>1. r.head = 0 /\ r.actually_used = r.used
    BY <1>1, <1>2, <1>6 DEF Sound, Buffers
  <2>2. ASSUME NEW f \in Fresh,
               w = [buffer |-> Filled(Enlarged(r, new_size(r, n), f), bytes),
                    ret |-> r.used + n]
        PROVE  Kept(w.buffer) = KeptFrom(b, k) \o bytes /\ w.buffer.head = b.head - k
    <3>. DEFINE q == Enlarged(r, new_size(r, n), f)
    <3>1. /\ new_size(r, n) \in Nat /\ r.datalen <= new_size(r, n)
          /\ r.datalen + n <= new_size(r, n)
      <4>1. r.datalen \in Nat /\ blocksize \in Nat
        BY <1>2, CreateAssumption DEF Sound, Buffers
      <4>. HIDE DEF r, n
      <4>. QED
        BY <1>1, <4>1 DEF new_size
    <3>2. f \in Byte
      BY InputAssumption
    <3>3. /\ Sound(q) /\ q.datalen = new_size(r, n) /\ q.head = 0
          /\ q.actually_used = r.actually_used
      BY <1>2, <2>1, <3>1, <3>2, EnlargedSound
    <3>4. Kept(q) = Kept(r)
      BY <1>2, <2>1, <3>1, <3>2, EnlargedKept
    <3>5. w.buffer = Filled(q, bytes)
      BY <2>2
    <3>6. /\ r.actually_used \in Nat /\ r.datalen \in Nat
          /\ r.actually_used <= r.datalen
      BY <1>2 DEF Sound, Buffers
    <3>. HIDE DEF q, r, n
    <3>7. q.actually_used + n <= q.datalen
      BY <1>1, <3>1, <3>3, <3>6
    <3>. QED
      BY <1>4, <2>1, <3>3, <3>4, <3>5, <3>7
  <2>3. ASSUME w = [buffer |-> [r EXCEPT !.head = 0], ret |-> 0]
        PROVE  Kept(w.buffer) = KeptFrom(b, k) \o <<>> /\ w.buffer.head = b.head - k
    <3>1. [r EXCEPT !.head = 0] = r
      BY <1>2, <2>1 DEF Sound, Buffers
    <3>2. w.buffer = r
      BY <2>3, <3>1
    <3>3. Kept(r) \in Seq(Byte)
      BY <1>2, KeptBytes
    <3>4. Kept(r) \o <<>> = Kept(r)
      BY <3>3, ConcatEmptySeq
    <3>. HIDE DEF r
    <3>. QED
      BY <1>3, <3>2, <3>4
  <2>. QED
    BY <1>6, <2>2, <2>3 DEF Written
<1>. QED
  BY <1>5, <1>6

\* A read on the buffer is one on the tape.
LEMMA ReadTape ==
  ASSUME IInv, NEW n \in Nat, Read(n)
  PROVE  Tape!Read
<1>. DEFINE r == reading(buffer, n)
<1>1. r \in Nat /\ r <= buffer.used /\ Sound(buffer)
  BY ReadingBound DEF IInv
<1>2. buffer' = Advanced(buffer, r) /\ out' = SubSeq(Using(buffer), 1, r) /\ in' = in
  BY DEF Read
<1>. HIDE DEF r
<1>3. out' = SubSeq(Kept(buffer), buffer.head + 1, buffer.head + r)
  BY <1>1, <1>2, UsingKept
<1>4. buffer'.data = buffer.data /\ buffer'.actually_used = buffer.actually_used
      /\ buffer'.head = buffer.head + r
  BY <1>1, <1>2 DEF Advanced, Sound, Buffers
<1>5. Kept(buffer') = Kept(buffer)
  BY <1>4, KeptSame
<1>6. r \in 0 .. Len(Kept(buffer)) - buffer.head
  BY <1>1, KeptBytes DEF Sound, Buffers
<1>. QED
  BY <1>2, <1>3, <1>4, <1>5, <1>6 DEF Tape!Read

\* A step that only goes to another place on the tape.
LEMMA MoveTape ==
  ASSUME IInv, IInv', buffer'.data = buffer.data,
         buffer'.actually_used = buffer.actually_used, in' = in, out' = out
  PROVE  Tape!Move
<1>1. Sound(buffer) /\ Sound(buffer')
  BY DEF IInv
<1>2. Kept(buffer') = Kept(buffer)
  BY KeptSame
<1>3. buffer'.head \in 0 .. Len(Kept(buffer))
  BY <1>1, KeptBytes DEF Sound, Buffers
<1>. QED
  BY <1>2, <1>3 DEF Tape!Move

\* Reading on from the start is reading around.
LEMMA ReadLoopTape ==
  ASSUME IInv, NEW n \in Nat, esl_buffer_read_loop(n)
  PROVE  Tape!Read \/ Tape!ReadAround
<1>. DEFINE len == reading(buffer, n)
            rest == Advanced(buffer, len)
            again == [rest EXCEPT !.head = 0, !.used = rest.actually_used]
            more == reading(again, n - len)
            last == [Advanced(again, more) EXCEPT !.loops = @ - 1]
<1>1. CASE len = n \/ buffer.loops = 0
  BY <1>1, ReadTape DEF esl_buffer_read_loop
<1>2. CASE ~ (len = n \/ buffer.loops = 0)
  <2>1. Sound(buffer) /\ buffer \in Buffers
    BY DEF IInv, Sound
  <2>2. /\ buffer' = last /\ in' = in
        /\ out' = SubSeq(Using(buffer), 1, len) \o SubSeq(Using(again), 1, more)
    BY <1>2, Zenon DEF esl_buffer_read_loop
  <2>3. len = buffer.used /\ len \in Nat /\ n - len \in Nat
    BY <1>2, <2>1 DEF reading, Buffers
  <2>. HIDE DEF len
  <2>4. Sound(rest) /\ rest.actually_used = buffer.actually_used
        /\ rest.data = buffer.data
    <3>1. len <= buffer.used
      BY <2>3
    <3>2. Advanced(buffer, len).data = buffer.data
      BY <2>1 DEF Advanced, Buffers
    <3>. QED
      BY <2>1, <2>3, <3>1, <3>2, AdvancedSound
  <2>. HIDE DEF rest
  <2>5. Sound(again) /\ again.head = 0 /\ again.used = rest.actually_used
        /\ again.actually_used = rest.actually_used /\ again.data = rest.data
    <3>1. 0 \in Nat /\ 0 <= rest.actually_used /\ rest.actually_used - 0 = rest.actually_used
      BY <2>4 DEF Sound, Buffers
    <3>2. Sound([rest EXCEPT !.used = rest.actually_used - 0, !.head = 0])
      BY <2>4, <3>1, SoughtSound
    <3>3. again = [rest EXCEPT !.used = rest.actually_used - 0, !.head = 0]
      BY <2>4, <3>1 DEF Sound, Buffers
    <3>4. /\ again.head = 0 /\ again.used = rest.actually_used
          /\ again.actually_used = rest.actually_used /\ again.data = rest.data
      BY <2>4 DEF Sound, Buffers
    <3>. QED
      BY <3>2, <3>3, <3>4
  <2>. HIDE DEF again
  <2>6. more \in Nat /\ more <= again.used
    BY <2>3, <2>5, ReadingBound
  <2>. HIDE DEF more
  <2>7. last.data = again.data /\ last.actually_used = again.actually_used
        /\ last.head = more
    BY <2>5, <2>6 DEF Advanced, Sound, Buffers
  <2>. HIDE DEF last
  <2>8. Kept(again) = Kept(buffer) /\ Kept(buffer') = Kept(buffer)
    BY <2>2, <2>4, <2>5, <2>7, KeptSame
  <2>9. /\ buffer.head \in Nat /\ buffer.used \in Nat
        /\ buffer.actually_used = buffer.head + buffer.used
        /\ Len(Kept(buffer)) = buffer.actually_used
    BY <2>1, KeptBytes DEF Sound, Buffers
  <2>10. SubSeq(Using(buffer), 1, len) = SubSeq(Kept(buffer), buffer.head + 1, Len(Kept(buffer)))
    <3>1. len <= buffer.used
      BY <2>3
    <3>2. SubSeq(Using(buffer), 1, len) = SubSeq(Kept(buffer), buffer.head + 1, buffer.head + len)
      BY <2>1, <2>3, <3>1, UsingKept
    <3>3. buffer.head + len = Len(Kept(buffer))
      BY <2>3, <2>9
    <3>. QED
      BY <3>2, <3>3
  <2>11. SubSeq(Using(again), 1, more) = SubSeq(Kept(buffer), 1, more)
    <3>1. SubSeq(Using(again), 1, more) = SubSeq(Kept(again), 0 + 1, 0 + more)
      BY <2>5, <2>6, UsingKept
    <3>2. 0 + 1 = 1 /\ 0 + more = more
      BY <2>6
    <3>. QED
      BY <2>8, <3>1, <3>2
  <2>12. more \in 0 .. Len(Kept(buffer))
    BY <2>4, <2>5, <2>6, <2>9
  <2>. QED
    BY <2>2, <2>7, <2>8, <2>10, <2>11, <2>12 DEF Tape!ReadAround, Tape!From
<1>. QED
  BY <1>1, <1>2

\* Every operation is a step of the tape, or none.
LEMMA NextTape ==
  ASSUME max_len = 0, IInv, IInv', [Next]_vars
  PROVE  [Tape!Next]_(Tape!vars)
<1>1. Sound(buffer) /\ Sound(buffer') /\ buffer \in Buffers
  BY DEF IInv, Sound
<1>2. ASSUME NEW bytes \in Chunks, NEW w \in Written(buffer, bytes),
             buffer' = w.buffer, in' = bytes, out' = out
      PROVE  Tape!Write
  <2>1. bytes \in Seq(Byte)
    BY InputAssumption
  <2>2. PICK k \in {0, buffer.head}, new \in {<<>>, bytes} :
          /\ Kept(w.buffer) = KeptFrom(buffer, k) \o new
          /\ w.buffer.head = buffer.head - k
    BY <1>1, <2>1, WrittenTape
  <2>. QED
    BY <1>2, <2>2 DEF Tape!Write, Tape!From, KeptFrom
<1>3. ASSUME NEW bytes \in Chunks, esl_buffer_zwrite(bytes)
      PROVE  Tape!Write \/ Tape!Clear
  <2>1. bytes \in Seq(Byte)
    BY InputAssumption
  <2>. PICK w \in Written(buffer, bytes) :
         \E v \in IF w.ret = 0 THEN Written(Zeroed(w.buffer), bytes) ELSE {w} :
           buffer' = v.buffer /\ ret' = v.ret /\ in' = bytes /\ out' = out
    BY <1>3 DEF esl_buffer_zwrite
  <2>2. PICK v \in IF w.ret = 0 THEN Written(Zeroed(w.buffer), bytes) ELSE {w} :
          buffer' = v.buffer /\ ret' = v.ret /\ in' = bytes /\ out' = out
    OBVIOUS
  <2>3. CASE w.ret = 0
    <3>. DEFINE z == Zeroed(w.buffer)
    <3>1. Sound(w.buffer)
      BY <1>1, <2>1, WrittenSound
    <3>2. Sound(z) /\ Kept(z) = <<>> /\ z.head = 0
      BY <3>1, ZeroedSound, ZeroedKept
    <3>3. v \in Written(z, bytes)
      BY <2>3
    <3>. HIDE DEF z
    <3>4. PICK k \in {0, z.head}, new \in {<<>>, bytes} :
            Kept(v.buffer) = KeptFrom(z, k) \o new /\ v.buffer.head = z.head - k
      BY <2>1, <3>2, <3>3, WrittenTape
    <3>5. KeptFrom(z, k) = <<>> /\ v.buffer.head = 0
      BY <3>2, <3>4, KeptAll
    <3>6. new \in Seq(Byte)
      BY <2>1, EmptySeq
    <3>7. Kept(v.buffer) = new
      BY <3>4, <3>5, <3>6, ConcatEmptySeq
    <3>. QED
      BY <2>2, <3>4, <3>5, <3>7 DEF Tape!Clear
  <2>4. CASE w.ret # 0
    BY <1>2, <2>2, <2>4
  <2>. QED
    BY <2>3, <2>4
<1>4. ASSUME NEW bytes \in Chunks, esl_buffer_write(bytes) PROVE Tape!Write
  BY <1>2, <1>4 DEF esl_buffer_write
<1>5. ASSUME NEW n \in Nat, esl_buffer_read(n) \/ esl_buffer_read_packet(n)
      PROVE  Tape!Read
  BY <1>1, <1>5, InputAssumption, PacketLenType, ReadTape
     DEF esl_buffer_read, esl_buffer_read_packet
<1>6. ASSUME NEW n \in Sizes, esl_buffer_toss(n) PROVE Tape!Move
  BY <1>1, <1>6, MoveTape DEF esl_buffer_toss, Advanced, Buffers
<1>7. ASSUME NEW n \in Sizes, esl_buffer_seek(n) PROVE Tape!Move
  BY <1>1, <1>7, MoveTape DEF esl_buffer_seek, Buffers
<1>8. ASSUME NEW loops \in {-1, 0, 1}, esl_buffer_set_loops(loops) PROVE Tape!Move
  BY <1>1, <1>8, MoveTape DEF esl_buffer_set_loops, Buffers
<1>9. ASSUME NEW n \in Nat, esl_buffer_read_loop(n) PROVE Tape!Read \/ Tape!ReadAround
  BY <1>9, ReadLoopTape
<1>10. ASSUME esl_buffer_zero PROVE Tape!Clear
  BY <1>1, <1>10, ZeroedKept DEF esl_buffer_zero, Tape!Clear
<1>11. ASSUME UNCHANGED vars PROVE UNCHANGED Tape!vars
  BY <1>11 DEF vars, Tape!vars
<1>12. ASSUME NEW n \in Sizes PROVE n \in Nat
  BY InputAssumption
<1>13. Tape!Next \/ UNCHANGED Tape!vars
  BY <1>3, <1>4, <1>5, <1>6, <1>7, <1>8, <1>9, <1>10, <1>11, <1>12, InputAssumption
     DEF Next, HandleNext, Tape!Next
<1>. QED
  BY <1>13

\* A buffer without a length limit is the tape it promises to be: nothing is
\* lost, repeated or reordered, whatever is called in whatever order and
\* whenever memory is moved.
THEOREM BufferIsTape ==
  ASSUME max_len = 0
  PROVE  Spec => TapeSpec
<1>1. Init => Tape!Init
  <2>1. ASSUME Init
        PROVE  Sound(buffer) /\ buffer.actually_used = 0 /\ buffer.head = 0
    BY <2>1, InitIInv DEF Init, IInv
  <2>2. Sound(buffer) /\ buffer.actually_used = 0 => Kept(buffer) = <<>>
    BY KeptBytes, EmptySeq
  <2>. QED
    BY <2>1, <2>2 DEF Init, Tape!Init
<1>2. IInv /\ [Next]_vars => IInv'
  BY NextIInv
<1>3. IInv /\ IInv' /\ [Next]_vars => [Tape!Next]_(Tape!vars)
  BY NextTape
<1>. QED
  BY InitIInv, <1>1, <1>2, <1>3, PTL DEF Spec, TapeSpec, Tape!Spec

-----------------------------------------------------------------------------
(* Counting packets.                                                       *)

\* A set of numbers that holds 0 and successors up to n holds n.
LEMMA SetInduction ==
  ASSUME NEW n \in Nat, NEW T \in SUBSET Nat, 0 \in T,
         \A k \in T : k < n => k + 1 \in T
  PROVE  n \in T
<1>. SUFFICES ASSUME n \notin T PROVE FALSE
  OBVIOUS
<1>. DEFINE U == {k \in Nat : k <= n /\ k \notin T}
<1>1. U \in SUBSET Nat /\ U # {}
  OBVIOUS
<1>2. PICK x \in U : \A y \in U : x <= y
  <2>. HIDE DEF U
  <2>. QED
    BY <1>1, LeastNatural
<1>3. x # 0 /\ x - 1 \in Nat /\ x - 1 < n /\ (x - 1) + 1 = x /\ x \notin T
  OBVIOUS
<1>4. x - 1 \notin U
  <2>1. ~ (x <= x - 1)
    BY <1>3
  <2>. HIDE DEF U
  <2>. QED
    BY <1>2, <2>1
<1>. QED
  BY <1>3, <1>4

\* One step of a count along a list of places: it stops, or goes on at the
\* next place, perhaps with a hit.
Tally(Stop, Hit, next, f, p) ==
  IF p \in Stop THEN 0 ELSE IF p \in Hit THEN 1 + f[next[p]] ELSE f[next[p]]

Tallies(S, Stop, Hit, next, f) == f = [p \in S |-> Tally(Stop, Hit, next, f, p)]

\* The places below a rank.
Below(S, rank, m) == {q \in S : rank[q] < m}

\* A count of the places below m goes on to those of rank m.
LEMMA TallyExtends ==
  ASSUME NEW S, NEW Stop, NEW Hit, NEW next, NEW rank \in [S -> Nat],
         \A p \in S : p \notin Stop => next[p] \in S /\ rank[next[p]] < rank[p],
         NEW m \in Nat, NEW f, Tallies(Below(S, rank, m), Stop, Hit, next, f)
  PROVE  \E g : Tallies(Below(S, rank, m + 1), Stop, Hit, next, g)
<1>. DEFINE B == Below(S, rank, m)
            C == Below(S, rank, m + 1)
            g == [p \in C |-> Tally(Stop, Hit, next, f, p)]
            h == [p \in C |-> Tally(Stop, Hit, next, g, p)]
<1>1. f = [p \in B |-> Tally(Stop, Hit, next, f, p)]
  BY Zenon DEF Tallies
<1>2. /\ \A p \in C : p \in S /\ (p \notin Stop => next[p] \in B)
      /\ \A p \in B : p \in C
  BY DEF Below
<1>. HIDE DEF B, C
<1>3. \A p \in B : g[p] = f[p]
  BY <1>1, <1>2, Zenon
<1>4. g = [p \in C |-> g[p]] /\ h = [p \in C |-> h[p]]
  BY Zenon
<1>5. ASSUME NEW p \in C PROVE g[p] = h[p]
  <2>1. g[p] = Tally(Stop, Hit, next, f, p) /\ h[p] = Tally(Stop, Hit, next, g, p)
    BY Zenon
  <2>2. p \in Stop => Tally(Stop, Hit, next, f, p) = Tally(Stop, Hit, next, g, p)
    BY Zenon DEF Tally
  <2>3. p \notin Stop => g[next[p]] = f[next[p]]
    BY <1>2, <1>3, Zenon
  <2>. HIDE DEF g
  <2>4. p \notin Stop => Tally(Stop, Hit, next, f, p) = Tally(Stop, Hit, next, g, p)
    BY <2>3, Zenon DEF Tally
  <2>. HIDE DEF h
  <2>. QED
    BY <2>1, <2>2, <2>4, Zenon
<1>6. g = h
  <2>. HIDE DEF g, h
  <2>. QED
    BY <1>4, <1>5
<1>7. g = [p \in C |-> Tally(Stop, Hit, next, g, p)]
  BY <1>6, Zenon
<1>. HIDE DEF g
<1>. QED
  BY <1>7, Zenon DEF Tallies, C

\* If every place but those where it stops leads to one of lower rank, there
\* is such a count.
LEMMA TallyExists ==
  ASSUME NEW S, NEW Stop, NEW Hit, NEW next, NEW rank \in [S -> Nat],
         \A p \in S : p \notin Stop => next[p] \in S /\ rank[next[p]] < rank[p],
         NEW n \in Nat, \A p \in S : rank[p] < n
  PROVE  \E f : Tallies(S, Stop, Hit, next, f)
<1>. DEFINE T == {m \in Nat : \E f : Tallies(Below(S, rank, m), Stop, Hit, next, f)}
<1>1. 0 \in T
  <2>. DEFINE B == Below(S, rank, 0)
              f == [p \in B |-> 0]
  <2>1. B = {}
    BY DEF Below
  <2>2. f = [p \in B |-> Tally(Stop, Hit, next, f, p)]
    <3>. HIDE DEF B
    <3>. QED
      BY <2>1
  <2>. HIDE DEF f
  <2>3. Tallies(Below(S, rank, 0), Stop, Hit, next, f)
    BY <2>2, Zenon DEF Tallies
  <2>. QED
    BY <2>3
<1>2. ASSUME NEW m \in T PROVE m + 1 \in T
  <2>1. m \in Nat /\ m + 1 \in Nat /\ \E f : Tallies(Below(S, rank, m), Stop, Hit, next, f)
    OBVIOUS
  <2>2. \E g : Tallies(Below(S, rank, m + 1), Stop, Hit, next, g)
    BY <2>1, TallyExtends
  <2>. QED
    BY <2>1, <2>2
<1>3. T \in SUBSET Nat
  OBVIOUS
<1>4. n \in T
  <2>. HIDE DEF T
  <2>. QED
    BY <1>1, <1>2, <1>3, SetInduction
<1>5. Below(S, rank, n) = S
  BY DEF Below
<1>. QED
  BY <1>4, <1>5

\* The function inside esl_buffer_packet_count, and its equation.
Counted(b, f, p) ==
  IF p >= b.head + b.used \/ b.data[p] = "0" THEN 0
  ELSE IF BlankAt(b, p) THEN 1 + f[Behind(b, p)]
  ELSE f[p + 1]
counted(b) ==
  CHOOSE f : f = [p \in b.head .. b.head + b.used + 2 |->
                    IF p >= b.head + b.used \/ b.data[p] = "0" THEN 0
                    ELSE IF BlankAt(b, p) THEN 1 + f[Behind(b, p)]
                    ELSE f[p + 1]]

LEMMA CountedEquation ==
  ASSUME NEW b, Sound(b)
  PROVE  /\ \A p \in b.head .. b.head + b.used + 2 :
              counted(b)[p] = Counted(b, counted(b), p)
         /\ esl_buffer_packet_count(b) = counted(b)[b.head]
<1>. DEFINE e == b.head + b.used
            S == b.head .. e + 2
            Stop == {p \in S : p >= e \/ b.data[p] = "0"}
            Hit == {p \in S : BlankAt(b, p)}
            next == [p \in S |-> IF p \in Hit THEN Behind(b, p) ELSE p + 1]
            rank == [p \in S |-> e + 2 - p]
            body(f) == [p \in S |-> IF p >= e \/ b.data[p] = "0" THEN 0
                                    ELSE IF BlankAt(b, p) THEN 1 + f[Behind(b, p)]
                                    ELSE f[p + 1]]
<1>1. b.head \in Nat /\ b.used \in Nat /\ e \in Nat
  BY DEF Sound, Buffers
<1>2. ASSUME NEW p \in S, p \notin Stop
      PROVE  p + 1 \in S /\ (BlankAt(b, p) => Behind(b, p) \in S /\ Behind(b, p) > p)
  <2>1. p \in Int /\ p < e /\ p >= b.head
    BY <1>1, <1>2
  <2>2. BlankAt(b, p) => (IF b.data[p + 1] = "r" THEN p + 2 ELSE p + 1) <= e
    BY DEF BlankAt
  <2>. HIDE DEF e
  <2>. QED
    BY <1>1, <2>1, <2>2 DEF Behind
<1>3. rank \in [S -> Nat] /\ \A p \in S : rank[p] < e + 3
  BY <1>1
<1>4. \A p \in S : p \notin Stop => next[p] \in S /\ next[p] > p
  <2>. HIDE DEF S, Stop
  <2>1. \A p \in S : p \in Int /\ p + 1 > p
    BY <1>1 DEF S
  <2>. QED
    BY <1>2, <2>1
<1>5. \A p \in S : p \notin Stop => next[p] \in S /\ rank[next[p]] < rank[p]
  <2>. HIDE DEF next, Stop
  <2>. QED
    BY <1>1, <1>4
<1>6. PICK f : Tallies(S, Stop, Hit, next, f)
  <2>1. e + 3 \in Nat
    BY <1>1
  <2>. HIDE DEF S, Stop, Hit, next, rank, e
  <2>. QED
    BY <1>3, <1>5, <2>1, TallyExists
<1>7. ASSUME NEW p \in S PROVE Tally(Stop, Hit, next, f, p) = Counted(b, f, p)
  BY DEF Tally, Counted
<1>8. f = body(f)
  <2>1. f = [p \in S |-> Tally(Stop, Hit, next, f, p)]
    BY <1>6, Zenon DEF Tallies
  <2>2. \A p \in S : body(f)[p] = Counted(b, f, p)
    BY Zenon DEF Counted
  <2>. HIDE DEF S, Stop, Hit, next
  <2>3. \A p \in S : f[p] = body(f)[p]
    BY <1>7, <2>1, <2>2, Zenon
  <2>4. f = [p \in S |-> f[p]] /\ body(f) = [p \in S |-> body(f)[p]]
    BY <2>1, Zenon
  <2>. HIDE DEF body
  <2>. QED
    BY <2>3, <2>4
<1>9. counted(b) = body(counted(b))
  BY <1>8, Zenon DEF counted
<1>10. \A p \in S : counted(b)[p] = Counted(b, counted(b), p)
  BY <1>9, Zenon DEF Counted
<1>11. esl_buffer_packet_count(b) = counted(b)[b.head]
  BY DEF esl_buffer_packet_count, counted
<1>. QED
  BY <1>10, <1>11

\* Where no packet ends and no null byte is, nothing is counted.
LEMMA CountPasses ==
  ASSUME NEW b, Sound(b), NEW x \in Nat, NEW y \in Nat, b.head <= x, x <= y,
         y <= b.head + b.used,
         \A a \in x .. y - 1 : b.data[a] # "0" /\ ~ BlankAt(b, a)
  PROVE  counted(b)[x] = counted(b)[y]
<1>. DEFINE f == counted(b)
            T == {n \in Nat : n <= y - x => f[y - n] = f[y]}
<1>1. b.head \in Nat /\ b.used \in Nat /\ y - x \in Nat
  BY DEF Sound, Buffers
<1>2. \A p \in b.head .. b.head + b.used + 2 : f[p] = Counted(b, f, p)
  BY CountedEquation
<1>. HIDE DEF f
<1>3. 0 \in T
  OBVIOUS
<1>4. ASSUME NEW n \in T, n < y - x PROVE n + 1 \in T
  <2>. DEFINE p == y - (n + 1)
  <2>1. /\ p \in x .. y - 1 /\ p \in b.head .. b.head + b.used + 2
        /\ ~ (p >= b.head + b.used) /\ p + 1 = y - n /\ n + 1 \in Nat
    BY <1>1, <1>4
  <2>2. f[y - n] = f[y]
    BY <1>4
  <2>. HIDE DEF p
  <2>3. f[p] = f[p + 1]
    BY <1>2, <2>1 DEF Counted
  <2>4. f[y - (n + 1)] = f[y]
    BY <2>1, <2>2, <2>3 DEF p
  <2>. QED
    BY <2>1, <2>4
<1>5. T \in SUBSET Nat
  OBVIOUS
<1>6. y - x \in T
  <2>. HIDE DEF T
  <2>. QED
    BY <1>1, <1>3, <1>4, <1>5, SetInduction
<1>7. y - (y - x) = x
  OBVIOUS
<1>. QED
  BY <1>6, <1>7 DEF f

\* The buffer when only the last n bytes in use are left.
Rest(b, n) == Advanced(b, b.used - n)

LEMMA RestFacts ==
  ASSUME NEW b, Sound(b), NEW n \in 0 .. b.used
  PROVE  /\ Sound(Rest(b, n)) /\ Rest(b, n).data = b.data
         /\ Rest(b, n).used = n /\ Rest(b, n).head = b.head + b.used - n
         /\ Rest(b, n).head + Rest(b, n).used = b.head + b.used
         /\ \A p : BlankAt(Rest(b, n), p) <=> BlankAt(b, p)
         /\ \A p : Behind(Rest(b, n), p) = Behind(b, p)
<1>1. b.head \in Nat /\ b.used \in Nat /\ b.used - n \in Nat /\ b.used - n <= b.used
  BY DEF Sound, Buffers
<1>2. Sound(Rest(b, n))
  BY <1>1, AdvancedSound DEF Rest
<1>3. /\ Rest(b, n).data = b.data
      /\ Rest(b, n).used = b.used - (b.used - n)
      /\ Rest(b, n).head = b.head + (b.used - n)
  BY DEF Rest, Advanced, Sound, Buffers
<1>4. /\ Rest(b, n).used = n /\ Rest(b, n).head = b.head + b.used - n
      /\ Rest(b, n).head + Rest(b, n).used = b.head + b.used
  BY <1>1, <1>3
<1>5. \A p : BlankAt(Rest(b, n), p) <=> BlankAt(b, p)
  BY <1>3, <1>4 DEF BlankAt
<1>6. \A p : Behind(Rest(b, n), p) = Behind(b, p)
  BY <1>3 DEF Behind
<1>. QED
  BY <1>2, <1>3, <1>4, <1>5, <1>6

\* What is left after the next packet of the last n bytes.
After(b, n) == n - reading(Rest(b, n), PacketLen(Rest(b, n)))

LEMMA AfterLess ==
  ASSUME NEW b, Sound(b), NEW n \in 0 .. b.used, PacketLen(Rest(b, n)) # 0
  PROVE  After(b, n) \in 0 .. b.used /\ After(b, n) < n
<1>. DEFINE c == Rest(b, n)
            len == PacketLen(c)
<1>1. Sound(c) /\ c.used = n /\ c.head \in Nat /\ b.used \in Nat
  BY RestFacts DEF Sound, Buffers
<1>2. PICK p : FirstBlank(c, p)
  <2>. HIDE DEF c
  <2>. QED
    BY <1>1, PacketFound DEF c
<1>3. n > 0
  <2>. HIDE DEF c
  <2>. QED
    BY <1>1, <1>2 DEF FirstBlank
<1>4. len \in Nat /\ len # 0
  BY <1>1, PacketLenType
<1>5. After(b, n) = n - reading(c, len)
  BY DEF After
<1>. HIDE DEF c, len
<1>. QED
  BY <1>1, <1>3, <1>4, <1>5 DEF reading

\* The function inside CountsPackets, and its equation.
Delivers(b, f, n) ==
  IF PacketLen(Rest(b, n)) = 0 THEN 0 ELSE 1 + f[After(b, n)]
delivered(b) ==
  CHOOSE f : f = [n \in 0 .. b.used |->
                    LET c == Advanced(b, b.used - n)
                        len == PacketLen(c)
                    IN IF len = 0 THEN 0 ELSE 1 + f[n - reading(c, len)]]

LEMMA DeliveredEquation ==
  ASSUME NEW b, Sound(b)
  PROVE  \A n \in 0 .. b.used : delivered(b)[n] = Delivers(b, delivered(b), n)
<1>. DEFINE S == 0 .. b.used
            Stop == {n \in S : PacketLen(Rest(b, n)) = 0}
            next == [n \in S |-> After(b, n)]
            rank == [n \in S |-> n]
            body(f) == [n \in S |-> LET c == Advanced(b, b.used - n)
                                        len == PacketLen(c)
                                    IN IF len = 0 THEN 0 ELSE 1 + f[n - reading(c, len)]]
<1>1. b.used \in Nat /\ b.used + 1 \in Nat
  BY DEF Sound, Buffers
<1>2. rank \in [S -> Nat] /\ \A n \in S : rank[n] < b.used + 1
  BY <1>1
<1>3. \A n \in S : n \notin Stop => next[n] \in S /\ next[n] < n
  BY AfterLess
<1>4. \A n \in S : n \notin Stop => next[n] \in S /\ rank[next[n]] < rank[n]
  <2>. HIDE DEF S, next, Stop
  <2>. QED
    BY <1>3
<1>5. PICK f : Tallies(S, Stop, S, next, f)
  <2>. HIDE DEF S, Stop, next, rank
  <2>. QED
    BY <1>1, <1>2, <1>4, TallyExists
<1>6. ASSUME NEW n \in S PROVE Tally(Stop, S, next, f, n) = Delivers(b, f, n)
  BY DEF Tally, Delivers
<1>7. \A g : \A n \in S : body(g)[n] = Delivers(b, g, n)
  BY Zenon DEF Delivers, Rest, After
<1>8. f = body(f)
  <2>1. f = [n \in S |-> Tally(Stop, S, next, f, n)]
    BY <1>5, Zenon DEF Tallies
  <2>. HIDE DEF S, Stop, next
  <2>2. \A n \in S : f[n] = body(f)[n]
    <3>. HIDE DEF body
    <3>. QED
      BY <1>6, <1>7, <2>1, Zenon
  <2>3. f = [n \in S |-> f[n]] /\ body(f) = [n \in S |-> body(f)[n]]
    BY <2>1, Zenon
  <2>. HIDE DEF body
  <2>. QED
    BY <2>2, <2>3
<1>9. delivered(b) = body(delivered(b))
  BY <1>8, Zenon DEF delivered
<1>. HIDE DEF body
<1>. QED
  BY <1>7, <1>9, Zenon

\* If no packet has a length, none is counted.
LEMMA CountsNone ==
  ASSUME NEW b, Sound(b), NEW n \in 0 .. b.used, PacketLen(Rest(b, n)) = 0
  PROVE  counted(b)[b.head + b.used - n] = 0
<1>. DEFINE e == b.head + b.used
            x == e - n
            Null == {a \in x .. e - 1 : b.data[a] = "0"}
<1>1. b.head \in Nat /\ b.used \in Nat /\ e \in Nat /\ n \in Nat /\ x \in Nat
      /\ b.head <= x /\ x <= e /\ b.head + b.used - n = x /\ e = b.head + b.used
  BY DEF Sound, Buffers
<1>2. \A p \in b.head .. e + 2 : counted(b)[p] = Counted(b, counted(b), p)
  BY <1>1, CountedEquation
<1>3. ASSUME NEW p \in x .. e - 1, BlankAt(b, p)
      PROVE  \E a \in x .. p : b.data[a] = "0"
  <2>. DEFINE c == Rest(b, n)
  <2>1. Sound(c) /\ PacketLen(c) = 0 /\ c.head = x /\ c.head + c.used = e
        /\ c.data = b.data /\ BlankAt(c, p)
    BY <1>1, <1>3, RestFacts
  <2>. HIDE DEF c, x, e
  <2>2. p \in c.head .. c.head + c.used - 1
    BY <1>1, <2>1 DEF Sound, Buffers
  <2>. QED
    BY <2>1, <2>2, PacketFound
<1>. HIDE DEF x, e
<1>4. CASE Null = {}
  <2>1. \A a \in x .. e - 1 : b.data[a] # "0" /\ ~ BlankAt(b, a)
    <3>1. \A a \in x .. e - 1 : b.data[a] # "0"
      BY <1>4
    <3>2. \A p \in x .. e - 1 : \A a \in x .. p : a \in x .. e - 1
      BY <1>1
    <3>. QED
      BY <1>3, <3>1, <3>2
  <2>2. counted(b)[x] = counted(b)[e]
    BY <1>1, <2>1, CountPasses
  <2>3. e \in b.head .. e + 2 /\ e >= b.head + b.used
    BY <1>1
  <2>4. counted(b)[e] = 0
    BY <1>2, <2>3 DEF Counted
  <2>. QED
    BY <1>1, <2>2, <2>4
<1>5. CASE Null # {}
  <2>1. Null \in SUBSET Nat
    BY <1>1
  <2>2. PICK z \in Null : \A y \in Null : z <= y
    <3>. HIDE DEF Null
    <3>. QED
      BY <1>5, <2>1, LeastNatural
  <2>3. z \in x .. e - 1 /\ b.data[z] = "0" /\ z \in Nat
    BY <2>1, <2>2
  <2>4. ASSUME NEW a \in x .. z - 1 PROVE b.data[a] # "0"
    <3>1. a \in x .. e - 1 /\ ~ (z <= a)
      BY <1>1, <2>3
    <3>. QED
      BY <2>2, <3>1
  <2>5. ASSUME NEW a \in x .. z - 1 PROVE ~ BlankAt(b, a)
    <3>1. a \in x .. e - 1 /\ \A q \in x .. a : q \in x .. z - 1
      BY <1>1, <2>3
    <3>. QED
      BY <1>3, <2>4, <3>1
  <2>6. z <= e /\ x <= z /\ z \in b.head .. e + 2
    BY <1>1, <2>3
  <2>7. counted(b)[x] = counted(b)[z]
    BY <1>1, <2>3, <2>4, <2>5, <2>6, CountPasses
  <2>8. counted(b)[z] = 0
    BY <1>2, <2>3, <2>6 DEF Counted
  <2>. QED
    BY <1>1, <2>7, <2>8
<1>. QED
  BY <1>4, <1>5

\* If one has, it is counted and the count goes on behind it.
LEMMA CountsOne ==
  ASSUME NEW b, Sound(b), NEW n \in 0 .. b.used, PacketLen(Rest(b, n)) # 0
  PROVE  counted(b)[b.head + b.used - n] =
           1 + counted(b)[b.head + b.used - After(b, n)]
<1>. DEFINE e == b.head + b.used
            x == e - n
            c == Rest(b, n)
            len == PacketLen(c)
            f == counted(b)
<1>1. b.head \in Nat /\ b.used \in Nat /\ e \in Nat /\ n \in Nat /\ x \in Nat
      /\ b.head <= x /\ x <= e /\ b.head + b.used - n = x /\ e = b.head + b.used
      /\ x = e - n
  BY DEF Sound, Buffers
<1>2. \A p \in b.head .. e + 2 : f[p] = Counted(b, f, p)
  BY <1>1, CountedEquation
<1>3. /\ Sound(c) /\ c.head = x /\ c.head + c.used = e /\ c.used = n /\ c.data = b.data
      /\ len # 0
      /\ \A p : (BlankAt(c, p) <=> BlankAt(b, p)) /\ Behind(c, p) = Behind(b, p)
  BY <1>1, RestFacts
<1>4. PICK p : FirstBlank(c, p)
  <2>. HIDE DEF c
  <2>. QED
    BY <1>3, PacketFound
<1>5. After(b, n) = n - reading(c, len) /\ len = PacketLen(c)
  BY DEF After
<1>. HIDE DEF c, len, e, x, f
<1>6. /\ p \in x .. e - 1 /\ BlankAt(b, p) /\ len = Behind(b, p) - x
      /\ \A a \in x .. p : b.data[a] # "0"
      /\ \A a \in x .. p - 1 : ~ BlankAt(b, a)
  <2>1. c.head .. c.head + c.used - 1 = x .. e - 1
    BY <1>1, <1>3 DEF Sound, Buffers
  <2>. QED
    BY <1>3, <1>4, <1>5, <2>1 DEF FirstBlank
<1>7. p \in Nat /\ p <= e /\ p < e /\ x <= p /\ p \in b.head .. e + 2 /\ p \in x .. p
  BY <1>1, <1>6
<1>8. f[x] = f[p]
  <2>1. \A a \in x .. p - 1 : a \in x .. p
    BY <1>1, <1>7
  <2>2. \A a \in x .. p - 1 : b.data[a] # "0" /\ ~ BlankAt(b, a)
    BY <1>6, <2>1
  <2>. QED
    BY <1>1, <1>7, <2>2, CountPasses DEF f
<1>9. f[p] = 1 + f[Behind(b, p)]
  <2>1. ~ (p >= b.head + b.used) /\ b.data[p] # "0"
    BY <1>1, <1>6, <1>7
  <2>. QED
    BY <1>2, <1>6, <1>7, <2>1 DEF Counted
<1>10. Behind(b, p) \in Nat /\ Behind(b, p) > p /\ Behind(b, p) <= e + 1
  BY <1>1, <1>6, <1>7 DEF Behind, BlankAt
<1>11. len \in Nat /\ Behind(b, p) = x + len
  BY <1>1, <1>6, <1>7, <1>10
<1>12. f[x] = 1 + f[e - After(b, n)] =>
         counted(b)[b.head + b.used - n] =
           1 + counted(b)[b.head + b.used - After(b, n)]
  <2>1. After(b, n) \in Int
    BY <1>1, AfterLess
  <2>2. b.head + b.used - After(b, n) = e - After(b, n)
    BY <1>1, <2>1
  <2>. QED
    BY <1>1, <2>2 DEF f
<1>13. CASE len <= n
  <2>1. e - After(b, n) = Behind(b, p)
    BY <1>1, <1>3, <1>5, <1>11, <1>13 DEF reading
  <2>2. f[x] = 1 + f[e - After(b, n)]
    BY <1>8, <1>9, <2>1
  <2>. QED
    BY <1>12, <2>2
<1>14. CASE ~ (len <= n)
  <2>1. Behind(b, p) = e + 1 /\ e - After(b, n) = e
    BY <1>1, <1>3, <1>5, <1>10, <1>11, <1>14 DEF reading
  <2>2. /\ e \in b.head .. e + 2 /\ e >= b.head + b.used
        /\ e + 1 \in b.head .. e + 2 /\ e + 1 >= b.head + b.used
    BY <1>1
  <2>3. f[e] = 0 /\ f[e + 1] = 0
    BY <1>2, <2>2 DEF Counted
  <2>4. f[x] = 1 + f[e - After(b, n)]
    BY <1>8, <1>9, <2>1, <2>3
  <2>. QED
    BY <1>12, <2>4
<1>. QED
  BY <1>13, <1>14

\* What is counted is what is delivered.
LEMMA CountsDelivered ==
  ASSUME NEW b, Sound(b)
  PROVE  esl_buffer_packet_count(b) = delivered(b)[b.used]
<1>. DEFINE e == b.head + b.used
            T == {m \in Nat : \A n \in 0 .. b.used :
                    n <= m => counted(b)[e - n] = delivered(b)[n]}
<1>1. b.head \in Nat /\ b.used \in Nat /\ e \in Nat /\ e - b.used = b.head
      /\ e = b.head + b.used
  BY DEF Sound, Buffers
<1>2. ASSUME NEW n \in 0 .. b.used,
             \A k \in 0 .. b.used : k < n => counted(b)[e - k] = delivered(b)[k]
      PROVE  counted(b)[e - n] = delivered(b)[n]
  <2>1. delivered(b)[n] = Delivers(b, delivered(b), n)
    BY DeliveredEquation
  <2>2. b.head + b.used - n = e - n /\ \A k \in Int : b.head + b.used - k = e - k
    BY <1>1
  <2>. HIDE DEF e
  <2>3. CASE PacketLen(Rest(b, n)) = 0
    BY <2>1, <2>2, <2>3, CountsNone DEF Delivers
  <2>4. CASE PacketLen(Rest(b, n)) # 0
    <3>1. After(b, n) \in 0 .. b.used /\ After(b, n) < n
      BY <2>4, AfterLess
    <3>2. counted(b)[e - n] = 1 + counted(b)[e - After(b, n)]
      <4>1. After(b, n) \in Int
        BY <1>1, <3>1
      <4>2. counted(b)[b.head + b.used - n] =
              1 + counted(b)[b.head + b.used - After(b, n)]
        BY <2>4, CountsOne
      <4>. QED
        BY <2>2, <4>1, <4>2
    <3>3. counted(b)[e - After(b, n)] = delivered(b)[After(b, n)]
      BY <1>2, <3>1
    <3>. QED
      BY <2>1, <2>4, <3>2, <3>3 DEF Delivers
  <2>. QED
    BY <2>3, <2>4
<1>. HIDE DEF e
<1>3. 0 \in T
  <2>1. \A n \in 0 .. b.used : n <= 0 => \A k \in 0 .. b.used : ~ (k < n)
    BY <1>1
  <2>. QED
    BY <1>2, <2>1
<1>4. ASSUME NEW m \in T PROVE m + 1 \in T
  <2>1. ASSUME NEW n \in 0 .. b.used, n <= m + 1
        PROVE  counted(b)[e - n] = delivered(b)[n]
    <3>1. \A k \in 0 .. b.used : k < n => k <= m
      BY <1>1, <2>1
    <3>. QED
      BY <1>2, <3>1
  <2>. QED
    BY <2>1
<1>5. T \in SUBSET Nat
  OBVIOUS
<1>6. b.used \in T
  <2>. HIDE DEF T
  <2>. QED
    BY <1>1, <1>3, <1>4, <1>5, SetInduction
<1>7. counted(b)[e - b.used] = delivered(b)[b.used]
  BY <1>1, <1>6
<1>. QED
  BY <1>1, <1>7, CountedEquation

\* What is announced as complete packets is what reading packet by packet
\* then delivers, so that a handle that skips poll because of the count never
\* waits for what it has.
THEOREM CountIsDelivered ==
  ASSUME max_len = 0
  PROVE  Spec => []CountsPackets
<1>1. IInv => CountsPackets
  <2>1. IInv => esl_buffer_packet_count(buffer) = delivered(buffer)[buffer.used]
    BY CountsDelivered DEF IInv
  <2>. HIDE DEF esl_buffer_packet_count
  <2>. QED
    BY <2>1, Zenon DEF CountsPackets, delivered
<1>. QED
  BY InitIInv, NextIInv, <1>1, PTL DEF Spec
=============================================================================
