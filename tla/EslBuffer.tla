----------------------------- MODULE EslBuffer ------------------------------
(***************************************************************************)
(* The buffer an event-socket handle cuts packets out of                   *)
(* (src/esl/esl_buffer.c): one block of memory, written behind the bytes   *)
(* in use, read at head, compacted or enlarged when the end is reached.    *)
(*                                                                         *)
(* Memory is modelled cell by cell, because the search for the end of a    *)
(* packet looks at up to two bytes behind those in use: what is left there *)
(* by earlier writes, what realloc brought, or what follows the block.     *)
(* Bytes are abstracted to what the search tells apart.  The bytes of a    *)
(* new block and of what follows it are one arbitrary byte (bound).        *)
(***************************************************************************)
EXTENDS Integers, Sequences

CONSTANTS blocksize, start_len, max_len,  \* esl_buffer_create's arguments
          Chunks,      \* what is written at once
          Sizes,       \* how much is read, tossed or sought at once
          Fresh,       \* bytes that new memory may hold
          AllocFails,  \* realloc may fail
          MaxData      \* bound: size of the block

\* \n, \r, the null byte, any other.
Byte == {"n", "r", "0", "x"}

ASSUME CreateAssumption ==
  blocksize \in Nat /\ start_len \in Nat \ {0} /\ max_len \in Nat
ASSUME InputAssumption ==
  /\ Chunks \subseteq Seq(Byte) \ {<<>>} /\ Sizes \subseteq Nat
  /\ Fresh \subseteq Byte /\ AllocFails \in BOOLEAN /\ MaxData \in Nat

VARIABLES buffer,  \* the esl_buffer; data, as its memory, goes two bytes beyond
          in,      \* the bytes last to be written
          out,     \* the bytes the last read returned
          ret      \* the number the last operation returned

vars == <<buffer, in, out, ret>>

\* Addresses a block of n bytes and the search behind it can touch.
Cells(n) == 0 .. n + 1

\* esl_buffer_create
Init ==
  /\ \E f \in Fresh :
       buffer = [data |-> [a \in Cells(start_len) |-> IF a < start_len THEN "0" ELSE f],
                 head |-> 0, used |-> 0, actually_used |-> 0,
                 datalen |-> start_len, loops |-> 0]
  /\ in = <<>> /\ out = <<>> /\ ret = 0

-----------------------------------------------------------------------------
(* The operations, as functions of the buffer b.                           *)

\* reading: how much of n bytes there is.
reading(b, n) == IF b.used >= n THEN n ELSE b.used

\* The bytes in use, and all that are kept: those before head were read.
Using(b) == [i \in 1 .. b.used |-> b.data[b.head + i - 1]]
Kept(b) == [i \in 1 .. b.actually_used |-> b.data[i - 1]]

\* The first n bytes in use leave.
Advanced(b, n) == [b EXCEPT !.used = @ - n, !.head = @ + n]

\* memmove: the bytes in use go to the front, those behind them stay.
Compacted(b) ==
  [b EXCEPT !.data = [a \in DOMAIN b.data |->
                        IF a < b.used THEN b.data[b.head + a] ELSE b.data[a]],
            !.head = 0, !.actually_used = b.used]

\* Mutant of Enlarged: the new size is not noted.
EnlargedUnsized(b, n, f) ==
  [b EXCEPT !.data = [a \in Cells(n) |-> IF a < b.datalen THEN b.data[a] ELSE f],
            !.head = 0]

\* realloc to n bytes, new ones holding f.
Enlarged(b, n, f) ==
  [b EXCEPT !.data = [a \in Cells(n) |-> IF a < b.datalen THEN b.data[a] ELSE f],
            !.head = 0, !.datalen = n]

\* memcpy behind the bytes in use.
Filled(b, bytes) ==
  LET e == b.head + b.used
  IN [b EXCEPT !.data = [a \in DOMAIN b.data |->
                           IF a \in e .. e + Len(bytes) - 1
                           THEN bytes[a - e + 1] ELSE b.data[a]],
               !.used = @ + Len(bytes), !.actually_used = @ + Len(bytes)]

\* Mutant of MadeRoom: memmove takes the bytes from the front.
MadeRoomUnmoved(b, n) ==
  IF b.datalen - b.actually_used < n /\ (max_len = 0 \/ b.used + n <= max_len)
  THEN [b EXCEPT !.head = 0, !.actually_used = b.used] ELSE b

\* Mutant of MadeRoom: actually_used keeps counting what was read.
MadeRoomUncounted(b, n) ==
  IF b.datalen - b.actually_used < n /\ (max_len = 0 \/ b.used + n <= max_len)
  THEN [Compacted(b) EXCEPT !.actually_used = b.actually_used] ELSE b

MadeRoom(b, n) ==
  IF b.datalen - b.actually_used < n /\ (max_len = 0 \/ b.used + n <= max_len)
  THEN Compacted(b) ELSE b

new_size(b, n) ==
  IF b.datalen + blocksize > b.datalen + n THEN b.datalen + blocksize
  ELSE b.datalen + n

\* esl_buffer_write: b with bytes in it, all that it may become.  A realloc
\* that fails leaves the buffer without them, and 0 is returned.
Written(b, bytes) ==
  LET n == Len(bytes)
      r == MadeRoom(b, n)
  IN IF r.datalen - r.used >= n
     THEN {[buffer |-> Filled(r, bytes), ret |-> r.used + n]}
     ELSE {[buffer |-> Filled(Enlarged(r, new_size(r, n), f), bytes),
            ret |-> r.used + n] : f \in Fresh}
          \cup IF AllocFails THEN {[buffer |-> [r EXCEPT !.head = 0], ret |-> 0]}
               ELSE {}

\* esl_buffer_zero
Zeroed(b) == [b EXCEPT !.used = 0, !.actually_used = 0, !.head = 0]

-----------------------------------------------------------------------------
(* The search for the end of a packet.                                     *)

\* Mutant of BlankAt: every line ends the packet.
BlankAtLine(b, p) == b.data[p] = "n"

\* A line ends at p and the next one, perhaps with a \r, is empty; its \n may
\* be the byte behind those in use.
BlankAt(b, p) ==
  LET pe == IF b.data[p + 1] = "r" THEN p + 2 ELSE p + 1
  IN b.data[p] = "n" /\ pe <= b.head + b.used /\ b.data[pe] = "n"

\* The address behind the blank line found at p.
Behind(b, p) == IF b.data[p + 1] = "r" THEN p + 3 ELSE p + 2

\* Mutant of esl_buffer_packet_count: the search goes on inside the blank
\* line.
PacketCountInside(b) ==
  LET e == b.head + b.used
      count[p \in b.head .. e + 2] ==
        IF p >= e \/ b.data[p] = "0" THEN 0
        ELSE IF BlankAt(b, p) THEN 1 + count[p + 1]
        ELSE count[p + 1]
  IN count[b.head]

esl_buffer_packet_count(b) ==
  LET e == b.head + b.used
      count[p \in b.head .. e + 2] ==
        IF p >= e \/ b.data[p] = "0" THEN 0
        ELSE IF BlankAt(b, p) THEN 1 + count[Behind(b, p)]
        ELSE count[p + 1]
  IN count[b.head]

\* esl_buffer_read_packet: how much it asks for.  A null byte ends the search.
PacketLen(b) ==
  LET e == b.head + b.used
      found == {p \in b.head .. e - 1 :
                  BlankAt(b, p) /\ \A a \in b.head .. p : b.data[a] # "0"}
  IN IF found = {} THEN 0
     ELSE Behind(b, CHOOSE p \in found : \A q \in found : p <= q) - b.head

-----------------------------------------------------------------------------
(* The operations as steps.                                                *)

esl_buffer_write(bytes) ==
  /\ \E w \in Written(buffer, bytes) :
       /\ w.buffer.datalen <= MaxData
       /\ buffer' = w.buffer /\ ret' = w.ret
  /\ in' = bytes
  /\ UNCHANGED out

\* A write that fails empties the buffer and is tried once more.
esl_buffer_zwrite(bytes) ==
  /\ \E w \in Written(buffer, bytes) :
       \E v \in IF w.ret = 0 THEN Written(Zeroed(w.buffer), bytes) ELSE {w} :
         /\ v.buffer.datalen <= MaxData
         /\ buffer' = v.buffer /\ ret' = v.ret
  /\ in' = bytes
  /\ UNCHANGED out

\* esl_buffer_read
Read(n) ==
  LET r == reading(buffer, n) IN
  /\ buffer' = Advanced(buffer, r)
  /\ out' = SubSeq(Using(buffer), 1, r)
  /\ ret' = r
  /\ UNCHANGED in

esl_buffer_read(n) == Read(n)

esl_buffer_read_packet(maxlen) ==
  LET len == PacketLen(buffer)
  IN Read(IF len > maxlen THEN maxlen ELSE len)

esl_buffer_toss(n) ==
  LET r == reading(buffer, n) IN
  /\ buffer' = Advanced(buffer, r)
  /\ ret' = buffer'.used
  /\ UNCHANGED <<in, out>>

\* The new position is taken from the start, but bounded by what is in use.
esl_buffer_seek(n) ==
  LET r == reading(buffer, n) IN
  /\ buffer' = IF buffer.used < 1 THEN buffer
               ELSE [buffer EXCEPT !.used = buffer.actually_used - r, !.head = r]
  /\ ret' = r
  /\ UNCHANGED <<in, out>>

esl_buffer_set_loops(loops) ==
  /\ buffer' = [buffer EXCEPT !.loops = loops]
  /\ ret' = 0
  /\ UNCHANGED <<in, out>>

\* Reads on from the start when the end is met and loops are left.  What is
\* returned then is the length of the second part.
esl_buffer_read_loop(n) ==
  LET len == reading(buffer, n)
      rest == Advanced(buffer, len)
      again == [rest EXCEPT !.head = 0, !.used = rest.actually_used]
      more == reading(again, n - len)
  IN IF len = n \/ buffer.loops = 0 THEN Read(n)
     ELSE /\ buffer' = [Advanced(again, more) EXCEPT !.loops = @ - 1]
          /\ out' = SubSeq(Using(buffer), 1, len) \o SubSeq(Using(again), 1, more)
          /\ ret' = more
          /\ UNCHANGED in

esl_buffer_zero ==
  /\ buffer' = Zeroed(buffer)
  /\ ret' = 0
  /\ UNCHANGED <<in, out>>

-----------------------------------------------------------------------------

\* What a handle does (src/esl/esl.c:1290,1344,1364,1378).
HandleNext ==
  \/ \E bytes \in Chunks : esl_buffer_write(bytes)
  \/ \E n \in Sizes : esl_buffer_read(n)
  \/ esl_buffer_read_packet(MaxData)

\* Loops count down without end; -2 is the bound.
Next ==
  \/ HandleNext
  \/ \E bytes \in Chunks : esl_buffer_zwrite(bytes)
  \/ \E n \in Sizes :
       \/ esl_buffer_toss(n)
       \/ esl_buffer_seek(n)
       \/ buffer.loops > -2 /\ esl_buffer_read_loop(n)
       \/ esl_buffer_read_packet(n)
  \/ \E loops \in {-1, 0, 1} : esl_buffer_set_loops(loops)
  \/ esl_buffer_zero

Spec == Init /\ [][Next]_vars
HandleSpec == Init /\ [][HandleNext]_vars

-----------------------------------------------------------------------------
(* Properties.                                                             *)

TypeOK ==
  /\ buffer \in [data : {buffer.data}, head : Nat, used : Nat,
                 actually_used : Nat, datalen : Nat, loops : Int]
  /\ buffer.data \in [Cells(buffer.datalen) -> Byte]
  /\ in \in Seq(Byte) /\ out \in Seq(Byte) /\ ret \in Nat

\* The bytes in use end where the writer goes on and inside the block,
\* through any mix of writes, reads, tosses, seeks, loops, compactions and
\* enlargements; it is what keeps memcpy inside the block when max_len is 0,
\* as it is in esl_connect (src/esl/esl_buffer.c:262-306).
InBounds ==
  /\ buffer.head + buffer.used = buffer.actually_used
  /\ buffer.actually_used <= buffer.datalen

\* The buffer is a tape: no operation loses, repeats or reorders bytes, also
\* when the block is compacted or enlarged, or cannot be
\* (src/esl/esl_buffer.c:132-311).
Tape == INSTANCE ByteTape WITH tape <- Kept(buffer), pos <- buffer.head
TapeSpec == Tape!Spec

\* What esl_buffer_packet_count announces is what esl_buffer_read_packet then
\* delivers, call by call: esl_recv_event_timed relies on it to skip poll
\* (src/esl/esl.c:1193; src/esl/esl_buffer.c:208-217,232-245).
CountsPackets ==
  LET left[n \in 0 .. buffer.used] ==
        LET b == Advanced(buffer, buffer.used - n)
            len == PacketLen(b)
        IN IF len = 0 THEN 0 ELSE 1 + left[n - reading(b, len)]
  IN esl_buffer_packet_count(buffer) = left[buffer.used]

\* The blank line ends at position i of s.
Blank(s, i) ==
  /\ s[i] = "n"
  /\ \/ i > 1 /\ s[i - 1] = "n"
     \/ i > 2 /\ s[i - 1] = "r" /\ s[i - 2] = "n"

\* A packet goes up to its blank line and not beyond, however the stream was
\* cut into chunks.  At most the last \n is missing, when it is the next byte
\* to come and the memory behind those in use happens to hold one: the search
\* tests pe <= e (src/esl/esl_buffer.c:232-245).
PacketEndsAtBlank ==
  [][esl_buffer_read_packet(MaxData) /\ ret' > 0 =>
       LET n == Len(out') IN
       /\ \A i \in 1 .. n - 1 : ~ Blank(out', i)
       /\ \/ Blank(out', n)
          \/ buffer'.used = 0 /\ Blank(Append(out', "n"), n + 1)]_vars
=============================================================================
