-------------------------- MODULE EslHandleProofs ---------------------------
(***************************************************************************)
(* Proofs about EslHandle, for any number of commands and events.          *)
(***************************************************************************)
EXTENDS EslHandle, SequenceTheorems, TLAPS

-----------------------------------------------------------------------------
(* Sequences of messages.                                                  *)

\* The events of s are those after d up to e at most, in their order and
\* without a gap.
Within(s, d, e) ==
  \A i \in 1 .. Len(s) : s[i].kind = "event" => s[i].no \in d + 1 .. e

Rising(s) ==
  \A i, j \in 1 .. Len(s) :
    (i < j /\ s[i].kind = "event" /\ s[j].kind = "event") => s[i].no < s[j].no

Gapless(s, d) ==
  \A i \in 1 .. Len(s) :
    (s[i].kind = "event" /\ s[i].no > d + 1) =>
      \E j \in 1 .. i - 1 : s[j] = Event(s[i].no - 1)

Ordered(s, d, e) == Within(s, d, e) /\ Rising(s) /\ Gapless(s, d)

\* All events after d up to e are in s.
Complete(s, d, e) ==
  \A n \in d + 1 .. e : \E i \in 1 .. Len(s) : s[i] = Event(n)

\* t is s without its element k.
Deleted(s, t, k) ==
  /\ k \in 1 .. Len(s) /\ Len(t) = Len(s) - 1
  /\ \A i \in 1 .. Len(t) : t[i] = IF i < k THEN s[i] ELSE s[i + 1]

\* The queue r and the wire w hold the events after d up to e in order, all
\* of them unless the connection is closed (c).
Stream(r, w, d, e, c) ==
  /\ r \in Seq(Msg) /\ w \in Seq(Msg) /\ d \in Nat /\ e \in Nat /\ d <= e
  /\ Ordered(r \o w, d, e)
  /\ ~ c => Complete(r \o w, d, e)

\* Messages have a kind and a number.
LEMMA MsgParts ==
  ASSUME NEW m \in Msg
  PROVE  /\ m.no \in Nat
         /\ m.kind \in {"event", "reply", "notice"}
         /\ m.kind = "event" => m = Event(m.no)
BY DEF Msg, Event

\* The messages FreeSWITCH sends are messages.
LEMMA MsgIsSent ==
  ASSUME NEW n \in Nat
  PROVE  /\ Event(n) \in Msg /\ Event(n).kind = "event" /\ Event(n).no = n
         /\ Reply(n) \in Msg /\ Reply(n).kind = "reply" /\ Reply(n).no = n
         /\ Notice \in Msg /\ Notice.kind = "notice"
         /\ NoMsg.no = 0 /\ Reply(n) # NoMsg /\ NoMsg \notin Msg
BY DEF Msg, Event, Reply, Notice, NoMsg

\* Taking a message that is no event out of a sequence keeps its events.
LEMMA DeletedOther ==
  ASSUME NEW s \in Seq(Msg), NEW t \in Seq(Msg), NEW k \in Nat,
         Deleted(s, t, k), s[k].kind # "event",
         NEW d \in Nat, NEW e \in Nat
  PROVE  /\ Ordered(s, d, e) => Ordered(t, d, e)
         /\ Complete(s, d, e) => Complete(t, d, e)
<1> DEFINE Old(i) == IF i < k THEN i ELSE i + 1
           New(j) == IF j < k THEN j ELSE j - 1
<1>1. Len(s) \in Nat /\ Len(t) \in Nat /\ Len(t) = Len(s) - 1
  BY LenProperties DEF Deleted
<1>2. \A i \in 1 .. Len(t) : Old(i) \in 1 .. Len(s) /\ t[i] = s[Old(i)]
  BY <1>1 DEF Deleted
<1>3. \A n \in Nat, j \in 1 .. Len(s) :
        s[j] = Event(n) => New(j) \in 1 .. Len(t) /\ t[New(j)] = Event(n)
  BY MsgIsSent DEF Deleted
<1>4. Within(s, d, e) => Within(t, d, e)
  BY <1>2 DEF Within
<1>5. \A i, j \in 1 .. Len(t) : i < j => Old(i) < Old(j)
  OBVIOUS
<1>6. Rising(s) => Rising(t)
  <2> HIDE DEF Old
  <2> QED BY <1>2, <1>5 DEF Rising
<1>7. ASSUME Within(s, d, e), Gapless(s, d) PROVE Gapless(t, d)
  <2> SUFFICES ASSUME NEW i \in 1 .. Len(t), t[i].kind = "event", t[i].no > d + 1
               PROVE  \E j \in 1 .. i - 1 : t[j] = Event(t[i].no - 1)
    BY DEF Gapless
  <2>1. Old(i) \in 1 .. Len(s) /\ t[i] = s[Old(i)] /\ t[i].no \in Nat
    BY <1>2, <1>7 DEF Within
  <2>2. PICK j \in 1 .. Old(i) - 1 : s[j] = Event(t[i].no - 1)
    <3> HIDE DEF Old
    <3> QED BY <1>7, <2>1 DEF Gapless
  <2>3. j \in 1 .. Len(s) /\ t[i].no - 1 \in Nat
    BY <1>1, <2>1, <2>2
  <2>4. j # k
    BY <2>2, <2>3, MsgIsSent
  <2>5. New(j) \in 1 .. i - 1
    BY <2>2, <2>3, <2>4 DEF Deleted
  <2> QED BY <1>3, <2>2, <2>3, <2>5
<1>8. ASSUME Complete(s, d, e) PROVE Complete(t, d, e)
  <2> SUFFICES ASSUME NEW n \in d + 1 .. e
               PROVE  \E i \in 1 .. Len(t) : t[i] = Event(n)
    BY DEF Complete
  <2>1. PICK j \in 1 .. Len(s) : s[j] = Event(n)
    BY <1>8 DEF Complete
  <2> QED BY <1>3, <2>1
<1> QED BY <1>4, <1>6, <1>7, <1>8 DEF Ordered

\* The first event is the next one; without it the next one is first.
LEMMA DeletedFirst ==
  ASSUME NEW s \in Seq(Msg), NEW t \in Seq(Msg),
         Deleted(s, t, 1), s[1].kind = "event",
         NEW d \in Nat, NEW e \in Nat, Ordered(s, d, e)
  PROVE  /\ s[1].no = d + 1 /\ d + 1 <= e
         /\ Ordered(t, d + 1, e)
         /\ Complete(s, d, e) => Complete(t, d + 1, e)
<1>1. Len(s) \in Nat /\ Len(t) \in Nat /\ Len(t) = Len(s) - 1
  BY LenProperties DEF Deleted
<1>2. s[1].no = d + 1 /\ d + 1 <= e
  BY <1>1 DEF Ordered, Within, Gapless
<1>3. \A i \in 1 .. Len(t) : i + 1 \in 1 .. Len(s) /\ t[i] = s[i + 1]
  BY <1>1 DEF Deleted
<1>4. \A j \in 1 .. Len(s) : \A n \in Nat :
        s[j] = Event(n) /\ n # d + 1 => j - 1 \in 1 .. Len(t) /\ t[j - 1] = Event(n)
  BY <1>2, <1>3, MsgIsSent DEF Deleted
<1>5. Within(t, d + 1, e)
  <2> SUFFICES ASSUME NEW i \in 1 .. Len(t), t[i].kind = "event"
               PROVE  t[i].no \in d + 1 + 1 .. e
    BY DEF Within
  <2>1. t[i] = s[i + 1] /\ i + 1 \in 1 .. Len(s) /\ 1 \in 1 .. Len(s) /\ 1 < i + 1
    BY <1>1, <1>3
  <2>2. t[i].no \in d + 1 .. e
    BY <2>1 DEF Ordered, Within
  <2>3. s[1].no < t[i].no
    BY <2>1 DEF Ordered, Rising
  <2> QED BY <1>2, <2>2, <2>3
<1>6. Rising(t)
  <2> SUFFICES ASSUME NEW i \in 1 .. Len(t), NEW j \in 1 .. Len(t), i < j,
                      t[i].kind = "event", t[j].kind = "event"
               PROVE  t[i].no < t[j].no
    BY DEF Rising
  <2>1. i + 1 < j + 1
    BY <1>1
  <2>2. s[i + 1].no < s[j + 1].no
    BY <1>3, <2>1 DEF Ordered, Rising
  <2> QED BY <1>3, <2>2
<1>7. Gapless(t, d + 1)
  <2> SUFFICES ASSUME NEW i \in 1 .. Len(t), t[i].kind = "event",
                      t[i].no > d + 1 + 1
               PROVE  \E j \in 1 .. i - 1 : t[j] = Event(t[i].no - 1)
    BY DEF Gapless
  <2>1. t[i].no \in Nat
    BY <1>5 DEF Within
  <2>0. /\ i + 1 \in 1 .. Len(s) /\ t[i] = s[i + 1] /\ i + 1 - 1 = i
        /\ s[i + 1].no > d + 1
    BY <1>3, <2>1
  <2>2. PICK j \in 1 .. i : s[j] = Event(t[i].no - 1)
    BY <2>0 DEF Ordered, Gapless
  <2>3. j \in 1 .. Len(s) /\ t[i].no - 1 \in Nat /\ t[i].no - 1 # d + 1
    BY <1>1, <2>1, <2>2
  <2>4. j - 1 \in 1 .. Len(t) /\ t[j - 1] = Event(t[i].no - 1)
    BY <1>4, <2>2, <2>3
  <2> QED BY <2>2, <2>4
<1>8. ASSUME Complete(s, d, e) PROVE Complete(t, d + 1, e)
  <2> SUFFICES ASSUME NEW n \in d + 1 + 1 .. e
               PROVE  \E i \in 1 .. Len(t) : t[i] = Event(n)
    BY DEF Complete
  <2>1. n \in Nat /\ n # d + 1 /\ n \in d + 1 .. e
    OBVIOUS
  <2>2. PICK j \in 1 .. Len(s) : s[j] = Event(n)
    BY <1>8, <2>1 DEF Complete
  <2>3. j - 1 \in 1 .. Len(t) /\ t[j - 1] = Event(n)
    BY <1>4, <2>1, <2>2
  <2> QED BY <2>3
<1> QED BY <1>2, <1>5, <1>6, <1>7, <1>8 DEF Ordered

\* A new event goes behind all the others.
LEMMA AppendedEvent ==
  ASSUME NEW s \in Seq(Msg), NEW d \in Nat, NEW e \in Nat, d <= e,
         Ordered(s, d, e), Complete(s, d, e)
  PROVE  /\ Ordered(Append(s, Event(e + 1)), d, e + 1)
         /\ Complete(Append(s, Event(e + 1)), d, e + 1)
<1> DEFINE t == Append(s, Event(e + 1))
<1>1. /\ Len(t) = Len(s) + 1 /\ Len(s) \in Nat
      /\ \A i \in 1 .. Len(s) : t[i] = s[i]
      /\ t[Len(s) + 1] = Event(e + 1)
  BY MsgIsSent, AppendProperties, LenProperties
<1>2. t[Len(s) + 1].no = e + 1
  BY <1>1, MsgIsSent
<1> HIDE DEF t
<1>3. Within(t, d, e + 1)
  BY <1>1, <1>2 DEF Ordered, Within
<1>4. Rising(t)
  <2> SUFFICES ASSUME NEW i \in 1 .. Len(t), NEW j \in 1 .. Len(t), i < j,
                      t[i].kind = "event", t[j].kind = "event"
               PROVE  t[i].no < t[j].no
    BY DEF Rising
  <2>1. i \in 1 .. Len(s) /\ t[i] = s[i]
    BY <1>1
  <2>2. CASE j \in 1 .. Len(s)
    <3>1. t[j] = s[j]
      BY <1>1, <2>2
    <3> QED BY <2>1, <2>2, <3>1 DEF Ordered, Rising
  <2>3. CASE j = Len(s) + 1
    <3>1. t[i].no \in d + 1 .. e
      BY <2>1 DEF Ordered, Within
    <3> QED BY <1>2, <2>3, <3>1
  <2> QED BY <1>1, <2>2, <2>3
<1>5. Gapless(t, d)
  <2> SUFFICES ASSUME NEW i \in 1 .. Len(t), t[i].kind = "event", t[i].no > d + 1
               PROVE  \E j \in 1 .. i - 1 : t[j] = Event(t[i].no - 1)
    BY DEF Gapless
  <2>1. CASE i <= Len(s)
    <3>1. PICK j \in 1 .. i - 1 : s[j] = Event(t[i].no - 1)
      BY <1>1, <2>1 DEF Ordered, Gapless
    <3> QED BY <1>1, <2>1, <3>1
  <2>2. CASE i = Len(s) + 1
    <3>1. PICK j \in 1 .. Len(s) : s[j] = Event(e)
      BY <1>2, <2>2 DEF Complete
    <3>2. t[i].no - 1 = e /\ t[j] = s[j] /\ j \in 1 .. i - 1
      BY <1>1, <1>2, <2>2, <3>1
    <3> QED BY <3>1, <3>2
  <2> QED BY <1>1, <2>1, <2>2
<1>6. Complete(t, d, e + 1)
  <2> SUFFICES ASSUME NEW n \in d + 1 .. e + 1
               PROVE  \E i \in 1 .. Len(t) : t[i] = Event(n)
    BY DEF Complete
  <2>1. CASE n = e + 1
    BY <1>1, <2>1
  <2>2. CASE n \in d + 1 .. e
    <3>1. PICK i \in 1 .. Len(s) : s[i] = Event(n)
      BY <2>2 DEF Complete
    <3> QED BY <1>1, <3>1
  <2> QED BY <2>1, <2>2
<1> QED BY <1>3, <1>4, <1>5, <1>6 DEF t, Ordered

\* A message that is no event changes nothing.
LEMMA AppendedOther ==
  ASSUME NEW s \in Seq(Msg), NEW d \in Nat, NEW e \in Nat,
         NEW m \in Msg, m.kind # "event"
  PROVE  /\ Ordered(s, d, e) => Ordered(Append(s, m), d, e)
         /\ Complete(s, d, e) => Complete(Append(s, m), d, e)
<1> DEFINE t == Append(s, m)
<1>1. /\ Len(t) = Len(s) + 1 /\ Len(s) \in Nat
      /\ \A i \in 1 .. Len(s) : t[i] = s[i]
      /\ t[Len(s) + 1] = m
  BY AppendProperties, LenProperties
<1> HIDE DEF t
<1>2. \A i \in 1 .. Len(t) : t[i].kind = "event" => i \in 1 .. Len(s) /\ t[i] = s[i]
  BY <1>1
<1>3. Within(s, d, e) => Within(t, d, e)
  BY <1>2 DEF Within
<1>4. Rising(s) => Rising(t)
  BY <1>2 DEF Rising
<1>5. Gapless(s, d) => Gapless(t, d)
  <2> SUFFICES ASSUME Gapless(s, d),
                      NEW i \in 1 .. Len(t), t[i].kind = "event", t[i].no > d + 1
               PROVE  \E j \in 1 .. i - 1 : t[j] = Event(t[i].no - 1)
    BY DEF Gapless
  <2>1. PICK j \in 1 .. i - 1 : s[j] = Event(t[i].no - 1)
    BY <1>2 DEF Gapless
  <2> QED BY <1>1, <1>2, <2>1
<1>6. Complete(s, d, e) => Complete(t, d, e)
  BY <1>1 DEF Complete
<1> QED BY <1>3, <1>4, <1>5, <1>6 DEF t, Ordered

\* The beginning of an ordered sequence is ordered.
LEMMA OrderedPrefix ==
  ASSUME NEW s \in Seq(Msg), NEW t \in Seq(Msg), Len(t) <= Len(s),
         \A i \in 1 .. Len(t) : t[i] = s[i],
         NEW d \in Nat, NEW e \in Nat, Ordered(s, d, e)
  PROVE  Ordered(t, d, e)
<1>1. Len(s) \in Nat /\ Len(t) \in Nat
  BY LenProperties
<1>2. \A i \in 1 .. Len(t) : i \in 1 .. Len(s) /\ t[i] = s[i]
  BY <1>1
<1>4. Within(t, d, e)
  BY <1>2 DEF Ordered, Within
<1>5. Rising(t)
  BY <1>2 DEF Ordered, Rising
<1>3. Gapless(t, d)
  <2> SUFFICES ASSUME NEW i \in 1 .. Len(t), t[i].kind = "event", t[i].no > d + 1
               PROVE  \E j \in 1 .. i - 1 : t[j] = Event(t[i].no - 1)
    BY DEF Gapless
  <2>1. PICK j \in 1 .. i - 1 : s[j] = Event(t[i].no - 1)
    BY <1>1 DEF Ordered, Gapless
  <2> QED BY <1>1, <2>1
<1> QED BY <1>3, <1>4, <1>5 DEF Ordered
-----------------------------------------------------------------------------
(* The queue and the wire.                                                 *)

\* What is left of the stream when its message k, no event, is gone.
LEMMA StreamWithout ==
  ASSUME NEW r, NEW w, NEW d, NEW e, NEW c, Stream(r, w, d, e, c),
         NEW q \in Seq(Msg), NEW v \in Seq(Msg), NEW k \in Nat,
         Deleted(r \o w, q \o v, k), (r \o w)[k].kind # "event"
  PROVE  Stream(q, v, d, e, c)
<1>1. r \o w \in Seq(Msg) /\ q \o v \in Seq(Msg)
  BY ConcatProperties DEF Stream
<1> QED BY <1>1, DeletedOther DEF Stream

\* What is left of the stream when its first message, an event, has been
\* dispatched: it was the next one.
LEMMA StreamDispatched ==
  ASSUME NEW r, NEW w, NEW d, NEW e, NEW c, Stream(r, w, d, e, c),
         NEW q \in Seq(Msg), NEW v \in Seq(Msg),
         Deleted(r \o w, q \o v, 1), (r \o w)[1].kind = "event"
  PROVE  /\ (r \o w)[1].no = d + 1 /\ d + 1 <= e
         /\ Stream(q, v, d + 1, e, c)
<1>1. r \o w \in Seq(Msg) /\ q \o v \in Seq(Msg)
  BY ConcatProperties DEF Stream
<1>2. (r \o w)[1].no = d + 1 /\ d + 1 <= e /\ Ordered(q \o v, d + 1, e)
      /\ (Complete(r \o w, d, e) => Complete(q \o v, d + 1, e))
  BY <1>1, DeletedFirst DEF Stream
<1> QED BY <1>2 DEF Stream

\* The head of the queue is the first message.
LEMMA HeadOfQueue ==
  ASSUME NEW r \in Seq(Msg), NEW w \in Seq(Msg), r # <<>>
  PROVE  /\ Tail(r) \in Seq(Msg) /\ Head(r) \in Msg
         /\ Deleted(r \o w, Tail(r) \o w, 1)
         /\ Head(r) = (r \o w)[1]
<1>1. Len(r) \in Nat \ {0} /\ Len(w) \in Nat
  BY EmptySeq, LenProperties
<1>2. /\ Tail(r) \in Seq(Msg) /\ Head(r) \in Msg /\ Head(r) = r[1]
      /\ Len(Tail(r)) = Len(r) - 1
      /\ \A i \in 1 .. Len(Tail(r)) : Tail(r)[i] = r[i + 1]
  BY HeadTailProperties
<1>3. /\ Len(r \o w) = Len(r) + Len(w)
      /\ \A i \in 1 .. Len(r) + Len(w) :
           (r \o w)[i] = IF i <= Len(r) THEN r[i] ELSE w[i - Len(r)]
  BY ConcatProperties
<1>4. /\ Len(Tail(r) \o w) = Len(r) - 1 + Len(w)
      /\ \A i \in 1 .. Len(r) - 1 + Len(w) :
           (Tail(r) \o w)[i] =
             IF i <= Len(r) - 1 THEN Tail(r)[i] ELSE w[i - (Len(r) - 1)]
  BY <1>2, ConcatProperties
<1>5. \A i \in 1 .. Len(r) - 1 + Len(w) : (Tail(r) \o w)[i] = (r \o w)[i + 1]
  <2> SUFFICES ASSUME NEW i \in 1 .. Len(r) - 1 + Len(w)
               PROVE  (Tail(r) \o w)[i] = (r \o w)[i + 1]
    OBVIOUS
  <2>1. CASE i <= Len(r) - 1
    BY <1>1, <1>2, <1>3, <1>4, <2>1
  <2>2. CASE i > Len(r) - 1
    <3>1. i - (Len(r) - 1) = i + 1 - Len(r) /\ ~ i + 1 <= Len(r)
          /\ i + 1 \in 1 .. Len(r) + Len(w)
      BY <1>1, <2>2
    <3> QED BY <1>1, <1>3, <1>4, <2>2, <3>1
  <2> QED BY <1>1, <2>1, <2>2
<1> QED BY <1>1, <1>2, <1>3, <1>4, <1>5 DEF Deleted

\* The head of the wire is the first message after the queue.
LEMMA HeadOfWire ==
  ASSUME NEW r \in Seq(Msg), NEW w \in Seq(Msg), w # <<>>
  PROVE  /\ Tail(w) \in Seq(Msg) /\ Head(w) \in Msg
         /\ Deleted(r \o w, r \o Tail(w), Len(r) + 1)
         /\ Head(w) = (r \o w)[Len(r) + 1]
<1>1. Len(w) \in Nat \ {0} /\ Len(r) \in Nat
  BY EmptySeq, LenProperties
<1>2. /\ Tail(w) \in Seq(Msg) /\ Head(w) \in Msg /\ Head(w) = w[1]
      /\ Len(Tail(w)) = Len(w) - 1
      /\ \A i \in 1 .. Len(Tail(w)) : Tail(w)[i] = w[i + 1]
  BY HeadTailProperties
<1>3. /\ Len(r \o w) = Len(r) + Len(w)
      /\ \A i \in 1 .. Len(r) + Len(w) :
           (r \o w)[i] = IF i <= Len(r) THEN r[i] ELSE w[i - Len(r)]
  BY ConcatProperties
<1>4. /\ Len(r \o Tail(w)) = Len(r) + Len(w) - 1
      /\ \A i \in 1 .. Len(r) + Len(w) - 1 :
           (r \o Tail(w))[i] = IF i <= Len(r) THEN r[i] ELSE Tail(w)[i - Len(r)]
  BY <1>1, <1>2, ConcatProperties
<1>5. \A i \in 1 .. Len(r) + Len(w) - 1 :
        (r \o Tail(w))[i] = IF i < Len(r) + 1 THEN (r \o w)[i] ELSE (r \o w)[i + 1]
  <2> SUFFICES ASSUME NEW i \in 1 .. Len(r) + Len(w) - 1
               PROVE  (r \o Tail(w))[i] =
                        IF i < Len(r) + 1 THEN (r \o w)[i] ELSE (r \o w)[i + 1]
    OBVIOUS
  <2>1. CASE i <= Len(r)
    BY <1>1, <1>3, <1>4, <2>1
  <2>2. CASE i > Len(r)
    <3>1. i - Len(r) \in 1 .. Len(Tail(w)) /\ (i - Len(r)) + 1 = i + 1 - Len(r)
          /\ ~ i + 1 <= Len(r) /\ i + 1 \in 1 .. Len(r) + Len(w)
          /\ ~ i <= Len(r) /\ ~ i < Len(r) + 1
      BY <1>1, <1>2, <2>2
    <3>2. (r \o Tail(w))[i] = w[i + 1 - Len(r)]
      BY <1>2, <1>4, <3>1
    <3>3. (r \o w)[i + 1] = w[i + 1 - Len(r)]
      BY <1>3, <3>1
    <3> QED BY <3>1, <3>2, <3>3
  <2> QED BY <1>1, <2>1, <2>2
<1>6. (r \o w)[Len(r) + 1] = w[1]
  <2>1. Len(r) + 1 \in 1 .. Len(r) + Len(w) /\ ~ Len(r) + 1 <= Len(r)
        /\ Len(r) + 1 - Len(r) = 1
    BY <1>1
  <2> QED BY <1>3, <2>1
<1> QED BY <1>1, <1>2, <1>3, <1>4, <1>5, <1>6 DEF Deleted

\* A message that moves from the wire to the end of the queue keeps its place.
LEMMA StreamQueued ==
  ASSUME NEW r, NEW w, NEW d, NEW e, NEW c, Stream(r, w, d, e, c), w # <<>>
  PROVE  Stream(Append(r, Head(w)), Tail(w), d, e, c)
<1>1. /\ r \in Seq(Msg) /\ w \in Seq(Msg) /\ Len(r) \in Nat /\ Len(w) \in Nat \ {0}
      /\ Tail(w) \in Seq(Msg) /\ Head(w) \in Msg /\ Head(w) = w[1]
      /\ Len(Tail(w)) = Len(w) - 1
      /\ \A i \in 1 .. Len(Tail(w)) : Tail(w)[i] = w[i + 1]
  BY HeadTailProperties, EmptySeq, LenProperties DEF Stream
<1> DEFINE q == Append(r, Head(w))
<1>2. /\ q \in Seq(Msg) /\ Len(q) = Len(r) + 1
      /\ \A i \in 1 .. Len(r) : q[i] = r[i]
      /\ q[Len(r) + 1] = w[1]
  BY <1>1, AppendProperties
<1> HIDE DEF q
<1>3. /\ r \o w \in Seq(Msg) /\ Len(r \o w) = Len(r) + Len(w)
      /\ \A i \in 1 .. Len(r) + Len(w) :
           (r \o w)[i] = IF i <= Len(r) THEN r[i] ELSE w[i - Len(r)]
  BY <1>1, ConcatProperties
<1>4. /\ q \o Tail(w) \in Seq(Msg) /\ Len(q \o Tail(w)) = Len(q) + Len(Tail(w))
      /\ \A i \in 1 .. Len(q) + Len(Tail(w)) :
           (q \o Tail(w))[i] = IF i <= Len(q) THEN q[i] ELSE Tail(w)[i - Len(q)]
  BY <1>1, <1>2, ConcatProperties
<1>5. ASSUME NEW i \in 1 .. Len(r) + Len(w)
      PROVE  (q \o Tail(w))[i] = (r \o w)[i]
  <2>0. i \in 1 .. Len(q) + Len(Tail(w))
    BY <1>1, <1>2
  <2>1. CASE i <= Len(r)
    <3>1. i \in 1 .. Len(r) /\ i <= Len(q)
      BY <1>1, <1>2, <2>1
    <3>2. (q \o Tail(w))[i] = q[i]
      BY <1>4, <2>0, <3>1
    <3>3. (r \o w)[i] = r[i]
      BY <1>3, <3>1
    <3> QED BY <1>2, <3>1, <3>2, <3>3
  <2>2. CASE i = Len(r) + 1
    <3>1. i - Len(r) = 1 /\ ~ i <= Len(r) /\ i <= Len(q)
      BY <1>1, <1>2, <2>2
    <3>2. (q \o Tail(w))[i] = q[Len(r) + 1]
      BY <1>4, <2>0, <2>2, <3>1
    <3>3. (r \o w)[i] = w[1]
      BY <1>3, <2>2, <3>1
    <3> QED BY <1>2, <3>2, <3>3
  <2>3. CASE i > Len(r) + 1
    <3>1. i - Len(q) \in 1 .. Len(Tail(w)) /\ (i - Len(q)) + 1 = i - Len(r)
          /\ ~ i <= Len(q) /\ ~ i <= Len(r)
      BY <1>1, <1>2, <2>3
    <3>2. (q \o Tail(w))[i] = Tail(w)[i - Len(q)]
      BY <1>4, <2>0, <3>1
    <3>3. Tail(w)[i - Len(q)] = w[i - Len(r)]
      BY <1>1, <3>1
    <3>4. (r \o w)[i] = w[i - Len(r)]
      BY <1>3, <3>1
    <3> QED BY <3>2, <3>3, <3>4
  <2>4. i <= Len(r) \/ i = Len(r) + 1 \/ i > Len(r) + 1
    BY <1>1
  <2> QED BY <2>1, <2>2, <2>3, <2>4
<1>6. q \o Tail(w) = r \o w
  <2>1. Len(q \o Tail(w)) = Len(r \o w)
    BY <1>1, <1>2, <1>3, <1>4
  <2> QED BY <1>3, <1>4, <1>5, <2>1, SeqEqual
<1> QED BY <1>1, <1>2, <1>6 DEF Stream, q

\* A message sent goes to the end of the stream.
LEMMA StreamSent ==
  ASSUME NEW r \in Seq(Msg), NEW w \in Seq(Msg), NEW m \in Msg
  PROVE  Append(w, m) \in Seq(Msg) /\ r \o Append(w, m) = Append(r \o w, m)
<1>1. Append(w, m) = w \o <<m>> /\ <<m>> \in Seq(Msg) /\ Append(w, m) \in Seq(Msg)
  BY AppendProperties
<1>2. r \o w \in Seq(Msg)
  BY ConcatProperties
<1>3. Append(r \o w, m) = (r \o w) \o <<m>>
  BY <1>2, AppendProperties
<1> QED BY <1>1, <1>3, ConcatAssociative

\* The peer emits the next event.
LEMMA StreamEmitted ==
  ASSUME NEW r, NEW w, NEW d, NEW e, NEW c, Stream(r, w, d, e, c), ~ c
  PROVE  Stream(r, Append(w, Event(e + 1)), d, e + 1, c)
<1>1. r \in Seq(Msg) /\ w \in Seq(Msg) /\ Event(e + 1) \in Msg /\ r \o w \in Seq(Msg)
  BY MsgIsSent, ConcatProperties DEF Stream
<1>2. /\ d \in Nat /\ e \in Nat /\ d <= e /\ Ordered(r \o w, d, e)
      /\ Complete(r \o w, d, e)
  BY DEF Stream
<1>3. /\ Ordered(Append(r \o w, Event(e + 1)), d, e + 1)
      /\ Complete(Append(r \o w, Event(e + 1)), d, e + 1)
  BY <1>1, <1>2, AppendedEvent
<1>4. Append(w, Event(e + 1)) \in Seq(Msg)
      /\ r \o Append(w, Event(e + 1)) = Append(r \o w, Event(e + 1))
  BY <1>1, <1>2, MsgIsSent, StreamSent
<1>5. e + 1 \in Nat /\ d <= e + 1
  BY <1>2
<1> QED BY <1>1, <1>2, <1>3, <1>4, <1>5 DEF Stream

\* The peer sends something else.
LEMMA StreamExtended ==
  ASSUME NEW r, NEW w, NEW d, NEW e, NEW c, Stream(r, w, d, e, c),
         NEW m \in Msg, m.kind # "event"
  PROVE  Stream(r, Append(w, m), d, e, c)
<1>1. r \in Seq(Msg) /\ w \in Seq(Msg) /\ r \o w \in Seq(Msg)
  BY ConcatProperties DEF Stream
<1>2. Append(w, m) \in Seq(Msg) /\ r \o Append(w, m) = Append(r \o w, m)
  BY <1>1, StreamSent
<1>3. /\ d \in Nat /\ e \in Nat /\ d <= e /\ Ordered(r \o w, d, e)
      /\ ~ c => Complete(r \o w, d, e)
  BY DEF Stream
<1>4. /\ Ordered(Append(r \o w, m), d, e)
      /\ ~ c => Complete(Append(r \o w, m), d, e)
  BY <1>1, <1>3, AppendedOther
<1> QED BY <1>1, <1>2, <1>3, <1>4 DEF Stream

\* The beginning of a sequence of messages.
LEMMA Prefix ==
  ASSUME NEW w \in Seq(Msg), NEW k \in 0 .. Len(w)
  PROVE  /\ SubSeq(w, 1, k) \in Seq(Msg) /\ Len(SubSeq(w, 1, k)) = k
         /\ \A i \in 1 .. k : SubSeq(w, 1, k)[i] = w[i]
<1>1. Len(w) \in Nat /\ k \in Int /\ \A i \in 1 .. k : w[i] \in Msg
  BY LenProperties, ElementOfSeq
<1> DEFINE v == SubSeq(w, 1, k)
<1>2. /\ v \in Seq(Msg) /\ Len(v) = (IF 1 <= k THEN k - 1 + 1 ELSE 0)
      /\ \A i \in 1 .. k - 1 + 1 : v[i] = w[1 + i - 1]
  BY <1>1, SubSeqProperties
<1> HIDE DEF v
<1>3. v \in Seq(Msg) /\ Len(v) = k /\ \A i \in 1 .. k : v[i] = w[i]
  BY <1>1, <1>2
<1> QED BY <1>3 DEF v

\* The connection is closed, which costs the end of the wire.
LEMMA StreamCut ==
  ASSUME NEW r, NEW w, NEW d, NEW e, NEW c, Stream(r, w, d, e, c),
         NEW k \in 0 .. Len(w)
  PROVE  Stream(r, SubSeq(w, 1, k), d, e, TRUE)
<1> DEFINE v == SubSeq(w, 1, k)
<1>1. r \in Seq(Msg) /\ w \in Seq(Msg) /\ Len(r) \in Nat /\ Len(w) \in Nat /\ k \in Nat
  BY LenProperties DEF Stream
<1>2. v \in Seq(Msg) /\ Len(v) = k /\ \A i \in 1 .. k : v[i] = w[i]
  BY <1>1, Prefix
<1> HIDE DEF v
<1>3. /\ r \o w \in Seq(Msg) /\ Len(r \o w) = Len(r) + Len(w)
      /\ \A i \in 1 .. Len(r) + Len(w) :
           (r \o w)[i] = IF i <= Len(r) THEN r[i] ELSE w[i - Len(r)]
  BY <1>1, ConcatProperties
<1>4. /\ r \o v \in Seq(Msg) /\ Len(r \o v) = Len(r) + Len(v)
      /\ \A i \in 1 .. Len(r) + Len(v) :
           (r \o v)[i] = IF i <= Len(r) THEN r[i] ELSE v[i - Len(r)]
  BY <1>1, <1>2, ConcatProperties
<1>5. \A i \in 1 .. Len(r \o v) : (r \o v)[i] = (r \o w)[i]
  BY <1>1, <1>2, <1>3, <1>4
<1>6. Ordered(r \o v, d, e)
  <2>1. d \in Nat /\ e \in Nat /\ Ordered(r \o w, d, e)
    BY DEF Stream
  <2>2. Len(r \o v) <= Len(r \o w)
    BY <1>1, <1>2, <1>3, <1>4
  <2> QED BY <1>3, <1>4, <1>5, <2>1, <2>2, OrderedPrefix
<1> QED BY <1>2, <1>6 DEF Stream, v

\* Nothing is left after a disconnect.
LEMMA StreamEmpty ==
  ASSUME NEW d \in Nat, NEW e \in Nat, d <= e, NEW c, c \/ d = e
  PROVE  Stream(<<>>, <<>>, d, e, c)
<1>1. <<>> \in Seq(Msg) /\ Len(<<>>) = 0 /\ <<>> \o <<>> = <<>>
  BY EmptySeq, ConcatEmptySeq
<1> QED BY <1>1 DEF Stream, Ordered, Within, Rising, Gapless, Complete
-----------------------------------------------------------------------------
(* Replies on the wire.                                                    *)

\* The replies among w answer one of the first n commands.
Numbered(w, n) ==
  \A i \in 1 .. Len(w) : w[i].kind = "reply" => w[i].no \in 1 .. n

NoReply(w) == \A i \in 1 .. Len(w) : w[i].kind # "reply"

\* There is at most one reply among w, the one to command n.
OneReply(w, n) ==
  \A i \in 1 .. Len(w) : w[i].kind = "reply" =>
    /\ w[i].no = n
    /\ \A j \in i + 1 .. Len(w) : w[j].kind # "reply"

\* The first message is taken off the wire.
LEMMA RepliesTaken ==
  ASSUME NEW w \in Seq(Msg), w # <<>>, NEW n \in Nat
  PROVE  /\ Numbered(w, n) => Numbered(Tail(w), n)
         /\ NoReply(w) => NoReply(Tail(w))
         /\ OneReply(w, n) => OneReply(Tail(w), n)
         /\ Head(w).kind = "reply" => /\ Numbered(w, n) => Head(w).no \in 1 .. n
                                      /\ ~ NoReply(w)
                                      /\ OneReply(w, n) => /\ Head(w).no = n
                                                           /\ NoReply(Tail(w))
<1> DEFINE v == Tail(w)
<1>1. Len(w) \in Nat \ {0} /\ Len(v) = Len(w) - 1 /\ Head(w) = w[1]
  BY EmptySeq, HeadTailProperties
<1>2. \A i \in 1 .. Len(v) : v[i] = w[i + 1] /\ i + 1 \in 2 .. Len(w)
  BY <1>1, HeadTailProperties
<1>3. 1 \in 1 .. Len(w) /\ \A i \in 2 .. Len(w) : i \in 1 .. Len(w)
  BY <1>1
<1> HIDE DEF v
<1>4. Numbered(w, n) => Numbered(v, n)
  BY <1>2, <1>3 DEF Numbered
<1>5. NoReply(w) => NoReply(v)
  BY <1>2, <1>3 DEF NoReply
<1>6. ASSUME OneReply(w, n) PROVE OneReply(v, n)
  <2> SUFFICES ASSUME NEW i \in 1 .. Len(v), v[i].kind = "reply"
               PROVE  /\ v[i].no = n
                      /\ \A j \in i + 1 .. Len(v) : v[j].kind # "reply"
    BY DEF OneReply
  <2>1. \A j \in i + 1 .. Len(v) : j \in 1 .. Len(v) /\ j + 1 \in i + 1 + 1 .. Len(w)
    BY <1>1
  <2> QED BY <1>2, <1>3, <1>6, <2>1 DEF OneReply
<1>7. ASSUME Head(w).kind = "reply"
      PROVE  /\ Numbered(w, n) => Head(w).no \in 1 .. n
             /\ ~ NoReply(w)
             /\ OneReply(w, n) => Head(w).no = n /\ NoReply(v)
  BY <1>1, <1>2, <1>3, <1>7 DEF Numbered, NoReply, OneReply
<1> QED BY <1>4, <1>5, <1>6, <1>7 DEF v

\* A message is sent.
LEMMA RepliesSent ==
  ASSUME NEW w \in Seq(Msg), NEW m \in Msg, NEW n \in Nat
  PROVE  /\ m.kind # "reply" =>
              /\ Numbered(w, n) => Numbered(Append(w, m), n)
              /\ NoReply(w) => NoReply(Append(w, m))
              /\ OneReply(w, n) => OneReply(Append(w, m), n)
         /\ m = Reply(n + 1) =>
              /\ Numbered(w, n) => Numbered(Append(w, m), n + 1)
              /\ NoReply(w) => OneReply(Append(w, m), n + 1)
<1> DEFINE v == Append(w, m)
<1>1. /\ Len(v) = Len(w) + 1 /\ Len(w) \in Nat
      /\ \A i \in 1 .. Len(w) : v[i] = w[i]
      /\ v[Len(w) + 1] = m
  BY AppendProperties, LenProperties
<1> HIDE DEF v
<1>2. \A i \in 1 .. Len(v) : i \in 1 .. Len(w) \/ i = Len(w) + 1
  BY <1>1
<1>3. ASSUME m.kind # "reply"
      PROVE  /\ Numbered(w, n) => Numbered(v, n)
             /\ NoReply(w) => NoReply(v)
             /\ OneReply(w, n) => OneReply(v, n)
  <2>1. \A i \in 1 .. Len(v) : v[i].kind = "reply" => i \in 1 .. Len(w) /\ v[i] = w[i]
    BY <1>1, <1>2, <1>3
  <2>2. (Numbered(w, n) => Numbered(v, n)) /\ (NoReply(w) => NoReply(v))
    BY <2>1 DEF Numbered, NoReply
  <2>3. ASSUME OneReply(w, n) PROVE OneReply(v, n)
    <3> SUFFICES ASSUME NEW i \in 1 .. Len(v), v[i].kind = "reply"
                 PROVE  /\ v[i].no = n
                        /\ \A j \in i + 1 .. Len(v) : v[j].kind # "reply"
      BY DEF OneReply
    <3>1. /\ w[i].no = n
          /\ \A j \in i + 1 .. Len(w) : w[j].kind # "reply"
      BY <2>1, <2>3 DEF OneReply
    <3>2. ASSUME NEW j \in i + 1 .. Len(v) PROVE v[j].kind # "reply"
      <4>1. j \in 1 .. Len(v) /\ (j \in 1 .. Len(w) => j \in i + 1 .. Len(w))
        BY <1>1
      <4> QED BY <2>1, <3>1, <4>1
    <3> QED BY <2>1, <3>1, <3>2
  <2> QED BY <2>2, <2>3
<1>4. ASSUME m = Reply(n + 1)
      PROVE  /\ Numbered(w, n) => Numbered(v, n + 1)
             /\ NoReply(w) => OneReply(v, n + 1)
  <2>1. m.no = n + 1
    BY <1>4, MsgIsSent
  <2>2. Numbered(w, n) => Numbered(v, n + 1)
    BY <1>1, <1>2, <2>1 DEF Numbered
  <2>3. ASSUME NoReply(w), NEW i \in 1 .. Len(v), v[i].kind = "reply"
        PROVE  i = Len(w) + 1 /\ v[i].no = n + 1
    BY <1>1, <1>2, <2>1, <2>3 DEF NoReply
  <2>4. Len(w) + 1 + 1 .. Len(v) = {}
    BY <1>1
  <2> QED BY <2>2, <2>3, <2>4 DEF OneReply
<1> QED BY <1>3, <1>4 DEF v

\* The end of the wire is lost.
LEMMA RepliesCut ==
  ASSUME NEW w \in Seq(Msg), NEW k \in 0 .. Len(w), NEW n \in Nat
  PROVE  /\ Numbered(w, n) => Numbered(SubSeq(w, 1, k), n)
         /\ NoReply(w) => NoReply(SubSeq(w, 1, k))
         /\ OneReply(w, n) => OneReply(SubSeq(w, 1, k), n)
<1> DEFINE v == SubSeq(w, 1, k)
<1>1. Len(v) = k /\ \A i \in 1 .. k : v[i] = w[i]
  BY Prefix
<1>2. Len(w) \in Nat /\ \A i \in 1 .. k : i \in 1 .. Len(w)
  BY LenProperties
<1> HIDE DEF v
<1>3. (Numbered(w, n) => Numbered(v, n)) /\ (NoReply(w) => NoReply(v))
  BY <1>1, <1>2 DEF Numbered, NoReply
<1>4. ASSUME OneReply(w, n) PROVE OneReply(v, n)
  <2> SUFFICES ASSUME NEW i \in 1 .. Len(v), v[i].kind = "reply"
               PROVE  /\ v[i].no = n
                      /\ \A j \in i + 1 .. Len(v) : v[j].kind # "reply"
    BY DEF OneReply
  <2>1. \A j \in i + 1 .. Len(v) : j \in 1 .. k /\ j \in i + 1 .. Len(w)
    BY <1>1, <1>2
  <2> QED BY <1>1, <1>2, <1>4, <2>1 DEF OneReply
<1> QED BY <1>3, <1>4 DEF v

-----------------------------------------------------------------------------
(* The inductive invariant.                                                *)

\* A command waits for its reply.
Busy == pc \in {"recv", "sr_read"}

\* Queue and wire hold the events to come.
Flow == Stream(race_event, wire, dispatched, emitted, closed)

\* The loop reads the socket when the queue is empty.
QueueFirst == pc = "ev_read" => race_event = <<>>

\* The last response is forgotten while a command waits for the next.
Waiting == Busy => last_sr_event = NoMsg /\ sent > 0

\* Before any time limit has expired, the only reply under way is the one the
\* command in progress waits for,
Pending ==
  \/ expired
  \/ NoReply(wire)
  \/ OneReply(wire, sent) /\ answered = sent /\ Busy

\* and no other is owed.
Current ==
  \/ expired \/ closed
  \/ answered = sent
  \/ answered = sent - 1 /\ Busy

IInv ==
  /\ TypeOK /\ LockBalanced /\ Flow /\ QueueFirst /\ Waiting
  /\ Numbered(wire, answered) /\ Pending /\ Current

\* The handle of a new connection satisfies the invariant.
LEMMA InitIInv == Init => IInv
<1> SUFFICES ASSUME Init PROVE IInv
  OBVIOUS
<1>1. <<>> \in Seq(Msg) /\ Len(<<>>) = 0
  BY EmptySeq
<1>2. TypeOK /\ LockBalanced
  <2>1. MaxCmds \in Nat /\ MaxEvents \in Nat
    BY BoundsAssumption
  <2>2. TypeOK
    <3>1. /\ connected \in BOOLEAN /\ part \in BOOLEAN /\ expired \in BOOLEAN
          /\ notified \in BOOLEAN /\ closed \in BOOLEAN
      BY Zenon DEF Init
    <3>2. inBuf \in 0 .. Len(wire) /\ depth \in 0 .. 3
          /\ sent \in 0 .. MaxCmds /\ answered \in 0 .. sent
          /\ emitted \in 0 .. MaxEvents /\ dispatched \in 0 .. emitted
      BY <1>1, <2>1 DEF Init
    <3> QED BY <1>1, <3>1, <3>2, Zenon DEF Init, TypeOK
  <2> QED BY <2>2 DEF Init, LockBalanced
<1>3. Flow
  BY StreamEmpty DEF Init, Flow
<1>4. QueueFirst /\ Waiting /\ Current
  BY DEF Init, QueueFirst, Waiting, Current, Busy
<1>5. Numbered(wire, answered) /\ Pending
  BY <1>1 DEF Init, Numbered, Pending, NoReply
<1> QED BY <1>2, <1>3, <1>4, <1>5 DEF IInv

\* Messages in the buffer are on the wire, and its head is a message.
LEMMA WireParts ==
  ASSUME TypeOK
  PROVE  /\ wire \in Seq(Msg) /\ Len(wire) \in Nat /\ inBuf \in Nat
         /\ inBuf > 0 => wire # <<>>
         /\ wire # <<>> => /\ Head(wire) \in Msg /\ Tail(wire) \in Seq(Msg)
                           /\ Len(Tail(wire)) = Len(wire) - 1
BY EmptySeq, LenProperties, HeadTailProperties DEF TypeOK
\* The head of the queue is the next event, or none.
LEMMA HeadOfQueueAccepted ==
  ASSUME NEW r, NEW w, NEW d, NEW e, NEW c, Stream(r, w, d, e, c), r # <<>>,
         NEW m, m = Head(r), NEW n, n = IF m.kind = "event" THEN m.no ELSE d
  PROVE  /\ m \in Msg /\ Tail(r) \in Seq(Msg)
         /\ m.kind = "event" => m.no = d + 1 /\ d + 1 <= e
         /\ Stream(Tail(r), w, n, e, c)
<1>1. r \in Seq(Msg) /\ w \in Seq(Msg)
  BY DEF Stream
<1>2. /\ m \in Msg /\ Tail(r) \in Seq(Msg)
      /\ Deleted(r \o w, Tail(r) \o w, 1) /\ m = (r \o w)[1]
  BY <1>1, HeadOfQueue
<1> DEFINE q == Tail(r)
<1> HIDE DEF q
<1>3. Deleted(r \o w, q \o w, 1) /\ q \in Seq(Msg)
  BY <1>2 DEF q
<1>4. CASE m.kind = "event"
  <2>1. m.no = d + 1 /\ d + 1 <= e /\ Stream(q, w, d + 1, e, c)
    BY <1>1, <1>2, <1>3, <1>4, StreamDispatched
  <2> QED BY <1>2, <1>4, <2>1 DEF q
<1>5. CASE m.kind # "event"
  <2>1. Stream(q, w, d, e, c)
    BY <1>1, <1>2, <1>3, <1>5, StreamWithout
  <2> QED BY <1>2, <1>5, <2>1 DEF q
<1> QED BY <1>4, <1>5

\* With an empty queue, the head of the wire is.
LEMMA HeadOfWireAccepted ==
  ASSUME NEW r, NEW w, NEW d, NEW e, NEW c, Stream(r, w, d, e, c), r = <<>>, w # <<>>,
         NEW m, m = Head(w), NEW n, n = IF m.kind = "event" THEN m.no ELSE d
  PROVE  /\ m \in Msg /\ Tail(w) \in Seq(Msg)
         /\ m.kind = "event" => m.no = d + 1 /\ d + 1 <= e
         /\ Stream(r, Tail(w), n, e, c)
<1>1. r \in Seq(Msg) /\ w \in Seq(Msg) /\ Len(r) + 1 = 1
  BY EmptySeq DEF Stream
<1> DEFINE v == Tail(w)
<1>2. /\ m \in Msg /\ v \in Seq(Msg)
      /\ Deleted(r \o w, r \o v, 1) /\ m = (r \o w)[1]
  BY <1>1, HeadOfWire
<1> HIDE DEF v
<1>4. CASE m.kind = "event"
  <2>1. m.no = d + 1 /\ d + 1 <= e /\ Stream(r, v, d + 1, e, c)
    BY <1>1, <1>2, <1>4, StreamDispatched
  <2> QED BY <1>2, <1>4, <2>1 DEF v
<1>5. CASE m.kind # "event"
  <2>1. Stream(r, v, d, e, c)
    BY <1>1, <1>2, <1>5, StreamWithout
  <2> QED BY <1>2, <1>5, <2>1 DEF v
<1> QED BY <1>4, <1>5

-----------------------------------------------------------------------------
(* Types and locks.                                                        *)

\* The last event dispatched once m is accepted.
Dispatching(m) == IF m.kind = "event" THEN m.no ELSE dispatched

\* The head of the queue is the next event, or none.
LEMMA QueueAccepted ==
  ASSUME Flow, race_event # <<>>, NEW m, m = Head(race_event)
  PROVE  /\ m \in Msg /\ Tail(race_event) \in Seq(Msg)
         /\ m.kind = "event" => m.no = dispatched + 1 /\ dispatched + 1 <= emitted
         /\ Stream(Tail(race_event), wire, Dispatching(m), emitted, closed)
BY HeadOfQueueAccepted DEF Flow, Dispatching

\* When the queue is empty, the head of the wire is the next event, or none.
LEMMA WireAccepted ==
  ASSUME Flow, race_event = <<>>, wire # <<>>, NEW m, m = Head(wire)
  PROVE  /\ m \in Msg /\ Tail(wire) \in Seq(Msg)
         /\ m.kind = "event" => m.no = dispatched + 1 /\ dispatched + 1 <= emitted
         /\ Stream(race_event, Tail(wire), Dispatching(m), emitted, closed)
BY HeadOfWireAccepted DEF Flow, Dispatching

\* What parse_event leaves behind is of the right type.
LEMMA AcceptTypes ==
  ASSUME TypeOK, NEW m \in Msg, Accept(m),
         m.kind = "event" => m.no = dispatched + 1 /\ dispatched + 1 <= emitted
  PROVE  /\ connected' \in BOOLEAN
         /\ last_event' \in Msg \cup {NoMsg} /\ last_ievent' \in Msg \cup {NoMsg}
         /\ app' \in {"loop", "handler"}
         /\ dispatched' \in 0 .. emitted
<1>1. connected' \in BOOLEAN
  BY Zenon DEF Accept
<1>2. last_event' \in Msg \cup {NoMsg} /\ last_ievent' \in Msg \cup {NoMsg}
  BY Zenon DEF Accept
<1>3. app' \in {"loop", "handler"} /\ dispatched' \in 0 .. emitted
  BY DEF Accept, TypeOK
<1> QED BY <1>1, <1>2, <1>3

\* What the peer sends makes the wire longer.
LEMMA SendTypes ==
  ASSUME TypeOK, NEW m \in Msg, PeerSends(m)
  PROVE  wire' \in Seq(Msg) /\ inBuf' \in 0 .. Len(wire')
<1>1. /\ Append(wire, m) \in Seq(Msg) /\ Len(Append(wire, m)) = Len(wire) + 1
      /\ Len(wire) \in Nat /\ inBuf \in 0 .. Len(wire)
  BY AppendProperties, LenProperties DEF TypeOK
<1>2. inBuf' = inBuf /\ wire' = Append(wire, m)
  BY DEF PeerSends, buffer
<1> QED BY <1>1, <1>2

\* Every step keeps the types and lets the mutex go as often as it took it.
LEMMA StepTypes == IInv /\ [Next]_vars => TypeOK' /\ LockBalanced'
<1> SUFFICES ASSUME IInv, [Next]_vars
             PROVE  TypeOK' /\ LockBalanced'
  OBVIOUS
<1> USE WireParts, BoundsAssumption DEF handle, buffer, thread, peer
<1>a. TypeOK /\ LockBalanced /\ Flow /\ QueueFirst
  BY DEF IInv
<1>1. CASE \E w \in Waits : SendRecv(w)
  <2>1. PICK w \in {"block", "timed"} : SendRecv(w)
    BY <1>1, WaitsAssumption
  <2>2. /\ sent' = sent + 1 /\ sent < MaxCmds /\ pc = "idle" /\ pc' = "recv"
        /\ wait' = w /\ depth' = depth + 1
    BY <2>1 DEF SendRecv, MaySend
  <2>3. sent' \in 0 .. MaxCmds /\ answered \in 0 .. sent' /\ depth' = 1
    BY <1>a, <2>2 DEF TypeOK, LockBalanced
  <2>4. last_sr_event' \in Msg \cup {NoMsg}
    BY <2>1 DEF SendRecv
  <2>5. TypeOK'
    BY <1>a, <2>1, <2>2, <2>3, <2>4 DEF SendRecv, TypeOK
  <2> QED BY <2>2, <2>3, <2>5 DEF LockBalanced
<1>2. CASE \E w \in Waits : SendFails(w)
  BY <1>a, <1>2 DEF SendFails, MaySend, TypeOK, LockBalanced, Locks
<1>3. CASE \E w \in Waits : SendKilled(w)
  BY <1>a, <1>3 DEF SendKilled, MaySend, TypeOK, LockBalanced, Locks
<1>4. CASE \E w \in Waits : SendRefused(w)
  BY <1>a, <1>4 DEF SendRefused, MaySend, TypeOK, LockBalanced, Locks
<1>5. CASE StartRead
  BY <1>a, <1>5 DEF StartRead, TypeOK, LockBalanced, Locks
<1>6. CASE PollTimeout
  BY <1>a, <1>6 DEF PollTimeout, TypeOK, LockBalanced, Locks
<1>7. CASE QueueMessage
  BY <1>a, <1>7 DEF QueueMessage, TypeOK, LockBalanced, Locks
<1>8. CASE TakeReply
  BY <1>a, <1>8 DEF TakeReply, TypeOK, LockBalanced, Locks
<1>9. CASE Read
  BY <1>a, <1>9 DEF Read, Reading, TypeOK, LockBalanced, Locks
<1>10. CASE ReadFails
  <2>1. connected' \in BOOLEAN
    BY <1>10, Zenon DEF ReadFails
  <2>2. status' \in {"none", "SUCCESS", "FAIL", "BREAK"}
    BY <1>a, <1>10 DEF ReadFails, TypeOK
  <2>3. depth' = 0 /\ pc' = "idle"
    BY <1>a, <1>10 DEF ReadFails, Reading, TypeOK, LockBalanced, Locks
  <2>4. TypeOK'
    BY <1>a, <1>10, <2>1, <2>2, <2>3 DEF ReadFails, TypeOK
  <2> QED BY <2>3, <2>4 DEF LockBalanced
<1>11. CASE RecvQueued
  <2> DEFINE m == Head(race_event)
  <2>1. /\ m \in Msg /\ Tail(race_event) \in Seq(Msg) /\ Accept(m)
        /\ m.kind = "event" => m.no = dispatched + 1 /\ dispatched + 1 <= emitted
    BY <1>a, <1>11, QueueAccepted DEF RecvQueued
  <2> HIDE DEF m
  <2>2. /\ connected' \in BOOLEAN
        /\ last_event' \in Msg \cup {NoMsg} /\ last_ievent' \in Msg \cup {NoMsg}
        /\ app' \in {"loop", "handler"} /\ dispatched' \in 0 .. emitted
    BY <1>a, <2>1, AcceptTypes
  <2> QED BY <1>a, <1>11, <2>1, <2>2 DEF RecvQueued, TypeOK, LockBalanced, Locks
<1>12. CASE RecvStart
  BY <1>a, <1>12 DEF RecvStart, TypeOK, LockBalanced, Locks
<1>13. CASE RecvMessage
  <2> DEFINE m == Head(wire)
  <2>0. race_event = <<>> /\ wire # <<>> /\ pc = "ev_read" /\ inBuf > 0
    BY <1>a, <1>13 DEF RecvMessage, QueueFirst
  <2>1. /\ m \in Msg /\ Tail(wire) \in Seq(Msg) /\ Accept(m)
        /\ m.kind = "event" => m.no = dispatched + 1 /\ dispatched + 1 <= emitted
    BY <1>a, <1>13, <2>0, WireAccepted DEF RecvMessage
  <2> HIDE DEF m
  <2>2. /\ connected' \in BOOLEAN
        /\ last_event' \in Msg \cup {NoMsg} /\ last_ievent' \in Msg \cup {NoMsg}
        /\ app' \in {"loop", "handler"} /\ dispatched' \in 0 .. emitted
    BY <1>a, <2>1, AcceptTypes
  <2>3. inBuf' \in 0 .. Len(wire') /\ depth' = 0 /\ pc' = "idle"
    BY <1>a, <1>13, <2>0 DEF RecvMessage, TypeOK, LockBalanced
  <2>4. TypeOK'
    BY <1>a, <1>13, <2>1, <2>2, <2>3 DEF RecvMessage, TypeOK
  <2> QED BY <2>3, <2>4 DEF LockBalanced
<1>14. CASE ToLoop
  BY <1>a, <1>14 DEF ToLoop, TypeOK, LockBalanced, Locks
<1>15. CASE Disconnect
  <2>1. part' \in BOOLEAN /\ closed' \in BOOLEAN
    BY <1>15, Zenon DEF Disconnect
  <2>2. race_event' \in Seq(Msg) /\ wire' \in Seq(Msg) /\ inBuf' \in 0 .. Len(wire')
    BY <1>15, EmptySeq DEF Disconnect
  <2>3. depth' = 0 /\ pc' = "idle" /\ depth' \in 0 .. 3
    BY <1>15 DEF Disconnect
  <2>4. TypeOK'
    BY <1>a, <1>15, <2>1, <2>2, <2>3 DEF Disconnect, TypeOK
  <2> QED BY <2>3, <2>4 DEF LockBalanced
<1>16. CASE PeerEmits
  <2>1. PeerSends(Event(emitted + 1)) /\ Event(emitted + 1) \in Msg
    BY <1>a, <1>16, MsgIsSent DEF PeerEmits, TypeOK
  <2>2. wire' \in Seq(Msg) /\ inBuf' \in 0 .. Len(wire')
    BY <1>a, <2>1, SendTypes
  <2>3. emitted' \in 0 .. MaxEvents /\ dispatched' \in 0 .. emitted'
    BY <1>a, <1>16, <2>1 DEF PeerEmits, PeerSends, TypeOK
  <2> QED BY <1>a, <1>16, <2>1, <2>2, <2>3
          DEF PeerEmits, PeerSends, TypeOK, LockBalanced, Locks
<1>17. CASE PeerAnswers
  <2>1. PeerSends(Reply(answered + 1)) /\ Reply(answered + 1) \in Msg
    BY <1>a, <1>17, MsgIsSent DEF PeerAnswers, TypeOK
  <2>2. wire' \in Seq(Msg) /\ inBuf' \in 0 .. Len(wire')
    BY <1>a, <2>1, SendTypes
  <2>3. answered' \in 0 .. sent'
    BY <1>a, <1>17, <2>1 DEF PeerAnswers, PeerSends, TypeOK
  <2> QED BY <1>a, <1>17, <2>1, <2>2, <2>3
          DEF PeerAnswers, PeerSends, TypeOK, LockBalanced, Locks
<1>18. CASE PeerNotifies
  <2>1. PeerSends(Notice) /\ Notice \in Msg /\ notified' \in BOOLEAN
    BY <1>18, MsgIsSent, Zenon DEF PeerNotifies, Notice, Msg
  <2>2. wire' \in Seq(Msg) /\ inBuf' \in 0 .. Len(wire')
    BY <1>a, <2>1, SendTypes
  <2> QED BY <1>a, <1>18, <2>1, <2>2
          DEF PeerNotifies, PeerSends, TypeOK, LockBalanced, Locks
<1>19. CASE PeerCloses
  BY <1>a, <1>19 DEF PeerCloses, TypeOK, LockBalanced, Locks
<1>20. CASE UNCHANGED vars
  BY <1>a, <1>20 DEF vars, TypeOK, LockBalanced, Locks
<1> QED BY <1>1, <1>2, <1>3, <1>4, <1>5, <1>6, <1>7, <1>8, <1>9, <1>10,
           <1>11, <1>12, <1>13, <1>14, <1>15, <1>16, <1>17, <1>18, <1>19, <1>20
        DEF Next, Send
-----------------------------------------------------------------------------
(* The stream of events.                                                  *)

\* A message that is no event is taken off the wire.
LEMMA HeadOfWireDropped ==
  ASSUME NEW r, NEW w, NEW d, NEW e, NEW c, Stream(r, w, d, e, c), w # <<>>,
         Head(w).kind # "event"
  PROVE  Stream(r, Tail(w), d, e, c)
<1>1. r \in Seq(Msg) /\ w \in Seq(Msg)
  BY DEF Stream
<1> DEFINE v == Tail(w)
           k == Len(r) + 1
<1>2. /\ v \in Seq(Msg) /\ k \in Nat
      /\ Deleted(r \o w, r \o v, k) /\ Head(w) = (r \o w)[k]
  BY <1>1, HeadOfWire, LenProperties
<1> HIDE DEF v, k
<1>3. Stream(r, v, d, e, c)
  BY <1>1, <1>2, StreamWithout
<1> QED BY <1>3 DEF v

\* Every step keeps the order of the events and loses none.
LEMMA StepFlow == IInv /\ [Next]_vars => Flow' /\ QueueFirst'
<1> SUFFICES ASSUME IInv, [Next]_vars
             PROVE  Flow' /\ QueueFirst'
  OBVIOUS
<1> USE DEF handle, buffer, thread, peer
<1>a. TypeOK /\ Flow /\ QueueFirst
  BY DEF IInv
<1>b. /\ wire \in Seq(Msg) /\ inBuf \in Nat /\ (inBuf > 0 => wire # <<>>)
      /\ (wire # <<>> => Head(wire) \in Msg)
  BY <1>a, WireParts
<1>1. CASE \E w \in Waits : SendRecv(w)
  BY <1>a, <1>1 DEF SendRecv, MaySend, Flow, QueueFirst
<1>2. CASE \E w \in Waits : SendFails(w)
  BY <1>a, <1>2 DEF SendFails, MaySend, Flow, QueueFirst
<1>3. CASE \E w \in Waits : SendKilled(w)
  BY <1>a, <1>3 DEF SendKilled, MaySend, Flow, QueueFirst
<1>4. CASE \E w \in Waits : SendRefused(w)
  BY <1>a, <1>4 DEF SendRefused, MaySend, Flow, QueueFirst
<1>5. CASE StartRead
  BY <1>a, <1>5 DEF StartRead, Flow, QueueFirst
<1>6. CASE PollTimeout
  BY <1>a, <1>6 DEF PollTimeout, Flow, QueueFirst
<1>7. CASE QueueMessage
  <2>1. wire # <<>> /\ race_event' = Append(race_event, Head(wire)) /\ wire' = Tail(wire)
    BY <1>b, <1>7 DEF QueueMessage
  <2>2. Stream(race_event, wire, dispatched, emitted, closed)
    BY <1>a DEF Flow
  <2>3. Stream(race_event', wire', dispatched, emitted, closed)
    BY <2>1, <2>2, StreamQueued
  <2> QED BY <1>7, <2>3 DEF QueueMessage, Flow, QueueFirst
<1>8. CASE TakeReply
  <2>1. wire # <<>> /\ Head(wire).kind # "event" /\ wire' = Tail(wire)
    BY <1>b, <1>8 DEF TakeReply
  <2>2. Stream(race_event, wire, dispatched, emitted, closed)
    BY <1>a DEF Flow
  <2>3. Stream(race_event, wire', dispatched, emitted, closed)
    BY <2>1, <2>2, HeadOfWireDropped
  <2> QED BY <1>8, <2>3 DEF TakeReply, Flow, QueueFirst
<1>9. CASE Read
  BY <1>a, <1>9 DEF Read, Reading, Flow, QueueFirst
<1>10. CASE ReadFails
  BY <1>a, <1>10 DEF ReadFails, Reading, Flow, QueueFirst
<1>11. CASE RecvQueued
  <2>1. Stream(Tail(race_event), wire, Dispatching(Head(race_event)), emitted, closed)
    BY <1>a, <1>11, QueueAccepted DEF RecvQueued
  <2>2. dispatched' = Dispatching(Head(race_event)) /\ race_event' = Tail(race_event)
    BY <1>11 DEF RecvQueued, Accept, Dispatching
  <2> QED BY <1>11, <2>1, <2>2 DEF RecvQueued, Flow, QueueFirst
<1>12. CASE RecvStart
  BY <1>a, <1>12 DEF RecvStart, Flow, QueueFirst
<1>13. CASE RecvMessage
  <2>1. race_event = <<>> /\ wire # <<>>
    BY <1>a, <1>b, <1>13 DEF RecvMessage, QueueFirst
  <2>2. Stream(race_event, Tail(wire), Dispatching(Head(wire)), emitted, closed)
    BY <1>a, <2>1, WireAccepted
  <2>3. dispatched' = Dispatching(Head(wire)) /\ wire' = Tail(wire)
    BY <1>13 DEF RecvMessage, Accept, Dispatching
  <2> QED BY <1>13, <2>2, <2>3 DEF RecvMessage, Flow, QueueFirst
<1>14. CASE ToLoop
  BY <1>a, <1>14 DEF ToLoop, Flow, QueueFirst
<1>15. CASE Disconnect
  <2>1. dispatched \in Nat /\ emitted \in Nat /\ dispatched <= emitted
    BY <1>a, BoundsAssumption DEF TypeOK
  <2> QED BY <1>15, <2>1, StreamEmpty DEF Disconnect, Flow, QueueFirst
<1>16. CASE PeerEmits
  <2>1. /\ ~ closed /\ wire' = Append(wire, Event(emitted + 1))
        /\ emitted' = emitted + 1 /\ UNCHANGED <<race_event, dispatched, closed, pc>>
    BY <1>16 DEF PeerEmits, PeerSends
  <2>2. Stream(race_event, wire, dispatched, emitted, closed)
    BY <1>a DEF Flow
  <2>3. Stream(race_event, Append(wire, Event(emitted + 1)), dispatched, emitted + 1, closed)
    BY <2>1, <2>2, StreamEmitted
  <2> QED BY <1>a, <2>1, <2>3 DEF Flow, QueueFirst
<1>17. CASE PeerAnswers
  <2>1. /\ Reply(answered + 1) \in Msg /\ Reply(answered + 1).kind # "event"
        /\ wire' = Append(wire, Reply(answered + 1))
        /\ UNCHANGED <<race_event, dispatched, emitted, closed, pc>>
    BY <1>a, <1>17, MsgIsSent DEF PeerAnswers, PeerSends, TypeOK
  <2>2. Stream(race_event, wire, dispatched, emitted, closed)
    BY <1>a DEF Flow
  <2>3. Stream(race_event, Append(wire, Reply(answered + 1)), dispatched, emitted, closed)
    BY <2>1, <2>2, StreamExtended
  <2> QED BY <1>a, <2>1, <2>3 DEF Flow, QueueFirst
<1>18. CASE PeerNotifies
  <2>1. /\ Notice \in Msg /\ Notice.kind # "event"
        /\ wire' = Append(wire, Notice)
        /\ UNCHANGED <<race_event, dispatched, emitted, closed, pc>>
    BY <1>a, <1>18, MsgIsSent DEF PeerNotifies, PeerSends, TypeOK
  <2>2. Stream(race_event, wire, dispatched, emitted, closed)
    BY <1>a DEF Flow
  <2>3. Stream(race_event, Append(wire, Notice), dispatched, emitted, closed)
    BY <2>1, <2>2, StreamExtended
  <2> QED BY <1>a, <2>1, <2>3 DEF Flow, QueueFirst
<1>19. CASE PeerCloses
  <2>1. PICK k \in inBuf .. Len(wire) : wire' = SubSeq(wire, 1, k)
    BY <1>19 DEF PeerCloses
  <2>2. k \in 0 .. Len(wire)
    BY <1>b, <2>1
  <2>3. Stream(race_event, wire, dispatched, emitted, closed)
    BY <1>a DEF Flow
  <2>4. Stream(race_event, SubSeq(wire, 1, k), dispatched, emitted, TRUE)
    BY <2>2, <2>3, StreamCut
  <2> QED BY <1>a, <1>19, <2>1, <2>4 DEF PeerCloses, Flow, QueueFirst
<1>20. CASE UNCHANGED vars
  BY <1>a, <1>20 DEF vars, Flow, QueueFirst
<1> QED BY <1>1, <1>2, <1>3, <1>4, <1>5, <1>6, <1>7, <1>8, <1>9, <1>10,
           <1>11, <1>12, <1>13, <1>14, <1>15, <1>16, <1>17, <1>18, <1>19, <1>20
        DEF Next, Send
-----------------------------------------------------------------------------
(* Commands and their responses.                                           *)

\* Every step keeps what is known of the replies on the wire.
LEMMA StepReplies ==
  IInv /\ [Next]_vars => Waiting' /\ Numbered(wire, answered)' /\ Pending' /\ Current'
<1> SUFFICES ASSUME IInv, [Next]_vars
             PROVE  Waiting' /\ Numbered(wire, answered)' /\ Pending' /\ Current'
  OBVIOUS
<1> USE DEF handle, buffer, thread, peer
<1>a. TypeOK /\ Waiting /\ Numbered(wire, answered) /\ Pending /\ Current
  BY DEF IInv
<1>b. /\ wire \in Seq(Msg) /\ inBuf \in Nat /\ (inBuf > 0 => wire # <<>>)
      /\ (wire # <<>> => Head(wire) \in Msg)
      /\ sent \in Nat /\ answered \in Nat /\ answered <= sent
  BY <1>a, WireParts, BoundsAssumption DEF TypeOK
<1>1. CASE \E w \in Waits : SendRecv(w)
  <2>1. /\ sent' = sent + 1 /\ pc = "idle" /\ pc' = "recv" /\ last_sr_event' = NoMsg
        /\ UNCHANGED <<wire, answered, expired, closed>>
    BY <1>1 DEF SendRecv, MaySend
  <2>2. expired \/ NoReply(wire)
    BY <1>a, <2>1 DEF Pending, Busy
  <2>3. expired \/ closed \/ answered = sent' - 1
    BY <1>a, <1>b, <2>1 DEF Current, Busy
  <2> QED BY <1>a, <1>b, <2>1, <2>2, <2>3 DEF Waiting, Pending, Current, Busy
<1>2. CASE \E w \in Waits : SendFails(w)
  BY <1>a, <1>b, <1>2 DEF SendFails, MaySend, Waiting, Pending, Current, Busy
<1>3. CASE \E w \in Waits : SendKilled(w)
  BY <1>a, <1>b, <1>3 DEF SendKilled, MaySend, Waiting, Pending, Current, Busy
<1>4. CASE \E w \in Waits : SendRefused(w)
  BY <1>a, <1>b, <1>4 DEF SendRefused, MaySend, Waiting, Pending, Current, Busy
<1>5. CASE StartRead
  BY <1>a, <1>b, <1>5 DEF StartRead, Waiting, Pending, Current, Busy
<1>6. CASE PollTimeout
  BY <1>a, <1>b, <1>6 DEF PollTimeout, Waiting, Pending, Current, Busy
<1>7. CASE QueueMessage
  <2>1. wire # <<>> /\ wire' = Tail(wire) /\ pc = "sr_read" /\ pc' = "recv"
        /\ UNCHANGED <<sent, answered, expired, closed, last_sr_event>>
    BY <1>b, <1>7 DEF QueueMessage
  <2>2. Numbered(wire', answered) /\ (NoReply(wire) => NoReply(wire'))
        /\ (OneReply(wire, sent) => OneReply(wire', sent))
    BY <1>a, <1>b, <2>1, RepliesTaken
  <2> QED BY <1>a, <1>b, <2>1, <2>2 DEF Waiting, Pending, Current, Busy
<1>8. CASE TakeReply
  <2>1. wire # <<>> /\ wire' = Tail(wire) /\ Head(wire).kind = "reply" /\ pc' = "idle"
        /\ UNCHANGED <<sent, answered, expired, closed>>
    BY <1>b, <1>8 DEF TakeReply
  <2>2. Numbered(wire', answered) /\ ~ NoReply(wire)
        /\ (OneReply(wire, sent) => NoReply(wire'))
    BY <1>a, <1>b, <2>1, RepliesTaken
  <2>3. expired \/ (NoReply(wire') /\ answered = sent)
    BY <1>a, <2>2 DEF Pending
  <2> QED BY <1>a, <1>b, <2>1, <2>2, <2>3 DEF Waiting, Pending, Current, Busy
<1>9. CASE Read
  BY <1>a, <1>b, <1>9 DEF Read, Reading, Waiting, Pending, Current, Busy
<1>10. CASE ReadFails
  <2>1. wire = <<>> /\ closed /\ pc' = "idle"
        /\ UNCHANGED <<wire, sent, answered, expired, closed>>
    BY <1>10 DEF ReadFails
  <2>2. NoReply(wire)
    BY <2>1, EmptySeq DEF NoReply
  <2> QED BY <1>a, <1>b, <2>1, <2>2 DEF Waiting, Pending, Current, Busy
<1>11. CASE RecvQueued
  BY <1>a, <1>b, <1>11 DEF RecvQueued, Accept, Waiting, Pending, Current, Busy
<1>12. CASE RecvStart
  BY <1>a, <1>b, <1>12 DEF RecvStart, Waiting, Pending, Current, Busy
<1>13. CASE RecvMessage
  <2>1. wire # <<>> /\ wire' = Tail(wire) /\ pc = "ev_read" /\ pc' = "idle"
        /\ UNCHANGED <<sent, answered, expired, closed, last_sr_event>>
    BY <1>b, <1>13 DEF RecvMessage
  <2>2. Numbered(wire', answered) /\ (NoReply(wire) => NoReply(wire'))
    BY <1>a, <1>b, <2>1, RepliesTaken
  <2> QED BY <1>a, <1>b, <2>1, <2>2 DEF Waiting, Pending, Current, Busy
<1>14. CASE ToLoop
  BY <1>a, <1>b, <1>14 DEF ToLoop, Waiting, Pending, Current, Busy
<1>15. CASE Disconnect
  <2>1. wire' = <<>> /\ closed' = TRUE /\ pc' = "idle"
    BY <1>15 DEF Disconnect
  <2>2. NoReply(wire') /\ Numbered(wire', answered')
    BY <2>1, EmptySeq DEF NoReply, Numbered
  <2> QED BY <2>1, <2>2 DEF Waiting, Pending, Current, Busy
<1>16. CASE PeerEmits
  <2>1. /\ Event(emitted + 1) \in Msg /\ Event(emitted + 1).kind # "reply"
        /\ wire' = Append(wire, Event(emitted + 1))
        /\ UNCHANGED <<sent, answered, expired, closed, pc, last_sr_event>>
    BY <1>a, <1>16, MsgIsSent DEF PeerEmits, PeerSends, TypeOK
  <2>2. Numbered(wire', answered) /\ (NoReply(wire) => NoReply(wire'))
        /\ (OneReply(wire, sent) => OneReply(wire', sent))
    BY <1>a, <1>b, <2>1, RepliesSent
  <2> QED BY <1>a, <1>b, <2>1, <2>2 DEF Waiting, Pending, Current, Busy
<1>17. CASE PeerAnswers
  <2>1. /\ Reply(answered + 1) \in Msg /\ ~ closed /\ answered < sent
        /\ wire' = Append(wire, Reply(answered + 1)) /\ answered' = answered + 1
        /\ UNCHANGED <<sent, expired, closed, pc, last_sr_event>>
    BY <1>b, <1>17, MsgIsSent DEF PeerAnswers, PeerSends
  <2>2. Numbered(wire', answered') /\ (NoReply(wire) => OneReply(wire', answered'))
    BY <1>a, <1>b, <2>1, RepliesSent
  <2>3. expired \/ (answered = sent - 1 /\ Busy)
    BY <1>a, <1>b, <2>1 DEF Current
  <2>4. expired \/ (NoReply(wire) /\ answered' = sent /\ Busy)
    BY <1>a, <1>b, <2>1, <2>3 DEF Pending
  <2>5. Pending' /\ Current'
    BY <2>1, <2>2, <2>4 DEF Pending, Current, Busy
  <2> QED BY <1>a, <2>1, <2>2, <2>5 DEF Waiting, Busy
<1>18. CASE PeerNotifies
  <2>1. /\ Notice \in Msg /\ Notice.kind # "reply"
        /\ wire' = Append(wire, Notice)
        /\ UNCHANGED <<sent, answered, expired, closed, pc, last_sr_event>>
    BY <1>a, <1>18, MsgIsSent DEF PeerNotifies, PeerSends, TypeOK
  <2>2. Numbered(wire', answered) /\ (NoReply(wire) => NoReply(wire'))
        /\ (OneReply(wire, sent) => OneReply(wire', sent))
    BY <1>a, <1>b, <2>1, RepliesSent
  <2> QED BY <1>a, <1>b, <2>1, <2>2 DEF Waiting, Pending, Current, Busy
<1>19. CASE PeerCloses
  <2>1. PICK k \in inBuf .. Len(wire) : wire' = SubSeq(wire, 1, k)
    BY <1>19 DEF PeerCloses
  <2>2. k \in 0 .. Len(wire)
    BY <1>b, <2>1
  <2>3. Numbered(wire', answered) /\ (NoReply(wire) => NoReply(wire'))
        /\ (OneReply(wire, sent) => OneReply(wire', sent))
    BY <1>a, <1>b, <2>1, <2>2, RepliesCut
  <2>4. /\ closed' = TRUE
        /\ UNCHANGED <<sent, answered, expired, pc, last_sr_event>>
    BY <1>19 DEF PeerCloses
  <2> QED BY <1>a, <2>3, <2>4 DEF Waiting, Pending, Current, Busy
<1>20. CASE UNCHANGED vars
  BY <1>a, <1>b, <1>20 DEF vars, Waiting, Pending, Current, Busy
<1> QED BY <1>1, <1>2, <1>3, <1>4, <1>5, <1>6, <1>7, <1>8, <1>9, <1>10,
           <1>11, <1>12, <1>13, <1>14, <1>15, <1>16, <1>17, <1>18, <1>19, <1>20
        DEF Next, Send
-----------------------------------------------------------------------------
(* What holds for any number of commands and events.                     *)

\* The invariant holds in every reachable state.
LEMMA Invariance == Spec => []IInv
<1>1. IInv /\ [Next]_vars => IInv'
  BY StepTypes, StepFlow, StepReplies DEF IInv
<1> QED BY InitIInv, <1>1, PTL DEF Spec

\* The handle, its thread and the connection keep their types
\* (src/esl/esl.c:1200-1606).
THEOREM HandleTypes == Spec => []TypeOK
<1>1. IInv => TypeOK
  BY DEF IInv
<1> QED BY <1>1, Invariance, PTL

\* The recursive mutex is let go as often as it is taken, whichever way a
\* call ends (src/esl/esl.c:1211-1226,1489-1495,1582-1603).
THEOREM HandleLock == Spec => []LockBalanced
<1>1. IInv => LockBalanced
  BY DEF IInv
<1> QED BY <1>1, Invariance, PTL

\* The race queue does not change the order of the events
\* (src/esl/esl.c:1279-1285,1569-1578).
THEOREM HandleOrder == Spec => []InOrder
<1>1. IInv => InOrder
  BY DEF IInv, Flow, Stream, Ordered, Within, Rising, InOrder, Pipeline
<1> QED BY <1>1, Invariance, PTL

\* Waiting for a reply, in time or not, costs no event
\* (src/esl/esl.c:1558-1606).
THEOREM HandleComplete == Spec => []NoEventLost
<1>1. IInv => NoEventLost
  BY DEF IInv, Flow, Stream, Complete, NoEventLost, Pipeline
<1> QED BY <1>1, Invariance, PTL

\* Every step of the handle is a step of the session or a stutter.
LEMMA StepSession == IInv /\ [Next]_vars => [Session!Next]_(Session!vars)
<1> SUFFICES ASSUME IInv, [Next]_vars
             PROVE  [Session!Next]_(Session!vars)
  OBVIOUS
<1> USE DEF handle, buffer, thread, peer, Session!Next, Session!vars
<1>a. TypeOK /\ Flow /\ QueueFirst /\ Waiting /\ Numbered(wire, answered) /\ Pending
  BY DEF IInv
<1>b. /\ wire \in Seq(Msg) /\ inBuf \in Nat /\ (inBuf > 0 => wire # <<>>)
      /\ (wire # <<>> => Head(wire) \in Msg)
      /\ sent \in Nat /\ answered \in Nat /\ answered <= sent
  BY <1>a, WireParts, BoundsAssumption DEF TypeOK
<1>1. CASE \E w \in Waits : SendRecv(w)
  <2>1. /\ sent' = sent + 1 /\ last_sr_event' = NoMsg
        /\ UNCHANGED <<emitted, dispatched, expired>>
    BY <1>1 DEF SendRecv
  <2>2. Session!Issue
    BY <2>1 DEF Session!Issue
  <2> QED BY <2>2
<1>2. CASE \E w \in Waits : SendFails(w)
  <2>1. last_sr_event' = NoMsg /\ UNCHANGED <<emitted, dispatched, sent, expired>>
    BY <1>2 DEF SendFails
  <2>2. Session!Forget
    BY <2>1 DEF Session!Forget
  <2> QED BY <2>2
<1>3. CASE \E w \in Waits : SendKilled(w)
  BY <1>3 DEF SendKilled, MaySend
<1>4. CASE \E w \in Waits : SendRefused(w)
  BY <1>4 DEF SendRefused, MaySend
<1>5. CASE StartRead
  BY <1>5 DEF StartRead
<1>6. CASE PollTimeout
  <2>1. /\ expired' = TRUE /\ last_sr_event = NoMsg /\ sent > 0
        /\ UNCHANGED <<emitted, dispatched, sent, last_sr_event>>
    BY <1>a, <1>6 DEF PollTimeout, Waiting, Busy
  <2>2. Session!Expire
    BY <2>1 DEF Session!Expire
  <2> QED BY <2>2
<1>7. CASE QueueMessage
  BY <1>7 DEF QueueMessage
<1>8. CASE TakeReply
  <2>1. /\ wire # <<>> /\ Head(wire).kind = "reply" /\ last_sr_event' = Head(wire)
        /\ last_sr_event = NoMsg /\ sent > 0
        /\ UNCHANGED <<emitted, dispatched, sent, expired>>
    BY <1>a, <1>b, <1>8 DEF TakeReply, Waiting, Busy
  <2>2. Head(wire).no \in 1 .. answered /\ (expired \/ Head(wire).no = sent)
    BY <1>a, <1>b, <2>1, RepliesTaken DEF Pending
  <2>3. last_sr_event' # NoMsg
    BY <2>1 DEF NoMsg
  <2>4. last_sr_event'.no \in 1 .. sent /\ (expired \/ last_sr_event'.no = sent)
    BY <1>b, <2>1, <2>2
  <2>5. Session!Respond
    BY <2>1, <2>3, <2>4 DEF Session!Respond
  <2> QED BY <2>5
<1>9. CASE Read
  BY <1>9 DEF Read, Reading
<1>10. CASE ReadFails
  BY <1>10 DEF ReadFails, Reading
<1>11. CASE RecvQueued
  <2> DEFINE m == Head(race_event)
  <2>1. m.kind = "event" => m.no = dispatched + 1 /\ dispatched + 1 <= emitted
    BY <1>a, <1>b, <1>11, QueueAccepted DEF RecvQueued, QueueFirst
  <2>2. /\ dispatched' = IF m.kind = "event" THEN m.no ELSE dispatched
        /\ UNCHANGED <<emitted, sent, last_sr_event, expired>>
    BY <1>11 DEF RecvQueued, Accept
  <2> HIDE DEF m
  <2>3. dispatched \in Nat /\ emitted \in Nat
    BY <1>a, BoundsAssumption DEF TypeOK
  <2>4. Session!Dispatch \/ UNCHANGED Session!vars
    BY <2>1, <2>2, <2>3 DEF Session!Dispatch
  <2> QED BY <2>4
<1>12. CASE RecvStart
  BY <1>12 DEF RecvStart
<1>13. CASE RecvMessage
  <2> DEFINE m == Head(wire)
  <2>1. m.kind = "event" => m.no = dispatched + 1 /\ dispatched + 1 <= emitted
    BY <1>a, <1>b, <1>13, WireAccepted DEF RecvMessage, QueueFirst
  <2>2. /\ dispatched' = IF m.kind = "event" THEN m.no ELSE dispatched
        /\ UNCHANGED <<emitted, sent, last_sr_event, expired>>
    BY <1>13 DEF RecvMessage, Accept
  <2> HIDE DEF m
  <2>3. dispatched \in Nat /\ emitted \in Nat
    BY <1>a, BoundsAssumption DEF TypeOK
  <2>4. Session!Dispatch \/ UNCHANGED Session!vars
    BY <2>1, <2>2, <2>3 DEF Session!Dispatch
  <2> QED BY <2>4
<1>14. CASE ToLoop
  BY <1>14 DEF ToLoop
<1>15. CASE Disconnect
  <2>1. last_sr_event' = NoMsg /\ UNCHANGED <<emitted, dispatched, sent, expired>>
    BY <1>15 DEF Disconnect
  <2>2. Session!Forget
    BY <2>1 DEF Session!Forget
  <2> QED BY <2>2
<1>16. CASE PeerEmits
  <2>1. /\ emitted' = emitted + 1
        /\ UNCHANGED <<dispatched, sent, last_sr_event, expired>>
    BY <1>16 DEF PeerEmits, PeerSends
  <2>2. Session!Emit
    BY <2>1 DEF Session!Emit
  <2> QED BY <2>2
<1>17. CASE PeerAnswers
  BY <1>17 DEF PeerAnswers, PeerSends
<1>18. CASE PeerNotifies
  BY <1>18 DEF PeerNotifies, PeerSends
<1>19. CASE PeerCloses
  BY <1>19 DEF PeerCloses
<1>20. CASE UNCHANGED vars
  BY <1>20 DEF vars
<1> QED BY <1>1, <1>2, <1>3, <1>4, <1>5, <1>6, <1>7, <1>8, <1>9, <1>10,
           <1>11, <1>12, <1>13, <1>14, <1>15, <1>16, <1>17, <1>18, <1>19, <1>20
        DEF Next, Send

\* The handle implements the session: events are dispatched in order and one
\* by one, and a response belongs to its command unless a time limit has
\* expired before (src/esl/esl.c:1256-1606).
THEOREM HandleImplementsSession == Spec => SessionSpec
<1>1. Init => Session!Init
  BY DEF Init, Session!Init
<1>2. IInv /\ [Next]_vars => [Session!Next]_(Session!vars)
  BY StepSession
<1> QED BY <1>1, <1>2, Invariance, PTL DEF Spec, SessionSpec, Session!Spec
=============================================================================
