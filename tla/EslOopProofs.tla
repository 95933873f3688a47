---------------------------- MODULE EslOopProofs -----------------------------
(***************************************************************************)
(* Events have one owner and walks over their headers are whole, for any   *)
(* number of objects, events and headers.  The invariant says who owns     *)
(* what (Owned), that the headers of an event are its own and distinct     *)
(* (Apart), and where each walk stands in them (Walking).                  *)
(***************************************************************************)
EXTENDS EslOop, SequenceTheorems, FiniteSetTheorems, TLAPS

\* NULL is no event and no header.
Distinct == NULL \notin Events /\ NULL \notin Headers

Object == [alive : BOOLEAN, event : Events \cup {NULL}, mine : BOOLEAN,
           hp : Headers \cup {NULL, Garbage}]

Types ==
  /\ list \in [Events -> Seq(Headers) \cup {Freed}]
  /\ obj \in [Objects -> Object]
  /\ walk \in [Objects -> [sound : BOOLEAN, seen : Seq(Headers)]]

\* Who has an event will free it, exists, and is the only one; an event is
\* there as long as somebody has it.
Owned ==
  /\ \A o \in Objects : obj[o].mine = (obj[o].event # NULL)
  /\ \A o \in Objects : obj[o].event # NULL => obj[o].alive
  /\ \A o, p \in Objects : obj[o].event # NULL /\ obj[o].event = obj[p].event => o = p
  /\ \A e \in Events : list[e] # Freed <=> \E o \in Objects : obj[o].event = e
  /\ \A e \in Events : list[e] # Freed => e \in used

\* No element occurs twice.
Distinct1(s) == \A i, j \in 1 .. Len(s) : s[i] = s[j] => i = j

\* The headers of an event have been allocated, each once.
Apart ==
  \A e \in Events : list[e] # Freed =>
    /\ \A i \in 1 .. Len(list[e]) : list[e][i] \in used
    /\ Distinct1(list[e])

\* Where a walk over s stands that has seen what is before hp.
Stands(s, hp, seen) ==
  \/ hp = NULL /\ seen = s
  \/ \E i \in 1 .. Len(s) : hp = s[i] /\ seen = SubSeq(s, 1, i - 1)

Walking ==
  \A o \in Objects :
    IF walk[o].sound
      THEN obj[o].event # NULL /\ Stands(list[obj[o].event], obj[o].hp, walk[o].seen)
      ELSE walk[o].seen = <<>>

IInv == Types /\ Owned /\ Apart /\ Walking

-----------------------------------------------------------------------------
(* Places in a sequence.                                                   *)

\* An element that occurs once is found where it is.
LEMMA Selected ==
  ASSUME NEW s, Distinct1(s), NEW i \in 1 .. Len(s), NEW g, g = s[i]
  PROVE  LET I == {j \in 1 .. Len(s) : s[j] = g}
         IN (IF I # {} THEN Min(I) ELSE 0) = i
<1>. DEFINE I == {j \in 1 .. Len(s) : s[j] = g}
<1>1. I = {i}
  BY DEF Distinct1
<1>2. Min({i}) = i
  BY DEF Min
<1>. QED
  BY <1>1, <1>2

\* A stretch from the start, element by element.
LEMMA Start ==
  ASSUME NEW s \in Seq(Headers), NEW n \in 0 .. Len(s)
  PROVE  /\ SubSeq(s, 1, n) \in Seq(Headers) /\ Len(SubSeq(s, 1, n)) = n
         /\ \A k \in 1 .. n : SubSeq(s, 1, n)[k] = s[k]
OBVIOUS

\* Without the element at place j, those behind it move up.
LEMMA Removed ==
  ASSUME NEW s \in Seq(Headers), Distinct1(s), NEW j \in 1 .. Len(s)
  PROVE  /\ RemoveFirst(s, s[j]) \in Seq(Headers)
         /\ Len(RemoveFirst(s, s[j])) = Len(s) - 1
         /\ \A k \in 1 .. Len(s) - 1 :
              RemoveFirst(s, s[j])[k] = IF k < j THEN s[k] ELSE s[k + 1]
<1>. DEFINE a == SubSeq(s, 1, j - 1)
            b == SubSeq(s, j + 1, Len(s))
            r == a \o b
<1>1. Len(s) \in Nat /\ j - 1 \in 0 .. Len(s)
  OBVIOUS
<1>2. RemoveFirst(s, s[j]) = r
  <2>1. SelectInSeq(s, LAMBDA h : h = s[j]) = j
    <3>. DEFINE I == {k \in 1 .. Len(s) : s[k] = s[j]}
    <3>1. SelectInSeq(s, LAMBDA h : h = s[j]) = IF I # {} THEN Min(I) ELSE 0
      BY DEF SelectInSeq
    <3>2. (IF I # {} THEN Min(I) ELSE 0) = j
      BY Selected
    <3>. QED
      BY <3>1, <3>2
  <2>2. RemoveFirst(s, s[j]) = RemoveAt(s, SelectInSeq(s, LAMBDA h : h = s[j]))
    BY DEF RemoveFirst
  <2>. QED
    BY <2>1, <2>2 DEF RemoveAt
<1>3. a \in Seq(Headers) /\ Len(a) = j - 1 /\ \A k \in 1 .. j - 1 : a[k] = s[k]
  BY <1>1, Start
<1>4. b \in Seq(Headers) /\ Len(b) = Len(s) - j
      /\ \A k \in 1 .. Len(s) - j : b[k] = s[j + k]
  <2>1. \A k \in j + 1 .. Len(s) : s[k] \in Headers
    BY ElementOfSeq
  <2>2. b \in Seq(Headers)
        /\ Len(b) = (IF j + 1 <= Len(s) THEN Len(s) - (j + 1) + 1 ELSE 0)
        /\ \A k \in 1 .. Len(s) - (j + 1) + 1 : b[k] = s[(j + 1) + k - 1]
    BY <1>1, <2>1, SubSeqProperties
  <2>. HIDE DEF b
  <2>3. Len(b) = Len(s) - j
    BY <1>1, <2>2
  <2>4. ASSUME NEW k \in 1 .. Len(s) - j PROVE b[k] = s[j + k]
    <3>1. k \in 1 .. Len(s) - (j + 1) + 1 /\ (j + 1) + k - 1 = j + k
      BY <1>1
    <3>. QED
      BY <2>2, <3>1
  <2>. QED
    BY <2>2, <2>3, <2>4
<1>. HIDE DEF a, b
<1>5. r \in Seq(Headers) /\ Len(r) = Len(a) + Len(b)
      /\ \A k \in 1 .. Len(a) + Len(b) : r[k] = IF k <= Len(a) THEN a[k] ELSE b[k - Len(a)]
  BY <1>3, <1>4, ConcatProperties
<1>. HIDE DEF r
<1>6. Len(r) = Len(s) - 1
  BY <1>1, <1>3, <1>4, <1>5
<1>7. ASSUME NEW k \in 1 .. Len(s) - 1 PROVE r[k] = IF k < j THEN s[k] ELSE s[k + 1]
  <2>1. k \in 1 .. Len(a) + Len(b)
    BY <1>1, <1>3, <1>4
  <2>2. CASE k < j
    <3>1. k <= Len(a) /\ k \in 1 .. j - 1
      BY <1>1, <1>3, <2>2
    <3>. QED
      BY <1>3, <1>5, <2>1, <2>2, <3>1
  <2>3. CASE ~ (k < j)
    <3>1. ~ (k <= Len(a)) /\ k - Len(a) \in 1 .. Len(s) - j /\ j + (k - Len(a)) = k + 1
      BY <1>1, <1>3, <2>3
    <3>. QED
      BY <1>4, <1>5, <2>1, <2>3, <3>1
  <2>. QED
    BY <2>2, <2>3
<1>. QED
  BY <1>2, <1>5, <1>6, <1>7

\* What does not occur can not be removed.
LEMMA NotRemoved ==
  ASSUME NEW s, NEW h, \A k \in 1 .. Len(s) : s[k] # h
  PROVE  RemoveFirst(s, h) = s
BY DEF RemoveFirst

\* A walk that is not at its end is not touched by a header at the end.
LEMMA StandsAppended ==
  ASSUME NEW s \in Seq(Headers), NEW h \in Headers, NEW hp, hp # NULL,
         NEW seen, Stands(s, hp, seen)
  PROVE  Stands(Append(s, h), hp, seen)
<1>. DEFINE t == Append(s, h)
<1>1. PICK i \in 1 .. Len(s) : hp = s[i] /\ seen = SubSeq(s, 1, i - 1)
  BY DEF Stands
<1>2. t \in Seq(Headers) /\ Len(t) = Len(s) + 1 /\ \A k \in 1 .. Len(s) : t[k] = s[k]
  OBVIOUS
<1>. HIDE DEF t
<1>3. i - 1 \in 0 .. Len(s) /\ i - 1 \in 0 .. Len(t) /\ i \in 1 .. Len(t)
      /\ \A k \in 1 .. i - 1 : k \in 1 .. Len(s)
  BY <1>2
<1>. DEFINE a == SubSeq(s, 1, i - 1)
            b == SubSeq(t, 1, i - 1)
<1>4. a \in Seq(Headers) /\ Len(a) = i - 1 /\ \A k \in 1 .. i - 1 : a[k] = s[k]
  BY <1>3, Start
<1>5. b \in Seq(Headers) /\ Len(b) = i - 1 /\ \A k \in 1 .. i - 1 : b[k] = t[k]
  BY <1>2, <1>3, Start
<1>. HIDE DEF a, b
<1>6. a = b
  BY <1>2, <1>3, <1>4, <1>5, SeqEqual
<1>. QED
  BY <1>1, <1>2, <1>3, <1>6 DEF Stands, a, b, t

\* A walk has seen what comes to the top.
LEMMA StandsPrepended ==
  ASSUME NEW s \in Seq(Headers), NEW h \in Headers, NEW hp, NEW seen,
         Stands(s, hp, seen)
  PROVE  Stands(<<h>> \o s, hp, <<h>> \o seen)
<1>. DEFINE t == <<h>> \o s
<1>1. t \in Seq(Headers) /\ Len(t) = Len(s) + 1 /\ t[1] = h
      /\ \A k \in 1 .. Len(s) : t[k + 1] = s[k]
  OBVIOUS
<1>2. CASE hp = NULL /\ seen = s
  BY <1>2 DEF Stands
<1>3. ASSUME NEW i \in 1 .. Len(s), hp = s[i], seen = SubSeq(s, 1, i - 1)
      PROVE  Stands(<<h>> \o s, hp, <<h>> \o seen)
  <2>. DEFINE a == SubSeq(s, 1, i - 1)
              b == <<h>> \o a
              c == SubSeq(t, 1, i)
  <2>1. i - 1 \in 0 .. Len(s) /\ i \in 0 .. Len(s) + 1 /\ i + 1 \in 1 .. Len(s) + 1
        /\ (i + 1) - 1 = i
    OBVIOUS
  <2>2. a \in Seq(Headers) /\ Len(a) = i - 1 /\ \A k \in 1 .. i - 1 : a[k] = s[k]
    BY <2>1, Start
  <2>. HIDE DEF a
  <2>3. b \in Seq(Headers) /\ Len(b) = i
        /\ b[1] = h /\ \A k \in 1 .. i : k # 1 => b[k] = a[k - 1]
    BY <2>1, <2>2
  <2>. HIDE DEF t
  <2>4. c \in Seq(Headers) /\ Len(c) = i /\ \A k \in 1 .. i : c[k] = t[k]
    BY <1>1, <2>1, Start
  <2>. HIDE DEF b, c
  <2>5. ASSUME NEW k \in 1 .. i PROVE b[k] = c[k]
    <3>1. k # 1 => k - 1 \in 1 .. i - 1 /\ k - 1 \in 1 .. Len(s) /\ (k - 1) + 1 = k
      OBVIOUS
    <3>. QED
      BY <1>1, <2>2, <2>3, <2>4, <3>1
  <2>6. b = c
    BY <2>3, <2>4, <2>5, SeqEqual
  <2>7. t[i + 1] = s[i]
    BY <1>1
  <2>8. Stands(t, hp, b)
    BY <1>1, <1>3, <2>1, <2>6, <2>7 DEF Stands, c
  <2>. QED
    BY <1>3, <2>8 DEF a, b, t
<1>. QED
  BY <1>2, <1>3 DEF Stands

\* A walk goes on without a header it does not stand on.
LEMMA StandsRemoved ==
  ASSUME NEW s \in Seq(Headers), Distinct1(s), NEW h, NEW j \in 1 .. Len(s), h = s[j],
         NEW hp, hp # h, NEW seen, Stands(s, hp, seen)
  PROVE  /\ Stands(RemoveFirst(s, h), hp, RemoveFirst(seen, h))
         /\ RemoveFirst(seen, h) \in Seq(Headers)
<1>. DEFINE r == RemoveFirst(s, h)
<1>1. r \in Seq(Headers) /\ Len(r) = Len(s) - 1
      /\ \A k \in 1 .. Len(s) - 1 : r[k] = IF k < j THEN s[k] ELSE s[k + 1]
  BY Removed
<1>2. CASE hp = NULL /\ seen = s
  BY <1>1, <1>2 DEF Stands
<1>3. ASSUME NEW i \in 1 .. Len(s), hp = s[i], seen = SubSeq(s, 1, i - 1)
      PROVE  Stands(r, hp, RemoveFirst(seen, h)) /\ RemoveFirst(seen, h) \in Seq(Headers)
  <2>. DEFINE a == SubSeq(s, 1, i - 1)
              q == RemoveFirst(a, h)
  <2>1. i - 1 \in 0 .. Len(s) /\ Len(s) \in Nat /\ i # j
    BY <1>3
  <2>2. a \in Seq(Headers) /\ Len(a) = i - 1 /\ \A k \in 1 .. i - 1 : a[k] = s[k]
    BY <2>1, Start
  <2>. HIDE DEF a, r
  <2>3. Distinct1(a)
    BY <2>1, <2>2 DEF Distinct1
  <2>4. CASE j < i
    <3>. DEFINE b == SubSeq(r, 1, i - 2)
    <3>1. j \in 1 .. Len(a) /\ a[j] = h
      BY <2>1, <2>2, <2>4
    <3>2. q \in Seq(Headers) /\ Len(q) = Len(a) - 1
          /\ \A k \in 1 .. Len(a) - 1 : q[k] = IF k < j THEN a[k] ELSE a[k + 1]
      BY <2>2, <2>3, <3>1, Removed
    <3>3. i - 2 \in 0 .. Len(r) /\ Len(a) - 1 = i - 2 /\ (i - 1) - 1 = i - 2
          /\ i - 1 \in 1 .. Len(r) /\ i - 1 \in 1 .. Len(s) - 1 /\ ~ (i - 1 < j)
          /\ (i - 1) + 1 = i
      BY <1>1, <2>1, <2>2, <2>4
    <3>4. b \in Seq(Headers) /\ Len(b) = i - 2 /\ \A k \in 1 .. i - 2 : b[k] = r[k]
      BY <1>1, <3>3, Start
    <3>. HIDE DEF b, q
    <3>5. ASSUME NEW k \in 1 .. i - 2 PROVE q[k] = b[k]
      <4>1. k \in 1 .. i - 1 /\ k + 1 \in 1 .. i - 1 /\ k \in 1 .. Len(s) - 1
        BY <2>1
      <4>. QED
        BY <1>1, <2>2, <3>2, <3>3, <3>4, <4>1
    <3>6. q = b
      BY <3>2, <3>3, <3>4, <3>5, SeqEqual
    <3>7. r[i - 1] = s[i]
      BY <1>1, <3>3
    <3>. QED
      BY <1>3, <3>2, <3>3, <3>6, <3>7 DEF Stands, b, q, a
  <2>5. CASE ~ (j < i)
    <3>. DEFINE b == SubSeq(r, 1, i - 1)
    <3>1. \A k \in 1 .. Len(a) : a[k] # h
      <4>1. \A k \in 1 .. i - 1 : k \in 1 .. Len(s) /\ k # j
        BY <2>1, <2>5
      <4>. QED
        BY <2>2, <4>1 DEF Distinct1
    <3>2. q = a
      BY <3>1, NotRemoved
    <3>3. i - 1 \in 0 .. Len(r) /\ i \in 1 .. Len(r) /\ i \in 1 .. Len(s) - 1 /\ i < j
          /\ \A k \in 1 .. i - 1 : k \in 1 .. Len(s) - 1 /\ k < j
      BY <1>1, <2>1, <2>5
    <3>4. b \in Seq(Headers) /\ Len(b) = i - 1 /\ \A k \in 1 .. i - 1 : b[k] = r[k]
      BY <1>1, <3>3, Start
    <3>. HIDE DEF b
    <3>5. a = b
      BY <1>1, <2>2, <3>3, <3>4, SeqEqual
    <3>6. r[i] = s[i]
      BY <1>1, <3>3
    <3>. QED
      BY <1>3, <2>2, <3>2, <3>3, <3>5, <3>6 DEF Stands, b, q, a
  <2>. QED
    BY <2>4, <2>5
<1>. QED
  BY <1>2, <1>3 DEF Stands

\* A walk that shows the header it stands on goes on to the next one.
LEMMA StandsNext ==
  ASSUME NEW s \in Seq(Headers), Distinct1(s), NEW hp, hp # NULL, NEW seen,
         Stands(s, hp, seen)
  PROVE  Stands(s, After(s, hp), Append(seen, hp))
<1>1. PICK i \in 1 .. Len(s) : hp = s[i] /\ seen = SubSeq(s, 1, i - 1)
  BY DEF Stands
<1>2. After(s, hp) = IF i = Len(s) THEN NULL ELSE s[i + 1]
  <2>. DEFINE c == CHOOSE k \in DOMAIN s : s[k] = hp
  <2>1. DOMAIN s = 1 .. Len(s)
    OBVIOUS
  <2>2. c \in 1 .. Len(s) /\ s[c] = hp
    BY <1>1, <2>1
  <2>3. c = i
    <3>. HIDE DEF c
    <3>. QED
      BY <1>1, <2>2 DEF Distinct1
  <2>4. After(s, hp) = IF c = Len(s) THEN NULL ELSE s[c + 1]
    BY DEF After
  <2>. QED
    BY <2>3, <2>4
<1>3. Append(seen, hp) = SubSeq(s, 1, i)
  <2>. DEFINE a == SubSeq(s, 1, i - 1)
              b == Append(a, s[i])
              c == SubSeq(s, 1, i)
  <2>1. i - 1 \in 0 .. Len(s) /\ i \in 0 .. Len(s) /\ s[i] \in Headers
    BY ElementOfSeq
  <2>2. a \in Seq(Headers) /\ Len(a) = i - 1 /\ \A k \in 1 .. i - 1 : a[k] = s[k]
    BY <2>1, Start
  <2>3. c \in Seq(Headers) /\ Len(c) = i /\ \A k \in 1 .. i : c[k] = s[k]
    BY <2>1, Start
  <2>. HIDE DEF a, c
  <2>4. b \in Seq(Headers) /\ Len(b) = i /\ b[i] = s[i]
        /\ \A k \in 1 .. i - 1 : b[k] = a[k]
    BY <2>1, <2>2
  <2>. HIDE DEF b
  <2>5. ASSUME NEW k \in 1 .. i PROVE b[k] = c[k]
    <3>1. k = i \/ k \in 1 .. i - 1
      OBVIOUS
    <3>. QED
      BY <2>2, <2>3, <2>4, <3>1
  <2>6. b = c
    BY <2>3, <2>4, <2>5, SeqEqual
  <2>. QED
    BY <1>1, <2>6 DEF a, b, c
<1>4. CASE i = Len(s)
  <2>1. SubSeq(s, 1, i) = s
    BY <1>4, SubSeqFull
  <2>. QED
    BY <1>2, <1>3, <1>4, <2>1 DEF Stands
<1>5. CASE i # Len(s)
  <2>1. i + 1 \in 1 .. Len(s) /\ (i + 1) - 1 = i
    BY <1>5
  <2>. QED
    BY <1>2, <1>3, <1>5, <2>1 DEF Stands
<1>. QED
  BY <1>4, <1>5

-----------------------------------------------------------------------------
(* The operations.                                                         *)

\* The state after a step, in the words of the invariant.
OwnedNext ==
  /\ \A o \in Objects : obj'[o].mine = (obj'[o].event # NULL)
  /\ \A o \in Objects : obj'[o].event # NULL => obj'[o].alive
  /\ \A o, p \in Objects : obj'[o].event # NULL /\ obj'[o].event = obj'[p].event => o = p
  /\ \A e \in Events : list'[e] # Freed <=> \E o \in Objects : obj'[o].event = e
  /\ \A e \in Events : list'[e] # Freed => e \in used'
ApartNext ==
  \A e \in Events : list'[e] # Freed =>
    /\ \A i \in 1 .. Len(list'[e]) : list'[e][i] \in used'
    /\ Distinct1(list'[e])
WalkingNext ==
  \A o \in Objects :
    IF walk'[o].sound
      THEN obj'[o].event # NULL /\ Stands(list'[obj'[o].event], obj'[o].hp, walk'[o].seen)
      ELSE walk'[o].seen = <<>>

LEMMA NextForms ==
  /\ Owned' <=> OwnedNext
  /\ Apart' <=> ApartNext
  /\ Walking' <=> WalkingNext
BY Zenon DEF Owned, OwnedNext, Apart, ApartNext, Walking, WalkingNext, Freed,
             Distinct1, Stands

\* Freed is the list of no event.
LEMMA FreedApart ==
  ASSUME Distinct
  PROVE  Freed \notin Seq(Headers)
<1>1. Freed[1] = NULL /\ Len(Freed) = 1
  BY DEF Freed
<1>2. Freed \in Seq(Headers) => Freed[1] \in Headers
  BY <1>1, ElementOfSeq
<1>. QED
  BY <1>1, <1>2 DEF Distinct

\* An operation that changes the list of one event and of its object no more
\* than the iterator keeps the owners.
LEMMA OwnersStay ==
  ASSUME Distinct, Types, Owned, NEW o \in Objects, obj[o].event # NULL,
         NEW s \in Seq(Headers), list' = [list EXCEPT ![obj[o].event] = s],
         used \subseteq used',
         NEW hp \in Headers \cup {NULL, Garbage}, obj' = [obj EXCEPT ![o].hp = hp]
  PROVE  OwnedNext
<1>1. obj \in [Objects -> Object] /\ list \in [Events -> Seq(Headers) \cup {Freed}]
  BY DEF Types
<1>2. \A p \in Objects : /\ obj'[p].event = obj[p].event
                         /\ obj'[p].mine = obj[p].mine
                         /\ obj'[p].alive = obj[p].alive
  BY <1>1 DEF Object
<1>3. obj[o].event \in Events
  BY <1>1 DEF Object
<1>4. \A e \in Events : list'[e] # Freed <=> list[e] # Freed
  BY <1>1, <1>3, FreedApart DEF Owned
<1>. QED
  BY <1>2, <1>4 DEF Owned, OwnedNext

\* It also keeps the other lists.
LEMMA ListsStay ==
  ASSUME Distinct, Types, Owned, Apart, NEW o \in Objects, obj[o].event # NULL,
         NEW s \in Seq(Headers), list' = [list EXCEPT ![obj[o].event] = s],
         used \subseteq used', Distinct1(s), \A i \in 1 .. Len(s) : s[i] \in used'
  PROVE  ApartNext
<1>1. \A e \in Events : list'[e] = IF e = obj[o].event THEN s ELSE list[e]
  BY DEF Types
<1>2. ASSUME NEW e \in Events, list'[e] # Freed
      PROVE  /\ \A i \in 1 .. Len(list'[e]) : list'[e][i] \in used'
             /\ Distinct1(list'[e])
  <2>1. CASE e = obj[o].event
    BY <1>1, <2>1
  <2>2. CASE e # obj[o].event
    BY <1>1, <1>2, <2>2 DEF Apart
  <2>. QED
    BY <2>1, <2>2
<1>. QED
  BY <1>2, Zenon DEF ApartNext

\* And the walks of the other objects.
LEMMA WalksStay ==
  ASSUME Distinct, Types, Owned, Walking, NEW o \in Objects, obj[o].event # NULL,
         NEW s \in Seq(Headers), list' = [list EXCEPT ![obj[o].event] = s],
         NEW hp \in Headers \cup {NULL, Garbage}, obj' = [obj EXCEPT ![o].hp = hp],
         NEW w, walk' = [walk EXCEPT ![o] = w],
         w.sound => Stands(s, hp, w.seen),
         ~ w.sound => w.seen = <<>>
  PROVE  WalkingNext
<1>1. obj \in [Objects -> Object] /\ list \in [Events -> Seq(Headers) \cup {Freed}]
      /\ walk \in [Objects -> [sound : BOOLEAN, seen : Seq(Headers)]]
  BY DEF Types
<1>2. obj[o].event \in Events
  BY <1>1 DEF Object
<1>3. ASSUME NEW p \in Objects
      PROVE  IF walk'[p].sound
               THEN /\ obj'[p].event # NULL
                    /\ Stands(list'[obj'[p].event], obj'[p].hp, walk'[p].seen)
               ELSE walk'[p].seen = <<>>
  <2>1. CASE p = o
    <3>1. obj'[p].event = obj[o].event /\ obj'[p].hp = hp /\ walk'[p] = w
      BY <1>1, <2>1 DEF Object
    <3>2. list'[obj[o].event] = s
      BY <1>1, <1>2
    <3>. QED
      BY <1>3, <3>1, <3>2
  <2>2. CASE p # o
    <3>1. obj'[p] = obj[p] /\ walk'[p] = walk[p]
      BY <1>1, <2>2
    <3>2. IF walk[p].sound
            THEN obj[p].event # NULL /\ Stands(list[obj[p].event], obj[p].hp, walk[p].seen)
            ELSE walk[p].seen = <<>>
      BY DEF Walking
    <3>3. obj[p].event # NULL => obj[p].event # obj[o].event
      BY <2>2 DEF Owned
    <3>4. obj[p].event # NULL => list'[obj[p].event] = list[obj[p].event]
      <4>1. obj[p].event # NULL => obj[p].event \in Events
        BY <1>1 DEF Object
      <4>. QED
        BY <1>1, <3>3, <4>1
    <3>. QED
      BY <3>1, <3>2, <3>4
  <2>. QED
    BY <2>1, <2>2
<1>. QED
  BY <1>3, Zenon DEF WalkingNext

\* All three together, with the types.
LEMMA ChangedList ==
  ASSUME Distinct, IInv, NEW o \in Objects, obj[o].event # NULL,
         NEW s \in Seq(Headers), list' = [list EXCEPT ![obj[o].event] = s],
         used \subseteq used', Distinct1(s), \A i \in 1 .. Len(s) : s[i] \in used',
         NEW hp \in Headers \cup {NULL, Garbage}, obj' = [obj EXCEPT ![o].hp = hp],
         NEW w \in [sound : BOOLEAN, seen : Seq(Headers)],
         walk' = [walk EXCEPT ![o] = w],
         w.sound => Stands(s, hp, w.seen), ~ w.sound => w.seen = <<>>
  PROVE  IInv'
<1>1. Types /\ Owned /\ Apart /\ Walking
  BY DEF IInv
<1>2. list' \in [Events -> Seq(Headers) \cup {Freed}]
      /\ walk' \in [Objects -> [sound : BOOLEAN, seen : Seq(Headers)]]
  BY <1>1 DEF Types
<1>3. obj' \in [Objects -> Object]
  <2>1. obj[o] \in Object /\ obj \in [Objects -> Object]
    BY <1>1 DEF Types
  <2>2. [obj[o] EXCEPT !.hp = hp] \in Object
    BY <2>1, Zenon DEF Object
  <2>. QED
    BY <2>1, <2>2
<1>4. OwnedNext
  BY <1>1, OwnersStay
<1>5. ApartNext
  BY <1>1, ListsStay
<1>6. WalkingNext
  BY <1>1, WalksStay
<1>. QED
  BY <1>2, <1>3, <1>4, <1>5, <1>6, NextForms DEF IInv, Types, Freed

\* The list, the object and the walk of an object that has an event.
LEMMA OwnList ==
  ASSUME Distinct, IInv, NEW o \in Objects, obj[o].event # NULL
  PROVE  /\ obj[o].event \in Events /\ obj \in [Objects -> Object]
         /\ list \in [Events -> Seq(Headers) \cup {Freed}]
         /\ list[obj[o].event] \in Seq(Headers)
         /\ Distinct1(list[obj[o].event])
         /\ \A i \in 1 .. Len(list[obj[o].event]) : list[obj[o].event][i] \in used
         /\ obj[o].hp \in Headers \cup {NULL, Garbage}
         /\ walk \in [Objects -> [sound : BOOLEAN, seen : Seq(Headers)]]
         /\ walk[o] \in [sound : BOOLEAN, seen : Seq(Headers)]
         /\ walk[o].sound => Stands(list[obj[o].event], obj[o].hp, walk[o].seen)
         /\ ~ walk[o].sound => walk[o].seen = <<>>
<1>1. /\ obj \in [Objects -> Object] /\ list \in [Events -> Seq(Headers) \cup {Freed}]
      /\ walk \in [Objects -> [sound : BOOLEAN, seen : Seq(Headers)]]
  BY DEF IInv, Types
<1>2. obj[o].event \in Events /\ obj[o].hp \in Headers \cup {NULL, Garbage}
  BY <1>1 DEF Object
<1>3. list[obj[o].event] # Freed
  BY <1>2 DEF IInv, Owned
<1>. QED
  BY <1>1, <1>2, <1>3 DEF IInv, Apart, Walking

\* A new header at the end.
LEMMA AddStep ==
  ASSUME Distinct, IInv, NEW o \in Objects, NEW h \in Headers, addHeader(o, h)
  PROVE  IInv'
<1>. DEFINE s == list[obj[o].event]
            t == Append(s, h)
            w == IF obj[o].hp = NULL THEN Broken ELSE walk[o]
<1>1. /\ obj[o].event # NULL /\ h \notin used /\ used' = used \cup {h} /\ obj' = obj
      /\ list' = [list EXCEPT ![obj[o].event] = Append(@, h)]
      /\ walk' = IF obj[o].hp = NULL THEN [walk EXCEPT ![o] = Broken] ELSE walk
  BY DEF addHeader
<1>2. /\ obj[o].event \in Events /\ obj \in [Objects -> Object]
      /\ list \in [Events -> Seq(Headers) \cup {Freed}]
      /\ s \in Seq(Headers) /\ Distinct1(s)
      /\ \A i \in 1 .. Len(s) : s[i] \in used
      /\ obj[o].hp \in Headers \cup {NULL, Garbage}
      /\ walk \in [Objects -> [sound : BOOLEAN, seen : Seq(Headers)]]
      /\ walk[o] \in [sound : BOOLEAN, seen : Seq(Headers)]
      /\ walk[o].sound => Stands(s, obj[o].hp, walk[o].seen)
      /\ ~ walk[o].sound => walk[o].seen = <<>>
  BY <1>1, OwnList
<1>3. list' = [list EXCEPT ![obj[o].event] = t]
  BY <1>1, <1>2
<1>4. obj' = [obj EXCEPT ![o].hp = obj[o].hp]
  BY <1>1, <1>2 DEF Object
<1>5. walk' = [walk EXCEPT ![o] = w]
  BY <1>1, <1>2
<1>6. w \in [sound : BOOLEAN, seen : Seq(Headers)] /\ ~ Broken.sound
  BY <1>2 DEF Broken
<1>. HIDE DEF s
<1>7. t \in Seq(Headers) /\ Len(t) = Len(s) + 1 /\ t[Len(s) + 1] = h
      /\ \A k \in 1 .. Len(s) : t[k] = s[k]
  BY <1>2
<1>. HIDE DEF t
<1>8. Distinct1(t) /\ \A i \in 1 .. Len(t) : t[i] \in used'
  <2>1. \A i \in 1 .. Len(t) : i = Len(s) + 1 \/ i \in 1 .. Len(s)
    BY <1>2, <1>7
  <2>. QED
    BY <1>1, <1>2, <1>7, <2>1 DEF Distinct1
<1>9. (w.sound => Stands(t, obj[o].hp, w.seen)) /\ (~ w.sound => w.seen = <<>>)
  BY <1>2, <1>6, StandsAppended DEF t, Broken
<1>10. w \in [sound : BOOLEAN, seen : Seq(Headers)] /\ used \subseteq used'
  BY <1>1, <1>2, <1>6
<1>. HIDE DEF w
<1>. QED
  BY <1>1, <1>2, <1>3, <1>4, <1>5, <1>7, <1>8, <1>9, <1>10, ChangedList, Zenon

\* A new header at the top.
LEMMA PriorityStep ==
  ASSUME Distinct, IInv, NEW o \in Objects, NEW h \in Headers, setPriority(o, h)
  PROVE  IInv'
<1>. DEFINE s == list[obj[o].event]
            t == <<h>> \o s
            w == [walk[o] EXCEPT !.seen = IF walk[o].sound THEN <<h>> \o @ ELSE @]
<1>1. /\ obj[o].event # NULL /\ h \notin used /\ used' = used \cup {h} /\ obj' = obj
      /\ list' = [list EXCEPT ![obj[o].event] = <<h>> \o @]
      /\ walk' = [walk EXCEPT ![o].seen = IF walk[o].sound THEN <<h>> \o @ ELSE @]
  BY DEF setPriority
<1>2. /\ obj[o].event \in Events /\ obj \in [Objects -> Object]
      /\ list \in [Events -> Seq(Headers) \cup {Freed}]
      /\ s \in Seq(Headers) /\ Distinct1(s)
      /\ \A i \in 1 .. Len(s) : s[i] \in used
      /\ obj[o].hp \in Headers \cup {NULL, Garbage}
      /\ walk \in [Objects -> [sound : BOOLEAN, seen : Seq(Headers)]]
      /\ walk[o] \in [sound : BOOLEAN, seen : Seq(Headers)]
      /\ walk[o].sound => Stands(s, obj[o].hp, walk[o].seen)
      /\ ~ walk[o].sound => walk[o].seen = <<>>
  BY <1>1, OwnList
<1>3. list' = [list EXCEPT ![obj[o].event] = t]
  BY <1>1, <1>2
<1>4. obj' = [obj EXCEPT ![o].hp = obj[o].hp]
  BY <1>1, <1>2 DEF Object
<1>5. walk' = [walk EXCEPT ![o] = w]
  BY <1>1, <1>2
<1>6. w \in [sound : BOOLEAN, seen : Seq(Headers)]
      /\ IF walk[o].sound THEN w.sound /\ w.seen = <<h>> \o walk[o].seen
         ELSE ~ w.sound /\ w.seen = <<>>
  <2>1. CASE walk[o].sound
    <3>1. w = [walk[o] EXCEPT !.seen = <<h>> \o @]
      BY <2>1
    <3>2. <<h>> \o walk[o].seen \in Seq(Headers)
      BY <1>2
    <3>. HIDE DEF w
    <3>. QED
      BY <1>2, <2>1, <3>1, <3>2
  <2>2. CASE ~ walk[o].sound
    <3>1. w = walk[o]
      BY <1>2, <2>2
    <3>. HIDE DEF w
    <3>. QED
      BY <1>2, <2>2, <3>1
  <2>. QED
    BY <2>1, <2>2
<1>. HIDE DEF s, w
<1>7. t \in Seq(Headers) /\ Len(t) = Len(s) + 1 /\ t[1] = h
      /\ \A k \in 1 .. Len(s) : t[k + 1] = s[k]
  BY <1>2
<1>8. (w.sound => Stands(t, obj[o].hp, w.seen)) /\ (~ w.sound => w.seen = <<>>)
  <2>1. CASE walk[o].sound
    <3>1. Stands(t, obj[o].hp, <<h>> \o walk[o].seen)
      BY <1>2, <2>1, StandsPrepended
    <3>. HIDE DEF t
    <3>. QED
      BY <1>6, <2>1, <3>1
  <2>2. CASE ~ walk[o].sound
    <3>. HIDE DEF t
    <3>. QED
      BY <1>6, <2>2
  <2>. QED
    BY <2>1, <2>2
<1>. HIDE DEF t
<1>9. Distinct1(t) /\ \A i \in 1 .. Len(t) : t[i] \in used'
  <2>1. \A i \in 1 .. Len(t) : i = 1 \/ (i - 1 \in 1 .. Len(s) /\ (i - 1) + 1 = i)
    BY <1>2, <1>7
  <2>2. \A i \in 1 .. Len(t) : i = 1 \/ (t[i] = s[i - 1] /\ t[i] \in used)
    BY <1>2, <1>7, <2>1
  <2>3. \A i, j \in 1 .. Len(t) : i # 1 /\ j # 1 /\ t[i] = t[j] => i - 1 = j - 1
    BY <1>2, <2>1, <2>2 DEF Distinct1
  <2>4. \A i, j \in 1 .. Len(t) : t[i] = t[j] => i = j
    BY <1>1, <1>7, <2>2, <2>3
  <2>. QED
    BY <1>1, <1>7, <2>2, <2>4 DEF Distinct1
<1>. QED
  BY <1>1, <1>2, <1>3, <1>4, <1>5, <1>6, <1>7, <1>8, <1>9, ChangedList

\* A header less.
LEMMA DelStep ==
  ASSUME Distinct, IInv, NEW o \in Objects, NEW h \in Headers, delHeader(o, h)
  PROVE  IInv'
<1>. DEFINE s == list[obj[o].event]
            t == RemoveFirst(s, h)
            w == IF obj[o].hp = h THEN Broken
                 ELSE [walk[o] EXCEPT !.seen = RemoveFirst(@, h)]
<1>1. /\ obj[o].event # NULL /\ Contains(s, h) /\ used' = used /\ obj' = obj
      /\ list' = [list EXCEPT ![obj[o].event] = RemoveFirst(@, h)]
      /\ walk' = [walk EXCEPT ![o] = IF obj[o].hp = h THEN Broken
                                     ELSE [walk[o] EXCEPT !.seen = RemoveFirst(@, h)]]
  BY DEF delHeader
<1>2. /\ obj[o].event \in Events /\ obj \in [Objects -> Object]
      /\ list \in [Events -> Seq(Headers) \cup {Freed}]
      /\ s \in Seq(Headers) /\ Distinct1(s)
      /\ \A i \in 1 .. Len(s) : s[i] \in used
      /\ obj[o].hp \in Headers \cup {NULL, Garbage}
      /\ walk \in [Objects -> [sound : BOOLEAN, seen : Seq(Headers)]]
      /\ walk[o] \in [sound : BOOLEAN, seen : Seq(Headers)]
      /\ walk[o].sound => Stands(s, obj[o].hp, walk[o].seen)
      /\ ~ walk[o].sound => walk[o].seen = <<>>
  BY <1>1, OwnList
<1>3. list' = [list EXCEPT ![obj[o].event] = t]
  BY <1>1, <1>2
<1>4. obj' = [obj EXCEPT ![o].hp = obj[o].hp]
  BY <1>1, <1>2 DEF Object
<1>5. walk' = [walk EXCEPT ![o] = w]
  BY Zenon DEF delHeader
<1>. HIDE DEF s
<1>6. PICK j \in 1 .. Len(s) : s[j] = h
  BY <1>1 DEF Contains
<1>7. t \in Seq(Headers) /\ Len(t) = Len(s) - 1
      /\ \A k \in 1 .. Len(s) - 1 : t[k] = IF k < j THEN s[k] ELSE s[k + 1]
  BY <1>2, <1>6, Removed
<1>8. Distinct1(t) /\ \A i \in 1 .. Len(t) : t[i] \in used'
  <2>. HIDE DEF t
  <2>1. \A k \in 1 .. Len(t) : k \in 1 .. Len(s) /\ k + 1 \in 1 .. Len(s) /\ k \in 1 .. Len(s) - 1
    BY <1>2, <1>7
  <2>2. ASSUME NEW k \in 1 .. Len(t), NEW l \in 1 .. Len(t), t[k] = t[l] PROVE k = l
    <3>1. t[k] = (IF k < j THEN s[k] ELSE s[k + 1]) /\ t[l] = IF l < j THEN s[l] ELSE s[l + 1]
      BY <1>7, <2>1
    <3>2. (IF k < j THEN k ELSE k + 1) = IF l < j THEN l ELSE l + 1
      BY <1>2, <2>1, <2>2, <3>1 DEF Distinct1
    <3>. QED
      BY <3>2
  <2>3. \A k \in 1 .. Len(t) : t[k] \in used
    BY <1>2, <1>7, <2>1
  <2>. QED
    BY <1>1, <2>2, <2>3 DEF Distinct1
<1>9. /\ w \in [sound : BOOLEAN, seen : Seq(Headers)]
      /\ w.sound => Stands(t, obj[o].hp, w.seen)
      /\ ~ w.sound => w.seen = <<>>
  <2>1. CASE obj[o].hp = h
    BY <2>1 DEF Broken
  <2>2. CASE obj[o].hp # h
    <3>. DEFINE q == RemoveFirst(walk[o].seen, h)
    <3>1. w = [walk[o] EXCEPT !.seen = q]
      BY <2>2
    <3>2. walk[o].sound => Stands(t, obj[o].hp, q) /\ q \in Seq(Headers)
      BY <1>2, <1>6, <2>2, StandsRemoved
    <3>3. ~ walk[o].sound => q = <<>>
      BY <1>2 DEF RemoveFirst
    <3>. HIDE DEF w, q, t
    <3>. QED
      BY <1>2, <3>1, <3>2, <3>3
  <2>. QED
    BY <2>1, <2>2
<1>. HIDE DEF t, w
<1>10. /\ used \subseteq used' /\ obj[o].event # NULL /\ t \in Seq(Headers)
       /\ obj[o].hp \in Headers \cup {NULL, Garbage}
  BY <1>1, <1>2, <1>7
<1>. QED
  BY <1>3, <1>4, <1>5, <1>8, <1>9, <1>10, ChangedList, Zenon

\* The walk starts, or goes on: lists and owners are what they were.
LEMMA WalkStep ==
  ASSUME Distinct, IInv, NEW o \in Objects, firstHeader(o) \/ nextHeader(o)
  PROVE  IInv'
<1>. DEFINE s == list[obj[o].event]
<1>1. obj[o].event # NULL /\ list' = list /\ used' = used
  BY DEF firstHeader, nextHeader, IInv, Walking
<1>2. /\ obj[o].event \in Events /\ obj \in [Objects -> Object]
      /\ list \in [Events -> Seq(Headers) \cup {Freed}]
      /\ s \in Seq(Headers) /\ Distinct1(s)
      /\ \A i \in 1 .. Len(s) : s[i] \in used
      /\ obj[o].hp \in Headers \cup {NULL, Garbage}
      /\ walk \in [Objects -> [sound : BOOLEAN, seen : Seq(Headers)]]
      /\ walk[o] \in [sound : BOOLEAN, seen : Seq(Headers)]
      /\ walk[o].sound => Stands(s, obj[o].hp, walk[o].seen)
  BY <1>1, OwnList
<1>3. list' = [list EXCEPT ![obj[o].event] = s] /\ used \subseteq used'
      /\ \A i \in 1 .. Len(s) : s[i] \in used'
  BY <1>1, <1>2
<1>4. ASSUME firstHeader(o) PROVE IInv'
  <2>. DEFINE hp == IF s = <<>> THEN NULL ELSE Head(s)
              w == Walk(<<>>)
  <2>1. obj' = [obj EXCEPT ![o].hp = hp] /\ walk' = [walk EXCEPT ![o] = w]
    BY <1>4 DEF firstHeader
  <2>2. w \in [sound : BOOLEAN, seen : Seq(Headers)] /\ w.sound /\ w.seen = <<>>
    BY DEF Walk
  <2>. HIDE DEF s
  <2>3. hp \in Headers \cup {NULL, Garbage} /\ Stands(s, hp, <<>>)
    <3>1. CASE s = <<>>
      BY <3>1 DEF Stands
    <3>2. CASE s # <<>>
      <4>1. 1 \in 1 .. Len(s) /\ hp = s[1] /\ s[1] \in Headers /\ 1 - 1 < 1
            /\ 1 \in Int /\ 1 - 1 \in Int
        BY <1>2, <3>2, EmptySeq, ElementOfSeq
      <4>2. SubSeq(s, 1, 1 - 1) = <<>>
        BY <4>1, SubSeqEmpty
      <4>. QED
        BY <4>1, <4>2 DEF Stands
    <3>. QED
      BY <3>1, <3>2
  <2>. HIDE DEF hp, w
  <2>4. (w.sound => Stands(s, hp, w.seen)) /\ (~ w.sound => w.seen = <<>>)
    BY <2>2, <2>3
  <2>. QED
    BY <1>1, <1>2, <1>3, <2>1, <2>2, <2>3, <2>4, ChangedList
<1>5. ASSUME nextHeader(o) PROVE IInv'
  <2>. DEFINE hp == After(s, obj[o].hp)
              w == [walk[o] EXCEPT !.seen = Append(@, obj[o].hp)]
  <2>1. obj' = [obj EXCEPT ![o].hp = hp] /\ walk' = [walk EXCEPT ![o] = w]
        /\ walk[o].sound /\ obj[o].hp # NULL
    BY <1>2, <1>5 DEF nextHeader
  <2>. HIDE DEF s
  <2>2. Stands(s, obj[o].hp, walk[o].seen)
    BY <1>2, <2>1
  <2>3. Stands(s, hp, Append(walk[o].seen, obj[o].hp))
    BY <1>2, <2>1, <2>2, StandsNext
  <2>4. obj[o].hp \in Headers
    BY <1>2, <2>1, <2>2, ElementOfSeq DEF Stands
  <2>5. Append(walk[o].seen, obj[o].hp) \in Seq(Headers)
    BY <1>2, <2>4
  <2>6. /\ w \in [sound : BOOLEAN, seen : Seq(Headers)] /\ w.sound
        /\ w.seen = Append(walk[o].seen, obj[o].hp)
    BY <1>2, <2>1, <2>5
  <2>. HIDE DEF hp, w
  <2>7. hp \in Headers \cup {NULL, Garbage}
    BY <1>2, <2>3, ElementOfSeq DEF Stands
  <2>8. (w.sound => Stands(s, hp, w.seen)) /\ (~ w.sound => w.seen = <<>>)
    BY <2>3, <2>6
  <2>. QED
    BY <1>1, <1>2, <1>3, <2>1, <2>6, <2>7, <2>8, ChangedList
<1>. QED
  BY <1>4, <1>5

\* A new object.
LEMMA CreateStep ==
  ASSUME Distinct, IInv, NEW o \in Objects,
         (\E e \in Events : Create(o, e)) \/ CreateFails(o)
  PROVE  IInv'
<1>1. /\ obj \in [Objects -> Object] /\ list \in [Events -> Seq(Headers) \cup {Freed}]
      /\ walk \in [Objects -> [sound : BOOLEAN, seen : Seq(Headers)]]
  BY DEF IInv, Types
<1>2. Broken \in [sound : BOOLEAN, seen : Seq(Headers)] /\ ~ Broken.sound /\ Broken.seen = <<>>
  BY DEF Broken
<1>3. walk' = [walk EXCEPT ![o] = Broken] /\ ~ obj[o].alive
  BY DEF Create, CreateFails
<1>4. walk' \in [Objects -> [sound : BOOLEAN, seen : Seq(Headers)]]
      /\ \A p \in Objects : walk'[p] = IF p = o THEN Broken ELSE walk[p]
  BY <1>1, <1>2, <1>3
<1>5. obj[o].event = NULL
  BY <1>3 DEF IInv, Owned
<1>6. ASSUME NEW e \in Events, Create(o, e) PROVE IInv'
  <2>. DEFINE c == [alive |-> TRUE, event |-> e, mine |-> TRUE, hp |-> NULL]
  <2>1. PICK s \in {<<>>} \cup {<<h>> : h \in Headers \ used} :
          list' = [list EXCEPT ![e] = s] /\ used' = used \cup {e} \cup Range(s)
    BY <1>6 DEF Create
  <2>2. s \in Seq(Headers) /\ Distinct1(s) /\ \A i \in 1 .. Len(s) : s[i] \in Range(s)
    <3>1. s \in Seq(Headers) /\ Len(s) \in {0, 1}
      <4>1. CASE s = <<>>
        BY <4>1
      <4>2. ASSUME NEW h \in Headers, s = <<h>> PROVE s \in Seq(Headers) /\ Len(s) \in {0, 1}
        BY <4>2
      <4>. QED
        BY <2>1, <4>1, <4>2
    <3>2. Distinct1(s)
      BY <3>1 DEF Distinct1
    <3>3. \A i \in 1 .. Len(s) : s[i] \in Range(s)
      <4>1. DOMAIN s = 1 .. Len(s)
        BY <3>1
      <4>. QED
        BY <4>1, Zenon DEF Range
    <3>. QED
      BY <3>1, <3>2, <3>3
  <2>3. e \notin used /\ obj' = [obj EXCEPT ![o] = c]
    BY <1>6 DEF Create
  <2>4. c \in Object
    BY DEF Object
  <2>5. obj' \in [Objects -> Object] /\ \A p \in Objects : obj'[p] = IF p = o THEN c ELSE obj[p]
    <3>. HIDE DEF c
    <3>. QED
      BY <1>1, <2>3, <2>4
  <2>6. /\ list' \in [Events -> Seq(Headers) \cup {Freed}]
        /\ \A d \in Events : list'[d] = IF d = e THEN s ELSE list[d]
    BY <1>1, <2>1, <2>2
  <2>7. list[e] = Freed /\ \A p \in Objects : obj[p].event # e
    BY <2>3 DEF IInv, Owned
  <2>8. s # Freed /\ e # NULL
    BY <2>2, FreedApart DEF Distinct
  <2>9. c.event = e /\ c.mine = TRUE /\ c.alive = TRUE
    OBVIOUS
  <2>. HIDE DEF c
  <2>10. OwnedNext
    <3>1. \A p \in Objects : obj'[p].mine = (obj'[p].event # NULL)
      BY <2>5, <2>8, <2>9 DEF IInv, Owned
    <3>2. \A p \in Objects : obj'[p].event # NULL => obj'[p].alive
      BY <2>5, <2>9 DEF IInv, Owned
    <3>3. \A p, q \in Objects :
            obj'[p].event # NULL /\ obj'[p].event = obj'[q].event => p = q
      BY <2>5, <2>7, <2>9 DEF IInv, Owned
    <3>4. ASSUME NEW d \in Events
          PROVE  list'[d] # Freed <=> \E p \in Objects : obj'[p].event = d
      <4>1. CASE d = e
        BY <2>5, <2>6, <2>8, <2>9, <4>1
      <4>2. CASE d # e
        <5>1. d # NULL
          BY DEF Distinct
        <5>2. \A p \in Objects : obj'[p].event = d <=> obj[p].event = d
          BY <1>5, <2>5, <2>9, <4>2, <5>1
        <5>. QED
          BY <2>6, <4>2, <5>2 DEF IInv, Owned
      <4>. QED
        BY <4>1, <4>2
    <3>5. \A d \in Events : list'[d] # Freed => d \in used'
      BY <2>1, <2>6 DEF IInv, Owned
    <3>. QED
      BY <3>1, <3>2, <3>3, <3>4, <3>5, Zenon DEF OwnedNext
  <2>11. ApartNext
    <3>1. ASSUME NEW d \in Events, list'[d] # Freed
          PROVE  /\ \A i \in 1 .. Len(list'[d]) : list'[d][i] \in used'
                 /\ Distinct1(list'[d])
      <4>1. CASE d = e
        BY <2>1, <2>2, <2>6, <4>1
      <4>2. CASE d # e
        BY <2>1, <2>6, <3>1, <4>2 DEF IInv, Apart
      <4>. QED
        BY <4>1, <4>2
    <3>. QED
      BY <3>1, Zenon DEF ApartNext
  <2>12. WalkingNext
    <3>1. ASSUME NEW p \in Objects
          PROVE  IF walk'[p].sound
                   THEN /\ obj'[p].event # NULL
                        /\ Stands(list'[obj'[p].event], obj'[p].hp, walk'[p].seen)
                   ELSE walk'[p].seen = <<>>
      <4>1. CASE p = o
        BY <1>2, <1>4, <4>1
      <4>2. CASE p # o
        <5>1. obj'[p] = obj[p] /\ walk'[p] = walk[p]
          BY <1>4, <2>5, <4>2
        <5>2. obj[p].event # NULL => list'[obj[p].event] = list[obj[p].event]
          <6>1. obj[p].event # NULL => obj[p].event \in Events
            BY <1>1 DEF Object
          <6>. QED
            BY <2>6, <2>7, <6>1
        <5>3. IF walk[p].sound
                THEN obj[p].event # NULL /\ Stands(list[obj[p].event], obj[p].hp, walk[p].seen)
                ELSE walk[p].seen = <<>>
          BY DEF IInv, Walking
        <5>. QED
          BY <5>1, <5>2, <5>3
      <4>. QED
        BY <4>1, <4>2
    <3>. QED
      BY <3>1, Zenon DEF WalkingNext
  <2>. QED
    BY <1>4, <2>5, <2>6, <2>10, <2>11, <2>12, NextForms DEF IInv, Types, Freed
<1>7. ASSUME CreateFails(o) PROVE IInv'
  <2>. DEFINE c == [alive |-> TRUE, event |-> NULL, mine |-> FALSE, hp |-> NULL]
  <2>1. obj' = [obj EXCEPT ![o] = c] /\ list' = list /\ used' = used
    BY <1>7 DEF CreateFails
  <2>2. c \in Object /\ c.event = NULL /\ c.mine = FALSE
    BY DEF Object
  <2>. HIDE DEF c
  <2>3. obj' \in [Objects -> Object] /\ \A p \in Objects : obj'[p] = IF p = o THEN c ELSE obj[p]
    BY <1>1, <2>1, <2>2
  <2>4. \A p \in Objects : obj'[p].event = obj[p].event /\ (obj'[p].event # NULL => p # o)
    BY <1>5, <2>2, <2>3
  <2>5. OwnedNext
    <3>1. \A p \in Objects : obj'[p].mine = (obj'[p].event # NULL)
      BY <2>2, <2>3 DEF IInv, Owned
    <3>2. \A p \in Objects : obj'[p].event # NULL => obj'[p].alive
      BY <2>3, <2>4 DEF IInv, Owned
    <3>3. \A p, q \in Objects :
            obj'[p].event # NULL /\ obj'[p].event = obj'[q].event => p = q
      BY <2>4 DEF IInv, Owned
    <3>4. \A e \in Events : list'[e] # Freed <=> \E p \in Objects : obj'[p].event = e
      BY <2>1, <2>4 DEF IInv, Owned
    <3>5. \A e \in Events : list'[e] # Freed => e \in used'
      BY <2>1 DEF IInv, Owned
    <3>. QED
      BY <3>1, <3>2, <3>3, <3>4, <3>5, Zenon DEF OwnedNext
  <2>6. ApartNext
    BY <2>1 DEF IInv, Apart, ApartNext
  <2>7. WalkingNext
    BY <1>2, <1>4, <2>1, <2>2, <2>3 DEF IInv, Walking, WalkingNext
  <2>. QED
    BY <1>1, <1>4, <2>1, <2>3, <2>5, <2>6, <2>7, NextForms DEF IInv, Types, Freed
<1>. QED
  BY <1>6, <1>7

\* The event moves to the copy.
LEMMA CopyStep ==
  ASSUME Distinct, IInv, NEW o \in Objects, NEW me \in Objects, Copy(o, me)
  PROVE  IInv'
<1>. DEFINE c == [obj[me] EXCEPT !.hp = Garbage]
            g == [obj[me] EXCEPT !.event = NULL, !.mine = FALSE]
<1>1. /\ obj \in [Objects -> Object] /\ list \in [Events -> Seq(Headers) \cup {Freed}]
      /\ walk \in [Objects -> [sound : BOOLEAN, seen : Seq(Headers)]]
  BY DEF IInv, Types
<1>2. /\ ~ obj[o].alive /\ obj[me].alive /\ list' = list /\ used' = used
      /\ obj' = [obj EXCEPT ![o] = c, ![me] = g]
      /\ walk' = [walk EXCEPT ![o] = Broken, ![me] = Broken]
  BY DEF Copy
<1>3. o # me /\ obj[o].event = NULL
  BY <1>2 DEF IInv, Owned
<1>4. /\ c \in Object /\ c.event = obj[me].event /\ c.mine = obj[me].mine
      /\ c.alive = obj[me].alive
      /\ g \in Object /\ g.event = NULL /\ g.mine = FALSE /\ g.alive = obj[me].alive
  <2>1. obj[me] \in Object
    BY <1>1
  <2>2. c \in Object /\ g \in Object
    BY <2>1, Zenon DEF Object
  <2>. QED
    BY <2>1, <2>2 DEF Object
<1>. HIDE DEF c, g
<1>5. obj' \in [Objects -> Object]
      /\ \A p \in Objects : obj'[p] = IF p = me THEN g ELSE IF p = o THEN c ELSE obj[p]
  BY <1>1, <1>2, <1>3, <1>4
<1>6. Broken \in [sound : BOOLEAN, seen : Seq(Headers)] /\ ~ Broken.sound /\ Broken.seen = <<>>
  BY DEF Broken
<1>7. walk' \in [Objects -> [sound : BOOLEAN, seen : Seq(Headers)]]
      /\ \A p \in Objects : walk'[p] = IF p = me \/ p = o THEN Broken ELSE walk[p]
  BY <1>1, <1>2, <1>3, <1>6
<1>8. OwnedNext
  <2>1. \A p \in Objects : obj'[p].mine = (obj'[p].event # NULL)
    <3>1. c.mine = (c.event # NULL) /\ g.mine = (g.event # NULL)
      BY <1>4 DEF IInv, Owned
    <3>2. \A p \in Objects : obj[p].mine = (obj[p].event # NULL)
      BY DEF IInv, Owned
    <3>3. ASSUME NEW p \in Objects PROVE obj'[p].mine = (obj'[p].event # NULL)
      <4>1. CASE p = me
        BY <1>5, <3>1, <4>1
      <4>2. CASE p = o
        BY <1>3, <1>5, <3>1, <4>2
      <4>3. CASE p # me /\ p # o
        BY <1>5, <3>2, <4>3
      <4>. QED
        BY <4>1, <4>2, <4>3
    <3>. QED
      BY <3>3
  <2>2. \A p \in Objects : obj'[p].event # NULL => obj'[p].alive
    <3>1. c.event # NULL => c.alive
      BY <1>4 DEF IInv, Owned
    <3>. QED
      BY <1>4, <1>5, <3>1 DEF IInv, Owned
  <2>3. ASSUME NEW p \in Objects, NEW q \in Objects,
               obj'[p].event # NULL, obj'[p].event = obj'[q].event
        PROVE  p = q
    <3>1. p # me /\ q # me
      BY <1>4, <1>5, <2>3
    <3>. QED
      BY <1>4, <1>5, <2>3, <3>1 DEF IInv, Owned
  <2>4. ASSUME NEW e \in Events
        PROVE  (\E p \in Objects : obj'[p].event = e) <=> (\E p \in Objects : obj[p].event = e)
    <3>1. e # NULL
      BY DEF Distinct
    <3>2. obj'[o].event = obj[me].event
      BY <1>3, <1>4, <1>5
    <3>3. \A p \in Objects : p # o /\ p # me => obj'[p].event = obj[p].event
      BY <1>5
    <3>4. obj'[me].event = NULL
      BY <1>4, <1>5
    <3>. QED
      BY <1>3, <3>1, <3>2, <3>3, <3>4
  <2>5. \A e \in Events : list'[e] # Freed <=> \E p \in Objects : obj'[p].event = e
    BY <1>2, <2>4 DEF IInv, Owned
  <2>6. \A e \in Events : list'[e] # Freed => e \in used'
    BY <1>2 DEF IInv, Owned
  <2>. QED
    BY <2>1, <2>2, <2>3, <2>5, <2>6, Zenon DEF OwnedNext
<1>9. ApartNext
  BY <1>2 DEF IInv, Apart, ApartNext
<1>10. WalkingNext
  <2>1. ASSUME NEW p \in Objects
        PROVE  IF walk'[p].sound
                 THEN /\ obj'[p].event # NULL
                      /\ Stands(list'[obj'[p].event], obj'[p].hp, walk'[p].seen)
                 ELSE walk'[p].seen = <<>>
    <3>1. CASE p = me \/ p = o
      BY <1>6, <1>7, <3>1
    <3>2. CASE ~ (p = me \/ p = o)
      BY <1>2, <1>5, <1>7, <3>2 DEF IInv, Walking
    <3>. QED
      BY <3>1, <3>2
  <2>. QED
    BY <2>1, Zenon DEF WalkingNext
<1>. QED
  BY <1>1, <1>2, <1>5, <1>7, <1>8, <1>9, <1>10, NextForms DEF IInv, Types, Freed

\* The object goes, and its event with it.
LEMMA DeleteStep ==
  ASSUME Distinct, IInv, NEW o \in Objects, Delete(o)
  PROVE  IInv'
<1>. DEFINE e == obj[o].event
<1>1. /\ obj \in [Objects -> Object] /\ list \in [Events -> Seq(Headers) \cup {Freed}]
      /\ walk \in [Objects -> [sound : BOOLEAN, seen : Seq(Headers)]]
  BY DEF IInv, Types
<1>2. /\ used' = used /\ obj' = [obj EXCEPT ![o] = Gone]
      /\ walk' = [walk EXCEPT ![o] = Broken]
      /\ list' = IF e # NULL /\ obj[o].mine THEN [list EXCEPT ![e] = Freed] ELSE list
  BY DEF Delete
<1>3. Gone \in Object /\ Gone.event = NULL /\ Gone.mine = FALSE
  BY DEF Gone, Object
<1>4. obj' \in [Objects -> Object]
      /\ \A p \in Objects : obj'[p] = IF p = o THEN Gone ELSE obj[p]
  BY <1>1, <1>2, <1>3
<1>5. Broken \in [sound : BOOLEAN, seen : Seq(Headers)] /\ ~ Broken.sound /\ Broken.seen = <<>>
  BY DEF Broken
<1>6. walk' \in [Objects -> [sound : BOOLEAN, seen : Seq(Headers)]]
      /\ \A p \in Objects : walk'[p] = IF p = o THEN Broken ELSE walk[p]
  BY <1>1, <1>2, <1>5
<1>7. e # NULL => obj[o].mine
  BY DEF IInv, Owned
<1>8. /\ list' \in [Events -> Seq(Headers) \cup {Freed}]
      /\ \A d \in Events : list'[d] = IF d = e THEN Freed ELSE list[d]
  <2>1. CASE e = NULL
    <3>1. \A d \in Events : d # e
      BY <2>1 DEF Distinct
    <3>. QED
      BY <1>1, <1>2, <2>1, <3>1
  <2>2. CASE e # NULL
    BY <1>1, <1>2, <1>7, <2>2
  <2>. QED
    BY <2>1, <2>2
<1>. HIDE DEF e
<1>9. \A p \in Objects : p # o => e = NULL \/ obj[p].event # e
  BY DEF IInv, Owned, e
<1>10. OwnedNext
  <2>1. \A p \in Objects : obj'[p].mine = (obj'[p].event # NULL)
    BY <1>3, <1>4 DEF IInv, Owned
  <2>2. \A p \in Objects : obj'[p].event # NULL => obj'[p].alive
    BY <1>3, <1>4 DEF IInv, Owned
  <2>3. \A p, q \in Objects :
          obj'[p].event # NULL /\ obj'[p].event = obj'[q].event => p = q
    BY <1>3, <1>4 DEF IInv, Owned
  <2>4. ASSUME NEW d \in Events
        PROVE  list'[d] # Freed <=> \E p \in Objects : obj'[p].event = d
    <3>1. d # NULL
      BY DEF Distinct
    <3>2. CASE d = e
      BY <1>3, <1>4, <1>8, <1>9, <3>1, <3>2
    <3>3. CASE d # e
      <4>1. \A p \in Objects : obj'[p].event = d <=> obj[p].event = d
        BY <1>3, <1>4, <3>1, <3>3 DEF e
      <4>. QED
        BY <1>8, <3>3, <4>1 DEF IInv, Owned
    <3>. QED
      BY <3>2, <3>3
  <2>5. \A d \in Events : list'[d] # Freed => d \in used'
    BY <1>2, <1>8 DEF IInv, Owned
  <2>. QED
    BY <2>1, <2>2, <2>3, <2>4, <2>5, Zenon DEF OwnedNext
<1>11. ApartNext
  BY <1>2, <1>8 DEF IInv, Apart, ApartNext
<1>12. WalkingNext
  <2>1. ASSUME NEW p \in Objects
        PROVE  IF walk'[p].sound
                 THEN /\ obj'[p].event # NULL
                      /\ Stands(list'[obj'[p].event], obj'[p].hp, walk'[p].seen)
                 ELSE walk'[p].seen = <<>>
    <3>1. CASE p = o
      BY <1>5, <1>6, <3>1
    <3>2. CASE p # o
      <4>1. obj'[p] = obj[p] /\ walk'[p] = walk[p]
        BY <1>4, <1>6, <3>2
      <4>2. obj[p].event # NULL => list'[obj[p].event] = list[obj[p].event]
        <5>1. obj[p].event # NULL => obj[p].event \in Events /\ obj[p].event # e
          BY <1>1, <1>9, <3>2 DEF Object
        <5>. QED
          BY <1>8, <5>1
      <4>3. IF walk[p].sound
              THEN obj[p].event # NULL /\ Stands(list[obj[p].event], obj[p].hp, walk[p].seen)
              ELSE walk[p].seen = <<>>
        BY DEF IInv, Walking
      <4>. QED
        BY <4>1, <4>2, <4>3
    <3>. QED
      BY <3>1, <3>2
  <2>. QED
    BY <2>1, Zenon DEF WalkingNext
<1>. QED
  BY <1>4, <1>6, <1>8, <1>10, <1>11, <1>12, NextForms DEF IInv, Types, Freed

-----------------------------------------------------------------------------

LEMMA InitIInv ==
  ASSUME Distinct, Init
  PROVE  IInv
<1>1. Gone \in Object /\ Gone.event = NULL /\ Gone.mine = FALSE
  BY DEF Gone, Object
<1>2. Broken \in [sound : BOOLEAN, seen : Seq(Headers)] /\ ~ Broken.sound /\ Broken.seen = <<>>
  BY DEF Broken
<1>3. Types
  BY <1>1, <1>2 DEF Init, Types
<1>4. \A e \in Events : list[e] = Freed /\ e # NULL
  BY DEF Init, Distinct
<1>5. \A o \in Objects : obj[o] = Gone /\ walk[o] = Broken
  BY DEF Init
<1>6. Owned
  BY <1>1, <1>4, <1>5 DEF Owned
<1>7. Apart
  BY <1>4 DEF Apart
<1>8. Walking
  BY <1>2, <1>5 DEF Walking
<1>. QED
  BY <1>3, <1>6, <1>7, <1>8 DEF IInv

\* Every operation keeps the invariant.
LEMMA NextIInv ==
  ASSUME Distinct, IInv, [Next]_vars
  PROVE  IInv'
<1>1. ASSUME Next PROVE IInv'
  BY <1>1, AddStep, PriorityStep, DelStep, WalkStep, CreateStep, CopyStep, DeleteStep
     DEF Next
<1>2. ASSUME UNCHANGED vars PROVE IInv'
  BY <1>2, NextForms DEF vars, IInv, Types, Freed, Owned, OwnedNext, Apart, ApartNext,
                         Walking, WalkingNext
<1>. QED
  BY <1>1, <1>2

\* An event that was not freed has one object that will free it, and one that
\* was freed has none that would use it, through any creation, copy and
\* deletion (src/esl/esl_oop.cpp:299-349).
THEOREM EventsHaveOneOwner ==
  ASSUME Distinct
  PROVE  Spec => []OneOwner
<1>1. ASSUME IInv, NEW e \in Events
      PROVE  IF list[e] = Freed
               THEN \A o \in Objects : obj[o].event # e
               ELSE Cardinality({o \in Objects : obj[o].event = e /\ obj[o].mine}) = 1
  <2>1. e # NULL
    BY DEF Distinct
  <2>2. CASE list[e] = Freed
    BY <1>1, <2>2 DEF IInv, Owned
  <2>3. CASE list[e] # Freed
    <3>1. PICK o \in Objects : obj[o].event = e
      BY <1>1, <2>3 DEF IInv, Owned
    <3>2. \A p \in Objects : obj[p].event = e => p = o
      BY <1>1, <2>1, <3>1 DEF IInv, Owned
    <3>3. obj[o].mine
      BY <1>1, <2>1, <3>1 DEF IInv, Owned
    <3>4. {p \in Objects : obj[p].event = e /\ obj[p].mine} = {o}
      BY <3>1, <3>2, <3>3
    <3>. QED
      BY <2>3, <3>4, FS_Singleton
  <2>. QED
    BY <2>2, <2>3
<1>2. IInv => OneOwner
  BY <1>1, Zenon DEF OneOwner
<1>. QED
  BY InitIInv, NextIInv, <1>2, PTL DEF Spec

\* A walk shows each header once and in order, whatever headers come and go
\* while it lasts, until the one it stands on is deleted, one comes behind its
\* end or the event moves (src/esl/esl_oop.cpp:444-462).
THEOREM WalksAreWhole ==
  ASSUME Distinct
  PROVE  Spec => []WalksWhole
<1>1. ASSUME IInv, NEW o \in Objects, walk[o].sound
      PROVE  LET s == list[obj[o].event]
             IN IF obj[o].hp = NULL THEN walk[o].seen = s
                ELSE /\ Contains(s, obj[o].hp)
                     /\ walk[o].seen = SubSeq(s, 1, SelectInSeq(s, LAMBDA h : h = obj[o].hp) - 1)
  <2>. DEFINE s == list[obj[o].event]
  <2>1. obj[o].event # NULL /\ Stands(s, obj[o].hp, walk[o].seen)
    BY <1>1 DEF IInv, Walking
  <2>2. s \in Seq(Headers) /\ Distinct1(s)
    BY <1>1, <2>1, OwnList
  <2>. HIDE DEF s
  <2>3. CASE obj[o].hp = NULL
    <3>1. \A i \in 1 .. Len(s) : s[i] # NULL
      BY <2>2, ElementOfSeq DEF Distinct
    <3>2. walk[o].seen = s
      BY <2>1, <2>3, <3>1 DEF Stands
    <3>. QED
      BY <2>3, <3>2 DEF s
  <2>4. CASE obj[o].hp # NULL
    <3>1. PICK i \in 1 .. Len(s) : obj[o].hp = s[i] /\ walk[o].seen = SubSeq(s, 1, i - 1)
      BY <2>1, <2>4 DEF Stands
    <3>2. SelectInSeq(s, LAMBDA h : h = obj[o].hp) = i
      <4>. DEFINE I == {k \in 1 .. Len(s) : s[k] = obj[o].hp}
      <4>1. SelectInSeq(s, LAMBDA h : h = obj[o].hp) = IF I # {} THEN Min(I) ELSE 0
        BY DEF SelectInSeq
      <4>2. (IF I # {} THEN Min(I) ELSE 0) = i
        BY <2>2, <3>1, Selected
      <4>. QED
        BY <4>1, <4>2
    <3>3. Contains(s, obj[o].hp)
      BY <3>1 DEF Contains
    <3>. QED
      BY <2>4, <3>1, <3>2, <3>3 DEF s
  <2>. QED
    BY <2>3, <2>4
<1>2. IInv => WalksWhole
  BY <1>1, Zenon DEF WalksWhole
<1>. QED
  BY InitIInv, NextIInv, <1>2, PTL DEF Spec
=============================================================================
