--------------------------- MODULE CallFlowProofs ---------------------------
(***************************************************************************)
(* Proofs about CallFlow, for all scripts and any number of calls.  They   *)
(* go from what a handler may send (Answers), over what the commands queued *)
(* for a channel look like (Queued), to what a caller hears, where a call  *)
(* moves to and where it ends.  These last hold as long as a result is     *)
(* evaluated only while nothing is played, at the node the channel is at.  *)
(* There are two reasons for that: callers who answer in turn, by results  *)
(* that carry their node (InTurn), or a single call of the recogniser that *)
(* gIsAsr gates (Alone).                                                   *)
(***************************************************************************)
EXTENDS CallFlow, SequenceTheorems, WellFoundedInduction, TLAPS

-----------------------------------------------------------------------------
(* FlattenSeq, over any sequence.                                          *)

\* A set of numbers that holds 0 and successors up to n holds n.
LEMMA SetInduction ==
  ASSUME NEW n \in Nat, NEW T \in SUBSET Nat, 0 \in T,
         \A k \in T : k < n => k + 1 \in T
  PROVE  n \in T
<1>. SUFFICES ASSUME n \notin T PROVE FALSE
  OBVIOUS
<1>. DEFINE U == {k \in Nat : k <= n /\ k \notin T}
<1>1. n \in U /\ U \subseteq Nat
  OBVIOUS
<1>2. PICK x \in U : \A y \in U : ~ (<<y, x>> \in OpToRel(<, Nat))
  BY <1>1, WFMin, NatLessThanWellFounded, Zenon
<1>3. x # 0 /\ x - 1 \in Nat /\ x - 1 < x /\ x - 1 < n /\ (x - 1) + 1 = x
  OBVIOUS
<1>4. x - 1 \notin U
  BY <1>2, <1>3 DEF OpToRel
<1>. QED
  BY <1>3, <1>4

\* The function inside FlattenSeq, and its equation.
flat(s) ==
  CHOOSE f : f = [i \in 1 .. Len(s) |-> IF i = 1 THEN s[i] ELSE f[i-1] \o s[i]]
Flatter(s, f, i) == IF i = 1 THEN s[i] ELSE f[i-1] \o s[i]
Builds(s, f, m) == f = [i \in 1 .. m |-> Flatter(s, f, i)]

\* A function that solves the equation up to m has a solution up to m + 1.
LEMMA FlatExtends ==
  ASSUME NEW s, NEW m \in Nat, NEW f, Builds(s, f, m)
  PROVE  \E g : Builds(s, g, m + 1)
<1>. DEFINE g == [i \in 1 .. m + 1 |-> IF i = m + 1 THEN Flatter(s, f, i) ELSE f[i]]
            h == [i \in 1 .. m + 1 |-> Flatter(s, g, i)]
<1>1. f = [i \in 1 .. m |-> Flatter(s, f, i)]
  BY Zenon DEF Builds
<1>2. /\ \A i \in 1 .. m : i \in 1 .. m + 1 /\ i # m + 1
      /\ \A i \in 1 .. m + 1 : i # 1 => i - 1 \in 1 .. m
      /\ \A i \in 1 .. m + 1 : i # m + 1 => i \in 1 .. m
  OBVIOUS
<1>3. \A i \in 1 .. m : g[i] = f[i]
  BY <1>2, Zenon
<1>4. g[m + 1] = Flatter(s, f, m + 1)
  <2>1. m + 1 \in 1 .. m + 1
    OBVIOUS
  <2>. QED
    BY <2>1, Zenon
<1>5. g = [i \in 1 .. m + 1 |-> g[i]] /\ h = [i \in 1 .. m + 1 |-> h[i]]
  BY Zenon
<1>. HIDE DEF g
<1>6. ASSUME NEW i \in 1 .. m + 1 PROVE Flatter(s, g, i) = Flatter(s, f, i)
  <2>1. CASE i = 1
    BY <2>1, Zenon DEF Flatter
  <2>2. CASE i # 1
    BY <1>2, <1>3, <2>2, Zenon DEF Flatter
  <2>. QED
    BY <2>1, <2>2
<1>7. ASSUME NEW i \in 1 .. m + 1 PROVE g[i] = h[i]
  <2>1. h[i] = Flatter(s, f, i)
    BY <1>6, Zenon
  <2>2. CASE i = m + 1
    BY <1>4, <2>1, <2>2, Zenon
  <2>3. CASE i # m + 1
    BY <1>1, <1>2, <1>3, <2>1, <2>3, Zenon
  <2>. QED
    BY <2>2, <2>3
<1>8. g = h
  <2>. HIDE DEF h
  <2>. QED
    BY <1>5, <1>7
<1>. QED
  BY <1>8, Zenon DEF Builds

LEMMA FlatBuilds ==
  ASSUME NEW s, Len(s) \in Nat
  PROVE  Builds(s, flat(s), Len(s))
<1>. DEFINE T == {m \in Nat : \E f : Builds(s, f, m)}
<1>1. 0 \in T
  <2>. DEFINE f == [i \in 1 .. 0 |-> 0]
  <2>1. f = [i \in 1 .. 0 |-> Flatter(s, f, i)]
    OBVIOUS
  <2>. QED
    BY <2>1, Zenon DEF Builds
<1>2. ASSUME NEW m \in T PROVE m + 1 \in T
  <2>1. m + 1 \in Nat
    OBVIOUS
  <2>. QED
    BY <2>1, FlatExtends, Zenon
<1>3. Len(s) \in T
  <2>1. T \in SUBSET Nat
    OBVIOUS
  <2>. HIDE DEF T
  <2>. QED
    BY <1>1, <1>2, <2>1, SetInduction, Zenon
<1>4. \E f : f = [i \in 1 .. Len(s) |-> IF i = 1 THEN s[i] ELSE f[i-1] \o s[i]]
  BY <1>3, Zenon DEF Builds, Flatter
<1>5. flat(s) = [i \in 1 .. Len(s) |-> IF i = 1 THEN s[i] ELSE flat(s)[i-1] \o s[i]]
  BY <1>4, Zenon DEF flat
<1>. QED
  BY <1>5, Zenon DEF Builds, Flatter

\* If G holds of the first part and each part leads from G[i] to G[i + 1],
\* then the parts put together are in the last of G.
LEMMA FlattenInduction ==
  ASSUME NEW s, Len(s) \in Nat \ {0}, NEW G,
         s[1] \in G[1],
         \A i \in 1 .. Len(s) - 1 : \A t \in G[i] : t \o s[i + 1] \in G[i + 1]
  PROVE  FlattenSeq(s) \in G[Len(s)]
<1>. DEFINE T == {m \in Nat : m \in 1 .. Len(s) => flat(s)[m] \in G[m]}
<1>1. \A i \in 1 .. Len(s) : flat(s)[i] = Flatter(s, flat(s), i)
  <2>1. flat(s) = [i \in 1 .. Len(s) |-> Flatter(s, flat(s), i)]
    BY FlatBuilds, Zenon DEF Builds
  <2>. QED
    BY <2>1, Zenon
<1>2. 0 \in T
  OBVIOUS
<1>3. ASSUME NEW m \in T, m < Len(s) PROVE m + 1 \in T
  <2>1. CASE m = 0
    <3>1. flat(s)[1] = s[1]
      BY <1>1 DEF Flatter
    <3>. QED
      BY <2>1, <3>1
  <2>2. CASE m # 0
    <3>1. /\ m \in 1 .. Len(s) - 1 /\ m \in 1 .. Len(s)
          /\ m + 1 \in 1 .. Len(s) /\ m + 1 # 1 /\ (m + 1) - 1 = m /\ m + 1 \in Nat
      BY <1>3, <2>2
    <3>2. flat(s)[m + 1] = flat(s)[m] \o s[m + 1]
      BY <1>1, <3>1, Zenon DEF Flatter
    <3>. QED
      BY <3>1, <3>2, Zenon
  <2>. QED
    BY <2>1, <2>2
<1>4. Len(s) \in T
  <2>1. T \in SUBSET Nat
    OBVIOUS
  <2>. HIDE DEF T
  <2>. QED
    BY <1>2, <1>3, <2>1, SetInduction, Zenon
<1>5. FlattenSeq(s) = flat(s)[Len(s)]
  BY DEF FlattenSeq, flat
<1>. QED
  BY <1>4, <1>5

-----------------------------------------------------------------------------
(* What a handler sends.                                                   *)

\* Only the last edge of a node may lead to a node that the script lacks.
OnlyLastMissing ==
  \A n \in DOMAIN Script :
    \A i \in 1 .. Len(Script[n]) - 1 : Script[n][i].exit \in DOMAIN Script

IsSet(s, i) == s[i].app = "set"
IsPlayback(s, i) == s[i].app = "playback"

\* x is the exit of an edge of n.
ExitOf(n, x) == \E i \in 1 .. Len(Script[n]) : Script[n][i].exit = x

\* From position i on nothing is played, and only node x is set.
StaysAfter(s, i, x) ==
  \A j \in i + 1 .. Len(s) : ~ IsPlayback(s, j) /\ (IsSet(s, j) => s[j].arg = x)

\* What may be sent in answer to a result at node n: at most one recording,
\* of a node that is set right before, or of n again.
Answers(n) ==
  {s \in Seq(Command) :
     /\ \A i \in 1 .. Len(s) :
          /\ s[i].app # "hangup"
          /\ IsSet(s, i) => ExitOf(n, s[i].arg)
          /\ IsPlayback(s, i) =>
               /\ \/ i > 1 /\ s[i - 1] = Set(s[i].arg)
                  \/ s[i].arg = n /\ \A j \in 1 .. Len(s) : ~ IsSet(s, j)
               /\ StaysAfter(s, i, s[i].arg)
               /\ Script[n] # <<>>
     /\ OnlyLastMissing =>
          \A i, j \in 1 .. Len(s) : IsSet(s, i) /\ IsSet(s, j) => s[i].arg = s[j].arg}

\* The commands of the edges before any that ended the walk.
OnlySets(n, i) ==
  {s \in Seq(Command) :
     /\ \A j \in 1 .. Len(s) : IsSet(s, j) /\ ExitOf(n, s[j].arg)
     /\ OnlyLastMissing /\ i < Len(Script[n]) => s = <<>>}

\* What is played on going on to x: the recording, and nothing after it that
\* sets or plays.
Leading(x, lead) ==
  /\ lead \in Seq(Command) /\ Len(lead) > 0 /\ lead[1] = Playback(x)
  /\ \A j \in 2 .. Len(lead) : lead[j].app \notin {"set", "playback", "hangup"}

LEMMA CommandTypes ==
  /\ \A x \in Nat : Set(x) \in Command /\ Playback(x) \in Command
  /\ \A app \in {"answer", "start_asr", "stop_asr", "detect_stop", "park", "hangup"} :
       Do(app) \in Command
BY DEF Do, Set, Playback, Command

LEMMA BothLead ==
  ASSUME NEW x \in Nat
  PROVE  Leading(x, <<Playback(x)>>) /\ Leading(x, playDetectSpeech(x))
<1>1. Playback(x) \in Command /\ Do("start_asr") \in Command /\ Do("park") \in Command
  BY CommandTypes
<1>. QED
  BY <1>1 DEF Leading, playDetectSpeech, Do

\* Concatenation, by positions.
LEMMA Joined ==
  ASSUME NEW S, NEW s \in Seq(S), NEW t \in Seq(S)
  PROVE  /\ s \o t \in Seq(S) /\ Len(s \o t) = Len(s) + Len(t)
         /\ \A j \in 1 .. Len(s) : (s \o t)[j] = s[j]
         /\ \A j \in 1 .. Len(t) : (s \o t)[Len(s) + j] = t[j]
         /\ \A j \in Len(s) + 1 .. Len(s) + Len(t) :
              j - Len(s) \in 1 .. Len(t) /\ (s \o t)[j] = t[j - Len(s)]
<1>1. Len(s) \in Nat /\ Len(t) \in Nat
  OBVIOUS
<1>2. /\ s \o t \in Seq(S) /\ Len(s \o t) = Len(s) + Len(t)
      /\ \A i \in 1 .. Len(s) + Len(t) :
           (s \o t)[i] = IF i <= Len(s) THEN s[i] ELSE t[i - Len(s)]
  BY ConcatProperties
<1>. DEFINE u == s \o t
<1>. HIDE DEF u
<1>3. \A i \in 1 .. Len(s) + Len(t) : u[i] = IF i <= Len(s) THEN s[i] ELSE t[i - Len(s)]
  BY <1>2 DEF u
<1>4. \A j \in 1 .. Len(s) : u[j] = s[j]
  BY <1>1, <1>3
<1>5. ASSUME NEW j \in 1 .. Len(t) PROVE u[Len(s) + j] = t[j]
  <2>1. /\ Len(s) + j \in 1 .. Len(s) + Len(t) /\ ~ (Len(s) + j <= Len(s))
        /\ (Len(s) + j) - Len(s) = j
    BY <1>1
  <2>. QED
    BY <1>3, <2>1, Zenon
<1>6. ASSUME NEW j \in Len(s) + 1 .. Len(s) + Len(t)
      PROVE  j - Len(s) \in 1 .. Len(t) /\ u[j] = t[j - Len(s)]
  BY <1>1, <1>3
<1>. QED
  BY <1>2, <1>4, <1>5, <1>6 DEF u

\* A command before others.
LEMMA Prefixed ==
  ASSUME NEW a \in Command, NEW t \in Seq(Command)
  PROVE  /\ <<a>> \o t \in Seq(Command) /\ Len(<<a>> \o t) = Len(t) + 1
         /\ (<<a>> \o t)[1] = a
         /\ \A j \in 1 .. Len(t) : (<<a>> \o t)[j + 1] = t[j]
<1>. DEFINE b == <<a>>
            u == b \o t
<1>1. b \in Seq(Command) /\ Len(b) = 1 /\ b[1] = a
  OBVIOUS
<1>. HIDE DEF b
<1>2. /\ u \in Seq(Command) /\ Len(u) = Len(b) + Len(t)
      /\ \A j \in 1 .. Len(b) : u[j] = b[j]
      /\ \A j \in 1 .. Len(t) : u[Len(b) + j] = t[j]
  <2>1. b \in Seq(Command)
    BY <1>1
  <2>. QED
    BY <2>1, Joined
<1>. HIDE DEF u
<1>3. /\ u \in Seq(Command) /\ Len(u) = Len(t) + 1 /\ u[1] = a
      /\ \A j \in 1 .. Len(t) : u[j + 1] = t[j]
  BY <1>1, <1>2
<1>. QED
  BY <1>3 DEF u, b

\* A sequence between two equal commands.
LEMMA Framed ==
  ASSUME NEW a \in Command, NEW s \in Seq(Command)
  PROVE  LET p == <<a>> \o s \o <<a>> IN
         /\ p \in Seq(Command) /\ Len(p) = Len(s) + 2
         /\ p[1] = a /\ p[Len(s) + 2] = a
         /\ \A j \in 1 .. Len(s) : p[j + 1] = s[j]
<1>1. <<a>> \in Seq(Command) /\ Len(<<a>>) = 1 /\ <<a>>[1] = a
  OBVIOUS
<1>. DEFINE q == <<a>> \o s
            p == q \o <<a>>
<1>2. /\ q \in Seq(Command) /\ Len(q) = Len(s) + 1 /\ q[1] = a
      /\ \A j \in 1 .. Len(s) : q[j + 1] = s[j]
  <2>. DEFINE b == <<a>>
  <2>. HIDE DEF b
  <2>1. /\ b \o s \in Seq(Command) /\ Len(b \o s) = Len(b) + Len(s)
        /\ \A i \in 1 .. Len(b) + Len(s) :
             (b \o s)[i] = IF i <= Len(b) THEN b[i] ELSE s[i - Len(b)]
    BY <1>1, ConcatProperties DEF b
  <2>2. Len(b) = 1 /\ b[1] = a
    BY <1>1 DEF b
  <2>. QED
    BY <2>1, <2>2 DEF b
<1>. HIDE DEF q
<1>3. /\ p \in Seq(Command) /\ Len(p) = Len(q) + 1 /\ p[Len(q) + 1] = a
      /\ \A j \in 1 .. Len(q) : p[j] = q[j]
  <2>. DEFINE b == <<a>>
  <2>. HIDE DEF b
  <2>1. /\ q \o b \in Seq(Command) /\ Len(q \o b) = Len(q) + Len(b)
        /\ \A i \in 1 .. Len(q) + Len(b) :
             (q \o b)[i] = IF i <= Len(q) THEN q[i] ELSE b[i - Len(q)]
    BY <1>1, <1>2, ConcatProperties DEF b
  <2>2. Len(b) = 1 /\ b[1] = a
    BY <1>1 DEF b
  <2>. QED
    BY <1>2, <2>1, <2>2 DEF b
<1>4. p \in Seq(Command) /\ Len(p) = Len(s) + 2 /\ p[1] = a /\ p[Len(s) + 2] = a
      /\ \A j \in 1 .. Len(s) : p[j + 1] = s[j]
  BY <1>2, <1>3
<1>. QED
  BY <1>4 DEF q

\* A node and a lead, put after sets, make an answer.
LEMMA OnwardAnswers ==
  ASSUME NEW n \in DOMAIN Script, NEW x \in Nat, ExitOf(n, x),
         NEW t \in Seq(Command),
         \A j \in 1 .. Len(t) : IsSet(t, j) /\ ExitOf(n, t[j].arg),
         OnlyLastMissing => t = <<>>,
         NEW lead, Leading(x, lead)
  PROVE  t \o (<<Set(x)>> \o lead \o <<Set(x)>>) \in Answers(n)
<1>. DEFINE p == <<Set(x)>> \o lead \o <<Set(x)>>
            u == t \o p
<1>1. Script[n] # <<>>
  BY DEF ExitOf
<1>2. /\ p \in Seq(Command) /\ Len(p) = Len(lead) + 2
      /\ p[1] = Set(x) /\ p[Len(lead) + 2] = Set(x)
      /\ \A j \in 1 .. Len(lead) : p[j + 1] = lead[j]
  BY CommandTypes, Framed DEF Leading
<1>. HIDE DEF p
<1>3. /\ u \in Seq(Command) /\ Len(u) = Len(t) + Len(p)
      /\ \A j \in 1 .. Len(t) : u[j] = t[j]
      /\ \A j \in 1 .. Len(p) : u[Len(t) + j] = p[j]
  <2>1. p \in Seq(Command)
    BY <1>2
  <2>. QED
    BY <2>1, Joined
<1>. HIDE DEF u
<1>4. /\ u[Len(t) + 1] = Set(x) /\ u[Len(t) + 2] = Playback(x) /\ u[Len(u)] = Set(x)
      /\ Len(t) + 2 < Len(u)
      /\ \A j \in Len(t) + 3 .. Len(u) - 1 : u[j].app \notin {"set", "playback", "hangup"}
  <2>1. Len(lead) \in Nat /\ Len(t) \in Nat
    BY DEF Leading
  <2>2. u[Len(t) + 2] = p[2] /\ p[2] = lead[1]
    BY <1>2, <1>3, <2>1 DEF Leading
  <2>3. ASSUME NEW j \in Len(t) + 3 .. Len(u) - 1
        PROVE  u[j].app \notin {"set", "playback", "hangup"}
    <3>1. j - Len(t) - 1 \in 2 .. Len(lead)
      BY <1>2, <1>3, <2>1
    <3>. DEFINE k == j - Len(t) - 1
    <3>2. k \in 1 .. Len(lead) /\ k + 1 \in 1 .. Len(p) /\ j = Len(t) + (k + 1)
      BY <1>2, <2>1, <3>1
    <3>3. u[j] = lead[k]
      BY <1>2, <1>3, <3>2, Zenon
    <3>. QED
      BY <3>1, <3>3 DEF Leading
  <2>. QED
    BY <1>2, <1>3, <2>1, <2>2, <2>3 DEF Leading
<1>5. /\ Set(x).app = "set" /\ Set(x).arg = x
      /\ Playback(x).app = "playback" /\ Playback(x).arg = x
  BY DEF Set, Playback
<1>6. ASSUME NEW j \in 1 .. Len(u)
      PROVE  /\ u[j].app # "hangup"
             /\ IsSet(u, j) => ExitOf(n, u[j].arg)
             /\ IsPlayback(u, j) => j = Len(t) + 2
             /\ j > Len(t) /\ IsSet(u, j) => u[j].arg = x
  <2>1. CASE j <= Len(t)
    BY <1>3, <2>1 DEF IsSet, IsPlayback
  <2>2. CASE j \in {Len(t) + 1, Len(t) + 2, Len(u)}
    BY <1>4, <1>5, <2>2 DEF IsSet, IsPlayback
  <2>3. CASE j \in Len(t) + 3 .. Len(u) - 1
    BY <1>4, <2>3 DEF IsSet, IsPlayback
  <2>. QED
    BY <1>3, <2>1, <2>2, <2>3
<1>7. ASSUME NEW j \in 1 .. Len(u), IsPlayback(u, j)
      PROVE  /\ j > 1 /\ u[j - 1] = Set(u[j].arg)
             /\ StaysAfter(u, j, u[j].arg)
  <2>1. j = Len(t) + 2 /\ u[j].arg = x
    BY <1>4, <1>5, <1>6, <1>7
  <2>2. StaysAfter(u, j, x)
    BY <1>6, <2>1 DEF StaysAfter
  <2>. QED
    BY <1>4, <2>1, <2>2
<1>8. OnlyLastMissing =>
        \A i, j \in 1 .. Len(u) : IsSet(u, i) /\ IsSet(u, j) => u[i].arg = u[j].arg
  BY <1>3, <1>6
<1>. QED
  BY <1>1, <1>3, <1>6, <1>7, <1>8, Zenon DEF Answers, u, p

\* One more set, after sets.
LEMMA SetAnswers ==
  ASSUME NEW n \in DOMAIN Script, NEW x \in Nat, ExitOf(n, x),
         NEW t \in Seq(Command),
         \A j \in 1 .. Len(t) : IsSet(t, j) /\ ExitOf(n, t[j].arg)
  PROVE  LET u == t \o <<Set(x)>> IN
         /\ u \in Seq(Command)
         /\ \A j \in 1 .. Len(u) : IsSet(u, j) /\ ExitOf(n, u[j].arg)
         /\ t = <<>> => \A j \in 1 .. Len(u) : u[j].arg = x
<1>. DEFINE p == <<Set(x)>>
            u == t \o p
<1>1. p \in Seq(Command) /\ Len(p) = 1 /\ p[1] = Set(x)
  BY CommandTypes
<1>. HIDE DEF p
<1>2. /\ u \in Seq(Command) /\ Len(u) = Len(t) + 1
      /\ \A j \in 1 .. Len(t) : u[j] = t[j]
      /\ u[Len(t) + 1] = Set(x)
  BY <1>1, Joined
<1>. HIDE DEF u
<1>3. /\ u \in Seq(Command)
      /\ \A j \in 1 .. Len(u) : IsSet(u, j) /\ ExitOf(n, u[j].arg)
      /\ t = <<>> => \A j \in 1 .. Len(u) : u[j].arg = x
  BY <1>2 DEF IsSet, Set
<1>. QED
  BY <1>3 DEF u, p

\* Sets alone are an answer, if they all set the same node.
LEMMA SetsAnswer ==
  ASSUME NEW n \in DOMAIN Script, NEW t \in Seq(Command),
         \A j \in 1 .. Len(t) : IsSet(t, j) /\ ExitOf(n, t[j].arg),
         OnlyLastMissing => \A i, j \in 1 .. Len(t) : t[i].arg = t[j].arg
  PROVE  t \in Answers(n)
BY DEF Answers, IsSet, IsPlayback

\* The parts that Walk puts together.
Hit(n, score, i) == Matches(Script[n][i], score[i])
Ends(n, score, i) == Hit(n, score, i) /\ Script[n][i].exit \in DOMAIN Script
Tried(n, score) ==
  {i \in 1 .. Len(Script[n]) : \A j \in 1 .. i - 1 : ~ Ends(n, score, j)}
Part(n, score, lead, i) ==
  CASE Ends(n, score, i) ->
         <<Set(Script[n][i].exit)>> \o lead[Script[n][i].exit]
            \o <<Set(Script[n][i].exit)>>
    [] Hit(n, score, i) /\ ~ Ends(n, score, i) -> <<Set(Script[n][i].exit)>>
    [] OTHER -> <<>>
Parts(n, score, lead) ==
  [i \in 1 .. Len(Script[n]) |->
     IF i \in Tried(n, score) THEN Part(n, score, lead, i) ELSE <<>>]

LEMMA WalkParts ==
  ASSUME NEW n, NEW score, NEW lead
  PROVE  Walk(n, score, lead).commands = FlattenSeq(Parts(n, score, lead))
BY DEF Walk, Parts, Part, Tried, Ends, Hit

\* What the parts up to i may amount to: an answer, and only sets as long as
\* no edge has ended the walk.
Upto(n, score) ==
  [i \in 1 .. Len(Script[n]) |->
     {t \in Answers(n) :
        (\A j \in 1 .. i : ~ Ends(n, score, j)) =>
           /\ \A j \in 1 .. Len(t) : IsSet(t, j) /\ ExitOf(n, t[j].arg)
           /\ OnlyLastMissing /\ i < Len(Script[n]) => t = <<>>}]

\* What precedes edge i if the walk gets there.
Before(n, i, t) ==
  /\ t \in Seq(Command)
  /\ \A j \in 1 .. Len(t) : IsSet(t, j) /\ ExitOf(n, t[j].arg)
  /\ OnlyLastMissing => t = <<>>

LEMMA ScriptTypes ==
  ASSUME NEW n \in DOMAIN Script
  PROVE  /\ n \in Nat \ {0} /\ Len(Script[n]) \in Nat
         /\ \A i \in 1 .. Len(Script[n]) :
              Script[n][i].exit \in Nat \ {0} /\ ExitOf(n, Script[n][i].exit)
         /\ Script[n] # <<>> <=> Len(Script[n]) > 0
<1>1. n \in Nat \ {0} /\ Script[n] \in Seq([exit : Nat \ {0}, tap : Taps])
  BY ScriptAssumption, Zenon
<1>. DEFINE s == Script[n]
<1>2. \A i \in 1 .. Len(s) : s[i] \in [exit : Nat \ {0}, tap : Taps]
  BY <1>1, ElementOfSeq, Zenon
<1>3. /\ Len(s) \in Nat
      /\ s # <<>> <=> Len(s) > 0
  <2>1. s \in Seq([exit : Nat \ {0}, tap : Taps])
    BY <1>1
  <2>. HIDE DEF s
  <2>. QED
    BY <2>1
<1>. QED
  BY <1>1, <1>2, <1>3 DEF ExitOf

\* An edge that is tried adds its part.
LEMMA TriedPart ==
  ASSUME NEW n \in DOMAIN Script, NEW score,
         NEW lead, \A x \in DOMAIN Script : Leading(x, lead[x]),
         NEW i \in Tried(n, score), NEW t, Before(n, i, t)
  PROVE  t \o Part(n, score, lead, i) \in Upto(n, score)[i]
<1>. DEFINE x == Script[n][i].exit
            u == t \o Part(n, score, lead, i)
<1>1. i \in 1 .. Len(Script[n]) /\ x \in Nat /\ ExitOf(n, x)
  BY ScriptTypes DEF Tried
<1>2. SUFFICES /\ u \in Answers(n)
               /\ (\A j \in 1 .. i : ~ Ends(n, score, j)) =>
                     /\ \A j \in 1 .. Len(u) : IsSet(u, j) /\ ExitOf(n, u[j].arg)
                     /\ OnlyLastMissing /\ i < Len(Script[n]) => u = <<>>
  BY <1>1, Zenon DEF Upto
<1>3. CASE Ends(n, score, i)
  <2>1. u = t \o (<<Set(x)>> \o lead[x] \o <<Set(x)>>)
    BY <1>3 DEF Part
  <2>2. x \in DOMAIN Script /\ Leading(x, lead[x])
    BY <1>3 DEF Ends
  <2>3. u \in Answers(n)
    BY <1>1, <2>1, <2>2, OnwardAnswers, Zenon DEF Before
  <2>4. i \in 1 .. i
    BY <1>1
  <2>. QED
    BY <1>3, <2>3, <2>4, Zenon
<1>4. CASE ~ Ends(n, score, i) /\ Hit(n, score, i)
  <2>1. u = t \o <<Set(x)>>
    BY <1>4, Zenon DEF Part
  <2>2. /\ u \in Seq(Command)
        /\ \A j \in 1 .. Len(u) : IsSet(u, j) /\ ExitOf(n, u[j].arg)
        /\ t = <<>> => \A j \in 1 .. Len(u) : u[j].arg = x
    <3>. HIDE DEF u, x
    <3>. QED
      BY <1>1, <2>1, SetAnswers, Zenon DEF Before
  <2>3. u \in Answers(n)
    <3>. HIDE DEF u
    <3>1. OnlyLastMissing => \A j, k \in 1 .. Len(u) : u[j].arg = u[k].arg
      BY <2>2, Zenon DEF Before
    <3>. QED
      BY <2>2, <3>1, SetsAnswer, Zenon
  <2>4. ~ (OnlyLastMissing /\ i < Len(Script[n]))
    <3>1. x \notin DOMAIN Script
      BY <1>4 DEF Ends
    <3>. QED
      BY <1>1, <3>1, ScriptTypes DEF OnlyLastMissing
  <2>. QED
    BY <2>2, <2>3, <2>4, Zenon
<1>5. CASE ~ Ends(n, score, i) /\ ~ Hit(n, score, i)
  <2>1. u = t \o <<>> /\ t \o <<>> = t
    BY <1>5, ConcatEmptySeq DEF Part, Before
  <2>2. t \in Answers(n)
    BY SetsAnswer DEF Before
  <2>. QED
    BY <2>1, <2>2, Zenon DEF Before
<1>. QED
  BY <1>3, <1>4, <1>5

\* The loop over the edges sends an answer.
LEMMA WalkAnswers ==
  ASSUME NEW n \in DOMAIN Script, NEW score,
         NEW lead, \A x \in DOMAIN Script : Leading(x, lead[x])
  PROVE  Walk(n, score, lead).commands \in Answers(n)
<1>. DEFINE s == Parts(n, score, lead)
            G == Upto(n, score)
            N == Len(Script[n])
<1>1. N \in Nat
  BY ScriptTypes
<1>2. /\ s = [i \in 1 .. N |-> IF i \in Tried(n, score) THEN Part(n, score, lead, i) ELSE <<>>]
      /\ Len(s) = N
  BY <1>1 DEF Parts
<1>3. <<>> \in Answers(n)
  <2>1. <<>> \in Seq(Command) /\ \A j \in 1 .. Len(<<>>) : FALSE
    OBVIOUS
  <2>. QED
    BY <2>1, SetsAnswer, Zenon
<1>4. CASE N = 0
  <2>1. FlattenSeq(s) = <<>>
    BY <1>2, <1>4 DEF FlattenSeq
  <2>. QED
    BY <1>3, <2>1, WalkParts
<1>5. CASE N # 0
  <2>. HIDE DEF s
  <2>1. s[1] \in G[1]
    <3>1. 1 \in Tried(n, score)
      BY <1>1, <1>5 DEF Tried
    <3>2. s[1] = Part(n, score, lead, 1) /\ 1 \in 1 .. N
      BY <1>1, <1>2, <1>5, <3>1
    <3>3. Before(n, 1, <<>>)
      BY DEF Before
    <3>4. <<>> \o Part(n, score, lead, 1) \in G[1]
      BY <3>1, <3>3, TriedPart, Zenon
    <3>. QED
      BY <3>2, <3>4
  <2>2. ASSUME NEW i \in 1 .. N - 1, NEW t \in G[i]
        PROVE  t \o s[i + 1] \in G[i + 1]
    <3>1. i \in 1 .. N /\ i + 1 \in 1 .. N /\ i < N /\ i \in Nat
      BY <1>1
    <3>2. /\ t \in Answers(n) /\ t \in Seq(Command)
          /\ (\A j \in 1 .. i : ~ Ends(n, score, j)) =>
                     /\ \A j \in 1 .. Len(t) : IsSet(t, j) /\ ExitOf(n, t[j].arg)
                     /\ OnlyLastMissing => t = <<>>
      BY <3>1, Zenon DEF Upto, Answers
    <3>3. CASE i + 1 \in Tried(n, score)
      <4>1. \A j \in 1 .. i : ~ Ends(n, score, j)
        BY <3>1, <3>3 DEF Tried
      <4>2. Before(n, i + 1, t)
        BY <3>2, <4>1, Zenon DEF Before
      <4>. QED
        BY <1>2, <3>1, <3>3, <4>2, TriedPart, Zenon
    <3>4. CASE i + 1 \notin Tried(n, score)
      <4>1. ~ \A j \in 1 .. i + 1 : ~ Ends(n, score, j)
        BY <3>1, <3>4 DEF Tried
      <4>2. t \in G[i + 1]
        BY <3>1, <3>2, <4>1, Zenon DEF Upto
      <4>3. s[i + 1] = <<>> /\ t \o <<>> = t
        BY <1>2, <3>1, <3>2, <3>4, ConcatEmptySeq
      <4>. QED
        BY <4>2, <4>3
    <3>. QED
      BY <3>3, <3>4
  <2>3. FlattenSeq(s) \in G[N]
    <3>1. Len(s) \in Nat \ {0}
      BY <1>1, <1>2, <1>5
    <3>. HIDE DEF G
    <3>2. FlattenSeq(s) \in G[Len(s)]
      BY <1>2, <2>1, <2>2, <3>1, FlattenInduction
    <3>. QED
      BY <1>2, <3>2
  <2>4. N \in 1 .. N
    BY <1>1, <1>5
  <2>. QED
    BY <2>3, <2>4, WalkParts, Zenon DEF Upto, s
<1>. QED
  BY <1>4, <1>5

\* A command that neither sets, plays nor hangs up may be put around an answer.
Neutral == {"answer", "start_asr", "stop_asr", "detect_stop", "park"}

LEMMA AnswersAround ==
  ASSUME NEW n, NEW s \in Answers(n), NEW a \in Command, a.app \in Neutral
  PROVE  s \o <<a>> \in Answers(n) /\ <<a>> \o s \in Answers(n)
<1>. DEFINE b == <<a>>
            u == s \o b
            v == b \o s
<1>1. b \in Seq(Command) /\ Len(b) = 1 /\ b[1] = a
  OBVIOUS
<1>2. s \in Seq(Command) /\ Len(s) \in Nat
  BY DEF Answers
<1>3. /\ \A i \in 1 .. Len(s) :
          /\ s[i].app # "hangup"
          /\ IsSet(s, i) => ExitOf(n, s[i].arg)
          /\ IsPlayback(s, i) =>
               /\ \/ i > 1 /\ s[i - 1] = Set(s[i].arg)
                  \/ s[i].arg = n /\ \A j \in 1 .. Len(s) : ~ IsSet(s, j)
               /\ StaysAfter(s, i, s[i].arg)
               /\ Script[n] # <<>>
      /\ OnlyLastMissing =>
          \A i, j \in 1 .. Len(s) : IsSet(s, i) /\ IsSet(s, j) => s[i].arg = s[j].arg
  BY Zenon DEF Answers
<1>. HIDE DEF b
<1>4. /\ u \in Seq(Command) /\ Len(u) = Len(s) + 1 /\ u[Len(s) + 1] = a
      /\ \A j \in 1 .. Len(s) : u[j] = s[j]
  <2>1. /\ u \in Seq(Command) /\ Len(u) = Len(s) + Len(b)
        /\ \A j \in 1 .. Len(s) : u[j] = s[j]
        /\ \A j \in 1 .. Len(b) : u[Len(s) + j] = b[j]
    <3>1. s \in Seq(Command) /\ b \in Seq(Command)
      BY <1>1, <1>2
    <3>. QED
      BY <3>1, Joined
  <2>. HIDE DEF u
  <2>. QED
    BY <1>1, <1>2, <2>1
<1>5. /\ v \in Seq(Command) /\ Len(v) = Len(s) + 1 /\ v[1] = a
      /\ \A j \in 1 .. Len(s) : v[1 + j] = s[j]
  <2>1. /\ v \in Seq(Command) /\ Len(v) = Len(b) + Len(s)
        /\ \A j \in 1 .. Len(b) : v[j] = b[j]
        /\ \A j \in 1 .. Len(s) : v[Len(b) + j] = s[j]
    <3>1. s \in Seq(Command) /\ b \in Seq(Command)
      BY <1>1, <1>2
    <3>. QED
      BY <3>1, Joined
  <2>. HIDE DEF v
  <2>. QED
    BY <1>1, <1>2, <2>1
<1>. HIDE DEF u, v
<1>6. u \in Answers(n)
  <2>1. ASSUME NEW i \in 1 .. Len(u)
        PROVE  /\ u[i].app # "hangup"
               /\ IsSet(u, i) => i \in 1 .. Len(s) /\ IsSet(s, i) /\ u[i] = s[i]
               /\ IsPlayback(u, i) => i \in 1 .. Len(s) /\ IsPlayback(s, i) /\ u[i] = s[i]
    BY <1>2, <1>3, <1>4 DEF IsSet, IsPlayback, Neutral
  <2>2. ASSUME NEW i \in 1 .. Len(u), IsPlayback(u, i)
        PROVE  /\ \/ i > 1 /\ u[i - 1] = Set(u[i].arg)
                  \/ u[i].arg = n /\ \A j \in 1 .. Len(u) : ~ IsSet(u, j)
               /\ StaysAfter(u, i, u[i].arg)
               /\ Script[n] # <<>>
    <3>1. i \in 1 .. Len(s) /\ IsPlayback(s, i) /\ u[i] = s[i] /\ i - 1 < Len(s)
      BY <1>2, <2>1, <2>2
    <3>2. i > 1 => u[i - 1] = s[i - 1]
      BY <1>2, <1>4, <3>1
    <3>3. StaysAfter(u, i, u[i].arg)
      BY <1>2, <1>3, <1>4, <2>1, <3>1 DEF StaysAfter
    <3>. QED
      BY <1>3, <2>1, <3>1, <3>2, <3>3, Zenon
  <2>3. \A i \in 1 .. Len(u) : IsSet(u, i) => ExitOf(n, u[i].arg)
    BY <1>3, <2>1, Zenon
  <2>4. OnlyLastMissing =>
          \A i, j \in 1 .. Len(u) : IsSet(u, i) /\ IsSet(u, j) => u[i].arg = u[j].arg
    BY <1>3, <2>1, Zenon
  <2>. QED
    BY <1>4, <2>1, <2>2, <2>3, <2>4, Zenon DEF Answers
<1>7. v \in Answers(n)
  <2>1. ASSUME NEW i \in 1 .. Len(v)
        PROVE  /\ v[i].app # "hangup"
               /\ IsSet(v, i) \/ IsPlayback(v, i) =>
                    i > 1 /\ i - 1 \in 1 .. Len(s) /\ v[i] = s[i - 1]
               /\ IsSet(v, i) => IsSet(s, i - 1)
               /\ IsPlayback(v, i) => IsPlayback(s, i - 1)
    <3>1. CASE i = 1
      BY <1>5, <3>1 DEF IsSet, IsPlayback, Neutral
    <3>2. CASE i # 1
      <4>1. i > 1 /\ i - 1 \in 1 .. Len(s) /\ i = 1 + (i - 1)
        BY <1>2, <1>5, <3>2
      <4>2. v[i] = s[i - 1]
        BY <1>5, <4>1
      <4>. QED
        BY <1>3, <4>1, <4>2, Zenon DEF IsSet, IsPlayback
    <3>. QED
      BY <3>1, <3>2
  <2>2. ASSUME NEW i \in 1 .. Len(v), IsPlayback(v, i)
        PROVE  /\ \/ i > 1 /\ v[i - 1] = Set(v[i].arg)
                  \/ v[i].arg = n /\ \A j \in 1 .. Len(v) : ~ IsSet(v, j)
               /\ StaysAfter(v, i, v[i].arg)
               /\ Script[n] # <<>>
    <3>. DEFINE k == i - 1
    <3>1. k \in 1 .. Len(s) /\ IsPlayback(s, k) /\ v[i] = s[k] /\ i > 1
      BY <2>1, <2>2
    <3>2. k > 1 => v[i - 1] = s[k - 1]
      <4>1. SUFFICES ASSUME k > 1 PROVE v[i - 1] = s[k - 1]
        OBVIOUS
      <4>2. k - 1 \in 1 .. Len(s) /\ i - 1 = 1 + (k - 1)
        BY <1>2, <3>1, <4>1
      <4>. QED
        BY <1>5, <4>2, Zenon
    <3>3. StaysAfter(v, i, v[i].arg)
      <4>1. ASSUME NEW j \in i + 1 .. Len(v)
            PROVE  ~ IsPlayback(v, j) /\ (IsSet(v, j) => v[j].arg = v[i].arg)
        <5>1. j - 1 \in k + 1 .. Len(s) /\ j \in 1 .. Len(v)
          BY <1>2, <1>5, <3>1
        <5>2. StaysAfter(s, k, s[k].arg)
          BY <1>3, <3>1, Zenon
        <5>3. ~ IsPlayback(s, j - 1) /\ (IsSet(s, j - 1) => s[j - 1].arg = s[k].arg)
          BY <5>1, <5>2, Zenon DEF StaysAfter
        <5>. QED
          BY <2>1, <3>1, <5>1, <5>3, Zenon
      <4>. QED
        BY <4>1, Zenon DEF StaysAfter
    <3>4. /\ \/ k > 1 /\ s[k - 1] = Set(s[k].arg)
             \/ s[k].arg = n /\ \A j \in 1 .. Len(s) : ~ IsSet(s, j)
          /\ Script[n] # <<>>
      BY <1>3, <3>1, Zenon
    <3>. QED
      BY <2>1, <3>1, <3>2, <3>3, <3>4, Zenon
  <2>3. \A i \in 1 .. Len(v) : IsSet(v, i) => ExitOf(n, v[i].arg)
    BY <1>3, <2>1, Zenon
  <2>4. OnlyLastMissing =>
          \A i, j \in 1 .. Len(v) : IsSet(v, i) /\ IsSet(v, j) => v[i].arg = v[j].arg
    <3>1. SUFFICES ASSUME OnlyLastMissing,
                          NEW i \in 1 .. Len(v), NEW j \in 1 .. Len(v),
                          IsSet(v, i), IsSet(v, j)
                   PROVE  v[i].arg = v[j].arg
      BY Zenon
    <3>2. /\ i - 1 \in 1 .. Len(s) /\ v[i] = s[i - 1] /\ IsSet(s, i - 1)
          /\ j - 1 \in 1 .. Len(s) /\ v[j] = s[j - 1] /\ IsSet(s, j - 1)
      BY <2>1, <3>1, Zenon
    <3>3. s[i - 1].arg = s[j - 1].arg
      BY <1>3, <3>1, <3>2, Zenon
    <3>. QED
      BY <3>2, <3>3, Zenon
  <2>. QED
    BY <1>5, <2>1, <2>2, <2>3, <2>4, Zenon DEF Answers
<1>. QED
  BY <1>6, <1>7 DEF u, v, b

\* Playing a node again is an answer.
LEMMA LeadAnswers ==
  ASSUME NEW n \in DOMAIN Script, Script[n] # <<>>, NEW lead, Leading(n, lead)
  PROVE  lead \in Answers(n)
<1>1. lead \in Seq(Command) /\ Len(lead) \in Nat
  BY DEF Leading
<1>2. \A i \in 1 .. Len(lead) :
        /\ lead[i].app # "hangup" /\ ~ IsSet(lead, i)
        /\ IsPlayback(lead, i) => i = 1 /\ lead[i].arg = n
  BY <1>1 DEF Leading, IsSet, IsPlayback, Playback
<1>. QED
  BY <1>1, <1>2 DEF Answers, StaysAfter

-----------------------------------------------------------------------------
(* The handlers, by the event they handle and what they send.              *)

\* e is handled, s is sent.
Parks(e, s) == e.type = "park" /\ s = ParkCommands /\ gIsAsr' = gIsAsr
StopsPlaying(e, s) ==
  /\ e.type = "stop" /\ ~ Missing(e) /\ gIsAsr' = FALSE
  /\ s = IF Script[NodeAt(e)] = <<>> THEN <<Do("hangup")>> ELSE <<>>
Ignores(e, s) ==
  /\ e.type = "asr" /\ ~ Heard(e) /\ gIsAsr' = gIsAsr
  /\ s = <<Do("stop_asr")>>
Keeps(e, s) ==
  /\ e.type = "logged" \/ e.type = "speech"
  /\ gIsAsr' = gIsAsr /\ s = <<>>
AnswersAsr(e, s) ==
  /\ e.type = "asr" /\ Heard(e) /\ ~ Missing(e) /\ gIsAsr' = TRUE
  /\ s \in Answers(NodeAt(e))
AnswersSpeech(e, s) ==
  /\ e.type = "speech" /\ ~ Missing(e) /\ gIsAsr' = gIsAsr
  /\ \/ s \in Answers(NodeAt(e))
     \/ Script[NodeAt(e)] = <<>> /\ s = <<Do("detect_stop")>> \o <<Do("hangup")>>

Handled(e, s) ==
  /\ ~ crashed /\ events # <<>> /\ e = Head(events)
  /\ s \in Seq(Command) /\ Process(e, s)
  /\ \/ Parks(e, s) \/ StopsPlaying(e, s) \/ Ignores(e, s) \/ Keeps(e, s)
     \/ AnswersAsr(e, s) \/ AnswersSpeech(e, s)

LEMMA HandlePark_Handled ==
  ASSUME HandlePark PROVE \E e, s : Handled(e, s)
<1>1. ParkCommands \in Seq(Command)
  <2>1. /\ Do("answer") \in Command /\ Set(1) \in Command /\ Playback(1) \in Command
        /\ Do("start_asr") \in Command /\ Do("park") \in Command
    BY CommandTypes
  <2>. QED
    BY <2>1 DEF ParkCommands, playDetectSpeech
<1>2. Handled(Head(events), ParkCommands)
  BY <1>1, Zenon DEF HandlePark, Receives, Handled, Parks
<1>. QED
  BY <1>2, Zenon

LEMMA HandlePlaybackStop_Handled ==
  ASSUME HandlePlaybackStop PROVE \E e, s : Handled(e, s)
<1>. DEFINE e == Head(events)
            s == IF Script[NodeAt(e)] = <<>> THEN <<Do("hangup")>> ELSE <<>>
<1>1. s \in Seq(Command)
  <2>1. Do("hangup") \in Command
    BY CommandTypes
  <2>. QED
    BY <2>1
<1>2. Handled(e, s)
  BY <1>1, Zenon DEF HandlePlaybackStop, Receives, Handled, StopsPlaying
<1>. QED
  BY <1>2, Zenon

LEMMA HandleAsrIgnored_Handled ==
  ASSUME HandleAsrIgnored PROVE \E e, s : Handled(e, s)
<1>1. <<Do("stop_asr")>> \in Seq(Command)
  <2>1. Do("stop_asr") \in Command
    BY CommandTypes
  <2>. QED
    BY <2>1
<1>2. Handled(Head(events), <<Do("stop_asr")>>)
  BY <1>1, Zenon DEF HandleAsrIgnored, Receives, Handled, Ignores
<1>. QED
  BY <1>2, Zenon

LEMMA HandleLogged_Handled ==
  ASSUME HandleLogged PROVE \E e, s : Handled(e, s)
<1>1. <<>> \in Seq(Command)
  OBVIOUS
<1>2. Handled(Head(events), <<>>)
  BY <1>1, Zenon DEF HandleLogged, Receives, Handled, Keeps
<1>. QED
  BY <1>2, Zenon

LEMMA HandleSpeechIgnored_Handled ==
  ASSUME HandleSpeechIgnored PROVE \E e, s : Handled(e, s)
<1>1. <<>> \in Seq(Command)
  OBVIOUS
<1>2. Handled(Head(events), <<>>)
  BY <1>1, Zenon DEF HandleSpeechIgnored, Receives, Handled, Keeps
<1>. QED
  BY <1>2, Zenon

LEMMA HandleAsr_Handled ==
  ASSUME HandleAsr PROVE \E e, s : Handled(e, s)
<1>. DEFINE e == Head(events)
            n == NodeAt(e)
            lead == [x \in DOMAIN Script |-> <<Playback(x)>>]
            Walked(score) == Walk(n, score, lead)
            Sent(score) == Walked(score).commands
                             \o IF Walked(score).moved THEN <<>> ELSE <<Do("stop_asr")>>
<1>1. n \in DOMAIN Script
  BY DEF HandleAsr, Missing
<1>2. \A x \in DOMAIN Script : Leading(x, lead[x])
  BY BothLead, ScriptTypes
<1>3. /\ ~ crashed /\ events # <<>> /\ e.type = "asr" /\ Heard(e) /\ ~ Missing(e)
      /\ gIsAsr' = TRUE
      /\ \/ Script[n] # <<>> /\ Process(e, lead[n])
         \/ \E score : Process(e, Sent(score))
  BY Zenon DEF HandleAsr, Receives
<1>4. CASE Script[n] # <<>> /\ Process(e, lead[n])
  <2>1. lead[n] \in Answers(n)
    <3>. HIDE DEF n, lead
    <3>. QED
      BY <1>1, <1>2, <1>4, LeadAnswers, Zenon
  <2>2. lead[n] \in Seq(Command)
    BY <2>1, Zenon DEF Answers
  <2>3. Handled(e, lead[n])
    BY <1>3, <1>4, <2>1, <2>2, Zenon DEF Handled, AnswersAsr
  <2>. QED
    BY <2>3, Zenon
<1>5. CASE \E score : Process(e, Sent(score))
  <2>1. PICK score : Process(e, Sent(score))
    BY <1>5, Zenon
  <2>2. Walked(score).commands \in Answers(n)
    <3>. HIDE DEF n, lead
    <3>. QED
      BY <1>1, <1>2, WalkAnswers, Zenon
  <2>3. Sent(score) \in Answers(n)
    <3>1. Do("stop_asr") \in Command /\ Do("stop_asr").app \in Neutral
      BY CommandTypes DEF Do, Neutral
    <3>2. Walked(score).commands \in Seq(Command)
      BY <2>2, Zenon DEF Answers
    <3>. HIDE DEF Walked
    <3>3. Walked(score).commands \o <<>> = Walked(score).commands
      BY <3>2, ConcatEmptySeq
    <3>4. Walked(score).commands \o <<Do("stop_asr")>> \in Answers(n)
      BY <2>2, <3>1, AnswersAround, Zenon
    <3>. QED
      BY <2>2, <3>3, <3>4, Zenon
  <2>4. Sent(score) \in Seq(Command)
    BY <2>3, Zenon DEF Answers
  <2>. HIDE DEF Sent
  <2>5. Handled(e, Sent(score))
    BY <1>3, <2>1, <2>3, <2>4, Zenon DEF Handled, AnswersAsr
  <2>. QED
    BY <2>5, Zenon
<1>. QED
  BY <1>3, <1>4, <1>5, Zenon

LEMMA HandleSpeech_Handled ==
  ASSUME HandleSpeech PROVE \E e, s : Handled(e, s)
<1>. DEFINE e == Head(events)
            n == NodeAt(e)
            lead == [x \in DOMAIN Script |-> playDetectSpeech(x)]
            Stopped(commands) == <<Do("detect_stop")>> \o commands
            Walked(score) == Walk(n, score, lead).commands
<1>1. n \in DOMAIN Script
  BY DEF HandleSpeech, Missing
<1>2. \A x \in DOMAIN Script : Leading(x, lead[x])
  BY BothLead, ScriptTypes
<1>3. /\ ~ crashed /\ events # <<>> /\ e.type = "speech" /\ ~ Missing(e)
      /\ gIsAsr' = gIsAsr
      /\ \/ Script[n] = <<>> /\ Process(e, Stopped(<<Do("hangup")>>))
         \/ Script[n] # <<>> /\ Process(e, Stopped(lead[n]))
         \/ \E score : Process(e, Stopped(Walked(score)))
  BY Zenon DEF HandleSpeech, Receives
<1>4. Do("detect_stop") \in Command /\ Do("detect_stop").app \in Neutral
  BY CommandTypes DEF Do, Neutral
<1>5. ASSUME NEW s \in Answers(n), Process(e, Stopped(s))
      PROVE  \E x, t : Handled(x, t)
  <2>1. Stopped(s) \in Answers(n)
    <3>. HIDE DEF n
    <3>. QED
      BY <1>4, <1>5, AnswersAround, Zenon
  <2>2. Stopped(s) \in Seq(Command)
    BY <2>1, Zenon DEF Answers
  <2>. HIDE DEF Stopped
  <2>3. Handled(e, Stopped(s))
    BY <1>3, <1>5, <2>1, <2>2, Zenon DEF Handled, AnswersSpeech
  <2>. QED
    BY <2>3, Zenon
<1>6. CASE Script[n] = <<>> /\ Process(e, Stopped(<<Do("hangup")>>))
  <2>1. Stopped(<<Do("hangup")>>) \in Seq(Command)
    <3>1. Do("detect_stop") \in Command /\ Do("hangup") \in Command
      BY CommandTypes
    <3>. QED
      BY <3>1
  <2>2. Handled(e, Stopped(<<Do("hangup")>>))
    BY <1>3, <1>6, <2>1, Zenon DEF Handled, AnswersSpeech
  <2>. QED
    BY <2>2, Zenon
<1>7. CASE Script[n] # <<>> /\ Process(e, Stopped(lead[n]))
  <2>1. lead[n] \in Answers(n)
    <3>. HIDE DEF n, lead
    <3>. QED
      BY <1>1, <1>2, <1>7, LeadAnswers, Zenon
  <2>. QED
    BY <1>5, <1>7, <2>1, Zenon
<1>8. CASE \E score : Process(e, Stopped(Walked(score)))
  <2>1. PICK score : Process(e, Stopped(Walked(score)))
    BY <1>8, Zenon
  <2>2. Walked(score) \in Answers(n)
    <3>. HIDE DEF n, lead
    <3>. QED
      BY <1>1, <1>2, WalkAnswers, Zenon
  <2>. QED
    BY <1>5, <2>1, <2>2, Zenon
<1>. QED
  BY <1>3, <1>6, <1>7, <1>8, Zenon

\* A step of the program handles the first event or fails on it.
LEMMA HandleCases ==
  ASSUME HandlePark \/ HandlePlaybackStop \/ HandleAsrIgnored \/ HandleAsr
           \/ HandleSpeechIgnored \/ HandleSpeech \/ HandleLogged
  PROVE  \E e, s : Handled(e, s)
BY HandlePark_Handled, HandlePlaybackStop_Handled, HandleAsrIgnored_Handled,
   HandleAsr_Handled, HandleSpeechIgnored_Handled, HandleSpeech_Handled,
   HandleLogged_Handled, Zenon

-----------------------------------------------------------------------------
(* Types.                                                                  *)

\* The commands a channel has after s was sent to it.
LEMMA ExecuteTypes ==
  ASSUME TypeOK, NEW c \in Calls, NEW s \in Seq(Command), Execute(c, s)
  PROVE  apps' \in [Calls -> Seq(Command)]
<1>1. apps[c] \o s \in Seq(Command)
  BY DEF TypeOK
<1>. QED
  BY <1>1 DEF TypeOK, Execute

LEMMA EventTypes ==
  ASSUME TypeOK, events # <<>>
  PROVE  /\ Head(events) \in Event /\ Tail(events) \in Seq(Event)
         /\ Head(events).call \in Calls /\ NodeAt(Head(events)) \in Nat
<1>1. Head(events) \in Event /\ Tail(events) \in Seq(Event)
  BY DEF TypeOK
<1>. QED
  BY <1>1 DEF TypeOK, Event, NodeAt

\* What a channel reports is an event.
LEMMA EvTypes ==
  ASSUME TypeOK, NEW c \in Calls, NEW type \in {"park", "stop", "asr", "speech", "logged"}
  PROVE  Ev(type, c) \in Event
<1>1. "none" \in AllTexts /\ node[c] \in Nat
  BY DEF AllTexts, TypeOK
<1>. QED
  BY <1>1 DEF Ev, Event

LEMMA HandledTypes ==
  ASSUME TypeOK, NEW e, NEW s, Handled(e, s)
  PROVE  TypeOK'
<1>1. e = Head(events) /\ events # <<>> /\ s \in Seq(Command) /\ Process(e, s)
  BY DEF Handled
<1>2. gIsAsr' \in BOOLEAN
  BY DEF Handled, Parks, StopsPlaying, Ignores, Keeps, AnswersAsr, AnswersSpeech, TypeOK
<1>3. apps' \in [Calls -> Seq(Command)]
  BY <1>1, EventTypes, ExecuteTypes DEF Process
<1>. QED
  BY <1>1, <1>2, <1>3, EventTypes DEF Process, TypeOK

LEMMA RunsTypes ==
  ASSUME TypeOK, NEW c \in Calls, NEW app, Runs(c, app)
  PROVE  /\ apps' \in [Calls -> Seq(Command)]
         /\ Head(apps[c]) \in Command /\ Head(apps[c]).arg \in Nat
<1>1. apps[c] \in Seq(Command) /\ apps[c] # <<>>
  BY DEF TypeOK, Runs
<1>2. Tail(apps[c]) \in Seq(Command) /\ Head(apps[c]) \in Command
  BY <1>1
<1>. QED
  BY <1>2 DEF TypeOK, Runs, Command

LEMMA NextTypes == TypeOK /\ [Next]_vars => TypeOK'
<1>. SUFFICES ASSUME TypeOK, [Next]_vars PROVE TypeOK'
  OBVIOUS
<1>1. CASE HandlePark \/ HandlePlaybackStop \/ HandleAsrIgnored \/ HandleAsr
             \/ HandleSpeechIgnored \/ HandleSpeech \/ HandleLogged
  BY <1>1, HandleCases, HandledTypes
<1>2. CASE LookupFails
  BY <1>2 DEF LookupFails, TypeOK, channels
<1>3. ASSUME NEW c \in Calls, Arrive(c) PROVE TypeOK'
  <2>1. Append(events, Ev("park", c)) \in Seq(Event)
    BY EvTypes DEF TypeOK
  <2>. QED
    BY <1>3, <2>1 DEF Arrive, TypeOK, program
<1>4. ASSUME NEW c \in Calls, CallerHangsUp(c) PROVE TypeOK'
  <2>1. Ev("stop", c) \in Event /\ Ev("logged", c) \in Event
    BY EvTypes
  <2>. DEFINE one == IF file[c] # 0 THEN <<Ev("stop", c)>> ELSE <<>>
              two == <<Ev("logged", c)>>
  <2>2. one \in Seq(Event) /\ two \in Seq(Event) /\ events \in Seq(Event)
    BY <2>1 DEF TypeOK
  <2>. HIDE DEF one, two
  <2>3. (events \o one) \o two \in Seq(Event)
    BY <2>2
  <2>4. events' \in Seq(Event)
    BY <1>4, <2>3 DEF CallerHangsUp, one, two
  <2>. QED
    BY <1>4, <2>4 DEF CallerHangsUp, TypeOK, program
<1>5. ASSUME NEW c \in Calls, RunSet(c) PROVE TypeOK'
  BY <1>5, RunsTypes DEF RunSet, Runs, TypeOK, program
<1>6. ASSUME NEW c \in Calls, RunPlayback(c) PROVE TypeOK'
  <2>1. Append(events, Ev("logged", c)) \in Seq(Event)
    BY EvTypes DEF TypeOK
  <2>. QED
    BY <1>6, <2>1, RunsTypes DEF RunPlayback, Runs, TypeOK, program
<1>7. ASSUME NEW c \in Calls, RunListen(c) PROVE TypeOK'
  BY <1>7, RunsTypes DEF RunListen, Runs, TypeOK, program
<1>8. ASSUME NEW c \in Calls, RunOther(c) PROVE TypeOK'
  BY <1>8, RunsTypes DEF RunOther, Runs, TypeOK, program
<1>9. ASSUME NEW c \in Calls, RunHangup(c) PROVE TypeOK'
  <2>1. Append(events, Ev("logged", c)) \in Seq(Event)
    BY EvTypes DEF TypeOK
  <2>. QED
    BY <1>9, <2>1 DEF RunHangup, TypeOK, program
<1>10. ASSUME NEW c \in Calls, PlaybackEnds(c) PROVE TypeOK'
  <2>1. Append(events, Ev("stop", c)) \in Seq(Event)
    BY EvTypes DEF TypeOK
  <2>. QED
    BY <1>10, <2>1 DEF PlaybackEnds, TypeOK, program
<1>11. ASSUME NEW c \in Calls, NEW text \in Texts, Speaks(c, text) PROVE TypeOK'
  <2>1. PICK type \in Engines, marked \in {TRUE, ~ Unmarked} :
          events' = Append(events, [type |-> type, call |-> c,
                                    node |-> IF marked THEN node[c] ELSE 0,
                                    text |-> text])
    BY <1>11, Zenon DEF Speaks
  <2>2. text \in AllTexts /\ type \in {"asr", "speech"} /\ node[c] \in Nat
    BY InputAssumption DEF TypeOK
  <2>3. events' \in Seq(Event)
    BY <2>1, <2>2 DEF TypeOK, Event
  <2>4. said' \in [Calls -> 0 .. MaxResults]
    BY <1>11, InputAssumption DEF Speaks, TypeOK
  <2>. QED
    BY <1>11, <2>3, <2>4 DEF Speaks, TypeOK, program
<1>12. CASE UNCHANGED vars
  BY <1>12 DEF vars, program, channels, TypeOK
<1>. QED
  BY <1>1, <1>2, <1>3, <1>4, <1>5, <1>6, <1>7, <1>8, <1>9, <1>10, <1>11, <1>12,
     Zenon DEF Next

LEMMA InitTypes == Init => TypeOK
<1>. SUFFICES ASSUME Init PROVE TypeOK
  OBVIOUS
<1>1. <<>> \in Seq(Event) /\ <<>> \in Seq(Command) /\ 0 \in 0 .. MaxResults
  BY InputAssumption
<1>. QED
  BY <1>1, Zenon DEF Init, TypeOK

\* The state of the program, of the channels and of what is under way has its
\* type at all times, whatever the script, the calls and the recognisers.
THEOREM CallFlowTypes == Spec => []TypeOK
BY InitTypes, NextTypes, PTL DEF Spec

-----------------------------------------------------------------------------
(* Lookups.                                                                *)

\* The nodes that may come up: those of the script and those of its exits.
Known == DOMAIN Script \cup MissingExits

\* The events up to i, or an earlier one, have set nodeState.
MarkedTo(i) == nodeState # 0 \/ \E j \in 1 .. i : events[j].node # 0

\* Commands set known nodes only; no recording starts before a node is set,
\* and the recogniser not before a recording, if none of it was done before.
KnownSets(s) == \A i \in 1 .. Len(s) : IsSet(s, i) => s[i].arg \in Known
SetFirst(n, s) ==
  n # 0 \/ \A i \in 1 .. Len(s) : s[i].app \in {"playback", "start_asr"} =>
             \E j \in 1 .. i - 1 : IsSet(s, j)
PlayFirst(played, s) ==
  played \/ \A i \in 1 .. Len(s) : s[i].app = "start_asr" =>
              \E j \in 1 .. i - 1 : IsPlayback(s, j)

Evaluated == {"stop", "asr", "speech"}

\* What is known of a channel: what it reports comes after its node was set
\* and after an event that said so.
ChannelMarked(c) ==
  /\ node[c] \in Known \cup {0}
  /\ file[c] # 0 => node[c] # 0
  /\ asr[c] => node[c] # 0 /\ MarkedTo(Len(events))
  /\ KnownSets(apps[c]) /\ SetFirst(node[c], apps[c])
  /\ PlayFirst(MarkedTo(Len(events)), apps[c])

EventMarked(i) ==
  /\ events[i].node \in Known \cup {0}
  /\ events[i].type \in Evaluated => node[events[i].call] # 0 /\ MarkedTo(i)

LookupInv ==
  /\ nodeState \in Known \cup {0}
  /\ \A i \in 1 .. Len(events) : EventMarked(i)
  /\ \A c \in Calls : ChannelMarked(c)
  /\ NoFailedLookup

LEMMA KnownNodes ==
  /\ Known \subseteq Nat \ {0}
  /\ \A n \in DOMAIN Script : \A x : ExitOf(n, x) => x \in Known
<1>1. ASSUME NEW n \in DOMAIN Script, NEW x, ExitOf(n, x)
      PROVE  x \in Nat \ {0} /\ x \in Known
  <2>1. PICK i \in 1 .. Len(Script[n]) : Script[n][i].exit = x
    BY <1>1 DEF ExitOf
  <2>2. x \in Nat \ {0}
    BY <2>1, ScriptTypes
  <2>3. x \in {Script[n][j].exit : j \in 1 .. Len(Script[n])}
    BY <2>1, Zenon
  <2>. DEFINE U == UNION {{Script[m][j].exit : j \in 1 .. Len(Script[m])} : m \in DOMAIN Script}
  <2>4. x \in U
    BY <2>3, Zenon
  <2>5. MissingExits = U \ DOMAIN Script
    BY Zenon DEF MissingExits
  <2>. HIDE DEF U
  <2>. QED
    BY <2>2, <2>4, <2>5 DEF Known
<1>2. ASSUME NEW x \in Known PROVE x \in Nat \ {0}
  <2>1. CASE x \in DOMAIN Script
    BY <2>1, ScriptTypes
  <2>2. CASE x \in MissingExits
    BY <1>1, <2>2 DEF MissingExits, ExitOf
  <2>. QED
    BY <2>1, <2>2 DEF Known
<1>. QED
  BY <1>1, <1>2

\* The three facts about commands pass to what is left and to what is added.
LEMMA CommandsTail ==
  ASSUME NEW s \in Seq(Command), s # <<>>
  PROVE  /\ KnownSets(s) => KnownSets(Tail(s))
         /\ \A n, m : /\ SetFirst(n, s) /\ (n # 0 => m # 0)
                      /\ Head(s).app = "set" => m # 0
                      => SetFirst(m, Tail(s))
         /\ \A a, b : /\ PlayFirst(a, s) /\ (a => b)
                      /\ Head(s).app = "playback" => b
                      => PlayFirst(b, Tail(s))
<1>. DEFINE t == Tail(s)
<1>1. /\ Len(s) \in Nat \ {0} /\ Len(t) = Len(s) - 1 /\ Head(s) = s[1]
      /\ \A i \in 1 .. Len(t) : i + 1 \in 1 .. Len(s) /\ t[i] = s[i + 1]
  BY HeadTailProperties
<1>. HIDE DEF t
<1>2. KnownSets(s) => KnownSets(t)
  BY <1>1 DEF KnownSets, IsSet
<1>3. ASSUME NEW n, NEW m, SetFirst(n, s), n # 0 => m # 0,
             Head(s).app = "set" => m # 0
      PROVE  SetFirst(m, t)
  <2>1. SUFFICES ASSUME m = 0, NEW i \in 1 .. Len(t),
                        t[i].app \in {"playback", "start_asr"}
                 PROVE  \E j \in 1 .. i - 1 : IsSet(t, j)
    BY DEF SetFirst
  <2>2. PICK j \in 1 .. i : IsSet(s, j)
    BY <1>1, <1>3, <2>1 DEF SetFirst
  <2>3. j # 1
    BY <1>1, <1>3, <2>1, <2>2 DEF IsSet
  <2>4. j - 1 \in 1 .. i - 1 /\ IsSet(t, j - 1)
    BY <1>1, <2>1, <2>2, <2>3 DEF IsSet
  <2>. QED
    BY <2>4
<1>4. ASSUME NEW a, NEW b, PlayFirst(a, s), a => b,
             Head(s).app = "playback" => b
      PROVE  PlayFirst(b, t)
  <2>1. SUFFICES ASSUME ~ b, NEW i \in 1 .. Len(t), t[i].app = "start_asr"
                 PROVE  \E j \in 1 .. i - 1 : IsPlayback(t, j)
    BY Zenon DEF PlayFirst
  <2>2. PICK j \in 1 .. i : IsPlayback(s, j)
    <3>1. i + 1 \in 1 .. Len(s) /\ s[i + 1].app = "start_asr" /\ (i + 1) - 1 = i
      BY <1>1, <2>1
    <3>. QED
      BY <1>4, <2>1, <3>1, Zenon DEF PlayFirst
  <2>3. j # 1
    <3>1. s[1].app # "playback"
      BY <1>1, <1>4, <2>1, Zenon
    <3>. QED
      BY <2>2, <3>1 DEF IsPlayback
  <2>4. j - 1 \in 1 .. i - 1 /\ IsPlayback(t, j - 1)
    BY <1>1, <2>1, <2>2, <2>3 DEF IsPlayback
  <2>. QED
    BY <2>4
<1>. QED
  BY <1>2, <1>3, <1>4, Zenon DEF t

LEMMA CommandsAdded ==
  ASSUME NEW s \in Seq(Command), NEW t \in Seq(Command)
  PROVE  /\ KnownSets(s) /\ KnownSets(t) => KnownSets(s \o t)
         /\ \A n : SetFirst(n, s) /\ SetFirst(n, t) => SetFirst(n, s \o t)
         /\ \A a, b : PlayFirst(a, s) /\ (a => b) /\ PlayFirst(b, t) => PlayFirst(b, s \o t)
<1>. DEFINE u == s \o t
<1>1. /\ u \in Seq(Command) /\ Len(u) = Len(s) + Len(t)
      /\ \A j \in 1 .. Len(s) : u[j] = s[j]
      /\ \A j \in Len(s) + 1 .. Len(s) + Len(t) :
           j - Len(s) \in 1 .. Len(t) /\ u[j] = t[j - Len(s)]
      /\ \A j \in 1 .. Len(t) : u[Len(s) + j] = t[j]
  BY Joined
<1>2. Len(s) \in Nat /\ Len(t) \in Nat
  OBVIOUS
<1>. HIDE DEF u
<1>3. \A i \in 1 .. Len(u) : i \in 1 .. Len(s) \/ i \in Len(s) + 1 .. Len(s) + Len(t)
  BY <1>1, <1>2
<1>4. KnownSets(s) /\ KnownSets(t) => KnownSets(u)
  BY <1>1, <1>3 DEF KnownSets, IsSet
<1>5. ASSUME NEW n, SetFirst(n, s), SetFirst(n, t) PROVE SetFirst(n, u)
  <2>1. SUFFICES ASSUME n = 0, NEW i \in 1 .. Len(u),
                        u[i].app \in {"playback", "start_asr"}
                 PROVE  \E j \in 1 .. i - 1 : IsSet(u, j)
    BY DEF SetFirst
  <2>2. CASE i \in 1 .. Len(s)
    <3>1. PICK j \in 1 .. i - 1 : IsSet(s, j)
      BY <1>1, <1>5, <2>1, <2>2 DEF SetFirst
    <3>. QED
      BY <1>1, <1>2, <2>2, <3>1 DEF IsSet
  <2>3. CASE i \in Len(s) + 1 .. Len(s) + Len(t)
    <3>1. PICK j \in 1 .. (i - Len(s)) - 1 : IsSet(t, j)
      BY <1>1, <1>5, <2>1, <2>3 DEF SetFirst
    <3>2. j \in 1 .. Len(t) /\ Len(s) + j \in 1 .. i - 1
      BY <1>2, <2>3, <3>1
    <3>. QED
      BY <1>1, <3>1, <3>2, Zenon DEF IsSet
  <2>. QED
    BY <1>3, <2>2, <2>3
<1>6. ASSUME NEW a, NEW b, PlayFirst(a, s), a => b, PlayFirst(b, t)
      PROVE  PlayFirst(b, u)
  <2>1. SUFFICES ASSUME ~ b, NEW i \in 1 .. Len(u), u[i].app = "start_asr"
                 PROVE  \E j \in 1 .. i - 1 : IsPlayback(u, j)
    BY Zenon DEF PlayFirst
  <2>2. CASE i \in 1 .. Len(s)
    <3>1. PICK j \in 1 .. i - 1 : IsPlayback(s, j)
      <4>1. s[i].app = "start_asr"
        BY <1>1, <2>1, <2>2
      <4>. QED
        BY <1>6, <2>1, <2>2, <4>1, Zenon DEF PlayFirst
    <3>. QED
      BY <1>1, <1>2, <2>2, <3>1 DEF IsPlayback
  <2>3. CASE i \in Len(s) + 1 .. Len(s) + Len(t)
    <3>. DEFINE k == i - Len(s)
    <3>1. k \in 1 .. Len(t) /\ t[k].app = "start_asr"
      BY <1>1, <2>1, <2>3
    <3>. HIDE DEF k
    <3>2. PICK j \in 1 .. k - 1 : IsPlayback(t, j)
      BY <1>6, <2>1, <3>1, Zenon DEF PlayFirst
    <3>3. j \in 1 .. Len(t) /\ Len(s) + j \in 1 .. i - 1
      BY <1>2, <2>3, <3>1, <3>2 DEF k
    <3>. QED
      BY <1>1, <3>2, <3>3, Zenon DEF IsPlayback
  <2>. QED
    BY <1>3, <2>2, <2>3
<1>. QED
  BY <1>4, <1>5, <1>6, Zenon DEF u

\* The commands of a call's start, one by one.
LEMMA ParkLaidOut ==
  ASSUME 1 \in DOMAIN Script
  PROVE  /\ Len(ParkCommands) = 5
         /\ ParkCommands[1] = Do("answer") /\ ParkCommands[2] = Set(1)
         /\ ParkCommands[3] = Playback(1) /\ ParkCommands[4] = Do("start_asr")
         /\ ParkCommands[5] = Do("park")
<1>. DEFINE p == <<Playback(1), Do("start_asr"), Do("park")>>
            q == <<Set(1)>> \o p
            s == <<Do("answer")>> \o q
<1>1. ParkCommands = s
  BY DEF ParkCommands, playDetectSpeech
<1>2. /\ p \in Seq(Command) /\ Len(p) = 3 /\ p[1] = Playback(1)
      /\ p[2] = Do("start_asr") /\ p[3] = Do("park")
  <2>1. Playback(1) \in Command /\ Do("start_asr") \in Command /\ Do("park") \in Command
    BY CommandTypes
  <2>. QED
    BY <2>1
<1>. HIDE DEF p
<1>3. Set(1) \in Command /\ Do("answer") \in Command
  BY CommandTypes
<1>4. q \in Seq(Command) /\ Len(q) = 4 /\ q[1] = Set(1) /\ \A j \in 1 .. 3 : q[j + 1] = p[j]
  <2>1. /\ q \in Seq(Command) /\ Len(q) = Len(p) + 1 /\ q[1] = Set(1)
        /\ \A j \in 1 .. Len(p) : q[j + 1] = p[j]
    BY <1>2, <1>3, Prefixed, Zenon
  <2>. HIDE DEF q
  <2>. QED
    BY <1>2, <2>1
<1>. HIDE DEF q
<1>5. Len(s) = 5 /\ s[1] = Do("answer") /\ \A j \in 1 .. 4 : s[j + 1] = q[j]
  <2>1. /\ Len(s) = Len(q) + 1 /\ s[1] = Do("answer")
        /\ \A j \in 1 .. Len(q) : s[j + 1] = q[j]
    BY <1>3, <1>4, Prefixed, Zenon
  <2>. HIDE DEF s
  <2>. QED
    BY <1>4, <2>1
<1>. HIDE DEF s
<1>6. s[2] = q[1] /\ s[3] = q[2] /\ s[4] = q[3] /\ s[5] = q[4]
      /\ q[2] = p[1] /\ q[3] = p[2] /\ q[4] = p[3]
  BY <1>4, <1>5
<1>. QED
  BY <1>1, <1>2, <1>4, <1>5, <1>6

\* What a handler sends keeps the facts about the commands.
LEMMA SentMarked ==
  ASSUME TypeOK, LookupInv, NEW e, NEW s, Handled(e, s)
  PROVE  /\ NodeAt(e) \in Known \cup {0}
         /\ KnownSets(s) /\ SetFirst(node[e.call], s) /\ PlayFirst(NodeAt(e) # 0, s)
<1>1. e = Head(events) /\ e = events[1] /\ 1 \in 1 .. Len(events) /\ s \in Seq(Command)
  BY DEF Handled, TypeOK
<1>2. EventMarked(1)
  BY <1>1 DEF LookupInv
<1>3. NodeAt(e) \in Known \cup {0}
  BY <1>1, <1>2 DEF LookupInv, EventMarked, NodeAt
<1>4. CASE Parks(e, s)
  <2>1. s = ParkCommands
    BY <1>4 DEF Parks
  <2>2. CASE 1 \in DOMAIN Script
    <3>3. /\ Len(s) = 5 /\ s[1] = Do("answer") /\ s[2] = Set(1) /\ s[3] = Playback(1)
          /\ s[4] = Do("start_asr") /\ s[5] = Do("park")
      BY <2>1, <2>2, ParkLaidOut
    <3>4. /\ Do("answer").app = "answer" /\ Set(1).app = "set" /\ Set(1).arg = 1
          /\ Playback(1).app = "playback" /\ Do("start_asr").app = "start_asr"
          /\ Do("park").app = "park"
      BY DEF Do, Set, Playback
    <3>5. KnownSets(s)
      BY <2>2, <3>3, <3>4 DEF KnownSets, IsSet, Known
    <3>6. SetFirst(node[e.call], s)
      <4>1. \A i \in 1 .. Len(s) : s[i].app \in {"playback", "start_asr"} => 2 \in 1 .. i - 1
        BY <3>3, <3>4
      <4>. QED
        BY <3>3, <3>4, <4>1, Zenon DEF SetFirst, IsSet
    <3>7. PlayFirst(NodeAt(e) # 0, s)
      <4>1. \A i \in 1 .. Len(s) : s[i].app = "start_asr" => 3 \in 1 .. i - 1
        BY <3>3, <3>4
      <4>. QED
        BY <3>3, <3>4, <4>1, Zenon DEF PlayFirst, IsPlayback
    <3>. QED
      BY <1>3, <3>5, <3>6, <3>7
  <2>3. CASE 1 \notin DOMAIN Script
    <3>1. s = <<Do("answer")>>
      BY <2>1, <2>3 DEF ParkCommands
    <3>2. Len(s) = 1 /\ s[1].app = "answer"
      BY <3>1 DEF Do
    <3>. QED
      BY <1>3, <3>2 DEF KnownSets, SetFirst, PlayFirst, IsSet
  <2>. QED
    BY <2>2, <2>3
<1>5. CASE Keeps(e, s)
  BY <1>3, <1>5 DEF Keeps, KnownSets, SetFirst, PlayFirst
<1>6. CASE StopsPlaying(e, s) \/ Ignores(e, s) \/ AnswersAsr(e, s) \/ AnswersSpeech(e, s)
  <2>1. e.type \in Evaluated
    BY <1>6 DEF StopsPlaying, Ignores, AnswersAsr, AnswersSpeech, Evaluated
  <2>2. node[e.call] # 0 /\ NodeAt(e) # 0
    <3>1. node[e.call] # 0 /\ MarkedTo(1)
      BY <1>1, <1>2, <2>1 DEF EventMarked
    <3>. QED
      BY <1>1, <3>1 DEF MarkedTo, NodeAt
  <2>3. KnownSets(s)
    <3>1. CASE s \in Answers(NodeAt(e)) /\ ~ Missing(e)
      <4>. DEFINE n == NodeAt(e)
      <4>1. n \in DOMAIN Script
        BY <3>1 DEF Missing
      <4>2. \A i \in 1 .. Len(s) : IsSet(s, i) => ExitOf(n, s[i].arg)
        <5>. HIDE DEF n
        <5>. QED
          BY <3>1, Zenon DEF Answers, n
      <4>. QED
        BY <4>1, <4>2, KnownNodes, Zenon DEF KnownSets
    <3>2. CASE s = <<>>
      BY <3>2 DEF KnownSets
    <3>3. CASE s = <<Do("hangup")>> \/ s = <<Do("stop_asr")>>
      BY <3>3 DEF KnownSets, IsSet, Do
    <3>4. CASE s = <<Do("detect_stop")>> \o <<Do("hangup")>>
      <4>1. Do("detect_stop") \in Command /\ <<Do("hangup")>> \in Seq(Command)
        <5>1. Do("hangup") \in Command /\ Do("detect_stop") \in Command
          BY CommandTypes
        <5>. QED
          BY <5>1
      <4>2. /\ Len(s) = 2 /\ s[1] = Do("detect_stop") /\ s[2] = Do("hangup")
        BY <3>4, <4>1, Prefixed
      <4>. QED
        BY <4>2 DEF KnownSets, IsSet, Do
    <3>. QED
      BY <1>6, <3>1, <3>2, <3>3, <3>4, Zenon
         DEF StopsPlaying, Ignores, AnswersAsr, AnswersSpeech
  <2>. QED
    BY <1>3, <2>2, <2>3 DEF SetFirst, PlayFirst
<1>. QED
  BY <1>4, <1>5, <1>6 DEF Handled

\* After the first event was handled, what is left is marked as it was.
LEMMA HandledMarked ==
  ASSUME TypeOK, NEW e, NEW s, Handled(e, s)
  PROVE  /\ Len(events') = Len(events) - 1 /\ Len(events) \in Nat \ {0}
         /\ \A i \in 1 .. Len(events') : i + 1 \in 1 .. Len(events) /\ events'[i] = events[i + 1]
         /\ \A i \in Nat \ {0} : MarkedTo(i) /\ i <= Len(events) => MarkedTo(i - 1)'
         /\ MarkedTo(Len(events)) => MarkedTo(Len(events))'
         /\ NodeAt(e) # 0 => MarkedTo(Len(events))'
<1>1. /\ events # <<>> /\ e = Head(events) /\ nodeState' = NodeAt(e) /\ events' = Tail(events)
  BY DEF Handled, Process
<1>2. events \in Seq(Event)
  BY DEF TypeOK
<1>3. /\ e = events[1] /\ Len(events) \in Nat \ {0} /\ Len(events') = Len(events) - 1
      /\ \A i \in 1 .. Len(events') : i + 1 \in 1 .. Len(events) /\ events'[i] = events[i + 1]
  BY <1>1, <1>2, HeadTailProperties
<1>4. ASSUME NEW i \in Nat \ {0}, MarkedTo(i), i <= Len(events) PROVE MarkedTo(i - 1)'
  <2>1. CASE nodeState # 0 \/ events[1].node # 0
    BY <1>1, <1>3, <2>1 DEF MarkedTo, NodeAt
  <2>2. CASE nodeState = 0 /\ events[1].node = 0
    <3>1. PICK j \in 1 .. i : events[j].node # 0
      BY <1>4, <2>2 DEF MarkedTo
    <3>2. j # 1 /\ j - 1 \in 1 .. i - 1 /\ j - 1 \in 1 .. Len(events') /\ (j - 1) + 1 = j
      BY <1>3, <1>4, <2>2, <3>1
    <3>3. events'[j - 1].node # 0
      BY <1>3, <3>1, <3>2, Zenon
    <3>. QED
      BY <3>2, <3>3, Zenon DEF MarkedTo
  <2>. QED
    BY <2>1, <2>2
<1>. QED
  BY <1>1, <1>3, <1>4 DEF MarkedTo

\* A report that may be put behind the events.
MayReport(x) ==
  /\ x \in Event /\ x.node \in Known \cup {0}
  /\ x.type \in Evaluated =>
       node'[x.call] # 0 /\ (x.node # 0 \/ MarkedTo(Len(events)))

\* What the channels report leaves the events marked, and the failed one first.
LEMMA ReportedMarked ==
  ASSUME TypeOK, LookupInv, UNCHANGED program,
         \A c \in Calls : node[c] # 0 => node'[c] # 0,
         NEW t \in Seq(Event), events' = events \o t,
         \A k \in 1 .. Len(t) : MayReport(t[k])
  PROVE  /\ (nodeState \in Known \cup {0})'
         /\ (\A i \in 1 .. Len(events) : EventMarked(i))'
         /\ NoFailedLookup'
         /\ MarkedTo(Len(events)) => MarkedTo(Len(events))'
         /\ (\E k \in 1 .. Len(t) : t[k].node # 0) => MarkedTo(Len(events))'
<1>1. events \in Seq(Event) /\ Len(events) \in Nat /\ Len(t) \in Nat
  BY DEF TypeOK
<1>2. /\ Len(events') = Len(events) + Len(t)
      /\ \A j \in 1 .. Len(events) : events'[j] = events[j]
      /\ \A j \in 1 .. Len(t) : events'[Len(events) + j] = t[j]
      /\ \A j \in Len(events) + 1 .. Len(events) + Len(t) :
           j - Len(events) \in 1 .. Len(t) /\ events'[j] = t[j - Len(events)]
  <2>1. /\ Len(events \o t) = Len(events) + Len(t)
        /\ \A j \in 1 .. Len(events) : (events \o t)[j] = events[j]
        /\ \A j \in 1 .. Len(t) : (events \o t)[Len(events) + j] = t[j]
        /\ \A j \in Len(events) + 1 .. Len(events) + Len(t) :
             j - Len(events) \in 1 .. Len(t) /\ (events \o t)[j] = t[j - Len(events)]
    BY <1>1, Joined
  <2>. QED
    BY <2>1
<1>3. nodeState' = nodeState /\ crashed' = crashed
  BY DEF program
<1>4. \A i \in 1 .. Len(events) : MarkedTo(i) => MarkedTo(i)'
  BY <1>1, <1>2, <1>3 DEF MarkedTo
<1>5. \A i \in Nat : i >= Len(events) /\ MarkedTo(Len(events)) => MarkedTo(i)'
  BY <1>1, <1>2, <1>3 DEF MarkedTo
<1>6. ASSUME NEW i \in 1 .. Len(events') PROVE EventMarked(i)'
  <2>1. CASE i \in 1 .. Len(events)
    <3>1. EventMarked(i) /\ events'[i] = events[i] /\ events[i].call \in Calls
      <4>1. events[i] \in Event
        BY <1>1, <2>1, ElementOfSeq, Zenon
      <4>. QED
        BY <1>2, <2>1, <4>1 DEF LookupInv, Event
    <3>. QED
      BY <1>4, <2>1, <3>1 DEF EventMarked
  <2>2. CASE i \in Len(events) + 1 .. Len(events) + Len(t)
    <3>. DEFINE k == i - Len(events)
    <3>1. k \in 1 .. Len(t) /\ events'[i] = t[k] /\ MayReport(t[k]) /\ i \in Nat
          /\ i >= Len(events) /\ i \in 1 .. i
      BY <1>1, <1>2, <2>2
    <3>. HIDE DEF k
    <3>2. t[k].node # 0 => MarkedTo(i)'
      BY <3>1, Zenon DEF MarkedTo
    <3>. QED
      BY <1>5, <3>1, <3>2, Zenon DEF MayReport, EventMarked
  <2>. QED
    BY <1>1, <1>2, <2>1, <2>2
<1>7. NoFailedLookup'
  <2>1. SUFFICES ASSUME crashed PROVE NoFailedLookup'
    BY <1>3 DEF NoFailedLookup
  <2>2. events # <<>> /\ NodeAt(Head(events)) \in MissingExits
    BY <2>1 DEF LookupInv, NoFailedLookup
  <2>3. /\ events # <<>> => Len(events) > 0
        /\ events' \in Seq(Event)
    BY <1>1, Joined
  <2>4. events' # <<>> /\ Head(events') = Head(events)
    BY <1>1, <1>2, <2>2, <2>3
  <2>. QED
    BY <1>3, <2>2, <2>4 DEF NoFailedLookup, NodeAt
<1>8. ASSUME NEW k \in 1 .. Len(t), t[k].node # 0 PROVE MarkedTo(Len(events))'
  <2>1. Len(events) + k \in 1 .. Len(events') /\ events'[Len(events) + k].node # 0
    BY <1>1, <1>2, <1>8
  <2>. QED
    BY <2>1, Zenon DEF MarkedTo
<1>9. MarkedTo(Len(events)) => MarkedTo(Len(events))'
  BY <1>1, <1>2, <1>3 DEF MarkedTo
<1>. QED
  BY <1>3, <1>6, <1>7, <1>8, <1>9 DEF LookupInv

\* A channel that does not take part stays as it is.
LEMMA OtherMarked ==
  ASSUME LookupInv, NEW d \in Calls, apps'[d] = apps[d], node'[d] = node[d],
         file'[d] = file[d], asr'[d] = asr[d],
         MarkedTo(Len(events)) => MarkedTo(Len(events))'
  PROVE  ChannelMarked(d)'
<1>1. ChannelMarked(d)
  BY DEF LookupInv
<1>. QED
  BY <1>1 DEF ChannelMarked, KnownSets, SetFirst, PlayFirst, IsSet, IsPlayback

LEMMA HandledLookup ==
  ASSUME TypeOK, LookupInv, NEW e, NEW s, Handled(e, s)
  PROVE  LookupInv'
<1>1. /\ events # <<>> /\ e = Head(events) /\ nodeState' = NodeAt(e) /\ crashed' = FALSE
      /\ s \in Seq(Command) /\ Execute(e.call, s)
      /\ UNCHANGED <<state, node, file, asr>>
  BY DEF Handled, Process
<1>2. /\ Len(events') = Len(events) - 1 /\ Len(events) \in Nat \ {0}
      /\ \A i \in 1 .. Len(events') : i + 1 \in 1 .. Len(events) /\ events'[i] = events[i + 1]
      /\ \A i \in Nat \ {0} : MarkedTo(i) /\ i <= Len(events) => MarkedTo(i - 1)'
      /\ MarkedTo(Len(events)) => MarkedTo(Len(events))'
      /\ NodeAt(e) # 0 => MarkedTo(Len(events))'
  BY HandledMarked, Zenon
<1>3. ASSUME NEW i \in 1 .. Len(events') PROVE EventMarked(i)'
  <2>1. /\ i + 1 \in 1 .. Len(events) /\ events'[i] = events[i + 1]
        /\ i + 1 \in Nat \ {0} /\ i + 1 <= Len(events) /\ (i + 1) - 1 = i
    BY <1>2
  <2>2. EventMarked(i + 1)
    BY <2>1 DEF LookupInv
  <2>3. MarkedTo(i + 1) => MarkedTo(i)'
    <3>1. MarkedTo(i + 1) => MarkedTo((i + 1) - 1)'
      BY <1>2, <2>1, Zenon
    <3>. QED
      BY <2>1, <3>1
  <2>. QED
    BY <1>1, <2>1, <2>2, <2>3, Zenon DEF EventMarked
<1>4. ASSUME NEW c \in Calls PROVE ChannelMarked(c)'
  <2>1. CASE apps'[c] = apps[c]
    BY <1>1, <1>2, <2>1, OtherMarked
  <2>2. CASE apps'[c] # apps[c]
    <3>1. c = e.call /\ apps'[c] = apps[c] \o s /\ apps[c] \in Seq(Command)
      BY <1>1, <2>2 DEF Execute, TypeOK
    <3>2. ChannelMarked(c)
      BY DEF LookupInv
    <3>3. KnownSets(s) /\ SetFirst(node[c], s) /\ PlayFirst(NodeAt(e) # 0, s)
      BY <3>1, SentMarked
    <3>. DEFINE was == MarkedTo(Len(events))
                is == MarkedTo(Len(events))'
    <3>4. PlayFirst(is, s)
      BY <1>2, <3>3, Zenon DEF PlayFirst
    <3>5. was => is
      BY <1>2
    <3>6. /\ KnownSets(apps[c]) /\ SetFirst(node[c], apps[c]) /\ PlayFirst(was, apps[c])
      BY <3>2 DEF ChannelMarked
    <3>. HIDE DEF was, is
    <3>7. /\ KnownSets(apps'[c]) /\ SetFirst(node[c], apps'[c]) /\ PlayFirst(is, apps'[c])
      <4>1. s \in Seq(Command) /\ apps[c] \in Seq(Command)
        BY <1>1, <3>1
      <4>2. KnownSets(apps[c] \o s)
        BY <3>3, <3>6, <4>1, CommandsAdded, Zenon
      <4>3. SetFirst(node[c], apps[c] \o s)
        BY <3>3, <3>6, <4>1, CommandsAdded, Zenon
      <4>4. PlayFirst(is, apps[c] \o s)
        BY <3>4, <3>5, <3>6, <4>1, CommandsAdded, Zenon
      <4>. QED
        BY <3>1, <4>2, <4>3, <4>4
    <3>8. KnownSets(apps[c])' /\ SetFirst(node[c], apps[c])'
          /\ PlayFirst(MarkedTo(Len(events)), apps[c])'
      BY <1>1, <3>7 DEF KnownSets, SetFirst, PlayFirst, IsSet, IsPlayback, is
    <3>. QED
      BY <1>1, <1>2, <3>2, <3>8 DEF ChannelMarked
  <2>. QED
    BY <2>1, <2>2
<1>5. (nodeState \in Known \cup {0})'
  <2>1. NodeAt(e) \in Known \cup {0}
    BY SentMarked
  <2>. QED
    BY <1>1, <2>1 DEF Known, MissingExits
<1>. QED
  BY <1>1, <1>3, <1>4, <1>5 DEF LookupInv, NoFailedLookup

LEMMA FailsLookup ==
  ASSUME TypeOK, LookupInv, LookupFails
  PROVE  LookupInv'
<1>. DEFINE e == Head(events)
<1>1. /\ events # <<>> /\ Missing(e) /\ e.type \in Evaluated
      /\ UNCHANGED <<nodeState, gIsAsr, events, channels>>
  BY DEF LookupFails, Evaluated
<1>2. UNCHANGED <<nodeState, events, apps, node, file, asr>>
  BY <1>1 DEF channels
<1>3. e = events[1] /\ 1 \in 1 .. Len(events)
  BY <1>1 DEF TypeOK
<1>4. EventMarked(1)
  BY <1>3 DEF LookupInv
<1>5. NodeAt(e) # 0 /\ NodeAt(e) \in Known \cup {0}
  <2>1. MarkedTo(1)
    BY <1>1, <1>3, <1>4 DEF EventMarked
  <2>. QED
    BY <1>3, <1>4, <2>1 DEF MarkedTo, EventMarked, LookupInv, NodeAt
<1>6. NodeAt(e) \in MissingExits
  BY <1>1, <1>5 DEF Missing, Known
<1>7. NoFailedLookup'
  BY <1>1, <1>2, <1>6 DEF NoFailedLookup, NodeAt
<1>8. \A i \in 1 .. Len(events) : EventMarked(i)'
  BY <1>2 DEF LookupInv, EventMarked, MarkedTo
<1>9. \A c \in Calls : ChannelMarked(c)'
  BY <1>2, OtherMarked DEF MarkedTo
<1>. QED
  BY <1>2, <1>7, <1>8, <1>9 DEF LookupInv

\* The channel that runs its first command.
LEMMA RunMarked ==
  ASSUME TypeOK, LookupInv, NEW c \in Calls, NEW app, Runs(c, app)
  PROVE  /\ ChannelMarked(c)
         /\ apps[c] \in Seq(Command) /\ apps[c] # <<>> /\ Head(apps[c]).app = app
         /\ apps'[c] = Tail(apps[c])
         /\ app \in {"playback", "start_asr"} => node[c] # 0
         /\ app = "start_asr" => MarkedTo(Len(events))
         /\ app = "set" => Head(apps[c]).arg \in Known
<1>1. /\ apps[c] \in Seq(Command) /\ apps[c] # <<>> /\ Head(apps[c]).app = app
      /\ apps'[c] = Tail(apps[c])
  BY DEF Runs, TypeOK
<1>2. ChannelMarked(c)
  BY DEF LookupInv
<1>. DEFINE s == apps[c]
<1>3. 1 \in 1 .. Len(s) /\ Head(s) = s[1]
  BY <1>1
<1>4. KnownSets(s) /\ SetFirst(node[c], s) /\ PlayFirst(MarkedTo(Len(events)), s)
  BY <1>2 DEF ChannelMarked
<1>. HIDE DEF s
<1>5. s[1].app = app
  BY <1>1, <1>3 DEF s
<1>6. app \in {"playback", "start_asr"} => node[c] # 0
  BY <1>3, <1>4, <1>5 DEF SetFirst
<1>7. app = "start_asr" => MarkedTo(Len(events))
  <2>1. \A j \in 1 .. 1 - 1 : FALSE
    OBVIOUS
  <2>. QED
    BY <1>3, <1>4, <1>5, <2>1, Zenon DEF PlayFirst
<1>8. app = "set" => s[1].arg \in Known
  BY <1>3, <1>4, <1>5 DEF KnownSets, IsSet
<1>. QED
  BY <1>1, <1>2, <1>3, <1>6, <1>7, <1>8, Zenon DEF s

\* What is left of its commands keeps their facts.
LEMMA RestMarked ==
  ASSUME TypeOK, LookupInv, NEW c \in Calls, NEW app, Runs(c, app),
         node[c] # 0 => node'[c] # 0,
         app = "set" => node'[c] # 0,
         MarkedTo(Len(events)) => MarkedTo(Len(events))',
         app = "playback" => MarkedTo(Len(events))'
  PROVE  (/\ KnownSets(apps[c]) /\ SetFirst(node[c], apps[c])
          /\ PlayFirst(MarkedTo(Len(events)), apps[c]))'
<1>. DEFINE was == MarkedTo(Len(events))
            is == MarkedTo(Len(events))'
            s == apps[c]
<1>1. /\ s \in Seq(Command) /\ s # <<>> /\ Head(s).app = app
      /\ apps'[c] = Tail(s)
      /\ KnownSets(s) /\ SetFirst(node[c], s) /\ PlayFirst(was, s)
  BY RunMarked, Zenon DEF ChannelMarked
<1>2. was => is
  OBVIOUS
<1>3. app = "playback" => is
  OBVIOUS
<1>. HIDE DEF was, is, s
<1>4. KnownSets(Tail(s))
  BY <1>1, CommandsTail, Zenon
<1>5. SetFirst(node'[c], Tail(s))
  BY <1>1, CommandsTail, Zenon
<1>6. PlayFirst(is, Tail(s))
  <2>1. PlayFirst(was, s) /\ (was => is) /\ (Head(s).app = "playback" => is)
    BY <1>1, <1>2, <1>3
  <2>2. s \in Seq(Command) /\ s # <<>>
    BY <1>1
  <2>. QED
    BY <2>1, <2>2, CommandsTail, Zenon
<1>7. KnownSets(apps'[c]) /\ SetFirst(node'[c], apps'[c]) /\ PlayFirst(is, apps'[c])
  BY <1>1, <1>4, <1>5, <1>6
<1>8. KnownSets(apps'[c]) <=> KnownSets(apps[c])'
  <2>1. KnownSets(apps[c])' <=>
          \A i \in 1 .. Len(apps'[c]) : IsSet(apps'[c], i) => apps'[c][i].arg \in Known
    BY Zenon DEF KnownSets, IsSet, Known, MissingExits
  <2>. QED
    BY <2>1, Zenon DEF KnownSets
<1>. QED
  BY <1>7, <1>8 DEF KnownSets, SetFirst, PlayFirst, IsSet, IsPlayback, is

LEMMA NextLookup ==
  TypeOK /\ LookupInv /\ [Next]_vars => LookupInv'
<1>. SUFFICES ASSUME TypeOK, LookupInv, [Next]_vars PROVE LookupInv'
  OBVIOUS
<1>1. CASE HandlePark \/ HandlePlaybackStop \/ HandleAsrIgnored \/ HandleAsr
             \/ HandleSpeechIgnored \/ HandleSpeech \/ HandleLogged
  BY <1>1, HandleCases, HandledLookup, Zenon
<1>2. CASE LookupFails
  BY <1>2, FailsLookup
<1>3. CASE UNCHANGED vars
  <2>1. UNCHANGED <<nodeState, crashed, events, apps, node, file, asr>>
    BY <1>3 DEF vars, program, channels
  <2>2. \A c \in Calls : ChannelMarked(c)'
    BY <2>1, OtherMarked DEF MarkedTo
  <2>. QED
    BY <2>1, <2>2 DEF LookupInv, EventMarked, MarkedTo, NoFailedLookup, NodeAt
\* What a step of a channel leaves to show: its report and the channel itself.
<1>4. ASSUME NEW c \in Calls, NEW t \in Seq(Event), events' = events \o t,
             UNCHANGED program,
             node[c] # 0 => node'[c] # 0,
             \A k \in 1 .. Len(t) : MayReport(t[k]),
             \A d \in Calls \ {c} : /\ apps'[d] = apps[d] /\ node'[d] = node[d]
                                    /\ file'[d] = file[d] /\ asr'[d] = asr[d],
             /\ MarkedTo(Len(events)) => MarkedTo(Len(events))'
             /\ (\E k \in 1 .. Len(t) : t[k].node # 0) => MarkedTo(Len(events))'
             => ChannelMarked(c)'
      PROVE  LookupInv'
  <2>1. \A d \in Calls : node[d] # 0 => node'[d] # 0
    BY <1>4, Zenon
  <2>2. /\ (nodeState \in Known \cup {0})'
        /\ (\A i \in 1 .. Len(events) : EventMarked(i))'
        /\ NoFailedLookup'
        /\ MarkedTo(Len(events)) => MarkedTo(Len(events))'
        /\ (\E k \in 1 .. Len(t) : t[k].node # 0) => MarkedTo(Len(events))'
    BY <1>4, <2>1, ReportedMarked, Zenon
  <2>3. \A d \in Calls : ChannelMarked(d)'
    BY <1>4, <2>2, OtherMarked, Zenon
  <2>. QED
    BY <2>2, <2>3, Zenon DEF LookupInv
<1>5. \A c \in Calls : ChannelMarked(c)
  BY DEF LookupInv
<1>6. ASSUME NEW c \in Calls, NEW type \in {"park", "logged"}
      PROVE  MayReport(Ev(type, c))
  BY <1>5, EvTypes DEF MayReport, Ev, ChannelMarked, Evaluated
<1>7. events \in Seq(Event) /\ events \o <<>> = events
  BY ConcatEmptySeq DEF TypeOK
<1>8. ASSUME NEW x \in Event
      PROVE  /\ <<x>> \in Seq(Event) /\ Len(<<x>>) = 1 /\ <<x>>[1] = x
             /\ Append(events, x) = events \o <<x>>
  BY <1>7, AppendIsConcat
<1>9. ASSUME NEW c \in Calls, Arrive(c) PROVE LookupInv'
  <2>1. /\ UNCHANGED <<program, apps, node, file, asr>>
        /\ events' = events \o <<Ev("park", c)>> /\ <<Ev("park", c)>> \in Seq(Event)
    BY <1>8, <1>9, EvTypes, Zenon DEF Arrive
  <2>2. \A k \in 1 .. Len(<<Ev("park", c)>>) : MayReport(<<Ev("park", c)>>[k])
    BY <1>6
  <2>3. (MarkedTo(Len(events)) => MarkedTo(Len(events))') => ChannelMarked(c)'
    BY <2>1, OtherMarked
  <2>. QED
    BY <1>4, <2>1, <2>2, <2>3, Zenon

<1>10. ASSUME NEW c \in Calls, RunSet(c) PROVE LookupInv'
  <2>1. /\ Runs(c, "set") /\ UNCHANGED <<program, events, file, asr>>
        /\ node'[c] = Head(apps[c]).arg
        /\ \A d \in Calls \ {c} : apps'[d] = apps[d] /\ node'[d] = node[d]
    BY <1>10 DEF RunSet, Runs, TypeOK
  <2>2. node'[c] \in Known /\ node'[c] # 0
    BY <2>1, RunMarked, KnownNodes
  <2>3. ASSUME MarkedTo(Len(events)) => MarkedTo(Len(events))' PROVE ChannelMarked(c)'
    <3>1. (/\ KnownSets(apps[c]) /\ SetFirst(node[c], apps[c])
           /\ PlayFirst(MarkedTo(Len(events)), apps[c]))'
      BY <2>1, <2>2, <2>3, RestMarked
    <3>2. (node[c] \in Known \cup {0})'
      BY <2>2 DEF Known, MissingExits
    <3>. QED
      BY <1>5, <2>1, <2>2, <2>3, <3>1, <3>2 DEF ChannelMarked
  <2>4. events' = events \o <<>> /\ <<>> \in Seq(Event) /\ \A k \in 1 .. Len(<<>>) : MayReport(<<>>[k])
    BY <1>7, <2>1
  <2>. QED
    BY <1>4, <2>1, <2>2, <2>3, <2>4, Zenon
<1>11. ASSUME NEW c \in Calls, RunPlayback(c) PROVE LookupInv'
  <2>1. /\ Runs(c, "playback") /\ UNCHANGED <<program, node, asr>>
        /\ \A d \in Calls \ {c} : apps'[d] = apps[d] /\ file'[d] = file[d]
    BY <1>11 DEF RunPlayback, Runs, TypeOK
  <2>. DEFINE t == <<Ev("logged", c)>>
  <2>2. t \in Seq(Event) /\ Len(t) = 1 /\ t[1] = Ev("logged", c) /\ events' = events \o t
    BY <1>8, <1>11, EvTypes, Zenon DEF RunPlayback
  <2>3. node[c] # 0 /\ t[1].node # 0 /\ 1 \in 1 .. Len(t)
    BY <2>1, <2>2, RunMarked DEF Ev
  <2>4. \A k \in 1 .. Len(t) : MayReport(t[k])
    BY <1>6, <2>2
  <2>. HIDE DEF t
  <2>5. ASSUME MarkedTo(Len(events)) => MarkedTo(Len(events))', MarkedTo(Len(events))'
        PROVE  ChannelMarked(c)'
    <3>1. (/\ KnownSets(apps[c]) /\ SetFirst(node[c], apps[c])
           /\ PlayFirst(MarkedTo(Len(events)), apps[c]))'
      BY <2>1, <2>5, RestMarked
    <3>. QED
      BY <1>5, <2>1, <2>3, <2>5, <3>1 DEF ChannelMarked, Known, MissingExits
  <2>. QED
    BY <1>4, <2>1, <2>2, <2>3, <2>4, <2>5, Zenon
<1>12. ASSUME NEW c \in Calls, RunListen(c) PROVE LookupInv'
  <2>1. PICK app \in {"start_asr", "stop_asr", "detect_stop"} :
          Runs(c, app) /\ asr' = [asr EXCEPT ![c] = app = "start_asr"]
    BY <1>12, Zenon DEF RunListen
  <2>2. /\ UNCHANGED <<program, events, node, file>>
        /\ asr'[c] => app = "start_asr"
        /\ \A d \in Calls \ {c} : apps'[d] = apps[d] /\ asr'[d] = asr[d]
    BY <1>12, <2>1 DEF RunListen, Runs, TypeOK
  <2>3. asr'[c] => node[c] # 0 /\ MarkedTo(Len(events))
    BY <2>1, <2>2, RunMarked
  <2>4. ASSUME MarkedTo(Len(events)) => MarkedTo(Len(events))' PROVE ChannelMarked(c)'
    <3>1. (/\ KnownSets(apps[c]) /\ SetFirst(node[c], apps[c])
           /\ PlayFirst(MarkedTo(Len(events)), apps[c]))'
      BY <2>1, <2>2, <2>4, RestMarked
    <3>. QED
      BY <1>5, <2>2, <2>3, <2>4, <3>1 DEF ChannelMarked, Known, MissingExits
  <2>5. events' = events \o <<>> /\ <<>> \in Seq(Event) /\ \A k \in 1 .. Len(<<>>) : MayReport(<<>>[k])
    BY <1>7, <2>2
  <2>. QED
    BY <1>4, <2>2, <2>4, <2>5, Zenon
<1>13. ASSUME NEW c \in Calls, RunOther(c) PROVE LookupInv'
  <2>1. PICK app \in {"answer", "park"} : Runs(c, app)
    BY <1>13, Zenon DEF RunOther
  <2>2. /\ UNCHANGED <<program, events, node, file, asr>>
        /\ \A d \in Calls \ {c} : apps'[d] = apps[d]
    BY <1>13, <2>1 DEF RunOther, Runs, TypeOK
  <2>3. ASSUME MarkedTo(Len(events)) => MarkedTo(Len(events))' PROVE ChannelMarked(c)'
    <3>1. (/\ KnownSets(apps[c]) /\ SetFirst(node[c], apps[c])
           /\ PlayFirst(MarkedTo(Len(events)), apps[c]))'
      BY <2>1, <2>2, <2>3, RestMarked
    <3>. QED
      BY <1>5, <2>2, <2>3, <3>1 DEF ChannelMarked, Known, MissingExits
  <2>4. events' = events \o <<>> /\ <<>> \in Seq(Event) /\ \A k \in 1 .. Len(<<>>) : MayReport(<<>>[k])
    BY <1>7, <2>2
  <2>. QED
    BY <1>4, <2>2, <2>3, <2>4, Zenon
<1>14. ASSUME NEW c \in Calls, apps'[c] = <<>>, asr'[c] = FALSE,
              node'[c] = node[c], file'[c] # 0 => file[c] # 0
       PROVE  ChannelMarked(c)'
  <2>1. (KnownSets(apps[c]) /\ SetFirst(node[c], apps[c])
          /\ PlayFirst(MarkedTo(Len(events)), apps[c]))'
    BY <1>14 DEF KnownSets, SetFirst, PlayFirst
  <2>. QED
    BY <1>5, <1>14, <2>1 DEF ChannelMarked, Known, MissingExits
<1>15. ASSUME NEW c \in Calls, RunHangup(c) PROVE LookupInv'
  <2>1. /\ UNCHANGED <<program, node, file>> /\ apps'[c] = <<>> /\ asr'[c] = FALSE
        /\ \A d \in Calls \ {c} : apps'[d] = apps[d] /\ asr'[d] = asr[d]
    BY <1>15 DEF RunHangup, TypeOK
  <2>. DEFINE t == <<Ev("logged", c)>>
  <2>2. t \in Seq(Event) /\ Len(t) = 1 /\ t[1] = Ev("logged", c) /\ events' = events \o t
    BY <1>8, <1>15, EvTypes, Zenon DEF RunHangup
  <2>3. \A k \in 1 .. Len(t) : MayReport(t[k])
    BY <1>6, <2>2
  <2>. HIDE DEF t
  <2>. QED
    BY <1>4, <1>14, <2>1, <2>2, <2>3, Zenon
<1>16. ASSUME NEW c \in Calls, UNCHANGED node, file[c] # 0 PROVE MayReport(Ev("stop", c))
  BY <1>5, <1>16, EvTypes DEF MayReport, Ev, ChannelMarked
<1>17. ASSUME NEW c \in Calls, PlaybackEnds(c) PROVE LookupInv'
  <2>1. /\ UNCHANGED <<program, apps, node, asr>> /\ file[c] # 0 /\ file'[c] = 0
        /\ \A d \in Calls \ {c} : file'[d] = file[d]
    BY <1>17 DEF PlaybackEnds, TypeOK
  <2>. DEFINE t == <<Ev("stop", c)>>
  <2>2. t \in Seq(Event) /\ Len(t) = 1 /\ t[1] = Ev("stop", c) /\ events' = events \o t
    BY <1>8, <1>17, EvTypes, Zenon DEF PlaybackEnds
  <2>3. \A k \in 1 .. Len(t) : MayReport(t[k])
    BY <1>16, <2>1, <2>2
  <2>. HIDE DEF t
  <2>4. ASSUME MarkedTo(Len(events)) => MarkedTo(Len(events))' PROVE ChannelMarked(c)'
    BY <1>5, <2>1, <2>4
       DEF ChannelMarked, Known, MissingExits, KnownSets, SetFirst, PlayFirst, IsSet, IsPlayback
  <2>. QED
    BY <1>4, <2>1, <2>2, <2>3, <2>4, Zenon
<1>18. ASSUME NEW c \in Calls, CallerHangsUp(c) PROVE LookupInv'
  <2>1. /\ UNCHANGED <<program, node>> /\ apps'[c] = <<>> /\ asr'[c] = FALSE /\ file'[c] = 0
        /\ \A d \in Calls \ {c} : apps'[d] = apps[d] /\ file'[d] = file[d] /\ asr'[d] = asr[d]
    BY <1>18 DEF CallerHangsUp, TypeOK
  <2>. DEFINE one == IF file[c] # 0 THEN <<Ev("stop", c)>> ELSE <<>>
              two == <<Ev("logged", c)>>
              t == one \o two
  <2>2. /\ one \in Seq(Event) /\ \A k \in 1 .. Len(one) : MayReport(one[k])
    <3>1. CASE file[c] # 0
      BY <1>8, <1>16, <2>1, <3>1, EvTypes
    <3>2. CASE file[c] = 0
      BY <3>2
    <3>. QED
      BY <3>1, <3>2
  <2>3. two \in Seq(Event) /\ Len(two) = 1 /\ MayReport(two[1])
    BY <1>6, <1>8, EvTypes
  <2>4. events' = (events \o one) \o two
    BY <1>18, Zenon DEF CallerHangsUp
  <2>. HIDE DEF one, two
  <2>5. events' = events \o t
    <3>1. events \in Seq(Event) /\ one \in Seq(Event) /\ two \in Seq(Event)
      BY <1>7, <2>2, <2>3
    <3>2. (events \o one) \o two = events \o (one \o two)
      BY <3>1, ConcatAssociative
    <3>. QED
      BY <2>4, <3>2
  <2>6. /\ t \in Seq(Event) /\ Len(t) = Len(one) + Len(two)
        /\ \A j \in 1 .. Len(one) : t[j] = one[j]
        /\ \A j \in Len(one) + 1 .. Len(one) + Len(two) :
             j - Len(one) \in 1 .. Len(two) /\ t[j] = two[j - Len(one)]
    <3>1. one \in Seq(Event) /\ two \in Seq(Event)
      BY <2>2, <2>3
    <3>. QED
      BY <3>1, Joined
  <2>. HIDE DEF t
  <2>7. \A k \in 1 .. Len(t) : MayReport(t[k])
    <3>1. Len(one) \in Nat
      BY <2>2
    <3>2. ASSUME NEW k \in 1 .. Len(t) PROVE MayReport(t[k])
      <4>1. CASE k <= Len(one)
        BY <2>2, <2>6, <3>1, <4>1
      <4>2. CASE k > Len(one)
        <5>1. k \in Len(one) + 1 .. Len(one) + Len(two) /\ k - Len(one) = 1
          BY <2>3, <2>6, <3>1, <4>2
        <5>2. t[k] = two[k - Len(one)]
          BY <2>6, <5>1, Zenon
        <5>. QED
          BY <2>3, <5>1, <5>2
      <4>. QED
        BY <2>6, <3>1, <4>1, <4>2
    <3>. QED
      BY <3>2
  <2>. QED
    BY <1>4, <1>14, <2>1, <2>5, <2>6, <2>7, Zenon
<1>19. ASSUME NEW c \in Calls, NEW text \in Texts, Speaks(c, text) PROVE LookupInv'
  <2>1. PICK type \in Engines, marked \in {TRUE, ~ Unmarked} :
          events' = Append(events, [type |-> type, call |-> c,
                                    node |-> IF marked THEN node[c] ELSE 0,
                                    text |-> text])
    BY <1>19, Zenon DEF Speaks
  <2>. DEFINE x == [type |-> type, call |-> c,
                    node |-> IF marked THEN node[c] ELSE 0, text |-> text]
              t == <<x>>
  <2>2. /\ UNCHANGED <<program, apps, node, file, asr>> /\ asr[c]
    BY <1>19 DEF Speaks
  <2>3. node[c] # 0 /\ node[c] \in Known \cup {0} /\ MarkedTo(Len(events)) /\ node[c] \in Nat
    BY <1>5, <2>2 DEF ChannelMarked, TypeOK
  <2>4. x \in Event /\ MayReport(x)
    <3>1. text \in AllTexts /\ type \in {"asr", "speech"}
      BY InputAssumption
    <3>2. x \in Event
      BY <2>3, <3>1 DEF Event
    <3>3. x.node \in Known \cup {0} /\ x.call = c
      BY <2>3
    <3>. QED
      BY <2>2, <2>3, <3>2, <3>3 DEF MayReport
  <2>5. t \in Seq(Event) /\ Len(t) = 1 /\ t[1] = x /\ events' = events \o t
    <3>. HIDE DEF x
    <3>. QED
      BY <1>8, <2>1, <2>4 DEF x
  <2>6. \A k \in 1 .. Len(t) : MayReport(t[k])
    BY <2>4, <2>5
  <2>7. (MarkedTo(Len(events)) => MarkedTo(Len(events))') => ChannelMarked(c)'
    BY <2>2, OtherMarked
  <2>. HIDE DEF t
  <2>. QED
    BY <1>4, <2>2, <2>5, <2>6, <2>7, Zenon
<1>. QED
  BY <1>1, <1>2, <1>3, <1>9, <1>10, <1>11, <1>12, <1>13, <1>15, <1>17, <1>18, <1>19,
     Zenon DEF Next

LEMMA LookupInvariant == Spec => [](TypeOK /\ LookupInv)
<1>1. Init => TypeOK /\ LookupInv
  <2>. SUFFICES ASSUME Init PROVE TypeOK /\ LookupInv
    OBVIOUS
  <2>1. TypeOK
    BY InitTypes
  <2>2. \A c \in Calls : ChannelMarked(c)
    BY DEF Init, ChannelMarked, KnownSets, SetFirst, PlayFirst
  <2>. QED
    BY <2>1, <2>2 DEF Init, LookupInv, NoFailedLookup
<1>. QED
  BY <1>1, NextTypes, NextLookup, PTL DEF Spec

\* The unchecked find fails only at an exit the script lacks: whatever the
\* calls, their order, the recognisers and the texts, no handler looks up the
\* empty nodeState (src/process_event.cpp:77-78,361-362,416-417).
THEOREM LookupsFailAtMissingExits == Spec => []NoFailedLookup
<1>1. LookupInv => NoFailedLookup
  BY DEF LookupInv
<1>. QED
  BY <1>1, LookupInvariant, PTL

\* A script whose exits are all nodes of it never makes a lookup fail: no
\* order of events of any number of calls is undefined behaviour in
\* process_event (src/process_event.cpp:77-78,361-362,416-417).
THEOREM WholeScriptIsSafe ==
  ASSUME MissingExits = {}
  PROVE  Spec => []~ crashed
<1>1. LookupInv => ~ crashed
  BY DEF LookupInv, NoFailedLookup
<1>. QED
  BY <1>1, LookupInvariant, PTL

-----------------------------------------------------------------------------
(* The order of what a caller hears.                                       *)

\* Results come in turn and carry their node.
InTurn == ~ BargeIn /\ ~ Unmarked

\* One call, all of whose results are CUSTOM asr.
Alone == (\E c \in Calls : Calls = {c}) /\ Engines \subseteq {"asr"}

-----------------------------------------------------------------------------
(* The commands queued for a channel at node n.                            *)

AtEnd(n) == n \in DOMAIN Script /\ Script[n] = <<>>
Hangs(s) == \E i \in 1 .. Len(s) : s[i].app = "hangup"

\* Nothing is going to be played, no other node is going to be set.
Rests(n, s) ==
  \A i \in 1 .. Len(s) : ~ IsPlayback(s, i) /\ (IsSet(s, i) => s[i].arg = n)

\* A recording is of the node set right before, or of n if the channel stays
\* there; after it nothing is played and no other node is set.
Ordered(n, s) ==
  \A i \in 1 .. Len(s) : IsPlayback(s, i) =>
    /\ \/ i > 1 /\ s[i - 1] = Set(s[i].arg)
       \/ s[i].arg = n /\ \A j \in 1 .. i - 1 : IsSet(s, j) => s[j].arg = n
    /\ StaysAfter(s, i, s[i].arg)

\* A call that is going to be ended rests at a node without edges.
EndsWell(n, s) == Hangs(s) => Rests(n, s) /\ AtEnd(n)

\* An edge leads from n to x, or x is the start.
Onward(n, x) == x = 1 \/ (n \in DOMAIN Script /\ ExitOf(n, x))

\* Where the nodes set lead: away from n once, along an edge.
Steady(n, s) ==
  \A i \in 1 .. Len(s) : IsSet(s, i) =>
    /\ s[i].arg = n \/ Onward(n, s[i].arg)
    /\ \A j \in i + 1 .. Len(s) : IsSet(s, j) => s[j].arg = s[i].arg \/ s[i].arg = n

Queued(n, s) ==
  Ordered(n, s) /\ EndsWell(n, s) /\ (OnlyLastMissing => Steady(n, s))

\* The node after command a.
After(n, a) == IF a.app = "set" THEN a.arg ELSE n

LEMMA QueuedTail ==
  ASSUME NEW n, NEW s \in Seq(Command), s # <<>>, Queued(n, s)
  PROVE  /\ Queued(After(n, Head(s)), Tail(s))
         /\ Rests(n, s) => Rests(n, Tail(s)) /\ After(n, Head(s)) = n
                           /\ Head(s).app # "playback"
         /\ ~ Hangs(s) => ~ Hangs(Tail(s))
         /\ Head(s).app = "playback" =>
              Head(s).arg = n /\ Rests(n, Tail(s)) /\ ~ Hangs(Tail(s))
         /\ Head(s).app = "hangup" => AtEnd(n)
         /\ OnlyLastMissing /\ Head(s).app = "set" =>
              Head(s).arg = n \/ Onward(n, Head(s).arg)
<1>. DEFINE t == Tail(s)
            a == Head(s)
            m == After(n, a)
<1>1. /\ Len(s) \in Nat \ {0} /\ Len(t) = Len(s) - 1 /\ a = s[1] /\ t \in Seq(Command)
      /\ \A i \in 1 .. Len(t) : i + 1 \in 1 .. Len(s) /\ t[i] = s[i + 1]
  BY HeadTailProperties
<1>2. Ordered(n, s) /\ EndsWell(n, s) /\ (OnlyLastMissing => Steady(n, s))
  BY DEF Queued
<1>. HIDE DEF t, a
<1>3. \A i \in 1 .. Len(t) : /\ IsSet(t, i) <=> IsSet(s, i + 1)
                             /\ IsPlayback(t, i) <=> IsPlayback(s, i + 1)
  BY <1>1 DEF IsSet, IsPlayback
<1>4. ASSUME Rests(n, s) PROVE Rests(n, t) /\ m = n /\ a.app # "playback"
  BY <1>1, <1>4 DEF Rests, IsSet, IsPlayback, After
<1>5. Hangs(t) => Hangs(s)
  BY <1>1 DEF Hangs
<1>6. ASSUME a.app = "playback"
      PROVE  a.arg = n /\ Rests(n, t) /\ ~ Hangs(t) /\ m = n
  <2>1. IsPlayback(s, 1) /\ 1 \in 1 .. Len(s)
    BY <1>1, <1>6 DEF IsPlayback
  <2>2. s[1].arg = n /\ StaysAfter(s, 1, s[1].arg)
    BY <1>2, <2>1 DEF Ordered
  <2>3. \A j \in 2 .. Len(s) : ~ IsPlayback(s, j) /\ (IsSet(s, j) => s[j].arg = n)
    BY <2>2 DEF StaysAfter
  <2>4. Rests(n, t)
    <3>1. \A i \in 1 .. Len(t) : i + 1 \in 2 .. Len(s)
      BY <1>1
    <3>. QED
      BY <1>1, <1>3, <2>3, <3>1 DEF Rests
  <2>5. ~ Hangs(s)
    BY <1>2, <2>1 DEF EndsWell, Rests
  <2>. QED
    BY <1>1, <1>5, <1>6, <2>2, <2>4, <2>5 DEF After
<1>7. ASSUME a.app = "hangup" PROVE AtEnd(n)
  BY <1>1, <1>2, <1>7 DEF EndsWell, Hangs
<1>8. ASSUME OnlyLastMissing, a.app = "set" PROVE a.arg = n \/ Onward(n, a.arg)
  <2>1. IsSet(s, 1) /\ 1 \in 1 .. Len(s)
    BY <1>1, <1>8 DEF IsSet
  <2>. QED
    BY <1>1, <1>2, <1>8, <2>1 DEF Steady
<1>9. Ordered(m, t)
  <2>1. ASSUME NEW i \in 1 .. Len(t), IsPlayback(t, i)
        PROVE  /\ \/ i > 1 /\ t[i - 1] = Set(t[i].arg)
                  \/ t[i].arg = m /\ \A j \in 1 .. i - 1 : IsSet(t, j) => t[j].arg = m
               /\ StaysAfter(t, i, t[i].arg)
    <3>1. i + 1 \in 1 .. Len(s) /\ t[i] = s[i + 1] /\ IsPlayback(s, i + 1) /\ (i + 1) - 1 = i
      BY <1>1, <1>3, <2>1
    <3>2. /\ \/ s[i] = Set(s[i + 1].arg)
             \/ /\ s[i + 1].arg = n
                /\ \A j \in 1 .. i : IsSet(s, j) => s[j].arg = n
          /\ StaysAfter(s, i + 1, s[i + 1].arg)
      BY <1>2, <3>1 DEF Ordered
    <3>3. StaysAfter(t, i, t[i].arg)
      <4>1. \A j \in i + 1 .. Len(t) : j \in 1 .. Len(t) /\ j + 1 \in (i + 1) + 1 .. Len(s)
        BY <1>1
      <4>. QED
        BY <1>1, <1>3, <3>1, <3>2, <4>1 DEF StaysAfter
    <3>4. CASE s[i] = Set(s[i + 1].arg)
      <4>1. CASE i = 1
        <5>1. m = t[i].arg
          BY <1>1, <3>1, <3>4, <4>1 DEF After, Set
        <5>. QED
          BY <3>3, <4>1, <5>1
      <4>2. CASE i # 1
        <5>1. i > 1 /\ i - 1 \in 1 .. Len(t) /\ (i - 1) + 1 = i
          BY <4>2
        <5>2. t[i - 1] = s[i]
          BY <1>1, <5>1
        <5>. QED
          BY <3>1, <3>3, <3>4, <5>1, <5>2
      <4>. QED
        BY <4>1, <4>2
    <3>5. CASE s[i + 1].arg = n /\ \A j \in 1 .. i : IsSet(s, j) => s[j].arg = n
      <4>1. m = n
        BY <1>1, <3>5 DEF After, IsSet
      <4>2. \A j \in 1 .. i - 1 : j \in 1 .. Len(t) /\ j + 1 \in 1 .. i
        OBVIOUS
      <4>3. \A j \in 1 .. i - 1 : IsSet(t, j) => t[j].arg = n
        BY <1>1, <1>3, <3>5, <4>2
      <4>. QED
        BY <3>1, <3>3, <3>5, <4>1, <4>3
    <3>. QED
      BY <3>2, <3>4, <3>5
  <2>. QED
    BY <2>1 DEF Ordered
<1>10. EndsWell(m, t)
  BY <1>2, <1>4, <1>5 DEF EndsWell
<1>11. ASSUME OnlyLastMissing PROVE Steady(m, t)
  <2>1. Steady(n, s)
    BY <1>2, <1>11
  <2>2. ASSUME NEW i \in 1 .. Len(t), IsSet(t, i)
        PROVE  /\ t[i].arg = m \/ Onward(m, t[i].arg)
               /\ \A j \in i + 1 .. Len(t) :
                    IsSet(t, j) => t[j].arg = t[i].arg \/ t[i].arg = m
    <3>1. i + 1 \in 1 .. Len(s) /\ t[i] = s[i + 1] /\ IsSet(s, i + 1)
      BY <1>1, <1>3, <2>2
    <3>2. /\ s[i + 1].arg = n \/ Onward(n, s[i + 1].arg)
          /\ \A j \in (i + 1) + 1 .. Len(s) :
               IsSet(s, j) => s[j].arg = s[i + 1].arg \/ s[i + 1].arg = n
      BY <2>1, <3>1 DEF Steady
    <3>3. \A j \in i + 1 .. Len(t) :
            /\ j \in 1 .. Len(t) /\ j + 1 \in 1 .. Len(s) /\ j + 1 \in (i + 1) + 1 .. Len(s)
            /\ t[j] = s[j + 1] /\ (IsSet(t, j) <=> IsSet(s, j + 1))
      BY <1>1, <1>3
    <3>4. CASE m = n
      BY <3>1, <3>2, <3>3, <3>4
    <3>5. CASE m # n
      <4>1. IsSet(s, 1) /\ s[1].arg = m /\ 1 \in 1 .. Len(s)
        BY <1>1, <3>5 DEF After, IsSet
      <4>2. \A j \in 2 .. Len(s) : IsSet(s, j) => s[j].arg = m
        BY <2>1, <3>5, <4>1 DEF Steady
      <4>3. \A j \in 1 .. Len(t) : IsSet(t, j) => t[j].arg = m
        BY <1>1, <1>3, <4>2
      <4>. QED
        BY <2>2, <3>3, <4>3
    <3>. QED
      BY <3>4, <3>5
  <2>. QED
    BY <2>2 DEF Steady
<1>12. Queued(m, t)
  BY <1>9, <1>10, <1>11 DEF Queued
<1>. QED
  BY <1>4, <1>5, <1>6, <1>7, <1>8, <1>12 DEF t, a


\* What is sent is put behind what is queued.
LEMMA PutBehind ==
  ASSUME NEW s \in Seq(Command), NEW t \in Seq(Command), NEW u, u = s \o t
  PROVE  /\ u \in Seq(Command) /\ Len(s) \in Nat /\ Len(t) \in Nat
         /\ Len(u) = Len(s) + Len(t)
         /\ \A i \in 1 .. Len(u) :
              \/ i \in 1 .. Len(s) /\ u[i] = s[i]
              \/ i > Len(s) /\ i - Len(s) \in 1 .. Len(t) /\ u[i] = t[i - Len(s)]
<1>1. Len(s) \in Nat /\ Len(t) \in Nat
  OBVIOUS
<1>2. /\ u \in Seq(Command) /\ Len(u) = Len(s) + Len(t)
      /\ \A j \in 1 .. Len(s) : u[j] = s[j]
      /\ \A j \in Len(s) + 1 .. Len(s) + Len(t) :
           j - Len(s) \in 1 .. Len(t) /\ u[j] = t[j - Len(s)]
  BY Joined
<1>. QED
  BY <1>1, <1>2

\* Commands that neither set, play nor hang up go behind any.
LEMMA QueuedNeutral ==
  ASSUME NEW n, NEW s \in Seq(Command), Queued(n, s), NEW t \in Seq(Command),
         \A i \in 1 .. Len(t) : t[i].app \in Neutral
  PROVE  /\ Queued(n, s \o t)
         /\ Rests(n, s) => Rests(n, s \o t)
         /\ ~ Hangs(s) => ~ Hangs(s \o t)
<1>. DEFINE u == s \o t
<1>1. /\ u \in Seq(Command) /\ Len(s) \in Nat /\ Len(t) \in Nat
      /\ Len(u) = Len(s) + Len(t)
      /\ \A i \in 1 .. Len(u) :
           \/ i \in 1 .. Len(s) /\ u[i] = s[i]
           \/ i > Len(s) /\ i - Len(s) \in 1 .. Len(t) /\ u[i] = t[i - Len(s)]
  BY PutBehind
<1>2. Ordered(n, s) /\ EndsWell(n, s) /\ (OnlyLastMissing => Steady(n, s))
  BY DEF Queued
<1>. HIDE DEF u
<1>3. \A i \in 1 .. Len(u) :
        u[i].app \in {"set", "playback", "hangup"} => i \in 1 .. Len(s) /\ u[i] = s[i]
  BY <1>1 DEF Neutral
<1>4. \A i \in 1 .. Len(u) : IsSet(u, i) => i \in 1 .. Len(s) /\ u[i] = s[i] /\ IsSet(s, i)
  BY <1>3 DEF IsSet
<1>5. \A i \in 1 .. Len(u) :
        IsPlayback(u, i) => i \in 1 .. Len(s) /\ u[i] = s[i] /\ IsPlayback(s, i)
  BY <1>3 DEF IsPlayback
<1>6. Rests(n, s) => Rests(n, u)
  BY <1>4, <1>5 DEF Rests
<1>7. Hangs(u) => Hangs(s)
  BY <1>3 DEF Hangs
<1>8. Ordered(n, u)
  <2>1. ASSUME NEW i \in 1 .. Len(u), IsPlayback(u, i)
        PROVE  /\ \/ i > 1 /\ u[i - 1] = Set(u[i].arg)
                  \/ u[i].arg = n /\ \A j \in 1 .. i - 1 : IsSet(u, j) => u[j].arg = n
               /\ StaysAfter(u, i, u[i].arg)
    <3>1. i \in 1 .. Len(s) /\ u[i] = s[i] /\ IsPlayback(s, i)
      BY <1>5, <2>1
    <3>2. /\ \/ i > 1 /\ s[i - 1] = Set(s[i].arg)
             \/ s[i].arg = n /\ \A j \in 1 .. i - 1 : IsSet(s, j) => s[j].arg = n
          /\ StaysAfter(s, i, s[i].arg)
      BY <1>2, <3>1 DEF Ordered
    <3>3. StaysAfter(u, i, u[i].arg)
      <4>1. ASSUME NEW j \in i + 1 .. Len(u)
            PROVE  ~ IsPlayback(u, j) /\ (IsSet(u, j) => u[j].arg = u[i].arg)
        <5>1. j \in 1 .. Len(u) /\ (j \in 1 .. Len(s) => j \in i + 1 .. Len(s))
          BY <1>1, <3>1
        <5>. QED
          BY <1>4, <1>5, <3>1, <3>2, <5>1 DEF StaysAfter
      <4>. QED
        BY <4>1 DEF StaysAfter
    <3>4. i > 1 => u[i - 1] = s[i - 1]
      <4>1. i > 1 => i - 1 \in 1 .. Len(u) /\ ~ (i - 1 > Len(s))
        BY <1>1, <3>1
      <4>. QED
        BY <1>1, <4>1
    <3>5. \A j \in 1 .. i - 1 : j \in 1 .. Len(u)
      BY <1>1, <3>1
    <3>. QED
      BY <1>4, <3>1, <3>2, <3>3, <3>4, <3>5
  <2>. QED
    BY <2>1 DEF Ordered
<1>9. EndsWell(n, u)
  BY <1>2, <1>6, <1>7 DEF EndsWell
<1>10. ASSUME OnlyLastMissing PROVE Steady(n, u)
  <2>1. Steady(n, s)
    BY <1>2, <1>10
  <2>2. ASSUME NEW i \in 1 .. Len(u), IsSet(u, i)
        PROVE  /\ u[i].arg = n \/ Onward(n, u[i].arg)
               /\ \A j \in i + 1 .. Len(u) :
                    IsSet(u, j) => u[j].arg = u[i].arg \/ u[i].arg = n
    <3>1. i \in 1 .. Len(s) /\ u[i] = s[i] /\ IsSet(s, i)
      BY <1>4, <2>2
    <3>2. ASSUME NEW j \in i + 1 .. Len(u), IsSet(u, j)
          PROVE  u[j].arg = u[i].arg \/ u[i].arg = n
      <4>1. j \in 1 .. Len(u)
        BY <1>1
      <4>2. j \in 1 .. Len(s) /\ u[j] = s[j] /\ IsSet(s, j) /\ j \in i + 1 .. Len(s)
        BY <1>4, <3>2, <4>1
      <4>. QED
        BY <2>1, <3>1, <4>2 DEF Steady
    <3>. QED
      BY <2>1, <3>1, <3>2 DEF Steady
  <2>. QED
    BY <2>2 DEF Steady
<1>. QED
  BY <1>6, <1>7, <1>8, <1>9, <1>10 DEF u, Queued

\* A call at a node without edges may be ended.
LEMMA QueuedEnd ==
  ASSUME NEW n, AtEnd(n), NEW s \in Seq(Command), Rests(n, s), NEW t \in Seq(Command),
         \A i \in 1 .. Len(t) : t[i].app \notin {"set", "playback"}
  PROVE  Queued(n, s \o t)
<1>. DEFINE u == s \o t
<1>1. /\ u \in Seq(Command) /\ Len(s) \in Nat /\ Len(t) \in Nat
      /\ Len(u) = Len(s) + Len(t)
      /\ \A i \in 1 .. Len(u) :
           \/ i \in 1 .. Len(s) /\ u[i] = s[i]
           \/ i > Len(s) /\ i - Len(s) \in 1 .. Len(t) /\ u[i] = t[i - Len(s)]
  BY PutBehind
<1>. HIDE DEF u
<1>2. Rests(n, u)
  BY <1>1 DEF Rests, IsSet, IsPlayback
<1>3. Ordered(n, u) /\ EndsWell(n, u) /\ Steady(n, u)
  <2>1. \A i \in 1 .. Len(u) : \A j \in i + 1 .. Len(u) : j \in 1 .. Len(u)
    BY <1>1
  <2>. QED
    BY <1>2, <2>1 DEF Ordered, EndsWell, Steady, Rests
<1>. QED
  BY <1>3 DEF u, Queued

\* An answer goes behind commands that stay at its node.
LEMMA QueuedAnswer ==
  ASSUME NEW n \in DOMAIN Script, NEW s \in Seq(Command), Queued(n, s), Rests(n, s),
         NEW t \in Answers(n)
  PROVE  Queued(n, s \o t)
<1>. DEFINE u == s \o t
<1>1. /\ u \in Seq(Command) /\ Len(s) \in Nat /\ Len(t) \in Nat
      /\ Len(u) = Len(s) + Len(t)
      /\ \A i \in 1 .. Len(u) :
           \/ i \in 1 .. Len(s) /\ u[i] = s[i]
           \/ i > Len(s) /\ i - Len(s) \in 1 .. Len(t) /\ u[i] = t[i - Len(s)]
  <2>1. t \in Seq(Command)
    BY DEF Answers
  <2>. QED
    BY <2>1, PutBehind
<1>2. /\ \A i \in 1 .. Len(t) :
           /\ t[i].app # "hangup"
           /\ IsSet(t, i) => ExitOf(n, t[i].arg)
           /\ IsPlayback(t, i) =>
                /\ \/ i > 1 /\ t[i - 1] = Set(t[i].arg)
                   \/ t[i].arg = n /\ \A j \in 1 .. Len(t) : ~ IsSet(t, j)
                /\ StaysAfter(t, i, t[i].arg)
                /\ Script[n] # <<>>
      /\ OnlyLastMissing =>
           \A i, j \in 1 .. Len(t) : IsSet(t, i) /\ IsSet(t, j) => t[i].arg = t[j].arg
  BY DEF Answers
<1>. HIDE DEF u
<1>3. ASSUME NEW i \in 1 .. Len(u), IsSet(u, i)
      PROVE  \/ i \in 1 .. Len(s) /\ u[i].arg = n
             \/ /\ i > Len(s) /\ i - Len(s) \in 1 .. Len(t) /\ u[i] = t[i - Len(s)]
                /\ IsSet(t, i - Len(s)) /\ ExitOf(n, u[i].arg)
  BY <1>1, <1>2, <1>3 DEF IsSet, Rests
<1>4. ASSUME NEW i \in 1 .. Len(u), IsPlayback(u, i)
      PROVE  /\ i > Len(s) /\ i - Len(s) \in 1 .. Len(t) /\ u[i] = t[i - Len(s)]
             /\ IsPlayback(t, i - Len(s))
  BY <1>1, <1>4 DEF IsPlayback, Rests
<1>5. Ordered(n, u)
  <2>1. ASSUME NEW i \in 1 .. Len(u), IsPlayback(u, i)
        PROVE  /\ \/ i > 1 /\ u[i - 1] = Set(u[i].arg)
                  \/ u[i].arg = n /\ \A j \in 1 .. i - 1 : IsSet(u, j) => u[j].arg = n
               /\ StaysAfter(u, i, u[i].arg)
    <3>. DEFINE k == i - Len(s)
    <3>1. i > Len(s) /\ k \in 1 .. Len(t) /\ u[i] = t[k] /\ IsPlayback(t, k)
      BY <1>4, <2>1
    <3>2. /\ \/ k > 1 /\ t[k - 1] = Set(t[k].arg)
             \/ t[k].arg = n /\ \A j \in 1 .. Len(t) : ~ IsSet(t, j)
          /\ StaysAfter(t, k, t[k].arg)
      BY <1>2, <3>1
    <3>3. StaysAfter(u, i, u[i].arg)
      <4>1. ASSUME NEW j \in i + 1 .. Len(u)
            PROVE  ~ IsPlayback(u, j) /\ (IsSet(u, j) => u[j].arg = u[i].arg)
        <5>1. j \in 1 .. Len(u) /\ j > Len(s) /\ j - Len(s) \in k + 1 .. Len(t)
              /\ j \notin 1 .. Len(s)
          BY <1>1, <3>1
        <5>2. u[j] = t[j - Len(s)]
          BY <1>1, <5>1
        <5>. QED
          BY <3>1, <3>2, <5>1, <5>2 DEF StaysAfter, IsSet, IsPlayback
      <4>. QED
        BY <4>1 DEF StaysAfter
    <3>4. CASE k > 1 /\ t[k - 1] = Set(t[k].arg)
      <4>1. i - 1 \in 1 .. Len(u) /\ i - 1 \notin 1 .. Len(s) /\ (i - 1) - Len(s) = k - 1 /\ i > 1
        BY <1>1, <3>1, <3>4
      <4>2. u[i - 1] = t[k - 1]
        BY <1>1, <4>1
      <4>. QED
        BY <3>1, <3>3, <3>4, <4>1, <4>2
    <3>5. CASE t[k].arg = n /\ \A j \in 1 .. Len(t) : ~ IsSet(t, j)
      <4>1. \A j \in 1 .. i - 1 : j \in 1 .. Len(u)
        BY <1>1
      <4>. QED
        BY <1>3, <3>1, <3>3, <3>5, <4>1
    <3>. QED
      BY <3>2, <3>4, <3>5
  <2>. QED
    BY <2>1 DEF Ordered
<1>6. EndsWell(n, u)
  <2>1. ASSUME Hangs(u) PROVE Rests(n, u) /\ AtEnd(n)
    <3>1. Hangs(s)
      BY <1>1, <1>2, <2>1 DEF Hangs
    <3>2. AtEnd(n)
      BY <3>1 DEF Queued, EndsWell
    <3>3. \A x : ~ ExitOf(n, x)
      BY <3>2 DEF AtEnd, ExitOf
    <3>4. \A k \in 1 .. Len(t) : ~ IsPlayback(t, k)
      BY <1>2, <3>2 DEF AtEnd
    <3>. QED
      BY <1>3, <1>4, <3>2, <3>3, <3>4 DEF Rests
  <2>. QED
    BY <2>1 DEF EndsWell
<1>7. ASSUME OnlyLastMissing PROVE Steady(n, u)
  <2>1. ASSUME NEW i \in 1 .. Len(u), IsSet(u, i)
        PROVE  /\ u[i].arg = n \/ Onward(n, u[i].arg)
               /\ \A j \in i + 1 .. Len(u) :
                    IsSet(u, j) => u[j].arg = u[i].arg \/ u[i].arg = n
    <3>1. u[i].arg = n \/ Onward(n, u[i].arg)
      BY <1>3, <2>1 DEF Onward
    <3>2. ASSUME NEW j \in i + 1 .. Len(u), IsSet(u, j), u[i].arg # n
          PROVE  u[j].arg = u[i].arg
      <4>1. i - Len(s) \in 1 .. Len(t) /\ u[i] = t[i - Len(s)] /\ IsSet(t, i - Len(s))
            /\ i > Len(s)
        BY <1>3, <2>1, <3>2
      <4>2. j \in 1 .. Len(u) /\ j \notin 1 .. Len(s)
        BY <1>1, <4>1
      <4>3. j - Len(s) \in 1 .. Len(t) /\ u[j] = t[j - Len(s)] /\ IsSet(t, j - Len(s))
        BY <1>3, <3>2, <4>2
      <4>. QED
        BY <1>2, <1>7, <4>1, <4>3
    <3>. QED
      BY <3>1, <3>2
  <2>. QED
    BY <2>1 DEF Steady
<1>. QED
  BY <1>5, <1>6, <1>7 DEF u, Queued

\* The commands of a call's start fit any node, in an empty queue.
LEMMA QueuedPark ==
  ASSUME NEW n
  PROVE  /\ ParkCommands \in Seq(Command) /\ Queued(n, ParkCommands)
         /\ ~ Hangs(ParkCommands)
         /\ \A i \in 1 .. Len(ParkCommands) : ParkCommands[i].app = "start_asr" =>
              \E j \in 1 .. i - 1 : IsPlayback(ParkCommands, j)
<1>. DEFINE s == ParkCommands
<1>0. ParkCommands \in Seq(Command)
  <2>1. /\ Do("answer") \in Command /\ Set(1) \in Command /\ Playback(1) \in Command
        /\ Do("start_asr") \in Command /\ Do("park") \in Command
    BY CommandTypes
  <2>. QED
    BY <2>1 DEF ParkCommands, playDetectSpeech
<1>1. CASE 1 \in DOMAIN Script
  <2>1. /\ Len(s) = 5 /\ s[1] = Do("answer") /\ s[2] = Set(1) /\ s[3] = Playback(1)
        /\ s[4] = Do("start_asr") /\ s[5] = Do("park")
    BY <1>1, ParkLaidOut
  <2>. HIDE DEF s
  <2>3. /\ Len(s) = 5 /\ s[2] = Set(1)
        /\ s[3].arg = 1 /\ s[3].app = "playback" /\ s[2].arg = 1 /\ s[2].app = "set"
        /\ s[1].app = "answer" /\ s[4].app = "start_asr" /\ s[5].app = "park"
    BY <2>1 DEF Do, Set, Playback
  <2>4. \A i \in 1 .. Len(s) : i \in {1, 2, 3, 4, 5}
    BY <2>3
  <2>5. \A i \in 1 .. Len(s) : (IsSet(s, i) <=> i = 2) /\ (IsPlayback(s, i) <=> i = 3)
    BY <2>3, <2>4 DEF IsSet, IsPlayback
  <2>6. Ordered(n, s)
    BY <2>3, <2>5 DEF Ordered, StaysAfter
  <2>7. ~ Hangs(s)
    BY <2>3, <2>4 DEF Hangs
  <2>8. Steady(n, s)
    BY <2>3, <2>5 DEF Steady, Onward
  <2>9. \A i \in 1 .. Len(s) : s[i].app = "start_asr" =>
          \E j \in 1 .. i - 1 : IsPlayback(s, j)
    BY <2>3, <2>4, <2>5
  <2>. QED
    BY <1>0, <2>6, <2>7, <2>8, <2>9 DEF s, Queued, EndsWell
<1>2. CASE 1 \notin DOMAIN Script
  <2>1. s = <<Do("answer")>>
    BY <1>2 DEF ParkCommands
  <2>. HIDE DEF s
  <2>2. s \in Seq(Command)
    BY <2>1, CommandTypes
  <2>3. Len(s) = 1 /\ s[1].app = "answer" /\ \A i \in 1 .. Len(s) : i = 1
    BY <2>1 DEF Do
  <2>4. \A i \in 1 .. Len(s) : ~ IsSet(s, i) /\ ~ IsPlayback(s, i)
    BY <2>3 DEF IsSet, IsPlayback
  <2>5. Ordered(n, s) /\ ~ Hangs(s) /\ Steady(n, s)
    BY <2>3, <2>4 DEF Ordered, Hangs, Steady
  <2>. QED
    BY <1>0, <2>3, <2>5 DEF s, Queued, EndsWell
<1>. QED
  BY <1>1, <1>2

-----------------------------------------------------------------------------
(* What the channels do, by what it leaves to show.                        *)

\* The channel of c reports t, and no other channel takes part.
Reports(c, t) ==
  /\ t \in Seq(Event) /\ events' = events \o t
  /\ \A k \in 1 .. Len(t) : t[k].call = c
  /\ nodeState' = nodeState /\ gIsAsr' = gIsAsr
  /\ \A d \in Calls \ {c} :
       /\ state'[d] = state[d] /\ apps'[d] = apps[d] /\ node'[d] = node[d]
       /\ file'[d] = file[d] /\ asr'[d] = asr[d]

Arrives(c, t) ==
  /\ state[c] = "new" /\ state'[c] = "up" /\ t = <<Ev("park", c)>>
  /\ apps'[c] = apps[c] /\ node'[c] = node[c] /\ file'[c] = file[c] /\ asr'[c] = asr[c]
Proceeds(c, t) ==
  /\ state'[c] = "up" /\ file'[c] = 0 /\ t = <<>>
  /\ Runs(c, Head(apps[c]).app) /\ Head(apps[c]).app \notin {"playback", "hangup"}
  /\ apps'[c] = Tail(apps[c]) /\ node'[c] = After(node[c], Head(apps[c]))
  /\ asr'[c] => asr[c] \/ Head(apps[c]).app = "start_asr"
Plays(c, t) ==
  /\ state'[c] = "up" /\ Runs(c, "playback") /\ t = <<Ev("logged", c)>>
  /\ apps'[c] = Tail(apps[c]) /\ node'[c] = node[c] /\ asr'[c] = asr[c]
  /\ file'[c] = Head(apps[c]).arg
Stops(c, t) ==
  /\ state[c] = "up" /\ state'[c] = "up" /\ file[c] # 0 /\ file'[c] = 0
  /\ apps'[c] = apps[c] /\ node'[c] = node[c] /\ asr'[c] = asr[c]
  /\ t = <<Ev("stop", c)>>
Says(c, t) ==
  /\ state[c] = "up" /\ state'[c] = "up"
  /\ apps'[c] = apps[c] /\ node'[c] = node[c] /\ file'[c] = file[c] /\ asr'[c] = asr[c]
  /\ asr[c]
  /\ BargeIn \/ (file[c] = 0 /\ apps[c] = <<>> /\ c \notin Awaited)
  /\ Len(t) = 1 /\ t[1].type \in Engines /\ t[1].node \in {0, node[c]}
  /\ t[1].node = node[c] \/ Unmarked
Leaves(c, t) ==
  /\ state[c] = "up" /\ state'[c] = "down" /\ apps'[c] = <<>> /\ node'[c] = node[c]
  /\ file'[c] = 0
  /\ \A k \in 1 .. Len(t) :
       t[k].type = "logged" \/ (k = 1 /\ t[k] = Ev("stop", c) /\ file[c] # 0)

Moves(c, t) ==
  /\ Reports(c, t)
  /\ Arrives(c, t) \/ Proceeds(c, t) \/ Plays(c, t) \/ Stops(c, t)
     \/ Says(c, t) \/ Leaves(c, t)

LEMMA ChannelCases ==
  ASSUME TypeOK, NEW c \in Calls,
         \/ Arrive(c) \/ CallerHangsUp(c)
         \/ RunSet(c) \/ RunPlayback(c) \/ RunListen(c) \/ RunOther(c) \/ RunHangup(c)
         \/ PlaybackEnds(c)
         \/ \E text \in Texts : Speaks(c, text)
  PROVE  \E t : Moves(c, t)
<1>1. events \in Seq(Event) /\ <<>> \in Seq(Event) /\ events \o <<>> = events
  BY ConcatEmptySeq DEF TypeOK
<1>2. ASSUME NEW x \in Event
      PROVE  /\ <<x>> \in Seq(Event) /\ Len(<<x>>) = 1 /\ <<x>>[1] = x
             /\ Append(events, x) = events \o <<x>>
             /\ \A k \in 1 .. Len(<<x>>) : k = 1
  BY <1>1, AppendIsConcat
<1>3. ASSUME UNCHANGED program PROVE nodeState' = nodeState /\ gIsAsr' = gIsAsr
  BY <1>3 DEF program
<1>4. ASSUME NEW type \in {"park", "stop", "logged"}
      PROVE  Ev(type, c) \in Event /\ Ev(type, c).call = c /\ Ev(type, c).type = type
  BY EvTypes DEF Ev
<1>5. CASE Arrive(c)
  <2>. DEFINE t == <<Ev("park", c)>>
  <2>1. t \in Seq(Event) /\ events' = events \o t /\ \A k \in 1 .. Len(t) : t[k].call = c
    BY <1>2, <1>4, <1>5 DEF Arrive
  <2>. HIDE DEF t
  <2>2. /\ UNCHANGED <<program, apps, node, file, asr>> /\ state[c] = "new" /\ state'[c] = "up"
        /\ \A d \in Calls \ {c} : state'[d] = state[d]
    BY <1>5 DEF Arrive, TypeOK
  <2>3. Reports(c, t)
    BY <1>3, <2>1, <2>2 DEF Reports
  <2>4. Arrives(c, t)
    BY <2>2 DEF Arrives, t
  <2>. QED
    BY <2>3, <2>4, Zenon DEF Moves
<1>6. ASSUME NEW app, Runs(c, app)
      PROVE  /\ state[c] = "up" /\ Head(apps[c]).app = app
             /\ apps'[c] = Tail(apps[c]) /\ nodeState' = nodeState /\ gIsAsr' = gIsAsr
             /\ file[c] = 0
             /\ \A d \in Calls \ {c} : apps'[d] = apps[d]
  BY <1>3, <1>6 DEF Runs, TypeOK
<1>7. CASE RunSet(c)
  <2>1. Runs(c, "set") /\ UNCHANGED <<events, state, file, asr>>
        /\ node'[c] = Head(apps[c]).arg /\ \A d \in Calls \ {c} : node'[d] = node[d]
    BY <1>7 DEF RunSet, TypeOK
  <2>2. Head(apps[c]).app = "set" /\ Runs(c, Head(apps[c]).app)
    BY <1>6, <2>1
  <2>3. Reports(c, <<>>)
    BY <1>1, <1>6, <2>1 DEF Reports
  <2>4. Proceeds(c, <<>>)
    BY <1>6, <2>1, <2>2 DEF Proceeds, After
  <2>. QED
    BY <2>3, <2>4, Zenon DEF Moves
<1>8. CASE RunListen(c)
  <2>1. PICK app \in {"start_asr", "stop_asr", "detect_stop"} :
          Runs(c, app) /\ asr' = [asr EXCEPT ![c] = app = "start_asr"]
    BY <1>8, Zenon DEF RunListen
  <2>2. /\ UNCHANGED <<events, state, node, file>> /\ (asr'[c] => app = "start_asr")
        /\ \A d \in Calls \ {c} : asr'[d] = asr[d]
    BY <1>8, <2>1 DEF RunListen, TypeOK
  <2>3. Head(apps[c]).app = app
    BY <1>6, <2>1
  <2>4. Reports(c, <<>>)
    BY <1>1, <1>6, <2>1, <2>2 DEF Reports
  <2>5. Proceeds(c, <<>>)
    BY <1>6, <2>1, <2>2, <2>3 DEF Proceeds, After
  <2>. QED
    BY <2>4, <2>5, Zenon DEF Moves
<1>9. CASE RunOther(c)
  <2>1. PICK app \in {"answer", "park"} : Runs(c, app)
    BY <1>9, Zenon DEF RunOther
  <2>2. UNCHANGED <<events, state, node, file, asr>>
    BY <1>9 DEF RunOther
  <2>3. Head(apps[c]).app = app
    BY <1>6, <2>1
  <2>4. Reports(c, <<>>)
    BY <1>1, <1>6, <2>1, <2>2 DEF Reports
  <2>5. Proceeds(c, <<>>)
    BY <1>6, <2>1, <2>2, <2>3 DEF Proceeds, After
  <2>. QED
    BY <2>4, <2>5, Zenon DEF Moves
<1>10. CASE RunPlayback(c)
  <2>. DEFINE t == <<Ev("logged", c)>>
  <2>1. t \in Seq(Event) /\ events' = events \o t /\ \A k \in 1 .. Len(t) : t[k].call = c
    BY <1>2, <1>4, <1>10 DEF RunPlayback
  <2>. HIDE DEF t
  <2>2. /\ Runs(c, "playback") /\ UNCHANGED <<state, node, asr>> /\ file'[c] = Head(apps[c]).arg
        /\ \A d \in Calls \ {c} : file'[d] = file[d]
    BY <1>10 DEF RunPlayback, TypeOK
  <2>3. Reports(c, t)
    BY <1>6, <2>1, <2>2 DEF Reports
  <2>4. Plays(c, t)
    BY <1>6, <2>2 DEF Plays, t
  <2>. QED
    BY <2>3, <2>4, Zenon DEF Moves
<1>11. CASE RunHangup(c)
  <2>. DEFINE t == <<Ev("logged", c)>>
  <2>1. /\ t \in Seq(Event) /\ events' = events \o t
        /\ \A k \in 1 .. Len(t) : t[k].call = c /\ t[k].type = "logged"
    BY <1>2, <1>4, <1>11 DEF RunHangup
  <2>. HIDE DEF t
  <2>2. /\ UNCHANGED <<program, node, file>> /\ apps'[c] = <<>>
        /\ state[c] = "up" /\ state'[c] = "down" /\ file[c] = 0
        /\ \A d \in Calls \ {c} :
             apps'[d] = apps[d] /\ asr'[d] = asr[d] /\ state'[d] = state[d]
    BY <1>11 DEF RunHangup, TypeOK
  <2>3. Reports(c, t)
    BY <1>3, <2>1, <2>2 DEF Reports
  <2>4. Leaves(c, t)
    BY <2>1, <2>2 DEF Leaves
  <2>. QED
    BY <2>3, <2>4, Zenon DEF Moves
<1>12. CASE PlaybackEnds(c)
  <2>. DEFINE t == <<Ev("stop", c)>>
  <2>1. t \in Seq(Event) /\ events' = events \o t /\ \A k \in 1 .. Len(t) : t[k].call = c
    BY <1>2, <1>4, <1>12 DEF PlaybackEnds
  <2>. HIDE DEF t
  <2>2. /\ UNCHANGED <<program, state, apps, node, asr>> /\ state[c] = "up" /\ file[c] # 0
        /\ file'[c] = 0 /\ \A d \in Calls \ {c} : file'[d] = file[d]
    BY <1>12 DEF PlaybackEnds, TypeOK
  <2>3. Reports(c, t)
    BY <1>3, <2>1, <2>2 DEF Reports
  <2>4. Stops(c, t)
    BY <2>2 DEF Stops, t
  <2>. QED
    BY <2>3, <2>4, Zenon DEF Moves
<1>13. CASE CallerHangsUp(c)
  <2>1. /\ UNCHANGED <<program, node>> /\ apps'[c] = <<>> /\ file'[c] = 0
        /\ state[c] = "up" /\ state'[c] = "down"
        /\ \A d \in Calls \ {c} : /\ apps'[d] = apps[d] /\ asr'[d] = asr[d]
                                  /\ state'[d] = state[d] /\ file'[d] = file[d]
    BY <1>13 DEF CallerHangsUp, TypeOK
  <2>. DEFINE one == IF file[c] # 0 THEN <<Ev("stop", c)>> ELSE <<>>
              two == <<Ev("logged", c)>>
              t == one \o two
  <2>2. /\ one \in Seq(Event)
        /\ \A k \in 1 .. Len(one) : k = 1 /\ one[k] = Ev("stop", c) /\ file[c] # 0
    <3>1. CASE file[c] # 0
      BY <1>2, <1>4, <3>1
    <3>2. CASE file[c] = 0
      BY <3>2
    <3>. QED
      BY <3>1, <3>2
  <2>3. two \in Seq(Event) /\ Len(two) = 1 /\ two[1] = Ev("logged", c)
    BY <1>2, <1>4
  <2>4. events' = (events \o one) \o two
    BY <1>13, Zenon DEF CallerHangsUp
  <2>. HIDE DEF one, two
  <2>5. events' = events \o t
    <3>1. events \in Seq(Event) /\ one \in Seq(Event) /\ two \in Seq(Event)
      BY <1>1, <2>2, <2>3
    <3>2. (events \o one) \o two = events \o (one \o two)
      BY <3>1, ConcatAssociative
    <3>. QED
      BY <2>4, <3>2
  <2>6. /\ t \in Seq(Event) /\ Len(t) = Len(one) + Len(two)
        /\ \A j \in 1 .. Len(one) : t[j] = one[j]
        /\ \A j \in Len(one) + 1 .. Len(one) + Len(two) :
             j - Len(one) \in 1 .. Len(two) /\ t[j] = two[j - Len(one)]
    <3>1. one \in Seq(Event) /\ two \in Seq(Event)
      BY <2>2, <2>3
    <3>. QED
      BY <3>1, Joined
  <2>. HIDE DEF t
  <2>7. ASSUME NEW k \in 1 .. Len(t)
        PROVE  \/ t[k] = Ev("logged", c)
               \/ k = 1 /\ t[k] = Ev("stop", c) /\ file[c] # 0
    <3>1. Len(one) \in Nat
      BY <2>2
    <3>2. CASE k <= Len(one)
      BY <2>2, <2>6, <3>1, <3>2
    <3>3. CASE k > Len(one)
      <4>1. k \in Len(one) + 1 .. Len(one) + Len(two) /\ k - Len(one) = 1
        BY <2>3, <2>6, <3>1, <3>3
      <4>2. t[k] = two[k - Len(one)]
        BY <2>6, <4>1, Zenon
      <4>. QED
        BY <2>3, <4>1, <4>2
    <3>. QED
      BY <2>6, <3>1, <3>2, <3>3
  <2>8. Reports(c, t)
    <3>1. \A k \in 1 .. Len(t) : t[k].call = c
      BY <1>4, <2>7
    <3>. QED
      BY <1>3, <2>1, <2>5, <2>6, <3>1 DEF Reports
  <2>9. Leaves(c, t)
    BY <1>4, <2>1, <2>7 DEF Leaves
  <2>. QED
    BY <2>8, <2>9, Zenon DEF Moves
<1>14. ASSUME NEW text \in Texts, Speaks(c, text) PROVE \E t : Moves(c, t)
  <2>1. PICK type \in Engines, marked \in {TRUE, ~ Unmarked} :
          events' = Append(events, [type |-> type, call |-> c,
                                    node |-> IF marked THEN node[c] ELSE 0,
                                    text |-> text])
    BY <1>14, Zenon DEF Speaks
  <2>. DEFINE x == [type |-> type, call |-> c,
                    node |-> IF marked THEN node[c] ELSE 0, text |-> text]
              t == <<x>>
  <2>2. /\ UNCHANGED <<program, state, apps, node, file, asr>> /\ asr[c] /\ state[c] = "up"
        /\ BargeIn \/ (file[c] = 0 /\ apps[c] = <<>> /\ c \notin Awaited)
    BY <1>14 DEF Speaks
  <2>3. x \in Event
    <3>1. text \in AllTexts /\ type \in {"asr", "speech"}
      BY InputAssumption
    <3>2. node[c] \in Nat
      BY DEF TypeOK
    <3>. QED
      BY <3>1, <3>2 DEF Event
  <2>4. x.call = c /\ x.type \in Engines /\ x.node \in {0, node[c]}
    OBVIOUS
  <2>5. x.node = node[c] \/ Unmarked
    <3>1. x.node = IF marked THEN node[c] ELSE 0
      BY Zenon
    <3>2. marked \/ Unmarked
      BY Zenon
    <3>. HIDE DEF x
    <3>. QED
      BY <3>1, <3>2, Zenon
  <2>6. t \in Seq(Event) /\ Len(t) = 1 /\ t[1] = x /\ events' = events \o t
        /\ \A k \in 1 .. Len(t) : k = 1
    <3>. HIDE DEF x
    <3>. QED
      BY <1>2, <2>1, <2>3 DEF x
  <2>. HIDE DEF x, t
  <2>7. Reports(c, t)
    BY <1>3, <2>2, <2>4, <2>6 DEF Reports
  <2>8. Says(c, t)
    BY <2>2, <2>4, <2>5, <2>6, Zenon DEF Says
  <2>. QED
    BY <2>7, <2>8, Zenon DEF Moves
<1>. QED
  BY <1>5, <1>7, <1>8, <1>9, <1>10, <1>11, <1>12, <1>13, <1>14, Zenon

-----------------------------------------------------------------------------
(* The order of a channel's commands, kept if a result is evaluated in time. *)

\* What is queued for c fits its node; a recording that is played is its node's.
ChannelOrder(c) ==
  /\ Queued(node[c], apps[c])
  /\ file[c] # 0 => file[c] = node[c] /\ Rests(node[c], apps[c])
  /\ state[c] # "up" => apps[c] = <<>> /\ file[c] = 0

\* No event comes from a call that has not arrived.
Arrived(c) == state[c] = "new" => \A i \in 1 .. Len(events) : events[i].call # c

Order == \A c \in Calls : ChannelOrder(c) /\ Arrived(c)

\* Nothing is played and no other node is going to be set.
Ready(c) == file[c] = 0 /\ Rests(node[c], apps[c])

\* What is sent in answer to e does not depend on where the channel is, or the
\* channel is where e is evaluated.
Timely(e, s) ==
  \/ \A i \in 1 .. Len(s) : s[i].app \in Neutral
  \/ Parks(e, s) /\ file[e.call] = 0 /\ apps[e.call] = <<>>
  \/ Ready(e.call) /\ NodeAt(e) = node[e.call] /\ e.type # "park"

\* What these say of the next state.
LEMMA OrderNext ==
  ASSUME NEW c
  PROVE  /\ ChannelOrder(c)' <=>
              /\ Queued(node'[c], apps'[c])
              /\ file'[c] # 0 => file'[c] = node'[c] /\ Rests(node'[c], apps'[c])
              /\ state'[c] # "up" => apps'[c] = <<>> /\ file'[c] = 0
         /\ Ready(c)' <=> file'[c] = 0 /\ Rests(node'[c], apps'[c])
BY Zenon DEF ChannelOrder, Ready, Queued, Rests, Ordered, StaysAfter, EndsWell, Hangs, AtEnd,
             Steady, Onward, ExitOf, OnlyLastMissing, IsSet, IsPlayback

LEMMA QueuedNothing == ASSUME NEW n PROVE Queued(n, <<>>) /\ Rests(n, <<>>)
<1>1. \A i \in 1 .. Len(<<>>) : FALSE
  OBVIOUS
<1>. QED
  BY <1>1 DEF Queued, Rests, Ordered, EndsWell, Hangs, Steady

\* What a handled event leaves of the events and the channels.
LEMMA HandledLeaves ==
  ASSUME TypeOK, NEW e, NEW s, Handled(e, s)
  PROVE  /\ e \in Event /\ e.call \in Calls /\ Len(events) \in Nat \ {0} /\ e = events[1]
         /\ Len(events') = Len(events) - 1
         /\ \A i \in 1 .. Len(events') : i + 1 \in 1 .. Len(events) /\ events'[i] = events[i + 1]
         /\ state' = state /\ node' = node /\ file' = file /\ asr' = asr
         /\ nodeState' = NodeAt(e)
         /\ \A d \in Calls : d # e.call => apps'[d] = apps[d]
         /\ state[e.call] # "up" => apps'[e.call] = apps[e.call]
         /\ state[e.call] = "up" => apps'[e.call] = apps[e.call] \o s
         /\ s \in Seq(Command) /\ apps[e.call] \in Seq(Command)
<1>1. e = Head(events) /\ Process(e, s) /\ events # <<>> /\ s \in Seq(Command)
  BY DEF Handled
<1>2. e \in Event /\ e.call \in Calls /\ apps[e.call] \in Seq(Command)
  BY <1>1, EventTypes DEF TypeOK
<1>3. events \in Seq(Event) /\ events' = Tail(events)
  BY <1>1 DEF TypeOK, Process
<1>4. /\ Len(events) \in Nat \ {0} /\ e = events[1] /\ Len(events') = Len(events) - 1
      /\ \A i \in 1 .. Len(events') : i + 1 \in 1 .. Len(events) /\ events'[i] = events[i + 1]
  BY <1>1, <1>3, HeadTailProperties
<1>5. /\ state' = state /\ node' = node /\ file' = file /\ asr' = asr
      /\ nodeState' = NodeAt(e) /\ Execute(e.call, s)
  BY <1>1 DEF Process
<1>6. /\ \A d \in Calls : d # e.call => apps'[d] = apps[d]
      /\ apps'[e.call] = IF state[e.call] = "up" THEN apps[e.call] \o s ELSE apps[e.call]
  BY <1>2, <1>5 DEF Execute, TypeOK
<1>. QED
  BY <1>1, <1>2, <1>4, <1>5, <1>6

\* What is sent in time fits.
LEMMA TimelySent ==
  ASSUME TypeOK, NEW e, NEW s, Handled(e, s), NEW c \in Calls, c = e.call,
         ChannelOrder(c), Timely(e, s)
  PROVE  /\ Queued(node[c], apps[c] \o s)
         /\ file[c] # 0 => file[c] = node[c] /\ Rests(node[c], apps[c] \o s)
<1>. DEFINE n == node[c]
            u == apps[c] \o s
<1>1. /\ Queued(n, apps[c]) /\ apps[c] \in Seq(Command) /\ s \in Seq(Command)
      /\ file[c] # 0 => file[c] = n /\ Rests(n, apps[c])
  BY DEF ChannelOrder, TypeOK, Handled
<1>. SUFFICES Queued(n, u) /\ (file[c] # 0 => file[c] = n /\ Rests(n, u))
  OBVIOUS
<1>3. ASSUME \A i \in 1 .. Len(s) : s[i].app \in Neutral
      PROVE  Queued(n, u) /\ (Rests(n, apps[c]) => Rests(n, u))
  BY <1>1, <1>3, QueuedNeutral
<1>4. s = ParkCommands /\ apps[c] = <<>> => u = ParkCommands
  BY <1>1
<1>5. ASSUME Rests(n, apps[c]), s \in Answers(n), n \in DOMAIN Script PROVE Queued(n, u)
  BY <1>1, <1>5, QueuedAnswer
<1>6. ASSUME Rests(n, apps[c]), AtEnd(n), \A i \in 1 .. Len(s) : s[i].app \notin {"set", "playback"}
      PROVE  Queued(n, u)
  BY <1>1, <1>6, QueuedEnd
<1>2. n = node[c]
  OBVIOUS
<1>. HIDE DEF n, u
<1>7. CASE \A i \in 1 .. Len(s) : s[i].app \in Neutral
  BY <1>1, <1>3, <1>7
<1>8. CASE Parks(e, s) /\ file[c] = 0 /\ apps[c] = <<>>
  <2>1. u = ParkCommands
    BY <1>8, <1>4 DEF Parks
  <2>. QED
    BY <1>8, <2>1, QueuedPark
<1>9. CASE Ready(c) /\ NodeAt(e) = n /\ e.type # "park"
  <2>1. file[c] = 0 /\ Rests(n, apps[c])
    BY <1>9, <1>2 DEF Ready
  <2>4. \/ s = <<>> \/ s = <<Do("stop_asr")>>
        \/ s = <<Do("hangup")>> /\ AtEnd(n)
        \/ s = <<Do("detect_stop")>> \o <<Do("hangup")>> /\ AtEnd(n)
        \/ s \in Answers(n) /\ n \in DOMAIN Script
    BY <1>9
       DEF Handled, Parks, StopsPlaying, Ignores, Keeps, AnswersAsr, AnswersSpeech, Missing, AtEnd
  <2>5. CASE s = <<>> \/ s = <<Do("stop_asr")>>
    <3>1. \A i \in 1 .. Len(s) : s[i].app \in Neutral
      BY <2>5 DEF Do, Neutral
    <3>. QED
      BY <1>3, <2>1, <3>1
  <2>6. CASE s = <<Do("hangup")>> /\ AtEnd(n)
    <3>1. \A i \in 1 .. Len(s) : s[i].app \notin {"set", "playback"}
      BY <2>6 DEF Do
    <3>. QED
      BY <1>6, <2>1, <2>6, <3>1
  <2>7. CASE s = <<Do("detect_stop")>> \o <<Do("hangup")>> /\ AtEnd(n)
    <3>1. Len(s) = 2 /\ s[1] = Do("detect_stop") /\ s[2] = Do("hangup")
      BY <2>7 DEF Do
    <3>2. \A i \in 1 .. Len(s) : s[i].app \notin {"set", "playback"}
      BY <3>1 DEF Do
    <3>. QED
      BY <1>6, <2>1, <2>7, <3>2
  <2>. QED
    BY <1>5, <2>1, <2>4, <2>5, <2>6, <2>7
<1>. QED
  BY <1>2, <1>7, <1>8, <1>9, Zenon DEF Timely

LEMMA HandledOrder ==
  ASSUME TypeOK, Order, NEW e, NEW s, Handled(e, s),
         state[e.call] = "up" => Timely(e, s)
  PROVE  Order'
<1>. DEFINE c == e.call
<1>1. /\ c \in Calls /\ Len(events) \in Nat \ {0}
      /\ Len(events') = Len(events) - 1
      /\ \A i \in 1 .. Len(events') : i + 1 \in 1 .. Len(events) /\ events'[i] = events[i + 1]
      /\ state' = state /\ node' = node /\ file' = file
      /\ \A d \in Calls : d # c => apps'[d] = apps[d]
      /\ state[c] # "up" => apps'[c] = apps[c]
      /\ state[c] = "up" => apps'[c] = apps[c] \o s
  BY HandledLeaves
<1>2. state[c] = "up" => /\ Queued(node[c], apps[c] \o s)
                         /\ file[c] # 0 => file[c] = node[c] /\ Rests(node[c], apps[c] \o s)
  BY <1>1, TimelySent DEF Order
<1>. HIDE DEF c
<1>3. \A d \in Calls : Arrived(d)'
  BY <1>1 DEF Order, Arrived
<1>4. \A d \in Calls : apps'[d] = apps[d] => ChannelOrder(d)'
  BY <1>1, OrderNext DEF Order, ChannelOrder
<1>5. ASSUME state[c] = "up" PROVE ChannelOrder(c)'
  BY <1>1, <1>2, <1>5, OrderNext
<1>. QED
  BY <1>1, <1>3, <1>4, <1>5 DEF Order

\* The events after a report.
LEMMA ReportedEvents ==
  ASSUME TypeOK, NEW c, NEW t, Reports(c, t)
  PROVE  /\ Len(events) \in Nat /\ Len(t) \in Nat /\ Len(events') = Len(events) + Len(t)
         /\ \A i \in 1 .. Len(events) : i \in 1 .. Len(events') /\ events'[i] = events[i]
         /\ \A k \in 1 .. Len(t) : /\ Len(events) + k \in 1 .. Len(events')
                                   /\ events'[Len(events) + k] = t[k]
         /\ \A i \in 1 .. Len(events') :
              \/ i \in 1 .. Len(events) /\ events'[i] = events[i]
              \/ /\ i > Len(events) /\ i - Len(events) \in 1 .. Len(t)
                 /\ events'[i] = t[i - Len(events)]
<1>1. events \in Seq(Event) /\ t \in Seq(Event) /\ events' = events \o t
  BY DEF TypeOK, Reports
<1>2. /\ Len(events \o t) = Len(events) + Len(t)
      /\ \A j \in 1 .. Len(events) : (events \o t)[j] = events[j]
      /\ \A j \in 1 .. Len(t) : (events \o t)[Len(events) + j] = t[j]
      /\ \A j \in Len(events) + 1 .. Len(events) + Len(t) :
           j - Len(events) \in 1 .. Len(t) /\ (events \o t)[j] = t[j - Len(events)]
  BY <1>1, Joined
<1>3. Len(events) \in Nat /\ Len(t) \in Nat
  BY <1>1
<1>4. /\ Len(events') = Len(events) + Len(t)
      /\ \A j \in 1 .. Len(events) : events'[j] = events[j]
      /\ \A j \in 1 .. Len(t) : events'[Len(events) + j] = t[j]
      /\ \A j \in Len(events) + 1 .. Len(events) + Len(t) :
           j - Len(events) \in 1 .. Len(t) /\ events'[j] = t[j - Len(events)]
  BY <1>1, <1>2
<1>. QED
  BY <1>3, <1>4

\* What the channel's first command leaves.
LEMMA RunQueued ==
  ASSUME TypeOK, Order, NEW c \in Calls, NEW app, Runs(c, app), apps'[c] = Tail(apps[c])
  PROVE  /\ Head(apps[c]).app = app /\ file[c] = 0 /\ state[c] = "up"
         /\ apps[c] \in Seq(Command) /\ apps[c] # <<>>
         /\ Queued(After(node[c], Head(apps[c])), apps'[c])
         /\ Rests(node[c], apps[c]) =>
              /\ Rests(node[c], apps'[c]) /\ After(node[c], Head(apps[c])) = node[c]
              /\ app # "playback"
         /\ app = "playback" => Head(apps[c]).arg = node[c] /\ Rests(node[c], apps'[c])
         /\ app # "set" => After(node[c], Head(apps[c])) = node[c]
<1>1. /\ Head(apps[c]).app = app /\ file[c] = 0 /\ state[c] = "up" /\ apps[c] # <<>>
      /\ apps[c] \in Seq(Command) /\ Queued(node[c], apps[c])
  BY DEF Runs, TypeOK, Order, ChannelOrder
<1>. DEFINE s == apps[c]
            n == node[c]
<1>2. /\ Queued(After(n, Head(s)), Tail(s))
      /\ Rests(n, s) => Rests(n, Tail(s)) /\ After(n, Head(s)) = n /\ Head(s).app # "playback"
      /\ Head(s).app = "playback" => Head(s).arg = n /\ Rests(n, Tail(s))
  <2>1. s \in Seq(Command) /\ s # <<>> /\ Queued(n, s)
    BY <1>1
  <2>. HIDE DEF s, n
  <2>. QED
    BY <2>1, QueuedTail, Zenon
<1>. QED
  BY <1>1, <1>2 DEF After

LEMMA MovedOrder ==
  ASSUME TypeOK, LookupInv, Order, NEW c \in Calls, NEW t, Moves(c, t)
  PROVE  Order'
<1>1. Reports(c, t)
  BY DEF Moves
<1>2. \A d \in Calls \ {c} : ChannelOrder(d)' /\ Arrived(d)'
  <2>1. ASSUME NEW d \in Calls \ {c} PROVE ChannelOrder(d)'
    BY <1>1, OrderNext DEF Order, ChannelOrder, Reports
  <2>2. ASSUME NEW d \in Calls \ {c} PROVE Arrived(d)'
    <3>1. \A i \in 1 .. Len(events') :
            \/ i \in 1 .. Len(events) /\ events'[i] = events[i]
            \/ i - Len(events) \in 1 .. Len(t) /\ events'[i] = t[i - Len(events)]
      BY <1>1, ReportedEvents, Zenon
    <3>. QED
      BY <1>1, <3>1 DEF Order, Arrived, Reports
  <2>. QED
    BY <2>1, <2>2
<1>3. /\ Queued(node[c], apps[c])
      /\ file[c] # 0 => file[c] = node[c] /\ Rests(node[c], apps[c])
      /\ state[c] # "up" => apps[c] = <<>> /\ file[c] = 0
  BY DEF Order, ChannelOrder
<1>4. ChannelOrder(c)' /\ Arrived(c)'
  <2>1. CASE Arrives(c, t)
    BY <1>3, <2>1, OrderNext DEF Arrives, Arrived
  <2>2. CASE Proceeds(c, t)
    BY <2>2, RunQueued, OrderNext DEF Proceeds, Arrived
  <2>3. CASE Plays(c, t)
    BY <2>3, RunQueued, OrderNext DEF Plays, Arrived
  <2>4. CASE Stops(c, t)
    BY <1>3, <2>4, OrderNext DEF Stops, Arrived
  <2>5. CASE Says(c, t)
    BY <1>3, <2>5, OrderNext DEF Says, Arrived
  <2>6. CASE Leaves(c, t)
    BY <2>6, OrderNext, QueuedNothing DEF Leaves, Arrived
  <2>. QED
    BY <2>1, <2>2, <2>3, <2>4, <2>5, <2>6 DEF Moves
<1>. QED
  BY <1>2, <1>4 DEF Order

LEMMA SameOrder ==
  ASSUME Order, UNCHANGED <<events, channels>>
  PROVE  Order'
<1>1. UNCHANGED <<events, state, apps, node, file>>
  BY DEF channels
<1>2. \A c \in Calls : ChannelOrder(c)' /\ Arrived(c)'
  BY <1>1, OrderNext DEF Order, ChannelOrder, Arrived
<1>. QED
  BY <1>2 DEF Order

-----------------------------------------------------------------------------
(* Results that come in turn.                                              *)

\* e is evaluated at the node its channel is still at.
Waits(e) ==
  /\ Ready(e.call)
  /\ e.type # "stop" => apps[e.call] = <<>>
  /\ e.type \in Evaluated => e.node = node[e.call]

\* At most one event of each call waits to be evaluated, and it is in time.
Turns ==
  \A i \in 1 .. Len(events) : events[i].type # "logged" =>
    /\ Waits(events[i])
    /\ \A j \in 1 .. i - 1 :
         events[j].type # "logged" => events[j].call # events[i].call

\* What these say of the next state.
WaitsNext(e) ==
  /\ file'[e.call] = 0 /\ Rests(node'[e.call], apps'[e.call])
  /\ e.type # "stop" => apps'[e.call] = <<>>
  /\ e.type \in Evaluated => e.node = node'[e.call]

LEMMA TurnsNext ==
  Turns' <=>
    \A i \in 1 .. Len(events') : events'[i].type # "logged" =>
      /\ WaitsNext(events'[i])
      /\ \A j \in 1 .. i - 1 :
           events'[j].type # "logged" => events'[j].call # events'[i].call
BY Zenon DEF Turns, WaitsNext, Waits, Evaluated, Ready, Rests, IsSet, IsPlayback

\* What waits is handled in time.
LEMMA TurnsTimely ==
  ASSUME TypeOK, LookupInv, Turns, NEW e, NEW s, Handled(e, s)
  PROVE  Timely(e, s)
<1>1. /\ e \in Event /\ Len(events) \in Nat \ {0} /\ e = events[1] /\ e.call \in Calls
  BY HandledLeaves
<1>2. CASE e.type = "logged"
  <2>1. s = <<>>
    BY <1>2 DEF Handled, Parks, StopsPlaying, Ignores, Keeps, AnswersAsr, AnswersSpeech
  <2>. QED
    BY <2>1 DEF Timely
<1>3. CASE e.type # "logged"
  <2>1. Waits(e) /\ 1 \in 1 .. Len(events)
    BY <1>1, <1>3 DEF Turns
  <2>2. CASE e.type = "park"
    BY <2>1, <2>2
       DEF Timely, Waits, Ready, Handled, Parks, StopsPlaying, Ignores, Keeps, AnswersAsr,
           AnswersSpeech
  <2>3. CASE e.type # "park"
    <3>1. e.type \in Evaluated
      BY <1>1, <1>3, <2>3 DEF Event, Evaluated
    <3>2. node[e.call] # 0
      <4>1. EventMarked(1)
        BY <2>1 DEF LookupInv
      <4>. QED
        BY <1>1, <3>1, <4>1 DEF EventMarked
    <3>3. NodeAt(e) = node[e.call]
      BY <2>1, <3>1, <3>2 DEF Waits, NodeAt
    <3>. QED
      BY <2>1, <2>3, <3>3 DEF Timely, Waits
  <2>. QED
    BY <2>2, <2>3
<1>. QED
  BY <1>2, <1>3

LEMMA HandledTurns ==
  ASSUME TypeOK, Turns, NEW e, NEW s, Handled(e, s)
  PROVE  Turns'
<1>. DEFINE c == e.call
<1>1. /\ e \in Event /\ c \in Calls /\ Len(events) \in Nat \ {0} /\ e = events[1]
      /\ Len(events') = Len(events) - 1
      /\ \A i \in 1 .. Len(events') : i + 1 \in 1 .. Len(events) /\ events'[i] = events[i + 1]
      /\ state' = state /\ node' = node /\ file' = file
      /\ \A d \in Calls : d # c => apps'[d] = apps[d]
      /\ state[c] # "up" => apps'[c] = apps[c]
      /\ state[c] = "up" => apps'[c] = apps[c] \o s
      /\ apps[c] \in Seq(Command)
  BY HandledLeaves
<1>2. e.type = "logged" => s = <<>>
  BY DEF Handled, Parks, StopsPlaying, Ignores, Keeps, AnswersAsr, AnswersSpeech
<1>. HIDE DEF c
<1>3. e.type = "logged" => apps'[c] = apps[c]
  <2>1. s = <<>> => apps[c] \o s = apps[c]
    BY <1>1, ConcatEmptySeq
  <2>. QED
    BY <1>1, <1>2, <2>1, Zenon
<1>4. \A i \in 1 .. Len(events) : events[i].call \in Calls
  <2>1. \A i \in 1 .. Len(events) : events[i] \in Event
    BY ElementOfSeq, Zenon DEF TypeOK
  <2>. QED
    BY <2>1 DEF Event
<1>5. ASSUME NEW i \in 1 .. Len(events'), events'[i].type # "logged"
      PROVE  /\ WaitsNext(events'[i])
             /\ \A j \in 1 .. i - 1 :
                  events'[j].type # "logged" => events'[j].call # events'[i].call
  <2>1. i + 1 \in 1 .. Len(events) /\ events'[i] = events[i + 1] /\ 1 \in 1 .. (i + 1) - 1
    BY <1>1
  <2>2. Waits(events[i + 1])
        /\ \A j \in 1 .. (i + 1) - 1 :
             events[j].type # "logged" => events[j].call # events[i + 1].call
    BY <1>5, <2>1 DEF Turns
  <2>3. apps'[events[i + 1].call] = apps[events[i + 1].call]
    <3>1. CASE e.type = "logged"
      BY <1>1, <1>3, <1>4, <2>1, <3>1
    <3>2. CASE e.type # "logged"
      <4>1. events[i + 1].call # c
        BY <1>1, <2>1, <2>2, <3>2 DEF c
      <4>. QED
        BY <1>1, <1>4, <2>1, <4>1
    <3>. QED
      BY <3>1, <3>2
  <2>4. WaitsNext(events[i + 1])
    <3>. DEFINE x == events[i + 1]
    <3>1. Waits(x) /\ apps'[x.call] = apps[x.call] /\ node'[x.call] = node[x.call]
          /\ file'[x.call] = file[x.call]
      BY <1>1, <2>2, <2>3
    <3>. QED
      BY <3>1 DEF Waits, WaitsNext, Ready
  <2>5. \A j \in 1 .. i - 1 : /\ j \in 1 .. Len(events') /\ j + 1 \in 1 .. (i + 1) - 1
                              /\ events'[j] = events[j + 1]
    BY <1>1
  <2>. QED
    BY <2>1, <2>2, <2>4, <2>5
<1>. QED
  BY <1>5, TurnsNext

LEMMA MovedTurns ==
  ASSUME TypeOK, LookupInv, Order, InTurn, Turns, NEW c \in Calls, NEW t, Moves(c, t)
  PROVE  Turns'
<1>1. Reports(c, t)
  BY DEF Moves
<1>2. /\ Len(events) \in Nat /\ Len(t) \in Nat /\ Len(events') = Len(events) + Len(t)
      /\ \A i \in 1 .. Len(events) : i \in 1 .. Len(events') /\ events'[i] = events[i]
      /\ \A i \in 1 .. Len(events') :
           \/ i \in 1 .. Len(events) /\ events'[i] = events[i]
           \/ /\ i > Len(events) /\ i - Len(events) \in 1 .. Len(t)
              /\ events'[i] = t[i - Len(events)]
  BY <1>1, ReportedEvents, Zenon
<1>3. \A i \in 1 .. Len(events) : events[i].call \in Calls
  <2>1. \A i \in 1 .. Len(events) : events[i] \in Event
    BY ElementOfSeq, Zenon DEF TypeOK
  <2>. QED
    BY <2>1 DEF Event
\* What is in the queue goes on waiting, what is reported waits alone.
<1>4. /\ \A i \in 1 .. Len(events) :
           events[i].type # "logged" /\ events[i].call = c => WaitsNext(events[i])
      /\ \A k \in 1 .. Len(t) : t[k].type # "logged" =>
           /\ WaitsNext(t[k]) /\ k = 1
           /\ \A i \in 1 .. Len(events) : events[i].type # "logged" => events[i].call # c
  <2>1. /\ file[c] # 0 => file[c] = node[c] /\ Rests(node[c], apps[c])
        /\ state[c] # "up" => apps[c] = <<>> /\ file[c] = 0
        /\ state[c] = "new" => \A i \in 1 .. Len(events) : events[i].call # c
    BY DEF Order, ChannelOrder, Arrived
  <2>2. \A i \in 1 .. Len(events) : events[i].type # "logged" /\ events[i].call = c =>
          /\ file[c] = 0 /\ Rests(node[c], apps[c])
          /\ events[i].type # "stop" => apps[c] = <<>>
          /\ events[i].type \in Evaluated => events[i].node = node[c]
    BY DEF Turns, Waits, Ready
  <2>3. \A k \in 1 .. Len(t) : t[k].call = c
    BY <1>1 DEF Reports
  <2>4. \A type : /\ Ev(type, c).type = type /\ Ev(type, c).node = node[c]
                  /\ Ev(type, c).call = c
    BY DEF Ev
  <2>5. CASE Arrives(c, t)
    <3>1. /\ state[c] = "new" /\ apps'[c] = apps[c] /\ node'[c] = node[c] /\ file'[c] = file[c]
          /\ Len(t) = 1 /\ t[1].type = "park"
      BY <2>4, <2>5 DEF Arrives
    <3>2. Rests(node[c], <<>>)
      BY QueuedNothing
    <3>. QED
      BY <2>1, <2>3, <3>1, <3>2 DEF WaitsNext, Evaluated
  <2>6. CASE Proceeds(c, t)
    <3>1. Len(t) = 0
      BY <2>6 DEF Proceeds
    <3>. QED
      BY <2>2, <2>6, <3>1, RunQueued DEF Proceeds, WaitsNext
  <2>7. CASE Plays(c, t)
    <3>1. Len(t) = 1 /\ t[1].type = "logged"
      BY <2>4, <2>7 DEF Plays
    <3>2. \A i \in 1 .. Len(events) : events[i].type # "logged" => events[i].call # c
      BY <2>2, <2>7, RunQueued DEF Plays
    <3>. QED
      BY <3>1, <3>2
  <2>8. CASE Stops(c, t)
    <3>1. Len(t) = 1 /\ t[1].type = "stop" /\ t[1].node = node[c]
      BY <2>4, <2>8 DEF Stops
    <3>. QED
      BY <2>1, <2>2, <2>3, <2>8, <3>1 DEF Stops, WaitsNext
  <2>9. CASE Says(c, t)
    <3>1. /\ Len(t) = 1 /\ t[1].node = node[c] /\ file[c] = 0 /\ apps[c] = <<>>
          /\ c \notin Awaited
      BY <2>9 DEF Says, InTurn
    <3>2. \A i \in 1 .. Len(events) : events[i].call # c
      BY <3>1 DEF Awaited, TypeOK
    <3>3. Rests(node[c], <<>>)
      BY QueuedNothing
    <3>. QED
      BY <2>3, <2>9, <3>1, <3>2, <3>3 DEF Says, WaitsNext
  <2>10. CASE Leaves(c, t)
    <3>1. /\ apps'[c] = <<>> /\ node'[c] = node[c] /\ file'[c] = 0
          /\ \A k \in 1 .. Len(t) : t[k].type # "logged" =>
               k = 1 /\ t[k].type = "stop" /\ t[k].node = node[c] /\ file[c] # 0
      BY <2>4, <2>10 DEF Leaves
    <3>2. Rests(node[c], <<>>)
      BY QueuedNothing
    <3>. QED
      BY <2>2, <2>3, <3>1, <3>2 DEF WaitsNext
  <2>. QED
    BY <2>5, <2>6, <2>7, <2>8, <2>9, <2>10 DEF Moves
<1>5. \A i \in 1 .. Len(events) : events[i].type # "logged" => WaitsNext(events[i])
  <2>1. ASSUME NEW i \in 1 .. Len(events), events[i].type # "logged", events[i].call # c
        PROVE  WaitsNext(events[i])
    <3>1. LET d == events[i].call IN
            apps'[d] = apps[d] /\ node'[d] = node[d] /\ file'[d] = file[d]
      BY <1>1, <1>3, <2>1 DEF Reports
    <3>. QED
      BY <2>1, <3>1 DEF Turns, Waits, WaitsNext, Ready
  <2>. QED
    BY <1>4, <2>1
<1>6. ASSUME NEW i \in 1 .. Len(events'), events'[i].type # "logged"
      PROVE  /\ WaitsNext(events'[i])
             /\ \A j \in 1 .. i - 1 :
                  events'[j].type # "logged" => events'[j].call # events'[i].call
  <2>1. CASE i \in 1 .. Len(events)
    <3>1. \A j \in 1 .. i - 1 : j \in 1 .. Len(events)
      BY <2>1, <1>2
    <3>. QED
      BY <1>2, <1>5, <1>6, <2>1, <3>1 DEF Turns
  <2>2. CASE i - Len(events) \in 1 .. Len(t) /\ events'[i] = t[i - Len(events)]
    <3>1. /\ WaitsNext(events'[i]) /\ i - Len(events) = 1 /\ events'[i].call = c
          /\ \A j \in 1 .. Len(events) : events[j].type # "logged" => events[j].call # c
      BY <1>1, <1>4, <1>6, <2>2 DEF Reports
    <3>2. \A j \in 1 .. i - 1 : j \in 1 .. Len(events) /\ events'[j] = events[j]
      BY <1>2, <3>1
    <3>. QED
      BY <3>1, <3>2
  <2>. QED
    BY <1>2, <2>1, <2>2
<1>. QED
  BY <1>6, TurnsNext

LEMMA SameTurns ==
  ASSUME Turns, UNCHANGED <<events, channels>>
  PROVE  Turns'
BY TurnsNext DEF Turns, Waits, WaitsNext, Ready, channels

-----------------------------------------------------------------------------
(* One call, gated by gIsAsr.                                              *)

\* Events of this type are under way; e comes from where c is, or does not say.
Under(type) == \E i \in 1 .. Len(events) : events[i].type = type
Here(e, c) == e.node \in {0, node[c]}

\* The recogniser is not started before the recording.
StartsLate(c) ==
  file[c] # 0 \/ \A i \in 1 .. Len(apps[c]) : apps[c][i].app = "start_asr" =>
                   \E j \in 1 .. i - 1 : IsPlayback(apps[c], j)

\* Until the first recording is over, no result comes.
Opening(c) ==
  /\ ~ gIsAsr /\ ~ asr[c] /\ ~ Under("asr") /\ ~ Under("stop") /\ StartsLate(c)
  /\ Under("park") => apps[c] = <<>> /\ file[c] = 0
  /\ \A i, j \in 1 .. Len(events) :
       events[i].type = "park" /\ events[j].type = "park" => i = j

\* A PLAYBACK_STOP is under way: results before it are not evaluated.
StopAt(j, c) ==
  /\ events[j].type = "stop" /\ events[j].node = node[c] /\ node[c] # 0
  /\ \A i \in 1 .. Len(events) :
       /\ events[i].type = "stop" => i = j
       /\ i > j => Here(events[i], c)
       /\ i < j /\ events[i].type = "asr" => gIsAsr
Stopped(c) == Ready(c) /\ \E j \in 1 .. Len(events) : StopAt(j, c)

\* A result was evaluated; no other is until the next recording is over.
Deaf(c) == gIsAsr /\ ~ Under("stop")

\* A result may be evaluated, at the node the channel is at.
Open(c) ==
  /\ ~ gIsAsr /\ ~ Under("stop") /\ nodeState = node[c] /\ node[c] # 0 /\ Ready(c)
  /\ \A i \in 1 .. Len(events) : Here(events[i], c)

Gated(c) ==
  /\ state[c] = "new" => ~ gIsAsr /\ ~ asr[c]
  /\ state[c] = "up" =>
       /\ ~ Under("speech")
       /\ Opening(c) \/ (~ Under("park") /\ (Stopped(c) \/ Deaf(c) \/ Open(c)))

Gate == \A c \in Calls : Gated(c)

\* The handlers of a single call, of the recogniser that gIsAsr gates.
LEMMA GateTimely ==
  ASSUME TypeOK, LookupInv, Alone, Gate, NEW e, NEW s, Handled(e, s), state[e.call] = "up"
  PROVE  Timely(e, s)
<1>. DEFINE c == e.call
<1>1. /\ e \in Event /\ Len(events) \in Nat \ {0} /\ e = events[1] /\ c \in Calls
      /\ 1 \in 1 .. Len(events)
  BY HandledLeaves
<1>2. /\ ~ Under("speech")
      /\ Opening(c) \/ (~ Under("park") /\ (Stopped(c) \/ Deaf(c) \/ Open(c)))
  BY <1>1 DEF Gate, Gated
<1>3. e.type # "speech"
  BY <1>1, <1>2 DEF Under
<1>4. CASE Keeps(e, s) \/ Ignores(e, s)
  <2>1. s = <<>> \/ s = <<Do("stop_asr")>>
    BY <1>4 DEF Keeps, Ignores
  <2>2. \A i \in 1 .. Len(s) : s[i].app \in Neutral
    BY <2>1 DEF Do, Neutral
  <2>. QED
    BY <2>2 DEF Timely
<1>5. CASE Parks(e, s)
  <2>1. Under("park")
    BY <1>1, <1>5 DEF Parks, Under
  <2>. QED
    BY <1>2, <1>5, <2>1 DEF Opening, Timely
<1>6. CASE StopsPlaying(e, s) \/ AnswersAsr(e, s)
  <2>1. /\ e.type = "stop" \/ (e.type = "asr" /\ ~ gIsAsr)
        /\ e.type # "park"
    BY <1>6 DEF StopsPlaying, AnswersAsr, Heard
  <2>2. ~ Opening(c)
    BY <1>1, <2>1 DEF Opening, Under
  <2>3. CASE Stopped(c)
    <3>1. PICK j \in 1 .. Len(events) : StopAt(j, c)
      BY <2>3 DEF Stopped
    <3>2. j = 1 /\ e.node = node[c] /\ node[c] # 0
      BY <1>1, <2>1, <3>1 DEF StopAt
    <3>. QED
      BY <2>1, <2>3, <3>2 DEF Stopped, Timely, NodeAt
  <2>4. CASE Open(c)
    BY <1>1, <2>1, <2>4 DEF Open, Timely, NodeAt, Here
  <2>5. CASE Deaf(c)
    BY <1>1, <2>1, <2>5 DEF Deaf, Under
  <2>. QED
    BY <1>2, <2>2, <2>3, <2>4, <2>5
<1>. QED
  BY <1>3, <1>4, <1>5, <1>6 DEF Handled, AnswersSpeech

\* What these say of the next state.
UnderNext(type) == \E i \in 1 .. Len(events') : events'[i].type = type
StopAtNext(j, c) ==
  /\ events'[j].type = "stop" /\ events'[j].node = node'[c] /\ node'[c] # 0
  /\ \A i \in 1 .. Len(events') :
       /\ events'[i].type = "stop" => i = j
       /\ i > j => events'[i].node \in {0, node'[c]}
       /\ i < j /\ events'[i].type = "asr" => gIsAsr'
ReadyNext(c) == file'[c] = 0 /\ Rests(node'[c], apps'[c])
OpeningNext(c) ==
  /\ ~ gIsAsr' /\ ~ asr'[c] /\ ~ UnderNext("asr") /\ ~ UnderNext("stop")
  /\ file'[c] # 0 \/ \A i \in 1 .. Len(apps'[c]) : apps'[c][i].app = "start_asr" =>
                       \E j \in 1 .. i - 1 : IsPlayback(apps'[c], j)
  /\ UnderNext("park") => apps'[c] = <<>> /\ file'[c] = 0
  /\ \A i, j \in 1 .. Len(events') :
       events'[i].type = "park" /\ events'[j].type = "park" => i = j
StoppedNext(c) == ReadyNext(c) /\ \E j \in 1 .. Len(events') : StopAtNext(j, c)
DeafNext(c) == gIsAsr' /\ ~ UnderNext("stop")
OpenNext(c) ==
  /\ ~ gIsAsr' /\ ~ UnderNext("stop") /\ nodeState' = node'[c] /\ node'[c] # 0 /\ ReadyNext(c)
  /\ \A i \in 1 .. Len(events') : events'[i].node \in {0, node'[c]}

LEMMA GateNext ==
  ASSUME NEW c
  PROVE  Gated(c)' <=>
           /\ state'[c] = "new" => ~ gIsAsr' /\ ~ asr'[c]
           /\ state'[c] = "up" =>
                /\ ~ UnderNext("speech")
                /\ \/ OpeningNext(c)
                   \/ ~ UnderNext("park") /\ (StoppedNext(c) \/ DeafNext(c) \/ OpenNext(c))
BY Zenon DEF Gated, Under, Opening, StartsLate, Stopped, StopAt, Deaf, Open, Ready, Here,
             Rests, IsSet, IsPlayback, UnderNext, OpeningNext, StoppedNext, StopAtNext,
             DeafNext, OpenNext, ReadyNext

LEMMA HandledGate ==
  ASSUME TypeOK, LookupInv, Order, Alone, Gate, NEW e, NEW s, Handled(e, s)
  PROVE  Gate'
<1>. DEFINE c == e.call
<1>1. /\ e \in Event /\ c \in Calls /\ Len(events) \in Nat \ {0} /\ e = events[1]
      /\ Len(events') = Len(events) - 1
      /\ \A i \in 1 .. Len(events') : i + 1 \in 1 .. Len(events) /\ events'[i] = events[i + 1]
      /\ state' = state /\ node' = node /\ file' = file /\ asr' = asr
      /\ nodeState' = NodeAt(e)
      /\ state[c] = "up" => apps'[c] = apps[c] \o s
      /\ s \in Seq(Command) /\ apps[c] \in Seq(Command)
      /\ 1 \in 1 .. Len(events)
  BY HandledLeaves
<1>2. \A d \in Calls : d = c
  BY <1>1 DEF Alone
<1>3. \A type : UnderNext(type) => Under(type)
  BY <1>1 DEF UnderNext, Under
<1>. HIDE DEF c
<1>4. state[c] # "new"
  BY <1>1 DEF Order, Arrived, c
<1>5. ASSUME state[c] = "up"
      PROVE  \/ OpeningNext(c)
             \/ ~ UnderNext("park") /\ (StoppedNext(c) \/ DeafNext(c) \/ OpenNext(c))
  <2>1. /\ ~ Under("speech")
        /\ Opening(c) \/ (~ Under("park") /\ (Stopped(c) \/ Deaf(c) \/ Open(c)))
    BY <1>1, <1>5 DEF Gate, Gated
  <2>2. e.type # "speech" /\ Under(e.type)
    BY <1>1, <2>1 DEF Under
  <2>3. Queued(node[c], apps[c]) /\ apps'[c] = apps[c] \o s
    BY <1>1, <1>5 DEF Order, ChannelOrder
  <2>4. ASSUME \A i \in 1 .. Len(s) : s[i].app \notin {"set", "playback"}, Ready(c)
        PROVE  ReadyNext(c)
    <3>. DEFINE u == apps[c] \o s
    <3>1. /\ u \in Seq(Command) /\ Len(apps[c]) \in Nat /\ Len(s) \in Nat
          /\ Len(u) = Len(apps[c]) + Len(s)
          /\ \A i \in 1 .. Len(u) :
               \/ i \in 1 .. Len(apps[c]) /\ u[i] = apps[c][i]
               \/ i > Len(apps[c]) /\ i - Len(apps[c]) \in 1 .. Len(s)
                  /\ u[i] = s[i - Len(apps[c])]
      BY <1>1, PutBehind
    <3>2. apps'[c] = u
      BY <2>3
    <3>. HIDE DEF u
    <3>3. Rests(node[c], apps[c]) /\ file[c] = 0
      BY <2>4 DEF Ready
    <3>4. Rests(node[c], u)
      BY <2>4, <3>1, <3>3 DEF Rests, IsSet, IsPlayback
    <3>. QED
      BY <1>1, <3>2, <3>3, <3>4 DEF ReadyNext
  <2>5. CASE Opening(c)
    <3>1. e.type \in {"park", "logged"}
      BY <1>1, <2>2, <2>5 DEF Event, Opening
    <3>2. /\ ~ gIsAsr' /\ ~ asr'[c] /\ ~ UnderNext("asr") /\ ~ UnderNext("stop")
          /\ \A i, j \in 1 .. Len(events') :
               events'[i].type = "park" /\ events'[j].type = "park" => i = j
      <4>1. gIsAsr' = gIsAsr
        BY <3>1 DEF Handled, Parks, StopsPlaying, Ignores, Keeps, AnswersAsr, AnswersSpeech
      <4>2. ASSUME NEW i \in 1 .. Len(events'), NEW j \in 1 .. Len(events'),
                   events'[i].type = "park", events'[j].type = "park"
            PROVE  i = j
        BY <1>1, <2>5, <4>2 DEF Opening
      <4>. QED
        BY <1>1, <1>3, <2>5, <4>1, <4>2 DEF Opening
    <3>3. CASE e.type = "park"
      <4>1. s = ParkCommands /\ apps[c] = <<>>
        BY <2>2, <2>5, <3>3
           DEF Opening, Handled, Parks, StopsPlaying, Ignores, Keeps, AnswersAsr, AnswersSpeech
      <4>2. apps'[c] = ParkCommands
        BY <1>1, <2>3, <4>1
      <4>3. ~ UnderNext("park")
        <5>1. ASSUME NEW i \in 1 .. Len(events'), events'[i].type = "park" PROVE FALSE
          <6>1. i + 1 \in 1 .. Len(events) /\ events[i + 1].type = "park" /\ i + 1 # 1
            BY <1>1, <5>1
          <6>. QED
            BY <1>1, <2>5, <3>3, <6>1 DEF Opening
        <5>. QED
          BY <5>1 DEF UnderNext
      <4>. QED
        BY <3>2, <4>2, <4>3, QueuedPark, Zenon DEF OpeningNext
    <3>4. CASE e.type = "logged"
      <4>1. s = <<>>
        BY <3>4 DEF Handled, Parks, StopsPlaying, Ignores, Keeps, AnswersAsr, AnswersSpeech
      <4>2. apps'[c] = apps[c]
        BY <1>1, <2>3, <4>1, ConcatEmptySeq
      <4>. QED
        BY <1>1, <1>3, <2>5, <3>2, <4>2, Zenon DEF OpeningNext, Opening, StartsLate
    <3>. QED
      BY <3>1, <3>3, <3>4
  <2>6. CASE ~ Under("park") /\ (Stopped(c) \/ Deaf(c) \/ Open(c))
    <3>1. ~ UnderNext("park") /\ e.type \in {"stop", "asr", "logged"}
      BY <1>1, <1>3, <2>2, <2>6 DEF Event
    <3>2. CASE Stopped(c)
      <4>1. PICK j \in 1 .. Len(events) : StopAt(j, c)
        BY <3>2 DEF Stopped
      <4>2. CASE e.type = "stop"
        <5>1. j = 1
          BY <1>1, <4>1, <4>2 DEF StopAt
        <5>2. gIsAsr' = FALSE /\ \A i \in 1 .. Len(s) : s[i].app \notin {"set", "playback"}
          <6>1. gIsAsr' = FALSE /\ (s = <<>> \/ s = <<Do("hangup")>>)
            BY <4>2
               DEF Handled, Parks, StopsPlaying, Ignores, Keeps, AnswersAsr, AnswersSpeech
          <6>. QED
            BY <6>1 DEF Do
        <5>3. nodeState' = node'[c] /\ node'[c] # 0
          BY <1>1, <4>1, <5>1 DEF StopAt, NodeAt
        <5>4. \A i \in 1 .. Len(events') :
                events'[i].type # "stop" /\ events'[i].node \in {0, node'[c]}
          <6>1. \A i \in 1 .. Len(events') : i + 1 > 1
            OBVIOUS
          <6>. QED
            BY <1>1, <4>1, <5>1, <6>1 DEF StopAt, Here
        <5>5. OpenNext(c)
          BY <2>4, <3>2, <5>2, <5>3, <5>4 DEF OpenNext, UnderNext, Stopped
        <5>. QED
          BY <3>1, <5>5
      <4>3. CASE e.type # "stop"
        <5>1. j > 1 /\ j - 1 \in 1 .. Len(events') /\ events'[j - 1] = events[j]
          BY <1>1, <4>1, <4>3 DEF StopAt
        <5>2. gIsAsr' = gIsAsr /\ \A i \in 1 .. Len(s) : s[i].app \notin {"set", "playback"}
          <6>1. e.type = "asr" => gIsAsr
            BY <1>1, <4>1, <5>1 DEF StopAt
          <6>2. gIsAsr' = gIsAsr /\ (s = <<>> \/ s = <<Do("stop_asr")>>)
            BY <3>1, <4>3, <6>1
               DEF Handled, Parks, StopsPlaying, Ignores, Keeps, AnswersAsr, AnswersSpeech, Heard
          <6>. QED
            BY <6>2 DEF Do
        <5>3. ASSUME NEW i \in 1 .. Len(events')
              PROVE  /\ events'[i].type = "stop" => i = j - 1
                     /\ i > j - 1 => events'[i].node \in {0, node'[c]}
                     /\ i < j - 1 /\ events'[i].type = "asr" => gIsAsr'
          <6>1. i + 1 \in 1 .. Len(events) /\ events'[i] = events[i + 1]
                /\ (i + 1 = j => i = j - 1) /\ (i > j - 1 => i + 1 > j)
                /\ (i < j - 1 => i + 1 < j)
            BY <1>1, <5>1
          <6>. QED
            BY <1>1, <4>1, <5>2, <6>1 DEF StopAt, Here
        <5>4. StopAtNext(j - 1, c)
          BY <1>1, <4>1, <5>1, <5>3 DEF StopAtNext, StopAt
        <5>5. StoppedNext(c)
          BY <2>4, <3>2, <5>1, <5>2, <5>4 DEF StoppedNext, Stopped
        <5>. QED
          BY <3>1, <5>5
      <4>. QED
        BY <4>2, <4>3
    <3>3. CASE Deaf(c)
      <4>1. e.type # "stop" /\ gIsAsr
        BY <2>2, <3>3 DEF Deaf
      <4>2. gIsAsr' = gIsAsr
        BY <3>1, <4>1
           DEF Handled, Parks, StopsPlaying, Ignores, Keeps, AnswersAsr, AnswersSpeech, Heard
      <4>. QED
        BY <1>3, <3>1, <3>3, <4>2 DEF Deaf, DeafNext
    <3>4. CASE Open(c)
      <4>1. e.type \in {"asr", "logged"}
        BY <2>2, <3>1, <3>4 DEF Open
      <4>2. CASE AnswersAsr(e, s)
        BY <1>3, <3>1, <3>4, <4>2 DEF AnswersAsr, DeafNext, Open
      <4>3. CASE ~ AnswersAsr(e, s)
        <5>1. gIsAsr' = gIsAsr /\ \A i \in 1 .. Len(s) : s[i].app \notin {"set", "playback"}
          <6>1. gIsAsr' = gIsAsr /\ (s = <<>> \/ s = <<Do("stop_asr")>>)
            BY <4>1, <4>3
               DEF Handled, Parks, StopsPlaying, Ignores, Keeps, AnswersSpeech
          <6>. QED
            BY <6>1 DEF Do
        <5>2. nodeState' = node'[c] /\ node'[c] # 0
          BY <1>1, <3>4 DEF Open, NodeAt, Here
        <5>3. \A i \in 1 .. Len(events') : events'[i].node \in {0, node'[c]}
          BY <1>1, <3>4 DEF Open, Here
        <5>4. OpenNext(c)
          BY <1>3, <2>4, <3>4, <5>1, <5>2, <5>3 DEF OpenNext, Open
        <5>. QED
          BY <3>1, <5>4
      <4>. QED
        BY <4>2, <4>3
    <3>. QED
      BY <2>6, <3>2, <3>3, <3>4
  <2>. QED
    BY <2>1, <2>5, <2>6
<1>6. Gated(c)'
  <2>1. state[c] = "up" => ~ UnderNext("speech")
    BY <1>1, <1>3 DEF Gate, Gated
  <2>. QED
    BY <1>1, <1>4, <1>5, <2>1, GateNext
<1>. QED
  BY <1>2, <1>6 DEF Gate

LEMMA MovedGate ==
  ASSUME TypeOK, LookupInv, Order, Alone, Gate, NEW c \in Calls, NEW t, Moves(c, t)
  PROVE  Gate'
<1>1. Reports(c, t) /\ gIsAsr' = gIsAsr /\ nodeState' = nodeState
  BY DEF Moves, Reports
<1>2. \A d \in Calls : d = c
  BY DEF Alone
<1>3. /\ Len(events) \in Nat /\ Len(t) \in Nat /\ Len(events') = Len(events) + Len(t)
      /\ \A i \in 1 .. Len(events) : i \in 1 .. Len(events') /\ events'[i] = events[i]
      /\ \A k \in 1 .. Len(t) : /\ Len(events) + k \in 1 .. Len(events')
                                /\ events'[Len(events) + k] = t[k]
      /\ \A i \in 1 .. Len(events') :
           \/ i \in 1 .. Len(events) /\ events'[i] = events[i]
           \/ /\ i > Len(events) /\ i - Len(events) \in 1 .. Len(t)
              /\ events'[i] = t[i - Len(events)]
  BY <1>1, ReportedEvents, Zenon
<1>4. \A type : UnderNext(type) <=>
        Under(type) \/ \E k \in 1 .. Len(t) : t[k].type = type
  BY <1>3 DEF UnderNext, Under
<1>5. \A i \in 1 .. Len(events) : events[i].call = c
  <2>1. \A i \in 1 .. Len(events) : events[i] \in Event
    BY ElementOfSeq, Zenon DEF TypeOK
  <2>. QED
    BY <1>2, <2>1 DEF Event
<1>6. \A type : Ev(type, c).type = type /\ Ev(type, c).node = node[c]
  BY DEF Ev
<1>7. /\ Queued(node[c], apps[c]) /\ apps[c] \in Seq(Command)
      /\ file[c] # 0 => file[c] = node[c] /\ Rests(node[c], apps[c])
      /\ state[c] # "up" => apps[c] = <<>> /\ file[c] = 0
      /\ state[c] = "new" => \A i \in 1 .. Len(events) : FALSE
  BY <1>5 DEF Order, ChannelOrder, Arrived, TypeOK
<1>8. state[c] = "up" =>
        /\ ~ Under("speech")
        /\ Opening(c) \/ (~ Under("park") /\ (Stopped(c) \/ Deaf(c) \/ Open(c)))
  BY DEF Gate, Gated
<1>9. CASE Arrives(c, t)
  <2>1. /\ state'[c] = "up" /\ Len(t) = 1 /\ t[1].type = "park" /\ ~ gIsAsr' /\ ~ asr'[c]
        /\ apps'[c] = <<>> /\ file'[c] = 0
    BY <1>1, <1>6, <1>7, <1>9 DEF Arrives, Gate, Gated
  <2>2. \A i \in 1 .. Len(events') : events'[i].type = "park" /\ i = 1
    BY <1>3, <1>7, <1>9, <2>1 DEF Arrives
  <2>3. OpeningNext(c) /\ ~ UnderNext("speech")
    BY <2>1, <2>2 DEF OpeningNext, UnderNext
  <2>. QED
    BY <1>2, <2>1, <2>3, GateNext DEF Gate
\* Nothing new comes: commands are run.
<1>10. ASSUME NEW app, Runs(c, app), apps'[c] = Tail(apps[c])
       PROVE  /\ Head(apps[c]).app = app /\ file[c] = 0 /\ state[c] = "up"
              /\ apps[c] # <<>>
              /\ Rests(node[c], apps[c]) =>
                   /\ Rests(node[c], apps'[c]) /\ After(node[c], Head(apps[c])) = node[c]
                   /\ app # "playback"
              /\ app = "playback" => Head(apps[c]).arg = node[c]
  BY <1>10, RunQueued
<1>11. CASE Proceeds(c, t)
  <2>1. /\ state'[c] = "up" /\ file'[c] = 0 /\ Len(t) = 0 /\ apps'[c] = Tail(apps[c])
        /\ node'[c] = After(node[c], Head(apps[c])) /\ file[c] = 0 /\ state[c] = "up"
        /\ apps[c] # <<>>
        /\ asr'[c] => asr[c] \/ Head(apps[c]).app = "start_asr"
        /\ Head(apps[c]).app # "playback"
        /\ Rests(node[c], apps[c]) =>
             Rests(node[c], apps'[c]) /\ node'[c] = node[c]
    BY <1>10, <1>11 DEF Proceeds
  <2>2. Len(events') = Len(events) /\ \A type : UnderNext(type) <=> Under(type)
    BY <1>3, <1>4, <2>1
  <2>3. Ready(c) => ReadyNext(c) /\ node'[c] = node[c]
    BY <2>1 DEF Ready, ReadyNext
  <2>4. CASE Opening(c)
    <3>1. \A i \in 1 .. Len(apps[c]) : apps[c][i].app = "start_asr" =>
            \E j \in 1 .. i - 1 : IsPlayback(apps[c], j)
      BY <2>1, <2>4 DEF Opening, StartsLate
    <3>2. /\ Len(apps[c]) \in Nat \ {0} /\ Len(apps'[c]) = Len(apps[c]) - 1
          /\ Head(apps[c]) = apps[c][1]
          /\ \A i \in 1 .. Len(apps'[c]) :
               i + 1 \in 1 .. Len(apps[c]) /\ apps'[c][i] = apps[c][i + 1]
      BY <1>7, <2>1, HeadTailProperties
    <3>3. Head(apps[c]).app # "start_asr"
      <4>1. 1 \in 1 .. Len(apps[c]) /\ \A j \in 1 .. 1 - 1 : FALSE
        BY <3>2
      <4>. QED
        BY <3>1, <3>2, <4>1
    <3>4. ASSUME NEW i \in 1 .. Len(apps'[c]), apps'[c][i].app = "start_asr"
          PROVE  \E j \in 1 .. i - 1 : IsPlayback(apps'[c], j)
      <4>1. i + 1 \in 1 .. Len(apps[c]) /\ apps[c][i + 1].app = "start_asr"
        BY <3>2, <3>4
      <4>2. PICK j \in 1 .. (i + 1) - 1 : IsPlayback(apps[c], j)
        BY <3>1, <4>1
      <4>3. j # 1
        BY <2>1, <3>2, <4>2 DEF IsPlayback
      <4>4. j - 1 \in 1 .. i - 1 /\ j - 1 \in 1 .. Len(apps'[c]) /\ (j - 1) + 1 = j
        BY <4>2, <4>3
      <4>5. IsPlayback(apps'[c], j - 1)
        BY <3>2, <4>2, <4>4 DEF IsPlayback
      <4>. QED
        BY <4>4, <4>5
    <3>5. ~ Under("park")
      BY <2>1, <2>4 DEF Opening
    <3>6. \A i, j \in 1 .. Len(events') :
            events'[i].type = "park" /\ events'[j].type = "park" => i = j
      BY <2>2, <3>5 DEF UnderNext
    <3>7. OpeningNext(c)
      BY <1>1, <2>1, <2>2, <2>4, <3>3, <3>4, <3>5, <3>6, Zenon DEF OpeningNext, Opening
    <3>. QED
      BY <1>2, <1>8, <2>1, <2>2, <3>7, GateNext DEF Gate
  <2>5. CASE Stopped(c)
    <3>1. PICK j \in 1 .. Len(events) : StopAt(j, c)
      BY <2>5 DEF Stopped
    <3>2. StopAtNext(j, c) /\ j \in 1 .. Len(events')
      BY <1>1, <1>3, <2>2, <2>3, <2>5, <3>1 DEF StopAt, StopAtNext, Stopped, Here
    <3>3. StoppedNext(c)
      BY <2>3, <2>5, <3>2 DEF Stopped, StoppedNext
    <3>4. ~ Under("park") \/ Opening(c)
      BY <1>8, <2>1
    <3>. QED
      BY <1>2, <1>8, <2>1, <2>2, <2>4, <3>3, <3>4, GateNext DEF Gate
  <2>6. CASE Deaf(c)
    BY <1>1, <1>2, <1>8, <2>1, <2>2, <2>4, <2>6, GateNext DEF Gate, Deaf, DeafNext
  <2>7. CASE Open(c)
    <3>1. OpenNext(c)
      BY <1>1, <1>3, <2>2, <2>3, <2>7 DEF Open, OpenNext, Here
    <3>. QED
      BY <1>2, <1>8, <2>1, <2>2, <2>4, <3>1, GateNext DEF Gate
  <2>. QED
    BY <1>8, <2>1, <2>4, <2>5, <2>6, <2>7
<1>12. CASE Plays(c, t)
  <2>1. /\ state'[c] = "up" /\ state[c] = "up" /\ Len(t) = 1 /\ t[1].type = "logged"
        /\ asr'[c] = asr[c] /\ apps[c] # <<>> /\ ~ Rests(node[c], apps[c])
        /\ file'[c] = node[c]
    BY <1>6, <1>10, <1>12 DEF Plays
  <2>2. node[c] # 0
    BY <1>12, RunMarked DEF Plays
  <2>3. \A type : type # "logged" => (UnderNext(type) <=> Under(type))
    BY <1>4, <2>1
  <2>4. CASE Opening(c)
    <3>1. ~ UnderNext("park")
      BY <2>1, <2>3, <2>4 DEF Opening
    <3>2. OpeningNext(c)
      BY <1>1, <2>1, <2>2, <2>3, <2>4, <3>1 DEF OpeningNext, Opening, UnderNext
    <3>. QED
      BY <1>2, <1>8, <2>1, <2>3, <3>2, GateNext DEF Gate
  <2>5. CASE ~ Opening(c)
    <3>1. Deaf(c) /\ ~ Under("park") /\ ~ Under("speech")
      BY <1>8, <2>1, <2>5 DEF Stopped, Open, Ready
    <3>2. DeafNext(c) /\ ~ UnderNext("park") /\ ~ UnderNext("speech")
      BY <1>1, <2>3, <3>1 DEF Deaf, DeafNext
    <3>. QED
      BY <1>2, <2>1, <3>2, GateNext DEF Gate
  <2>. QED
    BY <2>4, <2>5
<1>13. CASE Stops(c, t)
  <2>1. /\ state[c] = "up" /\ state'[c] = "up" /\ file[c] # 0 /\ file'[c] = 0
        /\ apps'[c] = apps[c] /\ node'[c] = node[c] /\ Len(t) = 1
        /\ t[1].type = "stop" /\ t[1].node = node[c]
    BY <1>6, <1>13 DEF Stops
  <2>2. node[c] # 0
    BY <2>1 DEF LookupInv, ChannelMarked
  <2>3. ReadyNext(c)
    BY <1>7, <2>1 DEF ReadyNext
  <2>4. ~ Under("park") /\ ~ Under("stop") /\ ~ Under("speech") /\ (gIsAsr \/ ~ Under("asr"))
    BY <1>8, <2>1 DEF Opening, Stopped, Deaf, Open, Ready
  <2>5. ~ UnderNext("park") /\ ~ UnderNext("speech")
    BY <1>4, <2>1, <2>4
  <2>. DEFINE j == Len(events) + 1
  <2>6. j \in 1 .. Len(events') /\ events'[j] = t[1] /\ Len(events') = j
    BY <1>3, <2>1
  <2>7. ASSUME NEW i \in 1 .. Len(events')
        PROVE  /\ events'[i].type = "stop" => i = j
               /\ i > j => events'[i].node \in {0, node'[c]}
               /\ i < j /\ events'[i].type = "asr" => gIsAsr'
    <3>1. i = j \/ (i \in 1 .. Len(events) /\ events'[i] = events[i])
      BY <1>3, <2>1
    <3>. QED
      BY <1>1, <2>4, <2>6, <3>1 DEF Under
  <2>8. StopAtNext(j, c)
    BY <2>1, <2>2, <2>6, <2>7 DEF StopAtNext
  <2>9. StoppedNext(c)
    BY <2>3, <2>6, <2>8 DEF StoppedNext
  <2>. QED
    BY <1>2, <2>1, <2>5, <2>9, GateNext DEF Gate
<1>14. CASE Says(c, t)
  <2>1. /\ state[c] = "up" /\ state'[c] = "up" /\ asr[c] /\ apps'[c] = apps[c]
        /\ node'[c] = node[c] /\ file'[c] = file[c] /\ Len(t) = 1
        /\ t[1].type = "asr" /\ t[1].node \in {0, node[c]}
    BY <1>14 DEF Says, Alone
  <2>2. ~ Opening(c) /\ ~ Under("park") /\ ~ Under("speech")
        /\ (Stopped(c) \/ Deaf(c) \/ Open(c))
    BY <1>8, <2>1 DEF Opening
  <2>3. ~ UnderNext("park") /\ ~ UnderNext("speech") /\ (UnderNext("stop") <=> Under("stop"))
    BY <1>4, <2>1, <2>2
  <2>4. Ready(c) => ReadyNext(c)
    BY <2>1 DEF Ready, ReadyNext
  <2>5. \A i \in 1 .. Len(events') :
          \/ i \in 1 .. Len(events) /\ events'[i] = events[i]
          \/ i = Len(events) + 1 /\ events'[i] = t[1]
    BY <1>3, <2>1
  <2>6. CASE Stopped(c)
    <3>1. PICK j \in 1 .. Len(events) : StopAt(j, c)
      BY <2>6 DEF Stopped
    <3>2. j \in 1 .. Len(events') /\ events'[j] = events[j] /\ j <= Len(events)
      BY <1>3, <3>1
    <3>3. ASSUME NEW i \in 1 .. Len(events')
          PROVE  /\ events'[i].type = "stop" => i = j
                 /\ i > j => events'[i].node \in {0, node'[c]}
                 /\ i < j /\ events'[i].type = "asr" => gIsAsr'
      <4>1. CASE i \in 1 .. Len(events) /\ events'[i] = events[i]
        BY <1>1, <2>1, <3>1, <4>1 DEF StopAt, Here
      <4>2. CASE i = Len(events) + 1 /\ events'[i] = t[1]
        BY <1>3, <2>1, <3>2, <4>2
      <4>. QED
        BY <2>5, <4>1, <4>2
    <3>4. StopAtNext(j, c)
      BY <2>1, <3>1, <3>2, <3>3 DEF StopAtNext, StopAt
    <3>5. StoppedNext(c)
      BY <2>4, <2>6, <3>2, <3>4 DEF StoppedNext, Stopped
    <3>. QED
      BY <1>2, <2>1, <2>3, <3>5, GateNext DEF Gate
  <2>7. CASE Deaf(c)
    BY <1>1, <1>2, <2>1, <2>3, <2>7, GateNext DEF Gate, Deaf, DeafNext
  <2>8. CASE Open(c)
    <3>1. \A i \in 1 .. Len(events') : events'[i].node \in {0, node'[c]}
      BY <2>1, <2>5, <2>8 DEF Open, Here
    <3>2. OpenNext(c)
      BY <1>1, <2>1, <2>3, <2>4, <2>8, <3>1 DEF OpenNext, Open
    <3>. QED
      BY <1>2, <2>1, <2>3, <3>2, GateNext DEF Gate
  <2>. QED
    BY <2>2, <2>6, <2>7, <2>8
<1>15. CASE Leaves(c, t)
  BY <1>2, <1>15, GateNext DEF Gate, Leaves
<1>. QED
  BY <1>9, <1>11, <1>12, <1>13, <1>14, <1>15 DEF Moves

LEMMA SameGate ==
  ASSUME Gate, UNCHANGED <<nodeState, gIsAsr, events, channels>>
  PROVE  Gate'
<1>1. ASSUME NEW c \in Calls PROVE Gated(c)'
  BY <1>1 DEF Gate, Gated, Under, Opening, StartsLate, Stopped, StopAt, Deaf, Open, Ready, Here,
              Rests, IsSet, IsPlayback, channels
<1>. QED
  BY <1>1 DEF Gate

-----------------------------------------------------------------------------
(* The theorems.                                                           *)

Served == TypeOK /\ LookupInv /\ Order /\ (InTurn => Turns) /\ (Alone => Gate)

LEMMA NextServed ==
  ASSUME InTurn \/ Alone
  PROVE  Served /\ [Next]_vars => Served'
<1>. SUFFICES ASSUME Served, [Next]_vars PROVE Served'
  OBVIOUS
<1>1. TypeOK /\ LookupInv /\ Order /\ (InTurn => Turns) /\ (Alone => Gate)
  BY DEF Served
<1>2. TypeOK' /\ LookupInv'
  BY <1>1, NextTypes, NextLookup
<1>3. ASSUME NEW e, NEW s, Handled(e, s)
      PROVE  Order' /\ (InTurn => Turns') /\ (Alone => Gate')
  BY <1>1, <1>3, TurnsTimely, GateTimely, HandledOrder, HandledTurns, HandledGate
<1>4. ASSUME NEW c \in Calls, NEW t, Moves(c, t)
      PROVE  Order' /\ (InTurn => Turns') /\ (Alone => Gate')
  BY <1>1, <1>4, MovedOrder, MovedTurns, MovedGate
<1>5. ASSUME UNCHANGED <<nodeState, gIsAsr, events, channels>>
      PROVE  Order' /\ (InTurn => Turns') /\ (Alone => Gate')
  BY <1>1, <1>5, SameOrder, SameTurns, SameGate
<1>6. CASE HandlePark \/ HandlePlaybackStop \/ HandleAsrIgnored \/ HandleAsr
             \/ HandleSpeechIgnored \/ HandleSpeech \/ HandleLogged
  BY <1>2, <1>3, <1>6, HandleCases, Zenon DEF Served, InTurn, Alone
<1>7. CASE LookupFails
  BY <1>2, <1>5, <1>7, Zenon DEF Served, LookupFails, InTurn, Alone
<1>8. CASE UNCHANGED vars
  <2>1. UNCHANGED <<nodeState, gIsAsr, events, channels>>
    BY <1>8 DEF vars, program
  <2>. QED
    BY <1>2, <1>5, <2>1, Zenon DEF Served, InTurn, Alone
<1>9. ASSUME NEW c \in Calls,
             \/ Arrive(c) \/ CallerHangsUp(c)
             \/ RunSet(c) \/ RunPlayback(c) \/ RunListen(c) \/ RunOther(c) \/ RunHangup(c)
             \/ PlaybackEnds(c)
             \/ \E text \in Texts : Speaks(c, text)
      PROVE  Served'
  <2>1. \E t : Moves(c, t)
    BY <1>1, <1>9, ChannelCases, Zenon
  <2>. QED
    BY <1>2, <1>4, <2>1, Zenon DEF Served, InTurn, Alone
<1>. QED
  BY <1>6, <1>7, <1>8, <1>9, Zenon DEF Next

LEMMA InitServed == Init => Served
<1>. SUFFICES ASSUME Init PROVE Served
  OBVIOUS
<1>1. TypeOK /\ LookupInv
  <2>1. \A c \in Calls : ChannelMarked(c)
    BY DEF Init, ChannelMarked, KnownSets, SetFirst, PlayFirst
  <2>. QED
    BY <2>1, InitTypes DEF Init, LookupInv, NoFailedLookup
<1>2. Order
  BY QueuedNothing DEF Init, Order, ChannelOrder, Arrived
<1>3. Turns /\ Gate
  BY DEF Init, Turns, Gate, Gated
<1>. QED
  BY <1>1, <1>2, <1>3 DEF Served

LEMMA AlwaysServed ==
  ASSUME InTurn \/ Alone
  PROVE  Spec => []Served
<1>1. Served /\ [Next]_vars => Served'
  BY NextServed
<1>. QED
  BY <1>1, InitServed, PTL DEF Spec

\* What a caller hears is the recording of the node the channel is at: for any
\* script and any number of calls if results come in turn and carry their node,
\* or for a single call of the recogniser that gIsAsr gates, however its results
\* come (src/process_event.cpp:70-72, 134-146, 262-264).
THEOREM CallersHearTheirNode ==
  ASSUME InTurn \/ Alone
  PROVE  Spec => []HearsOwnNode
<1>1. Served => HearsOwnNode
  BY DEF Served, Order, ChannelOrder, HearsOwnNode
<1>. QED
  BY <1>1, AlwaysServed, PTL

\* Under the same conditions the program ends a call only at a node without
\* edges (src/process_event.cpp:361-369, 430-437).
THEOREM CallsEndAtTheEnd ==
  ASSUME InTurn \/ Alone
  PROVE  Spec => HangsUpAtEnd
<1>1. ASSUME Served, NEW c \in Calls, RunHangup(c)
      PROVE  node[c] \in DOMAIN Script /\ Script[node[c]] = <<>>
  <2>1. /\ apps[c] \in Seq(Command) /\ apps[c] # <<>> /\ Head(apps[c]).app = "hangup"
        /\ Queued(node[c], apps[c])
    BY <1>1 DEF Served, Order, ChannelOrder, RunHangup, TypeOK
  <2>. DEFINE s == apps[c]
              n == node[c]
  <2>2. AtEnd(n)
    <3>1. s \in Seq(Command) /\ s # <<>> /\ Head(s).app = "hangup" /\ Queued(n, s)
      BY <2>1
    <3>. HIDE DEF s, n
    <3>. QED
      BY <3>1, QueuedTail, Zenon
  <2>. QED
    BY <2>2 DEF AtEnd
<1>2. Served => \A c \in Calls :
        RunHangup(c) => node[c] \in DOMAIN Script /\ Script[node[c]] = <<>>
  BY <1>1
<1>. QED
  BY <1>2, AlwaysServed, PTL DEF HangsUpAtEnd

\* Under the same conditions a call moves along the edges of the script, if only
\* the last edge of a node leads to a node that the script lacks: otherwise the
\* loop goes on after such an edge and may set a second node
\* (src/process_event.cpp:118-149, 249-281).
THEOREM CallsFollowTheScript ==
  ASSUME InTurn \/ Alone, OnlyLastMissing
  PROVE  Spec => FollowsScript
<1>. DEFINE Step(c) ==
       node'[c] # node[c] =>
         \/ node'[c] = 1
         \/ /\ node[c] \in DOMAIN Script
            /\ \E i \in 1 .. Len(Script[node[c]]) : Script[node[c]][i].exit = node'[c]
<1>1. ASSUME Served, NEW c \in Calls, RunSet(c) PROVE Step(c)
  <2>1. /\ apps[c] \in Seq(Command) /\ apps[c] # <<>> /\ Head(apps[c]).app = "set"
        /\ Queued(node[c], apps[c]) /\ node'[c] = Head(apps[c]).arg
    BY <1>1 DEF Served, Order, ChannelOrder, RunSet, Runs, TypeOK
  <2>. DEFINE s == apps[c]
              n == node[c]
  <2>2. Head(s).arg = n \/ Onward(n, Head(s).arg)
    <3>1. s \in Seq(Command) /\ s # <<>> /\ Head(s).app = "set" /\ Queued(n, s)
      BY <2>1
    <3>. HIDE DEF s, n
    <3>. QED
      BY <3>1, QueuedTail, Zenon
  <2>. QED
    BY <2>1, <2>2 DEF Onward, ExitOf
<1>2. ASSUME Served, [Next]_vars PROVE \A c \in Calls : Step(c)
  <2>1. CASE UNCHANGED node
    BY <2>1
  <2>2. ASSUME NEW d \in Calls, RunSet(d) PROVE \A c \in Calls : Step(c)
    <3>1. \A c \in Calls \ {d} : node'[c] = node[c]
      BY <1>2, <2>2 DEF RunSet, Served, TypeOK
    <3>2. Step(d)
      BY <1>1, <1>2, <2>2
    <3>. QED
      BY <3>1, <3>2
  <2>3. UNCHANGED node \/ \E d \in Calls : RunSet(d)
    BY <1>2, Zenon
       DEF Next, vars, channels, HandlePark, HandlePlaybackStop, HandleAsrIgnored, HandleAsr,
           HandleSpeechIgnored, HandleSpeech, HandleLogged, LookupFails, Process, Arrive,
           CallerHangsUp, RunPlayback, RunListen, RunOther, RunHangup, PlaybackEnds, Speaks
  <2>. QED
    BY <2>1, <2>2, <2>3
<1>3. Served /\ [Next]_vars => \A c \in Calls : Step(c)
  BY <1>2
<1>. QED
  BY <1>3, AlwaysServed, PTL DEF Spec, FollowsScript
=============================================================================
