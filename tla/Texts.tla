------------------------------- MODULE Texts -------------------------------
(***************************************************************************)
(* Codings of texts, each against what it promises: URL coding and a       *)
(* search without case (src/esl/esl.c), bits of a signal                   *)
(* (src/esl/esl_config.c), URL decoding, UTF-8, the keywords of a node, a  *)
(* recogniser's XML and the bodies of two requests                         *)
(* (src/common/codeHelper.cpp).                                            *)
(*                                                                         *)
(* A text is a sequence of bytes, but where a coding tells few characters  *)
(* apart.  Each behaviour picks one input.                                 *)
(***************************************************************************)
EXTENDS Integers, Sequences, FiniteSets, SequencesExt

CONSTANTS Inputs    \* records of a kind and of what the kind needs

VARIABLE input

Behind(s, n) == SubSeq(s, n + 1, Len(s))
First(s, n) == SubSeq(s, 1, IF Len(s) < n THEN Len(s) ELSE n)
Starts(s, S) == s # <<>> /\ Head(s) \in S

\* The longest beginning of s that has elements of S only.
Run(s, S) ==
  LET other == {i \in DOMAIN s : s[i] \notin S}
  IN IF other = {} THEN s ELSE SubSeq(s, 1, Min(other) - 1)

-----------------------------------------------------------------------------
(* URL coding.                                                             *)

PERCENT == 37
PLUS == 43
BLANK == 32
urlunsafe == {13, 10, 32, 34, 35, 37, 38, 43, 58, 59, 60, 61, 62, 63, 64, 91, 92, 93, 94,
              96, 123, 124, 125}

Digit(n) == IF n < 10 THEN 48 + n ELSE 55 + n
HexDigits == (48 .. 57) \cup (65 .. 70) \cup (97 .. 102)
HexValue(c) == CASE c < 65 -> c - 48 [] c \in 65 .. 90 -> c - 55 [] OTHER -> c - 87

\* char is signed: a byte from 128 on is below ' ', and its upper half is a
\* negative index, which finds the byte input.stray before the digits.
UpperDigit(c, stray) == IF c >= 128 THEN stray ELSE Digit(c \div 16)

Written(c, stray) ==
  IF c \in (32 .. 126) \ urlunsafe THEN <<c>>
  ELSE <<PERCENT, UpperDigit(c, stray), Digit(c % 16)>>

\* Mutant of Fits: the last of three characters may take the place of the NUL.
FitsTight(n, w) == n > 0 /\ (Len(w) = 3 => n >= 2)

\* Three characters are written when there is room for four.
Fits(n, w) == n > 0 /\ (Len(w) = 3 => n > 3)

esl_url_encode(url, len, stray) ==
  LET Step(st, c) ==
        LET room == len - 1 - Len(st.buf)
            w == Written(c, stray)
        IN IF st.full \/ ~ Fits(room, w) THEN [st EXCEPT !.full = TRUE]
           ELSE [st EXCEPT !.buf = @ \o w]
  IN FoldLeft(Step, [buf |-> <<>>, full |-> FALSE], url).buf

\* sscanf("%2x"): blanks, and of at most two characters a sign and digits.
Scanned(s) ==
  LET t == Behind(s, Len(Run(s, {BLANK, 9, 10})))
      w == First(t, 2)
      digits == Run(IF Starts(w, {43, 45}) THEN Tail(w) ELSE w, HexDigits)
      n == FoldLeft(LAMBDA m, c : 16 * m + HexValue(c), 0, digits)
  IN [ok |-> digits # <<>>, n |-> (IF Starts(w, {45}) THEN 256 - n ELSE n) % 256]

RECURSIVE esl_url_decode(_)
esl_url_decode(s) ==
  IF s = <<>> THEN <<>>
  ELSE IF Head(s) = PERCENT /\ Len(s) > 2 /\ Scanned(Tail(s)).ok
         THEN <<Scanned(Tail(s)).n>> \o esl_url_decode(Behind(s, 3))
       ELSE <<Head(s)>> \o esl_url_decode(Tail(s))

RECURSIVE UrlDecode(_)
\* For a text in which a '%' has two digits behind it, as asserted.
UrlDecode(s) ==
  CASE s = <<>> -> <<>>
    [] Starts(s, {PLUS}) -> <<BLANK>> \o UrlDecode(Tail(s))
    [] Starts(s, {PERCENT}) -> <<HexValue(s[2]) * 16 + HexValue(s[3])>> \o UrlDecode(Behind(s, 3))
    [] OTHER -> <<Head(s)>> \o UrlDecode(Tail(s))

-----------------------------------------------------------------------------
(* Searching and bits.                                                     *)

esl_toupper(c) == IF c \in 97 .. 122 THEN c - 32 ELSE c

RECURSIVE Stristr(_, _, _)
\* The search from one start on: the pattern is found there, the text ends
\* within it, or the search goes on behind the start.
Stristr(instr, str, start) ==
  LET Same(i) == esl_toupper(str[start + i - 1]) = esl_toupper(instr[i])
      rest == Len(str) - start + 1
      equal == {i \in 0 .. Len(instr) : i <= rest /\ \A j \in 1 .. i : Same(j)}
  IN CASE start > Len(str) -> 0
       [] start <= Len(str) /\ Max(equal) = Len(instr) -> start
       [] start <= Len(str) /\ Max(equal) = rest -> 0
       [] OTHER -> Stristr(instr, str, start + 1)

\* Where instr, which is not empty, starts in str; 0 for nowhere.
esl_stristr(instr, str) == Stristr(instr, str, 1)

\* Behind the first ':' four characters, each 0 or 1; anything may follow them.
esl_config_get_cas_bits(strvalue) ==
  LET colon == SelectInSeq(strvalue, LAMBDA c : c = ":")
      bits == First(Behind(strvalue, colon), 4)
  IN IF colon = 0 \/ Len(bits) < 4 \/ ~ Range(bits) \subseteq {"0", "1"} THEN -1
     ELSE FoldLeft(LAMBDA n, c : 2 * n + (IF c = "1" THEN 1 ELSE 0), 0, bits)

-----------------------------------------------------------------------------
(* Keywords, and the recogniser's XML.                                     *)

RECURSIVE split(_, _)
\* What getline gives: no piece behind the last separator, none for nothing.
split(s, flag) ==
  LET at == SelectInSeq(s, LAMBDA c : c = flag)
  IN CASE s = <<>> -> <<>>
       [] s # <<>> /\ at = 0 -> <<s>>
       [] OTHER -> <<SubSeq(s, 1, at - 1)>> \o split(Behind(s, at), flag)

Decimal == {"0", "1", "2", "3", "4", "5", "6", "7", "8", "9"}
atoi(s) ==
  FoldLeft(LAMBDA n, c : 10 * n + (CHOOSE d \in 0 .. 9 : <<"0", "1", "2", "3", "4", "5", "6",
                                                           "7", "8", "9">>[d + 1] = c),
           0, Run(s, Decimal))

\* multimap::insert: behind the entries of the same node.
Inserted(map, entry) ==
  LET before == Cardinality({i \in DOMAIN map : map[i].node <= entry.node})
  IN SubSeq(map, 1, before) \o <<entry>> \o Behind(map, before)

Throws == <<[node |-> -1, tap |-> <<>>]>>

\* An entry without ':' or with nothing behind it has no second piece, and
\* vector::at throws.
getKeyWord(word) ==
  LET Step(map, one) ==
        LET v == split(one, ":")
        IN IF map = Throws \/ Len(v) < 2 THEN Throws
           ELSE Inserted(map, [node |-> atoi(v[1]), tap |-> v[2]])
  IN FoldLeft(Step, <<>>, split(word, "|"))

\* The text between the first of the two marks, h"> and </input>; a second
\* mark that comes before the first gives a length that is negative, hence
\* the rest of the text.
getXmlInput(xml) ==
  LET start == SelectInSeq(xml, LAMBDA c : c = "h\">")
      end == SelectInSeq(xml, LAMBDA c : c = "</input>")
  IN CASE start = 0 \/ end = 0 -> <<>>
       [] start # 0 /\ start < end -> SubSeq(xml, start + 1, end - 1)
       [] OTHER -> Behind(xml, start)

-----------------------------------------------------------------------------
(* UTF-8.                                                                  *)

Six(c, shift) == 128 + ((c \div shift) % 64)

\* The coding of one character.  That of two bytes has the lead of one of three;
\* of four, the lead has two of its three bits.
UnicodeToUTF_8(c) ==
  CASE c < 128 -> <<c>>
    [] c \in 128 .. 2047 -> <<224 + c \div 64, Six(c, 1)>>
    [] c \in 2048 .. 65535 -> <<224 + c \div 4096, Six(c, 64), Six(c, 1)>>
    [] OTHER -> <<240 + 4 * ((c \div 262144) % 4), Six(c, 4096), Six(c, 64), Six(c, 1)>>

RECURSIVE UTF2Uni(_)
\* The characters of a text that ends behind a whole one.  Of four bytes the
\* second overwrites what the first gave.
UTF2Uni(src) ==
  LET Low(i, shift) == (src[i] % 64) * shift
      c == src[1]
      r == CASE c < 128 -> [n |-> c, len |-> 1]
             [] c \in 192 .. 223 -> [n |-> Low(1, 64) + Low(2, 1), len |-> 2]
             [] c \in 224 .. 239 ->
                  [n |-> (c % 32) * 4096 + Low(2, 64) + Low(3, 1), len |-> 3]
             [] c \in 240 .. 247 ->
                  [n |-> Low(2, 4096) + Low(3, 64) + Low(4, 1), len |-> 4]
             [] OTHER -> [n |-> Low(3, 4096) + Low(4, 64) + Low(5, 1), len |-> 5]
  IN IF src = <<>> THEN <<>> ELSE <<r.n>> \o UTF2Uni(Behind(src, r.len))

-----------------------------------------------------------------------------
(* Bodies of requests.                                                     *)

Json == INSTANCE Json

Text(s) == Json!String(s)
Name(c) == <<c>>

\* createMosRequestEntity: cJSON_Print of the members in the order they were
\* added; an element of the array has a name that is not printed.
createMosRequestEntity(p) ==
  Json!print_value(
    Json!Object(<<
      Json!Member(Name("i"),
        Json!Array(<<Json!Object(<<Json!Member(Name("t"), Text(p.phone)),
                                   Json!Member(Name("c"), Text(p.content))>>)>>)),
      Json!Member(Name("b"), Text(p.batchName)),
      Json!Member(Name("m"), Text(p.type)),
      Json!Member(Name("z"), Text(p.bizType))>>), TRUE)

\* createRequestEntity: a HEAD of constants, of which one stands for all, and
\* a BODY with the data.
createRequestEntity(p) ==
  Json!print_value(
    Json!Object(<<
      Json!Member(Name("H"), Json!Object(<<Json!Member(Name("s"), Text(<<"5">>))>>)),
      Json!Member(Name("B"), Json!Object(<<
        Json!Member(Name("d"), Json!Array(<<Json!Object(<<
          Json!Member(Name("t"), Text(p.phone)), Json!Member(Name("s"), Text(p.status)),
          Json!Member(Name("m"), Text(p.type)), Json!Member(Name("c"), Text(p.content)),
          Json!Member(Name("r"), Text(p.recordId)), Json!Member(Name("i"), Text(p.id))>>)>>))>>))>>),
    TRUE)

-----------------------------------------------------------------------------
None == [kind |-> "none"]

Init == input = None

Next == input = None /\ input' \in Inputs

-----------------------------------------------------------------------------
(* Properties.                                                             *)

Of(kind) == input.kind = kind

\* A URL-coded text ends within its buffer; of an ASCII text it holds as much
\* as fits, which both readers give back.  With three bytes for each character
\* and one for the NUL, which esl_event_serialize takes for long values, all
\* but the last fits for sure; one more byte holds all
\* (src/esl/esl.c:374-426, src/esl/esl_event.c:790-829).
UrlAgrees ==
  Of("url") =>
    LET s == input.s
        coded == esl_url_encode(s, input.len, input.stray)
        read == esl_url_decode(coded)
    IN /\ Len(coded) < input.len
       /\ (\A i \in DOMAIN s : s[i] < 128) =>
            /\ IsPrefix(read, s) /\ UrlDecode(coded) = read
            /\ input.len > 3 * Len(s) => Len(read) >= Len(s) - 1
            /\ input.len > 3 * Len(s) + 1 => read = s

\* The search without case gives the first place where the pattern is
\* (src/esl/esl.c:184-223).
FindAgrees ==
  Of("find") =>
    LET Upper(s) == [i \in DOMAIN s |-> esl_toupper(s[i])]
        At(i) == First(Behind(Upper(input.s), i), Len(input.pattern)) = Upper(input.pattern)
        places == {i \in 0 .. Len(input.s) : At(i)}
    IN esl_stristr(input.pattern, input.s) = IF places = {} THEN 0 ELSE Min(places) + 1

\* Four bits behind the first colon are read from the highest on, and nothing
\* else is (src/esl/esl_config.c:204-240).
BitsAgree ==
  Of("bits") =>
    esl_config_get_cas_bits(input.s) =
      IF \E i \in DOMAIN input.s :
           /\ input.s[i] = ":" /\ \A j \in 1 .. i - 1 : input.s[j] # ":"
           /\ \A j \in i + 1 .. i + 4 : j \in DOMAIN input.s /\ input.s[j] \in {"0", "1"}
        THEN LET i == Min({j \in DOMAIN input.s : input.s[j] = ":"})
                 Bit(j) == IF input.s[i + j] = "1" THEN 2 ^ (4 - j) ELSE 0
             IN Bit(1) + Bit(2) + Bit(3) + Bit(4)
        ELSE -1

\* A keyword text made of entries gives these entries, by node and those of one
\* node in their order, with or without a separator at its end; it throws
\* exactly when an entry has no text (src/common/codeHelper.cpp:785-812).
KeyWordsAgree ==
  Of("word") =>
    LET e == input.entries
        Shown(x) == Json!DigitsOf(x.node) \o <<":">> \o x.tap
        word == FlattenSeq([i \in DOMAIN e |->
                              Shown(e[i]) \o (IF i < Len(e) \/ input.closed THEN <<"|">> ELSE <<>>)])
        map == getKeyWord(word)
        Node(s, n) == SelectSeq(s, LAMBDA x : x.node = n)
    IN IF \E i \in DOMAIN e : e[i].tap = <<>> THEN map = Throws
       ELSE /\ Len(map) = Len(e)
            /\ \A i, j \in DOMAIN map : i <= j => map[i].node <= map[j].node
            /\ \A i \in DOMAIN e : Node(map, e[i].node) = Node(e, e[i].node)

\* The text of the recogniser's input element is found, whatever surrounds it
\* (src/common/codeHelper.cpp:769-784).
XmlAgrees ==
  Of("xml") =>
    getXmlInput(input.before \o <<"h\">">> \o input.s \o <<"</input>">> \o input.behind) = input.s

\* UTF-8 as it is defined.
Utf8(c) ==
  CASE c < 128 -> <<c>>
    [] c \in 128 .. 2047 -> <<192 + c \div 64, Six(c, 1)>>
    [] c \in 2048 .. 65535 -> <<224 + c \div 4096, Six(c, 64), Six(c, 1)>>
    [] OTHER -> <<240 + c \div 262144, Six(c, 4096), Six(c, 64), Six(c, 1)>>

\* UTF-8 is read right up to 18 bits, and of the rest 18 bits; it is written
\* right but for characters of two bytes and of more than 20 bits
\* (src/common/codeHelper.cpp:537-571, 813-883).
Utf8Agrees ==
  Of("utf") =>
    LET s == input.s
    IN /\ UTF2Uni(FlattenSeq([i \in DOMAIN s |-> Utf8(s[i])])) = [i \in DOMAIN s |-> s[i] % 262144]
       /\ \A i \in DOMAIN s :
            UnicodeToUTF_8(s[i]) = Utf8(s[i]) <=> s[i] \notin 128 .. 2047 /\ s[i] < 262144

\* The bodies of requests are read as what was put into them, whatever the
\* texts have in them (src/common/codeHelper.cpp:127-258,
\* src/esl/esl_json.c:162-257).
BodiesAgree ==
  Of("request") =>
    LET p == input.p
        Member(item, c) == Json!cJSON_GetObjectItem(item, Name(c))
        Element(item) == Json!Children(item)[1].item
        mos == Json!cJSON_Parse(createMosRequestEntity(p))
        ems == Json!cJSON_Parse(createRequestEntity(p))
        data == Element(Member(Member(ems, "B"), "d"))
        Is(item, c, s) == Member(item, c) = Text(s)
    IN /\ Is(Element(Member(mos, "i")), "t", p.phone) /\ Is(Element(Member(mos, "i")), "c", p.content)
       /\ Is(mos, "b", p.batchName) /\ Is(mos, "m", p.type) /\ Is(mos, "z", p.bizType)
       /\ Is(data, "t", p.phone) /\ Is(data, "s", p.status) /\ Is(data, "m", p.type)
       /\ Is(data, "c", p.content) /\ Is(data, "r", p.recordId) /\ Is(data, "i", p.id)

TextsAgree ==
  /\ UrlAgrees /\ FindAgrees /\ BitsAgree /\ KeyWordsAgree /\ XmlAgrees /\ Utf8Agrees
  /\ BodiesAgree
=============================================================================
