------------------------------ MODULE IniFile -------------------------------
(***************************************************************************)
(* The configuration file reader and writer                                *)
(* (src/database/config/inirw.cpp).  The file is kept in memory as it is   *)
(* on disk; every question and every change cuts it into lines again, and  *)
(* a change writes the file and loads it.  A question whose key is missing *)
(* is a change too: it writes its default.                                 *)
(*                                                                         *)
(* A file is a sequence of characters.  Names and values are made of the   *)
(* few characters the code tells apart; "k" and "K" stand for the letters  *)
(* that differ in case only.  No file holds a NUL.                         *)
(***************************************************************************)
EXTENDS Integers, Sequences, FiniteSets, SequencesExt

CONSTANTS Files,      \* files the program may find, "" for none
          Sections,   \* names of sections
          Keys,       \* names of keys
          Values,     \* values written, <<>> for the empty string
          Defaults,   \* defaults of questions
          SIZE_LINE,  \* longest content of a line, with its NUL
          maxlen,     \* size of the caller's buffer
          MaxFile     \* bound: changes are made to files of this length

\* A name or a value that is not given.
NULL == <<"NULL">>

VARIABLES disk,     \* the file
          gBuffer,  \* the file as it was loaded
          writing,  \* the change under way: what is written, and how
          answer,   \* the last answer of iniGetString
          table     \* history: what iniGetValue would find in gBuffer

vars == <<disk, gBuffer, writing, answer, table>>

-----------------------------------------------------------------------------
(* Lines.                                                                  *)

Newlines == {"\r", "\n"}
Quotes == {"'", "\""}
Remarks == {";", "#"}

\* Mutant of Scan: an apostrophe opens a quotation inside a quotation.
ScanNested(st, c) ==
  [at |-> st.at + 1,
   quote |-> IF c \in Quotes THEN (IF st.quote = "" THEN c ELSE "") ELSE st.quote,
   rem |-> IF c \in Remarks /\ st.rem = -1
             THEN st.at - st.blanks ELSE st.rem,
   cont |-> IF c \notin Quotes \cup Remarks \cup {" "} /\ st.rem = -1 /\ st.cont = -1
              THEN st.at ELSE st.cont,
   blanks |-> CASE c = " " -> st.blanks + 1
                [] c \in Quotes \cup Remarks -> st.blanks
                [] OTHER -> 0]

\* One character of a line: the quotation it is in, where its remark and its
\* content start (-1 for not yet), and the blanks just before.
Scan(st, c) ==
  [at |-> st.at + 1,
   quote |-> CASE c \in Quotes /\ st.quote = "" -> c
               [] c \in Quotes /\ st.quote = c -> ""
               [] OTHER -> st.quote,
   rem |-> IF c \in Remarks /\ st.quote = "" /\ st.rem = -1
             THEN st.at - st.blanks ELSE st.rem,
   cont |-> IF c \notin Quotes \cup Remarks \cup {" "} /\ st.rem = -1 /\ st.cont = -1
              THEN st.at ELSE st.cont,
   blanks |-> CASE c = " " -> st.blanks + 1
                [] c \in Quotes \cup Remarks -> st.blanks
                [] OTHER -> 0]

\* The first of the places in S, or 0.
First(S) == IF S = {} THEN 0 ELSE Min(S)

\* Where the line at the front of b ends: the first newline, the number of
\* newlines that belong to the line and the start of the next line.  Of two
\* equal newlines with more text behind the second is given back, but counted.
LineEnd(b) ==
  LET first == First({i \in DOMAIN b : b[i] \in Newlines})
      two == first < Len(b) /\ b[first + 1] \in Newlines
      back == two /\ first + 1 < Len(b) /\ b[first + 1] = b[first]
  IN CASE first = 0 -> [text |-> Len(b), count |-> 0, next |-> Len(b)]
       [] first # 0 /\ ~ two -> [text |-> first - 1, count |-> 1, next |-> first]
       [] back -> [text |-> first - 1, count |-> 2, next |-> first]
       [] OTHER -> [text |-> first - 1, count |-> 2, next |-> first + 1]

Scanned(text) ==
  LET st[n \in 0 .. Len(text)] ==
        IF n = 0 THEN [at |-> 0, quote |-> "", rem |-> -1, cont |-> -1, blanks |-> 0]
        ELSE Scan(st[n - 1], text[n])
  IN st[Len(text)]

LineType(content) ==
  LET section == content # <<>> /\ Head(content) = "[" /\ Last(content) = "]"
  IN CASE section -> "section"
       [] ~ section /\ "=" \in Range(content) -> "value"
       [] OTHER -> "error"

\* The line of b that starts at a place, ends there and was scanned so: its
\* content, the start of its remark (or its end), and the start of the next.
LineAt(b, at, end, st) ==
  LET rem == at + IF st.rem = -1 THEN end.next - end.count ELSE st.rem
      content == IF st.cont = -1 THEN <<>>
                 ELSE SubSeq(b, at + st.cont + 1, rem - st.blanks)
  IN [type |-> IF st.cont = -1 THEN "empty"
               ELSE IF Len(content) >= SIZE_LINE THEN "error" ELSE LineType(content),
      content |-> content, start |-> at, rem1 |-> rem, next |-> at + end.next]

GetLine(b, at) ==
  LET rest == SubSeq(b, at + 1, Len(b))
      end == LineEnd(rest)
  IN LineAt(b, at, end, Scanned(SubSeq(rest, 1, end.text)))

\* All lines of b from a place on.
RECURSIVE LinesFrom(_, _)
LinesFrom(b, at) ==
  IF at = Len(b) THEN <<>>
  ELSE LET line == GetLine(b, at) IN <<line>> \o LinesFrom(b, line.next)
Lines(b) == LinesFrom(b, 0)

StrStrip(s) ==
  LET text == {i \in DOMAIN s : s[i] # " "}
  IN IF text = {} THEN <<>> ELSE SubSeq(s, Min(text), Max(text))

Lower(c) == CASE c = "K" -> "k" [] c = "S" -> "s" [] OTHER -> c

\* StriCmp finds no difference.
Same(s, t) == [i \in DOMAIN s |-> Lower(s[i])] = [i \in DOMAIN t |-> Lower(t[i])]

SectionName(line) == StrStrip(SubSeq(line.content, 2, Len(line.content) - 1))

\* GetKeyValue
Equals(line) == First({i \in DOMAIN line.content : line.content[i] = "="})
Key(line) == StrStrip(SubSeq(line.content, 1, Equals(line) - 1))
Value(line) == StrStrip(SubSeq(line.content, Equals(line) + 1, Len(line.content)))

-----------------------------------------------------------------------------
(* Sections.                                                               *)

\* The line that opens a section: its name, or for NULL the first value.
Opening(ls, section) ==
  IF section = NULL
    THEN First({i \in DOMAIN ls : /\ ls[i].type = "value"
                                  /\ \A j \in 1 .. i : ls[j].type # "section"})
    ELSE First({i \in DOMAIN ls : /\ ls[i].type = "section"
                                  /\ Same(SectionName(ls[i]), section)})

\* The lines of a section, as indices: from its opening to the next section.
Body(ls, section) ==
  LET open == Opening(ls, section)
  IN IF open = 0 THEN {}
     ELSE {i \in open .. Len(ls) : \A j \in open + 1 .. i : ls[j].type # "section"}

\* Where the content of a section starts and where its last line that is
\* not empty ends.
FindSection(ls, section) ==
  LET body == Body(ls, section)
  IN IF body = {} THEN [found |-> FALSE, cont1 |-> 0, cont2 |-> 0]
     ELSE [found |-> TRUE,
           cont1 |-> IF section = NULL THEN ls[Min(body)].start ELSE ls[Min(body)].next,
           cont2 |-> Max({ls[i].next : i \in {j \in body :
                                               ls[j].type \in {"section", "value"}}})]

HasKey(line, key) == line.type = "value" /\ Same(Key(line), key)

\* The raw value of a key; the first line with the key counts, and an empty
\* value is none.
RawValue(ls, section, key) ==
  LET at == First({i \in Body(ls, section) : HasKey(ls[i], key)})
  IN IF at = 0 THEN <<>> ELSE Value(ls[at])

Settings == Sections \X Keys
Table(b) == LET ls == Lines(b) IN [x \in Settings |-> RawValue(ls, x[1], x[2])]

\* What fits the caller's buffer.
Cut(v) == SubSeq(v, 1, IF Len(v) <= maxlen - 1 THEN Len(v) ELSE maxlen - 1)

\* iniGetString takes off a pair of quotes.
Unquote(v) ==
  IF v # <<>> /\ Head(v) \in Quotes /\ Last(v) = Head(v)
    THEN SubSeq(v, 2, Len(v) - 1) ELSE v

Shown(v) == Unquote(Cut(v))

-----------------------------------------------------------------------------
(* Changes.                                                                *)

NoChange == [mode |-> "none", text |-> <<>>]
EndOfLine == <<"\r", "\n">>

\* What fprintf makes of the name of a section.
Printed(section) == IF section = NULL THEN <<"(null)">> ELSE section

\* What a line of a key is written as.
Entry(key, value) == key \o <<"=">> \o value \o <<";">> \o EndOfLine

\* The line of a key in the section that was found.
NoLine == [type |-> "none"]
KeyLine(b, found, key) ==
  LET ls == LinesFrom(SubSeq(b, 1, found.cont2), found.cont1)
      at == First({i \in DOMAIN ls : HasKey(ls[i], key)})
  IN IF at = 0 THEN NoLine ELSE ls[at]

\* b with the text from one place to another replaced.
Replace(b, from, to, text) == SubSeq(b, 1, from) \o text \o SubSeq(b, to + 1, Len(b))

\* Mutant of KeyChange: the line of the key is replaced with its remark.
KeyChangeWholeLine(b, section, key, value, found, line) ==
  CASE value = NULL /\ line = NoLine -> NoChange
    [] value # NULL /\ ~ found.found ->
         [mode |-> "append",
          text |-> EndOfLine \o <<"[">> \o Printed(section) \o <<"]">> \o EndOfLine
                     \o Entry(key, value)]
    [] value # NULL /\ found.found /\ line = NoLine ->
         [mode |-> "rewrite",
          text |-> Replace(b, found.cont2, found.cont2, Entry(key, value))]
    [] value = NULL /\ line # NoLine ->
         [mode |-> "delete", text |-> Replace(b, line.start, line.next, <<>>)]
    [] OTHER ->
         [mode |-> "rewrite", text |-> Replace(b, line.start, line.next, Entry(key, value))]

\* A section that is missing is appended; a key that is missing goes behind the
\* last line of its section; a key that is there keeps the remark of its line;
\* NULL takes the line out.
KeyChange(b, section, key, value, found, line) ==
  CASE value = NULL /\ line = NoLine -> NoChange
    [] value # NULL /\ ~ found.found ->
         [mode |-> "append",
          text |-> EndOfLine \o <<"[">> \o Printed(section) \o <<"]">> \o EndOfLine
                     \o Entry(key, value)]
    [] value # NULL /\ found.found /\ line = NoLine ->
         [mode |-> "rewrite",
          text |-> Replace(b, found.cont2, found.cont2, Entry(key, value))]
    [] value = NULL /\ line # NoLine ->
         [mode |-> "delete", text |-> Replace(b, line.start, line.next, <<>>)]
    [] OTHER ->
         [mode |-> "rewrite",
          text |-> Replace(b, line.start, line.rem1, key \o <<"=">> \o value)]

\* What iniSetString writes.
Change(b, section, key, value) ==
  LET found == FindSection(Lines(b), section)
  IN KeyChange(b, section, key, value, found, KeyLine(b, found, key))

-----------------------------------------------------------------------------
(* The program.                                                            *)

Idle == writing.mode = "none"

\* iniFileLoad: "ab+" makes a file that is missing.
Init ==
  /\ disk \in Files
  /\ gBuffer = disk
  /\ table = Table(disk)
  /\ writing = [mode |-> "none", text |-> <<>>, reply |-> <<>>]
  /\ answer = <<>>

\* fopen: with "ab" the file stays, with "wb" it is empty until fclose.
Open(change, reply) ==
  /\ writing' = [mode |-> change.mode, text |-> change.text, reply |-> reply]
  /\ disk' = IF change.mode = "append" THEN disk ELSE <<>>
  /\ UNCHANGED <<gBuffer, answer, table>>

\* iniSetString, up to fopen.
SetString(section, key, value) ==
  /\ Idle /\ Len(gBuffer) <= MaxFile
  /\ LET change == Change(gBuffer, section, key, value)
     IN change.mode # "none" /\ Open(change, answer)

\* iniGetString of a key that is there.
GetString(section, key) ==
  /\ Idle
  /\ LET raw == RawValue(Lines(gBuffer), section, key)
     IN raw # <<>> /\ answer' = Shown(raw)
  /\ UNCHANGED <<disk, gBuffer, writing, table>>

\* iniGetString of a key that is missing: the default is written, too.
GetDefault(section, key, default) ==
  /\ Idle /\ Len(gBuffer) <= MaxFile
  /\ RawValue(Lines(gBuffer), section, key) = <<>>
  /\ Open(Change(gBuffer, section, key, default), Cut(default))

\* The same when the file can not be opened for writing.
GetUnwritable(section, key, default) ==
  /\ Idle
  /\ RawValue(Lines(gBuffer), section, key) = <<>>
  /\ answer' = Cut(default)
  /\ UNCHANGED <<disk, gBuffer, writing, table>>

\* fclose, and iniFileLoad.
Close ==
  /\ ~ Idle
  /\ disk' = (IF writing.mode = "append" THEN disk ELSE <<>>) \o writing.text
  /\ gBuffer' = disk'
  /\ table' = Table(disk')
  /\ answer' = writing.reply
  /\ writing' = [mode |-> "none", text |-> <<>>, reply |-> <<>>]

\* The process ends and is started again.
Restart ==
  /\ gBuffer' = disk
  /\ table' = Table(disk)
  /\ writing' = [mode |-> "none", text |-> <<>>, reply |-> <<>>]
  /\ answer' = <<>>
  /\ UNCHANGED disk

Next ==
  \/ \E section \in Sections, key \in Keys :
       \/ GetString(section, key)
       \/ \E value \in Values \cup {NULL} : SetString(section, key, value)
       \/ \E value \in Defaults :
            GetDefault(section, key, value) \/ GetUnwritable(section, key, value)
  \/ Close \/ Restart

Spec == Init /\ [][Next]_vars

-----------------------------------------------------------------------------
(* Properties.                                                             *)

\* The file is a table of settings: setting, deleting or asking for one key
\* changes that key and no other, what was set is read back, and only a crash
\* between fopen and fclose loses anything, whatever remarks, empty lines,
\* blanks and quotes the file has (src/database/config/inirw.cpp:562-655).
Store == INSTANCE IniStore WITH
           store <- table, Missing <- <<>>,
           Values <- Values \cup Defaults
StoreSpec == Store!Spec

RemarksIn(b) == Cardinality({i \in DOMAIN b : b[i] = "c"})

\* A change other than a deletion keeps every remark of the file, the one of
\* the changed line included (src/database/config/inirw.cpp:607-615).
RemarksKept ==
  [][Close /\ writing.mode # "delete" => RemarksIn(disk') = RemarksIn(gBuffer)]_vars

\* The characters from a place up to the first newline.
TextAt(at) ==
  LET rest == SubSeq(gBuffer, at + 1, Len(gBuffer))
      first == First({i \in DOMAIN rest : rest[i] \in Newlines})
  IN IF first = 0 THEN rest ELSE SubSeq(rest, 1, first - 1)

\* A line without remark is found as it was written, whichever of the newlines
\* ends it (src/database/config/inirw.cpp:102).
LinesCut ==
  \A line \in Range(Lines(gBuffer)) :
    Range(TextAt(line.start)) \cap Remarks = {} =>
      StrStrip(line.content) = StrStrip(TextAt(line.start))
=============================================================================
