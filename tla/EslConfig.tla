----------------------------- MODULE EslConfig ------------------------------
(***************************************************************************)
(* The configuration reader of the event-socket library                    *)
(* (src/esl/esl_config.c).  A file has sections, [+name], of categories,   *)
(* [name], of pairs.  A file that is not there is looked for as a section  *)
(* of openesl.conf, and its reader is locked to that section.              *)
(*                                                                         *)
(* A line is a record of its kind and of the name or the pair it has; how  *)
(* a pair is cut into its two parts is left out.                           *)
(***************************************************************************)
EXTENDS Integers, Sequences, FiniteSets, SequencesExt

CONSTANTS Files,     \* contents openesl.conf may have
          Own,       \* contents the file itself may have, or NoFile
          file_path, \* the name of the file
          NoFile, NoName

VARIABLES file,     \* the lines of the open file, or NoFile
          pos,      \* lines that have been read
          cfg,      \* section, category, sectno, catno, lockto
          result,   \* what esl_config_next_pair returned last
          given     \* history: indices of the lines whose pairs were given

vars == <<file, pos, cfg, result, given>>

Closed == [section |-> NoName, category |-> NoName, sectno |-> 0, catno |-> 0, lockto |-> 0]
Unlocked == [Closed EXCEPT !.lockto = -1]

Ret(ret, at) == [ret |-> ret, at |-> at]

-----------------------------------------------------------------------------
(* esl_config_next_pair.  Each call reads lines from the one behind st.pos *)
(* until one of them ends it.                                              *)

\* Mutant of Entered: the categories of the section before are counted on.
EnteredCounting(c) == c

\* A section is entered: its categories are counted from none.
Entered(c) == [c EXCEPT !.catno = 0]

\* What one line does: the state it leaves and, when it ends the call, the
\* returned value.
Line(f, st) ==
  LET line == f[st.pos + 1]
      Next(c) == [st EXCEPT !.pos = @ + 1, !.cfg = c]
      End(c, ret) == [Next(c) EXCEPT !.done = TRUE, !.ret = ret]
      opened == [st.cfg EXCEPT !.section = line.name, !.sectno = @ + 1]
      other == opened.lockto > -1 /\ opened.sectno # opened.lockto
  IN CASE line.kind = "section" /\ other -> End(opened, st.ret)
       [] line.kind = "section" /\ ~ other -> End(Entered(opened), 1)
       [] line.kind = "category" ->
            Next([st.cfg EXCEPT !.category = line.name, !.catno = @ + 1])
       [] line.kind = "comment" -> Next(st.cfg)
       [] line.kind = "__END__" -> End(st.cfg, st.ret)
       [] line.kind = "bad" -> [Next(st.cfg) EXCEPT !.ret = -1]
       [] line.kind = "pair" -> [End(st.cfg, 1) EXCEPT !.at = st.pos + 1]

RECURSIVE Lines(_, _)
Lines(f, st) ==
  IF st.done THEN st
  ELSE IF st.pos = Len(f) THEN [st EXCEPT !.ret = 0]
  ELSE Lines(f, Line(f, st))

\* at is the line of the pair that is given, 0 for none.
NextPair(f, p, c) ==
  Lines(f, [pos |-> p, cfg |-> c, ret |-> 0, at |-> 0, done |-> FALSE])

-----------------------------------------------------------------------------
RECURSIVE Find(_, _, _)
\* The loop of esl_config_open_file over openesl.conf: where the section with
\* the name of the file starts.
Find(f, p, c) ==
  LET r == NextPair(f, p, c)
  IN IF r.ret = 0 THEN r
     ELSE IF r.cfg.sectno # -1 /\ r.cfg.section = file_path
       THEN [r EXCEPT !.cfg.lockto = r.cfg.sectno]
     ELSE Find(f, r.pos, r.cfg)

Init ==
  /\ file = NoFile /\ pos = 0 /\ cfg = Closed
  /\ result = Ret(0, 0) /\ given = <<>>

\* The file is there.
OpenOwn ==
  /\ file = NoFile
  /\ file' \in Own \ {NoFile}
  /\ pos' = 0 /\ cfg' = Unlocked
  /\ result' = Ret(1, 0) /\ UNCHANGED given

\* It is not, and is a section of openesl.conf or nothing.
OpenSection ==
  /\ file = NoFile /\ NoFile \in Own
  /\ \E f \in Files :
       LET found == Find(f, 0, Unlocked)
       IN IF found.ret = 0 THEN file' = NoFile /\ cfg' = Closed /\ pos' = 0
          ELSE file' = f /\ cfg' = found.cfg /\ pos' = found.pos
  /\ result' = Ret(1, 0) /\ UNCHANGED given

\* Callers read until there is no more.
esl_config_next_pair ==
  /\ file # NoFile /\ result.ret # 0
  /\ LET r == NextPair(file, pos, cfg)
     IN /\ pos' = r.pos /\ cfg' = r.cfg
        /\ result' = Ret(r.ret, r.at)
        /\ given' = IF r.at = 0 THEN given ELSE Append(given, r.at)
  /\ UNCHANGED file

esl_config_close_file ==
  /\ file # NoFile
  /\ file' = NoFile /\ pos' = 0 /\ cfg' = Closed
  /\ result' = Ret(0, 0) /\ given' = <<>>

Next == OpenOwn \/ OpenSection \/ esl_config_next_pair \/ esl_config_close_file

Spec == Init /\ [][Next]_vars

-----------------------------------------------------------------------------
(* Properties.                                                             *)

Kind(i) == file[i].kind
SectionOf(i) == Cardinality({j \in 1 .. i : Kind(j) = "section"})

\* Indices of the lines up to i that the reader is asked for.
Asked(i) ==
  {j \in 1 .. i : /\ Kind(j) = "pair"
                  /\ cfg.lockto > 0 => SectionOf(j) = cfg.lockto
                  /\ \A k \in 1 .. j : Kind(k) # "__END__"}

\* No bad line is the last of its section that counts: after one the reader
\* does not stop at the end of the section, or at __END__.
Clean(f) ==
  \A i, j \in DOMAIN f :
    i < j /\ f[i].kind = "bad" /\ f[j].kind \in {"section", "__END__"} =>
      \E k \in i .. j : f[k].kind \in {"pair"} \cup (IF cfg.lockto = -1 THEN {"section"} ELSE {})

\* The category lines of the section that line i is in, up to i.
CategoriesBefore(i) ==
  {j \in 1 .. i : Kind(j) = "category" /\ SectionOf(j) = SectionOf(i)}

\* A file, or the section that stands for it, is read whole: its pairs are given
\* once each, in order, and no others, each with the last category of its own
\* section (src/esl/esl_config.c:100-198).
SectionRead ==
  file # NoFile /\ Clean(file) =>
    /\ given = SetToSortSeq(Asked(pos), <)
    /\ result.ret = 0 => Range(given) = Asked(Len(file))
    /\ result.at # 0 =>
         LET before == CategoriesBefore(result.at)
         IN /\ cfg.catno = Cardinality(before)
            /\ before # {} => cfg.category = file[Max(before)].name
=============================================================================
