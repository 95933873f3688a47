----------------------------- MODULE MCLibrary ------------------------------
(* The parts of the library and of the program that share no state, for TLC: *)
(* one part moves in each behaviour, the others stay as they start.          *)
EXTENDS EslEvent

CONSTANTS Parts,     \* the parts that move
          IniFiles   \* ini files the program may find

VARIABLES part,
          disk, gBuffer, writing, answer, table,     \* IniFile
          buffer, in, out, ret,                      \* EslBuffer
          file, pos, cfg, result, given,             \* EslConfig
          fd, server, conn, lost, strayed,           \* EslConnections
          list, obj, used, walk,                     \* EslOop
          asked, pieces, response, sent, got, speech, \* Services
          input                                      \* Texts

-----------------------------------------------------------------------------
(* Inputs.                                                                 *)

\* Sequences of at most n elements of S.
Upto(S, n) == UNION {[1 .. k -> S] : k \in 0 .. n}

\* EslEvent: headers of one name besides the special ones, values that are
\* empty, plain, or an array of two; indexes from below to above the range.
EventTexts == {<<>>, <<"a">>, <<"ARRAY::", "a", "|:", "a">>}

EventGiven ==
  [name : {"x"}, value : EventTexts] \cup {[name |-> "_body", value |-> <<"a">>]}
EventKinds == [name : {<<"NULL">>}, subclass : {<<"NULL">>, <<"a">>}]
EventBodies == {<<"a">>}
EventIndexes == -1 .. 2

\* IniFile: remarks, quotes, blanks, empty lines and the kinds of newlines.
crlf == <<"\r", "\n">>
PlainFiles ==
  {<<>>,
   <<"#", "c">> \o crlf \o <<"[", "s", "]">> \o crlf \o <<"k", "=", "1", " ", ";", "c">> \o crlf,
   <<"k", "=", "1", "\r", "[", "S", "]", "\n", " ", "K", " ", "=", "1", "2", ";", "c">>
     \o crlf \o crlf \o <<"[", "t", "]", "\r">>}

\* An empty line that ends in \n, before a line with a text.
SplitFiles == {<<"k", "=", "1", "2", "\n", "\n", "[", "s", "]", "\n">>}

Ini == INSTANCE IniFile WITH
  Files <- IniFiles, Sections <- {<<"s">>, <<"t">>}, Keys <- {<<"k">>, <<"j">>},
  Values <- {<<"1", "2">>, <<"'", ";", "1", "'">>, <<>>}, Defaults <- {<<"1">>},
  SIZE_LINE <- 12, maxlen <- 10, MaxFile <- 24

\* EslBuffer: a stream that tells its positions.
Tape == INSTANCE EslBuffer WITH
  blocksize <- 1, start_len <- 2, max_len <- 0, Chunks <- {<<"x">>, <<"n", "x", "r">>},
  Sizes <- {1, 3}, Fresh <- {"n"}, AllocFails <- TRUE, MaxData <- 4

\* EslConfig: all files of a few lines.
Line0(kind) == [kind |-> kind, name |-> "no name"]
ConfigLines ==
  {Line0("pair"), Line0("bad"), Line0("__END__"), Line0("comment")}
    \cup [kind : {"section"}, name : {"s", "t"}] \cup [kind : {"category"}, name : {"a", "b"}]

SharedFiles == Upto(ConfigLines \ {Line0("comment")}, 5)
OwnFiles == Upto(ConfigLines, 3) \cup {<<Line0("none")>>}

Config == INSTANCE EslConfig WITH
  Files <- SharedFiles, Own <- OwnFiles,
  file_path <- "s", NoFile <- <<Line0("none")>>, NoName <- "no name"

Connections == INSTANCE EslConnections WITH Conns <- {"a", "b"}, MaxFd <- 3

Oop == INSTANCE EslOop WITH
  Objects <- {"o1", "o2"}, Events <- {"e1", "e2"}, Headers <- {"h1", "h2", "h3"}

Service == INSTANCE Services WITH
  Scores <- {<<38>>, <<100, 7>>, <<-1250, 0>>},
  Texts <- {<<"ni", "\"", "\n">>, <<"SOH", "\\">>, <<"smile">>}, Tokens <- {<<"x", "ni">>},
  Headers <- {<<TRUE>>, <<FALSE>>, <<FALSE, TRUE, FALSE>>}, Pieces <- Upto({1, 2}, 2)

\* Texts: bytes that are plain, coded, digits and not ASCII; keywords of nodes
\* of one and two digits; characters of one to four bytes; texts with all that
\* is escaped.
CodedTexts ==
    [kind : {"url"}, s : Upto({97, 37, 50, 228}, 3), len : 1 .. 11, stray : {49, 63}]
    \cup [kind : {"find"}, pattern : Upto({97, 65, 98}, 2) \ {<<>>}, s : Upto({97, 65, 98}, 4)]
    \cup [kind : {"bits"}, s : Upto({":", "0", "1"}, 6)]
    \cup [kind : {"word"}, closed : BOOLEAN,
          entries : Upto([node : {1, 2, 12}, tap : {<<>>, <<"y">>, <<"n">>}], 3)]
    \cup [kind : {"xml"}, before : Upto({"x", "</input"}, 2), s : Upto({"x", "h\">"}, 2),
          behind : Upto({"x", "h\">", "</input>"}, 2)]
    \cup [kind : {"utf"}, s : Upto({65, 233, 20320, 128512, 262143, 262144, 1114111}, 2)]
    \cup [kind : {"request"},
          p : [phone : {<<"1">>}, type : {<<"s">>}, bizType : {<<"9">>}, status : {<<"s">>, <<>>},
               recordId : {<<"ni">>}, id : {<<"0">>}, batchName : {<<"a">>, <<"{", "\"">>},
               content : {<<"ni", "\"">>, <<"\\", "SOH">>, <<>>, <<"smile", "\n">>}]]

Coding == INSTANCE Texts WITH Inputs <- CodedTexts

-----------------------------------------------------------------------------
(* One part moves.                                                         *)

LibraryInit ==
  /\ part \in Parts
  /\ Init /\ Ini!Init /\ Tape!Init /\ Config!Init /\ Connections!Init /\ Oop!Init
  /\ Service!Init /\ Coding!Init
  /\ part # "event" => ~ event.uniq /\ event.subclass = NoText
  /\ part # "ini" => disk = CHOOSE f \in IniFiles : TRUE

ini == <<disk, gBuffer, writing, answer, table>>
tape == <<buffer, in, out, ret>>
config == <<file, pos, cfg, result, given>>
connections == <<fd, server, conn, lost, strayed>>
oop == <<list, obj, used, walk>>
services == <<asked, pieces, response, sent, got, speech>>

LibraryNext ==
  /\ UNCHANGED part
  /\ IF part = "event" THEN Next ELSE UNCHANGED event
  /\ IF part = "ini" THEN Ini!Next ELSE UNCHANGED ini
  /\ IF part = "tape" THEN Tape!Next ELSE UNCHANGED tape
  /\ IF part = "config" THEN Config!Next ELSE UNCHANGED config
  /\ IF part = "connections" THEN Connections!Next ELSE UNCHANGED connections
  /\ IF part = "oop" THEN Oop!Next ELSE UNCHANGED oop
  /\ IF part = "services" THEN Service!Next ELSE UNCHANGED services
  /\ IF part = "texts" THEN Coding!Next ELSE UNCHANGED input

LibrarySpec ==
  LibraryInit
    /\ [][LibraryNext]_<<part, event, ini, tape, config, connections, oop, services, input>>

-----------------------------------------------------------------------------
(* The properties, as they are stated in the modules of the parts.  Those of *)
(* events are EslEvent's own: where the event stays, they say it starts well. *)

\* The ini file implements a table of settings.
StoreSpec == Ini!StoreSpec

\* A change keeps the remarks.
RemarksKept == Ini!RemarksKept

\* The lines of an ini file are found as they are written.
LinesCut == Ini!LinesCut

\* The buffer implements a tape.
TapeSpec == Tape!TapeSpec

\* A configuration section is read whole.
SectionRead == part = "config" => Config!SectionRead

\* Nobody closes the socket of another.
SocketsOwned == part = "connections" => Connections!SocketsOwned

\* Events are freed once, walks are whole.
EventsOwned == part = "oop" => Oop!EventsOwned

\* Answers of services are read as they were sent.
AnswersRead == part = "services" => Service!AnswersRead

\* Codings keep what they promise.
TextsAgree == part = "texts" => Coding!TextsAgree
=============================================================================
