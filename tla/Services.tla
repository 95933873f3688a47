------------------------------ MODULE Services ------------------------------
(***************************************************************************)
(* The services process_event and its speech output ask over HTTP          *)
(* (src/common/codeHelper.cpp, src/common/speech): the sentiment of an     *)
(* answer, the text in a recogniser's result, and a token and a recording  *)
(* of the speech service.                                                  *)
(*                                                                         *)
(* libcurl hands the body of an answer to a callback in pieces; the        *)
(* callback of the JSON answers keeps the last piece only.                 *)
(***************************************************************************)
EXTENDS Json, TLC

CONSTANTS Scores,    \* sequences of scores of a sentiment answer
          Texts,     \* texts of the recogniser
          Tokens,    \* tokens of the speech service
          Headers,   \* sequences of headers of a recording, TRUE for audio
          Pieces     \* bodies of a recording

\* Names of members, and the scope of the token that is needed.
positive_prob == <<"p">>
items == <<"i">>
result == <<"r">>
text == <<"t">>
access_token == <<"k">>
scope == <<"c">>
TTS_SCOPE == "S"

NULL == <<"NULL">>
\* What a buffer holds that nothing was written to, and what "%s" makes of NULL.
Unset == <<"unset">>
NullText == <<"(null)">>

VARIABLES asked,     \* the kind of request under way, or "none"
          pieces,    \* what the service has still to send
          response,  \* what the callback has kept
          sent,      \* history: the reply, and whether it came whole
          got,       \* what the last request returned
          speech     \* the recording: headers and body to come, its file

vars == <<asked, pieces, response, sent, got, speech>>

-----------------------------------------------------------------------------
(* Reading answers.                                                        *)

\* The item a text is parsed to; no text, no item.
Root(t) == IF t = NULL THEN Nothing ELSE cJSON_Parse(t)

\* "%s" of cJSON_Print.
Shown(item) == IF item = Nothing THEN NullText ELSE print_value(item, TRUE)

Crash == [kind |-> "crash"]
Read(value) == [kind |-> "value", value |-> value]

\* Mutant of parse_positive_prob: the first of the items.
ParseFirstProb(root) ==
  LET list == cJSON_GetObjectItem(root, items)
      all == Children(list)
  IN CASE root = Nothing -> Read(Unset)
       [] root # Nothing /\ list = Nothing -> Crash
       [] list # Nothing /\ all = <<>> -> Read(Unset)
       [] OTHER -> Read(Shown(cJSON_GetObjectItem(Head(all).item, positive_prob)))

\* The value of key in the last of the items of an answer.  The size of items that are not
\* there is read through NULL.
parse_positive_prob(root) ==
  LET list == cJSON_GetObjectItem(root, items)
      all == Children(list)
  IN CASE root = Nothing -> Read(Unset)
       [] root # Nothing /\ list = Nothing -> Crash
       [] list # Nothing /\ all = <<>> -> Read(Unset)
       [] OTHER -> Read(Shown(cJSON_GetObjectItem(Last(all).item, positive_prob)))

\* The text of a recogniser's result, with its quotation marks.
parse_ali_asr(root) ==
  LET found == cJSON_GetObjectItem(root, result)
  IN CASE root = Nothing -> Read(<<>>)
       [] root # Nothing /\ found = Nothing -> Crash
       [] OTHER -> Read(Shown(cJSON_GetObjectItem(found, text)))

\* The token, when the scope has the one that is needed.
parse_token(root) ==
  IF root # Nothing /\ TTS_SCOPE \in Range(Shown(cJSON_GetObjectItem(root, scope)))
    THEN Read(Shown(cJSON_GetObjectItem(root, access_token)))
    ELSE Read(Unset)

\* The value without its first and its last character.
notYinghao(s) == IF Len(s) <= 1 THEN <<>> ELSE SubSeq(s, 2, Len(s) - 1)
Stripped(token) == IF token.value = Unset THEN token ELSE Read(notYinghao(token.value))

\* What a request returns for what was kept of its answer.
Answer(kind, t) ==
  CASE kind = "sentiment" -> parse_positive_prob(Root(t))
    [] kind = "token" -> Stripped(parse_token(Root(t)))

-----------------------------------------------------------------------------
(* Requests.                                                               *)

\* What the services say: the item, and the value in it (NULL for a reply that
\* has none).
Reply(kind, item, value) == [kind |-> kind, item |-> item, value |-> value]
Probability(n) == Object(<<Member(positive_prob, Number(n)), Member(scope, Number(0))>>)
SentimentReply(ns) ==
  Reply("sentiment",
        Object(<<Member(text, String(<<"ni">>)),
                 Member(items, Array([i \in DOMAIN ns |-> Probability(ns[i])]))>>),
        print_number(Last(ns)))
AsrReply(s) ==
  Reply("asr", Object(<<Member(result, Object(<<Member(text, String(s))>>))>>),
        print_string_ptr(s))
TokenReply(s) ==
  Reply("token",
        Object(<<Member(access_token, String(s)), Member(scope, String(<<"x", TTS_SCOPE>>))>>),
        s)
Replies ==
  {SentimentReply(ns) : ns \in Scores} \cup {AsrReply(s) : s \in Texts}
    \cup {TokenReply(s) : s \in Tokens}
    \cup {Reply(kind, Object(<<Member(scope, String(<<"x">>))>>), NULL) :
            kind \in {"sentiment", "asr", "token"}}

\* A service may send what is not ASCII by its code.
Ascii(t) == FlattenSeq([i \in DOMAIN t |-> IF t[i] = "ni" THEN <<"\\", "u", Code["ni"]>> ELSE <<t[i]>>])
SentAs(item) == {print_value(item, TRUE), Ascii(print_value(item, FALSE))}

NoSpeech == [headers |-> <<>>, body |-> <<>>, has_error |-> TRUE,
             file |-> "none", data |-> <<>>, all |-> <<>>, open |-> FALSE, said |-> FALSE]

Init ==
  /\ asked = "none" /\ pieces = <<>> /\ response = NULL /\ speech = NoSpeech
  /\ sent = [value |-> NULL, whole |-> TRUE]
  /\ got = Read(Unset)

\* The process is there and asks for nothing.
Idle == asked = "none" /\ ~ speech.open /\ got # Crash

\* A request is made; its reply comes in one piece or in two.
Ask(reply, t) ==
  /\ Idle /\ reply.kind # "asr"
  /\ asked' = reply.kind
  /\ \E cut \in 0 .. Len(t) - 1 :
       /\ pieces' = IF cut = 0 THEN <<t>> ELSE <<SubSeq(t, 1, cut), Behind(t, cut)>>
       /\ sent' = [value |-> reply.value, whole |-> cut = 0]
  /\ response' = NULL /\ got' = Read(Unset) /\ speech' = NoSpeech

\* cbwritefunc, writefunc: the block is made as long as this piece, and the
\* piece is copied to its start.
cbwritefunc ==
  /\ asked # "none" /\ pieces # <<>>
  /\ response' = Head(pieces)
  /\ pieces' = Tail(pieces)
  /\ UNCHANGED <<asked, sent, got, speech>>

\* The answer has come, or the request has failed: what was kept is read.  The
\* token of a failed request is not.
Return(failed) ==
  /\ asked # "none"
  /\ failed \/ pieces = <<>>
  /\ got' = IF failed /\ asked = "token" THEN Read(Unset) ELSE Answer(asked, response)
  /\ sent' = [sent EXCEPT !.whole = @ /\ ~ failed]
  /\ asked' = "none" /\ pieces' = <<>> /\ response' = NULL
  /\ UNCHANGED speech

\* getAliAsrTxt: the recogniser's result is a header of an event.
getAliAsrTxt(reply, t) ==
  /\ Idle /\ reply.kind = "asr"
  /\ sent' = [value |-> reply.value, whole |-> TRUE]
  /\ got' = parse_ali_asr(Root(t))
  /\ speech' = NoSpeech
  /\ UNCHANGED <<asked, pieces, response>>

-----------------------------------------------------------------------------
(* A recording (run_tts).                                                  *)

run_tts(headers, body) ==
  /\ Idle
  /\ speech' = [NoSpeech EXCEPT !.headers = headers, !.body = body, !.all = body, !.open = TRUE]
  /\ sent' = [value |-> NULL, whole |-> TRUE] /\ got' = Read(Unset)
  /\ UNCHANGED <<asked, pieces, response>>

\* An audio type takes the error back.
header_callback ==
  /\ speech.open /\ speech.headers # <<>>
  /\ speech' = [speech EXCEPT !.headers = Tail(@),
                              !.has_error = @ /\ ~ Head(speech.headers),
                              !.said = @ \/ Head(speech.headers)]
  /\ UNCHANGED <<asked, pieces, response, sent, got>>

\* writefunc_data: the first piece opens the file.
WritePiece ==
  /\ speech.open /\ speech.headers = <<>> /\ speech.body # <<>>
  /\ speech' = [speech EXCEPT
                  !.file = IF @ # "none" THEN @ ELSE IF speech.has_error THEN "txt" ELSE "wav",
                  !.data = Append(@, Head(speech.body)),
                  !.body = Tail(@)]
  /\ UNCHANGED <<asked, pieces, response, sent, got>>

\* All has come, the connection fails or the file can not be opened.
EndSpeech ==
  /\ speech.open
  /\ speech' = [speech EXCEPT !.open = FALSE]
  /\ UNCHANGED <<asked, pieces, response, sent, got>>

Next ==
  \/ \E reply \in Replies : \E t \in SentAs(reply.item) :
       Ask(reply, t) \/ getAliAsrTxt(reply, t)
  \/ cbwritefunc
  \/ \E failed \in BOOLEAN : Return(failed)
  \/ \E headers \in Headers, body \in Pieces : run_tts(headers, body)
  \/ header_callback \/ WritePiece \/ EndSpeech

Spec == Init /\ [][Next]_vars

-----------------------------------------------------------------------------
(* Properties.                                                             *)

\* A reply that comes whole gives its value, however it is printed; one that
\* was cut or broken off gives its value, an unset buffer or the crash, but
\* never another value (src/common/speech/token.cpp:144-186).
ValueRead ==
  asked = "none" =>
    \/ got = Read(sent.value)
    \/ sent.whole = FALSE /\ got \in {Crash, Read(Unset)}
    \/ sent.value = NULL

\* A recording is named as one only when the service said it is, and has the
\* pieces that came, in order (src/common/speech/ttscurl.c:24-53).
RecordingNamed ==
  /\ speech.file = "wav" => speech.said
  /\ speech.data \o speech.body = speech.all

AnswersRead == ValueRead /\ RecordingNamed
=============================================================================
