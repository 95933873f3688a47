------------------------------ MODULE EslEvent ------------------------------
(***************************************************************************)
(* An event (src/esl/esl_event.c): a linked list of headers with a tail    *)
(* pointer, whose values are texts or arrays of texts; adding a header at  *)
(* an end, by pushing or by index; deleting, merging, copying; and the two *)
(* texts an event is sent as, plain and JSON, with their readers.          *)
(*                                                                         *)
(* Texts are sequences of tokens: "ARRAY::", "|:" and letters.  A header   *)
(* name stands for its spellings (names are compared without case), so     *)
(* the hash kept with a header is left out: it can only agree.  Memory is  *)
(* a set of cells, one for each header.                                    *)
(***************************************************************************)
EXTENDS Integers, Sequences, FiniteSets, SequencesExt

CONSTANTS Names,     \* header names, but for those below
          Letters,   \* what texts are made of, besides the two marks
          Texts,     \* the values of headers called by one of Names
          Kinds,     \* the names and subclasses events are created with
          Given,     \* the headers given to the calls, and the bodies
          Bodies,
          Indexes,   \* the i of headers given as name[i]
          MaxHeaders, \* bound: the headers allocated
          MaxIndex,  \* the largest index taken: 4000
          MaxSize    \* bound: the tokens in an event's headers

ARR == "ARRAY::"
SEP == "|:"
Token == Letters \cup {ARR, SEP, "#", "_undef_"}

\* The marks of arrays in a text stand at its start, or right behind each
\* other or a "|:".
Marked(t) ==
  \A i \in DOMAIN t :
    t[i] = ARR => t[1] = ARR /\ (i > 1 => t[i - 1] \in {ARR, SEP})
Text == {t \in Seq(Token) : Marked(t)}

\* Names the code itself looks at, and null pointers, to a header and to a text.
Body == "_body"
EventName == "Event-Name"
Subclass == "Event-Subclass"
Length == "Content-Length"
Special == {Body, EventName, Subclass, Length}
NULL == 0
NoText == <<"NULL">>
AnyName == Names \cup Special
Word == Seq(Letters) \cup {NoText}

\* ESL_STACK_*: an enumeration, the code takes its bits for flags.
BOTTOM == 0
TOP == 1
PUSH == 2
UNSHIFT == 3
Sense == BOTTOM .. UNSHIFT

ASSUME EventAssumption ==
  /\ Texts \subseteq Text /\ <<>> \in Texts /\ Bodies \subseteq Text
  /\ Kinds \subseteq [name : Word, subclass : Word]
  /\ Names \cap Special = {}
  /\ Given \subseteq [name : AnyName, value : Texts]
  /\ Letters \cap {ARR, SEP, "NULL"} = {}
  /\ Indexes \subseteq Int /\ {MaxIndex, MaxHeaders, MaxSize} \subseteq Nat

VARIABLE event  \* the event a caller works on

vars == event

-----------------------------------------------------------------------------
(* Texts.                                                                  *)

\* The text of an array: its elements apart, marked if there are several.
Render(arr) ==
  IF Len(arr) = 1 THEN arr[1]
  ELSE <<ARR>> \o FoldLeft(LAMBDA t, e : t \o <<SEP>> \o e, Head(arr), Tail(arr))

\* Mutant of PiecesOf: room for one piece too few.
PiecesShort(t) ==
  LET ps == FoldLeft(LAMBDA qs, k : IF k = SEP THEN Append(qs, <<>>)
                                    ELSE [qs EXCEPT ![Len(qs)] = Append(@, k)],
                     << <<>> >>, t)
  IN  IF Len(ps) > 1 THEN Front(ps) ELSE ps

\* The pieces of a text between its "|:".
PiecesOf(t) ==
  FoldLeft(LAMBDA ps, k : IF k = SEP THEN Append(ps, <<>>)
                          ELSE [ps EXCEPT ![Len(ps)] = Append(@, k)],
           << <<>> >>, t)

\* A piece without the marks it starts with.
Unmarked(t) ==
  LET I == {i \in DOMAIN t : t[i] # ARR}
  IN  IF I = {} THEN <<>> ELSE SubSeq(t, Min(I), Len(t))

-----------------------------------------------------------------------------
(* The header list, as functions of the event e.                           *)

Empty ==
  [mem |-> [c \in {} |-> NULL], headers |-> NULL, last_header |-> NULL,
   body |-> NoText, uniq |-> FALSE, subclass |-> NoText]

NextOf(e, c) == IF c = NULL THEN NULL ELSE e.mem[c].next

\* The cells met from the first header on, in order.
Chain(e) ==
  LET n == Cardinality(DOMAIN e.mem)
      at[i \in 0 .. n] == IF i = 0 THEN e.headers ELSE NextOf(e, at[i - 1])
  IN  [i \in 1 .. Cardinality({j \in 0 .. n : at[j] # NULL}) |-> at[i - 1]]

\* The cell of the first header called n, or NULL.
get_header_ptr(e, n) ==
  LET ch == Chain(e)
      found == {i \in DOMAIN ch : e.mem[ch[i]].name = n}
  IN  IF found = {} THEN NULL ELSE ch[Min(found)]

\* The memory malloc returns: the first cell that is free.
NewCell(e) ==
  LET free == 1 .. Cardinality(DOMAIN e.mem) + 1 \ DOMAIN e.mem
  IN  CHOOSE c \in free : \A d \in free : c <= d

\* A header of its own, not in the list yet.
new_header(e, n) ==
  [e EXCEPT !.mem = [c \in DOMAIN e.mem \cup {NewCell(e)} |->
     IF c = NewCell(e) THEN [name |-> n, value |-> NoText, array |-> <<>>, next |-> NULL]
     ELSE e.mem[c]]]

\* The flags of the sense, as the code tests them.
Pushing(s) == s \in {PUSH, UNSHIFT}
Stacking(s) == s # BOTTOM
OnTop(s) == s \in {TOP, UNSHIFT}

\* Mutant of Linked: on top of an empty list, the tail stays null.
LinkedNoTail(e, s, c) ==
  IF OnTop(s) THEN [e EXCEPT !.mem[c].next = e.headers, !.headers = c]
  ELSE IF e.last_header = NULL
  THEN [e EXCEPT !.headers = c, !.last_header = c]
  ELSE [e EXCEPT !.mem[e.last_header].next = c, !.last_header = c]

\* Header c goes to an end of the list.
Linked(e, s, c) ==
  IF OnTop(s)
  THEN [e EXCEPT !.mem[c].next = e.headers, !.headers = c,
                 !.last_header = IF @ = NULL THEN c ELSE @]
  ELSE IF e.last_header = NULL
  THEN [e EXCEPT !.headers = c, !.last_header = c]
  ELSE [e EXCEPT !.mem[e.last_header].next = c, !.last_header = c]

\* Header c, met after lp, leaves the list and its cell is free.
Unlinked(e, lp, c) ==
  LET h == e.mem[c]
      f == IF lp = NULL THEN [e EXCEPT !.headers = h.next]
           ELSE [e EXCEPT !.mem[lp].next = h.next]
      g == [f EXCEPT !.last_header = IF c = @ \/ h.next = NULL THEN lp ELSE @]
  IN  [g EXCEPT !.mem = [d \in DOMAIN g.mem \ {c} |-> g.mem[d]]]

\* Every header called n goes; with a value v, only those of that value.
del_header_val(e, n, v) ==
  LET ch == Chain(e)
      Gone(f, c) == f.mem[c].name = n /\ (v = <<>> \/ f.mem[c].value = v)
      after[i \in 0 .. Len(ch)] ==
        IF i = 0 THEN [e |-> e, lp |-> NULL]
        ELSE LET a == after[i - 1] IN
             IF Gone(a.e, ch[i]) THEN [e |-> Unlinked(a.e, a.lp, ch[i]), lp |-> a.lp]
             ELSE [e |-> a.e, lp |-> ch[i]]
  IN  after[Len(ch)].e

del_header(e, n) == del_header_val(e, n, <<>>)

-----------------------------------------------------------------------------
(* Adding headers.                                                         *)

\* Text d becomes the value of header c, or, stacked, an element of it.
Stored(e, s, c, d) ==
  LET h == e.mem[c]
      old == IF h.value # NoText /\ h.array = <<>> THEN <<h.value>> ELSE h.array
      new == IF Pushing(s) THEN Append(old, d) ELSE <<d>> \o old
  IN  [e EXCEPT !.mem[c] = IF Stacking(s) THEN [h EXCEPT !.array = new, !.value = Render(new)]
                           ELSE [h EXCEPT !.value = d]]

\* A header n of its own with text d.
FreshHeader(e, s, n, d) ==
  Linked(Stored(new_header(e, n), s, NewCell(e), d), s, NewCell(e))

set_body(e, b) == [e EXCEPT !.body = b]

\* One element of an array text.  Where there is no header yet, an empty one
\* is dropped and a marked one is taken for an array once more.
Piece(e0, n, p) ==
  LET c == get_header_ptr(e0, n)
      q == IF c # NULL THEN p ELSE Unmarked(p)
      e == IF n = Body THEN set_body(e0, IF q = <<>> /\ p # <<>> THEN <<ARR>> ELSE q) ELSE e0
  IN  IF c # NULL THEN Stored(e, PUSH, c, p)
      ELSE IF q = <<>> THEN e
      ELSE FreshHeader(e, PUSH, n, q)

\* The elements of the array text d, one by one.  A bare mark has none.
add_array(e, n, d) ==
  IF Tail(d) = <<>> THEN e
  ELSE FoldLeft(LAMBDA f, p : Piece(f, n, p), e, PiecesOf(Tail(d)))

\* esl_event_base_add_header for a plain name.  To stack on a header that is
\* there clears the top's flag, so that the top is then no sense at all.
base_add_header(e0, s, n, d) ==
  LET e == IF n = Body THEN set_body(e0, d) ELSE e0
      c == IF Stacking(s) THEN get_header_ptr(e, n) ELSE NULL
      u == IF e.uniq THEN del_header(e, n) ELSE e
  IN  IF c # NULL THEN Stored(e, IF OnTop(s) THEN s - 1 ELSE s, c, d)
      ELSE IF d = <<>> THEN del_header(e, n)
      ELSE IF ARR \in ToSet(d) THEN add_array(u, n, d)
      ELSE FreshHeader(u, s, n, d)

\* The same for a name n[i]: an element inside the array is replaced and the
\* value stays; one beyond extends the array with empty ones; an index out of
\* range leaves a header that was not there allocated, and not in the list.
base_add_index(e, s, n, i, d) ==
  LET c == get_header_ptr(e, n)
      f == IF c = NULL THEN new_header(e, n) ELSE e
      h == IF c = NULL THEN NewCell(e) ELSE c
      old == f.mem[h]
      arr == old.array
      new == [j \in 1 .. i + 1 |-> IF j = i + 1 THEN d
                                   ELSE IF j <= Len(arr) THEN arr[j] ELSE <<>>]
      g == [f EXCEPT !.mem[h] = [old EXCEPT !.array = new, !.value = Render(new)]]
  IN  IF i \notin 0 .. MaxIndex THEN f
      ELSE IF i < Len(arr) THEN [f EXCEPT !.mem[h] = [old EXCEPT !.array = [arr EXCEPT ![i + 1] = d]]]
      ELSE IF c = NULL THEN Linked(g, s, h) ELSE g

-----------------------------------------------------------------------------
(* Events made from events.                                                *)

\* Texts d are added to a header called n, in order.
add_all(e, s, n, ds) == FoldLeft(LAMBDA f, d : base_add_header(f, s, n, d), e, ds)

HeaderTexts(h) == IF h.array # <<>> THEN h.array ELSE <<h.value>>

\* Mutant of Added: a plain value is pushed too.
AddedPushed(e, h) == add_all(e, PUSH, h.name, HeaderTexts(h))

\* One header of another event is added: an array is pushed text by text.
Added(e, h) ==
  add_all(e, IF h.array # <<>> THEN PUSH ELSE BOTTOM, h.name, HeaderTexts(h))

\* The headers of an event, in order.
HeadersOf(e) == LET ch == Chain(e) IN [i \in DOMAIN ch |-> e.mem[ch[i]]]

merge(e, from) == FoldLeft(Added, e, HeadersOf(from))

\* esl_event_create_subclass: a clone has no name.
create_subclass(name, sub) ==
  LET e == IF name = NoText THEN Empty
           ELSE base_add_header(Empty, BOTTOM, EventName, name)
  IN  IF sub = NoText THEN e
      ELSE base_add_header([e EXCEPT !.subclass = sub], BOTTOM, Subclass, sub)

\* The subclass is not copied twice.  The priority is not copied at all.
dup(e) ==
  LET new == [create_subclass(NoText, e.subclass) EXCEPT !.uniq = e.uniq]
      e1 == FoldLeft(LAMBDA f, h : IF e.subclass # NoText /\ h.name = Subclass THEN f
                                   ELSE Added(f, h),
                     new, HeadersOf(e))
  IN  IF e.body = NoText THEN e1 ELSE set_body(e1, e.body)

-----------------------------------------------------------------------------
(* The two texts an event is sent as, and what their readers make of them. *)
(* Coding a value for a URL and back, and quoting it for JSON, change      *)
(* nothing here.  The number given as length is a text of its own.         *)

Number == <<"#">>
undef == <<"_undef_">>
Line(n, v) == [name |-> n, value |-> v]

\* esl_event_serialize: lines, and the body.  An array goes by its value.
serialize(e) ==
  [lines |-> LET hs == HeadersOf(e)
                 ls == [i \in DOMAIN hs |->
                         Line(hs[i].name, IF hs[i].value = <<>> THEN undef ELSE hs[i].value)]
             IN  IF e.body \in {NoText, <<>>} THEN ls ELSE Append(ls, Line(Length, Number)),
   body |-> IF e.body = NoText THEN <<>> ELSE e.body]

\* A name replaces the one there is.
Renamed(e, n) == IF n = EventName THEN del_header(e, EventName) ELSE e

\* The reader of a plain event in esl_recv_event.
parse(text) ==
  LET step(e, l) == IF Head(l.value) = ARR THEN add_array(Renamed(e, l.name), l.name, l.value)
                    ELSE base_add_header(Renamed(e, l.name), BOTTOM, l.name, l.value)
      e1 == FoldLeft(step, Empty, text.lines)
  IN  IF get_header_ptr(e1, Length) = NULL THEN e1 ELSE set_body(e1, text.body)

\* esl_event_serialize_json: an array goes as one, a list of JSON strings.
serialize_json(e) ==
  LET item(n, v) == [name |-> n, value |-> v, array |-> <<>>, next |-> NULL]
  IN  IF e.body = NoText THEN HeadersOf(e)
      ELSE HeadersOf(e) \o <<item(Length, Number), item(Body, e.body)>>

\* esl_event_create_json.
create_json(items) ==
  LET step(e, it) ==
        IF it.array = <<>> /\ it.name = Body THEN set_body(e, it.value)
        ELSE Added(IF it.array = <<>> THEN Renamed(e, it.name) ELSE e, it)
  IN  FoldLeft(step, Empty, items)

-----------------------------------------------------------------------------
(* The calls.  Bounds: the headers allocated, and the size of the event.    *)

Size(e) ==
  LET size(h) == IF h.array = <<>> THEN Len(h.value)
                 ELSE FoldLeft(LAMBDA k, t : k + 1 + Len(t), 0, h.array)
      given == SelectSeq(HeadersOf(e), LAMBDA h : h.name \in Names \cup {Body})
  IN  FoldLeft(LAMBDA k, h : k + size(h), 0, given)

Becomes(e) ==
  Cardinality(DOMAIN e.mem) <= MaxHeaders /\ Size(e) <= MaxSize /\ event' = e

\* A new event, its caller perhaps asking for headers that are unique.
Init ==
  \E k \in Kinds, uniq \in BOOLEAN :
    event = [create_subclass(k.name, k.subclass) EXCEPT !.uniq = uniq]

add_header ==
  \E s \in Sense, h \in Given : Becomes(base_add_header(event, s, h.name, h.value))

add_index ==
  \E s \in {BOTTOM, TOP}, n \in Names, i \in Indexes, d \in Texts :
    Becomes(base_add_index(event, s, n, i, d))

delete ==
  \E h \in Given : Becomes(del_header(event, h.name)) \/ Becomes(del_header_val(event, h.name, h.value))

give_body == \E b \in Bodies : Becomes(set_body(event, b))

merge_in ==
  \E n \in Names, d, f \in Texts :
    LET from == base_add_header(base_add_header(Empty, BOTTOM, n, d), BOTTOM, n, f)
    IN  Becomes(merge(event, from))

copy == Becomes(dup(event))
send == Becomes(parse(serialize(event)))
send_json == Becomes(create_json(serialize_json(event)))

Next == add_header \/ add_index \/ delete \/ give_body \/ merge_in
          \/ copy \/ send \/ send_json
Spec == Init /\ [][Next]_vars

-----------------------------------------------------------------------------
(* Properties.                                                             *)

\* The memory holds headers and pointers to them, the texts are marked as
\* their readers expect (esl_event.c:384, 507, 563).
TypeOK ==
  /\ event.uniq \in BOOLEAN /\ event.body \in Text \cup {NoText} /\ event.subclass \in Word
  /\ DOMAIN event.mem \subseteq Nat \ {NULL}
  /\ {event.headers, event.last_header} \subseteq DOMAIN event.mem \cup {NULL}
  /\ \A c \in DOMAIN event.mem :
       event.mem[c] \in [name : AnyName, value : Text \cup {NoText}, array : Seq(Text),
                         next : DOMAIN event.mem \cup {NULL}]

\* Walking the list from its first header visits no header twice and ends at
\* the one last_header points to, whatever was deleted and added where
\* (esl_event.c:317-331, 579-597): no header is lost, none is used when freed.
ListShape ==
  LET ch == Chain(event)
  IN  /\ IsInjective(ch)
      /\ event.last_header = IF ch = <<>> THEN NULL ELSE Last(ch)
      /\ ch # <<>> => event.mem[event.last_header].next = NULL
      /\ \A c \in ToSet(ch) : event.mem[c].value # NoText

\* Only the first header of a name is ever an array: a header is pushed on the
\* first one found (esl_event.c:437-451), so its elements are never split over
\* two headers and merging or copying finds them in one place.
FirstIsArray ==
  LET hs == HeadersOf(event)
  IN  \A i, j \in DOMAIN hs : i < j /\ hs[i].name = hs[j].name => hs[j].array = <<>>

\* An event asked to have unique headers has one of each name, whichever way
\* they were added, merged, copied or indexed (ESL_EF_UNIQ_HEADERS,
\* esl_event.c:443, 497).
UniqueNames ==
  event.uniq => IsInjective([i \in DOMAIN HeadersOf(event) |-> HeadersOf(event)[i].name])

\* The list of headers is whole, an array is in the first header of its name
\* and unique names are unique, after any calls.
EventWhole == TypeOK /\ ListShape /\ FirstIsArray /\ UniqueNames

\* What a header must be for another event to be built from it: its value is
\* that of its array (not so after a rewrite at the top or of an element) and
\* it does not start with an empty text or a mark.
Solid(h) ==
  LET first == IF h.array = <<>> THEN h.value ELSE Head(h.array)
  IN  /\ first # <<>> /\ ARR \notin ToSet(first)
      /\ h.array # <<>> => h.value = Render(h.array)

\* The headers of one name, in order.
Called(e, n) ==
  FoldLeft(LAMBDA hs, h : IF h.name = n THEN Append(hs, h) ELSE hs, <<>>, HeadersOf(e))
ValuesOf(hs) == [i \in DOMAIN hs |-> hs[i].value]
ArraysOf(hs) == [i \in DOMAIN hs |-> hs[i].array]
AllSolid(e, n) == \A h \in ToSet(HeadersOf(e)) : h.name = n => Solid(h)

\* No element of theirs has a mark between elements of its own.
AllApart(e, n) ==
  \A h \in ToSet(HeadersOf(e)) :
    h.name = n => \A i \in DOMAIN h.array : SEP \notin ToSet(h.array[i])

\* A copy, and an event sent as JSON, has name by name the same headers in the
\* same order, as values and as arrays: adding them one by one in esl_event_dup
\* and esl_event_create_json neither merges nor splits them.  The body stays,
\* if no header bears its name.
CopiesAgree ==
  \A e \in {dup(event), create_json(serialize_json(event))} :
    /\ Called(event, Body) = <<>> => e.body = event.body
    /\ \A n \in Names :
         AllSolid(event, n) =>
           /\ ValuesOf(Called(e, n)) = ValuesOf(Called(event, n))
           /\ ArraysOf(Called(e, n)) = ArraysOf(Called(event, n))

\* An event sent as text has the same values for its reader, if no element
\* has a mark between elements of its own: an array is found again in its value
\* (esl_event.c:548-570 against esl.c:1445-1449, esl_event.c:373-412).
PlainAgrees ==
  LET e == parse(serialize(event))
  IN  /\ event.body \notin {NoText, <<>>} => e.body = event.body
      /\ \A n \in Names :
           AllSolid(event, n) /\ AllApart(event, n) =>
             ValuesOf(Called(e, n)) = ValuesOf(Called(event, n))
=============================================================================
