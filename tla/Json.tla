-------------------------------- MODULE Json --------------------------------
(***************************************************************************)
(* JSON texts (src/esl/esl_json.c): how an item is printed, how a text is  *)
(* parsed and how a member is found.                                       *)
(*                                                                         *)
(* A text is a sequence of characters; the words null, true and false, the *)
(* four digits of \u and any run of the layout are one character each.  A  *)
(* number is held in units of the last digit that %f prints, which is the  *)
(* second here and the sixth in the code.                                  *)
(*                                                                         *)
(* An item is a record of its type and of what the type has: n, s, or      *)
(* children, a sequence of pairs of a name and an item.                    *)
(***************************************************************************)
EXTENDS Integers, Sequences, FiniteSets, SequencesExt

\* The name of an array's element.
NoName == <<"no name">>

Nothing == [type |-> "none"]
Null == [type |-> "null"]
Bool(b) == [type |-> IF b THEN "true" ELSE "false"]
Number(n) == [type |-> "number", n |-> n]
String(s) == [type |-> "string", s |-> s]
Array(items) ==
  [type |-> "array",
   children |-> [i \in DOMAIN items |-> [name |-> NoName, item |-> items[i]]]]
Object(members) == [type |-> "object", children |-> members]
Member(name, item) == [name |-> name, item |-> item]

Words == {"null", "true", "false"}
Digits == {"0", "1", "2", "3", "4", "5", "6", "7", "8", "9"}

\* Characters that are escaped by a letter, those that are escaped by their
\* code, and those that come as two codes.
Letter == [c \in {"\"", "\\", "\n"} |-> IF c = "\n" THEN "n" ELSE c]
Code == [c \in {"SOH", "ni"} |-> IF c = "SOH" THEN "0001" ELSE "4f60"]
High == "d83d"
Low == "de00"
Pair == "smile"

-----------------------------------------------------------------------------
(* Printing.                                                               *)

RECURSIVE DigitsOf(_)
DigitsOf(n) ==
  IF n < 10 THEN <<ToString(n)>> ELSE DigitsOf(n \div 10) \o <<ToString(n % 10)>>

\* %d for an integer, else %f.
print_number(n) ==
  LET abs == IF n < 0 THEN -n ELSE n
  IN (IF n < 0 THEN <<"-">> ELSE <<>>)
       \o DigitsOf(abs \div 100)
       \o (IF abs % 100 = 0 THEN <<>>
           ELSE <<".", ToString((abs \div 10) % 10), ToString(abs % 10)>>)

Escaped(c) ==
  CASE c \in DOMAIN Letter -> <<"\\", Letter[c]>>
    [] c = "SOH" -> <<"\\", "u", Code[c]>>
    [] OTHER -> <<c>>

print_string_ptr(s) ==
  <<"\"">> \o FlattenSeq([i \in DOMAIN s |-> Escaped(s[i])]) \o <<"\"">>

Layout(fmt) == IF fmt THEN <<" ">> ELSE <<>>

RECURSIVE print_value(_, _)

print_array(item, fmt) ==
  LET Entry(i) == print_value(item.children[i].item, fmt)
                    \o (IF i < Len(item.children) THEN <<",">> \o Layout(fmt) ELSE <<>>)
  IN <<"[">> \o FlattenSeq([i \in DOMAIN item.children |-> Entry(i)]) \o <<"]">>

print_object(item, fmt) ==
  LET Entry(i) == Layout(fmt) \o print_string_ptr(item.children[i].name)
                    \o <<":">> \o Layout(fmt)
                    \o print_value(item.children[i].item, fmt)
                    \o (IF i < Len(item.children) THEN <<",">> ELSE <<>>)
  IN <<"{">> \o FlattenSeq([i \in DOMAIN item.children |-> Entry(i)])
       \o Layout(fmt) \o <<"}">>

print_value(item, fmt) ==
  CASE item.type = "number" -> print_number(item.n)
    [] item.type = "string" -> print_string_ptr(item.s)
    [] item.type = "array" -> print_array(item, fmt)
    [] item.type = "object" -> print_object(item, fmt)
    [] OTHER -> <<item.type>>

-----------------------------------------------------------------------------
(* Parsing.  What has been parsed, and the text behind it.                 *)

Parsed(item, rest) == [ok |-> TRUE, item |-> item, rest |-> rest]
Failed == [ok |-> FALSE, item |-> Nothing, rest |-> <<>>]

Behind(t, n) == SubSeq(t, n + 1, Len(t))
Starts(t, S) == t # <<>> /\ Head(t) \in S

\* The longest beginning of t that has characters of S only.
Run(t, S) ==
  LET other == {i \in DOMAIN t : t[i] \notin S}
  IN IF other = {} THEN t ELSE SubSeq(t, 1, Min(other) - 1)

skip(t) == Behind(t, Len(Run(t, {" ", "\n"})))

ValueOf(digits) ==
  FoldLeft(LAMBDA n, c : 10 * n + (CHOOSE d \in 0 .. 9 : ToString(d) = c), 0, digits)

Shifted(n, k) == IF k >= 0 THEN n * 10 ^ k ELSE n \div 10 ^ (-k)

\* A sign, an integer with at most one leading zero, a fraction, an exponent:
\* each part is handed what follows it in t.
parse_exponent(t, minus, digits, decimals) ==
  LET power == Starts(t, {"e", "E"})
      signed == power /\ Len(t) > 1 /\ t[2] \in {"+", "-"}
      rest == Behind(t, CASE signed -> 2 [] power /\ ~ signed -> 1 [] OTHER -> 0)
      exp == IF power THEN Run(rest, Digits) ELSE <<>>
      scale == (IF signed /\ t[2] = "-" THEN -1 ELSE 1) * ValueOf(exp)
      n == Shifted(ValueOf(digits), 2 - decimals + scale)
  IN Parsed(Number(IF minus THEN -n ELSE n), Behind(rest, Len(exp)))

parse_fraction(t, minus, int) ==
  LET frac == IF Starts(t, {"."}) THEN Run(Tail(t), Digits) ELSE <<>>
  IN parse_exponent(IF frac = <<>> THEN t ELSE Behind(t, 1 + Len(frac)),
                    minus, int \o frac, Len(frac))

parse_integer(t, minus) ==
  LET digits == IF Starts(t, {"0"}) THEN Tail(t) ELSE t
      int == IF Starts(digits, Digits \ {"0"}) THEN Run(digits, Digits) ELSE <<>>
  IN parse_fraction(Behind(digits, Len(int)), minus, int)

parse_number(t) ==
  LET minus == Starts(t, {"-"})
  IN parse_integer(IF minus THEN Tail(t) ELSE t, minus)

IsCode(t) == Starts(t, Range(Code) \cup {High, Low, "0000"})

\* The character that the codes at the front of t stand for, if any, and how
\* much of t they take.
FromCode(t) ==
  LET Char(s, n) == [chars |-> s, taken |-> n]
  IN CASE ~ IsCode(t) -> Char(<<>>, 0)
       [] Starts(t, {Low, "0000"}) -> Char(<<>>, 1)
       [] Starts(t, Range(Code)) -> Char(<<CHOOSE c \in DOMAIN Code : Code[c] = Head(t)>>, 1)
       [] /\ Starts(t, {High})
          /\ ~ (Len(t) >= 4 /\ t[2] = "\\" /\ t[3] = "u" /\ IsCode(Behind(t, 3))) ->
            Char(<<>>, 1)
       [] OTHER -> Char(IF t[4] = Low THEN <<Pair>> ELSE <<>>, 4)

RECURSIVE Unescaped(_)
\* The characters of a string up to its quotation mark, or to the end.
Unescaped(t) ==
  IF t = <<>> \/ Head(t) = "\"" THEN [s |-> <<>>, rest |-> t]
  ELSE LET coded == FromCode(Behind(t, 2))
           c == IF Head(t) # "\\" THEN [chars |-> <<Head(t)>>, taken |-> 1]
                ELSE IF Len(t) = 1 THEN [chars |-> <<>>, taken |-> 1]
                ELSE IF t[2] = "u" THEN [coded EXCEPT !.taken = @ + 2]
                ELSE [chars |-> <<IF t[2] = "n" THEN "\n" ELSE t[2]>>, taken |-> 2]
           more == Unescaped(Behind(t, c.taken))
       IN [more EXCEPT !.s = c.chars \o @]

parse_string(t) ==
  IF ~ Starts(t, {"\""}) THEN Failed
  ELSE LET text == Unescaped(Tail(t))
       IN Parsed(String(text.s), IF text.rest = <<>> THEN <<>> ELSE Tail(text.rest))

RECURSIVE parse_value(_)

\* A child that has been parsed, by its name.
Named(name, value) == [value EXCEPT !.item = Member(name, @)]

\* A member of an object: what follows its name.
parse_member(name) ==
  LET rest == skip(name.rest)
  IN IF name.ok /\ Starts(rest, {":"})
       THEN Named(name.item.s, parse_value(skip(Tail(rest)))) ELSE Failed

\* One member of an object, or one element of an array.
parse_child(t, named) ==
  IF named THEN parse_member(parse_string(t)) ELSE Named(NoName, parse_value(skip(t)))

\* A child before others.
Before(item, more) == IF more.ok THEN [more EXCEPT !.item = <<item>> \o @] ELSE Failed

RECURSIVE parse_children(_, _, _)
\* A child, and those behind it up to the closing bracket.
parse_rest(child, named, close) ==
  LET rest == skip(child.rest)
  IN CASE child.ok /\ Starts(rest, {close}) -> Parsed(<<child.item>>, Tail(rest))
       [] child.ok /\ Starts(rest, {","}) ->
            Before(child.item, parse_children(skip(Tail(rest)), named, close))
       [] OTHER -> Failed
parse_children(t, named, close) == parse_rest(parse_child(t, named), named, close)

List(type, children) ==
  IF children.ok THEN [children EXCEPT !.item = [type |-> type, children |-> @]] ELSE Failed

parse_list(t, type, named, close) ==
  LET first == skip(Tail(t))
  IN IF Starts(first, {close})
       THEN Parsed([type |-> type, children |-> <<>>], Tail(first))
       ELSE List(type, parse_children(first, named, close))

parse_array(t) == parse_list(t, "array", FALSE, "]")
parse_object(t) == parse_list(t, "object", TRUE, "}")

parse_value(t) ==
  CASE Starts(t, Words) -> Parsed([type |-> Head(t)], Tail(t))
    [] Starts(t, {"\""}) -> parse_string(t)
    [] Starts(t, {"-"} \cup Digits) -> parse_number(t)
    [] Starts(t, {"["}) -> parse_array(t)
    [] Starts(t, {"{"}) -> parse_object(t)
    [] OTHER -> Failed

\* What follows the item is not looked at.
cJSON_Parse(t) == parse_value(skip(t)).item

-----------------------------------------------------------------------------
(* Finding.                                                                *)

Children(item) == IF "children" \in DOMAIN item THEN item.children ELSE <<>>

\* Letters that differ in case only.
Fold(s) == [i \in DOMAIN s |-> IF s[i] = "A" THEN "a" ELSE s[i]]

\* The first member with the name, in any case.
cJSON_GetObjectItem(item, name) ==
  LET at == {i \in DOMAIN Children(item) :
               /\ Children(item)[i].name # NoName
               /\ Fold(Children(item)[i].name) = Fold(name)}
  IN IF at = {} THEN Nothing ELSE Children(item)[Min(at)].item
=============================================================================
