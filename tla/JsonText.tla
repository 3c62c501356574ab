-------------------------------- MODULE JsonText --------------------------------
(***************************************************************************)
(* Reading a JSON text (json-c, json_tokener_parse_ex of json_tokener.c    *)
(* without flags, on a string that ends with its NUL): a machine over the  *)
(* characters with a level of its stack for every value that is open.      *)
(*                                                                         *)
(* The text is put together while it is read, of Lexemes, and ends after   *)
(* one of them or inside.  Not modelled: \u, fractions, signs, exponents,  *)
(* Infinity, NaN and letters of either case; memory does not run out.      *)
(***************************************************************************)
EXTENDS Integers, Sequences, SequencesExt

CONSTANTS
  Lexemes,    \* of characters: records [chars, kind, text]
  MaxLexemes, \* bound: lexemes of a text
  MaxDepth    \* max_depth, JSON_TOKENER_DEFAULT_DEPTH

JsonAssumption ==
  /\ MaxLexemes \in Nat /\ MaxDepth \in Nat \ {0}
  /\ \A l \in Lexemes :
       l.kind \in {"{", "}", "[", "]", ":", ",", "string", "number", "null", "true", "blank"}

VARIABLES
  lex,      \* the lexemes the text has up to now
  at,       \* char_offset, in the last of them
  cut,      \* the text is cut before this character
  levels,   \* tok->stack up to tok->depth
  obj,      \* the value of the level that was left last
  pb, quote_char,
  err,      \* "" is json_tokener_success
  pc,       \* "read", "out", "done"
  returned

vars == <<lex, at, cut, levels, obj, pb, quote_char, err, pc, returned>>

Quotes == {"\"", "'"}
Spaces == {" ", "\n"}

(* Values.                                                                 *)
Leaf(kind, text) == [kind |-> kind, text |-> text, items |-> <<>>]
Null == Leaf("null", <<>>)
Compound(kind, items) == [kind |-> kind, text |-> <<>>, items |-> items]

(* json_object_object_add: a name that is there gets the new value         *)
(* (OrderedTable, LinkHash).                                               *)
Added(o, key, v) ==
  LET there == {i \in DOMAIN o.items : o.items[i].key = key}
      item == [key |-> key, val |-> v]
  IN [o EXCEPT !.items = IF there = {} THEN Append(@, item)
                         ELSE [i \in DOMAIN @ |-> IF i \in there THEN item ELSE @[i]]]

(* json_object_array_add.                                                  *)
Grown(a, v) == [a EXCEPT !.items = Append(@, [key |-> <<>>, val |-> v])]

(* json_tokener_reset_level.                                               *)
Fresh == [state |-> "eatws", saved |-> "start", current |-> Null, field |-> <<>>, named |-> FALSE]

-----------------------------------------------------------------------------
(* The character under str, and the texts that go on from it.              *)

c == IF cut THEN "eof" ELSE Last(lex).chars[at]

Begin ==
  \/ cut = TRUE /\ lex = <<>> /\ at = 1
  \/ cut = FALSE /\ at = 1 /\ \E l \in Lexemes : lex = <<l>>

Init ==
  /\ Begin
  /\ levels = <<Fresh>> /\ obj = Null /\ pb = <<>> /\ quote_char = "\"" /\ err = ""
  /\ pc = "read" /\ returned = Null

(* ADVANCE_CHAR and PEEK_CHAR.                                             *)
Advance ==
  IF cut THEN UNCHANGED <<lex, at, cut>> /\ pc' = "out"
  ELSE /\ \/ /\ at < Len(Last(lex).chars) /\ at' = at + 1 /\ UNCHANGED <<lex, cut>>
          \/ /\ at = Len(Last(lex).chars) /\ Len(lex) < MaxLexemes
             /\ \E l \in Lexemes : lex' = Append(lex, l)
             /\ at' = 1 /\ UNCHANGED cut
          \/ cut' = TRUE /\ at' = at + 1 /\ UNCHANGED lex
       /\ UNCHANGED pc

(* goto redo_char: the same character again.                               *)
Redo == UNCHANGED <<lex, at, cut, pc>>

(* goto out.                                                               *)
Leave(e) ==
  /\ err' = e /\ pc' = "out"
  /\ UNCHANGED <<lex, at, cut>>

Depth == Len(levels) - 1
Top == Last(levels)
In(state) == pc = "read" /\ Top.state = state

(* tok->stack[tok->depth] becomes level; the rest stays.                   *)
TopIs(level) == levels' = [levels EXCEPT ![Len(levels)] = level]

To(state) == TopIs([Top EXCEPT !.state = state])
Then(saved) == TopIs([Top EXCEPT !.state = "eatws", !.saved = saved])
Got(v) == TopIs([Top EXCEPT !.state = "eatws", !.saved = "finish", !.current = v])

Quiet == UNCHANGED <<err, returned>>
NoBuffer == UNCHANGED <<pb, quote_char>>

Fail(e) == Leave(e) /\ NoBuffer /\ UNCHANGED <<levels, obj, returned>>

-----------------------------------------------------------------------------
(* The states.                                                             *)

EatWs ==
  /\ In("eatws") /\ Quiet
  /\ UNCHANGED <<obj, quote_char>>
  /\ \/ c \in Spaces /\ Advance /\ UNCHANGED <<pb, levels>>
     \/ c = "/" /\ pb' = <<c>> /\ To("comment_start") /\ Advance
     \/ c \notin Spaces \cup {"/"} /\ To(Top.saved) /\ Redo /\ UNCHANGED pb

Start ==
  /\ In("start")
  /\ \/ /\ UNCHANGED obj /\ Quiet
        /\ \/ /\ c = "{" /\ Advance /\ NoBuffer
              /\ TopIs([Top EXCEPT !.state = "eatws", !.saved = "object_field_start",
                                   !.current = Compound("object", <<>>)])
           \/ /\ c = "[" /\ Advance /\ NoBuffer
              /\ TopIs([Top EXCEPT !.state = "eatws", !.saved = "array",
                                   !.current = Compound("array", <<>>)])
           \/ c \in {"n", "t"} /\ To("literal") /\ pb' = <<>> /\ Redo /\ UNCHANGED quote_char
           \/ c \in Quotes /\ To("string") /\ pb' = <<>> /\ quote_char' = c /\ Advance
           \/ c = "1" /\ To("number") /\ pb' = <<>> /\ Redo /\ UNCHANGED quote_char
     \/ c \notin {"{", "[", "n", "t", "1"} \cup Quotes /\ Fail("unexpected")

(* A level that is done is left; the one before goes on with its value.    *)
Finish ==
  /\ In("finish") /\ NoBuffer /\ UNCHANGED returned
  /\ \/ Depth = 0 /\ Leave(err) /\ UNCHANGED <<levels, obj>>
     \/ /\ Depth > 0
        /\ obj' = Top.current /\ levels' = Front(levels)
        /\ Redo /\ UNCHANGED err

Words == {<<"n", "u", "l", "l">>, <<"t", "r", "u", "e">>}

(* json_tokener_state_null and _boolean: the character after the word is   *)
(* looked at, too; pb holds as many characters as st_pos counts.           *)
Literal ==
  /\ In("literal")
  /\ LET read == Append(pb, c)
     IN \/ /\ Len(pb) = 4 /\ Redo
           /\ Got(IF pb[1] = "n" THEN Null ELSE Leaf("true", <<>>))
           /\ pb' = read /\ Quiet /\ UNCHANGED <<obj, quote_char>>
        \/ /\ \E w \in Words : IsPrefix(read, w)
           /\ pb' = read /\ Advance /\ Quiet /\ UNCHANGED <<levels, obj, quote_char>>
        \/ /\ Len(pb) < 4 /\ \A w \in Words : ~IsPrefix(read, w)
           /\ Fail("word")

CommentStart ==
  /\ In("comment_start")
  /\ \/ /\ c \in {"*", "/"}
        /\ To(IF c = "*" THEN "comment" ELSE "comment_eol")
        /\ pb' = Append(pb, c) /\ Advance /\ Quiet /\ UNCHANGED <<obj, quote_char>>
     \/ c \notin {"*", "/"} /\ Fail("comment")

(* Comments are skipped; the end of the text inside of one is no error     *)
(* here.                                                                   *)
Comment ==
  /\ In("comment") /\ Quiet /\ NoBuffer /\ UNCHANGED obj
  /\ Advance /\ IF c = "*" THEN To("comment_end") ELSE UNCHANGED levels

CommentEol ==
  /\ In("comment_eol") /\ Quiet /\ NoBuffer /\ UNCHANGED obj
  /\ Advance /\ IF c = "\n" THEN To("eatws") ELSE UNCHANGED levels

CommentEnd ==
  /\ In("comment_end") /\ Quiet /\ NoBuffer /\ UNCHANGED obj
  /\ Advance /\ To(IF c = "/" THEN "eatws" ELSE "comment")

(* json_tokener_state_string and _object_field.                            *)
String ==
  /\ In("string") \/ In("object_field")
  /\ Quiet /\ UNCHANGED <<obj, quote_char>>
  /\ Advance
  /\ \/ /\ c = quote_char
        /\ IF Top.state = "string" THEN Got(Leaf("string", pb))
           ELSE TopIs([Top EXCEPT !.state = "eatws", !.saved = "object_field_end",
                                  !.field = pb, !.named = TRUE])
        /\ UNCHANGED pb
     \/ /\ c = "\\" /\ UNCHANGED pb
        /\ TopIs([Top EXCEPT !.state = "string_escape", !.saved = Top.state])
     \/ /\ c \notin {quote_char, "\\"} /\ UNCHANGED levels
        /\ pb' = IF cut THEN pb ELSE Append(pb, c)

Escapes == {"\"", "\\", "/", "n"}

StringEscape ==
  /\ In("string_escape")
  /\ \/ /\ c \in Escapes
        /\ pb' = Append(pb, IF c = "n" THEN "\n" ELSE c)
        /\ To(Top.saved) /\ Advance /\ Quiet /\ UNCHANGED <<obj, quote_char>>
     \/ c \notin Escapes /\ Fail("string")

AfterNumber == {",", "]", "}", "/"} \cup Spaces

Number ==
  /\ In("number")
  /\ \/ /\ c = "1" /\ pb' = Append(pb, c) /\ Advance
        /\ Quiet /\ UNCHANGED <<levels, obj, quote_char>>
     \/ c # "1" /\ Depth > 0 /\ c \notin AfterNumber /\ Fail("number")
     \/ /\ c # "1" /\ (Depth = 0 \/ c \in AfterNumber)
        /\ Got(Leaf("number", pb)) /\ Redo /\ Quiet /\ NoBuffer /\ UNCHANGED obj

-----------------------------------------------------------------------------
(* Arrays and objects.                                                     *)

(* Mutant: one level more than there is room for.                          *)
Deep_OffByOne == Depth >= MaxDepth

Deep == Depth >= MaxDepth - 1

(* The value of an entry gets a level of its own.                          *)
Open(state) == levels' = Append([levels EXCEPT ![Len(levels)].state = state], Fresh)

Array ==
  /\ In("array") \/ In("array_after_sep")
  /\ \/ c = "]" /\ Then("finish") /\ Advance /\ Quiet /\ NoBuffer /\ UNCHANGED obj
     \/ c # "]" /\ Deep /\ Fail("depth")
     \/ c # "]" /\ ~Deep /\ Open("array_add") /\ Redo /\ Quiet /\ NoBuffer /\ UNCHANGED obj

ArrayAdd ==
  /\ In("array_add") /\ Redo /\ Quiet /\ NoBuffer /\ UNCHANGED obj
  /\ TopIs([Top EXCEPT !.state = "eatws", !.saved = "array_sep", !.current = Grown(@, obj)])

ArraySep ==
  /\ In("array_sep")
  /\ \/ /\ \/ c = "]" /\ Then("finish")
           \/ c = "," /\ Then("array_after_sep")
        /\ Advance /\ Quiet /\ NoBuffer /\ UNCHANGED obj
     \/ c \notin {"]", ","} /\ Fail("array")

FieldStart ==
  /\ In("object_field_start") \/ In("object_field_start_after_sep")
  /\ \/ c = "}" /\ Then("finish") /\ Advance /\ Quiet /\ NoBuffer /\ UNCHANGED obj
     \/ /\ c \in Quotes /\ quote_char' = c /\ pb' = <<>>
        /\ To("object_field") /\ Advance /\ Quiet /\ UNCHANGED obj
     \/ c \notin {"}"} \cup Quotes /\ Fail("object_key_name")

FieldEnd ==
  /\ In("object_field_end")
  /\ \/ c = ":" /\ Then("object_value") /\ Advance /\ Quiet /\ NoBuffer /\ UNCHANGED obj
     \/ c # ":" /\ Fail("object_key_sep")

ObjectValue ==
  /\ In("object_value")
  /\ \/ Deep /\ Fail("depth")
     \/ ~Deep /\ Open("object_value_add") /\ Redo /\ Quiet /\ NoBuffer /\ UNCHANGED obj

ObjectValueAdd ==
  /\ In("object_value_add") /\ Redo /\ Quiet /\ NoBuffer /\ UNCHANGED obj
  /\ TopIs([state |-> "eatws", saved |-> "object_sep", field |-> <<>>, named |-> FALSE,
            current |-> Added(Top.current, Top.field, obj)])

ObjectSep ==
  /\ In("object_sep")
  /\ \/ /\ \/ c = "}" /\ Then("finish")
           \/ c = "," /\ Then("object_field_start_after_sep")
        /\ Advance /\ Quiet /\ NoBuffer /\ UNCHANGED obj
     \/ c \notin {"}", ","} /\ Fail("object_value_sep")

(* After out: the end of the text is an error unless a value is finished.  *)
Return ==
  LET e == IF cut /\ "finish" \notin {Top.state, Top.saved} THEN "eof" ELSE err
  IN /\ pc = "out" /\ pc' = "done"
     /\ err' = e
     /\ returned' = IF e = "" THEN Top.current ELSE Null
     /\ levels' = IF e = "" THEN <<Fresh>> ELSE levels
     /\ UNCHANGED <<lex, at, cut, obj, pb, quote_char>>

Next ==
  \/ EatWs \/ Start \/ Finish \/ Literal \/ Number \/ String \/ StringEscape
  \/ CommentStart \/ Comment \/ CommentEol \/ CommentEnd
  \/ Array \/ ArrayAdd \/ ArraySep
  \/ FieldStart \/ FieldEnd \/ ObjectValue \/ ObjectValueAdd \/ ObjectSep
  \/ Return

Spec == Init /\ [][Next]_vars

-----------------------------------------------------------------------------
(* What a text says: a parser by recursive descent over whole lexemes,     *)
(* with what json-c admits: comments, a comma before a closing bracket,    *)
(* names given twice, and anything behind the value.                       *)

CutInside == cut /\ lex # <<>> /\ at <= Len(Last(lex).chars)

(* The lexemes that count; digits next to each other are one number.       *)
Tokens ==
  LET given == IF CutInside THEN Front(lex) ELSE lex
      joins(i) == i > 1 /\ given[i].kind = "number" /\ given[i - 1].kind = "number"
      f[i \in 0..Len(given)] ==
        IF i = 0 THEN <<>>
        ELSE IF joins(i) THEN [f[i - 1] EXCEPT ![Len(f[i - 1])].text = @ \o given[i].text]
        ELSE IF given[i].kind = "blank" THEN f[i - 1]
        ELSE Append(f[i - 1], [kind |-> given[i].kind, text |-> given[i].text])
  IN Append(f[Len(given)], [kind |-> "end", text |-> <<>>])

(* The value at the head of s and what follows it; nothing if there is no  *)
(* value, d levels below the first.                                        *)
RECURSIVE Value(_, _), Elements(_, _, _), Members(_, _, _)

Value(s, d) ==
  CASE Head(s).kind \in {"string", "number", "null", "true"} ->
         {[v |-> Leaf(Head(s).kind, Head(s).text), rest |-> Tail(s)]}
    [] Head(s).kind = "[" -> Elements(Tail(s), d, Compound("array", <<>>))
    [] Head(s).kind = "{" -> Members(Tail(s), d, Compound("object", <<>>))
    [] OTHER -> {}

Elements(s, d, a) ==
  IF Head(s).kind = "]" THEN {[v |-> a, rest |-> Tail(s)]}
  ELSE IF d = MaxDepth - 1 THEN {}
  ELSE UNION {LET more == Grown(a, r.v)
              IN CASE Head(r.rest).kind = "]" -> {[v |-> more, rest |-> Tail(r.rest)]}
                   [] Head(r.rest).kind = "," -> Elements(Tail(r.rest), d, more)
                   [] OTHER -> {} : r \in Value(s, d + 1)}

Members(s, d, o) ==
  IF Head(s).kind = "}" THEN {[v |-> o, rest |-> Tail(s)]}
  ELSE IF d = MaxDepth - 1 \/ Head(s).kind # "string" \/ s[2].kind # ":" THEN {}
  ELSE UNION {LET more == Added(o, Head(s).text, r.v)
              IN CASE Head(r.rest).kind = "}" -> {[v |-> more, rest |-> Tail(r.rest)]}
                   [] Head(r.rest).kind = "," -> Members(Tail(r.rest), d, more)
                   [] OTHER -> {} : r \in Value(SubSeq(s, 3, Len(s)), d + 1)}

-----------------------------------------------------------------------------
(* Properties.                                                             *)

Adds == [array |-> "array_add", object |-> "object_value_add"]

(* The stack fits into what json_tokener_new allocates; every level below  *)
(* the last waits, as the kind of value it is, for the value above it, and *)
(* a name is kept exactly while its value is read (it would leak or be     *)
(* freed twice).                                                           *)
StackSound ==
  /\ Depth \in 0..MaxDepth - 1
  /\ \A i \in 1..Depth :
       LET l == levels[i]
       IN /\ l.current.kind \in DOMAIN Adds /\ l.state = Adds[l.current.kind]
          /\ l.named = (l.current.kind = "object")
  /\ Top.named =>
       {Top.state, Top.saved} \cap {"object_field_end", "object_value", "object_value_add"} # {}

EndsInComment ==
  CutInside /\ at > 1 /\ Last(lex).kind = "blank" /\ Last(lex).chars[1] = "/"

(* What is returned is what the text says, an error if it says nothing: no *)
(* cut, no nesting and no escape makes another document of it, the state   *)
(* of one level never passes to another.  Excepted are texts that end in a *)
(* comment (see CommentsEnd).                                              *)
ReturnsDocument ==
  pc = "done" /\ ~EndsInComment =>
    LET said == {r.v : r \in Value(Tokens, 0)}
    IN /\ err = "" => returned \in said
       /\ err # "" => said = {}

(* json_tokener.h: json_tokener_parse_ex returns NULL if the text is       *)
(* incomplete or invalid.  Not so for one that ends in a comment behind a  *)
(* value inside another: that value is returned.                           *)
CommentsEnd ==
  pc = "done" /\ EndsInComment /\ err = "" =>
    returned \in {r.v : r \in Value(Tokens, 0)}

(* All of it.                                                              *)
TextSound == StackSound /\ ReturnsDocument
=============================================================================
