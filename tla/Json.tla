---------------------------------- MODULE Json ----------------------------------
(***************************************************************************)
(* crates/ubus-facade/src/json.rs: the JSON tree, its renderer and its     *)
(* parser.  A text is a sequence of symbols, mostly of one character; a    *)
(* word that no rule looks into, a keyword or a name, may be one symbol.   *)
(*                                                                         *)
(* A value is a record with one field: [str |-> text], [int |-> n],        *)
(* [wide |-> digits] for an i64 beyond 32 bits, [bool |-> b],              *)
(* [arr |-> values], [obj |-> pairs] or [null |-> TRUE].                   *)
(***************************************************************************)
EXTENDS Integers, Sequences, Characters

LOCAL INSTANCE SequencesExt

Null       == [null |-> TRUE]
Str(text)  == [str |-> text]
Obj(pairs) == [obj |-> pairs]

KindOf(j) == CHOOSE k \in DOMAIN j : TRUE

(* Json::obj and a lookup: the first pair with that key. *)
Has(j, key) == "obj" \in DOMAIN j /\ \E i \in DOMAIN j.obj : j.obj[i][1] = <<key>>
Get(j, key) ==
  LET at == {i \in DOMAIN j.obj : j.obj[i][1] = <<key>>}
  IN  j.obj[CHOOSE i \in at : \A k \in at : i <= k][2]

Digit    == <<"0", "1", "2", "3", "4", "5", "6", "7", "8", "9">>
HexDigit == Digit \o <<"a", "b", "c", "d", "e", "f">>
HexUpper == <<"A", "B", "C", "D", "E", "F">>

(* The characters with an escape of their own; "BS" is a backspace.        *)
Escapes  == <<"\"", "\\", "\n", "\r", "\t", "BS", "\f">>
Letters  == <<"\"", "\\", "n", "r", "t", "b", "f">>

Within(c, text)   == \E i \in DOMAIN text : text[i] = c
IndexIn(c, text)  == CHOOSE i \in DOMAIN text : text[i] = c

(***************************************************************************)
(* The renderer.                                                           *)
(***************************************************************************)
Escape(c) ==
  IF Within(c, Escapes) THEN <<"\\", Letters[IndexIn(c, Escapes)]>>
  ELSE IF c \in DOMAIN Code /\ Code[c] < 32
    THEN <<"\\", "u", "0", "0", HexDigit[Code[c] \div 16 + 1], HexDigit[(Code[c] % 16) + 1]>>
  ELSE <<c>>

WriteEscaped(text) ==
  <<"\"">> \o FoldLeft(LAMBDA out, c : out \o Escape(c), <<>>, text) \o <<"\"">>

RECURSIVE Digits(_)
Digits(n) == IF n < 10 THEN <<Digit[n + 1]>> ELSE Append(Digits(n \div 10), Digit[(n % 10) + 1])

(* The absolute value of the smallest 32-bit integer is not one.           *)
WriteInt(n) ==
  IF n >= 0 THEN Digits(n)
  ELSE LET last == (10 - (n % 10)) % 10
           rest == -((n + last) \div 10)
       IN  <<"-">> \o (IF rest = 0 THEN <<>> ELSE Digits(rest)) \o <<Digit[last + 1]>>

(* The pieces between their brackets, with a comma and a line break after  *)
(* all but the last.  Indentation is left out.                             *)
Bracketed(open, pieces, close) ==
  <<open>> \o FoldLeftDomain(LAMBDA out, i : out \o (IF i > 1 THEN <<",", "\n">> ELSE <<>>) \o pieces[i],
                             <<>>, pieces)
           \o <<close>>

RECURSIVE Write(_)
Write(j) ==
  CASE KindOf(j) = "null" -> <<"n", "u", "l", "l">>
    [] KindOf(j) = "str"  -> WriteEscaped(j.str)
    [] KindOf(j) = "int"  -> WriteInt(j.int)
    [] KindOf(j) = "wide" -> j.wide
    [] KindOf(j) = "bool" -> IF j.bool THEN <<"t", "r", "u", "e">> ELSE <<"f", "a", "l", "s", "e">>
    [] KindOf(j) = "arr"  -> Bracketed("[", [i \in DOMAIN j.arr |-> Write(j.arr[i])], "]")
    [] KindOf(j) = "obj"  ->
         Bracketed("{", [i \in DOMAIN j.obj |->
                           WriteEscaped(j.obj[i][1]) \o <<":", " ">> \o Write(j.obj[i][2])], "}")

(***************************************************************************)
(* The parser.  A rule at a position yields [json, at], the position after *)
(* what it read, or [error].                                               *)
(***************************************************************************)
Fail(what) == [error |-> what]
Failed(r)  == "error" \in DOMAIN r

Peek(text, i) == IF i <= Len(text) THEN text[i] ELSE "end"

SkipWs(text, i) ==
  CHOOSE j \in i .. Len(text) + 1 :
    /\ j = Len(text) + 1 \/ text[j] \notin {" ", "\t", "\n", "\r"}
    /\ \A k \in i .. j - 1 : text[k] \in {" ", "\t", "\n", "\r"}

Literal(text, i, word, j) ==
  IF i + Len(word) - 1 <= Len(text) /\ SubSeq(text, i, i + Len(word) - 1) = word THEN [json |-> j, at |-> i + Len(word)]
  ELSE Fail("expected a literal")

(* from_str_radix reads either case, and a plus sign before the digits.    *)
HexValue(c) == IF Within(c, HexDigit) THEN IndexIn(c, HexDigit) - 1 ELSE IndexIn(c, HexUpper) + 9
Hex(c)      == Within(c, HexDigit \o HexUpper)
HexCode(four) ==
  LET digits == IF four[1] = "+" THEN Tail(four) ELSE four
  IN  IF \A i \in DOMAIN digits : Hex(digits[i])
        THEN FoldLeft(LAMBDA n, c : 16 * n + HexValue(c), 0, digits)
        ELSE -1

Surrogate(code) == code \in 55296 .. 57343
Char(code) ==
  IF code \in Codes THEN CHOOSE c \in DOMAIN Code : Code[c] = code ELSE Other

RECURSIVE StringFrom(_, _, _)
StringFrom(text, i, out) ==
  LET c    == Peek(text, i)
      esc  == Peek(text, i + 1)
      code == HexCode(SubSeq(text, i + 2, i + 5))
  IN  IF i > Len(text) THEN Fail("unterminated string")
      ELSE IF c = "\"" THEN [json |-> Str(out), at |-> i + 1]
      ELSE IF c # "\\" THEN StringFrom(text, i + 1, Append(out, c))
      ELSE IF i + 1 > Len(text) THEN Fail("truncated escape")
      ELSE IF Within(esc, Letters)
        THEN StringFrom(text, i + 2, Append(out, Escapes[IndexIn(esc, Letters)]))
      ELSE IF esc = "/" THEN StringFrom(text, i + 2, Append(out, "/"))
      ELSE IF esc # "u" THEN Fail("unknown escape")
      ELSE IF i + 5 > Len(text) THEN Fail("truncated \\u escape")
      ELSE IF code = -1 THEN Fail("invalid hex in a \\u escape")
      ELSE IF Surrogate(code) THEN Fail("lone surrogate in a \\u escape")
      ELSE StringFrom(text, i + 6, Append(out, Char(code)))

StringAt(text, i) ==
  IF Peek(text, i) # "\"" THEN Fail("expected a string") ELSE StringFrom(text, i + 1, <<>>)

(* Integers only.  AtMost compares digits without leading zeros.           *)
Max32 == <<"2", "1", "4", "7", "4", "8", "3", "6", "4", "7">>
Min32 == <<"2", "1", "4", "7", "4", "8", "3", "6", "4", "8">>
Max64 == <<"9","2","2","3","3","7","2","0","3","6","8","5","4","7","7","5","8","0","7">>
Min64 == <<"9","2","2","3","3","7","2","0","3","6","8","5","4","7","7","5","8","0","8">>

AtMost(digits, most) ==
  \/ Len(digits) < Len(most)
  \/ Len(digits) = Len(most) /\
       (\/ digits = most
        \/ \E i \in DOMAIN most : /\ IndexIn(digits[i], Digit) < IndexIn(most[i], Digit)
                                  /\ SubSeq(digits, 1, i - 1) = SubSeq(most, 1, i - 1))

Significant(digits) ==
  LET nonzero == {i \in DOMAIN digits : digits[i] # "0"}
  IN  IF nonzero = {} THEN <<>>
      ELSE SubSeq(digits, CHOOSE i \in nonzero : \A j \in nonzero : i <= j, Len(digits))

Number(text, i) ==
  LET negative == Peek(text, i) = "-"
      from     == IF negative THEN i + 1 ELSE i
      to       == CHOOSE j \in from .. Len(text) + 1 :
                    /\ ~Within(Peek(text, j), Digit)
                    /\ \A k \in from .. j - 1 : Within(text[k], Digit)
      digits   == SubSeq(text, from, to - 1)
      bare     == Significant(digits)
      shift(n, c) == 10 * n + (IF negative THEN 1 - IndexIn(c, Digit) ELSE IndexIn(c, Digit) - 1)
  IN  IF Peek(text, to) \in {".", "e", "E"} THEN Fail("fractional")
      ELSE IF digits = <<>> \/ ~AtMost(bare, IF negative THEN Min64 ELSE Max64)
        THEN Fail("number out of range for i64")
      ELSE [at   |-> to,
            json |-> IF AtMost(bare, IF negative THEN Min32 ELSE Max32)
                       THEN [int |-> FoldLeft(shift, 0, bare)]
                       ELSE [wide |-> SubSeq(text, i, to - 1)]]

RECURSIVE ValueAt(_, _), ObjectFrom(_, _, _), ArrayFrom(_, _, _)
ValueAt(text, i) ==
  LET c == Peek(text, i)
  IN  CASE c = "\"" -> StringAt(text, i)
        [] c = "{"  -> IF Peek(text, SkipWs(text, i + 1)) = "}"
                         THEN [json |-> Obj(<<>>), at |-> SkipWs(text, i + 1) + 1]
                         ELSE ObjectFrom(text, i + 1, <<>>)
        [] c = "["  -> IF Peek(text, SkipWs(text, i + 1)) = "]"
                         THEN [json |-> [arr |-> <<>>], at |-> SkipWs(text, i + 1) + 1]
                         ELSE ArrayFrom(text, i + 1, <<>>)
        [] c = "t"  -> Literal(text, i, <<"t", "r", "u", "e">>, [bool |-> TRUE])
        [] c = "f"  -> Literal(text, i, <<"f", "a", "l", "s", "e">>, [bool |-> FALSE])
        [] c = "n"  -> Literal(text, i, <<"n", "u", "l", "l">>, Null)
        [] c = "-" \/ Within(c, Digit) -> Number(text, i)
        [] OTHER    -> Fail("not a JSON value")

(* Two pairs of one key are both kept. *)
ObjectFrom(text, i, pairs) ==
  LET key   == StringAt(text, SkipWs(text, i))
      colon == SkipWs(text, key.at)
      val   == ValueAt(text, SkipWs(text, colon + 1))
      next  == SkipWs(text, val.at)
      all   == Append(pairs, <<key.json.str, val.json>>)
  IN  IF Failed(key) THEN key
      ELSE IF Peek(text, colon) # ":" THEN Fail("expected : after an object key")
      ELSE IF Failed(val) THEN val
      ELSE IF Peek(text, next) = "," THEN ObjectFrom(text, next + 1, all)
      ELSE IF Peek(text, next) = "}" THEN [json |-> Obj(all), at |-> next + 1]
      ELSE Fail("expected , or } in an object")

ArrayFrom(text, i, items) ==
  LET item == ValueAt(text, SkipWs(text, i))
      next == SkipWs(text, item.at)
      all  == Append(items, item.json)
  IN  IF Failed(item) THEN item
      ELSE IF Peek(text, next) = "," THEN ArrayFrom(text, next + 1, all)
      ELSE IF Peek(text, next) = "]" THEN [json |-> [arr |-> all], at |-> next + 1]
      ELSE Fail("expected , or ] in an array")

Parse(text) ==
  LET r == ValueAt(text, SkipWs(text, 1))
  IN  IF Failed(r) THEN r
      ELSE IF SkipWs(text, r.at) # Len(text) + 1 THEN Fail("trailing content after the document")
      ELSE r

=============================================================================
