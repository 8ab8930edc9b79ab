--------------------------------- MODULE Json ---------------------------------
(***************************************************************************)
(* The JSON parser (json.h) with the default flags.  It works in two       *)
(* passes: json_get_value_size checks the text and counts the bytes of the *)
(* nodes (dom) and of the characters (data); json_parse_value then writes  *)
(* both into one allocation of that size and checks nothing any more.      *)
(*                                                                         *)
(* A text is a sequence of tokens.  Positions count tokens from 1.         *)
(* A pass over a part of the text yields the position behind it and the    *)
(* bytes counted, or written, so far.                                      *)
(*                                                                         *)
(* A loop of the code is a function of the number of its turns; every turn *)
(* goes on in the text, which bounds them.  The functions for values,      *)
(* objects and arrays call each other: what they make of a text is a       *)
(* function of the levels of objects and arrays that may still be opened,  *)
(* which the code counts.                                                  *)
(***************************************************************************)
EXTENDS Tokens, SequencesExt, FiniteSetsExt

CONSTANT MaxRecursion   \* JSON_MAX_RECURSION

ASSUME RecursionAssumption == MaxRecursion \in Nat

AfterNumber == Spaces \cup {Close, ",", "]"}

Is(s, p, S) == p <= Len(s) /\ s[p] \in S

(* The end of the run of tokens of S that starts at p.                     *)
Run(s, p, S) ==
  IF p > Len(s) THEN p
  ELSE Min({Len(s) + 1} \cup {q \in p .. Len(s) : s[q] \notin S})

(* json_skip_all_skippables without comments.  It fails at the end.        *)
Skip(s, p) == Run(s, p, Spaces)

-----------------------------------------------------------------------------
(* The first pass                                                          *)

Failed == [at |-> 0, dom |-> 0, data |-> 0]

Ok(m) == m.at # 0

(* Mutant: nothing is added for the low half of a pair.                    *)
EscapeBytes_NoPair(t) == CASE t = "uTwo" -> 1 [] t = "uThree" -> 2 [] OTHER -> 0

(* The bytes an escape adds to the one that is counted for its backslash.  *)
EscapeBytes(t) == CASE t = "uTwo" -> 1 [] t = "uThree" -> 2 [] t = "uLow" -> 3 [] OTHER -> 0

(* Mutant: a low half may stand alone.                                     *)
ValidEscape_LoneLow(s, p, afterHigh) ==
  \/ Is(s, p + 1, Escapable)
  \/ /\ Is(s, p + 1, Unicode) /\ p + 1 < Len(s)
     /\ afterHigh => s[p + 1] = "uLow"
     /\ s[p + 1] = "uHigh" => s[p + 2] = Backslash /\ Is(s, p + 3, Unicode)

(* An escape at p.  A high half is followed by a low half, a low half has  *)
(* a high one before it.                                                   *)
ValidEscape(s, p, afterHigh) ==
  \/ Is(s, p + 1, Escapable)
  \/ /\ Is(s, p + 1, Unicode) /\ p + 1 < Len(s)
     /\ afterHigh <=> s[p + 1] = "uLow"
     /\ s[p + 1] = "uHigh" => s[p + 2] = Backslash /\ Is(s, p + 3, Unicode)

(* A turn of the loop of json_get_string_size.                             *)
SizeCharacter(s, c) ==
  IF ~c.on THEN c
  ELSE CASE Is(s, c.at, {Quote}) -> [c EXCEPT !.at = @ + 1, !.n = @ + 1, !.on = FALSE]
         [] Is(s, c.at, {Backslash}) /\ ValidEscape(s, c.at, c.high) ->
              [c EXCEPT !.at = @ + 2, !.n = @ + 1 + EscapeBytes(s[c.at + 1]),
                        !.high = (s[c.at + 1] = "uHigh")]
         [] c.at <= Len(s) /\ ~Is(s, c.at, {Quote, Backslash, "nl"}) ->
              [c EXCEPT !.at = @ + 1, !.n = @ + Width(s[c.at])]
         [] OTHER -> [c EXCEPT !.at = 0, !.on = FALSE]

SizeString(s, p) ==
  LET first == [at |-> p + 1, n |-> 0, high |-> FALSE, on |-> TRUE]
      turn[i \in 0 .. Len(s)] == IF i = 0 THEN first ELSE SizeCharacter(s, turn[i - 1])
      last == turn[Len(s)]
  IN IF Is(s, p, {Quote}) THEN [at |-> last.at, dom |-> 16, data |-> last.n] ELSE Failed

(* A number that ends with its e and the text is passed over by one: the   *)
(* position is then behind the text, which json_parse_ex rejects.          *)
SizeNumber(s, p) ==
  LET first  == IF s[p] = "-" THEN p + 1 ELSE p
      dot    == Run(s, first, Digits)
      exp    == IF Is(s, dot, {"."}) THEN Run(s, dot + 1, Digits) ELSE dot
      power  == IF Is(s, exp + 1, {"-", "+"}) THEN exp + 2 ELSE exp + 1
      end    == IF ~Is(s, exp, {"e"}) THEN exp
                ELSE IF power > Len(s) THEN power + 1 ELSE Run(s, power, Digits)
  IN IF /\ first <= Len(s) => s[first] \in Digits
        /\ Is(s, first, {"0"}) => dot = first + 1
        /\ Is(s, dot, {"."}) => Is(s, dot + 1, Digits)
        /\ Is(s, exp, {"e"}) /\ power <= Len(s) => s[power] \in Digits
        /\ end <= Len(s) => s[end] \in AfterNumber
     THEN [at |-> end, dom |-> 16, data |-> end - p + 1] ELSE Failed

(* What has been counted before, and a part that starts where m ends.      *)
Then(m, part) ==
  IF Ok(part) THEN [part EXCEPT !.dom = @ + m.dom, !.data = @ + m.data] ELSE Failed

(* A loop that goes on from m, and one that has come to its end.           *)
On(m)    == [m |-> m, on |-> TRUE]
Ended(m) == [m |-> m, on |-> FALSE]

(* A turn of the loop of json_get_object_size.  Values has what lies one   *)
(* level down, for every position.  An element counts 24 bytes.            *)
SizeMember(s, loop, comma, values) ==
  LET m     == loop.m
      p     == Skip(s, m.at)
      k     == IF comma THEN Skip(s, p + 1) ELSE p
      key   == Then([m EXCEPT !.dom = @ + 24], SizeString(s, k))
      colon == Skip(s, key.at)
      value == Then(key, values[colon + 1])
  IN IF ~loop.on THEN loop
     ELSE IF m.at > Len(s) + 1 THEN Ended(m)
     ELSE IF Is(s, p, {Close}) THEN Ended([m EXCEPT !.at = p + 1])
     ELSE IF /\ comma => Is(s, p, {","})
             /\ Ok(key) /\ Is(s, colon, {":"}) /\ Ok(value)
          THEN On(value)
          ELSE Ended(Failed)

SizeMembers(s, start, values) ==
  LET turn[i \in 0 .. Len(s)] ==
        IF i = 0 THEN On(start) ELSE SizeMember(s, turn[i - 1], i > 1, values)
  IN  turn[Len(s)].m

(* A turn of the loop of json_get_array_size.  An element counts 16 bytes. *)
SizeItem(s, loop, comma, values) ==
  LET m     == loop.m
      p     == Skip(s, m.at)
      k     == IF comma THEN Skip(s, p + 1) ELSE p
      value == Then([m EXCEPT !.dom = @ + 16], values[k])
  IN IF ~loop.on THEN loop
     ELSE IF Is(s, p, {"]"}) THEN Ended([m EXCEPT !.at = p + 1])
     ELSE IF (comma => Is(s, p, {","})) /\ Ok(value) THEN On(value)
     ELSE Ended(Failed)

SizeItems(s, start, values) ==
  LET turn[i \in 0 .. Len(s)] ==
        IF i = 0 THEN On(start) ELSE SizeItem(s, turn[i - 1], i > 1, values)
  IN  turn[Len(s)].m

(* json_get_value_size; objects and arrays may be opened at so many levels *)
(* from here.                                                              *)
SizeValue(s, from, levels, values) ==
  LET p     == Skip(s, from)
      value == [at |-> p, dom |-> 16, data |-> 0]
      inner == [at |-> p + 1, dom |-> 32, data |-> 0]
  IN CASE Is(s, p, {Quote})             -> Then(value, SizeString(s, p))
       [] Is(s, p, {Open, "["}) /\ levels = 0 -> Failed
       [] Is(s, p, {Open}) /\ levels > 0 -> SizeMembers(s, inner, values)
       [] Is(s, p, {"["}) /\ levels > 0 -> SizeItems(s, inner, values)
       [] Is(s, p, Digits \cup {"-"})   -> Then(value, SizeNumber(s, p))
       [] Is(s, p, Literals)            -> [value EXCEPT !.at = p + 1]
       [] OTHER                         -> Failed

SizeValues(s) ==
  LET within[levels \in 0 .. MaxRecursion] ==
        [from \in Nat |-> SizeValue(s, from, levels, within[levels - 1])]
  IN  within[MaxRecursion]

(* The first half of json_parse_ex: nothing but space after the value.     *)
Size(s) ==
  LET m == SizeValues(s)[1] IN IF Ok(m) /\ Skip(s, m.at) = Len(s) + 1 THEN m ELSE Failed

Accepts(s) == Ok(Size(s))

-----------------------------------------------------------------------------
(* The second pass                                                         *)

(* The bytes written for an escape.  A high half waits for the low one.    *)
WrittenBytes(t) ==
  CASE t = "uTwo" -> 2 [] t = "uThree" -> 3 [] t = "uHigh" -> 0 [] t = "uLow" -> 4 [] OTHER -> 1

Decoded(t) == CASE t = "uHigh" -> <<>> [] t = "uLow" -> <<"pair">> [] OTHER -> <<t>>

FillCharacter(s, c) ==
  IF ~c.on THEN c
  ELSE CASE s[c.at] = Quote -> [c EXCEPT !.at = @ + 1, !.n = @ + 1, !.on = FALSE]
         [] s[c.at] = Backslash ->
              [c EXCEPT !.at = @ + 2, !.n = @ + WrittenBytes(s[c.at + 1]),
                        !.value = @ \o Decoded(s[c.at + 1])]
         [] OTHER -> [c EXCEPT !.at = @ + 1, !.n = @ + Width(s[c.at]),
                               !.value = Append(@, s[c.at])]

FillString(s, p) ==
  LET first == [at |-> p + 1, n |-> 0, value |-> <<>>, on |-> TRUE]
      turn[i \in 0 .. Len(s)] == IF i = 0 THEN first ELSE FillCharacter(s, turn[i - 1])
      last == turn[Len(s)]
  IN [at |-> last.at, dom |-> 16, data |-> last.n, value |-> last.value]

FillNumber(s, p) ==
  LET end == Run(s, p, Digits \cup {".", "e", "+", "-"})
  IN [at |-> end, dom |-> 16, data |-> end - p + 1, value |-> SubSeq(s, p, end - 1)]

(* A part written behind m, and the value its node gets.                   *)
Behind(m, part, value) ==
  [at |-> part.at, dom |-> m.dom + part.dom, data |-> m.data + part.data, value |-> value]

(* A turn of the loop of json_parse_object, which makes a list of elements *)
(* with a key and a value; a turn that only takes a comma belongs to the   *)
(* next one.                                                               *)
FillMember(s, loop, comma, values) ==
  LET m     == loop.m
      q     == Skip(s, m.at)
      p     == IF comma /\ Is(s, q, {","}) THEN Skip(s, q + 1) ELSE q
      key   == FillString(s, p)
      value == values[Skip(s, key.at) + 1]
      both  == Behind(Behind(m, key, <<>>), value,
                      Append(m.value, [key |-> key.value, value |-> value.value]))
  IN IF ~loop.on THEN loop
     ELSE IF m.at > Len(s) THEN Ended(m)
     ELSE IF s[p] = Close THEN Ended([m EXCEPT !.at = p + 1])
     ELSE On([both EXCEPT !.dom = @ + 24])

FillMembers(s, start, values) ==
  LET turn[i \in 0 .. Len(s)] ==
        IF i = 0 THEN On(start) ELSE FillMember(s, turn[i - 1], i > 1, values)
  IN  turn[Len(s)].m

(* A turn of the loop of json_parse_array.                                 *)
FillItem(s, loop, comma, values) ==
  LET m     == loop.m
      q     == Skip(s, m.at)
      p     == IF comma /\ Is(s, q, {","}) THEN Skip(s, q + 1) ELSE q
      value == values[p]
      both  == Behind(m, value, Append(m.value, value.value))
  IN IF ~loop.on THEN loop
     ELSE IF s[p] = "]" THEN Ended([m EXCEPT !.at = p + 1])
     ELSE On([both EXCEPT !.dom = @ + 16])

FillItems(s, start, values) ==
  LET turn[i \in 0 .. Len(s)] ==
        IF i = 0 THEN On(start) ELSE FillItem(s, turn[i - 1], i > 1, values)
  IN  turn[Len(s)].m

(* json_parse_value.  Numbers and literals are told apart by their type.   *)
(* The levels are not counted any more: there are no more than the first   *)
(* pass has allowed.                                                       *)
FillValue(s, from, levels, values) ==
  LET p     == Skip(s, from)
      node  == [at |-> p, dom |-> 16, data |-> 0, value |-> <<>>]
      inner == [at |-> p + 1, dom |-> 32, data |-> 0, value |-> <<>>]
      Typed(type, part) == [part EXCEPT !.value = [type |-> type, of |-> @]]
  IN CASE s[p] = Quote ->
            Typed("string", Behind(node, FillString(s, p), FillString(s, p).value))
       [] s[p] = Open /\ levels > 0   -> Typed("object", FillMembers(s, inner, values))
       [] s[p] = "[" /\ levels > 0    -> Typed("array", FillItems(s, inner, values))
       [] s[p] \in Digits \cup {"-"}  ->
            Typed("number", Behind(node, FillNumber(s, p), FillNumber(s, p).value))
       [] s[p] \in Literals           ->
            Typed("literal", [node EXCEPT !.at = p + 1, !.value = s[p]])

FillValues(s) ==
  LET within[levels \in 0 .. MaxRecursion] ==
        [from \in Nat |-> FillValue(s, from, levels, within[levels - 1])]
  IN  within[MaxRecursion]

(* json_parse of a text that is accepted.                                  *)
Fill(s) == FillValues(s)[1]

=============================================================================
