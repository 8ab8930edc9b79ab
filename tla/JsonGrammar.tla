------------------------------ MODULE JsonGrammar ------------------------------
(***************************************************************************)
(* What JSON is, said without positions: the reference the parser of       *)
(* json.h is compared with.  A text is a value when it can be split as the *)
(* grammar says; nothing here is in the code.                              *)
(***************************************************************************)
EXTENDS AlarmText

Upto(t, i) == SubSeq(t, 1, i)
From(t, i) == SubSeq(t, i, Len(t))
Inside(t) == SubSeq(t, 2, Len(t) - 1)

Blank(t) == ToSet(t) \subseteq Spaces

(* Unescaped characters, escapes, and the two halves of a pair.            *)
RECURSIVE IsCharacters(_)
IsCharacters(t) ==
  \/ t = <<>>
  \/ t[1] \notin {Quote, Backslash, "nl"} /\ IsCharacters(Tail(t))
  \/ /\ t[1] = Backslash /\ Len(t) > 1
     /\ t[2] \in Escapable \cup (Unicode \ {"uHigh", "uLow"}) /\ IsCharacters(From(t, 3))
  \/ /\ IsPrefix(<<Backslash, "uHigh", Backslash, "uLow">>, t) /\ IsCharacters(From(t, 5))

IsString(t) == Len(t) > 1 /\ t[1] = Quote /\ t[Len(t)] = Quote /\ IsCharacters(Inside(t))

IsDigits(t) == t # <<>> /\ ToSet(t) \subseteq Digits

IsInteger(t) ==
  LET abs == IF t # <<>> /\ t[1] = "-" THEN Tail(t) ELSE t
  IN IsDigits(abs) /\ (abs[1] = "0" => Len(abs) = 1)

IsExponent(t) == IsDigits(t) \/ (t # <<>> /\ t[1] \in {"-", "+"} /\ IsDigits(Tail(t)))

IsDecimal(t) ==
  IsInteger(t) \/ \E i \in DOMAIN t :
                    t[i] = "." /\ IsInteger(Upto(t, i - 1)) /\ IsDigits(From(t, i + 1))

IsNumber(t) ==
  IsDecimal(t) \/ \E i \in DOMAIN t :
                    t[i] = "e" /\ IsDecimal(Upto(t, i - 1)) /\ IsExponent(From(t, i + 1))

RECURSIVE IsValue(_, _), IsMembers(_, _), IsItems(_, _)

(* A value with space around it, and no more than depth levels in it.      *)
IsValue(text, depth) ==
  LET t == Trim(text)
      Enclosed(a, b) == depth > 0 /\ Len(t) > 1 /\ t[1] = a /\ t[Len(t)] = b
  IN \/ IsString(t)
     \/ IsNumber(t)
     \/ \E l \in Literals : t = <<l>>
     \/ Enclosed(Open, Close) /\ (Blank(Inside(t)) \/ IsMembers(Inside(t), depth - 1))
     \/ Enclosed("[", "]") /\ (Blank(Inside(t)) \/ IsItems(Inside(t), depth - 1))

IsMembers(t, depth) ==
  \E i \in DOMAIN t :
    /\ t[i] = ":" /\ IsString(Trim(Upto(t, i - 1)))
    /\ \/ IsValue(From(t, i + 1), depth)
       \/ \E j \in i + 1 .. Len(t) :
            /\ t[j] = "," /\ IsValue(SubSeq(t, i + 1, j - 1), depth)
            /\ IsMembers(From(t, j + 1), depth)

IsItems(t, depth) ==
  \/ IsValue(t, depth)
  \/ \E j \in DOMAIN t :
       t[j] = "," /\ IsValue(Upto(t, j - 1), depth) /\ IsItems(From(t, j + 1), depth)

IsObject(t) == Trim(t) # <<>> /\ Trim(t)[1] = Open /\ IsValue(t, MaxRecursion)

-----------------------------------------------------------------------------
(* A text that begins with a brace is accepted exactly when it is a JSON   *)
(* object (json.h:693-1502).                                               *)
AcceptsJson == received # <<>> /\ received[1] = Open => (Accepts(received) <=> IsObject(received))

=============================================================================
