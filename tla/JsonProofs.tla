------------------------------ MODULE JsonProofs ------------------------------
(***************************************************************************)
(* Proofs about Json: the second pass of the parser stays in the memory    *)
(* that the first one has counted.                                         *)
(***************************************************************************)
EXTENDS AlarmText, FramingProofs

(* Where a run of tokens ends.                                             *)
LEMMA RunStops ==
  ASSUME NEW s, Len(s) \in Nat, NEW p \in Nat, NEW S
  PROVE  /\ Run(s, p, S) \in Nat /\ p <= Run(s, p, S)
         /\ p <= Len(s) => Run(s, p, S) <= Len(s) + 1
         /\ p > Len(s) => Run(s, p, S) = p
         /\ \A q \in p .. Run(s, p, S) - 1 : s[q] \in S
         /\ Run(s, p, S) <= Len(s) => s[Run(s, p, S)] \notin S
<1>1. CASE p > Len(s)
  <2>1. Run(s, p, S) = p
    BY <1>1 DEF Run
  <2> QED BY <1>1, <2>1
<1>2. CASE p <= Len(s)
  <2> DEFINE ends == {Len(s) + 1} \cup {q \in p .. Len(s) : s[q] \notin S}
  <2>1. ends \subseteq Nat /\ ends # {}
    OBVIOUS
  <2>2. PICK e \in ends : \A x \in ends : e <= x
    <3> HIDE DEF ends
    <3> QED BY <2>1, LeastNumber
  <2>3. Min(ends) \in ends /\ \A x \in ends : Min(ends) <= x
    <3> HIDE DEF ends
    <3> QED BY <2>2 DEF Min
  <2>4. Run(s, p, S) = Min(ends)
    BY <1>2 DEF Run
  <2> DEFINE r == Run(s, p, S)
  <2>5. r \in ends /\ \A x \in ends : r <= x
    BY <2>3, <2>4, Zenon
  <2> HIDE DEF r
  <2>6. r \in Nat /\ p <= r /\ r <= Len(s) + 1 /\ (r <= Len(s) => s[r] \notin S)
    BY <1>2, <2>5
  <2>7. ASSUME NEW q \in p .. r - 1
        PROVE  s[q] \in S
    <3>1. q \in p .. Len(s) /\ ~(r <= q)
      BY <2>6
    <3> QED BY <2>5, <3>1
  <2> QED BY <1>2, <2>6, <2>7 DEF r
<1> QED BY <1>1, <1>2

(* A run is known by where it starts and ends.                             *)
LEMMA RunIs ==
  ASSUME NEW s, Len(s) \in Nat, NEW p \in Nat, NEW S, NEW r \in Nat,
         p <= r, r <= Len(s) + 1, \A q \in p .. r - 1 : s[q] \in S,
         r <= Len(s) => s[r] \notin S
  PROVE  Run(s, p, S) = r
<1> DEFINE x == Run(s, p, S)
<1>1. /\ x \in Nat /\ p <= x /\ (p <= Len(s) => x <= Len(s) + 1) /\ (p > Len(s) => x = p)
      /\ (\A q \in p .. x - 1 : s[q] \in S) /\ (x <= Len(s) => s[x] \notin S)
  BY RunStops
<1> HIDE DEF x
<1>2. ~(x < r)
  <2> SUFFICES ASSUME x < r PROVE FALSE
    OBVIOUS
  <2>1. x \in p .. r - 1 /\ x <= Len(s)
    BY <1>1
  <2> QED BY <1>1, <2>1
<1>3. ~(r < x)
  <2> SUFFICES ASSUME r < x PROVE FALSE
    OBVIOUS
  <2>1. r \in p .. x - 1 /\ r <= Len(s)
    BY <1>1
  <2> QED BY <1>1, <2>1
<1> QED BY <1>1, <1>2, <1>3 DEF x

LEMMA SkipStops ==
  ASSUME NEW s, Len(s) \in Nat, NEW p \in Nat
  PROVE  Skip(s, p) \in Nat /\ p <= Skip(s, p)
BY RunStops DEF Skip

(* Tokens are told apart by name.                                          *)
LEMMA TokenNames ==
  /\ Quote \notin {Backslash, "nl", Open, Close, "[", "]", ",", ":"}
  /\ Backslash \notin {Quote, "nl", Open, Close}
  /\ Open \notin {Close, "["} /\ Close \notin {",", "]"}
BY DEF Quote, Backslash, Open, Close

-----------------------------------------------------------------------------
(* What a pass makes of a part                                             *)

Measure == [at : Nat, dom : Nat, data : Nat]

(* The part was accepted, and it is a part of the text.                    *)
Good(s, m) == m.at # 0 /\ m.at <= Len(s) + 1

(* The second pass has read as far and written no more.                    *)
Fits(m, f) ==
  /\ f.at = m.at /\ f.dom = m.dom
  /\ f.data \in Nat /\ f.data <= m.data

LEMMA ThenMeasures ==
  ASSUME NEW m \in Measure, NEW part \in Measure
  PROVE  /\ Then(m, part) \in Measure
         /\ Then(m, part).at = part.at
         /\ part.at # 0 => /\ Then(m, part).dom = m.dom + part.dom
                           /\ Then(m, part).data = m.data + part.data
<1>1. CASE part.at # 0
  <2>1. Then(m, part) = [at |-> part.at, dom |-> part.dom + m.dom, data |-> part.data + m.data]
    BY <1>1 DEF Then, Ok, Measure
  <2> QED BY <2>1 DEF Measure
<1>2. CASE part.at = 0
  BY <1>2 DEF Then, Ok, Measure, Failed
<1> QED BY <1>1, <1>2

LEMMA BehindMeasures ==
  ASSUME NEW m, NEW part, NEW value
  PROVE  /\ Behind(m, part, value).at = part.at
         /\ Behind(m, part, value).dom = m.dom + part.dom
         /\ Behind(m, part, value).data = m.data + part.data
         /\ Behind(m, part, value).value = value
BY DEF Behind

-----------------------------------------------------------------------------
(* Strings                                                                 *)

LEMMA WidthType ==
  ASSUME NEW t
  PROVE  Width(t) \in Nat
BY DEF Width

LEMMA EscapeFits ==
  ASSUME NEW t
  PROVE  EscapeBytes(t) \in Nat /\ WrittenBytes(t) \in Nat /\ WrittenBytes(t) <= 1 + EscapeBytes(t)
BY DEF EscapeBytes, WrittenBytes

Counting == [at : Nat, n : Nat, high : BOOLEAN, on : BOOLEAN]

(* The two loops over the characters, in step.                             *)
InStep(c, d) ==
  /\ c \in Counting /\ (c.at = 0 => ~c.on)
  /\ d = [at |-> d.at, n |-> d.n, value |-> d.value, on |-> d.on]
  /\ c.at # 0 => d.at = c.at /\ d.n \in Nat /\ d.n <= c.n /\ d.on = c.on

LEMMA CountsInStep ==
  ASSUME NEW at \in Nat, NEW n \in Nat, NEW k \in Nat, NEW size \in Nat, NEW fill \in Nat,
         k <= n, fill <= 1 + size
  PROVE  /\ at + 2 \in Nat \ {0} /\ n + 1 + size \in Nat /\ k + fill \in Nat
         /\ k + fill <= n + 1 + size
OBVIOUS

LEMMA CharacterInStep ==
  ASSUME NEW s, Len(s) \in Nat, NEW c, NEW d, InStep(c, d)
  PROVE  InStep(SizeCharacter(s, c), FillCharacter(s, d))
<1> DEFINE c2 == SizeCharacter(s, c)
           d2 == FillCharacter(s, d)
<1> SUFFICES InStep(c2, d2)
  OBVIOUS
<1>1. /\ c \in Counting /\ (c.at = 0 => ~c.on)
      /\ d = [at |-> d.at, n |-> d.n, value |-> d.value, on |-> d.on]
      /\ c.at # 0 => d.at = c.at /\ d.n \in Nat /\ d.n <= c.n /\ d.on = c.on
  BY DEF InStep
<1>2. c.at \in Nat /\ c.n \in Nat /\ c.high \in BOOLEAN /\ c.on \in BOOLEAN
  BY <1>1 DEF Counting
<1>3. /\ c = [at |-> c.at, n |-> c.n, high |-> c.high, on |-> c.on]
      /\ c.on => c.at # 0
  BY <1>1 DEF Counting
<1>5. CASE ~c.on
  <2>1. c2 = c
    BY <1>5 DEF SizeCharacter
  <2>2. c.at # 0 => d2 = d
    BY <1>1, <1>5 DEF FillCharacter
  <2>3. c.at = 0 => InStep(c2, d2)
    <3>1. d2 = [at |-> d2.at, n |-> d2.n, value |-> d2.value, on |-> d2.on]
      BY <1>1 DEF FillCharacter
    <3> HIDE DEF c2, d2
    <3> QED BY <1>1, <2>1, <3>1 DEF InStep
  <2> HIDE DEF c2, d2
  <2>4. c.at # 0 => InStep(c2, d2)
    <3> HIDE DEF c2, d2
    <3> QED BY <2>1, <2>2
  <2> QED BY <2>3, <2>4, Zenon
<1>6. CASE c.on
  <2>0. c.at # 0 /\ d.at = c.at /\ d.n \in Nat /\ d.n <= c.n /\ d.on
    BY <1>1, <1>6
  <2>1. CASE Is(s, c.at, {Quote})
    <3>1. c2 = [c EXCEPT !.at = @ + 1, !.n = @ + 1, !.on = FALSE]
      BY <1>6, <2>1, TokenNames DEF SizeCharacter, Is
    <3>2. d2 = [d EXCEPT !.at = @ + 1, !.n = @ + 1, !.on = FALSE]
      BY <2>0, <2>1, TokenNames DEF FillCharacter, Is
    <3>3. c2 = [at |-> c.at + 1, n |-> c.n + 1, high |-> c.high, on |-> FALSE]
      BY <1>3, <3>1
    <3>4. d2 = [at |-> c.at + 1, n |-> d.n + 1, value |-> d.value, on |-> FALSE]
      BY <1>1, <2>0, <3>2
    <3>5. c.at + 1 \in Nat \ {0} /\ c.n + 1 \in Nat /\ d.n + 1 \in Nat /\ d.n + 1 <= c.n + 1
      BY <1>2, <2>0
    <3> HIDE DEF c2, d2
    <3>7. c2 \in Counting /\ c2.at = c.at + 1 /\ c2.n = c.n + 1 /\ c2.on = FALSE
      BY <1>2, <3>3, <3>5 DEF Counting
    <3>8. /\ d2 = [at |-> d2.at, n |-> d2.n, value |-> d2.value, on |-> d2.on]
          /\ d2.at = c.at + 1 /\ d2.n = d.n + 1 /\ d2.on = FALSE
      BY <3>4
    <3> QED BY <1>2, <3>5, <3>7, <3>8 DEF InStep
  <2>2. CASE Is(s, c.at, {Backslash}) /\ ValidEscape(s, c.at, c.high)
    <3> DEFINE t == s[c.at + 1]
    <3>1. c2 = [c EXCEPT !.at = @ + 2, !.n = @ + 1 + EscapeBytes(t), !.high = (t = "uHigh")]
      BY <1>6, <2>2, TokenNames DEF SizeCharacter, Is
    <3>2. d2 = [d EXCEPT !.at = @ + 2, !.n = @ + WrittenBytes(t), !.value = @ \o Decoded(t)]
      BY <2>0, <2>2, TokenNames DEF FillCharacter, Is
    <3>3. EscapeBytes(t) \in Nat /\ WrittenBytes(t) \in Nat /\ WrittenBytes(t) <= 1 + EscapeBytes(t)
      BY EscapeFits
    <3>4. (t = "uHigh") \in BOOLEAN
      OBVIOUS
    <3> DEFINE size == EscapeBytes(t)
               fill == WrittenBytes(t)
               high == (t = "uHigh")
               value == d.value \o Decoded(t)
    <3>5. c2 = [at |-> c.at + 2, n |-> c.n + 1 + size, high |-> high, on |-> TRUE]
      BY <1>3, <1>6, <3>1
    <3>6. d2 = [at |-> c.at + 2, n |-> d.n + fill, value |-> value, on |-> TRUE]
      BY <1>1, <2>0, <3>2
    <3>6a. size \in Nat /\ fill \in Nat /\ fill <= 1 + size /\ high \in BOOLEAN
      BY <3>3, <3>4
    <3> HIDE DEF t, size, fill, high, value
    <3>6b. /\ c.at + 2 \in Nat \ {0} /\ c.n + 1 + size \in Nat /\ d.n + fill \in Nat
          /\ d.n + fill <= c.n + 1 + size
      <4>1. c.at \in Nat /\ c.n \in Nat /\ d.n \in Nat /\ d.n <= c.n
        BY <1>2, <2>0
      <4> QED BY <3>6a, <4>1, CountsInStep
    <3> HIDE DEF c2, d2
    <3>7. c2 \in Counting /\ c2.at = c.at + 2 /\ c2.n = c.n + 1 + size /\ c2.on = TRUE
      BY <3>5, <3>6a, <3>6b DEF Counting
    <3>8. /\ d2 = [at |-> d2.at, n |-> d2.n, value |-> d2.value, on |-> d2.on]
          /\ d2.at = c.at + 2 /\ d2.n = d.n + fill /\ d2.on = TRUE
      BY <3>6
    <3> QED BY <3>6b, <3>7, <3>8 DEF InStep
  <2>3. CASE c.at <= Len(s) /\ ~Is(s, c.at, {Quote, Backslash, "nl"})
    <3> DEFINE t == s[c.at]
               width == Width(t)
               value == Append(d.value, t)
    <3>1. c2 = [c EXCEPT !.at = @ + 1, !.n = @ + Width(t)]
      BY <1>6, <2>3 DEF SizeCharacter, Is
    <3>2. d2 = [d EXCEPT !.at = @ + 1, !.n = @ + Width(t), !.value = Append(@, t)]
      BY <2>0, <2>3 DEF FillCharacter, Is
    <3>3. width \in Nat
      BY WidthType
    <3>4. c2 = [at |-> c.at + 1, n |-> c.n + width, high |-> c.high, on |-> TRUE]
      BY <1>3, <1>6, <3>1
    <3>5. d2 = [at |-> c.at + 1, n |-> d.n + width, value |-> value, on |-> TRUE]
      BY <1>1, <2>0, <3>2
    <3> HIDE DEF t, width, value
    <3>6. /\ c.at + 1 \in Nat \ {0} /\ c.n + width \in Nat /\ d.n + width \in Nat
          /\ d.n + width <= c.n + width
      BY <1>2, <2>0, <3>3
    <3> HIDE DEF c2, d2
    <3>7. c2 \in Counting /\ c2.at = c.at + 1 /\ c2.n = c.n + width /\ c2.on = TRUE
      BY <1>2, <3>4, <3>6 DEF Counting
    <3>8. /\ d2 = [at |-> d2.at, n |-> d2.n, value |-> d2.value, on |-> d2.on]
          /\ d2.at = c.at + 1 /\ d2.n = d.n + width /\ d2.on = TRUE
      BY <3>5
    <3> QED BY <3>6, <3>7, <3>8 DEF InStep
  <2>4. CASE /\ ~Is(s, c.at, {Quote})
             /\ ~(Is(s, c.at, {Backslash}) /\ ValidEscape(s, c.at, c.high))
             /\ ~(c.at <= Len(s) /\ ~Is(s, c.at, {Quote, Backslash, "nl"}))
    <3>1. c2 = [c EXCEPT !.at = 0, !.on = FALSE]
      BY <1>6, <2>4 DEF SizeCharacter
    <3>2. c2 = [at |-> 0, n |-> c.n, high |-> c.high, on |-> FALSE]
      BY <1>3, <3>1
    <3>3. d2 = [at |-> d2.at, n |-> d2.n, value |-> d2.value, on |-> d2.on]
      BY <1>1 DEF FillCharacter
    <3> HIDE DEF c2, d2
    <3>4. c2 \in Counting /\ c2.at = 0 /\ ~c2.on
      BY <1>2, <3>2 DEF Counting
    <3>5. c2.at # 0 => FALSE
      BY <3>4
    <3> QED BY <3>3, <3>4, <3>5 DEF InStep
  <2> HIDE DEF c2, d2
  <2> QED BY <2>1, <2>2, <2>3, <2>4
<1> HIDE DEF c2, d2
<1> QED BY <1>5, <1>6
(* The loop over the characters of a string.                               *)
LEMMA SizeStringTurns ==
  ASSUME NEW s, Len(s) \in Nat, NEW p
  PROVE  \E f : /\ f[0] = [at |-> p + 1, n |-> 0, high |-> FALSE, on |-> TRUE]
                /\ \A i \in 1 .. Len(s) : f[i] = SizeCharacter(s, f[i - 1])
                /\ SizeString(s, p) = IF Is(s, p, {Quote}) THEN [at |-> f[Len(s)].at, dom |-> 16, data |-> f[Len(s)].n] ELSE Failed
<1> DEFINE N == Len(s)
           first == [at |-> p + 1, n |-> 0, high |-> FALSE, on |-> TRUE]
           Step(i, x) == SizeCharacter(s, x)
           F(g, n) == [i \in 0 .. n |-> IF i = 0 THEN first ELSE Step(i, g[i - 1])]
           T == {n \in Nat : \E g : g = F(g, n)}
           f == CHOOSE g : g = F(g, N)
<1>1. SizeString(s, p) = IF Is(s, p, {Quote}) THEN [at |-> f[N].at, dom |-> 16, data |-> f[N].n] ELSE Failed
  BY DEF SizeString
<1> HIDE DEF Step, first, N
<1>2. 0 \in T
  <2> DEFINE g == [i \in 0 .. 0 |-> first]
  <2>1. g = F(g, 0)
    OBVIOUS
  <2> HIDE DEF g
  <2> QED BY <2>1
<1>3. ASSUME NEW n \in Nat, n \in T
      PROVE  n + 1 \in T
  <2>1. PICK g : g = F(g, n)
    BY <1>3
  <2> DEFINE h == [i \in 0 .. n + 1 |-> IF i = n + 1 THEN Step(n + 1, g[n]) ELSE g[i]]
  <2>2. \A i \in 0 .. n : g[i] = IF i = 0 THEN first ELSE Step(i, g[i - 1])
    BY <2>1
  <2>3. ASSUME NEW i \in 0 .. n + 1
        PROVE  h[i] = IF i = 0 THEN first ELSE Step(i, h[i - 1])
    <3>1. CASE i = n + 1
      BY <3>1
    <3>2. CASE i # n + 1
      <4>1. i \in 0 .. n /\ h[i] = g[i] /\ (i # 0 => h[i - 1] = g[i - 1])
        BY <3>2
      <4> HIDE DEF h
      <4> QED BY <2>2, <4>1
    <3> QED BY <3>1, <3>2
  <2>4. h = F(h, n + 1)
    <3>1. F(h, n + 1) = [i \in 0 .. n + 1 |-> h[i]]
      BY <2>3
    <3>2. h = [i \in 0 .. n + 1 |-> h[i]]
      OBVIOUS
    <3> QED BY <3>1, <3>2
  <2> HIDE DEF h, F
  <2> QED BY <2>4
<1>4. N \in Nat
  BY DEF N
<1>5. N \in T
  <2> HIDE DEF T
  <2>1. \A n \in Nat : n \in T => n + 1 \in T
    BY <1>3
  <2> QED BY <1>2, <1>4, <2>1, InductionOverNat
<1>6. f = F(f, N)
  <2>1. PICK g : g = F(g, N)
    BY <1>5
  <2> HIDE DEF F
  <2> QED BY <2>1
<1> HIDE DEF f
<1>7. f[0] = first /\ \A i \in 1 .. N : f[i] = Step(i, f[i - 1])
  BY <1>4, <1>6
<1> QED BY <1>1, <1>7 DEF Step, first, N


(* The same loop in the second pass.                                       *)
LEMMA FillStringTurns ==
  ASSUME NEW s, Len(s) \in Nat, NEW p
  PROVE  \E f : /\ f[0] = [at |-> p + 1, n |-> 0, value |-> <<>>, on |-> TRUE]
                /\ \A i \in 1 .. Len(s) : f[i] = FillCharacter(s, f[i - 1])
                /\ FillString(s, p) = [at |-> f[Len(s)].at, dom |-> 16, data |-> f[Len(s)].n, value |-> f[Len(s)].value]
<1> DEFINE N == Len(s)
           first == [at |-> p + 1, n |-> 0, value |-> <<>>, on |-> TRUE]
           Step(i, x) == FillCharacter(s, x)
           F(g, n) == [i \in 0 .. n |-> IF i = 0 THEN first ELSE Step(i, g[i - 1])]
           T == {n \in Nat : \E g : g = F(g, n)}
           f == CHOOSE g : g = F(g, N)
<1>1. FillString(s, p) = [at |-> f[N].at, dom |-> 16, data |-> f[N].n, value |-> f[N].value]
  BY DEF FillString
<1> HIDE DEF Step, first, N
<1>2. 0 \in T
  <2> DEFINE g == [i \in 0 .. 0 |-> first]
  <2>1. g = F(g, 0)
    OBVIOUS
  <2> HIDE DEF g
  <2> QED BY <2>1
<1>3. ASSUME NEW n \in Nat, n \in T
      PROVE  n + 1 \in T
  <2>1. PICK g : g = F(g, n)
    BY <1>3
  <2> DEFINE h == [i \in 0 .. n + 1 |-> IF i = n + 1 THEN Step(n + 1, g[n]) ELSE g[i]]
  <2>2. \A i \in 0 .. n : g[i] = IF i = 0 THEN first ELSE Step(i, g[i - 1])
    BY <2>1
  <2>3. ASSUME NEW i \in 0 .. n + 1
        PROVE  h[i] = IF i = 0 THEN first ELSE Step(i, h[i - 1])
    <3>1. CASE i = n + 1
      BY <3>1
    <3>2. CASE i # n + 1
      <4>1. i \in 0 .. n /\ h[i] = g[i] /\ (i # 0 => h[i - 1] = g[i - 1])
        BY <3>2
      <4> HIDE DEF h
      <4> QED BY <2>2, <4>1
    <3> QED BY <3>1, <3>2
  <2>4. h = F(h, n + 1)
    <3>1. F(h, n + 1) = [i \in 0 .. n + 1 |-> h[i]]
      BY <2>3
    <3>2. h = [i \in 0 .. n + 1 |-> h[i]]
      OBVIOUS
    <3> QED BY <3>1, <3>2
  <2> HIDE DEF h, F
  <2> QED BY <2>4
<1>4. N \in Nat
  BY DEF N
<1>5. N \in T
  <2> HIDE DEF T
  <2>1. \A n \in Nat : n \in T => n + 1 \in T
    BY <1>3
  <2> QED BY <1>2, <1>4, <2>1, InductionOverNat
<1>6. f = F(f, N)
  <2>1. PICK g : g = F(g, N)
    BY <1>5
  <2> HIDE DEF F
  <2> QED BY <2>1
<1> HIDE DEF f
<1>7. f[0] = first /\ \A i \in 1 .. N : f[i] = Step(i, f[i - 1])
  BY <1>4, <1>6
<1> QED BY <1>1, <1>7 DEF Step, first, N

(* A string is read to the same place, and no more is written.             *)
LEMMA StringFits ==
  ASSUME NEW s, Len(s) \in Nat, NEW p \in Nat
  PROVE  /\ SizeString(s, p) \in Measure
         /\ SizeString(s, p).at # 0 => /\ Is(s, p, {Quote})
                                       /\ Fits(SizeString(s, p), FillString(s, p))
<1> DEFINE N == Len(s)
<1>1. N \in Nat
  OBVIOUS
<1>2. PICK c : /\ c[0] = [at |-> p + 1, n |-> 0, high |-> FALSE, on |-> TRUE]
               /\ \A i \in 1 .. N : c[i] = SizeCharacter(s, c[i - 1])
               /\ SizeString(s, p) = IF Is(s, p, {Quote})
                                     THEN [at |-> c[N].at, dom |-> 16, data |-> c[N].n] ELSE Failed
  BY SizeStringTurns
<1>3. PICK d : /\ d[0] = [at |-> p + 1, n |-> 0, value |-> <<>>, on |-> TRUE]
               /\ \A i \in 1 .. N : d[i] = FillCharacter(s, d[i - 1])
               /\ FillString(s, p) = [at |-> d[N].at, dom |-> 16, data |-> d[N].n, value |-> d[N].value]
  BY FillStringTurns
<1> DEFINE T == {i \in Nat : i <= N => InStep(c[i], d[i])}
<1> HIDE DEF N
<1>4. 0 \in T
  <2> DEFINE c0 == c[0]
             d0 == d[0]
  <2>1. c0 = [at |-> p + 1, n |-> 0, high |-> FALSE, on |-> TRUE]
    BY <1>2
  <2>2. d0 = [at |-> p + 1, n |-> 0, value |-> <<>>, on |-> TRUE]
    BY <1>3
  <2> HIDE DEF c0, d0
  <2>3. c0 \in Counting /\ c0.at = p + 1 /\ c0.at # 0
    BY <2>1 DEF Counting
  <2>4. d0.at = c0.at /\ d0.n = 0 /\ c0.n = 0 /\ d0.on = c0.on
    BY <2>1, <2>2
  <2>5. d0 = [at |-> d0.at, n |-> d0.n, value |-> d0.value, on |-> d0.on]
    BY <2>2
  <2>6. InStep(c0, d0)
    BY <2>3, <2>4, <2>5 DEF InStep
  <2> QED BY <2>6 DEF c0, d0
<1>5. ASSUME NEW i \in Nat, i \in T
      PROVE  i + 1 \in T
  <2> SUFFICES ASSUME i + 1 <= N PROVE InStep(c[i + 1], d[i + 1])
    OBVIOUS
  <2>1. i + 1 \in 1 .. N /\ (i + 1) - 1 = i /\ InStep(c[i], d[i])
    BY <1>1, <1>5
  <2>2. c[i + 1] = SizeCharacter(s, c[i]) /\ d[i + 1] = FillCharacter(s, d[i])
    BY <1>2, <1>3, <2>1
  <2> QED BY <2>1, <2>2, CharacterInStep
<1>6. InStep(c[N], d[N])
  <2>1. \A i \in Nat : i \in T => i + 1 \in T
    BY <1>5
  <2>2. Nat \subseteq T
    <3> HIDE DEF T
    <3> QED BY <1>4, <2>1, InductionOverNat
  <2> QED BY <1>1, <2>2
<1>7. CASE Is(s, p, {Quote})
  <2>1. SizeString(s, p) = [at |-> c[N].at, dom |-> 16, data |-> c[N].n]
    BY <1>2, <1>7
  <2>2. c[N].at \in Nat /\ c[N].n \in Nat
    BY <1>6 DEF InStep, Counting
  <2>3. SizeString(s, p) \in Measure
    BY <2>1, <2>2 DEF Measure
  <2>4. c[N].at # 0 => d[N].at = c[N].at /\ d[N].n \in Nat /\ d[N].n <= c[N].n
    BY <1>6 DEF InStep
  <2> QED BY <1>3, <1>7, <2>1, <2>3, <2>4 DEF Fits
<1>8. CASE ~Is(s, p, {Quote})
  BY <1>2, <1>8 DEF Failed, Measure
<1> QED BY <1>7, <1>8

-----------------------------------------------------------------------------
(* Numbers                                                                 *)

(* What json_parse_number takes.                                           *)
NumberTokens == Digits \cup {".", "e", "+", "-"}

LEMMA NumberFits ==
  ASSUME NEW s, Len(s) \in Nat, NEW p \in Nat, Is(s, p, Digits \cup {"-"})
  PROVE  /\ SizeNumber(s, p) \in Measure
         /\ Good(s, SizeNumber(s, p)) => Fits(SizeNumber(s, p), FillNumber(s, p))
<1> DEFINE first == IF s[p] = "-" THEN p + 1 ELSE p
           dot   == Run(s, first, Digits)
           exp   == IF Is(s, dot, {"."}) THEN Run(s, dot + 1, Digits) ELSE dot
           power == IF Is(s, exp + 1, {"-", "+"}) THEN exp + 2 ELSE exp + 1
           end   == IF ~Is(s, exp, {"e"}) THEN exp
                    ELSE IF power > Len(s) THEN power + 1 ELSE Run(s, power, Digits)
           valid == /\ first <= Len(s) => s[first] \in Digits
                    /\ Is(s, first, {"0"}) => dot = first + 1
                    /\ Is(s, dot, {"."}) => Is(s, dot + 1, Digits)
                    /\ Is(s, exp, {"e"}) /\ power <= Len(s) => s[power] \in Digits
                    /\ end <= Len(s) => s[end] \in AfterNumber
           Taken(a, b) == \A q \in a .. b - 1 : s[q] \in NumberTokens
<1>0. SizeNumber(s, p) = IF valid THEN [at |-> end, dom |-> 16, data |-> end - p + 1] ELSE Failed
  BY DEF SizeNumber
<1>1. first \in Nat /\ p <= first /\ p <= Len(s) /\ Taken(p, first)
  BY DEF Is, NumberTokens
<1>2. Digits \subseteq NumberTokens
  BY DEF NumberTokens
<1> HIDE DEF first
<1>3. dot \in Nat /\ first <= dot /\ Taken(first, dot)
  <2>1. /\ Run(s, first, Digits) \in Nat /\ first <= Run(s, first, Digits)
        /\ \A q \in first .. Run(s, first, Digits) - 1 : s[q] \in Digits
    BY <1>1, RunStops
  <2> QED BY <1>2, <2>1
<1> HIDE DEF dot
<1>4. exp \in Nat /\ dot <= exp /\ Taken(dot, exp)
  <2>1. CASE Is(s, dot, {"."})
    <3>1. exp = Run(s, dot + 1, Digits) /\ s[dot] \in NumberTokens
      BY <2>1 DEF Is, NumberTokens
    <3>2. /\ exp \in Nat /\ dot + 1 <= exp
          /\ \A q \in dot + 1 .. exp - 1 : s[q] \in Digits
      BY <1>3, <3>1, RunStops
    <3> HIDE DEF exp
    <3>3. \A q \in dot .. exp - 1 : q = dot \/ q \in dot + 1 .. exp - 1
      BY <1>3, <3>2
    <3> QED BY <1>2, <1>3, <3>1, <3>2, <3>3
  <2>2. CASE ~Is(s, dot, {"."})
    BY <1>3, <2>2
  <2> QED BY <2>1, <2>2
<1> HIDE DEF exp
<1>5. power \in Nat /\ exp < power /\ (Is(s, exp, {"e"}) => Taken(exp, power))
  <2>1. power \in Nat /\ exp < power
    BY <1>4
  <2>2. ASSUME Is(s, exp, {"e"}), NEW q \in exp .. power - 1
        PROVE  s[q] \in NumberTokens
    <3>1. s[exp] \in NumberTokens
      BY <2>2 DEF Is, NumberTokens
    <3>2. Is(s, exp + 1, {"-", "+"}) => s[exp + 1] \in NumberTokens
      BY DEF Is, NumberTokens
    <3>3. q = exp \/ (q = exp + 1 /\ Is(s, exp + 1, {"-", "+"}))
      BY <1>4, <2>2
    <3> QED BY <3>1, <3>2, <3>3
  <2> QED BY <2>1, <2>2
<1> HIDE DEF power
<1>6. end \in Nat /\ exp <= end
  <2>1. Run(s, power, Digits) \in Nat /\ power <= Run(s, power, Digits)
    BY <1>5, RunStops
  <2> QED BY <1>4, <1>5, <2>1
<1>7. end <= Len(s) + 1 => Taken(exp, end)
  <2>1. CASE ~Is(s, exp, {"e"})
    BY <1>4, <2>1
  <2>2. CASE Is(s, exp, {"e"}) /\ power > Len(s)
    BY <1>5, <2>2
  <2>3. CASE Is(s, exp, {"e"}) /\ power <= Len(s)
    <3>1. end = Run(s, power, Digits)
      BY <1>5, <2>3
    <3>2. end \in Nat /\ power <= end /\ \A q \in power .. end - 1 : s[q] \in Digits
      BY <1>5, <3>1, RunStops
    <3>3. Taken(exp, power)
      BY <1>5, <2>3
    <3> HIDE DEF end
    <3>4. \A q \in exp .. end - 1 : q \in exp .. power - 1 \/ q \in power .. end - 1
      BY <1>4, <1>5, <3>2
    <3> QED BY <1>2, <3>2, <3>3, <3>4
  <2> QED BY <1>5, <2>1, <2>2, <2>3
<1> HIDE DEF end
<1>8. end - p + 1 \in Nat
  BY <1>1, <1>3, <1>4, <1>6
<1>9. SizeNumber(s, p) \in Measure
  <2>1. [at |-> end, dom |-> 16, data |-> end - p + 1] \in Measure
    BY <1>6, <1>8 DEF Measure
  <2>2. Failed \in Measure
    BY DEF Failed, Measure
  <2> HIDE DEF valid
  <2> QED BY <1>0, <2>1, <2>2
<1>10. ASSUME Good(s, SizeNumber(s, p))
       PROVE  Fits(SizeNumber(s, p), FillNumber(s, p))
  <2>1. valid
    BY <1>0, <1>10 DEF Good, Failed
  <2>2. SizeNumber(s, p) = [at |-> end, dom |-> 16, data |-> end - p + 1]
    BY <1>0, <2>1
  <2>3. end <= Len(s) + 1
    BY <1>10, <2>2 DEF Good
  <2>4. \A q \in p .. end - 1 : s[q] \in NumberTokens
    <3>1. \A q \in p .. end - 1 : \/ q \in p .. first - 1 \/ q \in first .. dot - 1
                                  \/ q \in dot .. exp - 1 \/ q \in exp .. end - 1
      BY <1>1, <1>3, <1>4, <1>6
    <3> QED BY <1>1, <1>3, <1>4, <1>7, <2>3, <3>1
  <2>5. end <= Len(s) => s[end] \notin NumberTokens
    <3>1. \A t \in AfterNumber : t \notin NumberTokens
      BY DEF AfterNumber, NumberTokens, Digits, Spaces, Close
    <3> QED BY <2>1, <3>1
  <2>6. Run(s, p, NumberTokens) = end
    BY <1>1, <1>3, <1>4, <1>6, <2>3, <2>4, <2>5, RunIs
  <2>7. FillNumber(s, p).at = end /\ FillNumber(s, p).dom = 16 /\ FillNumber(s, p).data = end - p + 1
    BY <2>6 DEF FillNumber, NumberTokens
  <2> QED BY <1>8, <2>2, <2>7 DEF Fits
<1> QED BY <1>9, <1>10

-----------------------------------------------------------------------------
(* Objects and arrays                                                      *)

Looping == [m : Measure, on : BOOLEAN]

(* The loops of the two passes, in step.                                   *)
LoopsInStep(s, a, b) ==
  /\ a \in Looping /\ (a.on => a.m.at # 0)
  /\ b = [m |-> b.m, on |-> b.on]
  /\ b.m = [at |-> b.m.at, dom |-> b.m.dom, data |-> b.m.data, value |-> b.m.value]
  /\ Good(s, a.m) => Fits(a.m, b.m) /\ b.on = a.on

(* What the two passes make of the values one level down.  A value begins  *)
(* in the text, and not with the bracket that ends an array.               *)
ValuesFit(s, v, w) ==
  \A p \in Nat : /\ v[p] \in Measure
                 /\ Good(s, v[p]) => Fits(v[p], w[p]) /\ p <= Len(s) /\ s[p] # "]"

LEMMA SumOrder ==
  ASSUME NEW x \in Nat, NEW y \in Nat, NEW z \in Nat
  PROVE  x + y + z + 24 = x + 24 + y + z
OBVIOUS

LEMMA SumBound ==
  ASSUME NEW x \in Nat, NEW y \in Nat, NEW z \in Nat,
         NEW a \in Nat, NEW b \in Nat, NEW c \in Nat, a <= x, b <= y, c <= z
  PROVE  a + b + c \in Nat /\ a + b + c <= x + y + z
OBVIOUS

LEMMA LoopingType ==
  ASSUME NEW m \in Measure
  PROVE  /\ On(m) \in Looping /\ On(m).m = m /\ On(m).on = TRUE
         /\ Ended(m) \in Looping /\ Ended(m).m = m /\ Ended(m).on = FALSE
BY DEF On, Ended, Looping

LEMMA MemberInStep ==
  ASSUME NEW s, Len(s) \in Nat, NEW v, NEW w, ValuesFit(s, v, w),
         NEW a, NEW b, LoopsInStep(s, a, b), NEW comma \in BOOLEAN
  PROVE  LoopsInStep(s, SizeMember(s, a, comma, v), FillMember(s, b, comma, w))
<1> DEFINE a2 == SizeMember(s, a, comma, v)
           b2 == FillMember(s, b, comma, w)
<1> SUFFICES LoopsInStep(s, a2, b2)
  OBVIOUS
<1>1. /\ a \in Looping /\ a.m \in Measure /\ (a.on => a.m.at # 0)
      /\ b = [m |-> b.m, on |-> b.on]
      /\ b.m = [at |-> b.m.at, dom |-> b.m.dom, data |-> b.m.data, value |-> b.m.value]
      /\ Good(s, a.m) => Fits(a.m, b.m) /\ b.on = a.on
  BY DEF LoopsInStep, Looping
<1>2. a.m.at \in Nat /\ a.m.dom \in Nat /\ a.m.data \in Nat
  BY <1>1 DEF Measure
<1> DEFINE p     == Skip(s, a.m.at)
           k     == IF comma THEN Skip(s, p + 1) ELSE p
           m24   == [a.m EXCEPT !.dom = @ + 24]
           str   == SizeString(s, k)
           key   == Then(m24, str)
           colon == Skip(s, key.at)
           part  == v[colon + 1]
           value == Then(key, part)
           taken == /\ comma => Is(s, p, {","})
                    /\ Ok(key) /\ Is(s, colon, {":"}) /\ Ok(value)
<1>3. a2 = IF ~a.on THEN a
           ELSE IF a.m.at > Len(s) + 1 THEN Ended(a.m)
           ELSE IF Is(s, p, {Close}) THEN Ended([a.m EXCEPT !.at = p + 1])
           ELSE IF taken THEN On(value) ELSE Ended(Failed)
  BY DEF SizeMember
<1> DEFINE q      == Skip(s, b.m.at)
           p2     == IF comma /\ Is(s, q, {","}) THEN Skip(s, q + 1) ELSE q
           key2   == FillString(s, p2)
           part2  == w[Skip(s, key2.at) + 1]
           both   == Behind(Behind(b.m, key2, <<>>), part2,
                            Append(b.m.value, [key |-> key2.value, value |-> part2.value]))
<1>4. b2 = IF ~b.on THEN b
           ELSE IF b.m.at > Len(s) THEN Ended(b.m)
           ELSE IF s[p2] = Close THEN Ended([b.m EXCEPT !.at = p2 + 1])
           ELSE On([both EXCEPT !.dom = @ + 24])
  BY DEF FillMember
<1>5. /\ b2 = [m |-> b2.m, on |-> b2.on]
      /\ b2.m = [at |-> b2.m.at, dom |-> b2.m.dom, data |-> b2.m.data, value |-> b2.m.value]
  <2>1. both = [at |-> both.at, dom |-> both.dom, data |-> both.data, value |-> both.value]
    BY DEF Behind
  <2> HIDE DEF both, p2
  <2>2. CASE b2 = b
    <3> HIDE DEF b2
    <3> QED BY <1>1, <2>2
  <2>3. CASE b2 = Ended(b.m)
    <3> HIDE DEF b2
    <3> QED BY <1>1, <2>3 DEF Ended
  <2>4. CASE b2 = Ended([b.m EXCEPT !.at = p2 + 1])
    <3> HIDE DEF b2
    <3> QED BY <1>1, <2>4 DEF Ended
  <2>5. CASE b2 = On([both EXCEPT !.dom = @ + 24])
    <3> HIDE DEF b2
    <3> QED BY <2>1, <2>5 DEF On
  <2> QED BY <1>4, <2>2, <2>3, <2>4, <2>5
<1>6. p \in Nat /\ a.m.at <= p
  BY <1>2, SkipStops
<1> HIDE DEF p
<1>7. k \in Nat /\ p <= k /\ (comma => p < k)
  BY <1>6, SkipStops
<1>8. m24 \in Measure /\ m24.dom = a.m.dom + 24 /\ m24.data = a.m.data
  BY <1>1, <1>2 DEF Measure
<1> HIDE DEF k, m24
<1>9. str \in Measure /\ (str.at # 0 => Is(s, k, {Quote}) /\ Fits(str, FillString(s, k)))
  BY <1>7, StringFits
<1> HIDE DEF str
<1>10. /\ key \in Measure /\ key.at = str.at
       /\ str.at # 0 => key.dom = m24.dom + str.dom /\ key.data = m24.data + str.data
  BY <1>8, <1>9, ThenMeasures
<1> HIDE DEF key
<1>11. colon \in Nat /\ key.at <= colon
  BY <1>10, SkipStops DEF Measure
<1>12. part \in Measure /\ (Good(s, part) => Fits(part, w[colon + 1]))
  BY <1>11 DEF ValuesFit
<1> HIDE DEF part
<1>13. /\ value \in Measure /\ value.at = part.at
       /\ part.at # 0 => value.dom = key.dom + part.dom /\ value.data = key.data + part.data
  BY <1>10, <1>12, ThenMeasures
<1> HIDE DEF value
<1>14. CASE ~a.on
  <2>1. a2 = a
    BY <1>3, <1>14
  <2>2. Good(s, a.m) => b2 = b
    BY <1>1, <1>4, <1>14
  <2> HIDE DEF a2, b2
  <2> QED BY <1>1, <1>5, <2>1, <2>2 DEF LoopsInStep
<1>15. CASE a.on /\ a.m.at > Len(s) + 1
  <2>1. a2 = Ended(a.m)
    BY <1>3, <1>15
  <2>2. a2 \in Looping /\ a2.on = FALSE /\ a2.m = a.m
    BY <1>1, <2>1 DEF Ended, Looping
  <2>3. ~Good(s, a2.m)
    BY <1>2, <1>15, <2>2 DEF Good
  <2> HIDE DEF a2, b2
  <2> QED BY <1>5, <2>2, <2>3 DEF LoopsInStep
<1>16. CASE a.on /\ ~(a.m.at > Len(s) + 1) /\ Is(s, p, {Close})
  <2> DEFINE m2 == [a.m EXCEPT !.at = p + 1]
  <2>1. a2 = Ended(m2)
    BY <1>3, <1>16
  <2>2. m2 \in Measure /\ m2.at = p + 1 /\ m2.dom = a.m.dom /\ m2.data = a.m.data
    BY <1>1, <1>2, <1>6 DEF Measure
  <2> HIDE DEF m2
  <2>3. /\ a2 \in Looping /\ a2.on = FALSE
        /\ a2.m.at = p + 1 /\ a2.m.dom = a.m.dom /\ a2.m.data = a.m.data
    BY <2>1, <2>2, LoopingType
  <2>4. Good(s, a.m) /\ a.m.at <= Len(s) /\ s[p] = Close
    BY <1>1, <1>2, <1>6, <1>16 DEF Good, Is
  <2>5. b.m.at = a.m.at /\ b.m.dom = a.m.dom /\ b.m.data \in Nat /\ b.m.data <= a.m.data /\ b.on
    BY <1>1, <1>16, <2>4 DEF Fits
  <2>6. p2 = p
    <3>1. ~Is(s, p, {","})
      BY <2>4, TokenNames DEF Is
    <3> QED BY <2>5, <3>1 DEF p
  <2> HIDE DEF p2
  <2>7. b2 = Ended([b.m EXCEPT !.at = p + 1])
    BY <1>2, <1>4, <2>4, <2>5, <2>6
  <2>8. b2.on = FALSE /\ b2.m.at = p + 1 /\ b2.m.dom = a.m.dom /\ b2.m.data = b.m.data
    BY <1>1, <2>5, <2>7 DEF Ended
  <2> HIDE DEF a2, b2
  <2>9. Fits(a2.m, b2.m) /\ b2.on = a2.on
    BY <2>3, <2>5, <2>8 DEF Fits
  <2> QED BY <1>5, <2>3, <2>9 DEF LoopsInStep
<1>17. CASE a.on /\ ~(a.m.at > Len(s) + 1) /\ ~Is(s, p, {Close}) /\ taken
  <2>1. a2 = On(value)
    BY <1>3, <1>17
  <2>2. a2 \in Looping /\ a2.on = TRUE /\ a2.m = value /\ value.at # 0
    BY <1>13, <1>17, <2>1, LoopingType DEF Ok
  <2>3. ASSUME Good(s, value)
        PROVE  Fits(value, b2.m) /\ b2.on = TRUE
    <3>1. str.at # 0 /\ part.at # 0 /\ Is(s, k, {Quote}) /\ Is(s, colon, {":"})
      BY <1>9, <1>10, <1>13, <1>17, <2>2 DEF Ok
    <3>2. Good(s, part)
      BY <1>13, <2>3 DEF Good
    <3>3. k <= Len(s) /\ s[k] = Quote
      BY <3>1 DEF Is
    <3>4. Good(s, a.m) /\ a.m.at <= Len(s)
      <4>1. a.on /\ a.m.at <= k
        <5>1. a.on
          BY <1>17
        <5> QED BY <1>2, <1>6, <1>7, <5>1
      <4> QED BY <1>1, <1>2, <1>7, <3>3, <4>1 DEF Good
    <3>5. b.m.at = a.m.at /\ b.m.dom = a.m.dom /\ b.m.data \in Nat /\ b.m.data <= a.m.data /\ b.on
      BY <1>1, <1>17, <3>4 DEF Fits
    <3>6. p2 = k
      <4>1. q = p
        BY <3>5 DEF p
      <4>2. CASE comma
        BY <1>17, <4>1, <4>2 DEF k
      <4>3. CASE ~comma
        BY <4>1, <4>3 DEF k
      <4> QED BY <4>2, <4>3
    <3> HIDE DEF p2
    <3>7. s[p2] # Close
      BY <3>3, <3>6, TokenNames
    <3>8. Fits(str, key2) /\ key2.at = key.at
      BY <1>9, <1>10, <3>1, <3>6 DEF Fits
    <3>9. Fits(part, part2)
      BY <1>12, <3>2, <3>8
    <3> HIDE DEF key2, part2
    <3>10. b2 = On([both EXCEPT !.dom = @ + 24])
      BY <1>2, <1>4, <3>4, <3>5, <3>7
    <3>11. /\ b2.on = TRUE /\ b2.m.at = part2.at
           /\ b2.m.dom = b.m.dom + key2.dom + part2.dom + 24
           /\ b2.m.data = b.m.data + key2.data + part2.data
      BY <3>10 DEF On, Behind
    <3> HIDE DEF b2, both, colon
    <3>12. /\ a.m.dom \in Nat /\ a.m.data \in Nat /\ str.dom \in Nat /\ str.data \in Nat
           /\ part.dom \in Nat /\ part.data \in Nat
      BY <1>2, <1>9, <1>12 DEF Measure
    <3>13. /\ value.at = part.at
           /\ value.dom = a.m.dom + 24 + str.dom + part.dom
           /\ value.data = a.m.data + str.data + part.data
      BY <1>8, <1>10, <1>13, <3>1
    <3>14. /\ key2.dom = str.dom /\ key2.data \in Nat /\ key2.data <= str.data
           /\ part2.at = part.at /\ part2.dom = part.dom
           /\ part2.data \in Nat /\ part2.data <= part.data
      BY <3>8, <3>9 DEF Fits
    <3>15. b2.m.dom = value.dom
      <4>1. b2.m.dom = a.m.dom + str.dom + part.dom + 24
        BY <3>5, <3>11, <3>14
      <4>2. a.m.dom + str.dom + part.dom + 24 = a.m.dom + 24 + str.dom + part.dom
        BY <3>12, SumOrder
      <4> QED BY <3>13, <4>1, <4>2, Zenon
    <3>16. b2.m.data \in Nat /\ b2.m.data <= value.data
      <4>1. /\ b.m.data \in Nat /\ key2.data \in Nat /\ part2.data \in Nat
            /\ b.m.data <= a.m.data /\ key2.data <= str.data /\ part2.data <= part.data
        BY <3>5, <3>14
      <4>2. b2.m.data = b.m.data + key2.data + part2.data
        BY <3>11
      <4>3. /\ b.m.data + key2.data + part2.data \in Nat
            /\ b.m.data + key2.data + part2.data <= a.m.data + str.data + part.data
        BY <3>12, <4>1, SumBound
      <4> QED BY <3>13, <4>2, <4>3, Zenon
    <3> QED BY <3>11, <3>13, <3>14, <3>15, <3>16 DEF Fits
  <2> HIDE DEF a2, b2
  <2> QED BY <1>5, <2>2, <2>3 DEF LoopsInStep
<1>18. CASE a.on /\ ~(a.m.at > Len(s) + 1) /\ ~Is(s, p, {Close}) /\ ~taken
  <2>1. a2 = Ended(Failed)
    BY <1>3, <1>18
  <2>2. a2 \in Looping /\ a2.on = FALSE /\ a2.m.at = 0
    BY <2>1 DEF Ended, Failed, Looping, Measure
  <2>3. ~Good(s, a2.m)
    BY <2>2 DEF Good
  <2> HIDE DEF a2, b2
  <2> QED BY <1>5, <2>2, <2>3 DEF LoopsInStep
<1> HIDE DEF a2, b2, taken
<1> QED BY <1>14, <1>15, <1>16, <1>17, <1>18


LEMMA ItemInStep ==
  ASSUME NEW s, Len(s) \in Nat, NEW v, NEW w, ValuesFit(s, v, w),
         NEW a, NEW b, LoopsInStep(s, a, b), NEW comma \in BOOLEAN
  PROVE  LoopsInStep(s, SizeItem(s, a, comma, v), FillItem(s, b, comma, w))
<1> DEFINE a2 == SizeItem(s, a, comma, v)
           b2 == FillItem(s, b, comma, w)
<1> SUFFICES LoopsInStep(s, a2, b2)
  OBVIOUS
<1>1. /\ a \in Looping /\ a.m \in Measure /\ (a.on => a.m.at # 0)
      /\ b = [m |-> b.m, on |-> b.on]
      /\ b.m = [at |-> b.m.at, dom |-> b.m.dom, data |-> b.m.data, value |-> b.m.value]
      /\ Good(s, a.m) => Fits(a.m, b.m) /\ b.on = a.on
  BY DEF LoopsInStep, Looping
<1>2. a.m.at \in Nat /\ a.m.dom \in Nat /\ a.m.data \in Nat
  BY <1>1 DEF Measure
<1> DEFINE p     == Skip(s, a.m.at)
           k     == IF comma THEN Skip(s, p + 1) ELSE p
           m16   == [a.m EXCEPT !.dom = @ + 16]
           part  == v[k]
           value == Then(m16, part)
           taken == (comma => Is(s, p, {","})) /\ Ok(value)
<1>3. a2 = IF ~a.on THEN a
           ELSE IF Is(s, p, {"]"}) THEN Ended([a.m EXCEPT !.at = p + 1])
           ELSE IF taken THEN On(value) ELSE Ended(Failed)
  BY DEF SizeItem
<1> DEFINE q      == Skip(s, b.m.at)
           p2     == IF comma /\ Is(s, q, {","}) THEN Skip(s, q + 1) ELSE q
           part2  == w[p2]
           both   == Behind(b.m, part2, Append(b.m.value, part2.value))
<1>4. b2 = IF ~b.on THEN b
           ELSE IF s[p2] = "]" THEN Ended([b.m EXCEPT !.at = p2 + 1])
           ELSE On([both EXCEPT !.dom = @ + 16])
  BY DEF FillItem
<1>5. /\ b2 = [m |-> b2.m, on |-> b2.on]
      /\ b2.m = [at |-> b2.m.at, dom |-> b2.m.dom, data |-> b2.m.data, value |-> b2.m.value]
  <2>1. both = [at |-> both.at, dom |-> both.dom, data |-> both.data, value |-> both.value]
    BY DEF Behind
  <2> HIDE DEF both, p2
  <2>2. CASE b2 = b
    <3> HIDE DEF b2
    <3> QED BY <1>1, <2>2
  <2>4. CASE b2 = Ended([b.m EXCEPT !.at = p2 + 1])
    <3> HIDE DEF b2
    <3> QED BY <1>1, <2>4 DEF Ended
  <2>5. CASE b2 = On([both EXCEPT !.dom = @ + 16])
    <3> HIDE DEF b2
    <3> QED BY <2>1, <2>5 DEF On
  <2> QED BY <1>4, <2>2, <2>4, <2>5
<1>6. p \in Nat /\ a.m.at <= p
  BY <1>2, SkipStops
<1> HIDE DEF p
<1>7. k \in Nat /\ p <= k /\ (comma => p < k)
  BY <1>6, SkipStops
<1>8. m16 \in Measure /\ m16.dom = a.m.dom + 16 /\ m16.data = a.m.data
  BY <1>1, <1>2 DEF Measure
<1> HIDE DEF k, m16
<1>12. part \in Measure /\ (Good(s, part) => Fits(part, w[k]))
  BY <1>7 DEF ValuesFit
<1> HIDE DEF part
<1>13. /\ value \in Measure /\ value.at = part.at
       /\ part.at # 0 => value.dom = m16.dom + part.dom /\ value.data = m16.data + part.data
  BY <1>8, <1>12, ThenMeasures
<1> HIDE DEF value
<1>14. CASE ~a.on
  <2>1. a2 = a
    BY <1>3, <1>14
  <2>2. Good(s, a.m) => b2 = b
    BY <1>1, <1>4, <1>14
  <2> HIDE DEF a2, b2
  <2> QED BY <1>1, <1>5, <2>1, <2>2 DEF LoopsInStep
<1>16. CASE a.on /\ Is(s, p, {"]"})
  <2> DEFINE m2 == [a.m EXCEPT !.at = p + 1]
  <2>1. a2 = Ended(m2)
    BY <1>3, <1>16
  <2>2. m2 \in Measure /\ m2.at = p + 1 /\ m2.dom = a.m.dom /\ m2.data = a.m.data
    BY <1>1, <1>2, <1>6 DEF Measure
  <2> HIDE DEF m2
  <2>3. /\ a2 \in Looping /\ a2.on = FALSE
        /\ a2.m.at = p + 1 /\ a2.m.dom = a.m.dom /\ a2.m.data = a.m.data
    BY <2>1, <2>2, LoopingType
  <2>4. Good(s, a.m) /\ a.m.at <= Len(s) /\ s[p] = "]"
    BY <1>1, <1>2, <1>6, <1>16 DEF Good, Is
  <2>5. b.m.at = a.m.at /\ b.m.dom = a.m.dom /\ b.m.data \in Nat /\ b.m.data <= a.m.data /\ b.on
    BY <1>1, <1>16, <2>4 DEF Fits
  <2>6. p2 = p
    <3>1. ~Is(s, p, {","})
      BY <2>4, TokenNames DEF Is
    <3> QED BY <2>5, <3>1 DEF p
  <2> HIDE DEF p2
  <2>7. b2 = Ended([b.m EXCEPT !.at = p + 1])
    BY <1>2, <1>4, <2>4, <2>5, <2>6
  <2>8. b2.on = FALSE /\ b2.m.at = p + 1 /\ b2.m.dom = a.m.dom /\ b2.m.data = b.m.data
    BY <1>1, <2>5, <2>7 DEF Ended
  <2> HIDE DEF a2, b2
  <2>9. Fits(a2.m, b2.m) /\ b2.on = a2.on
    BY <2>3, <2>5, <2>8 DEF Fits
  <2> QED BY <1>5, <2>3, <2>9 DEF LoopsInStep
<1>17. CASE a.on /\ ~Is(s, p, {"]"}) /\ taken
  <2>1. a2 = On(value)
    BY <1>3, <1>17
  <2>2. a2 \in Looping /\ a2.on = TRUE /\ a2.m = value /\ value.at # 0
    BY <1>13, <1>17, <2>1, LoopingType DEF Ok
  <2>3. ASSUME Good(s, value)
        PROVE  Fits(value, b2.m) /\ b2.on = TRUE
    <3>1. part.at # 0 /\ (comma => Is(s, p, {","}))
      BY <1>13, <1>17, <2>2 DEF Ok
    <3>2. Good(s, part)
      BY <1>13, <2>3 DEF Good
    <3>4. Good(s, a.m)
      <4>1. a.on
        BY <1>17
      <4>4. k <= Len(s)
        BY <1>7, <3>2 DEF ValuesFit, part
      <4>5. a.m.at <= Len(s) + 1
        BY <1>2, <1>6, <1>7, <4>4
      <4> QED BY <1>1, <4>1, <4>5 DEF Good
    <3>5. b.m.at = a.m.at /\ b.m.dom = a.m.dom /\ b.m.data \in Nat /\ b.m.data <= a.m.data /\ b.on
      BY <1>1, <1>17, <3>4 DEF Fits
    <3>6. p2 = k
      <4>1. q = p
        BY <3>5 DEF p
      <4>2. CASE comma
        BY <1>17, <4>1, <4>2 DEF k
      <4>3. CASE ~comma
        BY <4>1, <4>3 DEF k
      <4> QED BY <4>2, <4>3
    <3> HIDE DEF p2
    <3>7. s[p2] # "]"
      BY <1>7, <3>2, <3>6 DEF ValuesFit, part
    <3>9. Fits(part, part2)
      BY <1>12, <3>2, <3>6
    <3> HIDE DEF part2
    <3>10. b2 = On([both EXCEPT !.dom = @ + 16])
      BY <1>4, <3>5, <3>7
    <3>11. /\ b2.on = TRUE /\ b2.m.at = part2.at
           /\ b2.m.dom = b.m.dom + part2.dom + 16
           /\ b2.m.data = b.m.data + part2.data
      BY <3>10 DEF On, Behind
    <3> HIDE DEF b2, both
    <3>12. /\ a.m.dom \in Nat /\ a.m.data \in Nat
           /\ part.dom \in Nat /\ part.data \in Nat
      BY <1>2, <1>12 DEF Measure
    <3>13. /\ value.at = part.at
           /\ value.dom = a.m.dom + 16 + part.dom
           /\ value.data = a.m.data + part.data
      BY <1>8, <1>13, <3>1
    <3>14. /\ part2.at = part.at /\ part2.dom = part.dom
           /\ part2.data \in Nat /\ part2.data <= part.data
      BY <3>9 DEF Fits
    <3>15. b2.m.dom = value.dom
      <4>1. b2.m.dom = a.m.dom + part.dom + 16
        BY <3>5, <3>11, <3>14
      <4>2. a.m.dom + part.dom + 16 = a.m.dom + 16 + part.dom
        BY <3>12
      <4> QED BY <3>13, <4>1, <4>2, Zenon
    <3>16. b2.m.data \in Nat /\ b2.m.data <= value.data
      <4>1. /\ b.m.data \in Nat /\ part2.data \in Nat
            /\ b.m.data <= a.m.data /\ part2.data <= part.data
        BY <3>5, <3>14
      <4>2. b2.m.data = b.m.data + part2.data
        BY <3>11
      <4>3. b.m.data + part2.data \in Nat /\ b.m.data + part2.data <= a.m.data + part.data
        BY <3>12, <4>1
      <4> QED BY <3>13, <4>2, <4>3, Zenon
    <3> QED BY <3>11, <3>13, <3>14, <3>15, <3>16 DEF Fits
  <2> HIDE DEF a2, b2
  <2> QED BY <1>5, <2>2, <2>3 DEF LoopsInStep
<1>18. CASE a.on /\ ~Is(s, p, {"]"}) /\ ~taken
  <2>1. a2 = Ended(Failed)
    BY <1>3, <1>18
  <2>2. a2 \in Looping /\ a2.on = FALSE /\ a2.m.at = 0
    BY <2>1 DEF Ended, Failed, Looping, Measure
  <2>3. ~Good(s, a2.m)
    BY <2>2 DEF Good
  <2> HIDE DEF a2, b2
  <2> QED BY <1>5, <2>2, <2>3 DEF LoopsInStep
<1> HIDE DEF a2, b2, taken
<1> QED BY <1>14, <1>16, <1>17, <1>18
(* The loop over the members of an object.                                 *)
LEMMA SizeMembersTurns ==
  ASSUME NEW s, Len(s) \in Nat, NEW start, NEW values
  PROVE  \E f : /\ f[0] = On(start)
                /\ \A i \in 1 .. Len(s) : f[i] = SizeMember(s, f[i - 1], i > 1, values)
                /\ SizeMembers(s, start, values) = f[Len(s)].m
<1> DEFINE N == Len(s)
           first == On(start)
           Step(i, x) == SizeMember(s, x, i > 1, values)
           F(g, n) == [i \in 0 .. n |-> IF i = 0 THEN first ELSE Step(i, g[i - 1])]
           T == {n \in Nat : \E g : g = F(g, n)}
           f == CHOOSE g : g = F(g, N)
<1>1. SizeMembers(s, start, values) = f[N].m
  BY DEF SizeMembers
<1> HIDE DEF Step, first, N
<1>2. 0 \in T
  <2> DEFINE g == [i \in 0 .. 0 |-> first]
  <2>1. g = F(g, 0)
    OBVIOUS
  <2> HIDE DEF g
  <2> QED BY <2>1
<1>3. ASSUME NEW n \in Nat, n \in T
      PROVE  n + 1 \in T
  <2>1. PICK g : g = F(g, n)
    BY <1>3
  <2> DEFINE h == [i \in 0 .. n + 1 |-> IF i = n + 1 THEN Step(n + 1, g[n]) ELSE g[i]]
  <2>2. \A i \in 0 .. n : g[i] = IF i = 0 THEN first ELSE Step(i, g[i - 1])
    BY <2>1
  <2>3. ASSUME NEW i \in 0 .. n + 1
        PROVE  h[i] = IF i = 0 THEN first ELSE Step(i, h[i - 1])
    <3>1. CASE i = n + 1
      BY <3>1
    <3>2. CASE i # n + 1
      <4>1. i \in 0 .. n /\ h[i] = g[i] /\ (i # 0 => h[i - 1] = g[i - 1])
        BY <3>2
      <4> HIDE DEF h
      <4> QED BY <2>2, <4>1
    <3> QED BY <3>1, <3>2
  <2>4. h = F(h, n + 1)
    <3>1. F(h, n + 1) = [i \in 0 .. n + 1 |-> h[i]]
      BY <2>3
    <3>2. h = [i \in 0 .. n + 1 |-> h[i]]
      OBVIOUS
    <3> QED BY <3>1, <3>2
  <2> HIDE DEF h, F
  <2> QED BY <2>4
<1>4. N \in Nat
  BY DEF N
<1>5. N \in T
  <2> HIDE DEF T
  <2>1. \A n \in Nat : n \in T => n + 1 \in T
    BY <1>3
  <2> QED BY <1>2, <1>4, <2>1, InductionOverNat
<1>6. f = F(f, N)
  <2>1. PICK g : g = F(g, N)
    BY <1>5
  <2> HIDE DEF F
  <2> QED BY <2>1
<1> HIDE DEF f
<1>7. f[0] = first /\ \A i \in 1 .. N : f[i] = Step(i, f[i - 1])
  BY <1>4, <1>6
<1> QED BY <1>1, <1>7 DEF Step, first, N

(* The same loop in the second pass.                                       *)
LEMMA FillMembersTurns ==
  ASSUME NEW s, Len(s) \in Nat, NEW start, NEW values
  PROVE  \E f : /\ f[0] = On(start)
                /\ \A i \in 1 .. Len(s) : f[i] = FillMember(s, f[i - 1], i > 1, values)
                /\ FillMembers(s, start, values) = f[Len(s)].m
<1> DEFINE N == Len(s)
           first == On(start)
           Step(i, x) == FillMember(s, x, i > 1, values)
           F(g, n) == [i \in 0 .. n |-> IF i = 0 THEN first ELSE Step(i, g[i - 1])]
           T == {n \in Nat : \E g : g = F(g, n)}
           f == CHOOSE g : g = F(g, N)
<1>1. FillMembers(s, start, values) = f[N].m
  BY DEF FillMembers
<1> HIDE DEF Step, first, N
<1>2. 0 \in T
  <2> DEFINE g == [i \in 0 .. 0 |-> first]
  <2>1. g = F(g, 0)
    OBVIOUS
  <2> HIDE DEF g
  <2> QED BY <2>1
<1>3. ASSUME NEW n \in Nat, n \in T
      PROVE  n + 1 \in T
  <2>1. PICK g : g = F(g, n)
    BY <1>3
  <2> DEFINE h == [i \in 0 .. n + 1 |-> IF i = n + 1 THEN Step(n + 1, g[n]) ELSE g[i]]
  <2>2. \A i \in 0 .. n : g[i] = IF i = 0 THEN first ELSE Step(i, g[i - 1])
    BY <2>1
  <2>3. ASSUME NEW i \in 0 .. n + 1
        PROVE  h[i] = IF i = 0 THEN first ELSE Step(i, h[i - 1])
    <3>1. CASE i = n + 1
      BY <3>1
    <3>2. CASE i # n + 1
      <4>1. i \in 0 .. n /\ h[i] = g[i] /\ (i # 0 => h[i - 1] = g[i - 1])
        BY <3>2
      <4> HIDE DEF h
      <4> QED BY <2>2, <4>1
    <3> QED BY <3>1, <3>2
  <2>4. h = F(h, n + 1)
    <3>1. F(h, n + 1) = [i \in 0 .. n + 1 |-> h[i]]
      BY <2>3
    <3>2. h = [i \in 0 .. n + 1 |-> h[i]]
      OBVIOUS
    <3> QED BY <3>1, <3>2
  <2> HIDE DEF h, F
  <2> QED BY <2>4
<1>4. N \in Nat
  BY DEF N
<1>5. N \in T
  <2> HIDE DEF T
  <2>1. \A n \in Nat : n \in T => n + 1 \in T
    BY <1>3
  <2> QED BY <1>2, <1>4, <2>1, InductionOverNat
<1>6. f = F(f, N)
  <2>1. PICK g : g = F(g, N)
    BY <1>5
  <2> HIDE DEF F
  <2> QED BY <2>1
<1> HIDE DEF f
<1>7. f[0] = first /\ \A i \in 1 .. N : f[i] = Step(i, f[i - 1])
  BY <1>4, <1>6
<1> QED BY <1>1, <1>7 DEF Step, first, N

(* The loop over the items of an array.                                    *)
LEMMA SizeItemsTurns ==
  ASSUME NEW s, Len(s) \in Nat, NEW start, NEW values
  PROVE  \E f : /\ f[0] = On(start)
                /\ \A i \in 1 .. Len(s) : f[i] = SizeItem(s, f[i - 1], i > 1, values)
                /\ SizeItems(s, start, values) = f[Len(s)].m
<1> DEFINE N == Len(s)
           first == On(start)
           Step(i, x) == SizeItem(s, x, i > 1, values)
           F(g, n) == [i \in 0 .. n |-> IF i = 0 THEN first ELSE Step(i, g[i - 1])]
           T == {n \in Nat : \E g : g = F(g, n)}
           f == CHOOSE g : g = F(g, N)
<1>1. SizeItems(s, start, values) = f[N].m
  BY DEF SizeItems
<1> HIDE DEF Step, first, N
<1>2. 0 \in T
  <2> DEFINE g == [i \in 0 .. 0 |-> first]
  <2>1. g = F(g, 0)
    OBVIOUS
  <2> HIDE DEF g
  <2> QED BY <2>1
<1>3. ASSUME NEW n \in Nat, n \in T
      PROVE  n + 1 \in T
  <2>1. PICK g : g = F(g, n)
    BY <1>3
  <2> DEFINE h == [i \in 0 .. n + 1 |-> IF i = n + 1 THEN Step(n + 1, g[n]) ELSE g[i]]
  <2>2. \A i \in 0 .. n : g[i] = IF i = 0 THEN first ELSE Step(i, g[i - 1])
    BY <2>1
  <2>3. ASSUME NEW i \in 0 .. n + 1
        PROVE  h[i] = IF i = 0 THEN first ELSE Step(i, h[i - 1])
    <3>1. CASE i = n + 1
      BY <3>1
    <3>2. CASE i # n + 1
      <4>1. i \in 0 .. n /\ h[i] = g[i] /\ (i # 0 => h[i - 1] = g[i - 1])
        BY <3>2
      <4> HIDE DEF h
      <4> QED BY <2>2, <4>1
    <3> QED BY <3>1, <3>2
  <2>4. h = F(h, n + 1)
    <3>1. F(h, n + 1) = [i \in 0 .. n + 1 |-> h[i]]
      BY <2>3
    <3>2. h = [i \in 0 .. n + 1 |-> h[i]]
      OBVIOUS
    <3> QED BY <3>1, <3>2
  <2> HIDE DEF h, F
  <2> QED BY <2>4
<1>4. N \in Nat
  BY DEF N
<1>5. N \in T
  <2> HIDE DEF T
  <2>1. \A n \in Nat : n \in T => n + 1 \in T
    BY <1>3
  <2> QED BY <1>2, <1>4, <2>1, InductionOverNat
<1>6. f = F(f, N)
  <2>1. PICK g : g = F(g, N)
    BY <1>5
  <2> HIDE DEF F
  <2> QED BY <2>1
<1> HIDE DEF f
<1>7. f[0] = first /\ \A i \in 1 .. N : f[i] = Step(i, f[i - 1])
  BY <1>4, <1>6
<1> QED BY <1>1, <1>7 DEF Step, first, N

(* The same loop in the second pass.                                       *)
LEMMA FillItemsTurns ==
  ASSUME NEW s, Len(s) \in Nat, NEW start, NEW values
  PROVE  \E f : /\ f[0] = On(start)
                /\ \A i \in 1 .. Len(s) : f[i] = FillItem(s, f[i - 1], i > 1, values)
                /\ FillItems(s, start, values) = f[Len(s)].m
<1> DEFINE N == Len(s)
           first == On(start)
           Step(i, x) == FillItem(s, x, i > 1, values)
           F(g, n) == [i \in 0 .. n |-> IF i = 0 THEN first ELSE Step(i, g[i - 1])]
           T == {n \in Nat : \E g : g = F(g, n)}
           f == CHOOSE g : g = F(g, N)
<1>1. FillItems(s, start, values) = f[N].m
  BY DEF FillItems
<1> HIDE DEF Step, first, N
<1>2. 0 \in T
  <2> DEFINE g == [i \in 0 .. 0 |-> first]
  <2>1. g = F(g, 0)
    OBVIOUS
  <2> HIDE DEF g
  <2> QED BY <2>1
<1>3. ASSUME NEW n \in Nat, n \in T
      PROVE  n + 1 \in T
  <2>1. PICK g : g = F(g, n)
    BY <1>3
  <2> DEFINE h == [i \in 0 .. n + 1 |-> IF i = n + 1 THEN Step(n + 1, g[n]) ELSE g[i]]
  <2>2. \A i \in 0 .. n : g[i] = IF i = 0 THEN first ELSE Step(i, g[i - 1])
    BY <2>1
  <2>3. ASSUME NEW i \in 0 .. n + 1
        PROVE  h[i] = IF i = 0 THEN first ELSE Step(i, h[i - 1])
    <3>1. CASE i = n + 1
      BY <3>1
    <3>2. CASE i # n + 1
      <4>1. i \in 0 .. n /\ h[i] = g[i] /\ (i # 0 => h[i - 1] = g[i - 1])
        BY <3>2
      <4> HIDE DEF h
      <4> QED BY <2>2, <4>1
    <3> QED BY <3>1, <3>2
  <2>4. h = F(h, n + 1)
    <3>1. F(h, n + 1) = [i \in 0 .. n + 1 |-> h[i]]
      BY <2>3
    <3>2. h = [i \in 0 .. n + 1 |-> h[i]]
      OBVIOUS
    <3> QED BY <3>1, <3>2
  <2> HIDE DEF h, F
  <2> QED BY <2>4
<1>4. N \in Nat
  BY DEF N
<1>5. N \in T
  <2> HIDE DEF T
  <2>1. \A n \in Nat : n \in T => n + 1 \in T
    BY <1>3
  <2> QED BY <1>2, <1>4, <2>1, InductionOverNat
<1>6. f = F(f, N)
  <2>1. PICK g : g = F(g, N)
    BY <1>5
  <2> HIDE DEF F
  <2> QED BY <2>1
<1> HIDE DEF f
<1>7. f[0] = first /\ \A i \in 1 .. N : f[i] = Step(i, f[i - 1])
  BY <1>4, <1>6
<1> QED BY <1>1, <1>7 DEF Step, first, N

(* An object is read to the same place, and no more is written.            *)
LEMMA MembersFit ==
  ASSUME NEW s, Len(s) \in Nat, NEW v, NEW w, ValuesFit(s, v, w),
         NEW start \in Measure, NEW node, start.at # 0,
         node = [at |-> node.at, dom |-> node.dom, data |-> node.data, value |-> node.value],
         Fits(start, node)
  PROVE  /\ SizeMembers(s, start, v) \in Measure
         /\ Good(s, SizeMembers(s, start, v)) => Fits(SizeMembers(s, start, v), FillMembers(s, node, w))
         /\ FillMembers(s, node, w) = [at |-> FillMembers(s, node, w).at, dom |-> FillMembers(s, node, w).dom,
              data |-> FillMembers(s, node, w).data, value |-> FillMembers(s, node, w).value]
<1> DEFINE N == Len(s)
<1>1. N \in Nat
  OBVIOUS
<1>2. PICK a : /\ a[0] = On(start)
               /\ \A i \in 1 .. N : a[i] = SizeMember(s, a[i - 1], i > 1, v)
               /\ SizeMembers(s, start, v) = a[N].m
  BY SizeMembersTurns
<1>3. PICK b : /\ b[0] = On(node)
               /\ \A i \in 1 .. N : b[i] = FillMember(s, b[i - 1], i > 1, w)
               /\ FillMembers(s, node, w) = b[N].m
  BY FillMembersTurns
<1> DEFINE T == {i \in Nat : i <= N => LoopsInStep(s, a[i], b[i])}
<1> HIDE DEF N
<1>4. 0 \in T
  <2> DEFINE a0 == a[0]
             b0 == b[0]
  <2>1. a0 \in Looping /\ a0.m = start /\ a0.on = TRUE
    BY <1>2, LoopingType
  <2>2. b0 = [m |-> b0.m, on |-> b0.on] /\ b0.m = node /\ b0.on = TRUE
    BY <1>3 DEF On
  <2> HIDE DEF a0, b0
  <2>3. LoopsInStep(s, a0, b0)
    BY <2>1, <2>2 DEF LoopsInStep
  <2> QED BY <2>3 DEF a0, b0
<1>5. ASSUME NEW i \in Nat, i \in T
      PROVE  i + 1 \in T
  <2> SUFFICES ASSUME i + 1 <= N PROVE LoopsInStep(s, a[i + 1], b[i + 1])
    OBVIOUS
  <2>1. i + 1 \in 1 .. N /\ (i + 1) - 1 = i /\ LoopsInStep(s, a[i], b[i])
    BY <1>1, <1>5
  <2> DEFINE comma == i + 1 > 1
  <2>2. a[i + 1] = SizeMember(s, a[i], comma, v) /\ b[i + 1] = FillMember(s, b[i], comma, w)
    BY <1>2, <1>3, <2>1
  <2>3. comma \in BOOLEAN
    OBVIOUS
  <2> HIDE DEF comma
  <2> QED BY <2>1, <2>2, <2>3, MemberInStep
<1>6. LoopsInStep(s, a[N], b[N])
  <2>1. \A i \in Nat : i \in T => i + 1 \in T
    BY <1>5
  <2>2. Nat \subseteq T
    <3> HIDE DEF T
    <3> QED BY <1>4, <2>1, InductionOverNat
  <2> QED BY <1>1, <2>2
<1>7. a[N].m \in Measure
  BY <1>6 DEF LoopsInStep, Looping
<1> QED BY <1>2, <1>3, <1>6, <1>7 DEF LoopsInStep

(* An array is read to the same place, and no more is written.             *)
LEMMA ItemsFit ==
  ASSUME NEW s, Len(s) \in Nat, NEW v, NEW w, ValuesFit(s, v, w),
         NEW start \in Measure, NEW node, start.at # 0,
         node = [at |-> node.at, dom |-> node.dom, data |-> node.data, value |-> node.value],
         Fits(start, node)
  PROVE  /\ SizeItems(s, start, v) \in Measure
         /\ Good(s, SizeItems(s, start, v)) => Fits(SizeItems(s, start, v), FillItems(s, node, w))
         /\ FillItems(s, node, w) = [at |-> FillItems(s, node, w).at, dom |-> FillItems(s, node, w).dom,
              data |-> FillItems(s, node, w).data, value |-> FillItems(s, node, w).value]
<1> DEFINE N == Len(s)
<1>1. N \in Nat
  OBVIOUS
<1>2. PICK a : /\ a[0] = On(start)
               /\ \A i \in 1 .. N : a[i] = SizeItem(s, a[i - 1], i > 1, v)
               /\ SizeItems(s, start, v) = a[N].m
  BY SizeItemsTurns
<1>3. PICK b : /\ b[0] = On(node)
               /\ \A i \in 1 .. N : b[i] = FillItem(s, b[i - 1], i > 1, w)
               /\ FillItems(s, node, w) = b[N].m
  BY FillItemsTurns
<1> DEFINE T == {i \in Nat : i <= N => LoopsInStep(s, a[i], b[i])}
<1> HIDE DEF N
<1>4. 0 \in T
  <2> DEFINE a0 == a[0]
             b0 == b[0]
  <2>1. a0 \in Looping /\ a0.m = start /\ a0.on = TRUE
    BY <1>2, LoopingType
  <2>2. b0 = [m |-> b0.m, on |-> b0.on] /\ b0.m = node /\ b0.on = TRUE
    BY <1>3 DEF On
  <2> HIDE DEF a0, b0
  <2>3. LoopsInStep(s, a0, b0)
    BY <2>1, <2>2 DEF LoopsInStep
  <2> QED BY <2>3 DEF a0, b0
<1>5. ASSUME NEW i \in Nat, i \in T
      PROVE  i + 1 \in T
  <2> SUFFICES ASSUME i + 1 <= N PROVE LoopsInStep(s, a[i + 1], b[i + 1])
    OBVIOUS
  <2>1. i + 1 \in 1 .. N /\ (i + 1) - 1 = i /\ LoopsInStep(s, a[i], b[i])
    BY <1>1, <1>5
  <2> DEFINE comma == i + 1 > 1
  <2>2. a[i + 1] = SizeItem(s, a[i], comma, v) /\ b[i + 1] = FillItem(s, b[i], comma, w)
    BY <1>2, <1>3, <2>1
  <2>3. comma \in BOOLEAN
    OBVIOUS
  <2> HIDE DEF comma
  <2> QED BY <2>1, <2>2, <2>3, ItemInStep
<1>6. LoopsInStep(s, a[N], b[N])
  <2>1. \A i \in Nat : i \in T => i + 1 \in T
    BY <1>5
  <2>2. Nat \subseteq T
    <3> HIDE DEF T
    <3> QED BY <1>4, <2>1, InductionOverNat
  <2> QED BY <1>1, <2>2
<1>7. a[N].m \in Measure
  BY <1>6 DEF LoopsInStep, Looping
<1> QED BY <1>2, <1>3, <1>6, <1>7 DEF LoopsInStep

-----------------------------------------------------------------------------
(* Values                                                                  *)

LEMMA ValueFits ==
  ASSUME NEW s, Len(s) \in Nat, NEW v, NEW w, NEW levels \in Nat,
         levels > 0 => ValuesFit(s, v, w), NEW from \in Nat
  PROVE  /\ SizeValue(s, from, levels, v) \in Measure
         /\ Good(s, SizeValue(s, from, levels, v)) =>
              /\ Fits(SizeValue(s, from, levels, v), FillValue(s, from, levels, w))
              /\ from <= Len(s) /\ s[from] # "]"
<1> DEFINE m == SizeValue(s, from, levels, v)
           f == FillValue(s, from, levels, w)
           p == Skip(s, from)
           value == [at |-> p, dom |-> 16, data |-> 0]
           inner == [at |-> p + 1, dom |-> 32, data |-> 0]
           node  == [at |-> p, dom |-> 16, data |-> 0, value |-> <<>>]
           open  == [at |-> p + 1, dom |-> 32, data |-> 0, value |-> <<>>]
<1> SUFFICES /\ m \in Measure
             /\ Good(s, m) => Fits(m, f) /\ from <= Len(s) /\ s[from] # "]"
  OBVIOUS
<1>1. p \in Nat /\ from <= p
  BY SkipStops
<1>2. s[p] # "]" /\ p <= Len(s) => from <= Len(s) /\ s[from] # "]"
  <2>1. \A x \in from .. p - 1 : s[x] \in Spaces
    BY RunStops DEF Skip
  <2>2. p <= Len(s) => from <= Len(s)
    BY <1>1
  <2>3. "]" \notin Spaces
    BY DEF Spaces
  <2>4. from # p => from \in from .. p - 1
    BY <1>1
  <2> QED BY <2>1, <2>2, <2>3, <2>4
<1> HIDE DEF p
<1>3. value \in Measure /\ inner \in Measure /\ inner.at # 0
  BY <1>1 DEF Measure
<1>4. Failed \in Measure /\ ~Good(s, Failed)
  BY DEF Failed, Measure, Good
<1>5. CASE Is(s, p, {Quote})
  <2>1. s[p] = Quote /\ p <= Len(s)
    BY <1>5 DEF Is
  <2> DEFINE str == SizeString(s, p)
             filled == FillString(s, p)
  <2>2. m = Then(value, str)
    BY <1>5, <2>1, TokenNames DEF SizeValue, Is, Digits, Literals, Quote, p
  <2>3. f = [Behind(node, filled, filled.value) EXCEPT !.value = [type |-> "string", of |-> @]]
    BY <2>1, TokenNames DEF FillValue, Digits, Literals, Quote, p
  <2>4. str \in Measure /\ (str.at # 0 => Fits(str, filled))
    BY <1>1, StringFits
  <2> HIDE DEF str, filled
  <2>5. /\ m \in Measure /\ m.at = str.at
        /\ str.at # 0 => m.dom = 16 + str.dom /\ m.data = 0 + str.data
    BY <1>3, <2>2, <2>4, ThenMeasures
  <2>6. f.at = filled.at /\ f.dom = 16 + filled.dom /\ f.data = 0 + filled.data
    BY <2>3 DEF Behind
  <2>7. s[p] # "]"
    BY <2>1, TokenNames
  <2> HIDE DEF m, f
  <2>8. Good(s, m) => Fits(m, f)
    BY <2>4, <2>5, <2>6 DEF Good, Fits, Measure
  <2> QED BY <1>2, <2>1, <2>5, <2>7, <2>8
<1>6. CASE Is(s, p, {Open, "["}) /\ levels = 0
  <2>1. /\ Is(s, p, {Open, "["}) /\ ~Is(s, p, {Quote})
        /\ ~Is(s, p, Digits \cup {"-"}) /\ ~Is(s, p, Literals)
    BY <1>6 DEF Is, Digits, Literals, Open, Quote
  <2>2. m = Failed
    BY <1>6, <2>1 DEF SizeValue, p
  <2> QED BY <1>4, <2>2
<1>7. CASE Is(s, p, {Open}) /\ levels > 0
  <2>1. s[p] = Open /\ p <= Len(s)
    BY <1>7 DEF Is
  <2> DEFINE size == SizeMembers(s, inner, v)
             fill == FillMembers(s, open, w)
  <2>2. m = size
    <3>1. /\ Is(s, p, {Open}) /\ ~Is(s, p, {Quote}) /\ ~Is(s, p, {"["})
          /\ ~Is(s, p, Digits \cup {"-"}) /\ ~Is(s, p, Literals)
      BY <1>7, <2>1 DEF Is, Digits, Literals, Open, Quote
    <3>2. levels # 0
      BY <1>7
    <3> QED BY <1>7, <3>1, <3>2 DEF SizeValue, p
  <2>3. f = [fill EXCEPT !.value = [type |-> "object", of |-> @]]
    BY <1>7, <2>1, TokenNames DEF FillValue, Digits, Literals, Open, Quote, p
  <2>4. /\ size \in Measure /\ (Good(s, size) => Fits(size, fill))
        /\ fill = [at |-> fill.at, dom |-> fill.dom, data |-> fill.data, value |-> fill.value]
    <3>1. /\ open = [at |-> open.at, dom |-> open.dom, data |-> open.data, value |-> open.value]
          /\ Fits(inner, open)
      BY DEF Fits
    <3> HIDE DEF open, inner
    <3> QED BY <1>3, <1>7, <3>1, MembersFit
  <2> HIDE DEF size, fill
  <2>5. f.at = fill.at /\ f.dom = fill.dom /\ f.data = fill.data
    BY <2>3, <2>4
  <2>6. s[p] # "]"
    BY <2>1 DEF Open
  <2> HIDE DEF m, f
  <2> QED BY <1>2, <2>1, <2>2, <2>4, <2>5, <2>6 DEF Fits
<1>8. CASE Is(s, p, {"["}) /\ levels > 0
  <2>1. s[p] = "[" /\ p <= Len(s)
    BY <1>8 DEF Is
  <2> DEFINE size == SizeItems(s, inner, v)
             fill == FillItems(s, open, w)
  <2>2. m = size
    <3>1. /\ Is(s, p, {"["}) /\ ~Is(s, p, {Quote}) /\ ~Is(s, p, {Open})
          /\ ~Is(s, p, Digits \cup {"-"}) /\ ~Is(s, p, Literals)
      BY <1>8, <2>1 DEF Is, Digits, Literals, Open, Quote
    <3>2. levels # 0
      BY <1>8
    <3> QED BY <1>8, <3>1, <3>2 DEF SizeValue, p
  <2>3. f = [fill EXCEPT !.value = [type |-> "array", of |-> @]]
    BY <1>8, <2>1, TokenNames DEF FillValue, Digits, Literals, Open, Quote, p
  <2>4. /\ size \in Measure /\ (Good(s, size) => Fits(size, fill))
        /\ fill = [at |-> fill.at, dom |-> fill.dom, data |-> fill.data, value |-> fill.value]
    <3>1. /\ open = [at |-> open.at, dom |-> open.dom, data |-> open.data, value |-> open.value]
          /\ Fits(inner, open)
      BY DEF Fits
    <3> HIDE DEF open, inner
    <3> QED BY <1>3, <1>8, <3>1, ItemsFit
  <2> HIDE DEF size, fill
  <2>5. f.at = fill.at /\ f.dom = fill.dom /\ f.data = fill.data
    BY <2>3, <2>4
  <2>6. s[p] # "]"
    BY <2>1
  <2> HIDE DEF m, f
  <2> QED BY <1>2, <2>1, <2>2, <2>4, <2>5, <2>6 DEF Fits
<1>9. CASE Is(s, p, Digits \cup {"-"})
  <2>1. s[p] \in Digits \cup {"-"} /\ p <= Len(s)
    BY <1>9 DEF Is
  <2> DEFINE num == SizeNumber(s, p)
             filled == FillNumber(s, p)
  <2>2. m = Then(value, num)
    BY <1>9, <2>1 DEF SizeValue, Is, Digits, Literals, Open, Quote, p
  <2>3. f = [Behind(node, filled, filled.value) EXCEPT !.value = [type |-> "number", of |-> @]]
    BY <2>1 DEF FillValue, Digits, Literals, Open, Quote, p
  <2>4. num \in Measure /\ (Good(s, num) => Fits(num, filled))
    BY <1>1, <1>9, NumberFits
  <2> HIDE DEF num, filled
  <2>5. /\ m \in Measure /\ m.at = num.at
        /\ num.at # 0 => m.dom = 16 + num.dom /\ m.data = 0 + num.data
    BY <1>3, <2>2, <2>4, ThenMeasures
  <2>6. f.at = filled.at /\ f.dom = 16 + filled.dom /\ f.data = 0 + filled.data
    BY <2>3 DEF Behind
  <2>7. s[p] # "]"
    BY <2>1 DEF Digits
  <2> HIDE DEF m, f
  <2>8. Good(s, m) => Fits(m, f)
    BY <2>4, <2>5, <2>6 DEF Good, Fits, Measure
  <2> QED BY <1>2, <2>1, <2>5, <2>7, <2>8
<1>10. CASE Is(s, p, Literals)
  <2>1. s[p] \in Literals /\ p <= Len(s)
    BY <1>10 DEF Is
  <2>2. m = [value EXCEPT !.at = p + 1]
    BY <1>10, <2>1 DEF SizeValue, Is, Digits, Literals, Open, Quote, p
  <2>3. f = [[node EXCEPT !.at = p + 1, !.value = s[p]]
                EXCEPT !.value = [type |-> "literal", of |-> @]]
    BY <2>1 DEF FillValue, Digits, Literals, Open, Quote, p
  <2>4. m \in Measure /\ Fits(m, f)
    BY <1>1, <2>2, <2>3 DEF Measure, Fits
  <2>5. s[p] # "]"
    BY <2>1 DEF Literals
  <2> HIDE DEF m, f
  <2> QED BY <1>2, <2>1, <2>4, <2>5
<1>11. CASE /\ ~Is(s, p, {Quote}) /\ ~(Is(s, p, {Open, "["}) /\ levels = 0)
            /\ ~(Is(s, p, {Open}) /\ levels > 0) /\ ~(Is(s, p, {"["}) /\ levels > 0)
            /\ ~Is(s, p, Digits \cup {"-"}) /\ ~Is(s, p, Literals)
  <2>1. m = Failed
    BY <1>11 DEF SizeValue, p
  <2> QED BY <1>4, <2>1
<1> HIDE DEF m, f
<1> QED BY <1>5, <1>6, <1>7, <1>8, <1>9, <1>10, <1>11

(* What the first pass makes of values, level by level.                    *)
LEMMA SizeLevels ==
  ASSUME NEW s
  PROVE  \E f : /\ \A l \in 0 .. MaxRecursion :
                     f[l] = [from \in Nat |-> SizeValue(s, from, l, f[l - 1])]
                /\ SizeValues(s) = f[MaxRecursion]
<1> DEFINE Value(from, l, x) == SizeValue(s, from, l, x)
           F(g, n) == [l \in 0 .. n |-> [from \in Nat |-> Value(from, l, g[l - 1])]]
           T == {n \in Nat : \E g : g = F(g, n)}
           f == CHOOSE g : g = F(g, MaxRecursion)
<1>1. SizeValues(s) = f[MaxRecursion]
  BY DEF SizeValues
<1>2. \A from, x, y : Value(from, 0, x) = Value(from, 0, y)
  BY DEF SizeValue
<1> HIDE DEF Value
<1>3. 0 \in T
  <2> DEFINE g == [l \in 0 .. 0 |-> [from \in Nat |-> Value(from, 0, 0)]]
  <2>1. g = F(g, 0)
    <3>1. [from \in Nat |-> Value(from, 0, 0)] = [from \in Nat |-> Value(from, 0, g[0 - 1])]
      BY <1>2
    <3> HIDE DEF g
    <3>2. F(g, 0) = [l \in 0 .. 0 |-> [from \in Nat |-> Value(from, 0, g[0 - 1])]]
      OBVIOUS
    <3> QED BY <3>1, <3>2 DEF g
  <2> HIDE DEF g
  <2> QED BY <2>1
<1>4. ASSUME NEW n \in Nat, n \in T
      PROVE  n + 1 \in T
  <2>1. PICK g : g = F(g, n)
    BY <1>4
  <2> DEFINE next == [from \in Nat |-> Value(from, n + 1, g[n])]
             h == [l \in 0 .. n + 1 |-> IF l = n + 1 THEN next ELSE g[l]]
  <2>2. \A l \in 0 .. n : g[l] = [from \in Nat |-> Value(from, l, g[l - 1])]
    BY <2>1
  <2>3. ASSUME NEW l \in 0 .. n + 1
        PROVE  h[l] = [from \in Nat |-> Value(from, l, h[l - 1])]
    <3>1. CASE l = n + 1
      <4>1. h[l] = next /\ h[l - 1] = g[n]
        BY <3>1
      <4> HIDE DEF h
      <4> QED BY <3>1, <4>1
    <3>2. CASE l # n + 1 /\ l # 0
      <4>1. l \in 0 .. n /\ h[l] = g[l] /\ h[l - 1] = g[l - 1]
        BY <3>2
      <4> HIDE DEF h
      <4> QED BY <2>2, <4>1
    <3>3. CASE l = 0
      <4>1. h[0] = g[0] /\ 0 \in 0 .. n
        BY <3>3
      <4> HIDE DEF h
      <4>2. h[0] = [from \in Nat |-> Value(from, 0, g[0 - 1])]
        BY <2>2, <4>1
      <4>3. [from \in Nat |-> Value(from, 0, g[0 - 1])] = [from \in Nat |-> Value(from, 0, h[0 - 1])]
        BY <1>2
      <4> QED BY <3>3, <4>2, <4>3
    <3> QED BY <3>1, <3>2, <3>3
  <2>4. h = F(h, n + 1)
    <3>1. h = [l \in 0 .. n + 1 |-> h[l]]
      OBVIOUS
    <3> HIDE DEF h
    <3>2. F(h, n + 1) = [l \in 0 .. n + 1 |-> h[l]]
      BY <2>3
    <3> QED BY <3>1, <3>2
  <2> HIDE DEF h, F
  <2> QED BY <2>4
<1>5. MaxRecursion \in T
  <2> HIDE DEF T
  <2>1. \A n \in Nat : n \in T => n + 1 \in T
    BY <1>4
  <2> QED BY <1>3, <2>1, RecursionAssumption, InductionOverNat
<1>6. f = F(f, MaxRecursion)
  <2>1. PICK g : g = F(g, MaxRecursion)
    BY <1>5
  <2> HIDE DEF F
  <2> QED BY <2>1
<1> HIDE DEF f
<1>7. \A l \in 0 .. MaxRecursion : f[l] = [from \in Nat |-> Value(from, l, f[l - 1])]
  BY <1>6
<1> QED BY <1>1, <1>7 DEF Value

(* The same in the second pass.                                            *)
LEMMA FillLevels ==
  ASSUME NEW s
  PROVE  \E f : /\ \A l \in 0 .. MaxRecursion :
                     f[l] = [from \in Nat |-> FillValue(s, from, l, f[l - 1])]
                /\ FillValues(s) = f[MaxRecursion]
<1> DEFINE Value(from, l, x) == FillValue(s, from, l, x)
           F(g, n) == [l \in 0 .. n |-> [from \in Nat |-> Value(from, l, g[l - 1])]]
           T == {n \in Nat : \E g : g = F(g, n)}
           f == CHOOSE g : g = F(g, MaxRecursion)
<1>1. FillValues(s) = f[MaxRecursion]
  BY DEF FillValues
<1>2. \A from, x, y : Value(from, 0, x) = Value(from, 0, y)
  BY DEF FillValue
<1> HIDE DEF Value
<1>3. 0 \in T
  <2> DEFINE g == [l \in 0 .. 0 |-> [from \in Nat |-> Value(from, 0, 0)]]
  <2>1. g = F(g, 0)
    <3>1. [from \in Nat |-> Value(from, 0, 0)] = [from \in Nat |-> Value(from, 0, g[0 - 1])]
      BY <1>2
    <3> HIDE DEF g
    <3>2. F(g, 0) = [l \in 0 .. 0 |-> [from \in Nat |-> Value(from, 0, g[0 - 1])]]
      OBVIOUS
    <3> QED BY <3>1, <3>2 DEF g
  <2> HIDE DEF g
  <2> QED BY <2>1
<1>4. ASSUME NEW n \in Nat, n \in T
      PROVE  n + 1 \in T
  <2>1. PICK g : g = F(g, n)
    BY <1>4
  <2> DEFINE next == [from \in Nat |-> Value(from, n + 1, g[n])]
             h == [l \in 0 .. n + 1 |-> IF l = n + 1 THEN next ELSE g[l]]
  <2>2. \A l \in 0 .. n : g[l] = [from \in Nat |-> Value(from, l, g[l - 1])]
    BY <2>1
  <2>3. ASSUME NEW l \in 0 .. n + 1
        PROVE  h[l] = [from \in Nat |-> Value(from, l, h[l - 1])]
    <3>1. CASE l = n + 1
      <4>1. h[l] = next /\ h[l - 1] = g[n]
        BY <3>1
      <4> HIDE DEF h
      <4> QED BY <3>1, <4>1
    <3>2. CASE l # n + 1 /\ l # 0
      <4>1. l \in 0 .. n /\ h[l] = g[l] /\ h[l - 1] = g[l - 1]
        BY <3>2
      <4> HIDE DEF h
      <4> QED BY <2>2, <4>1
    <3>3. CASE l = 0
      <4>1. h[0] = g[0] /\ 0 \in 0 .. n
        BY <3>3
      <4> HIDE DEF h
      <4>2. h[0] = [from \in Nat |-> Value(from, 0, g[0 - 1])]
        BY <2>2, <4>1
      <4>3. [from \in Nat |-> Value(from, 0, g[0 - 1])] = [from \in Nat |-> Value(from, 0, h[0 - 1])]
        BY <1>2
      <4> QED BY <3>3, <4>2, <4>3
    <3> QED BY <3>1, <3>2, <3>3
  <2>4. h = F(h, n + 1)
    <3>1. h = [l \in 0 .. n + 1 |-> h[l]]
      OBVIOUS
    <3> HIDE DEF h
    <3>2. F(h, n + 1) = [l \in 0 .. n + 1 |-> h[l]]
      BY <2>3
    <3> QED BY <3>1, <3>2
  <2> HIDE DEF h, F
  <2> QED BY <2>4
<1>5. MaxRecursion \in T
  <2> HIDE DEF T
  <2>1. \A n \in Nat : n \in T => n + 1 \in T
    BY <1>4
  <2> QED BY <1>3, <2>1, RecursionAssumption, InductionOverNat
<1>6. f = F(f, MaxRecursion)
  <2>1. PICK g : g = F(g, MaxRecursion)
    BY <1>5
  <2> HIDE DEF F
  <2> QED BY <2>1
<1> HIDE DEF f
<1>7. \A l \in 0 .. MaxRecursion : f[l] = [from \in Nat |-> Value(from, l, f[l - 1])]
  BY <1>6
<1> QED BY <1>1, <1>7 DEF Value

(* Level by level, the two passes fit.                                     *)
LEMMA LevelsFit ==
  ASSUME NEW s, Len(s) \in Nat
  PROVE  \E f, g :
           /\ \A l \in 0 .. MaxRecursion :
                /\ f[l] = [from \in Nat |-> SizeValue(s, from, l, f[l - 1])]
                /\ ValuesFit(s, f[l], g[l])
           /\ SizeValues(s) = f[MaxRecursion] /\ FillValues(s) = g[MaxRecursion]
<1>1. PICK f : /\ \A l \in 0 .. MaxRecursion : f[l] = [from \in Nat |-> SizeValue(s, from, l, f[l - 1])]
               /\ SizeValues(s) = f[MaxRecursion]
  BY SizeLevels
<1>2. PICK g : /\ \A l \in 0 .. MaxRecursion : g[l] = [from \in Nat |-> FillValue(s, from, l, g[l - 1])]
               /\ FillValues(s) = g[MaxRecursion]
  BY FillLevels
<1> DEFINE T == {l \in Nat : l <= MaxRecursion => ValuesFit(s, f[l], g[l])}
<1>3. ASSUME NEW l \in Nat, l <= MaxRecursion, l > 0 => ValuesFit(s, f[l - 1], g[l - 1])
      PROVE  ValuesFit(s, f[l], g[l])
  <2>1. l \in 0 .. MaxRecursion
    BY <1>3, RecursionAssumption
  <2>2. ASSUME NEW from \in Nat
        PROVE  /\ f[l][from] \in Measure
               /\ Good(s, f[l][from]) =>
                    Fits(f[l][from], g[l][from]) /\ from <= Len(s) /\ s[from] # "]"
    <3>1. f[l][from] = SizeValue(s, from, l, f[l - 1]) /\ g[l][from] = FillValue(s, from, l, g[l - 1])
      BY <1>1, <1>2, <2>1
    <3> QED BY <1>3, <3>1, ValueFits
  <2> QED BY <2>2 DEF ValuesFit
<1>4. 0 \in T
  BY <1>3
<1>5. ASSUME NEW l \in Nat, l \in T
      PROVE  l + 1 \in T
  <2> SUFFICES ASSUME l + 1 <= MaxRecursion PROVE ValuesFit(s, f[l + 1], g[l + 1])
    OBVIOUS
  <2>1. ValuesFit(s, f[l], g[l]) /\ (l + 1) - 1 = l
    BY <1>5, RecursionAssumption
  <2> QED BY <1>3, <2>1
<1>6. \A l \in 0 .. MaxRecursion : ValuesFit(s, f[l], g[l])
  <2>1. \A l \in Nat : l \in T => l + 1 \in T
    BY <1>5
  <2>2. Nat \subseteq T
    <3> HIDE DEF T
    <3> QED BY <1>4, <2>1, InductionOverNat
  <2> QED BY <2>2, RecursionAssumption
<1> QED BY <1>1, <1>2, <1>6

(* Whatever is accepted: the second pass reads it to the same place, writes *)
(* all the nodes and no more characters than were counted.                 *)
THEOREM TextFits ==
  ASSUME NEW s, Len(s) \in Nat, Accepts(s)
  PROVE  Size(s) \in Measure /\ Good(s, Size(s)) /\ Fits(Size(s), Fill(s))
<1>1. PICK f, g : /\ \A l \in 0 .. MaxRecursion : ValuesFit(s, f[l], g[l])
                  /\ SizeValues(s) = f[MaxRecursion] /\ FillValues(s) = g[MaxRecursion]
  BY LevelsFit
<1>2. /\ SizeValues(s)[1] \in Measure
      /\ Good(s, SizeValues(s)[1]) => Fits(SizeValues(s)[1], FillValues(s)[1])
  BY <1>1, RecursionAssumption DEF ValuesFit
<1> DEFINE m == SizeValues(s)[1]
<1>3. Size(s) = m /\ m.at # 0 /\ Skip(s, m.at) = Len(s) + 1
  BY DEF Accepts, Size, Ok, Failed
<1> HIDE DEF m
<1>4. m.at \in Nat
  BY <1>2 DEF m, Measure
<1>5. Good(s, m)
  BY <1>3, <1>4, SkipStops DEF Good
<1> QED BY <1>2, <1>3, <1>5 DEF Fill, m

(* Everything that is received: Contexts may hold any text.                *)
THEOREM FilledFitsSizedHolds == TextSpec => []FilledFitsSized
<1>1. TextInv => FilledFitsSized
  <2> SUFFICES ASSUME TextInv, Accepts(received) 
               PROVE  LET size == Size(received) fill == Fill(received)
                      IN fill.at = size.at /\ fill.dom = size.dom /\ fill.data <= size.data
    BY DEF FilledFitsSized
  <2>1. Len(received) \in Nat
    BY DEF TextInv, Texts
  <2> QED BY <2>1, TextFits DEF Fits
<1> QED BY <1>1, TextInvInit, TextInvNext, PTL DEF TextSpec

-----------------------------------------------------------------------------
(* findJsonEnd on what is accepted                                         *)

(* What findJsonEnd has after every token.                                 *)
IsScan(s, u) ==
  /\ u[0] = ScanStart
  /\ \A i \in 1 .. Len(s) : u[i] = ScanToken(u[i - 1], s[i], i)

(* It is within objects and outside strings, in a string, or in a string   *)
(* and behind a backslash.                                                 *)
Calm(r, d) == r \in Scans /\ r.end = 0 /\ r.depth = d /\ ~r.string /\ ~r.escaped
InString(r, d) == r \in Scans /\ r.end = 0 /\ r.depth = d /\ r.string /\ ~r.escaped
Escaping(r, d) == r \in Scans /\ r.end = 0 /\ r.depth = d /\ r.string /\ r.escaped

Marks == {Quote, Open, Close}

LEMMA MarksApart ==
  /\ Spaces \cap Marks = {} /\ NumberTokens \cap Marks = {} /\ Literals \cap Marks = {}
  /\ "," \notin Marks /\ ":" \notin Marks /\ "[" \notin Marks /\ "]" \notin Marks
BY DEF Marks, Spaces, NumberTokens, Digits, Literals, Quote, Open, Close

(* What a token does to it.                                                *)
LEMMA PlainToken ==
  ASSUME NEW r, NEW d, Calm(r, d), NEW t, t \notin Marks, NEW i
  PROVE  ScanToken(r, t, i) = r
BY DEF Calm, Marks, ScanToken

LEMMA OpenToken ==
  ASSUME NEW r, NEW d \in Nat, Calm(r, d), NEW i \in Nat
  PROVE  Calm(ScanToken(r, Open, i), d + 1)
<1>1. ScanToken(r, Open, i) = [r EXCEPT !.depth = @ + 1]
  BY TokensDiffer DEF Calm, ScanToken
<1>2. ScanToken(r, Open, i) \in Scans
  BY ScanType DEF Calm
<1> QED BY <1>1, <1>2 DEF Calm, Scans

(* The brace that closes an inner object, and the one that closes all.     *)
LEMMA CloseToken ==
  ASSUME NEW r, NEW d \in Nat \ {0}, Calm(r, d), NEW i \in Nat
  PROVE  /\ d > 1 => Calm(ScanToken(r, Close, i), d - 1)
         /\ d = 1 => ScanToken(r, Close, i).end = i
<1>1. ScanToken(r, Close, i) = [r EXCEPT !.depth = @ - 1, !.end = IF d = 1 THEN i ELSE 0]
  BY TokensDiffer DEF Calm, ScanToken
<1>2. ScanToken(r, Close, i) \in Scans
  BY ScanType DEF Calm
<1> QED BY <1>1, <1>2 DEF Calm, Scans

LEMMA QuoteToken ==
  ASSUME NEW r, NEW d, NEW i \in Nat
  PROVE  /\ Calm(r, d) => InString(ScanToken(r, Quote, i), d)
         /\ InString(r, d) => Calm(ScanToken(r, Quote, i), d)
<1>1. ASSUME r \in Scans, r.end = 0, ~r.escaped
      PROVE  ScanToken(r, Quote, i) = [r EXCEPT !.string = ~@] /\ ScanToken(r, Quote, i) \in Scans
  BY <1>1, ScanType, TokensDiffer DEF ScanToken
<1> QED BY <1>1 DEF Calm, InString, Scans

LEMMA BackslashToken ==
  ASSUME NEW r, NEW d, InString(r, d), NEW i \in Nat
  PROVE  Escaping(ScanToken(r, Backslash, i), d)
<1>1. ScanToken(r, Backslash, i) = [r EXCEPT !.escaped = TRUE]
  BY DEF InString, ScanToken
<1> QED BY <1>1, ScanType DEF InString, Escaping, Scans

LEMMA StringToken ==
  ASSUME NEW r, NEW d, NEW t, NEW i \in Nat
  PROVE  /\ Escaping(r, d) => InString(ScanToken(r, t, i), d)
         /\ InString(r, d) /\ t \notin {Quote, Backslash} => ScanToken(r, t, i) = r
<1>1. ASSUME Escaping(r, d)
      PROVE  InString(ScanToken(r, t, i), d)
  <2>1. ScanToken(r, t, i) = [r EXCEPT !.escaped = FALSE]
    BY <1>1 DEF Escaping, ScanToken
  <2> QED BY <1>1, <2>1, ScanType DEF InString, Escaping, Scans
<1>2. ASSUME InString(r, d), t \notin {Quote, Backslash}
      PROVE  ScanToken(r, t, i) = r
  BY <1>2 DEF InString, ScanToken
<1> QED BY <1>1, <1>2

(* Nothing happens in a run of plain tokens.                               *)
LEMMA PlainRun ==
  ASSUME NEW s, Len(s) \in Nat, NEW u, IsScan(s, u),
         NEW p \in Nat \ {0}, NEW q \in Nat, p <= q, q <= Len(s) + 1,
         \A x \in p .. q - 1 : s[x] \notin Marks, NEW d, Calm(u[p - 1], d)
  PROVE  u[q - 1] = u[p - 1]
<1> DEFINE T == {k \in Nat : p + k <= q => u[p + k - 1] = u[p - 1]}
<1>1. 0 \in T
  OBVIOUS
<1>2. ASSUME NEW k \in Nat, k \in T
      PROVE  k + 1 \in T
  <2> SUFFICES ASSUME p + k + 1 <= q PROVE u[p + k] = u[p - 1]
    BY p + (k + 1) - 1 = p + k
  <2>1. u[p + k - 1] = u[p - 1]
    BY <1>2
  <2>2. p + k \in p .. q - 1 /\ p + k \in 1 .. Len(s)
    OBVIOUS
  <2>3. u[p + k] = ScanToken(u[p + k - 1], s[p + k], p + k) /\ s[p + k] \notin Marks
    BY <2>2 DEF IsScan
  <2> QED BY <2>1, <2>3, PlainToken
<1>3. \A k \in Nat : k \in T => k + 1 \in T
  BY <1>2
<1>4. Nat \subseteq T
  <2> HIDE DEF T
  <2> QED BY <1>1, <1>3, InductionOverNat
<1>5. q - p \in T
  <2>1. q - p \in Nat
    OBVIOUS
  <2> HIDE DEF T
  <2> QED BY <1>4, <2>1
<1>6. p + (q - p) - 1 = q - 1 /\ p + (q - p) <= q
  OBVIOUS
<1> QED BY <1>5, <1>6

LEMMA SkipQuiet ==
  ASSUME NEW s, Len(s) \in Nat, NEW u, IsScan(s, u),
         NEW p \in Nat \ {0}, p <= Len(s) + 1, NEW d, Calm(u[p - 1], d)
  PROVE  /\ Skip(s, p) \in Nat /\ p <= Skip(s, p) /\ Skip(s, p) <= Len(s) + 1
         /\ u[Skip(s, p) - 1] = u[p - 1]
<1> DEFINE q == Skip(s, p)
<1>1. q \in Nat /\ p <= q /\ q <= Len(s) + 1 /\ \A x \in p .. q - 1 : s[x] \in Spaces
  BY RunStops DEF Skip
<1> HIDE DEF q
<1>2. \A x \in p .. q - 1 : s[x] \notin Marks
  BY <1>1, MarksApart
<1>3. u[q - 1] = u[p - 1]
  BY <1>1, <1>2, PlainRun
<1> QED BY <1>1, <1>3 DEF q

(* One plain token.                                                        *)
LEMMA StepQuiet ==
  ASSUME NEW s, Len(s) \in Nat, NEW u, IsScan(s, u),
         NEW p \in Nat \ {0}, p <= Len(s), s[p] \notin Marks, NEW d, Calm(u[p - 1], d)
  PROVE  u[p] = u[p - 1]
<1>1. u[p] = ScanToken(u[p - 1], s[p], p)
  BY DEF IsScan
<1> QED BY <1>1, PlainToken

LEMMA NumberQuiet ==
  ASSUME NEW s, Len(s) \in Nat, NEW u, IsScan(s, u),
         NEW p \in Nat \ {0}, Is(s, p, Digits \cup {"-"}), Good(s, SizeNumber(s, p)),
         NEW d, Calm(u[p - 1], d)
  PROVE  SizeNumber(s, p).at > p /\ u[SizeNumber(s, p).at - 1] = u[p - 1]
<1> DEFINE q == Run(s, p, NumberTokens)
<1>1. SizeNumber(s, p).at = q
  <2>1. FillNumber(s, p).at = q
    BY DEF FillNumber, NumberTokens
  <2> QED BY <2>1, NumberFits DEF Fits
<1>2. q <= Len(s) + 1
  BY <1>1 DEF Good
<1>3. /\ q \in Nat /\ p <= q /\ \A x \in p .. q - 1 : s[x] \in NumberTokens
      /\ q <= Len(s) => s[q] \notin NumberTokens
  BY RunStops
<1>4. s[p] \in NumberTokens /\ p <= Len(s)
  BY DEF Is, NumberTokens
<1> HIDE DEF q
<1>5. q > p
  BY <1>3, <1>4
<1>6. \A x \in p .. q - 1 : s[x] \notin Marks
  BY <1>3, MarksApart
<1>7. u[q - 1] = u[p - 1]
  BY <1>2, <1>3, <1>6, PlainRun
<1> QED BY <1>1, <1>5, <1>7

(* A string after some turns of its loop: it goes on, or findJsonEnd is    *)
(* outside again where the parser is.                                      *)
StringSoFar(s, u, p, d, i, c) ==
  /\ c \in Counting
  /\ c.on => c.at > p + i /\ c.at <= Len(s) + 1 /\ InString(u[c.at - 1], d)
  /\ ~c.on /\ c.at # 0 => c.at > p + 1 /\ c.at <= Len(s) + 1 /\ Calm(u[c.at - 1], d)

LEMMA CharacterQuiet ==
  ASSUME NEW s, Len(s) \in Nat, NEW u, IsScan(s, u), NEW p \in Nat \ {0}, NEW d,
         NEW i \in Nat, NEW c, StringSoFar(s, u, p, d, i, c)
  PROVE  StringSoFar(s, u, p, d, i + 1, SizeCharacter(s, c))
<1> DEFINE c2 == SizeCharacter(s, c)
<1> SUFFICES StringSoFar(s, u, p, d, i + 1, c2)
  OBVIOUS
<1>1. /\ c \in Counting
      /\ c.at \in Nat /\ c.n \in Nat /\ c.high \in BOOLEAN /\ c.on \in BOOLEAN
      /\ c.on => c.at > p + i /\ c.at <= Len(s) + 1 /\ InString(u[c.at - 1], d)
      /\ c = [at |-> c.at, n |-> c.n, high |-> c.high, on |-> c.on]
  BY DEF StringSoFar, Counting
<1>2. c.at <= Len(s) /\ c.at # 0 => u[c.at] = ScanToken(u[c.at - 1], s[c.at], c.at)
  BY <1>1 DEF IsScan
<1>3. CASE ~c.on
  <2>1. c2 = c
    BY <1>3 DEF SizeCharacter
  <2> HIDE DEF c2
  <2> QED BY <1>3, <2>1 DEF StringSoFar
<1>4. CASE c.on /\ Is(s, c.at, {Quote})
  <2>1. c2 = [c EXCEPT !.at = @ + 1, !.n = @ + 1, !.on = FALSE]
    BY <1>4, TokenNames DEF SizeCharacter, Is
  <2>2. c2 \in Counting /\ c2.at = c.at + 1 /\ c2.on = FALSE
    <3>1. c2 = [at |-> c.at + 1, n |-> c.n + 1, high |-> c.high, on |-> FALSE]
      BY <1>1, <2>1
    <3>2. c.at + 1 \in Nat /\ c.n + 1 \in Nat
      BY <1>1
    <3> HIDE DEF c2
    <3> QED BY <1>1, <3>1, <3>2 DEF Counting
  <2>3. c.at <= Len(s) /\ c.at # 0 /\ s[c.at] = Quote
    BY <1>1, <1>4 DEF Is
  <2>4. Calm(u[c.at], d)
    BY <1>1, <1>2, <1>4, <2>3, QuoteToken
  <2>5. c.at + 1 > p + 1 /\ c.at + 1 <= Len(s) + 1 /\ (c.at + 1) - 1 = c.at
    BY <1>1, <1>4, <2>3
  <2> HIDE DEF c2
  <2> QED BY <2>2, <2>4, <2>5 DEF StringSoFar
<1>5. CASE c.on /\ Is(s, c.at, {Backslash}) /\ ValidEscape(s, c.at, c.high)
  <2> DEFINE size == EscapeBytes(s[c.at + 1])
             high == (s[c.at + 1] = "uHigh")
  <2>1. c2 = [c EXCEPT !.at = @ + 2, !.n = @ + 1 + size, !.high = high]
    BY <1>5, TokenNames DEF SizeCharacter, Is
  <2>2. size \in Nat /\ high \in BOOLEAN
    BY EscapeFits
  <2>3. c.at + 1 <= Len(s) /\ c.at # 0 /\ s[c.at] = Backslash
    BY <1>1, <1>5 DEF Is, ValidEscape
  <2> HIDE DEF size, high
  <2>4. c2 \in Counting /\ c2.at = c.at + 2 /\ c2.on = TRUE
    <3>1. c2 = [at |-> c.at + 2, n |-> c.n + 1 + size, high |-> high, on |-> TRUE]
      BY <1>1, <1>5, <2>1
    <3>2. c.at + 2 \in Nat /\ c.n + 1 + size \in Nat
      BY <1>1, <2>2
    <3> HIDE DEF c2
    <3> QED BY <2>2, <3>1, <3>2 DEF Counting
  <2>5. Escaping(u[c.at], d)
    BY <1>1, <1>2, <1>5, <2>3, BackslashToken
  <2>6. u[c.at + 1] = ScanToken(u[c.at], s[c.at + 1], c.at + 1)
    <3>1. c.at + 1 \in 1 .. Len(s) /\ (c.at + 1) - 1 = c.at
      BY <1>1, <2>3
    <3> QED BY <3>1 DEF IsScan
  <2>7. InString(u[c.at + 1], d)
    BY <1>1, <2>5, <2>6, StringToken
  <2>8. c.at + 2 > p + (i + 1) /\ c.at + 2 <= Len(s) + 1 /\ (c.at + 2) - 1 = c.at + 1
    BY <1>1, <1>5, <2>3
  <2> HIDE DEF c2
  <2> QED BY <2>4, <2>7, <2>8 DEF StringSoFar
<1>6. CASE c.on /\ c.at <= Len(s) /\ ~Is(s, c.at, {Quote, Backslash, "nl"})
  <2> DEFINE width == Width(s[c.at])
  <2>1. c2 = [c EXCEPT !.at = @ + 1, !.n = @ + width]
    BY <1>6 DEF SizeCharacter, Is
  <2>2. width \in Nat
    BY WidthType
  <2> HIDE DEF width
  <2>3. c2 \in Counting /\ c2.at = c.at + 1 /\ c2.on = TRUE
    <3>1. c2 = [at |-> c.at + 1, n |-> c.n + width, high |-> c.high, on |-> TRUE]
      BY <1>1, <1>6, <2>1
    <3>2. c.at + 1 \in Nat /\ c.n + width \in Nat
      BY <1>1, <2>2
    <3> HIDE DEF c2
    <3> QED BY <1>1, <3>1, <3>2 DEF Counting
  <2>4. s[c.at] \notin {Quote, Backslash} /\ c.at # 0
    BY <1>1, <1>6 DEF Is
  <2>5. InString(u[c.at], d)
    BY <1>1, <1>2, <1>6, <2>4, StringToken
  <2>6. c.at + 1 > p + (i + 1) /\ c.at + 1 <= Len(s) + 1 /\ (c.at + 1) - 1 = c.at
    BY <1>1, <1>6
  <2> HIDE DEF c2
  <2> QED BY <2>3, <2>5, <2>6 DEF StringSoFar
<1>7. CASE /\ c.on
           /\ ~Is(s, c.at, {Quote})
           /\ ~(Is(s, c.at, {Backslash}) /\ ValidEscape(s, c.at, c.high))
           /\ ~(c.at <= Len(s) /\ ~Is(s, c.at, {Quote, Backslash, "nl"}))
  <2>1. c2 = [c EXCEPT !.at = 0, !.on = FALSE]
    BY <1>7 DEF SizeCharacter
  <2>2. c2 \in Counting /\ c2.at = 0 /\ c2.on = FALSE
    <3>1. c2 = [at |-> 0, n |-> c.n, high |-> c.high, on |-> FALSE]
      BY <1>1, <2>1
    <3> HIDE DEF c2
    <3> QED BY <1>1, <3>1 DEF Counting
  <2> HIDE DEF c2
  <2> QED BY <2>2 DEF StringSoFar
<1> HIDE DEF c2
<1> QED BY <1>3, <1>4, <1>5, <1>6, <1>7

LEMMA StringQuiet ==
  ASSUME NEW s, Len(s) \in Nat, NEW u, IsScan(s, u),
         NEW p \in Nat \ {0}, Good(s, SizeString(s, p)), NEW d, Calm(u[p - 1], d)
  PROVE  SizeString(s, p).at > p /\ Calm(u[SizeString(s, p).at - 1], d)
<1> DEFINE N == Len(s)
<1>1. N \in Nat
  OBVIOUS
<1>2. PICK c : /\ c[0] = [at |-> p + 1, n |-> 0, high |-> FALSE, on |-> TRUE]
               /\ \A i \in 1 .. N : c[i] = SizeCharacter(s, c[i - 1])
               /\ SizeString(s, p) = IF Is(s, p, {Quote})
                                     THEN [at |-> c[N].at, dom |-> 16, data |-> c[N].n] ELSE Failed
  BY SizeStringTurns
<1>3. Is(s, p, {Quote})
  BY StringFits DEF Good
<1>4. SizeString(s, p).at = c[N].at
  BY <1>2, <1>3
<1> DEFINE T == {i \in Nat : i <= N => StringSoFar(s, u, p, d, i, c[i])}
<1>5. 0 \in T
  <2> DEFINE c0 == c[0]
  <2>1. c0 \in Counting /\ c0.at = p + 1 /\ c0.on = TRUE
    BY <1>2 DEF Counting
  <2>2. s[p] = Quote /\ p <= Len(s) /\ u[p] = ScanToken(u[p - 1], s[p], p)
    BY <1>3 DEF Is, IsScan
  <2>3. InString(u[p], d) /\ (p + 1) - 1 = p
    BY <2>2, QuoteToken
  <2> HIDE DEF c0
  <2>4. StringSoFar(s, u, p, d, 0, c0)
    BY <2>1, <2>2, <2>3 DEF StringSoFar
  <2> QED BY <2>4 DEF c0
<1>6. ASSUME NEW i \in Nat, i \in T
      PROVE  i + 1 \in T
  <2> SUFFICES ASSUME i + 1 <= N PROVE StringSoFar(s, u, p, d, i + 1, c[i + 1])
    OBVIOUS
  <2>1. i + 1 \in 1 .. N /\ (i + 1) - 1 = i /\ StringSoFar(s, u, p, d, i, c[i])
    BY <1>1, <1>6
  <2>2. c[i + 1] = SizeCharacter(s, c[i])
    BY <1>2, <2>1
  <2> QED BY <2>1, <2>2, CharacterQuiet
<1>7. StringSoFar(s, u, p, d, N, c[N])
  <2>1. \A i \in Nat : i \in T => i + 1 \in T
    BY <1>6
  <2>2. Nat \subseteq T
    <3> HIDE DEF T
    <3> QED BY <1>5, <2>1, InductionOverNat
  <2> QED BY <1>1, <2>2
<1>8. c[N].at # 0 /\ c[N].at <= N + 1 /\ c[N].at \in Nat /\ c[N].on \in BOOLEAN
  BY <1>4, <1>7 DEF Good, StringSoFar, Counting
<1>9. ~c[N].on
  BY <1>1, <1>7, <1>8 DEF StringSoFar
<1> QED BY <1>4, <1>7, <1>8, <1>9 DEF StringSoFar

(* The same of the values one level down.                                  *)
ValuesQuiet(s, u, v) ==
  \A p \in Nat \ {0}, d \in Nat \ {0} :
    Good(s, v[p]) /\ Calm(u[p - 1], d) => v[p].at > p /\ Calm(u[v[p].at - 1], d)

(* The members of an object that begin at p, after some turns: the loop    *)
(* goes on, or it has passed over the brace that closes the object.        *)
MembersSoFar(s, u, p, d, i, a) ==
  /\ a \in Looping /\ (a.on => a.m.at # 0)
  /\ a.on /\ Good(s, a.m) => a.m.at >= p + i /\ Calm(u[a.m.at - 1], d)
  /\ ~a.on /\ Good(s, a.m) =>
       a.m.at > p /\ s[a.m.at - 1] = Close /\ Calm(u[a.m.at - 2], d)

LEMMA MemberQuiet ==
  ASSUME NEW s, Len(s) \in Nat, NEW u, IsScan(s, u),
         NEW v, NEW w, ValuesFit(s, v, w), ValuesQuiet(s, u, v),
         NEW p0 \in Nat \ {0}, NEW d \in Nat \ {0}, NEW i \in Nat,
         NEW a, MembersSoFar(s, u, p0, d, i, a), NEW comma \in BOOLEAN
  PROVE  MembersSoFar(s, u, p0, d, i + 1, SizeMember(s, a, comma, v))
<1> DEFINE a2 == SizeMember(s, a, comma, v)
<1> SUFFICES MembersSoFar(s, u, p0, d, i + 1, a2)
  OBVIOUS
<1>1. /\ a \in Looping /\ a.m \in Measure /\ (a.on => a.m.at # 0) /\ a.on \in BOOLEAN
      /\ a.on /\ Good(s, a.m) => a.m.at >= p0 + i /\ Calm(u[a.m.at - 1], d)
  BY DEF MembersSoFar, Looping
<1>2. a.m.at \in Nat /\ a.m.dom \in Nat /\ a.m.data \in Nat
  BY <1>1 DEF Measure
<1> DEFINE p     == Skip(s, a.m.at)
           k     == IF comma THEN Skip(s, p + 1) ELSE p
           m24   == [a.m EXCEPT !.dom = @ + 24]
           str   == SizeString(s, k)
           key   == Then(m24, str)
           colon == Skip(s, key.at)
           part  == v[colon + 1]
           value == Then(key, part)
           taken == /\ comma => Is(s, p, {","})
                    /\ Ok(key) /\ Is(s, colon, {":"}) /\ Ok(value)
<1>3. a2 = IF ~a.on THEN a
           ELSE IF a.m.at > Len(s) + 1 THEN Ended(a.m)
           ELSE IF Is(s, p, {Close}) THEN Ended([a.m EXCEPT !.at = p + 1])
           ELSE IF taken THEN On(value) ELSE Ended(Failed)
  BY DEF SizeMember
<1>4. p \in Nat /\ a.m.at <= p
  BY <1>2, SkipStops
<1>5. ASSUME a.on, ~(a.m.at > Len(s) + 1)
      PROVE  /\ a.m.at >= p0 + i /\ a.m.at \in Nat \ {0}
             /\ p <= Len(s) + 1 /\ Calm(u[p - 1], d)
  <2>1. Good(s, a.m) /\ a.m.at \in Nat \ {0}
    BY <1>1, <1>2, <1>5 DEF Good
  <2>2. a.m.at >= p0 + i /\ Calm(u[a.m.at - 1], d)
    BY <1>1, <1>5, <2>1
  <2>3. a.m.at <= Len(s) + 1
    BY <1>2, <1>5
  <2>4. Skip(s, a.m.at) <= Len(s) + 1 /\ u[Skip(s, a.m.at) - 1] = u[a.m.at - 1]
    BY <2>1, <2>2, <2>3, SkipQuiet, ZenonT(30)
  <2> QED BY <2>1, <2>2, <2>4
<1> HIDE DEF p
<1>6. CASE ~a.on
  <2>1. a2 = a
    BY <1>3, <1>6
  <2> HIDE DEF a2
  <2> QED BY <1>6, <2>1 DEF MembersSoFar
<1>7. CASE a.on /\ a.m.at > Len(s) + 1
  <2>1. a2 = Ended(a.m)
    BY <1>3, <1>7
  <2>2. a2 \in Looping /\ a2.on = FALSE /\ a2.m = a.m
    BY <1>1, <2>1, LoopingType
  <2>3. ~Good(s, a2.m)
    BY <1>2, <1>7, <2>2 DEF Good
  <2> HIDE DEF a2
  <2> QED BY <2>2, <2>3 DEF MembersSoFar
<1>8. CASE a.on /\ ~(a.m.at > Len(s) + 1) /\ Is(s, p, {Close})
  <2> DEFINE m2 == [a.m EXCEPT !.at = p + 1]
  <2>1. a2 = Ended(m2)
    BY <1>3, <1>8
  <2>2. m2 \in Measure /\ m2.at = p + 1
    BY <1>1, <1>2, <1>4 DEF Measure
  <2> HIDE DEF m2
  <2>3. a2 \in Looping /\ a2.on = FALSE /\ a2.m.at = p + 1
    BY <2>1, <2>2, LoopingType
  <2>4. s[p] = Close /\ p >= p0 /\ Calm(u[p - 1], d)
    BY <1>4, <1>5, <1>8 DEF Is
  <2>5. (p + 1) - 1 = p /\ (p + 1) - 2 = p - 1 /\ p + 1 > p0
    BY <1>4, <2>4
  <2> HIDE DEF a2
  <2> QED BY <2>3, <2>4, <2>5 DEF MembersSoFar
<1>9. k \in Nat /\ p <= k
  <2>1. p + 1 \in Nat
    BY <1>4
  <2>2. Skip(s, p + 1) \in Nat /\ p + 1 <= Skip(s, p + 1)
    BY <2>1, SkipStops
  <2> QED BY <1>4, <2>2
<1>10. m24 \in Measure
  BY <1>1, <1>2 DEF Measure
<1>11. str \in Measure /\ (str.at # 0 => Is(s, k, {Quote}))
  BY <1>9, StringFits
<1>12. CASE a.on /\ ~(a.m.at > Len(s) + 1) /\ ~Is(s, p, {Close}) /\ taken
  <2>1. Calm(u[p - 1], d) /\ p >= p0 + i /\ p \in Nat \ {0} /\ p <= Len(s) + 1
    <3>1. a.m.at >= p0 + i /\ p <= Len(s) + 1 /\ Calm(u[p - 1], d)
      BY <1>5, <1>12
    <3> QED BY <1>2, <1>4, <3>1
  <2>2. Calm(u[k - 1], d) /\ k \in Nat \ {0}
    <3>1. CASE comma
      <4>1. Is(s, p, {","}) /\ k = Skip(s, p + 1)
        BY <1>12, <3>1
      <4>2. p <= Len(s) /\ s[p] \notin Marks
        BY <4>1, MarksApart DEF Is
      <4>3. Calm(u[p], d)
        BY <2>1, <4>2, StepQuiet
      <4>4. p + 1 \in Nat \ {0} /\ p + 1 <= Len(s) + 1 /\ (p + 1) - 1 = p
        BY <2>1, <4>2
      <4> HIDE DEF k
      <4>5. u[Skip(s, p + 1) - 1] = u[p]
        BY <4>3, <4>4, SkipQuiet
      <4>6. k \in Nat \ {0}
        BY <1>9, <2>1
      <4> QED BY <4>1, <4>3, <4>5, <4>6
    <3>2. CASE ~comma
      BY <2>1, <3>2
    <3> QED BY <3>1, <3>2
  <2> HIDE DEF k, m24
  <2>3. key \in Measure /\ key.at = str.at
    BY <1>10, <1>11, ThenMeasures
  <2>4. key.at # 0 /\ Is(s, colon, {":"}) /\ value.at # 0
    BY <1>12 DEF Ok
  <2> HIDE DEF key, str
  <2>5. colon \in Nat /\ key.at <= colon
    BY <2>3, SkipStops DEF Measure
  <2>6. colon <= Len(s) /\ s[colon] \notin Marks
    BY <2>4, MarksApart DEF Is
  <2>7. str.at > k /\ Calm(u[str.at - 1], d)
    <3>1. Good(s, str)
      BY <1>11, <2>3, <2>4, <2>5, <2>6 DEF Good, Measure
    <3> QED BY <2>2, <3>1, StringQuiet DEF str
  <2>8. Calm(u[colon - 1], d) /\ colon > k /\ colon \in Nat \ {0}
    <3>1. key.at \in Nat \ {0} /\ key.at <= Len(s) + 1
      BY <2>3, <2>4, <2>5, <2>6 DEF Measure
    <3>2. Calm(u[key.at - 1], d)
      BY <2>3, <2>7
    <3>3. u[colon - 1] = u[key.at - 1]
      BY <3>1, <3>2, SkipQuiet
    <3>4. colon > k /\ colon \in Nat \ {0}
      <4>1. str.at \in Nat /\ str.at > k /\ str.at <= colon
        BY <1>11, <2>3, <2>5, <2>7 DEF Measure
      <4> QED BY <1>9, <2>5, <4>1
    <3> QED BY <3>2, <3>3, <3>4
  <2> HIDE DEF colon
  <2>9. Calm(u[colon], d)
    BY <2>6, <2>8, StepQuiet
  <2>10. part \in Measure
    BY <2>5 DEF ValuesFit
  <2>11. Good(s, part) => part.at > colon + 1 /\ Calm(u[part.at - 1], d)
    <3>1. colon + 1 \in Nat \ {0} /\ (colon + 1) - 1 = colon
      BY <2>5
    <3> QED BY <2>9, <3>1 DEF ValuesQuiet
  <2> HIDE DEF part
  <2>12. value \in Measure /\ value.at = part.at
    BY <2>3, <2>10, ThenMeasures
  <2> HIDE DEF value
  <2>13. a2 = On(value)
    BY <1>3, <1>12
  <2> HIDE DEF a2
  <2>14. a2 \in Looping /\ a2.on = TRUE /\ a2.m = value /\ value.at # 0
    BY <2>4, <2>12, <2>13, LoopingType
  <2>15. Good(s, value) => value.at >= p0 + (i + 1) /\ Calm(u[value.at - 1], d)
    <3>1. Good(s, value) => Good(s, part)
      BY <2>12 DEF Good
    <3>2. part.at \in Nat
      BY <2>10 DEF Measure
    <3> QED BY <1>9, <2>1, <2>8, <2>11, <2>12, <3>1, <3>2
  <2> QED BY <2>14, <2>15 DEF MembersSoFar
<1>13. CASE a.on /\ ~(a.m.at > Len(s) + 1) /\ ~Is(s, p, {Close}) /\ ~taken
  <2>1. a2 = Ended(Failed)
    <3> HIDE DEF taken
    <3> QED BY <1>3, <1>13
  <2>2. Failed \in Measure /\ Failed.at = 0
    BY DEF Failed, Measure
  <2>3. a2 \in Looping /\ a2.on = FALSE /\ a2.m.at = 0
    BY <2>1, <2>2, LoopingType
  <2>4. ~Good(s, a2.m)
    BY <2>3 DEF Good
  <2> HIDE DEF a2
  <2> QED BY <2>3, <2>4 DEF MembersSoFar
<1> HIDE DEF a2, taken
<1> QED BY <1>6, <1>7, <1>8, <1>12, <1>13

LEMMA MembersQuiet ==
  ASSUME NEW s, Len(s) \in Nat, NEW u, IsScan(s, u),
         NEW v, NEW w, ValuesFit(s, v, w), ValuesQuiet(s, u, v),
         NEW d \in Nat \ {0}, NEW start \in Measure, start.at > 1, Calm(u[start.at - 1], d),
         Good(s, SizeMembers(s, start, v))
  PROVE  LET m == SizeMembers(s, start, v)
         IN  m.at > start.at /\ s[m.at - 1] = Close /\ Calm(u[m.at - 2], d)
<1> DEFINE N == Len(s)
           p == start.at
           m == SizeMembers(s, start, v)
<1>1. N \in Nat /\ p \in Nat \ {0} /\ p > 1
  BY DEF Measure
<1>2. PICK a : /\ a[0] = On(start)
               /\ \A i \in 1 .. N : a[i] = SizeMember(s, a[i - 1], i > 1, v)
               /\ m = a[N].m
  BY SizeMembersTurns
<1> DEFINE T == {i \in Nat : i <= N => MembersSoFar(s, u, p, d, i, a[i])}
<1>3. 0 \in T
  <2> DEFINE a0 == a[0]
  <2>1. a0 \in Looping /\ a0.on = TRUE /\ a0.m = start
    BY <1>2, LoopingType
  <2> HIDE DEF a0
  <2>2. MembersSoFar(s, u, p, d, 0, a0)
    BY <1>1, <2>1 DEF MembersSoFar
  <2> QED BY <2>2 DEF a0
<1> HIDE DEF N, p, m
<1>4. ASSUME NEW i \in Nat, i \in T
      PROVE  i + 1 \in T
  <2> SUFFICES ASSUME i + 1 <= N PROVE MembersSoFar(s, u, p, d, i + 1, a[i + 1])
    OBVIOUS
  <2>1. i + 1 \in 1 .. N /\ (i + 1) - 1 = i /\ MembersSoFar(s, u, p, d, i, a[i])
    BY <1>1, <1>4
  <2>2. a[i + 1] = SizeMember(s, a[i], i + 1 > 1, v) /\ (i + 1 > 1) \in BOOLEAN
    BY <1>2, <2>1
  <2> QED BY <1>1, <2>1, <2>2, MemberQuiet
<1>5. MembersSoFar(s, u, p, d, N, a[N])
  <2>1. \A i \in Nat : i \in T => i + 1 \in T
    BY <1>4
  <2>2. Nat \subseteq T
    <3> HIDE DEF T
    <3> QED BY <1>3, <2>1, InductionOverNat
  <2> QED BY <1>1, <2>2
<1>6. m \in Measure /\ Good(s, m) /\ a[N].on \in BOOLEAN
  BY <1>2, <1>5 DEF MembersSoFar, Looping, m
<1>7. ~a[N].on
  <2>1. m.at <= N + 1 /\ m.at \in Nat
    BY <1>6 DEF Good, Measure, N
  <2>2. a[N].on => m.at >= p + N
    BY <1>2, <1>5, <1>6 DEF MembersSoFar
  <2> QED BY <1>1, <2>1, <2>2
<1> QED BY <1>2, <1>5, <1>6, <1>7 DEF MembersSoFar, m, p

(* The items of an array that begin at p, after some turns.                *)
ItemsSoFar(s, u, p, d, i, a) ==
  /\ a \in Looping /\ (a.on => a.m.at # 0)
  /\ a.on /\ Good(s, a.m) => a.m.at >= p + i /\ Calm(u[a.m.at - 1], d)
  /\ ~a.on /\ Good(s, a.m) => a.m.at > p /\ Calm(u[a.m.at - 1], d)

LEMMA ItemQuiet ==
  ASSUME NEW s, Len(s) \in Nat, NEW u, IsScan(s, u),
         NEW v, NEW w, ValuesFit(s, v, w), ValuesQuiet(s, u, v),
         NEW p0 \in Nat \ {0}, NEW d \in Nat \ {0}, NEW i \in Nat,
         NEW a, ItemsSoFar(s, u, p0, d, i, a), NEW comma \in BOOLEAN
  PROVE  ItemsSoFar(s, u, p0, d, i + 1, SizeItem(s, a, comma, v))
<1> DEFINE a2 == SizeItem(s, a, comma, v)
<1> SUFFICES ItemsSoFar(s, u, p0, d, i + 1, a2)
  OBVIOUS
<1>1. /\ a \in Looping /\ a.m \in Measure /\ (a.on => a.m.at # 0) /\ a.on \in BOOLEAN
      /\ a.on /\ Good(s, a.m) => a.m.at >= p0 + i /\ Calm(u[a.m.at - 1], d)
  BY DEF ItemsSoFar, Looping
<1>2. a.m.at \in Nat /\ a.m.dom \in Nat /\ a.m.data \in Nat
  BY <1>1 DEF Measure
<1> DEFINE p     == Skip(s, a.m.at)
           k     == IF comma THEN Skip(s, p + 1) ELSE p
           m16   == [a.m EXCEPT !.dom = @ + 16]
           part  == v[k]
           value == Then(m16, part)
           taken == (comma => Is(s, p, {","})) /\ Ok(value)
<1>3. a2 = IF ~a.on THEN a
           ELSE IF Is(s, p, {"]"}) THEN Ended([a.m EXCEPT !.at = p + 1])
           ELSE IF taken THEN On(value) ELSE Ended(Failed)
  BY DEF SizeItem
<1>4. p \in Nat /\ a.m.at <= p
  BY <1>2, SkipStops
<1>5. ASSUME a.on, a.m.at <= Len(s)
      PROVE  /\ a.m.at >= p0 + i /\ a.m.at \in Nat \ {0}
             /\ p <= Len(s) + 1 /\ Calm(u[p - 1], d)
  <2>1. Good(s, a.m) /\ a.m.at \in Nat \ {0} /\ a.m.at <= Len(s) + 1
    BY <1>1, <1>2, <1>5 DEF Good
  <2>2. a.m.at >= p0 + i /\ Calm(u[a.m.at - 1], d)
    BY <1>1, <1>5, <2>1
  <2>3. Skip(s, a.m.at) <= Len(s) + 1 /\ u[Skip(s, a.m.at) - 1] = u[a.m.at - 1]
    BY <2>1, <2>2, SkipQuiet, ZenonT(30)
  <2> QED BY <2>1, <2>2, <2>3
<1> HIDE DEF p
<1>6. CASE ~a.on
  <2>1. a2 = a
    BY <1>3, <1>6
  <2> HIDE DEF a2
  <2> QED BY <1>6, <2>1 DEF ItemsSoFar
<1>7. CASE a.on /\ Is(s, p, {"]"})
  <2> DEFINE m2 == [a.m EXCEPT !.at = p + 1]
  <2>1. a2 = Ended(m2)
    BY <1>3, <1>7
  <2>2. m2 \in Measure /\ m2.at = p + 1
    BY <1>1, <1>2, <1>4 DEF Measure
  <2> HIDE DEF m2
  <2>3. a2 \in Looping /\ a2.on = FALSE /\ a2.m.at = p + 1
    BY <2>1, <2>2, LoopingType
  <2>4. p <= Len(s) /\ s[p] \notin Marks /\ a.m.at <= Len(s)
    <3>1. p <= Len(s) /\ s[p] = "]"
      BY <1>7 DEF Is
    <3>2. a.m.at <= Len(s)
      BY <1>2, <1>4, <3>1
    <3> QED BY <3>1, <3>2, MarksApart
  <2>5. a.m.at >= p0 + i /\ Calm(u[p - 1], d)
    BY <1>5, <1>7, <2>4
  <2>6. p \in Nat \ {0} /\ (p + 1) - 1 = p /\ p + 1 > p0
    BY <1>2, <1>4, <2>5
  <2>7. Calm(u[p], d)
    BY <2>4, <2>5, <2>6, StepQuiet
  <2> HIDE DEF a2
  <2> QED BY <2>3, <2>6, <2>7 DEF ItemsSoFar
<1>8. k \in Nat /\ p <= k
  <2>1. p + 1 \in Nat
    BY <1>4
  <2>2. Skip(s, p + 1) \in Nat /\ p + 1 <= Skip(s, p + 1)
    BY <2>1, SkipStops
  <2> QED BY <1>4, <2>2
<1>9. m16 \in Measure
  BY <1>1, <1>2 DEF Measure
<1>10. part \in Measure /\ (Good(s, part) => k <= Len(s))
  BY <1>8 DEF ValuesFit
<1>11. value \in Measure /\ value.at = part.at
  <2> HIDE DEF part, m16
  <2> QED BY <1>9, <1>10, ThenMeasures
<1>12. CASE a.on /\ ~Is(s, p, {"]"}) /\ taken
  <2>1. a2 = On(value)
    BY <1>3, <1>12
  <2>2. value.at # 0 /\ (comma => Is(s, p, {","}))
    BY <1>12 DEF Ok
  <2> HIDE DEF m16, value, a2
  <2>3. a2 \in Looping /\ a2.on = TRUE /\ a2.m = value
    BY <1>11, <2>1, LoopingType
  <2>4. ASSUME Good(s, value)
        PROVE  value.at >= p0 + (i + 1) /\ Calm(u[value.at - 1], d)
    <3>1. Good(s, part) /\ k <= Len(s) /\ a.m.at <= Len(s)
      BY <1>2, <1>4, <1>8, <1>10, <1>11, <2>4 DEF Good
    <3>2. a.m.at >= p0 + i /\ p <= Len(s) + 1 /\ Calm(u[p - 1], d)
      BY <1>5, <1>12, <3>1
    <3>3. p \in Nat \ {0} /\ p >= p0 + i
      BY <1>2, <1>4, <3>2
    <3>4. Calm(u[k - 1], d) /\ k \in Nat \ {0}
      <4>1. CASE comma
        <5>1. Is(s, p, {","}) /\ k = Skip(s, p + 1)
          BY <2>2, <4>1
        <5>2. p <= Len(s) /\ s[p] \notin Marks
          BY <5>1, MarksApart DEF Is
        <5>3. Calm(u[p], d)
          BY <3>2, <3>3, <5>2, StepQuiet
        <5>4. p + 1 \in Nat \ {0} /\ p + 1 <= Len(s) + 1 /\ (p + 1) - 1 = p
          BY <3>3, <5>2
        <5> HIDE DEF k
        <5>5. u[Skip(s, p + 1) - 1] = u[p]
          BY <5>3, <5>4, SkipQuiet
        <5>6. k \in Nat \ {0}
          BY <1>8, <3>3
        <5> QED BY <5>1, <5>3, <5>5, <5>6
      <4>2. CASE ~comma
        BY <3>2, <3>3, <4>2
      <4> QED BY <4>1, <4>2
    <3> HIDE DEF k
    <3>5. part.at > k /\ Calm(u[part.at - 1], d)
      BY <3>1, <3>4 DEF ValuesQuiet
    <3>6. part.at \in Nat
      BY <1>10 DEF Measure
    <3> HIDE DEF part
    <3> QED BY <1>8, <1>11, <3>3, <3>5, <3>6
  <2> QED BY <2>2, <2>3, <2>4 DEF ItemsSoFar
<1>13. CASE a.on /\ ~Is(s, p, {"]"}) /\ ~taken
  <2>1. a2 = Ended(Failed)
    <3> HIDE DEF taken
    <3> QED BY <1>3, <1>13
  <2>2. Failed \in Measure /\ Failed.at = 0
    BY DEF Failed, Measure
  <2>3. a2 \in Looping /\ a2.on = FALSE /\ a2.m.at = 0
    BY <2>1, <2>2, LoopingType
  <2>4. ~Good(s, a2.m)
    BY <2>3 DEF Good
  <2> HIDE DEF a2
  <2> QED BY <2>3, <2>4 DEF ItemsSoFar
<1> HIDE DEF a2, taken
<1> QED BY <1>6, <1>7, <1>12, <1>13

LEMMA ItemsQuiet ==
  ASSUME NEW s, Len(s) \in Nat, NEW u, IsScan(s, u),
         NEW v, NEW w, ValuesFit(s, v, w), ValuesQuiet(s, u, v),
         NEW d \in Nat \ {0}, NEW start \in Measure, start.at > 1, Calm(u[start.at - 1], d),
         Good(s, SizeItems(s, start, v))
  PROVE  LET m == SizeItems(s, start, v)
         IN  m.at > start.at /\ Calm(u[m.at - 1], d)
<1> DEFINE N == Len(s)
           p == start.at
           m == SizeItems(s, start, v)
<1>1. N \in Nat /\ p \in Nat \ {0} /\ p > 1
  BY DEF Measure
<1>2. PICK a : /\ a[0] = On(start)
               /\ \A i \in 1 .. N : a[i] = SizeItem(s, a[i - 1], i > 1, v)
               /\ m = a[N].m
  BY SizeItemsTurns
<1> DEFINE T == {i \in Nat : i <= N => ItemsSoFar(s, u, p, d, i, a[i])}
<1>3. 0 \in T
  <2> DEFINE a0 == a[0]
  <2>1. a0 \in Looping /\ a0.on = TRUE /\ a0.m = start
    BY <1>2, LoopingType
  <2> HIDE DEF a0
  <2>2. ItemsSoFar(s, u, p, d, 0, a0)
    BY <1>1, <2>1 DEF ItemsSoFar
  <2> QED BY <2>2 DEF a0
<1> HIDE DEF N, p, m
<1>4. ASSUME NEW i \in Nat, i \in T
      PROVE  i + 1 \in T
  <2> SUFFICES ASSUME i + 1 <= N PROVE ItemsSoFar(s, u, p, d, i + 1, a[i + 1])
    OBVIOUS
  <2>1. i + 1 \in 1 .. N /\ (i + 1) - 1 = i /\ ItemsSoFar(s, u, p, d, i, a[i])
    BY <1>1, <1>4
  <2>2. a[i + 1] = SizeItem(s, a[i], i + 1 > 1, v) /\ (i + 1 > 1) \in BOOLEAN
    BY <1>2, <2>1
  <2> QED BY <1>1, <2>1, <2>2, ItemQuiet
<1>5. ItemsSoFar(s, u, p, d, N, a[N])
  <2>1. \A i \in Nat : i \in T => i + 1 \in T
    BY <1>4
  <2>2. Nat \subseteq T
    <3> HIDE DEF T
    <3> QED BY <1>3, <2>1, InductionOverNat
  <2> QED BY <1>1, <2>2
<1>6. m \in Measure /\ Good(s, m) /\ a[N].on \in BOOLEAN
  BY <1>2, <1>5 DEF ItemsSoFar, Looping, m
<1>7. ~a[N].on
  <2>1. m.at <= N + 1 /\ m.at \in Nat
    BY <1>6 DEF Good, Measure, N
  <2>2. a[N].on => m.at >= p + N
    BY <1>2, <1>5, <1>6 DEF ItemsSoFar
  <2> QED BY <1>1, <2>1, <2>2
<1> QED BY <1>2, <1>5, <1>6, <1>7 DEF ItemsSoFar, m, p

LEMMA ValueQuiet ==
  ASSUME NEW s, Len(s) \in Nat, NEW u, IsScan(s, u),
         NEW v, NEW w, NEW levels \in Nat,
         levels > 0 => ValuesFit(s, v, w) /\ ValuesQuiet(s, u, v),
         NEW from \in Nat \ {0}, NEW d \in Nat \ {0}, Calm(u[from - 1], d),
         Good(s, SizeValue(s, from, levels, v))
  PROVE  /\ SizeValue(s, from, levels, v).at > from
         /\ Calm(u[SizeValue(s, from, levels, v).at - 1], d)
<1> DEFINE m == SizeValue(s, from, levels, v)
           p == Skip(s, from)
           value == [at |-> p, dom |-> 16, data |-> 0]
           inner == [at |-> p + 1, dom |-> 32, data |-> 0]
<1> SUFFICES m.at > from /\ Calm(u[m.at - 1], d)
  OBVIOUS
<1>1. p \in Nat \ {0} /\ from <= p /\ Calm(u[p - 1], d)
  <2>1. from <= Len(s)
    BY ValueFits
  <2>2. p \in Nat /\ from <= p /\ u[p - 1] = u[from - 1]
    BY <2>1, SkipQuiet
  <2> QED BY <2>2
<1> HIDE DEF p
<1>2. value \in Measure /\ inner \in Measure
  BY <1>1 DEF Measure
<1>3. Good(s, m) /\ ~Good(s, Failed)
  BY DEF Good, Failed
<1>4. CASE Is(s, p, {Quote})
  <2>1. s[p] = Quote /\ p <= Len(s)
    BY <1>4 DEF Is
  <2> DEFINE str == SizeString(s, p)
  <2>2. m = Then(value, str)
    BY <1>4, <2>1, TokenNames DEF SizeValue, Is, Digits, Literals, Quote, p
  <2>3. str \in Measure
    BY <1>1, StringFits
  <2> HIDE DEF str, m
  <2>4. m.at = str.at
    BY <1>2, <2>2, <2>3, ThenMeasures
  <2>5. Good(s, str)
    BY <1>3, <2>4 DEF Good
  <2>6. str.at > p /\ Calm(u[str.at - 1], d)
    BY <1>1, <2>5, StringQuiet DEF str
  <2> QED BY <1>1, <2>3, <2>4, <2>6 DEF Measure
<1>5. CASE Is(s, p, {Open, "["}) /\ levels = 0
  <2>1. /\ Is(s, p, {Open, "["}) /\ ~Is(s, p, {Quote})
        /\ ~Is(s, p, Digits \cup {"-"}) /\ ~Is(s, p, Literals)
    BY <1>5 DEF Is, Digits, Literals, Open, Quote
  <2>2. m = Failed
    BY <1>5, <2>1 DEF SizeValue, p
  <2> QED BY <1>3, <2>2
<1>6. CASE Is(s, p, {Open}) /\ levels > 0
  <2>1. s[p] = Open /\ p <= Len(s)
    BY <1>6 DEF Is
  <2>2. m = SizeMembers(s, inner, v)
    <3>1. /\ Is(s, p, {Open}) /\ ~Is(s, p, {Quote}) /\ ~Is(s, p, {"["})
          /\ ~Is(s, p, Digits \cup {"-"}) /\ ~Is(s, p, Literals)
      BY <1>6, <2>1 DEF Is, Digits, Literals, Open, Quote
    <3>2. levels # 0
      BY <1>6
    <3> QED BY <1>6, <3>1, <3>2 DEF SizeValue, p
  <2>3. u[p] = ScanToken(u[p - 1], Open, p)
    BY <1>1, <2>1 DEF IsScan
  <2>4. Calm(u[p], d + 1)
    BY <1>1, <2>3, OpenToken
  <2>5. inner.at = p + 1 /\ inner.at > 1 /\ inner.at - 1 = p /\ d + 1 \in Nat \ {0}
    BY <1>1
  <2> HIDE DEF inner, m
  <2>6. m \in Measure
    BY <1>6, ValueFits DEF m
  <2>7. m.at > p + 1 /\ s[m.at - 1] = Close /\ Calm(u[m.at - 2], d + 1)
    BY <1>2, <1>3, <1>6, <2>2, <2>4, <2>5, MembersQuiet
  <2>8. m.at - 1 \in 1 .. Len(s) /\ (m.at - 1) - 1 = m.at - 2
    BY <1>1, <1>3, <2>6, <2>7 DEF Good, Measure
  <2>9. u[m.at - 1] = ScanToken(u[m.at - 2], Close, m.at - 1)
    BY <2>7, <2>8 DEF IsScan
  <2>10. Calm(u[m.at - 1], d)
    <3>1. d + 1 \in Nat \ {0} /\ d + 1 > 1 /\ (d + 1) - 1 = d
      OBVIOUS
    <3>2. m.at - 1 \in Nat
      BY <2>8
    <3>3. Calm(ScanToken(u[m.at - 2], Close, m.at - 1), (d + 1) - 1)
      BY <2>7, <3>1, <3>2, CloseToken
    <3> QED BY <2>9, <3>1, <3>3
  <2> QED BY <1>1, <2>6, <2>7, <2>10 DEF Measure
<1>7. CASE Is(s, p, {"["}) /\ levels > 0
  <2>1. s[p] = "[" /\ p <= Len(s)
    BY <1>7 DEF Is
  <2>2. m = SizeItems(s, inner, v)
    <3>1. /\ Is(s, p, {"["}) /\ ~Is(s, p, {Quote}) /\ ~Is(s, p, {Open})
          /\ ~Is(s, p, Digits \cup {"-"}) /\ ~Is(s, p, Literals)
      BY <1>7, <2>1 DEF Is, Digits, Literals, Open, Quote
    <3>2. levels # 0
      BY <1>7
    <3> QED BY <1>7, <3>1, <3>2 DEF SizeValue, p
  <2>3. Calm(u[p], d)
    <3>1. s[p] \notin Marks
      BY <2>1, MarksApart
    <3> QED BY <1>1, <2>1, <3>1, StepQuiet
  <2>4. inner.at = p + 1 /\ inner.at > 1 /\ inner.at - 1 = p
    BY <1>1
  <2> HIDE DEF inner, m
  <2>5. m \in Measure
    BY <1>7, ValueFits DEF m
  <2>6. m.at > p + 1 /\ Calm(u[m.at - 1], d)
    BY <1>2, <1>3, <1>7, <2>2, <2>3, <2>4, ItemsQuiet
  <2> QED BY <1>1, <2>5, <2>6 DEF Measure
<1>8. CASE Is(s, p, Digits \cup {"-"})
  <2>1. s[p] \in Digits \cup {"-"} /\ p <= Len(s)
    BY <1>8 DEF Is
  <2> DEFINE num == SizeNumber(s, p)
  <2>2. m = Then(value, num)
    BY <1>8, <2>1 DEF SizeValue, Is, Digits, Literals, Open, Quote, p
  <2>3. num \in Measure
    BY <1>1, <1>8, NumberFits
  <2> HIDE DEF num, m
  <2>4. m.at = num.at
    BY <1>2, <2>2, <2>3, ThenMeasures
  <2>5. Good(s, num)
    BY <1>3, <2>4 DEF Good
  <2>6. num.at > p /\ Calm(u[num.at - 1], d)
    <3>1. Good(s, SizeNumber(s, p))
      BY <2>5 DEF num
    <3>2. p \in Nat \ {0} /\ Calm(u[p - 1], d)
      BY <1>1
    <3>3. SizeNumber(s, p).at > p /\ u[SizeNumber(s, p).at - 1] = u[p - 1]
      BY <1>8, <3>1, <3>2, NumberQuiet
    <3>4. num.at > p /\ u[num.at - 1] = u[p - 1]
      BY <3>3 DEF num
    <3> QED BY <3>2, <3>4
  <2> QED BY <1>1, <2>3, <2>4, <2>6 DEF Measure
<1>9. CASE Is(s, p, Literals)
  <2>1. s[p] \in Literals /\ p <= Len(s)
    BY <1>9 DEF Is
  <2>2. m = [value EXCEPT !.at = p + 1]
    BY <1>9, <2>1 DEF SizeValue, Is, Digits, Literals, Open, Quote, p
  <2> HIDE DEF m
  <2>3. m.at = p + 1 /\ m.at - 1 = p
    <3>1. m.at = p + 1
      BY <2>2
    <3> QED BY <1>1, <3>1
  <2>4. Calm(u[p], d)
    <3>1. s[p] \notin Marks
      BY <2>1, MarksApart
    <3> QED BY <1>1, <2>1, <3>1, StepQuiet
  <2> QED BY <1>1, <2>3, <2>4
<1>10. CASE /\ ~Is(s, p, {Quote}) /\ ~(Is(s, p, {Open, "["}) /\ levels = 0)
            /\ ~(Is(s, p, {Open}) /\ levels > 0) /\ ~(Is(s, p, {"["}) /\ levels > 0)
            /\ ~Is(s, p, Digits \cup {"-"}) /\ ~Is(s, p, Literals)
  <2>1. m = Failed
    BY <1>10 DEF SizeValue, p
  <2> QED BY <1>3, <2>1
<1> HIDE DEF m
<1> QED BY <1>4, <1>5, <1>6, <1>7, <1>8, <1>9, <1>10

(* Level by level, findJsonEnd is after a value what it was before it.     *)
LEMMA LevelsQuiet ==
  ASSUME NEW s, Len(s) \in Nat, NEW u, IsScan(s, u), NEW f, NEW g,
         \A l \in 0 .. MaxRecursion :
            /\ f[l] = [from \in Nat |-> SizeValue(s, from, l, f[l - 1])]
            /\ ValuesFit(s, f[l], g[l])
  PROVE  \A l \in 0 .. MaxRecursion : ValuesQuiet(s, u, f[l])
<1> DEFINE T == {l \in Nat : l <= MaxRecursion => ValuesQuiet(s, u, f[l])}
<1>1. ASSUME NEW l \in Nat, l <= MaxRecursion, l > 0 => ValuesQuiet(s, u, f[l - 1])
      PROVE  ValuesQuiet(s, u, f[l])
  <2>1. l \in 0 .. MaxRecursion /\ (l > 0 => l - 1 \in 0 .. MaxRecursion)
    BY <1>1, RecursionAssumption
  <2>2. l > 0 => ValuesFit(s, f[l - 1], g[l - 1]) /\ ValuesQuiet(s, u, f[l - 1])
    BY <1>1, <2>1
  <2>3. ASSUME NEW p \in Nat \ {0}, NEW d \in Nat \ {0}, Good(s, f[l][p]), Calm(u[p - 1], d)
        PROVE  f[l][p].at > p /\ Calm(u[f[l][p].at - 1], d)
    <3>1. f[l][p] = SizeValue(s, p, l, f[l - 1])
      BY <2>1
    <3> DEFINE v == f[l - 1]
               w == g[l - 1]
    <3>2. l > 0 => ValuesFit(s, v, w) /\ ValuesQuiet(s, u, v)
      BY <2>2
    <3>3. Good(s, SizeValue(s, p, l, v)) /\ Calm(u[p - 1], d)
      BY <2>3, <3>1
    <3>4. SizeValue(s, p, l, v).at > p /\ Calm(u[SizeValue(s, p, l, v).at - 1], d)
      <4> HIDE DEF v, w
      <4> QED BY <3>2, <3>3, ValueQuiet
    <3> QED BY <3>1, <3>4
  <2> QED BY <2>3 DEF ValuesQuiet
<1>2. 0 \in T
  BY <1>1
<1>3. ASSUME NEW l \in Nat, l \in T
      PROVE  l + 1 \in T
  <2> SUFFICES ASSUME l + 1 <= MaxRecursion PROVE ValuesQuiet(s, u, f[l + 1])
    OBVIOUS
  <2>1. ValuesQuiet(s, u, f[l]) /\ (l + 1) - 1 = l
    BY <1>3, RecursionAssumption
  <2> QED BY <1>1, <2>1
<1>4. Nat \subseteq T
  <2>1. \A l \in Nat : l \in T => l + 1 \in T
    BY <1>3
  <2> HIDE DEF T
  <2> QED BY <1>2, <2>1, InductionOverNat
<1> QED BY <1>4, RecursionAssumption

(* Once it has found an end it stays there.                                *)
LEMMA EndStays ==
  ASSUME NEW s, Len(s) \in Nat, NEW u, IsScan(s, u),
         NEW k \in Nat \ {0}, k <= Len(s), u[k].end = k
  PROVE  u[Len(s)].end = k
<1> DEFINE T == {i \in Nat : k + i <= Len(s) => u[k + i].end = k}
<1>1. 0 \in T
  OBVIOUS
<1>2. ASSUME NEW i \in Nat, i \in T
      PROVE  i + 1 \in T
  <2> SUFFICES ASSUME k + (i + 1) <= Len(s) PROVE u[k + (i + 1)].end = k
    OBVIOUS
  <2>1. u[k + i].end = k /\ k # 0
    BY <1>2
  <2>2. k + (i + 1) \in 1 .. Len(s) /\ (k + (i + 1)) - 1 = k + i
    OBVIOUS
  <2>3. u[k + (i + 1)] = ScanToken(u[k + i], s[k + (i + 1)], k + (i + 1))
    BY <2>2 DEF IsScan
  <2>4. u[k + (i + 1)] = u[k + i]
    BY <2>1, <2>3 DEF ScanToken
  <2> QED BY <2>1, <2>4
<1>3. \A i \in Nat : i \in T => i + 1 \in T
  BY <1>2
<1>4. Nat \subseteq T
  <2> HIDE DEF T
  <2> QED BY <1>1, <1>3, InductionOverNat
<1>5. Len(s) - k \in T
  <2>1. Len(s) - k \in Nat
    OBVIOUS
  <2> HIDE DEF T
  <2> QED BY <1>4, <2>1
<1>6. k + (Len(s) - k) = Len(s)
  OBVIOUS
<1> QED BY <1>5, <1>6

(* The object that a text begins with ends where findJsonEnd says.         *)
LEMMA ObjectEnds ==
  ASSUME NEW s \in Texts, s[1] = Open, Accepts(s)
  PROVE  LET m == Size(s)
         IN  /\ m.at \in Nat /\ m.at > 2 /\ m.at <= Len(s) + 1
             /\ s[m.at - 1] = Close /\ Skip(s, m.at) = Len(s) + 1
             /\ FindJsonEnd(s) = m.at - 1
<1> DEFINE N == Len(s)
           m == Size(s)
           inner == [at |-> 2, dom |-> 32, data |-> 0]
           M == MaxRecursion
<1>1. N \in Nat
  BY DEF Texts
<1>2. m \in Measure /\ Good(s, m)
  BY <1>1, TextFits
<1>3. m = SizeValues(s)[1] /\ Skip(s, m.at) = N + 1
  BY DEF Accepts, Size, Ok, Failed
<1>4. PICK u \in [0 .. N -> Scans] :
        /\ u[0] = ScanStart
        /\ \A i \in 1 .. N : u[i] = ScanToken(u[i - 1], s[i], i)
        /\ Scan(s) = u[N]
  BY ScanIterates
<1>5. PICK f, g : /\ \A l \in 0 .. M :
                       /\ f[l] = [from \in Nat |-> SizeValue(s, from, l, f[l - 1])]
                       /\ ValuesFit(s, f[l], g[l])
                  /\ SizeValues(s) = f[M]
  BY <1>1, LevelsFit
<1> HIDE DEF m, N, M
<1>6. IsScan(s, u)
  BY <1>4 DEF IsScan, N
<1>7. \A l \in 0 .. M : ValuesQuiet(s, u, f[l])
  BY <1>1, <1>5, <1>6, LevelsQuiet DEF N, M
<1>8. M \in Nat /\ m = SizeValue(s, 1, M, f[M - 1])
  <2>1. M \in Nat
    BY RecursionAssumption DEF M
  <2>2. M \in 0 .. M
    BY <2>1
  <2>3. f[M] = [from \in Nat |-> SizeValue(s, from, M, f[M - 1])]
    BY <1>5, <2>2
  <2>4. f[M][1] = SizeValue(s, 1, M, f[M - 1])
    BY <2>3
  <2> QED BY <1>3, <1>5, <2>1, <2>4
<1>9. 1 <= N
  <2>1. 0 \in 0 .. M /\ M \in 0 .. M
    BY <1>8
  <2>2. ValuesFit(s, f[M], g[M]) /\ m = f[M][1]
    BY <1>3, <1>5, <2>1
  <2> QED BY <1>2, <2>2 DEF ValuesFit, N
<1>10. Skip(s, 1) = 1
  <2>1. s[1] \notin Spaces
    BY DEF Open, Spaces
  <2> QED BY <1>1, <1>9, <2>1, RunIs DEF Skip, N
<1>11. /\ Is(s, 1, {Open}) /\ Is(s, 1, {Open, "["}) /\ ~Is(s, 1, {Quote}) /\ ~Is(s, 1, {"["})
       /\ ~Is(s, 1, Digits \cup {"-"}) /\ ~Is(s, 1, Literals)
  BY <1>9 DEF Is, Digits, Literals, Open, Quote, N
<1>12. M > 0
  <2>1. M = 0 => m = Failed
    BY <1>8, <1>10, <1>11 DEF SizeValue
  <2> QED BY <1>2, <1>8, <2>1 DEF Good, Failed
<1>13. m = SizeMembers(s, inner, f[M - 1])
  <2>1. M # 0
    BY <1>12
  <2> QED BY <1>8, <1>10, <1>11, <1>12, <2>1 DEF SizeValue
<1>14. Calm(u[1], 1)
  <2>1. Calm(u[0], 0)
    BY <1>4 DEF Calm, ScanStart, Scans
  <2>2. u[1] = ScanToken(u[0], Open, 1)
    BY <1>4, <1>9
  <2>3. Calm(ScanToken(u[0], Open, 1), 0 + 1)
    BY <2>1, OpenToken
  <2> QED BY <2>2, <2>3
<1>15. inner \in Measure /\ inner.at = 2 /\ inner.at - 1 = 1
  BY DEF Measure
<1> HIDE DEF inner
<1>16. m.at > 2 /\ s[m.at - 1] = Close /\ Calm(u[m.at - 2], 1)
  <2>1. M - 1 \in 0 .. M
    BY <1>8, <1>12
  <2>2. ValuesFit(s, f[M - 1], g[M - 1]) /\ ValuesQuiet(s, u, f[M - 1])
    BY <1>5, <1>7, <2>1
  <2>3. Good(s, SizeMembers(s, inner, f[M - 1])) /\ inner.at > 1 /\ Calm(u[inner.at - 1], 1)
    BY <1>2, <1>13, <1>14, <1>15
  <2> QED BY <1>1, <1>6, <1>13, <1>15, <2>2, <2>3, MembersQuiet DEF N
<1>17. m.at \in Nat /\ m.at <= N + 1
  BY <1>2 DEF Measure, Good, N
<1>18. m.at - 1 \in 1 .. N /\ m.at - 1 \in Nat \ {0} /\ (m.at - 1) - 1 = m.at - 2
  BY <1>1, <1>16, <1>17
<1>19. u[m.at - 1].end = m.at - 1
  <2>1. u[m.at - 1] = ScanToken(u[m.at - 2], Close, m.at - 1)
    BY <1>4, <1>16, <1>18
  <2> QED BY <1>16, <1>18, <2>1, CloseToken
<1>20. FindJsonEnd(s) = m.at - 1
  <2>1. u[N].end = m.at - 1
    BY <1>1, <1>6, <1>18, <1>19, EndStays DEF N
  <2> QED BY <1>4, <2>1 DEF FindJsonEnd
<1> QED BY <1>3, <1>16, <1>17, <1>20 DEF m, N

LEMMA TrimmedLength ==
  ASSUME NEW s \in Texts, NEW n \in 1 .. Len(s), s[1] \notin Spaces, s[n] \notin Spaces,
         \A i \in n + 1 .. Len(s) : s[i] \in Spaces
  PROVE  Len(Trim(s)) = n
<1> DEFINE solid == {i \in DOMAIN s : s[i] \notin Spaces}
<1>1. DOMAIN s = 1 .. Len(s) /\ Len(s) \in Nat
  BY DEF Texts
<1>2. /\ solid \subseteq Nat /\ 1 \in solid /\ n \in solid
      /\ \A i \in solid : 1 <= i /\ i <= n
  BY <1>1
<1>3. Trim(s) = IF solid = {} THEN <<>> ELSE SubSeq(s, Min(solid), Max(solid))
  BY DEF Trim
<1> HIDE DEF solid
<1>4. Min(solid) = 1
  <2>1. \E x \in solid : \A y \in solid : x <= y
    BY <1>2
  <2>2. Min(solid) \in solid /\ \A x \in solid : Min(solid) <= x
    BY <2>1 DEF Min
  <2> DEFINE e == Min(solid)
  <2>3. e \in solid /\ e <= 1 /\ e \in Nat
    BY <1>2, <2>2
  <2>4. 1 <= e
    BY <1>2, <2>3
  <2> HIDE DEF e
  <2>5. e = 1
    BY <2>3, <2>4
  <2> QED BY <2>5 DEF e
<1>5. Max(solid) = n
  <2>1. \E x \in solid : \A y \in solid : x >= y
    BY <1>2
  <2>2. Max(solid) \in solid /\ \A x \in solid : Max(solid) >= x
    BY <2>1 DEF Max
  <2> DEFINE e == Max(solid)
  <2>3. e \in solid /\ e >= n /\ e \in Nat
    BY <1>2, <2>2
  <2>4. e <= n
    BY <1>2, <2>3
  <2> HIDE DEF e
  <2>5. e = n
    BY <2>3, <2>4
  <2> QED BY <2>5 DEF e
<1>6. Trim(s) = SubSeq(s, 1, n)
  BY <1>2, <1>3, <1>4, <1>5
<1> QED BY <1>1, <1>6, SubSeqProperties DEF Texts

(* On every object that the parser accepts findJsonEnd finds the very end, *)
(* so that no message is cut short or glued to the next.                   *)
THEOREM FrameEndsWithObjectHolds == TextSpec => []FrameEndsWithObject
<1>1. TextInv => FrameEndsWithObject
  <2> SUFFICES ASSUME TextInv, received # <<>>, received[1] = Open, Accepts(received)
               PROVE  FindJsonEnd(received) = Len(Trim(received))
    BY DEF FrameEndsWithObject
  <2>1. received \in Texts /\ Len(received) \in Nat
    BY DEF TextInv, Texts
  <2> DEFINE n == Size(received).at - 1
  <2>2. /\ n \in 1 .. Len(received) /\ received[n] = Close /\ FindJsonEnd(received) = n
        /\ n + 1 \in Nat /\ Skip(received, n + 1) = Len(received) + 1
    <3>1. LET m == Size(received)
          IN  /\ m.at \in Nat /\ m.at > 2 /\ m.at <= Len(received) + 1
              /\ received[m.at - 1] = Close /\ Skip(received, m.at) = Len(received) + 1
              /\ FindJsonEnd(received) = m.at - 1
      BY <2>1, ObjectEnds
    <3>2. n + 1 = Size(received).at
      BY <3>1
    <3> QED BY <2>1, <3>1, <3>2
  <2> HIDE DEF n
  <2>3. \A i \in n + 1 .. Len(received) : received[i] \in Spaces
    <3>1. \A i \in n + 1 .. Skip(received, n + 1) - 1 : received[i] \in Spaces
      BY <2>1, <2>2, RunStops DEF Skip
    <3>2. Skip(received, n + 1) - 1 = Len(received)
      BY <2>1, <2>2
    <3> QED BY <3>1, <3>2
  <2>4. Open \notin Spaces /\ Close \notin Spaces
    BY DEF Open, Close, Spaces
  <2> QED BY <2>1, <2>2, <2>3, <2>4, TrimmedLength
<1> QED BY <1>1, TextInvInit, TextInvNext, PTL DEF TextSpec

=============================================================================
