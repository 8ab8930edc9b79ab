---------------------------- MODULE FramingProofs ----------------------------
(***************************************************************************)
(* Proofs about Framing: what is cut out of a connection, and reported,    *)
(* does not depend on the pieces it comes in.                              *)
(***************************************************************************)
EXTENDS Framing, Induction

Texts == Seq(Token)

LEMMA TokensDiffer ==
  /\ Quote # Backslash /\ Quote # Open /\ Quote # Close
  /\ Backslash # Open /\ Backslash # Close /\ Open # Close
BY Zenon DEF Quote, Backslash, Open, Close

-----------------------------------------------------------------------------
(* One pass over a text                                                    *)

Readings == [text : Texts, depth : Int, string : BOOLEAN, escaped : BOOLEAN, out : Seq(Texts)]

LEMMA PassType ==
  ASSUME NEW r \in Readings, NEW t \in Token
  PROVE  Pass(r, t) \in Readings
<1>1. /\ r.text \in Texts /\ r.depth \in Int /\ r.string \in BOOLEAN /\ r.escaped \in BOOLEAN
      /\ r.out \in Seq(Texts)
  BY DEF Readings
<1>2. Append(r.text, t) \in Texts /\ <<t>> \in Texts /\ <<>> \in Texts
  BY <1>1 DEF Texts
<1>3. Append(r.out, Append(r.text, t)) \in Seq(Texts)
  BY <1>1, <1>2
<1> DEFINE text == Append(r.text, t)
           out  == Append(r.out, text)
<1> HIDE DEF text, out
<1>4. text \in Texts /\ out \in Seq(Texts)
  BY <1>2, <1>3 DEF text, out
<1> HIDE DEF Texts
<1>6. \A x \in Texts : [r EXCEPT !.text = x] \in Readings
  BY <1>1 DEF Readings
<1>7. \A x \in Texts : \A d \in Int : [r EXCEPT !.text = x, !.depth = d] \in Readings
  BY <1>1 DEF Readings
<1>8. \A x \in Texts : \A b \in BOOLEAN : [r EXCEPT !.text = x, !.escaped = b] \in Readings
  BY <1>1 DEF Readings
<1>9. \A x \in Texts : \A b \in BOOLEAN : [r EXCEPT !.text = x, !.string = b] \in Readings
  BY <1>1 DEF Readings
<1>10. ASSUME NEW q \in Readings PROVE [q EXCEPT !.out = out] \in Readings
  BY <1>4 DEF Readings
<1>11. [r EXCEPT !.text = <<>>, !.depth = 0, !.out = out] \in Readings
  <2>1. [r EXCEPT !.text = <<>>, !.depth = 0] \in Readings
    <3>1. 0 \in Int
      OBVIOUS
    <3> QED BY <1>2, <1>7, <3>1, Zenon
  <2>2. [[r EXCEPT !.text = <<>>, !.depth = 0] EXCEPT !.out = out] \in Readings
    BY <1>10, <2>1
  <2> QED BY <2>2
<1>12. \/ Pass(r, t) = r
       \/ Pass(r, t) = [r EXCEPT !.text = <<t>>, !.depth = 1]
       \/ Pass(r, t) = [r EXCEPT !.text = text, !.escaped = FALSE]
       \/ Pass(r, t) = [r EXCEPT !.text = text, !.string = ~r.string]
       \/ Pass(r, t) = [r EXCEPT !.text = text, !.escaped = (t = Backslash)]
       \/ Pass(r, t) = [r EXCEPT !.text = text, !.depth = r.depth + 1]
       \/ Pass(r, t) = [r EXCEPT !.text = text]
       \/ Pass(r, t) = [r EXCEPT !.text = text, !.depth = r.depth - 1]
       \/ Pass(r, t) = [r EXCEPT !.text = <<>>, !.depth = 0, !.out = out]
  BY DEF Pass, text, out
<1>13. (~r.string) \in BOOLEAN /\ (t = Backslash) \in BOOLEAN
  BY <1>1
<1>14. r.depth + 1 \in Int /\ r.depth - 1 \in Int /\ 1 \in Int
  BY <1>1
<1>15. /\ [r EXCEPT !.text = <<t>>, !.depth = 1] \in Readings
       /\ [r EXCEPT !.text = text, !.depth = r.depth + 1] \in Readings
       /\ [r EXCEPT !.text = text, !.depth = r.depth - 1] \in Readings
  BY <1>2, <1>4, <1>7, <1>14, Zenon
<1>16. /\ [r EXCEPT !.text = text, !.escaped = FALSE] \in Readings
       /\ [r EXCEPT !.text = text, !.escaped = (t = Backslash)] \in Readings
       /\ [r EXCEPT !.text = text, !.string = ~r.string] \in Readings
       /\ [r EXCEPT !.text = text] \in Readings
  <2>1. FALSE \in BOOLEAN
    OBVIOUS
  <2> QED BY <1>4, <1>6, <1>8, <1>9, <1>13, <2>1, Zenon
<1> QED BY <1>11, <1>12, <1>15, <1>16, Zenon

(* Read goes through the text token by token.                              *)
LEMMA ReadIterates ==
  ASSUME NEW s \in Texts
  PROVE  \E f \in [0 .. Len(s) -> Readings] :
           /\ f[0] = Nothing
           /\ \A i \in 1 .. Len(s) : f[i] = Pass(f[i - 1], s[i])
           /\ Read(s) = f[Len(s)]
<1> DEFINE N == Len(s)
           step == [i \in 1 .. N |-> [r \in Readings |-> Pass(r, s[i])]]
           F(g) == [n \in 0 .. N |-> IF n = 0 THEN Nothing ELSE Pass(g[n - 1], s[n])]
<1>1. N \in Nat /\ \A i \in 1 .. N : s[i] \in Token
  BY DEF Texts
<1>2. Nothing \in Readings
  BY DEF Nothing, Readings, Texts
<1> HIDE DEF N
<1>3. step \in [1 .. N -> [Readings -> Readings]]
  BY <1>1, PassType
<1>4. PICK f \in [0 .. N -> Readings] : IsIteration(f, N, Nothing, step)
  <2> HIDE DEF step
  <2> QED BY <1>1, <1>2, <1>3, IterationExists
<1>5. \A i \in 1 .. N : f[i] = Pass(f[i - 1], s[i])
  <2> SUFFICES ASSUME NEW i \in 1 .. N PROVE f[i] = Pass(f[i - 1], s[i])
    OBVIOUS
  <2>1. i \in 0 .. N /\ i # 0 /\ f[i - 1] \in Readings
    BY <1>1
  <2>2. f[i] = step[i][f[i - 1]]
    <3> HIDE DEF step
    <3> QED BY <1>4, <2>1 DEF IsIteration
  <2>3. step[i] = [r \in Readings |-> Pass(r, s[i])]
    OBVIOUS
  <2> QED BY <2>1, <2>2, <2>3
<1>6. f[0] = Nothing
  BY <1>1, <1>4 DEF IsIteration
<1> HIDE DEF step
<1>7. f = F(f)
  BY <1>5, <1>6
<1> DEFINE g == CHOOSE h : h = F(h)
<1>8. g = F(g)
  BY <1>7
<1>9. Read(s) = g[N]
  BY DEF Read, N
<1> HIDE DEF g
<1>10. g[0] = Nothing /\ \A i \in 1 .. N : g[i] = Pass(g[i - 1], s[i])
  BY <1>1, <1>8
<1>11. \A i \in 0 .. N : g[i] = f[i]
  <2>1. \A i \in 1 .. N : g[i - 1] = f[i - 1] => g[i] = f[i]
    BY <1>5, <1>10
  <2>2. g[0] = f[0]
    BY <1>6, <1>10
  <2>3. StaysEqual(g, f, N)
    BY <2>1, <2>2 DEF StaysEqual
  <2> QED BY <1>1, <2>3, SameIteration
<1>12. Read(s) = f[N]
  BY <1>1, <1>9, <1>11
<1> QED BY <1>5, <1>6, <1>12 DEF N

LEMMA ReadEmpty == Read(<<>>) = Nothing
<1>1. <<>> \in Texts /\ Len(<<>>) = 0
  BY DEF Texts
<1> QED BY <1>1, ReadIterates

LEMMA ReadAppend ==
  ASSUME NEW s \in Texts, NEW t \in Token
  PROVE  Read(s) \in Readings /\ Read(Append(s, t)) = Pass(Read(s), t)
<1>0. PICK n \in Nat : n = Len(s)
  BY DEF Texts
<1> DEFINE u == Append(s, t)
<1>1. /\ u \in Texts /\ Len(u) = n + 1 /\ u[n + 1] = t
      /\ \A i \in 1 .. n : u[i] = s[i]
  BY <1>0, AppendProperties DEF Texts
<1>2. PICK f \in [0 .. n -> Readings] :
        f[0] = Nothing /\ (\A i \in 1 .. n : f[i] = Pass(f[i - 1], s[i])) /\ Read(s) = f[n]
  BY <1>0, ReadIterates
<1> HIDE DEF u
<1>3. PICK g :
        /\ g \in [0 .. n + 1 -> Readings]
        /\ g[0] = Nothing
        /\ \A i \in 1 .. n + 1 : g[i] = Pass(g[i - 1], u[i])
        /\ Read(u) = g[n + 1]
  BY <1>1, ReadIterates
<1>4. \A i \in 1 .. n : f[i - 1] = g[i - 1] => f[i] = g[i]
  <2>1. \A i \in 1 .. n : i \in 1 .. n + 1
    OBVIOUS
  <2> QED BY <1>1, <1>2, <1>3, <2>1
<1>5. \A i \in 0 .. n : f[i] = g[i]
  <2>1. f[0] = g[0]
    BY <1>2, <1>3
  <2>2. StaysEqual(f, g, n)
    BY <1>4, <2>1 DEF StaysEqual
  <2> QED BY <2>2, SameIteration
<1>6. g[n + 1] = Pass(g[n], t)
  <2>1. n + 1 \in 1 .. n + 1 /\ (n + 1) - 1 = n
    OBVIOUS
  <2> QED BY <1>1, <1>3, <2>1
<1> QED BY <1>1, <1>2, <1>3, <1>5, <1>6 DEF u

(* What was read before stands before what is read after.                  *)
After(o, r) == [r EXCEPT !.out = o \o r.out]

LEMMA AppendAfter ==
  ASSUME NEW S, NEW o \in Seq(S), NEW u \in Seq(S), NEW x \in S
  PROVE  Append(o \o u, x) = o \o Append(u, x)
<1>1. <<x>> \in Seq(S) /\ o \o u \in Seq(S)
  BY ConcatProperties
<1>2. Append(o \o u, x) = (o \o u) \o <<x>>
  BY <1>1, AppendIsConcat
<1>3. (o \o u) \o <<x>> = o \o (u \o <<x>>)
  BY <1>1, ConcatAssociative
<1> QED BY <1>2, <1>3, AppendIsConcat

LEMMA PassAfter ==
  ASSUME NEW r \in Readings, NEW o \in Seq(Texts), NEW t \in Token
  PROVE  Pass(After(o, r), t) = After(o, Pass(r, t))
<1> DEFINE text == Append(r.text, t)
           q    == After(o, r)
           out  == o \o r.out
<1>1. text \in Texts /\ r.out \in Seq(Texts)
  BY DEF Readings, Texts
<1>2. Append(out, text) = o \o Append(r.out, text)
  <2>1. PICK u \in Seq(Texts) : u = r.out
    BY <1>1
  <2>2. PICK x \in Texts : x = text
    BY <1>1
  <2>3. Append(o \o u, x) = o \o Append(u, x)
    OBVIOUS
  <2> HIDE DEF text
  <2> QED BY <2>1, <2>2, <2>3, Zenon
<1>3. /\ q = [r EXCEPT !.out = out]
      /\ q.text = r.text /\ q.depth = r.depth /\ q.string = r.string
      /\ q.escaped = r.escaped /\ q.out = out
  BY DEF After, Readings
<1> HIDE DEF text, out
<1>4. CASE r.text = <<>>
  <2>1. CASE t = Open
    <3>1. Pass(r, t) = [r EXCEPT !.text = <<t>>, !.depth = 1]
      BY <1>4, <2>1 DEF Pass
    <3>2. Pass(q, t) = [q EXCEPT !.text = <<t>>, !.depth = 1]
      BY <1>3, <1>4, <2>1 DEF Pass
    <3> QED BY <1>3, <3>1, <3>2 DEF After, out, Readings
  <2>2. CASE t # Open
    BY <1>3, <1>4, <2>2 DEF Pass
  <2> QED BY <2>1, <2>2
<1>5. CASE r.text # <<>> /\ r.escaped
  <2>1. /\ Pass(r, t) = [r EXCEPT !.text = text, !.escaped = FALSE]
        /\ Pass(q, t) = [q EXCEPT !.text = text, !.escaped = FALSE]
    BY <1>3, <1>5 DEF Pass, text
  <2> QED BY <1>3, <2>1 DEF After, out, Readings
<1> DEFINE plain == r.text # <<>> /\ ~r.escaped /\ t # Quote
<1>6. CASE r.text # <<>> /\ ~r.escaped /\ t = Quote
  <2>1. /\ Pass(r, t) = [r EXCEPT !.text = text, !.string = ~r.string]
        /\ Pass(q, t) = [q EXCEPT !.text = text, !.string = ~r.string]
    BY <1>3, <1>6 DEF Pass, text
  <2> QED BY <1>3, <2>1 DEF After, out, Readings
<1>7. CASE plain /\ r.string
  <2>1. /\ Pass(r, t) = [r EXCEPT !.text = text, !.escaped = (t = Backslash)]
        /\ Pass(q, t) = [q EXCEPT !.text = text, !.escaped = (t = Backslash)]
    BY <1>3, <1>7 DEF Pass, text
  <2> QED BY <1>3, <2>1 DEF After, out, Readings
<1>8. CASE plain /\ ~r.string /\ t = Open
  <2>1. /\ Pass(r, t) = [r EXCEPT !.text = text, !.depth = r.depth + 1]
        /\ Pass(q, t) = [q EXCEPT !.text = text, !.depth = r.depth + 1]
    BY <1>3, <1>8 DEF Pass, text
  <2> QED BY <1>3, <2>1 DEF After, out, Readings
<1>9. CASE plain /\ ~r.string /\ t \notin {Open, Close}
  <2>1. /\ Pass(r, t) = [r EXCEPT !.text = text]
        /\ Pass(q, t) = [q EXCEPT !.text = text]
    BY <1>3, <1>9 DEF Pass, text
  <2> QED BY <1>3, <2>1 DEF After, out, Readings
<1>10. CASE plain /\ ~r.string /\ t = Close /\ r.depth > 1
  <2>1. /\ Pass(r, t) = [r EXCEPT !.text = text, !.depth = r.depth - 1]
        /\ Pass(q, t) = [q EXCEPT !.text = text, !.depth = r.depth - 1]
    BY <1>3, <1>10, TokensDiffer DEF Pass, text
  <2> QED BY <1>3, <2>1 DEF After, out, Readings
<1>11. CASE plain /\ ~r.string /\ t = Close /\ ~(r.depth > 1)
  <2>1. /\ Pass(r, t) = [r EXCEPT !.text = <<>>, !.depth = 0, !.out = Append(r.out, text)]
        /\ Pass(q, t) = [q EXCEPT !.text = <<>>, !.depth = 0, !.out = Append(out, text)]
    BY <1>3, <1>11, TokensDiffer DEF Pass, text
  <2> QED BY <1>2, <1>3, <2>1 DEF After, out, Readings
<1> QED BY <1>4, <1>5, <1>6, <1>7, <1>8, <1>9, <1>10, <1>11

(* A text that stands for what was read before it can be read on instead   *)
(* of it.                                                                  *)
LEMMA ReadAfter ==
  ASSUME NEW u \in Texts, NEW w \in Texts, NEW o \in Seq(Texts), Read(u) = After(o, Read(w))
  PROVE  \A v \in Texts : Read(u \o v) = After(o, Read(w \o v))
<1> DEFINE P == {v \in Texts : Read(u \o v) = After(o, Read(w \o v))}
<1>1. <<>> \in P
  <2>1. u \o <<>> = u /\ w \o <<>> = w /\ <<>> \in Texts
    BY ConcatEmptySeq DEF Texts
  <2> QED BY <2>1
<1>2. ASSUME NEW v \in Texts, NEW t \in Token, v \in P
      PROVE  Append(v, t) \in P
  <2>1. /\ u \o Append(v, t) = Append(u \o v, t) /\ w \o Append(v, t) = Append(w \o v, t)
        /\ u \o v \in Texts /\ w \o v \in Texts /\ Append(v, t) \in Texts
    <3>1. u \o v \in Texts
      BY ConcatProperties DEF Texts
    <3>2. w \o v \in Texts
      BY ConcatProperties DEF Texts
    <3>3. Append(v, t) \in Texts
      BY AppendProperties DEF Texts
    <3>4. u \o Append(v, t) = Append(u \o v, t)
      BY AppendAfter DEF Texts
    <3>5. w \o Append(v, t) = Append(w \o v, t)
      BY AppendAfter DEF Texts
    <3> QED BY <3>1, <3>2, <3>3, <3>4, <3>5
  <2>2. Read(u \o v) = After(o, Read(w \o v))
    BY <1>2
  <2>3. Read(Append(u \o v, t)) = Pass(Read(u \o v), t)
    BY <2>1, ReadAppend
  <2>4. Read(w \o v) \in Readings /\ Read(Append(w \o v, t)) = Pass(Read(w \o v), t)
    BY <2>1, ReadAppend
  <2>5. Pass(After(o, Read(w \o v)), t) = After(o, Pass(Read(w \o v), t))
    BY <2>4, PassAfter
  <2> QED BY <2>1, <2>2, <2>3, <2>4, <2>5
<1>3. Texts \subseteq P
  <2>1. \A v \in Seq(Token) : \A t \in Token : v \in P => Append(v, t) \in P
    BY <1>2 DEF Texts
  <2> HIDE DEF P
  <2> QED BY <1>1, <2>1, InductionOverSequences DEF Texts
<1> QED BY <1>3

(* What stands before the first brace is not read.                         *)
LEMMA ReadWithoutBrace ==
  ASSUME NEW s \in Texts, \A i \in 1 .. Len(s) : s[i] # Open
  PROVE  Read(s) = Nothing
<1> DEFINE P == {v \in Texts : (\A i \in 1 .. Len(v) : v[i] # Open) => Read(v) = Nothing}
<1>1. <<>> \in P
  BY ReadEmpty DEF Texts
<1>2. ASSUME NEW v \in Texts, NEW t \in Token, v \in P, 
             \A i \in 1 .. Len(Append(v, t)) : Append(v, t)[i] # Open
      PROVE  Read(Append(v, t)) = Nothing
  <2>1. /\ Len(v) \in Nat /\ Len(Append(v, t)) = Len(v) + 1 /\ Append(v, t)[Len(v) + 1] = t
        /\ \A i \in 1 .. Len(v) : Append(v, t)[i] = v[i]
    BY AppendProperties DEF Texts
  <2>2. t # Open
    BY <1>2, <2>1
  <2>3. \A i \in 1 .. Len(v) : v[i] # Open
    BY <1>2, <2>1
  <2>4. Read(v) = Nothing
    BY <1>2, <2>3
  <2>5. Read(Append(v, t)) = Pass(Nothing, t)
    BY <2>4, ReadAppend
  <2>6. Nothing.text = <<>>
    BY DEF Nothing
  <2> QED BY <2>2, <2>5, <2>6 DEF Pass
<1>3. \A v \in Seq(Token) : \A t \in Token : v \in P => Append(v, t) \in P
  BY <1>2, AppendProperties DEF Texts
<1>4. Texts \subseteq P
  <2> HIDE DEF P
  <2> QED BY <1>1, <1>3, InductionOverSequences DEF Texts
<1> QED BY <1>4

-----------------------------------------------------------------------------
(* findJsonEnd                                                             *)

Scans == [depth : Int, string : BOOLEAN, escaped : BOOLEAN, end : Nat]

LEMMA ScanType ==
  ASSUME NEW r \in Scans, NEW t, NEW i \in Nat
  PROVE  ScanToken(r, t, i) \in Scans
<1>1. r.depth \in Int /\ r.string \in BOOLEAN /\ r.escaped \in BOOLEAN /\ r.end \in Nat
  BY DEF Scans
<1> DEFINE end == IF r.depth = 1 THEN i ELSE 0
<1>2. end \in Nat
  OBVIOUS
<1> HIDE DEF end
<1>3. /\ [r EXCEPT !.escaped = FALSE] \in Scans
      /\ [r EXCEPT !.escaped = TRUE] \in Scans
  BY <1>1 DEF Scans
<1>4. [r EXCEPT !.string = ~r.string] \in Scans
  BY <1>1 DEF Scans
<1>5. [r EXCEPT !.depth = r.depth + 1] \in Scans
  BY <1>1 DEF Scans
<1>6. [r EXCEPT !.depth = r.depth - 1, !.end = end] \in Scans
  <2>1. [r EXCEPT !.depth = r.depth - 1] \in Scans
    BY <1>1 DEF Scans
  <2>2. \A q \in Scans : [q EXCEPT !.end = end] \in Scans
    BY <1>2 DEF Scans
  <2> QED BY <2>1, <2>2
<1>7. \/ ScanToken(r, t, i) = r
      \/ ScanToken(r, t, i) = [r EXCEPT !.escaped = FALSE]
      \/ ScanToken(r, t, i) = [r EXCEPT !.escaped = TRUE]
      \/ ScanToken(r, t, i) = [r EXCEPT !.string = ~r.string]
      \/ ScanToken(r, t, i) = [r EXCEPT !.depth = r.depth + 1]
      \/ ScanToken(r, t, i) = [r EXCEPT !.depth = r.depth - 1, !.end = end]
  BY DEF ScanToken, end
<1> QED BY <1>3, <1>4, <1>5, <1>6, <1>7

(* Scan goes through the data token by token, too.                         *)
LEMMA ScanIterates ==
  ASSUME NEW s \in Texts
  PROVE  \E f \in [0 .. Len(s) -> Scans] :
           /\ f[0] = ScanStart
           /\ \A i \in 1 .. Len(s) : f[i] = ScanToken(f[i - 1], s[i], i)
           /\ Scan(s) = f[Len(s)]
<1> DEFINE N == Len(s)
           step == [i \in 1 .. N |-> [r \in Scans |-> ScanToken(r, s[i], i)]]
           F(g) == [n \in 0 .. N |-> IF n = 0 THEN ScanStart ELSE ScanToken(g[n - 1], s[n], n)]
<1>1. N \in Nat
  BY DEF Texts
<1>2. ScanStart \in Scans
  BY DEF ScanStart, Scans
<1> HIDE DEF N
<1>3. step \in [1 .. N -> [Scans -> Scans]]
  BY <1>1, ScanType
<1>4. PICK f \in [0 .. N -> Scans] : IsIteration(f, N, ScanStart, step)
  <2> HIDE DEF step
  <2> QED BY <1>1, <1>2, <1>3, IterationExists
<1>5. \A i \in 1 .. N : f[i] = ScanToken(f[i - 1], s[i], i)
  <2> SUFFICES ASSUME NEW i \in 1 .. N PROVE f[i] = ScanToken(f[i - 1], s[i], i)
    OBVIOUS
  <2>1. i \in 0 .. N /\ i # 0 /\ f[i - 1] \in Scans
    BY <1>1
  <2>2. f[i] = step[i][f[i - 1]]
    <3> HIDE DEF step
    <3> QED BY <1>4, <2>1 DEF IsIteration
  <2>3. step[i] = [r \in Scans |-> ScanToken(r, s[i], i)]
    OBVIOUS
  <2> QED BY <2>1, <2>2, <2>3
<1>6. f[0] = ScanStart
  BY <1>1, <1>4 DEF IsIteration
<1> HIDE DEF step
<1>7. f = F(f)
  BY <1>5, <1>6
<1> DEFINE g == CHOOSE h : h = F(h)
<1>8. g = F(g)
  BY <1>7
<1>9. Scan(s) = g[N]
  BY DEF Scan, N
<1> HIDE DEF g
<1>10. g[0] = ScanStart /\ \A i \in 1 .. N : g[i] = ScanToken(g[i - 1], s[i], i)
  BY <1>1, <1>8
<1>11. \A i \in 0 .. N : g[i] = f[i]
  <2>1. \A i \in 1 .. N : g[i - 1] = f[i - 1] => g[i] = f[i]
    BY <1>5, <1>10
  <2>2. g[0] = f[0]
    BY <1>6, <1>10
  <2>3. StaysEqual(g, f, N)
    BY <2>1, <2>2 DEF StaysEqual
  <2> QED BY <1>1, <2>3, SameIteration
<1>12. Scan(s) = f[N]
  BY <1>1, <1>9, <1>11
<1> QED BY <1>5, <1>6, <1>12 DEF N

LEMMA ScanEmpty == Scan(<<>>) = ScanStart
<1>1. <<>> \in Texts /\ Len(<<>>) = 0
  BY DEF Texts
<1> QED BY <1>1, ScanIterates

LEMMA ScanAppend ==
  ASSUME NEW s \in Texts, NEW t \in Token
  PROVE  Scan(s) \in Scans /\ Scan(Append(s, t)) = ScanToken(Scan(s), t, Len(s) + 1)
<1>0. PICK n \in Nat : n = Len(s)
  BY DEF Texts
<1> DEFINE u == Append(s, t)
<1>1. /\ u \in Texts /\ Len(u) = n + 1 /\ u[n + 1] = t
      /\ \A i \in 1 .. n : u[i] = s[i]
  BY <1>0, AppendProperties DEF Texts
<1>2. PICK f \in [0 .. n -> Scans] :
        /\ f[0] = ScanStart
        /\ \A i \in 1 .. n : f[i] = ScanToken(f[i - 1], s[i], i)
        /\ Scan(s) = f[n]
  BY <1>0, ScanIterates
<1> HIDE DEF u
<1>3. PICK g :
        /\ g \in [0 .. n + 1 -> Scans]
        /\ g[0] = ScanStart
        /\ \A i \in 1 .. n + 1 : g[i] = ScanToken(g[i - 1], u[i], i)
        /\ Scan(u) = g[n + 1]
  BY <1>1, ScanIterates
<1>4. \A i \in 1 .. n : f[i - 1] = g[i - 1] => f[i] = g[i]
  <2>1. \A i \in 1 .. n : i \in 1 .. n + 1
    OBVIOUS
  <2> QED BY <1>1, <1>2, <1>3, <2>1
<1>5. \A i \in 0 .. n : f[i] = g[i]
  <2>1. f[0] = g[0]
    BY <1>2, <1>3
  <2>2. StaysEqual(f, g, n)
    BY <1>4, <2>1 DEF StaysEqual
  <2> QED BY <2>2, SameIteration
<1>6. g[n + 1] = ScanToken(g[n], t, n + 1)
  <2>1. n + 1 \in 1 .. n + 1 /\ (n + 1) - 1 = n
    OBVIOUS
  <2> QED BY <1>1, <1>3, <2>1
<1> QED BY <1>0, <1>1, <1>2, <1>3, <1>5, <1>6 DEF u

-----------------------------------------------------------------------------
(* findJsonEnd finds the end at which a text that has begun is complete,   *)
(* and none as long as it is not.                                          *)

Begun(s) == s # <<>> /\ s[1] = Open

ScannedAsRead(s) ==
  LET c == Scan(s)
  IN IF c.end = 0
     THEN /\ c.depth >= 1
          /\ Read(s) = [text |-> s, depth |-> c.depth, string |-> c.string,
                        escaped |-> c.escaped, out |-> <<>>]
     ELSE /\ c.end \in 1 .. Len(s)
          /\ Read(SubSeq(s, 1, c.end)) = [Nothing EXCEPT !.out = <<SubSeq(s, 1, c.end)>>]

(* The records of findJsonEnd and of the pass within a text.               *)
Within(d, b, e) == [depth |-> d, string |-> b, escaped |-> e, end |-> 0]
Reads(x, d, b, e) == [text |-> x, depth |-> d, string |-> b, escaped |-> e, out |-> <<>>]

(* One more token either goes on with the text or completes it.            *)
GoesOn(c, r, u) ==
  \E d \in Int, b \in BOOLEAN, e \in BOOLEAN :
    d >= 1 /\ c = Within(d, b, e) /\ r = Reads(u, d, b, e)
Ends(c, r, u, k) == c.end = k /\ r = [Nothing EXCEPT !.out = <<u>>]

LEMMA GoesOnOrEnds ==
  ASSUME NEW s \in Texts, s # <<>>, NEW t \in Token, NEW k \in Nat \ {0},
         NEW d \in Int, d >= 1, NEW b \in BOOLEAN, NEW e \in BOOLEAN
  PROVE  LET c == ScanToken(Within(d, b, e), t, k)
             r == Pass(Reads(s, d, b, e), t)
             u == Append(s, t)
         IN  GoesOn(c, r, u) \/ Ends(c, r, u, k)
<1> DEFINE w == Within(d, b, e)
           q == Reads(s, d, b, e)
           u == Append(s, t)
           c == ScanToken(w, t, k)
           r == Pass(q, t)
<1>1. w.depth = d /\ w.string = b /\ w.escaped = e /\ w.end = 0
  BY DEF Within
<1>2. q.text = s /\ q.depth = d /\ q.string = b /\ q.escaped = e /\ q.out = <<>>
  BY DEF Reads
<1>3. Append(q.text, t) = u
  BY <1>2
<1> HIDE DEF w, q, u
<1>4. /\ \A x : [w EXCEPT !.escaped = x] = Within(d, b, x)
      /\ \A x : [w EXCEPT !.string = x] = Within(d, x, e)
      /\ \A x : [w EXCEPT !.depth = x] = Within(x, b, e)
      /\ \A x, y : [w EXCEPT !.depth = x, !.end = y]
                     = [depth |-> x, string |-> b, escaped |-> e, end |-> y]
  <2>1. \A x : [w EXCEPT !.escaped = x] = Within(d, b, x)
    BY DEF w, Within
  <2>2. \A x : [w EXCEPT !.string = x] = Within(d, x, e)
    BY DEF w, Within
  <2>3. \A x : [w EXCEPT !.depth = x] = Within(x, b, e)
    BY DEF w, Within
  <2>4. ASSUME NEW x, NEW y
        PROVE  [w EXCEPT !.depth = x, !.end = y]
                 = [depth |-> x, string |-> b, escaped |-> e, end |-> y]
    <3>1. [Within(x, b, e) EXCEPT !.end = y]
            = [depth |-> x, string |-> b, escaped |-> e, end |-> y]
      BY DEF Within
    <3> QED BY <2>3, <3>1
  <2> QED BY <2>1, <2>2, <2>3, <2>4, Zenon
<1>5. /\ [q EXCEPT !.text = u] = Reads(u, d, b, e)
      /\ \A x : [q EXCEPT !.text = u, !.escaped = x] = Reads(u, d, b, x)
      /\ \A x : [q EXCEPT !.text = u, !.string = x] = Reads(u, d, x, e)
      /\ \A x : [q EXCEPT !.text = u, !.depth = x] = Reads(u, x, b, e)
  <2>1. [q EXCEPT !.text = u] = Reads(u, d, b, e)
    BY DEF q, Reads
  <2>2. ASSUME NEW x PROVE [Reads(u, d, b, e) EXCEPT !.escaped = x] = Reads(u, d, b, x)
    BY DEF Reads
  <2>3. ASSUME NEW x PROVE [Reads(u, d, b, e) EXCEPT !.string = x] = Reads(u, d, x, e)
    BY DEF Reads
  <2>4. ASSUME NEW x PROVE [Reads(u, d, b, e) EXCEPT !.depth = x] = Reads(u, x, b, e)
    BY DEF Reads
  <2>5. ASSUME NEW x PROVE [q EXCEPT !.text = u, !.escaped = x] = Reads(u, d, b, x)
    BY <2>1, <2>2
  <2>6. ASSUME NEW x PROVE [q EXCEPT !.text = u, !.string = x] = Reads(u, d, x, e)
    BY <2>1, <2>3
  <2>7. ASSUME NEW x PROVE [q EXCEPT !.text = u, !.depth = x] = Reads(u, x, b, e)
    BY <2>1, <2>4
  <2> QED BY <2>1, <2>5, <2>6, <2>7, Zenon
<1>6. ASSUME NEW d2 \in Int, d2 >= 1, NEW b2 \in BOOLEAN, NEW e2 \in BOOLEAN,
             c = Within(d2, b2, e2), r = Reads(u, d2, b2, e2)
      PROVE  GoesOn(c, r, u)
  BY <1>6 DEF GoesOn
<1>7. ASSUME e PROVE GoesOn(c, r, u)
  <2>1. c = [w EXCEPT !.escaped = FALSE]
    BY <1>1, <1>7, TokensDiffer DEF ScanToken
  <2>2. r = [q EXCEPT !.text = u, !.escaped = FALSE]
    BY <1>2, <1>3, <1>7, TokensDiffer DEF Pass
  <2>3. c = Within(d, b, FALSE) /\ r = Reads(u, d, b, FALSE)
    BY <1>4, <1>5, <2>1, <2>2, Zenon DEF w, Within
  <2>4. FALSE \in BOOLEAN
    OBVIOUS
  <2> QED BY <1>6, <2>3, <2>4, Zenon
<1>8. ASSUME ~e, t = Quote PROVE GoesOn(c, r, u)
  <2>1. c = [w EXCEPT !.string = ~b]
    BY <1>1, <1>8, TokensDiffer DEF ScanToken
  <2>2. r = [q EXCEPT !.text = u, !.string = ~b]
    BY <1>2, <1>3, <1>8, TokensDiffer DEF Pass
  <2>3. c = Within(d, ~b, e) /\ r = Reads(u, d, ~b, e)
    BY <1>4, <1>5, <2>1, <2>2, Zenon DEF w, Within
  <2>4. (~b) \in BOOLEAN
    OBVIOUS
  <2> QED BY <1>6, <2>3, <2>4, Zenon
<1>9. ASSUME ~e, b, t = Backslash PROVE GoesOn(c, r, u)
  <2>1. c = [w EXCEPT !.escaped = TRUE]
    BY <1>1, <1>9, TokensDiffer DEF ScanToken
  <2>2. r = [q EXCEPT !.text = u, !.escaped = TRUE]
    BY <1>2, <1>3, <1>9, TokensDiffer DEF Pass
  <2>3. c = Within(d, b, TRUE) /\ r = Reads(u, d, b, TRUE)
    BY <1>4, <1>5, <2>1, <2>2, Zenon DEF w, Within
  <2>4. TRUE \in BOOLEAN
    OBVIOUS
  <2> QED BY <1>6, <2>3, <2>4, Zenon
<1>10. ASSUME ~e, b, t # Quote, t # Backslash PROVE GoesOn(c, r, u)
  <2>1. c = w
    BY <1>1, <1>10, TokensDiffer DEF ScanToken
  <2>2. r = [q EXCEPT !.text = u, !.escaped = FALSE]
    BY <1>2, <1>3, <1>10, TokensDiffer DEF Pass
  <2>3. c = Within(d, b, FALSE) /\ r = Reads(u, d, b, FALSE)
    <3>1. e = FALSE
      BY <1>10
    <3> QED BY <1>4, <1>5, <2>1, <2>2, <3>1, Zenon DEF w
  <2>4. FALSE \in BOOLEAN
    OBVIOUS
  <2> QED BY <1>6, <2>3, <2>4, Zenon
<1>11. ASSUME ~e, ~b, t = Open PROVE GoesOn(c, r, u)
  <2>1. c = [w EXCEPT !.depth = d + 1]
    BY <1>1, <1>11, TokensDiffer DEF ScanToken
  <2>2. r = [q EXCEPT !.text = u, !.depth = d + 1]
    BY <1>2, <1>3, <1>11, TokensDiffer DEF Pass
  <2>3. c = Within(d + 1, b, e) /\ r = Reads(u, d + 1, b, e)
    BY <1>4, <1>5, <2>1, <2>2, Zenon DEF w, Within
  <2>4. d + 1 \in Int /\ d + 1 >= 1
    BY <1>11
  <2> QED BY <1>6, <2>3, <2>4, Zenon
<1>12. ASSUME ~e, ~b, t # Quote, t # Open, t # Close PROVE GoesOn(c, r, u)
  <2>1. c = w
    BY <1>1, <1>12, TokensDiffer DEF ScanToken
  <2>2. r = [q EXCEPT !.text = u]
    BY <1>2, <1>3, <1>12, TokensDiffer DEF Pass
  <2>3. c = Within(d, b, e) /\ r = Reads(u, d, b, e)
    BY <1>4, <1>5, <2>1, <2>2, Zenon DEF w, Within
  <2> QED BY <1>6, <2>3, Zenon
<1>13. ASSUME ~e, ~b, t = Close, d > 1 PROVE GoesOn(c, r, u)
  <2>1. c = [w EXCEPT !.depth = d - 1, !.end = 0]
    <3>1. (IF w.depth = 1 THEN k ELSE 0) = 0
      BY <1>1, <1>13
    <3>2. c = [w EXCEPT !.depth = w.depth - 1, !.end = IF w.depth = 1 THEN k ELSE 0]
      BY <1>1, <1>13, TokensDiffer DEF ScanToken
    <3> QED BY <1>1, <3>1, <3>2, Zenon
  <2>2. r = [q EXCEPT !.text = u, !.depth = d - 1]
    BY <1>2, <1>3, <1>13, TokensDiffer DEF Pass
  <2>3. c = Within(d - 1, b, e) /\ r = Reads(u, d - 1, b, e)
    BY <1>4, <1>5, <2>1, <2>2, Zenon DEF w, Within
  <2>4. d - 1 \in Int /\ d - 1 >= 1
    BY <1>13
  <2> QED BY <1>6, <2>3, <2>4, Zenon
<1>14. ASSUME ~e, ~b, t = Close, d = 1 PROVE Ends(c, r, u, k)
  <2>1. c = [w EXCEPT !.depth = d - 1, !.end = k]
    BY <1>1, <1>14, TokensDiffer DEF ScanToken
  <2>2. c.end = k
    BY <1>4, <2>1, Zenon
  <2>3. r = [q EXCEPT !.text = <<>>, !.depth = 0, !.out = <<u>>]
    <3>1. Append(q.out, u) = <<u>>
      BY <1>2
    <3> QED BY <1>2, <1>3, <1>14, <3>1, TokensDiffer DEF Pass
  <2>4. r = [text |-> <<>>, depth |-> 0, string |-> b, escaped |-> e, out |-> <<u>>]
    BY <2>3 DEF q, Reads
  <2>5. Nothing = [text |-> <<>>, depth |-> 0, string |-> b, escaped |-> e, out |-> <<>>]
    <3>1. b = FALSE /\ e = FALSE
      BY <1>14
    <3> QED BY <3>1, Zenon DEF Nothing
  <2>6. r = [Nothing EXCEPT !.out = <<u>>]
    BY <2>4, <2>5
  <2> QED BY <2>2, <2>6 DEF Ends
<1>15. e \/ (~e /\ t = Quote) \/ (~e /\ b /\ t # Quote) \/ (~e /\ ~b /\ t # Quote)
  OBVIOUS
<1>16. d > 1 \/ d = 1
  OBVIOUS
<1>17. GoesOn(c, r, u) \/ Ends(c, r, u, k)
  <2> HIDE DEF c, r
  <2> QED BY <1>7, <1>8, <1>9, <1>10, <1>11, <1>12, <1>13, <1>14, <1>15, <1>16, Zenon
<1> QED BY <1>17 DEF w, q, u

LEMMA GoesOnScanned ==
  ASSUME NEW u, GoesOn(Scan(u), Read(u), u)
  PROVE  ScannedAsRead(u)
<1>1. PICK d \in Int, b \in BOOLEAN, e \in BOOLEAN :
        d >= 1 /\ Scan(u) = Within(d, b, e) /\ Read(u) = Reads(u, d, b, e)
  BY DEF GoesOn
<1>2. Scan(u).end = 0 /\ Scan(u).depth = d /\ Scan(u).string = b /\ Scan(u).escaped = e
  BY <1>1 DEF Within
<1> QED BY <1>1, <1>2 DEF ScannedAsRead, Reads

LEMMA ScannedOneMore ==
  ASSUME NEW s \in Texts, s # <<>>, ScannedAsRead(s), Scan(s).end = 0, NEW t \in Token
  PROVE  ScannedAsRead(Append(s, t))
<1> DEFINE u == Append(s, t)
<1>1. PICK n \in Nat : n = Len(s)
  BY DEF Texts
<1>2. u \in Texts /\ Len(u) = n + 1
  BY <1>1, AppendProperties DEF Texts
<1>3. Scan(s) \in Scans
  BY ScanAppend
<1>4. PICK d \in Int, b \in BOOLEAN, e \in BOOLEAN :
        d = Scan(s).depth /\ b = Scan(s).string /\ e = Scan(s).escaped
  BY <1>3 DEF Scans
<1>5. Scan(s) = Within(d, b, e)
  BY <1>3, <1>4 DEF Scans, Within
<1>6. d >= 1 /\ Read(s) = Reads(s, d, b, e)
  BY <1>4 DEF ScannedAsRead, Reads
<1>7. Scan(u) = ScanToken(Within(d, b, e), t, n + 1) /\ Read(u) = Pass(Reads(s, d, b, e), t)
  BY <1>1, <1>5, <1>6, ScanAppend, ReadAppend
<1>8. n + 1 \in Nat \ {0}
  OBVIOUS
<1>9. GoesOn(Scan(u), Read(u), u) \/ Ends(Scan(u), Read(u), u, n + 1)
  BY <1>6, <1>7, <1>8, GoesOnOrEnds, Zenon
<1> SUFFICES ScannedAsRead(u)
  OBVIOUS
<1> HIDE DEF u
<1>10. ASSUME Scan(u).end = n + 1, Read(u) = [Nothing EXCEPT !.out = <<u>>]
       PROVE  ScannedAsRead(u)
  <2>1. SubSeq(u, 1, n + 1) = u
    BY <1>2, SubSeqFull DEF Texts
  <2>2. n + 1 # 0 /\ n + 1 \in 1 .. n + 1
    OBVIOUS
  <2> QED BY <1>2, <1>10, <2>1, <2>2 DEF ScannedAsRead
<1> QED BY <1>9, <1>10, GoesOnScanned DEF Ends

LEMMA ScannedSound ==
  ASSUME NEW s \in Texts, Begun(s)
  PROVE  ScannedAsRead(s)
<1> DEFINE P == {v \in Texts : Begun(v) => ScannedAsRead(v)}
<1>1. <<>> \in P
  BY DEF Begun, Texts
<1>2. ASSUME NEW v \in Texts, NEW t \in Token, v \in P, Begun(Append(v, t))
      PROVE  ScannedAsRead(Append(v, t))
  <2> DEFINE u == Append(v, t)
  <2>1. PICK n \in Nat : /\ n = Len(v) /\ u \in Texts /\ Len(u) = n + 1 /\ u[n + 1] = t
                         /\ \A i \in 1 .. n : u[i] = v[i]
    BY AppendProperties DEF Texts
  <2>2. CASE v = <<>>
    <3>1. n = 0 /\ t = Open /\ u = <<t>>
      BY <1>2, <2>1, <2>2 DEF Begun
    <3>2. Scan(u) = ScanToken(ScanStart, t, 1) /\ Read(u) = Pass(Nothing, t)
      BY <2>1, <2>2, <3>1, ScanEmpty, ReadEmpty, ScanAppend, ReadAppend
    <3>3. Scan(u) = Within(1, FALSE, FALSE)
      <4>1. /\ ScanStart = Within(0, FALSE, FALSE)
            /\ ScanStart.end = 0 /\ ~ScanStart.escaped /\ ~ScanStart.string
            /\ ScanStart.depth = 0
        BY DEF ScanStart, Within
      <4>2. \A b, e : [Within(0, b, e) EXCEPT !.depth = 1] = Within(1, b, e)
        BY DEF Within
      <4>3. Scan(u) = [ScanStart EXCEPT !.depth = 1]
        <5>1. Scan(u) = [ScanStart EXCEPT !.depth = ScanStart.depth + 1]
          BY <3>1, <3>2, <4>1, TokensDiffer DEF ScanToken
        <5>2. ScanStart.depth + 1 = 1
          BY DEF ScanStart
        <5> QED BY <5>1, <5>2, Zenon
      <4> QED BY <4>1, <4>2, <4>3, Zenon
    <3>4. Read(u) = Reads(u, 1, FALSE, FALSE)
      <4>1. Nothing = Reads(<<>>, 0, FALSE, FALSE) /\ Nothing.text = <<>>
        BY DEF Nothing, Reads
      <4>2. ASSUME NEW b, NEW e
            PROVE  [Reads(<<>>, 0, b, e) EXCEPT !.text = u, !.depth = 1] = Reads(u, 1, b, e)
        <5> HIDE DEF u
        <5>1. [Reads(<<>>, 0, b, e) EXCEPT !.text = u] = Reads(u, 0, b, e)
          BY DEF Reads
        <5>2. [Reads(u, 0, b, e) EXCEPT !.depth = 1] = Reads(u, 1, b, e)
          BY DEF Reads
        <5> QED BY <5>1, <5>2
      <4>3. Read(u) = [Nothing EXCEPT !.text = <<t>>, !.depth = 1]
        BY <3>1, <3>2, <4>1 DEF Pass
      <4> HIDE DEF u
      <4>4. Read(u) = [Nothing EXCEPT !.text = u, !.depth = 1]
        BY <3>1, <4>3, Zenon
      <4> QED BY <4>1, <4>2, <4>4, Zenon
    <3> HIDE DEF u
    <3>5. ScannedAsRead(u)
      <4>1. 1 \in Int /\ 1 >= 1 /\ FALSE \in BOOLEAN
        OBVIOUS
      <4>2. GoesOn(Scan(u), Read(u), u)
        BY <3>3, <3>4, <4>1, Zenon DEF GoesOn
      <4> QED BY <4>2, GoesOnScanned
    <3> QED BY <3>5 DEF u
  <2>3. CASE v # <<>>
    <3>1. Begun(v) /\ n > 0
      BY <1>2, <2>1, <2>3 DEF Begun, Texts
    <3>2. ScannedAsRead(v)
      BY <1>2, <3>1
    <3>3. CASE Scan(v).end = 0
      BY <2>3, <3>2, <3>3, ScannedOneMore
    <3>4. CASE Scan(v).end # 0
      <4> DEFINE end == Scan(v).end
      <4>1. end \in 1 .. n /\ Read(SubSeq(v, 1, end)) = [Nothing EXCEPT !.out = <<SubSeq(v, 1, end)>>]
        BY <2>1, <3>2, <3>4 DEF ScannedAsRead
      <4>2. Scan(u) = Scan(v)
        BY <3>4, ScanAppend DEF ScanToken
      <4> HIDE DEF end
      <4>3. SubSeq(u, 1, end) = SubSeq(v, 1, end)
        <5>1. u = v \o <<t>> /\ <<t>> \in Texts
          BY AppendIsConcat DEF Texts
        <5>2. 1 \in 1 .. Len(v) /\ end \in 1 .. Len(v)
          BY <2>1, <4>1
        <5> HIDE DEF u
        <5> QED BY <5>1, <5>2, SubSeqOfConcat1 DEF Texts
      <4>4. end \in 1 .. Len(u)
        BY <2>1, <4>1
      <4> HIDE DEF u
      <4> QED BY <3>4, <4>1, <4>2, <4>3, <4>4 DEF ScannedAsRead, end, u
    <3> QED BY <3>3, <3>4
  <2> QED BY <2>2, <2>3
<1>3. \A v \in Seq(Token) : \A t \in Token : v \in P => Append(v, t) \in P
  BY <1>2, AppendProperties DEF Texts
<1>4. Texts \subseteq P
  <2> HIDE DEF P
  <2> QED BY <1>1, <1>3, InductionOverSequences DEF Texts
<1> QED BY <1>4

-----------------------------------------------------------------------------
(* processBuffer                                                           *)

Works == [rest : Texts, texts : Seq(Texts)]

(* What a buffer and the texts cut out of it stand for.                    *)
Reading(w) == After(w.texts, Read(w.rest))

Finished(w) == Read(w.rest).out = <<>>

LEMMA AfterEmpty ==
  ASSUME NEW r \in Readings
  PROVE  After(<<>>, r) = r
<1>1. r.out \in Seq(Texts)
  BY DEF Readings
<1>2. <<>> \o r.out = r.out
  BY <1>1, ConcatEmptySeq
<1> QED BY <1>2 DEF After, Readings

LEMMA AfterAfter ==
  ASSUME NEW r \in Readings, NEW o \in Seq(Texts), NEW p \in Seq(Texts)
  PROVE  After(o, After(p, r)) = After(o \o p, r)
<1>1. r.out \in Seq(Texts)
  BY DEF Readings
<1>2. (o \o p) \o r.out = o \o (p \o r.out)
  <2>1. PICK u \in Seq(Texts) : u = r.out
    BY <1>1
  <2>2. (o \o p) \o u = o \o (p \o u)
    BY ConcatAssociative, SMT
  <2> QED BY <2>1, <2>2, Zenon
<1>3. After(p, r).out = p \o r.out
  BY DEF After, Readings
<1>4. After(o, After(p, r)) = [r EXCEPT !.out = o \o (p \o r.out)]
  BY <1>3 DEF After, Readings
<1> QED BY <1>2, <1>4 DEF After

LEMMA ReadType ==
  ASSUME NEW s \in Texts
  PROVE  Read(s) \in Readings
<1>1. Len(s) \in Nat
  BY DEF Texts
<1> QED BY <1>1, ReadIterates

(* Reading starts at the first brace.                                      *)
LEMMA ReadFromBrace ==
  ASSUME NEW s \in Texts, NEW k \in 1 .. Len(s), \A i \in 1 .. k - 1 : s[i] # Open
  PROVE  /\ SubSeq(s, k, Len(s)) \in Texts
         /\ Len(SubSeq(s, k, Len(s))) = Len(s) - k + 1
         /\ SubSeq(s, k, Len(s))[1] = s[k]
         /\ Read(s) = Read(SubSeq(s, k, Len(s)))
<1>0. PICK n \in Nat : n = Len(s) /\ k \in 1 .. n
  BY DEF Texts
<1> DEFINE junk  == SubSeq(s, 1, k - 1)
           begun == SubSeq(s, k, n)
<1>1. \A i \in 1 .. n : s[i] \in Token
  BY <1>0 DEF Texts
<1>2. begun \in Texts /\ Len(begun) = n - k + 1 /\ begun[1] = s[k]
  <2>1. \A i \in k .. n : s[i] \in Token
    BY <1>0, <1>1
  <2>2. /\ begun \in Seq(Token) /\ Len(begun) = n - k + 1
        /\ \A i \in 1 .. n - k + 1 : begun[i] = s[k + i - 1]
    <3> HIDE DEF begun
    <3>1. k \in Int /\ n \in Int /\ k <= n
      BY <1>0
    <3> QED BY <2>1, <3>1, SubSeqProperties DEF begun
  <2>3. 1 \in 1 .. n - k + 1 /\ k + 1 - 1 = k
    BY <1>0
  <2> QED BY <2>2, <2>3 DEF Texts
<1>3. junk \in Texts /\ \A i \in 1 .. Len(junk) : junk[i] # Open
  <2>1. \A i \in 1 .. k - 1 : s[i] \in Token
    BY <1>0, <1>1
  <2>2. /\ junk \in Seq(Token) /\ Len(junk) = k - 1
        /\ \A i \in 1 .. k - 1 : junk[i] = s[i]
    BY <1>0, <2>1 DEF Texts
  <2> HIDE DEF junk
  <2> QED BY <2>2 DEF Texts
<1>4. junk \o begun = s
  <2>1. 1 \in 1 .. Len(s) + 1 /\ k - 1 \in 0 .. Len(s) /\ Len(s) \in k - 1 .. Len(s)
    BY <1>0
  <2>2. SubSeq(s, 1, k - 1) \o SubSeq(s, (k - 1) + 1, Len(s)) = SubSeq(s, 1, Len(s))
    <3>1. k - 1 \in 1 - 1 .. Len(s)
      BY <2>1
    <3> QED BY <2>1, <3>1, ConcatAdjacentSubSeq DEF Texts
  <2>3. (k - 1) + 1 = k
    BY <1>0
  <2> QED BY <1>0, <2>2, <2>3, SubSeqFull DEF Texts
<1> HIDE DEF junk, begun
<1>5. Read(junk) = After(<<>>, Read(<<>>)) /\ <<>> \in Texts /\ <<>> \in Seq(Texts)
  <2>1. <<>> \in Texts /\ <<>> \in Seq(Texts)
    BY DEF Texts
  <2> QED BY <1>3, <2>1, ReadWithoutBrace, ReadEmpty, ReadType, AfterEmpty
<1>6. Read(junk \o begun) = After(<<>>, Read(<<>> \o begun))
  BY <1>2, <1>3, <1>5, ReadAfter
<1>7. <<>> \o begun = begun /\ After(<<>>, Read(begun)) = Read(begun)
  BY <1>2, ConcatEmptySeq, ReadType, AfterEmpty DEF Texts
<1> QED BY <1>0, <1>2, <1>4, <1>6, <1>7 DEF begun

(* A complete message is read, and then what follows it.                   *)
LEMMA ReadMessage ==
  ASSUME NEW s \in Texts, Begun(s), FindJsonEnd(s) # 0
  PROVE  LET end  == FindJsonEnd(s)
             text == SubSeq(s, 1, end)
             tail == SubSeq(s, end + 1, Len(s))
         IN  /\ text \in Texts /\ tail \in Texts
             /\ Len(tail) < Len(s)
             /\ Read(s) = After(<<text>>, Read(tail))
<1>0. PICK n \in Nat : n = Len(s)
  BY DEF Texts
<1> DEFINE end  == FindJsonEnd(s)
           text == SubSeq(s, 1, end)
           tail == SubSeq(s, end + 1, n)
<1>1. end \in 1 .. n /\ Read(text) = [Nothing EXCEPT !.out = <<text>>]
  BY <1>0, ScannedSound DEF ScannedAsRead, FindJsonEnd
<1> HIDE DEF end
<1>2. \A i \in 1 .. n : s[i] \in Token
  BY <1>0 DEF Texts
<1>3. text \in Texts
  BY <1>0, <1>1, <1>2 DEF Texts
<1>4. tail \in Texts /\ Len(tail) < n
  BY <1>0, <1>1, <1>2 DEF Texts
<1>5. text \o tail = s
  <2>1. 1 \in 1 .. Len(s) + 1 /\ end \in 1 - 1 .. Len(s) /\ Len(s) \in end .. Len(s)
    BY <1>0, <1>1
  <2>2. SubSeq(s, 1, end) \o SubSeq(s, end + 1, Len(s)) = SubSeq(s, 1, Len(s))
    BY <2>1, ConcatAdjacentSubSeq DEF Texts
  <2> QED BY <1>0, <2>2, SubSeqFull DEF Texts
<1> HIDE DEF text, tail
<1>6. <<text>> \in Seq(Texts) /\ <<>> \in Texts
  BY <1>3 DEF Texts
<1>7. Read(text) = After(<<text>>, Read(<<>>))
  <2>1. <<text>> \o <<>> = <<text>>
    BY <1>6, ConcatEmptySeq
  <2>2. Nothing.out = <<>>
    BY DEF Nothing
  <2>3. After(<<text>>, Nothing) = [Nothing EXCEPT !.out = <<text>>]
    BY <2>1, <2>2, Zenon DEF After
  <2> QED BY <1>1, <2>3, ReadEmpty
<1>8. Read(text \o tail) = After(<<text>>, Read(<<>> \o tail))
  <2>1. \A v \in Texts : Read(text \o v) = After(<<text>>, Read(<<>> \o v))
    BY <1>3, <1>6, <1>7, ReadAfter
  <2> QED BY <1>4, <2>1
<1>9. <<>> \o tail = tail
  BY <1>4, ConcatEmptySeq DEF Texts
<1> QED BY <1>0, <1>3, <1>4, <1>5, <1>8, <1>9 DEF end, text, tail

(* A turn of the loop loses nothing of what there is to read; it is the    *)
(* last one, or shortens the buffer.                                       *)
LEMMA CutOneSound ==
  ASSUME NEW w \in Works
  PROVE  /\ CutOne(w) \in Works
         /\ Reading(CutOne(w)) = Reading(w)
         /\ Finished(CutOne(w)) \/ Len(CutOne(w).rest) < Len(w.rest)
         /\ Finished(w) => Finished(CutOne(w))
<1> DEFINE s == w.rest
           braces == {i \in DOMAIN s : s[i] = Open}
<1>0. PICK n \in Nat : n = Len(s) /\ DOMAIN s = 1 .. n
  BY DEF Works, Texts
<1>1. s \in Texts /\ w.texts \in Seq(Texts)
  BY DEF Works
<1>2. CASE braces = {}
  <2>1. \E rest \in {s, <<>>} : CutOne(w) = [w EXCEPT !.rest = rest]
    BY <1>2 DEF CutOne
  <2>2. PICK rest \in {s, <<>>} : CutOne(w) = [w EXCEPT !.rest = rest]
    BY <2>1
  <2>3. Read(s) = Nothing /\ Read(rest) = Nothing /\ rest \in Texts
    <3>1. \A i \in 1 .. Len(s) : s[i] # Open
      BY <1>0, <1>2
    <3>2. Read(s) = Nothing
      <4> HIDE DEF s
      <4> QED BY <1>1, <3>1, ReadWithoutBrace
    <3>3. <<>> \in Texts
      BY DEF Texts
    <3> HIDE DEF s
    <3> QED BY <1>1, <2>2, <3>2, <3>3, ReadEmpty
  <2>4. CutOne(w).rest = rest /\ CutOne(w).texts = w.texts /\ CutOne(w) \in Works
    BY <1>1, <2>2, <2>3 DEF Works
  <2>5. Nothing.out = <<>>
    BY DEF Nothing
  <2> HIDE DEF Texts
  <2> QED BY <2>3, <2>4, <2>5 DEF Reading, Finished
<1>3. CASE braces # {}
  <2> DEFINE k     == Min(braces)
             begun == SubSeq(s, k, Len(s))
             end   == FindJsonEnd(begun)
  <2>1. k \in 1 .. n /\ s[k] = Open /\ \A i \in 1 .. k - 1 : s[i] # Open
    <3>1. braces \subseteq Nat
      BY <1>0
    <3>2. \E m \in braces : \A i \in braces : m <= i
      <4> HIDE DEF braces
      <4> QED BY <1>3, <3>1, LeastNumber
    <3>3. k \in braces /\ \A i \in braces : k <= i
      <4> HIDE DEF braces
      <4> QED BY <3>2 DEF Min
    <3>4. k \in 1 .. n /\ s[k] = Open
      BY <1>0, <3>3
    <3>5. ASSUME NEW i \in 1 .. k - 1, s[i] = Open
          PROVE  FALSE
      <4>1. i \in braces /\ i < k
        BY <1>0, <3>4, <3>5
      <4> HIDE DEF k, braces
      <4> QED BY <1>0, <3>3, <3>4, <3>5, <4>1
    <3> QED BY <3>4, <3>5
  <2> HIDE DEF k
  <2>2. /\ begun \in Texts /\ Len(begun) <= n /\ begun[1] = Open /\ begun # <<>>
        /\ Read(s) = Read(begun)
    <3>1. k \in 1 .. Len(s)
      BY <1>0, <2>1
    <3>2. /\ begun \in Texts /\ Len(begun) = Len(s) - k + 1 /\ begun[1] = s[k]
          /\ Read(s) = Read(begun)
      <4> HIDE DEF s
      <4> QED BY <1>1, <2>1, <3>1, ReadFromBrace
    <3>3. Len(begun) <= n /\ Len(begun) # 0
      BY <1>0, <2>1, <3>2
    <3>4. begun # <<>>
      <4> HIDE DEF begun
      <4> QED BY <3>3
    <3> QED BY <2>1, <3>2, <3>3, <3>4, Zenon
  <2>3. CASE end = 0
    <3>1. CutOne(w) = [w EXCEPT !.rest = begun]
      BY <1>3, <2>3 DEF CutOne, k
    <3> HIDE DEF begun
    <3>2. ScannedAsRead(begun)
      BY <2>2, ScannedSound DEF Begun
    <3>3. Read(begun).out = <<>>
      BY <2>3, <3>2 DEF ScannedAsRead, FindJsonEnd
    <3>4. CutOne(w).rest = begun /\ CutOne(w).texts = w.texts /\ CutOne(w) \in Works
      BY <1>1, <2>2, <3>1 DEF Works
    <3> QED BY <2>2, <3>3, <3>4 DEF Reading, Finished
  <2>4. CASE end # 0
    <3> DEFINE text == SubSeq(begun, 1, end)
               tail == SubSeq(begun, end + 1, Len(begun))
    <3>1. CutOne(w) = [rest |-> tail, texts |-> Append(w.texts, text)]
      BY <1>3, <2>4 DEF CutOne, k
    <3> HIDE DEF begun
    <3>2. /\ text \in Texts /\ tail \in Texts /\ Len(tail) < Len(begun)
          /\ Read(begun) = After(<<text>>, Read(tail))
      BY <2>2, <2>4, ReadMessage DEF Begun
    <3> HIDE DEF text, tail
    <3>3. /\ Append(w.texts, text) \in Seq(Texts) /\ <<text>> \in Seq(Texts)
          /\ Append(w.texts, text) = w.texts \o <<text>>
      BY <1>1, <3>2, AppendProperties, AppendIsConcat
    <3>4. CutOne(w) \in Works
      BY <3>1, <3>2, <3>3 DEF Works
    <3>5. Read(tail) \in Readings
      BY <3>2, ReadType
    <3>6. After(w.texts, After(<<text>>, Read(tail))) = After(w.texts \o <<text>>, Read(tail))
      BY <1>1, <3>3, <3>5, AfterAfter
    <3>7. Reading(CutOne(w)) = Reading(w)
      BY <2>2, <3>1, <3>2, <3>3, <3>6 DEF Reading
    <3>8. Len(CutOne(w).rest) < Len(w.rest)
      <4>1. Len(tail) \in Nat /\ Len(begun) \in Nat
        BY <2>2, <3>2 DEF Texts
      <4> QED BY <1>0, <2>2, <3>1, <3>2, <4>1
    <3>9. ~Finished(w)
      <4>1. Read(s).out = <<text>> \o Read(tail).out
        BY <2>2, <3>2, <3>5 DEF After, Readings
      <4>2. Read(tail).out \in Seq(Texts)
        BY <3>5 DEF Readings
      <4>3. <<text>> \o Read(tail).out # <<>>
        BY <3>3, <4>2, ConcatEqualIffEmpty
      <4> QED BY <4>1, <4>3 DEF Finished
    <3> QED BY <3>4, <3>7, <3>8, <3>9
  <2> QED BY <2>3, <2>4
<1> QED BY <1>2, <1>3

(* Cut makes as many turns as the buffer has tokens.                       *)
LEMMA CutIterates ==
  ASSUME NEW buf \in Texts
  PROVE  \E f \in [0 .. Len(buf) -> Works] :
           /\ f[0] = [rest |-> buf, texts |-> <<>>]
           /\ \A i \in 1 .. Len(buf) : f[i] = CutOne(f[i - 1])
           /\ Cut(buf) = f[Len(buf)]
<1> DEFINE N == Len(buf)
           base == [rest |-> buf, texts |-> <<>>]
           step == [i \in 1 .. N |-> [w \in Works |-> CutOne(w)]]
           F(g) == [n \in 0 .. N |-> IF n = 0 THEN base ELSE CutOne(g[n - 1])]
<1>1. N \in Nat
  BY DEF Texts
<1>2. base \in Works
  BY DEF Works
<1> HIDE DEF N, base
<1>3. step \in [1 .. N -> [Works -> Works]]
  BY <1>1, CutOneSound
<1>4. PICK f \in [0 .. N -> Works] : IsIteration(f, N, base, step)
  <2> HIDE DEF step
  <2> QED BY <1>1, <1>2, <1>3, IterationExists
<1>5. \A i \in 1 .. N : f[i] = CutOne(f[i - 1])
  <2> SUFFICES ASSUME NEW i \in 1 .. N PROVE f[i] = CutOne(f[i - 1])
    OBVIOUS
  <2>1. i \in 0 .. N /\ i # 0 /\ f[i - 1] \in Works
    BY <1>1
  <2>2. f[i] = step[i][f[i - 1]]
    <3> HIDE DEF step
    <3> QED BY <1>4, <2>1 DEF IsIteration
  <2>3. step[i] = [w \in Works |-> CutOne(w)]
    OBVIOUS
  <2> QED BY <2>1, <2>2, <2>3
<1>6. f[0] = base
  BY <1>1, <1>4 DEF IsIteration
<1> HIDE DEF step
<1>7. f = F(f)
  BY <1>5, <1>6
<1> DEFINE g == CHOOSE h : h = F(h)
<1>8. g = F(g)
  BY <1>7
<1>9. Cut(buf) = g[N]
  BY DEF Cut, N, base
<1> HIDE DEF g
<1>10. g[0] = base /\ \A i \in 1 .. N : g[i] = CutOne(g[i - 1])
  BY <1>1, <1>8
<1>11. \A i \in 0 .. N : g[i] = f[i]
  <2>1. \A i \in 1 .. N : g[i - 1] = f[i - 1] => g[i] = f[i]
    BY <1>5, <1>10
  <2>2. g[0] = f[0]
    BY <1>6, <1>10
  <2>3. StaysEqual(g, f, N)
    BY <2>1, <2>2 DEF StaysEqual
  <2> QED BY <1>1, <2>3, SameIteration
<1>12. Cut(buf) = f[N]
  BY <1>1, <1>9, <1>11
<1> QED BY <1>5, <1>6, <1>12 DEF N, base

(* processBuffer cuts out every complete text and keeps the rest.          *)
LEMMA CutSound ==
  ASSUME NEW buf \in Texts
  PROVE  Cut(buf) \in Works /\ Reading(Cut(buf)) = Read(buf) /\ Finished(Cut(buf))
<1>0. PICK N \in Nat : N = Len(buf)
  BY DEF Texts
<1> DEFINE base == [rest |-> buf, texts |-> <<>>]
<1>1. PICK f \in [0 .. N -> Works] :
        f[0] = base /\ (\A i \in 1 .. N : f[i] = CutOne(f[i - 1])) /\ Cut(buf) = f[N]
  BY <1>0, CutIterates
<1>2. base \in Works /\ base.rest = buf /\ Reading(base) = Read(buf)
  BY ReadType, AfterEmpty DEF Reading, Works
<1> HIDE DEF base
<1> DEFINE Good(k) == /\ Reading(f[k]) = Read(buf)
                      /\ Finished(f[k]) \/ Len(f[k].rest) <= N - k
           T == {k \in Nat : k <= N => Good(k)}
<1>3. 0 \in T
  BY <1>0, <1>1, <1>2
<1>4. ASSUME NEW k \in Nat, k \in T, k + 1 <= N
      PROVE  Good(k + 1)
  <2>1. k \in 0 .. N /\ k + 1 \in 1 .. N /\ (k + 1) - 1 = k /\ Good(k)
    BY <1>4
  <2>2. f[k + 1] = CutOne(f[k]) /\ f[k] \in Works /\ f[k + 1] \in Works
    BY <1>1, <2>1
  <2>3. /\ Reading(CutOne(f[k])) = Reading(f[k])
        /\ Finished(CutOne(f[k])) \/ Len(CutOne(f[k]).rest) < Len(f[k].rest)
        /\ Finished(f[k]) => Finished(CutOne(f[k]))
    BY <2>2, CutOneSound
  <2>4. Len(f[k].rest) \in Nat /\ Len(f[k + 1].rest) \in Nat
    BY <2>2 DEF Works, Texts
  <2> QED BY <2>1, <2>2, <2>3, <2>4
<1>5. \A k \in Nat : k \in T => k + 1 \in T
  <2> HIDE DEF Good
  <2> QED BY <1>4
<1>6. Good(N)
  <2>1. Nat \subseteq T
    <3> HIDE DEF T
    <3> QED BY <1>3, <1>5, InductionOverNat
  <2> HIDE DEF Good
  <2> QED BY <2>1
<1>7. f[N] \in Works
  BY <1>1
<1>8. CASE Len(f[N].rest) <= N - N
  <2>1. f[N].rest = <<>>
    BY <1>7, <1>8 DEF Works, Texts
  <2>2. Finished(f[N])
    BY <2>1, ReadEmpty DEF Finished, Nothing
  <2> QED BY <1>1, <1>6, <1>7, <2>2
<1> QED BY <1>1, <1>6, <1>7, <1>8

-----------------------------------------------------------------------------
(* The events                                                              *)

Events == {EventOf(t) : t \in Texts}

(* The events after one more text.                                         *)
OneMore(s, t) == IF EventOf(t).type = <<"Alarm">> THEN Append(s, EventOf(t)) ELSE s

LEMMA AlarmsIterates ==
  ASSUME NEW u \in Seq(Texts)
  PROVE  \E f \in [0 .. Len(u) -> Seq(Events)] :
           /\ f[0] = <<>>
           /\ \A i \in 1 .. Len(u) : f[i] = OneMore(f[i - 1], u[i])
           /\ Alarms(u) = f[Len(u)]
<1> DEFINE N == Len(u)
           step == [i \in 1 .. N |-> [s \in Seq(Events) |-> OneMore(s, u[i])]]
           F(g) == [n \in 0 .. N |-> IF n = 0 THEN <<>> ELSE OneMore(g[n - 1], u[n])]
           base == <<>>
<1>1. N \in Nat /\ \A i \in 1 .. N : u[i] \in Texts
  <2> HIDE DEF Texts
  <2> QED BY Zenon, LenProperties, ElementOfSeq
<1>2. base \in Seq(Events)
  OBVIOUS
<1>3. ASSUME NEW s \in Seq(Events), NEW t \in Texts
      PROVE  OneMore(s, t) \in Seq(Events)
  <2>1. EventOf(t) \in Events
    BY DEF Events
  <2> HIDE DEF Events
  <2> QED BY <2>1 DEF OneMore
<1> HIDE DEF N, base
<1>4. step \in [1 .. N -> [Seq(Events) -> Seq(Events)]]
  BY <1>1, <1>3
<1>5. PICK f \in [0 .. N -> Seq(Events)] : IsIteration(f, N, base, step)
  <2> HIDE DEF step
  <2> QED BY <1>1, <1>2, <1>4, IterationExists
<1>6. \A i \in 1 .. N : f[i] = OneMore(f[i - 1], u[i])
  <2> SUFFICES ASSUME NEW i \in 1 .. N PROVE f[i] = OneMore(f[i - 1], u[i])
    OBVIOUS
  <2>1. i \in 0 .. N /\ i # 0 /\ f[i - 1] \in Seq(Events)
    BY <1>1
  <2>2. f[i] = step[i][f[i - 1]]
    <3> HIDE DEF step
    <3> QED BY <1>5, <2>1 DEF IsIteration
  <2>3. step[i] = [s \in Seq(Events) |-> OneMore(s, u[i])]
    OBVIOUS
  <2> QED BY <2>1, <2>2, <2>3
<1>7. f[0] = base
  BY <1>1, <1>5 DEF IsIteration
<1> HIDE DEF step
<1>8. f = F(f)
  BY <1>6, <1>7 DEF base
<1> DEFINE g == CHOOSE h : h = F(h)
<1>9. g = F(g)
  BY <1>8
<1>10. Alarms(u) = g[N]
  BY DEF Alarms, N, OneMore
<1> HIDE DEF g
<1>11. g[0] = base /\ \A i \in 1 .. N : g[i] = OneMore(g[i - 1], u[i])
  BY <1>1, <1>9 DEF base
<1>12. \A i \in 0 .. N : g[i] = f[i]
  <2>1. \A i \in 1 .. N : g[i - 1] = f[i - 1] => g[i] = f[i]
    BY <1>6, <1>11
  <2>2. g[0] = f[0]
    BY <1>7, <1>11
  <2>3. StaysEqual(g, f, N)
    BY <2>1, <2>2 DEF StaysEqual
  <2> QED BY <1>1, <2>3, SameIteration
<1>13. Alarms(u) = f[N]
  BY <1>1, <1>10, <1>12
<1> QED BY <1>6, <1>7, <1>13 DEF N, base

LEMMA AlarmsEmpty == Alarms(<<>>) = <<>>
<1>1. <<>> \in Seq(Texts) /\ Len(<<>>) = 0
  OBVIOUS
<1> QED BY <1>1, AlarmsIterates

LEMMA OneMoreType ==
  ASSUME NEW s \in Seq(Events), NEW t \in Texts
  PROVE  OneMore(s, t) \in Seq(Events)
<1>1. EventOf(t) \in Events
  BY DEF Events
<1> QED BY <1>1 DEF OneMore

LEMMA OneMoreAfter ==
  ASSUME NEW p \in Seq(Events), NEW q \in Seq(Events), NEW t \in Texts
  PROVE  OneMore(p \o q, t) = p \o OneMore(q, t)
<1>1. PICK x \in Events : x = EventOf(t)
  BY DEF Events
<1>2. Append(p \o q, x) = p \o Append(q, x)
  OBVIOUS
<1> QED BY <1>1, <1>2, Zenon DEF OneMore

LEMMA AlarmsAppend ==
  ASSUME NEW u \in Seq(Texts), NEW t \in Texts
  PROVE  Alarms(u) \in Seq(Events) /\ Alarms(Append(u, t)) = OneMore(Alarms(u), t)
<1>0. PICK n \in Nat : n = Len(u)
  OBVIOUS
<1> DEFINE v == Append(u, t)
<1>1. /\ v \in Seq(Texts) /\ Len(v) = n + 1 /\ v[n + 1] = t
      /\ \A i \in 1 .. n : v[i] = u[i]
  BY <1>0, AppendProperties
<1>2. PICK f : /\ f \in [0 .. n -> Seq(Events)]
               /\ f[0] = <<>>
               /\ \A i \in 1 .. n : f[i] = OneMore(f[i - 1], u[i])
               /\ Alarms(u) = f[n]
  BY <1>0, AlarmsIterates
<1> HIDE DEF v
<1>3. PICK g : /\ g[0] = <<>>
               /\ \A i \in 1 .. n + 1 : g[i] = OneMore(g[i - 1], v[i])
               /\ Alarms(v) = g[n + 1]
  BY <1>1, AlarmsIterates
<1>4. \A i \in 1 .. n : f[i - 1] = g[i - 1] => f[i] = g[i]
  <2>1. \A i \in 1 .. n : i \in 1 .. n + 1
    OBVIOUS
  <2> QED BY <1>1, <1>2, <1>3, <2>1
<1>5. \A i \in 0 .. n : f[i] = g[i]
  <2>1. f[0] = g[0]
    BY <1>2, <1>3
  <2>2. StaysEqual(f, g, n)
    BY <1>4, <2>1 DEF StaysEqual
  <2> QED BY <2>2, SameIteration
<1>6. g[n + 1] = OneMore(g[n], t)
  <2>1. n + 1 \in 1 .. n + 1 /\ (n + 1) - 1 = n
    OBVIOUS
  <2> QED BY <1>1, <1>3, <2>1
<1>7. f[n] = g[n] /\ f[n] \in Seq(Events)
  BY <1>2, <1>5
<1> QED BY <1>2, <1>3, <1>6, <1>7 DEF v

(* The events of texts, and of the texts after them.                       *)
LEMMA AlarmsConcat ==
  ASSUME NEW u \in Seq(Texts)
  PROVE  \A v \in Seq(Texts) : Alarms(u \o v) = Alarms(u) \o Alarms(v)
<1> DEFINE P == {v \in Seq(Texts) : Alarms(u \o v) = Alarms(u) \o Alarms(v)}
<1>0. Alarms(u) \in Seq(Events)
  <2>1. <<>> \in Texts
    BY DEF Texts
  <2> QED BY <2>1, AlarmsAppend
<1>1. <<>> \in P
  <2>1. u \o <<>> = u /\ Alarms(u) \o <<>> = Alarms(u) /\ <<>> \in Seq(Texts)
    BY <1>0, ConcatEmptySeq
  <2> QED BY <2>1, AlarmsEmpty
<1>2. ASSUME NEW v \in Seq(Texts), NEW t \in Texts, v \in P
      PROVE  Append(v, t) \in P
  <2>1. PICK w \in Seq(Texts) : w = u \o v
    BY ConcatProperties
  <2>2. Append(v, t) \in Seq(Texts)
    BY AppendProperties
  <2>3. u \o Append(v, t) = Append(u \o v, t)
    OBVIOUS
  <2>4. Alarms(Append(w, t)) = OneMore(Alarms(w), t)
    BY AlarmsAppend
  <2>5. Alarms(w) = Alarms(u) \o Alarms(v)
    BY <1>2, <2>1
  <2>6. Alarms(v) \in Seq(Events) /\ Alarms(Append(v, t)) = OneMore(Alarms(v), t)
    BY AlarmsAppend
  <2>7. OneMore(Alarms(u) \o Alarms(v), t) = Alarms(u) \o OneMore(Alarms(v), t)
    BY <1>0, <2>6, OneMoreAfter
  <2>8. Alarms(u \o Append(v, t)) = Alarms(u) \o Alarms(Append(v, t))
    BY <2>1, <2>3, <2>4, <2>5, <2>6, <2>7, Zenon
  <2> QED BY <2>2, <2>8
<1>3. Seq(Texts) \subseteq P
  <2>1. \A v \in Seq(Texts) : \A t \in Texts : v \in P => Append(v, t) \in P
    BY <1>2
  <2> HIDE DEF P
  <2> QED BY <1>1, <2>1, InductionOverSequences
<1> QED BY <1>3

-----------------------------------------------------------------------------
(* What has been cut out stands, with what waits in the buffer, for all    *)
(* that was received; the buffer holds no complete text.                   *)
TextInv ==
  /\ context \in Contexts
  /\ received \in Texts /\ buffer \in Texts /\ cut \in Seq(Texts)
  /\ Read(received) = After(cut, Read(buffer))
  /\ Read(buffer).out = <<>>
  /\ events = Alarms(cut)

LEMMA TextInvInit == TextInit => TextInv
<1> SUFFICES ASSUME TextInit PROVE TextInv
  OBVIOUS
<1>1. context \in Contexts /\ received = context.prefix /\ received \in Texts
  BY TextAssumption DEF TextInit, Texts
<1>2. PICK w \in Works : w = Cut(received) /\ Reading(w) = Read(received) /\ Finished(w)
  BY <1>1, CutSound
<1>3. buffer = w.rest /\ cut = w.texts /\ events = Alarms(cut)
  BY <1>1, <1>2 DEF TextInit
<1>4. w.rest \in Texts /\ w.texts \in Seq(Texts)
  BY DEF Works
<1> QED BY <1>1, <1>2, <1>3, <1>4 DEF TextInv, Reading, Finished

LEMMA TextInvReceive ==
  ASSUME TextInv, NEW piece \in Texts, Receive(piece)
  PROVE  TextInv'
<1>1. /\ context \in Contexts /\ received \in Texts /\ buffer \in Texts
      /\ cut \in Seq(Texts) /\ events = Alarms(cut)
      /\ Read(received) = After(cut, Read(buffer))
  BY DEF TextInv
<1>2. received \o piece \in Texts /\ buffer \o piece \in Texts
  BY <1>1, ConcatProperties DEF Texts
<1>3. PICK w \in Works :
        w = Cut(buffer \o piece) /\ Reading(w) = Read(buffer \o piece) /\ Finished(w)
  BY <1>2, CutSound
<1>4. w.rest \in Texts /\ w.texts \in Seq(Texts) /\ Read(w.rest) \in Readings
  BY ReadType DEF Works
<1>5. /\ received' = received \o piece /\ buffer' = w.rest /\ cut' = cut \o w.texts
      /\ events' = events \o Alarms(w.texts) /\ context' = context
  BY <1>3 DEF Receive
<1>6. cut' \in Seq(Texts)
  BY <1>1, <1>4, <1>5, ConcatProperties
<1>7. Read(received') = After(cut', Read(buffer'))
  <2>1. Read(received \o piece) = After(cut, Read(buffer \o piece))
    BY <1>1, ReadAfter
  <2>2. Read(buffer \o piece) = After(w.texts, Read(w.rest))
    BY <1>3 DEF Reading
  <2>3. After(cut, After(w.texts, Read(w.rest))) = After(cut \o w.texts, Read(w.rest))
    BY <1>1, <1>4, AfterAfter
  <2> QED BY <1>5, <2>1, <2>2, <2>3
<1>8. events' = Alarms(cut')
  BY <1>1, <1>4, <1>5, AlarmsConcat
<1>9. Read(buffer').out = <<>>
  BY <1>3, <1>5 DEF Finished
<1>10. received' \in Texts /\ buffer' \in Texts /\ context' \in Contexts
  BY <1>1, <1>2, <1>4, <1>5
<1> QED BY <1>6, <1>7, <1>8, <1>9, <1>10 DEF TextInv

LEMMA TextInvNext == TextInv /\ [TextNext]_textVars => TextInv'
<1> SUFFICES ASSUME TextInv, [TextNext]_textVars PROVE TextInv'
  OBVIOUS
<1>1. context \in Contexts
  BY DEF TextInv
<1>2. CASE ReceivePiece
  <2>1. PICK n \in 1 .. MaxPiece : \E piece \in [1 .. n -> context.alphabet] : Receive(piece)
    BY <1>2 DEF ReceivePiece
  <2>2. PICK piece \in [1 .. n -> context.alphabet] : Receive(piece)
    BY <2>1
  <2>3. n \in Nat /\ context.alphabet \subseteq Token
    BY <1>1, TextAssumption
  <2>4. piece \in Texts
    BY <2>3 DEF Texts
  <2> QED BY <2>2, <2>4, TextInvReceive
<1>3. CASE ReceiveSuffix
  <2>1. context.suffix \in Texts /\ Receive(context.suffix)
    BY <1>1, <1>3, TextAssumption DEF ReceiveSuffix, Texts
  <2> QED BY <2>1, TextInvReceive
<1>4. CASE UNCHANGED textVars
  BY <1>4 DEF TextInv, textVars
<1> QED BY <1>2, <1>3, <1>4 DEF TextNext

(* However a connection splits a text, processBuffer cuts out of it the    *)
(* messages that one pass over the whole text finds, and reports their     *)
(* alarms in that order (alarm_server.cpp:82-117).                         *)
THEOREM PiecesDoNotMatterHolds == TextSpec => []PiecesDoNotMatter
<1>1. TextInv => PiecesDoNotMatter
  <2> SUFFICES ASSUME TextInv PROVE PiecesDoNotMatter
    OBVIOUS
  <2>1. /\ buffer \in Texts /\ cut \in Seq(Texts) /\ events = Alarms(cut)
        /\ Read(received) = After(cut, Read(buffer)) /\ Read(buffer).out = <<>>
    BY DEF TextInv
  <2>2. Read(buffer) \in Readings
    BY <2>1, ReadType
  <2>3. Read(received).out = cut \o <<>>
    BY <2>1, <2>2 DEF After, Readings
  <2>4. cut \o <<>> = cut
    BY <2>1, ConcatEmptySeq
  <2> QED BY <2>1, <2>3, <2>4 DEF PiecesDoNotMatter, TextsIn
<1> QED BY <1>1, TextInvInit, TextInvNext, PTL DEF TextSpec

=============================================================================
