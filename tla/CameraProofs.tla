----------------------------- MODULE CameraProofs -----------------------------
(***************************************************************************)
(* Proofs about one camera.  First the pre-buffer: what its recursive      *)
(* definitions compute for windows of any length, and from it that the     *)
(* counters stay right, that all three limits are kept, and that trimming  *)
(* keeps the newest GOPs.  Then RecordingSession, for every value of its   *)
(* constants: any number of events, chunks and packets, every              *)
(* configuration and every failure of the muxer.  Last CameraNode: the     *)
(* node uses its session as RecordingSession requires, so everything       *)
(* proved about the session holds in the node, and a clean stop leaves no  *)
(* recording open.                                                         *)
(***************************************************************************)
EXTENDS CameraNode, Induction, SequenceTheorems

-----------------------------------------------------------------------------
(* The bytes of a sequence of packets                                      *)

Packets == Seq(Packet)

LEMMA SamePackets ==
  ASSUME NEW s \in Packets, NEW t \in Packets,
         Len(s) = Len(t), \A i \in 1 .. Len(s) : s[i] = t[i]
  PROVE  s = t
  BY SeqEqual DEF Packets

LEMMA PacketType ==
  ASSUME NEW p \in Packet
  PROVE  p.size \in Nat /\ p.size > 0 /\ p.key \in BOOLEAN
<1>1. p.size \in Sizes /\ p.key \in BOOLEAN
  BY DEF Packet
<1>2. \A x \in Sizes : x \in Nat /\ x > 0
  BY BufferAssumption
<1> QED BY <1>1, <1>2

(* SizeOf is the last of the sums over the prefixes.                       *)
LEMMA SizeIsSum ==
  ASSUME NEW s \in Packets
  PROVE  \E f \in [0 .. Len(s) -> Nat] :
           /\ f[0] = 0
           /\ \A i \in 1 .. Len(s) : f[i] = f[i - 1] + s[i].size
           /\ SizeOf(s) = f[Len(s)]
<1> DEFINE step == [i \in 1 .. Len(s) |-> [x \in Nat |-> x + s[i].size]]
<1>1. Len(s) \in Nat /\ \A i \in 1 .. Len(s) : s[i].size \in Nat
  BY PacketType DEF Packets
<1>2. step \in [1 .. Len(s) -> [Nat -> Nat]]
  BY <1>1
<1>3. PICK f \in [0 .. Len(s) -> Nat] : IsIteration(f, Len(s), 0, step)
  <2> HIDE DEF step
  <2> QED BY <1>1, <1>2, IterationExists
<1>4. ASSUME NEW i \in 0 .. Len(s), i # 0
      PROVE  step[i][f[i - 1]] = f[i - 1] + s[i].size
  <2>1. i \in 1 .. Len(s) /\ i - 1 \in 0 .. Len(s)
    BY <1>1, <1>4
  <2>2. f[i - 1] \in Nat
    BY <2>1
  <2> QED BY <2>1, <2>2
<1>5. f = [i \in 0 .. Len(s) |-> IF i = 0 THEN 0 ELSE f[i - 1] + s[i].size]
  <2>1. f = [i \in 0 .. Len(s) |-> IF i = 0 THEN 0 ELSE step[i][f[i - 1]]]
    BY <1>3 DEF IsIteration
  <2> HIDE DEF step
  <2> QED BY <1>4, <2>1
<1> DEFINE g == CHOOSE upto : upto = [n \in 0 .. Len(s) |->
                                        IF n = 0 THEN 0 ELSE upto[n - 1] + s[n].size]
<1>6. g = [n \in 0 .. Len(s) |-> IF n = 0 THEN 0 ELSE g[n - 1] + s[n].size]
  BY <1>5
<1>7. SizeOf(s) = g[Len(s)]
  BY DEF SizeOf
<1> HIDE DEF g
<1>8. g[0] = 0 /\ \A i \in 1 .. Len(s) : g[i] = g[i - 1] + s[i].size
  BY <1>1, <1>6
<1>9. g \in [0 .. Len(s) -> Nat]
  <2> DEFINE T == {n \in Nat : n <= Len(s) => g[n] \in Nat}
  <2>1. 0 \in T
    BY <1>8
  <2>2. ASSUME NEW n \in Nat, n \in T
        PROVE  n + 1 \in T
    BY <1>1, <1>8, <2>2
  <2>3. Nat \subseteq T
    <3> HIDE DEF T
    <3> QED BY <2>1, <2>2, InductionOverNat
  <2>4. \A n \in 0 .. Len(s) : g[n] \in Nat
    BY <1>1, <2>3
  <2> QED BY <1>6, <2>4
<1> QED BY <1>7, <1>8, <1>9

(* The bytes of two parts are the bytes of the whole.                      *)
LEMMA SizeSplit ==
  ASSUME NEW s \in Packets, NEW n \in 0 .. Len(s)
  PROVE  SizeOf(s) = SizeOf(SubSeq(s, 1, n)) + SizeOf(SubSeq(s, n + 1, Len(s)))
<1> DEFINE a == SubSeq(s, 1, n)
           b == SubSeq(s, n + 1, Len(s))
<1>1. /\ a \in Packets /\ Len(a) = n /\ \A i \in 1 .. n : a[i] = s[i]
      /\ b \in Packets /\ Len(b) = Len(s) - n /\ \A i \in 1 .. Len(b) : b[i] = s[n + i]
  <2>1. a \in Packets /\ Len(a) = n /\ \A i \in 1 .. n : a[i] = s[i]
    BY DEF Packets
  <2>2. b \in Packets /\ Len(b) = Len(s) - n
    BY DEF Packets
  <2>3. \A i \in 1 .. Len(s) - n : b[i] = s[n + i]
    BY DEF Packets
  <2> HIDE DEF a, b
  <2> QED BY <2>1, <2>2, <2>3
<1>2. PICK f \in [0 .. Len(s) -> Nat] :
        /\ f[0] = 0
        /\ \A i \in 1 .. Len(s) : f[i] = f[i - 1] + s[i].size
        /\ SizeOf(s) = f[Len(s)]
  BY SizeIsSum
<1>3. PICK g \in [0 .. Len(a) -> Nat] :
        /\ g[0] = 0
        /\ \A i \in 1 .. Len(a) : g[i] = g[i - 1] + a[i].size
        /\ SizeOf(a) = g[Len(a)]
  BY <1>1, SizeIsSum
<1>4. PICK h \in [0 .. Len(b) -> Nat] :
        /\ h[0] = 0
        /\ \A i \in 1 .. Len(b) : h[i] = h[i - 1] + b[i].size
        /\ SizeOf(b) = h[Len(b)]
  BY <1>1, SizeIsSum
<1> HIDE DEF a, b
<1>5. Len(s) \in Nat /\ n \in Nat /\ n <= Len(s)
  BY DEF Packets
<1> DEFINE T == {i \in Nat : i <= n => g[i] = f[i]}
           U == {i \in Nat : i <= Len(b) => f[n + i] = f[n] + h[i]}
<1>6. n \in T
  <2>1. 0 \in T
    BY <1>2, <1>3
  <2>2. ASSUME NEW i \in Nat, i \in T, i + 1 <= n
        PROVE  g[i + 1] = f[i + 1]
    <3>1. i + 1 \in 1 .. Len(s) /\ i + 1 \in 1 .. Len(a) /\ i + 1 \in 1 .. n
      BY <1>1, <1>5, <2>2
    <3>2. (i + 1) - 1 = i /\ g[i] = f[i]
      BY <1>5, <2>2
    <3>3. g[i + 1] = g[i] + a[i + 1].size
      BY <1>3, <3>1, <3>2
    <3>4. f[i + 1] = f[i] + s[i + 1].size
      BY <1>2, <3>1, <3>2
    <3> QED BY <1>1, <3>1, <3>2, <3>3, <3>4
  <2>3. \A i \in Nat : i \in T => i + 1 \in T
    BY <2>2
  <2> HIDE DEF T
  <2>4. Nat \subseteq T
    BY <2>1, <2>3, InductionOverNat
  <2> QED BY <1>5, <2>4
<1>7. Len(b) \in U
  <2>1. 0 \in U
    BY <1>2, <1>4, <1>5
  <2>2. ASSUME NEW i \in Nat, i \in U, i + 1 <= Len(b)
        PROVE  f[n + (i + 1)] = f[n] + h[i + 1]
    <3>1. i + 1 \in 1 .. Len(b) /\ n + (i + 1) \in 1 .. Len(s) /\ i \in 0 .. Len(b)
      BY <1>1, <1>5, <2>2
    <3>2. f[n + (i + 1)] = f[n + i] + s[n + (i + 1)].size
      <4>1. (n + (i + 1)) - 1 = n + i
        BY <1>5
      <4> QED BY <1>2, <3>1, <4>1
    <3>3. h[i + 1] = h[i] + b[i + 1].size
      <4>1. (i + 1) - 1 = i
        OBVIOUS
      <4> QED BY <1>4, <3>1, <4>1
    <3>4. b[i + 1] = s[n + (i + 1)] /\ b[i + 1].size \in Nat
      BY <1>1, <3>1, PacketType DEF Packets
    <3>5. f[n + i] = f[n] + h[i]
      BY <2>2
    <3>6. f[n] \in Nat /\ h[i] \in Nat
      BY <1>5, <3>1
    <3> QED BY <3>2, <3>3, <3>4, <3>5, <3>6
  <2>3. \A i \in Nat : i \in U => i + 1 \in U
    BY <2>2
  <2>4. Len(b) \in Nat
    BY <1>1, <1>5
  <2> HIDE DEF U
  <2> QED BY <2>1, <2>3, <2>4, InductionOverNat
<1>8. g[n] = f[n] /\ f[n + Len(b)] = f[n] + h[Len(b)] /\ n + Len(b) = Len(s)
  BY <1>1, <1>5, <1>6, <1>7
<1>9. SizeOf(s) = SizeOf(a) + SizeOf(b)
  BY <1>1, <1>2, <1>3, <1>4, <1>8
<1> QED BY <1>9 DEF a, b

LEMMA SizeEmpty == SizeOf(<<>>) = 0
<1>1. <<>> \in Packets /\ Len(<<>>) = 0
  BY DEF Packets
<1> QED BY <1>1, SizeIsSum

LEMMA SizeInNat ==
  ASSUME NEW s \in Packets
  PROVE  SizeOf(s) \in Nat
<1>1. Len(s) \in Nat
  BY DEF Packets
<1> QED BY <1>1, SizeIsSum

LEMMA SizeAppend ==
  ASSUME NEW s \in Packets, NEW p \in Packet
  PROVE  SizeOf(Append(s, p)) = SizeOf(s) + p.size
<1> DEFINE t == Append(s, p)
<1>1. t \in Packets /\ Len(t) = Len(s) + 1 /\ Len(s) \in 0 .. Len(t)
  BY DEF Packets
<1> DEFINE u == SubSeq(t, 1, Len(s))
           v == SubSeq(t, Len(s) + 1, Len(t))
<1>2. u = s /\ v = <<p>>
  <2>1. u \in Packets /\ Len(u) = Len(s) /\ \A i \in 1 .. Len(u) : u[i] = s[i]
    BY <1>1 DEF Packets
  <2>2. v \in Packets /\ Len(v) = 1 /\ v[1] = p
    BY <1>1 DEF Packets
  <2> DEFINE w == <<p>>
  <2>3. w \in Packets /\ Len(w) = 1 /\ w[1] = p
    BY DEF Packets
  <2> HIDE DEF t, u, v, w
  <2>4. u = s
    BY <2>1, SamePackets
  <2>5. v = w
    BY <2>2, <2>3, SamePackets
  <2> QED BY <2>4, <2>5 DEF w
<1>3. SizeOf(<<p>>) = p.size
  <2>1. <<p>> \in Packets /\ Len(<<p>>) = 1 /\ <<p>>[1] = p
    BY DEF Packets
  <2>2. PICK f \in [0 .. 1 -> Nat] :
          /\ f[0] = 0
          /\ \A i \in 1 .. 1 : f[i] = f[i - 1] + <<p>>[i].size
          /\ SizeOf(<<p>>) = f[1]
    BY <2>1, SizeIsSum
  <2>3. f[1] = f[1 - 1] + p.size
    BY <2>1, <2>2
  <2> QED BY <2>2, <2>3, PacketType
<1> HIDE DEF t
<1>4. SizeOf(t) = SizeOf(u) + SizeOf(v)
  BY <1>1, SizeSplit
<1> QED BY <1>2, <1>3, <1>4 DEF t

-----------------------------------------------------------------------------
(* The keyframes of a sequence of packets                                  *)

LEMMA KeysRange ==
  ASSUME NEW s \in Packets
  PROVE  KeyIndices(s) \subseteq 1 .. Len(s) /\ Len(s) \in Nat
  BY DEF KeyIndices, Packets

LEMMA KeysFinite ==
  ASSUME NEW s \in Packets, NEW K, K \subseteq KeyIndices(s)
  PROVE  IsFiniteSet(K) /\ Cardinality(K) \in Nat
<1>1. KeyIndices(s) \subseteq 1 .. Len(s) /\ Len(s) \in Nat
  BY KeysRange
<1>2. IsFiniteSet(1 .. Len(s))
  BY <1>1, FS_Interval
<1>3. IsFiniteSet(K)
  BY <1>1, <1>2, FS_Subset
<1> QED BY <1>1, <1>3, FS_CardinalityType

(* The keyframes from some index on, and before it.                        *)
LEMMA KeysParted ==
  ASSUME NEW s \in Packets, NEW n \in Int
  PROVE  Cardinality(KeyIndices(s)) = Cardinality({i \in KeyIndices(s) : i <= n})
                                      + Cardinality({i \in KeyIndices(s) : i > n})
<1> DEFINE A == {i \in KeyIndices(s) : i <= n}
           B == {i \in KeyIndices(s) : i > n}
<1>1. IsFiniteSet(A) /\ IsFiniteSet(B) /\ Cardinality(A) \in Nat /\ Cardinality(B) \in Nat
  BY KeysFinite
<1>2. KeyIndices(s) \subseteq Int
  BY DEF KeyIndices, Packets
<1>3. A \cup B = KeyIndices(s) /\ A \cap B = {}
  BY <1>2
<1> HIDE DEF A, B
<1>4. Cardinality(A \cup B) = Cardinality(A) + Cardinality(B) - Cardinality(A \cap B)
  BY <1>1, FS_Union
<1>5. Cardinality(A \cap B) = 0
  BY <1>3, FS_EmptySet
<1>6. Cardinality(A \cup B) = Cardinality(A) + Cardinality(B)
  BY <1>1, <1>4, <1>5
<1>7. Cardinality(KeyIndices(s)) = Cardinality(A) + Cardinality(B)
  BY <1>3, <1>6
<1> QED BY <1>7 DEF A, B

(* The keyframes of a suffix are those after its beginning, moved.         *)
LEMMA KeysOfSuffix ==
  ASSUME NEW s \in Packets, NEW n \in 0 .. Len(s), NEW m \in Nat
  PROVE  LET t == SubSeq(s, n + 1, Len(s)) IN
         /\ KeyIndices(t) = {i \in 1 .. Len(s) - n : n + i \in KeyIndices(s)}
         /\ Cardinality({i \in KeyIndices(t) : i >= m})
              = Cardinality({i \in KeyIndices(s) : i >= n + m /\ i > n})
<1> DEFINE t == SubSeq(s, n + 1, Len(s))
           A == {i \in KeyIndices(t) : i >= m}
           B == {i \in KeyIndices(s) : i >= n + m /\ i > n}
<1>1. /\ Len(s) \in Nat /\ n \in Nat /\ t \in Packets /\ DOMAIN t = 1 .. Len(s) - n
      /\ \A i \in 1 .. Len(s) - n : t[i] = s[n + i]
  BY DEF Packets
<1>2. DOMAIN s = 1 .. Len(s)
  BY DEF Packets
<1>3. KeyIndices(t) = {i \in 1 .. Len(s) - n : n + i \in KeyIndices(s)}
  <2> HIDE DEF t
  <2>1. \A i \in 1 .. Len(s) - n : n + i \in 1 .. Len(s)
    BY <1>1
  <2> QED BY <1>1, <1>2, <2>1 DEF KeyIndices
<1> HIDE DEF t
<1> DEFINE f == [i \in A |-> n + i]
<1>4. A \subseteq 1 .. Len(s) - n /\ B \subseteq 1 .. Len(s)
  BY <1>2, <1>3 DEF KeyIndices
<1>5. f \in [A -> B]
  <2>1. \A i \in A : n + i \in B
    BY <1>1, <1>3, <1>4
  <2> QED BY <2>1
<1>6. \A x, y \in A : f[x] = f[y] => x = y
  BY <1>1, <1>4
<1>7. \A j \in B : \E i \in A : f[i] = j
  <2> SUFFICES ASSUME NEW j \in B
               PROVE  \E i \in A : f[i] = j
    OBVIOUS
  <2>1. j \in 1 .. Len(s) /\ j >= n + m /\ j > n /\ j \in KeyIndices(s)
    BY <1>4
  <2>2. j - n \in 1 .. Len(s) - n /\ n + (j - n) = j /\ j - n >= m
    BY <1>1, <2>1
  <2>3. j - n \in A
    BY <1>3, <2>1, <2>2
  <2> QED BY <2>2, <2>3
<1>8. IsFiniteSet(A)
  BY <1>1, KeysFinite
<1>9. Cardinality(A) = Cardinality(B)
  <2> HIDE DEF A, B, f
  <2> QED BY <1>5, <1>6, <1>7, <1>8, SameCardinality
<1> QED BY <1>3, <1>9 DEF t

LEMMA KeysAppend ==
  ASSUME NEW s \in Packets, NEW p \in Packet
  PROVE  Cardinality(KeyIndices(Append(s, p)))
           = Cardinality(KeyIndices(s)) + (IF p.key THEN 1 ELSE 0)
<1> DEFINE t == Append(s, p)
<1>1. /\ Len(s) \in Nat /\ DOMAIN s = 1 .. Len(s) /\ DOMAIN t = 1 .. Len(s) + 1
      /\ \A i \in 1 .. Len(s) : t[i] = s[i]
      /\ t[Len(s) + 1] = p
  BY DEF Packets
<1> HIDE DEF t
<1>2. IsFiniteSet(KeyIndices(s)) /\ KeyIndices(s) \subseteq 1 .. Len(s)
  BY KeysFinite, KeysRange
<1>3. Len(s) + 1 \notin KeyIndices(s)
  BY <1>1, <1>2
<1>4. CASE p.key
  <2>1. KeyIndices(t) = KeyIndices(s) \cup {Len(s) + 1}
    BY <1>1, <1>4 DEF KeyIndices
  <2>2. Cardinality(KeyIndices(s) \cup {Len(s) + 1}) = Cardinality(KeyIndices(s)) + 1
    BY <1>2, <1>3, FS_AddElement
  <2> QED BY <1>4, <2>1, <2>2 DEF t
<1>5. CASE ~p.key
  <2>1. KeyIndices(t) = KeyIndices(s)
    BY <1>1, <1>5 DEF KeyIndices
  <2>2. Cardinality(KeyIndices(s)) \in Nat
    BY KeysFinite
  <2> QED BY <1>5, <2>1, <2>2 DEF t
<1> QED BY <1>4, <1>5

(* The least and the greatest of some numbers are among them.              *)
LEMMA MinOfNumbers ==
  ASSUME NEW S, S \subseteq Nat, S # {}
  PROVE  Min(S) \in S /\ \A n \in S : Min(S) <= n
<1>1. \E m \in S : \A n \in S : m <= n
  BY LeastNumber
<1> QED BY <1>1 DEF Min

LEMMA MaxOfTwo ==
  ASSUME NEW i \in Int, NEW j \in Int
  PROVE  Max({i, j}) = IF i <= j THEN j ELSE i
  BY DEF Max

-----------------------------------------------------------------------------
(* Dropping packets from the front                                         *)

Window == [pkts : Packets, iframes : Nat, bytes : Nat]

Sound(b) ==
  /\ b \in Window
  /\ b.iframes = Cardinality(KeyIndices(b.pkts))
  /\ b.bytes = SizeOf(b.pkts)

(* However many packets are popped, the counters go down by what they      *)
(* stood for and never below zero.                                         *)
LEMMA DropFrontSound ==
  ASSUME NEW b, Sound(b), NEW n \in 0 .. Len(b.pkts)
  PROVE  /\ Sound(DropFront(b, n))
         /\ Len(DropFront(b, n).pkts) = Len(b.pkts) - n
         /\ DropFront(b, n).iframes <= b.iframes
         /\ DropFront(b, n).bytes <= b.bytes
<1> DEFINE s == b.pkts
           t == SubSeq(s, n + 1, Len(s))
           u == SubSeq(s, 1, n)
           old == {i \in KeyIndices(s) : i <= n}
<1>1. b \in Window /\ b.iframes = Cardinality(KeyIndices(s)) /\ b.bytes = SizeOf(s)
  BY DEF Sound
<1>2. s \in Packets /\ b.iframes \in Nat /\ b.bytes \in Nat /\ n \in 0 .. Len(s)
  BY <1>1 DEF Window
<1>3. t \in Packets /\ u \in Packets /\ Len(t) = Len(s) - n
  BY <1>2 DEF Packets
<1>4. DropFront(b, n) = [pkts |-> t, iframes |-> b.iframes - Cardinality(old),
                         bytes |-> b.bytes - SizeOf(u)]
  BY DEF DropFront
<1>5. Cardinality(KeyIndices(t)) = b.iframes - Cardinality(old)
  <2> DEFINE new == {i \in KeyIndices(s) : i > n}
             A == {i \in KeyIndices(t) : i >= 0}
             B == {i \in KeyIndices(s) : i >= n + 0 /\ i > n}
  <2>1. n \in Int /\ 0 \in Nat
    BY <1>2 DEF Packets
  <2>2. A = KeyIndices(t) /\ B = new
    <3>1. KeyIndices(t) \subseteq 1 .. Len(t) /\ Len(t) \in Nat
      BY <1>3, KeysRange
    <3>2. KeyIndices(s) \subseteq 1 .. Len(s) /\ Len(s) \in Nat
      BY <1>2, KeysRange
    <3> HIDE DEF s, t
    <3> QED BY <2>1, <3>1, <3>2
  <2>3. Cardinality(A) = Cardinality(B)
    <3> HIDE DEF s
    <3> QED BY <1>2, <2>1, KeysOfSuffix
  <2>4. Cardinality(KeyIndices(s)) = Cardinality(old) + Cardinality(new)
    <3> HIDE DEF s
    <3> QED BY <1>2, <2>1, KeysParted
  <2>5. Cardinality(old) \in Nat /\ Cardinality(new) \in Nat
    <3> HIDE DEF s
    <3>1. old \subseteq KeyIndices(s) /\ new \subseteq KeyIndices(s)
      OBVIOUS
    <3> HIDE DEF old, new
    <3> QED BY <1>2, <3>1, KeysFinite
  <2>6. Cardinality(KeyIndices(t)) = Cardinality(new)
    BY <2>2, <2>3
  <2> HIDE DEF s, t, old, new, A, B
  <2> QED BY <1>1, <2>4, <2>5, <2>6
<1>6. SizeOf(t) = b.bytes - SizeOf(u)
  <2> HIDE DEF s
  <2>1. SizeOf(s) = SizeOf(u) + SizeOf(t)
    BY <1>2, SizeSplit
  <2>2. SizeOf(u) \in Nat /\ SizeOf(t) \in Nat
    BY <1>3, SizeInNat
  <2> HIDE DEF t, u
  <2> QED BY <1>1, <2>1, <2>2
<1>7. Cardinality(KeyIndices(t)) \in Nat /\ Cardinality(old) \in Nat
  <2>1. old \subseteq KeyIndices(s)
    OBVIOUS
  <2> HIDE DEF s, t, old
  <2> QED BY <1>2, <1>3, <2>1, KeysFinite
<1>8. SizeOf(t) \in Nat /\ SizeOf(u) \in Nat
  BY <1>3, SizeInNat
<1> HIDE DEF s, t, u, old
<1>9. DropFront(b, n) \in Window
  BY <1>3, <1>4, <1>5, <1>6, <1>7, <1>8 DEF Window
<1> QED BY <1>2, <1>3, <1>4, <1>5, <1>6, <1>7, <1>8, <1>9 DEF Sound, s

-----------------------------------------------------------------------------
(* Dropping the oldest GOP                                                 *)

(* The first two keyframes of a window that has two.                       *)
LEMMA SecondKeyframe ==
  ASSUME NEW s \in Packets, KeyIndices(s) # {},
         KeyIndices(s) # {Min(KeyIndices(s))}
  PROVE  LET K  == KeyIndices(s)
             k1 == Min(K)
             k2 == Min(K \ {k1})
         IN  /\ k1 \in K /\ k2 \in K /\ k1 < k2
             /\ \A i \in K : i = k1 \/ i >= k2
             /\ Cardinality({i \in K : i >= k2}) = Cardinality(K) - 1
<1> DEFINE K  == KeyIndices(s)
           k1 == Min(K)
           L  == K \ {k1}
           k2 == Min(L)
<1>1. K \subseteq Nat /\ K # {} /\ K # {k1}
  BY KeysRange
<1>2. IsFiniteSet(K)
  BY KeysFinite
<1> HIDE DEF K
<1>3. k1 \in K /\ \A i \in K : k1 <= i
  BY <1>1, MinOfNumbers
<1> HIDE DEF k1
<1>4. L \subseteq Nat /\ L # {}
  BY <1>1, <1>3
<1> HIDE DEF L
<1>5. k2 \in L /\ \A i \in L : k2 <= i
  BY <1>4, MinOfNumbers
<1> HIDE DEF k2
<1>6. k2 \in K /\ k1 < k2
  BY <1>1, <1>3, <1>5 DEF L
<1>7. \A i \in K : i = k1 \/ i >= k2
  BY <1>1, <1>5, <1>6 DEF L
<1>8. {i \in K : i >= k2} = L
  <2>1. ~(k1 >= k2)
    BY <1>1, <1>3, <1>6
  <2> QED BY <1>7, <2>1 DEF L
<1>9. Cardinality(L) = Cardinality(K) - 1
  BY <1>2, <1>3, FS_RemoveElement DEF L
<1> QED BY <1>3, <1>6, <1>7, <1>8, <1>9 DEF K, k1, k2, L

(* drop_oldest_gop_from_pre_buffer removes at least one packet and never   *)
(* more than there are, whatever the keyframes.                            *)
LEMMA OldestGopRange ==
  ASSUME NEW s \in Packets, s # <<>>
  PROVE  OldestGop(s) \in 1 .. Len(s)
<1>1. Len(s) \in Nat /\ Len(s) > 0
  BY DEF Packets
<1>2. CASE KeyIndices(s) = {}
  <2>1. OldestGop(s) = Max({1, Len(s) \div 4})
    BY <1>2 DEF OldestGop
  <2>2. Len(s) \div 4 \in Int /\ Len(s) \div 4 <= Len(s)
    BY <1>1
  <2>3. Max({1, Len(s) \div 4}) = IF 1 <= Len(s) \div 4 THEN Len(s) \div 4 ELSE 1
    BY <2>2, MaxOfTwo
  <2> QED BY <1>1, <2>1, <2>2, <2>3
<1>3. CASE KeyIndices(s) # {} /\ KeyIndices(s) = {Min(KeyIndices(s))}
  BY <1>1, <1>3 DEF OldestGop
<1>4. CASE KeyIndices(s) # {} /\ KeyIndices(s) # {Min(KeyIndices(s))}
  <2> DEFINE K  == KeyIndices(s)
             k1 == Min(K)
             k2 == Min(K \ {k1})
  <2>1. OldestGop(s) = k2 - 1
    BY <1>4 DEF OldestGop
  <2>2. k1 \in K /\ k2 \in K /\ k1 < k2
    BY <1>4, SecondKeyframe
  <2>3. K \subseteq 1 .. Len(s)
    BY KeysRange
  <2> HIDE DEF K, k1, k2
  <2> QED BY <1>1, <2>1, <2>2, <2>3
<1> QED BY <1>2, <1>3, <1>4

LEMMA DropOldestGopSound ==
  ASSUME NEW b, Sound(b)
  PROVE  LET d == DropOldestGop(b) IN
         /\ Sound(d)
         /\ d.iframes <= b.iframes
         /\ d.bytes <= b.bytes
         /\ b.pkts = <<>> \/ Len(d.pkts) < Len(b.pkts)
         /\ Len(d.pkts) <= Len(b.pkts)
<1>1. b.pkts \in Packets /\ b.iframes \in Nat /\ b.bytes \in Nat /\ Len(b.pkts) \in Nat
  BY DEF Sound, Window, Packets
<1>2. CASE b.pkts = <<>>
  BY <1>1, <1>2 DEF DropOldestGop
<1>3. CASE b.pkts # <<>>
  <2> DEFINE n == OldestGop(b.pkts)
  <2>1. n \in 1 .. Len(b.pkts)
    BY <1>1, <1>3, OldestGopRange
  <2>2. DropOldestGop(b) = DropFront(b, n)
    BY <1>3 DEF DropOldestGop
  <2> HIDE DEF n
  <2>3. n \in 0 .. Len(b.pkts)
    BY <1>1, <2>1
  <2> QED BY <1>1, <2>1, <2>2, <2>3, DropFrontSound
<1> QED BY <1>2, <1>3

(***************************************************************************)
(* Dropping the oldest GOP of a window with more than n keyframes does not *)
(* change what follows its n-th newest keyframe.                           *)
(***************************************************************************)
LEMMA DropKeepsNewest ==
  ASSUME NEW s \in Packets, NEW n \in Nat, Cardinality(KeyIndices(s)) > n
  PROVE  NewestGops(SubSeq(s, OldestGop(s) + 1, Len(s)), n) = NewestGops(s, n)
<1> DEFINE K == KeyIndices(s)
           From(i) == {j \in K : j >= i}
           first == {i \in K : Cardinality(From(i)) <= n}
<1>1. K \subseteq 1 .. Len(s) /\ Len(s) \in Nat
  BY KeysRange
<1>2. K # {} /\ Cardinality(K) \in Nat
  BY KeysFinite, FS_EmptySet
<1>3. NewestGops(s, n) = IF first = {} THEN <<>> ELSE SubSeq(s, Min(first), Len(s))
  <2>1. ~(Cardinality(K) <= n)
    BY <1>2
  <2> QED BY <2>1 DEF NewestGops
<1>4. CASE K = {Min(K)}
  <2>1. OldestGop(s) = Len(s)
    BY <1>2, <1>4 DEF OldestGop
  <2> DEFINE t == SubSeq(s, Len(s) + 1, Len(s))
  <2>2. t = <<>>
    BY <1>1, SubSeqEmpty
  <2>3. NewestGops(t, n) = <<>>
    <3>1. KeyIndices(<<>>) = {}
      BY DEF KeyIndices
    <3>2. Cardinality({}) <= n
      BY FS_EmptySet
    <3> QED BY <2>2, <3>1, <3>2 DEF NewestGops
  <2>4. first = {}
    <3> DEFINE k == Min(K)
    <3>1. Cardinality(K) = 1
      BY <1>4, FS_Singleton
    <3>2. \A i \in K : From(i) = K
      <4>1. K = {k}
        BY <1>4
      <4>2. k \in 1 .. Len(s)
        BY <1>1, <4>1
      <4> HIDE DEF K, k
      <4> QED BY <1>1, <4>1, <4>2
    <3>3. n = 0
      BY <3>1
    <3> HIDE DEF K, From
    <3> QED BY <3>1, <3>2, <3>3
  <2> HIDE DEF t
  <2> QED BY <1>3, <2>1, <2>3, <2>4 DEF t
<1>5. CASE K # {Min(K)}
  <2> DEFINE k1 == Min(K)
             k2 == Min(K \ {k1})
             g == k2 - 1
             t == SubSeq(s, g + 1, Len(s))
             firstT == {i \in KeyIndices(t) :
                         Cardinality({j \in KeyIndices(t) : j >= i}) <= n}
  <2>1. OldestGop(s) = g
    BY <1>2, <1>5 DEF OldestGop
  <2>2. /\ k1 \in K /\ k2 \in K /\ k1 < k2
        /\ \A i \in K : i = k1 \/ i >= k2
        /\ Cardinality({i \in K : i >= k2}) = Cardinality(K) - 1
    BY <1>2, <1>5, SecondKeyframe
  <2> HIDE DEF k1, k2
  <2>3. g \in 0 .. Len(s) /\ g \in Nat /\ g + 1 = k2 /\ k1 \in Nat /\ k2 \in Nat
    BY <1>1, <2>2
  <2>4. /\ t \in Packets /\ Len(t) = Len(s) - g
        /\ KeyIndices(t) = {i \in 1 .. Len(s) - g : g + i \in K}
    <3> HIDE DEF g
    <3>1. t \in Packets /\ Len(t) = Len(s) - g
      BY <2>3 DEF Packets
    <3>2. 0 \in Nat
      OBVIOUS
    <3>3. KeyIndices(t) = {i \in 1 .. Len(s) - g : g + i \in K}
      BY <2>3, <3>2, KeysOfSuffix
    <3> QED BY <3>1, <3>3
  <2>5. \A m \in Nat : Cardinality({i \in KeyIndices(t) : i >= m})
                        = Cardinality({i \in K : i >= g + m /\ i > g})
    BY <2>3, KeysOfSuffix
  <2> HIDE DEF K, g, t
  <2>6. Cardinality(KeyIndices(t)) = Cardinality(K) - 1
    <3>1. {i \in KeyIndices(t) : i >= 0} = KeyIndices(t)
      BY <2>4
    <3>2. {i \in K : i >= g + 0 /\ i > g} = {i \in K : i >= k2}
      <4>1. \A i \in K : (i >= g + 0 /\ i > g) <=> i >= k2
        BY <1>1, <2>3
      <4> QED BY <4>1
    <3> QED BY <2>2, <2>5, <3>1, <3>2
  <2>7. \A i \in KeyIndices(t) : Cardinality({j \in KeyIndices(t) : j >= i})
                                  = Cardinality(From(g + i))
    <3> SUFFICES ASSUME NEW i \in KeyIndices(t)
                 PROVE  Cardinality({j \in KeyIndices(t) : j >= i}) = Cardinality(From(g + i))
      OBVIOUS
    <3>1. i \in Nat /\ i >= 1
      BY <2>4
    <3>2. {j \in K : j >= g + i /\ j > g} = From(g + i)
      <4>1. \A j \in K : (j >= g + i /\ j > g) <=> j >= g + i
        BY <1>1, <2>3, <3>1
      <4> QED BY <4>1
    <3> QED BY <2>5, <3>1, <3>2
  <2>8. Cardinality(From(k1)) = Cardinality(K)
    <3>1. From(k1) = K
      <4>1. \A j \in K : j >= k1
        BY <1>1, <2>2, <2>3
      <4> QED BY <4>1
    <3> QED BY <3>1
  <2>9. k1 \notin first
    BY <1>2, <2>8 DEF K
  <2>10. first \subseteq K /\ \A i \in first : i >= k2
    BY <2>2, <2>9
  <2>11. CASE Cardinality(K) = n + 1
    <3>1. NewestGops(t, n) = t
      BY <2>6, <2>11 DEF NewestGops
    <3>2. k2 \in first
      BY <2>2, <2>11
    <3> HIDE DEF first
    <3>3. Min(first) = k2
      <4>1. first \subseteq Nat /\ first # {}
        BY <1>1, <2>10, <3>2
      <4>2. Min(first) \in first /\ Min(first) <= k2
        BY <3>2, <4>1, MinOfNumbers
      <4>3. Min(first) >= k2 /\ Min(first) \in Nat
        BY <2>10, <4>1, <4>2
      <4> QED BY <2>3, <4>2, <4>3
    <3>4. NewestGops(s, n) = SubSeq(s, g + 1, Len(s))
      BY <1>3, <2>3, <3>2, <3>3
    <3> QED BY <2>1, <3>1, <3>4 DEF t
  <2>12. CASE Cardinality(K) # n + 1
    <3>1. Cardinality(KeyIndices(t)) > n
      BY <1>2, <2>6, <2>12 DEF K
    <3>2. NewestGops(t, n) = IF firstT = {} THEN <<>> ELSE SubSeq(t, Min(firstT), Len(t))
      <4>1. ~(Cardinality(KeyIndices(t)) <= n)
        BY <1>2, <2>6, <3>1
      <4> QED BY <4>1 DEF NewestGops
    <3>3. firstT = {i \in 1 .. Len(s) - g : g + i \in first}
      BY <2>4, <2>7
    <3>4. \A i \in first : i - g \in firstT /\ i - g \in Nat
      <4> SUFFICES ASSUME NEW i \in first
                   PROVE  i - g \in firstT /\ i - g \in Nat
        OBVIOUS
      <4>1. i \in 1 .. Len(s) /\ i >= k2
        BY <1>1, <2>10
      <4>2. i - g \in 1 .. Len(s) - g /\ g + (i - g) = i
        BY <1>1, <2>3, <4>1
      <4> HIDE DEF first, firstT
      <4> QED BY <3>3, <4>2
    <3> HIDE DEF first, firstT
    <3>5. CASE first = {}
      BY <1>3, <2>1, <3>2, <3>3, <3>5 DEF t
    <3>6. CASE first # {}
      <4>1. firstT # {} /\ firstT \subseteq Nat /\ first \subseteq Nat
        <5>1. firstT \subseteq Nat
          BY <1>1, <2>3, <3>3
        <5>2. first \subseteq Nat
          BY <1>1, <2>10
        <5> QED BY <3>4, <3>6, <5>1, <5>2
      <4> DEFINE m == Min(firstT)
                 f == Min(first)
      <4>2. m \in firstT /\ \A i \in firstT : m <= i
        BY <4>1, MinOfNumbers
      <4>3. f \in first /\ \A i \in first : f <= i
        BY <3>6, <4>1, MinOfNumbers
      <4>4. NewestGops(t, n) = SubSeq(t, m, Len(t)) /\ NewestGops(s, n) = SubSeq(s, f, Len(s))
        BY <1>3, <3>2, <3>6, <4>1
      <4> HIDE DEF m, f
      <4>5. m \in 1 .. Len(s) - g /\ g + m \in first
        BY <3>3, <4>2
      <4>6. f = g + m
        <5>1. f <= g + m
          BY <4>3, <4>5
        <5>2. m <= f - g
          BY <3>4, <4>2, <4>3
        <5>3. f \in Nat /\ m \in Nat
          BY <4>1, <4>2, <4>3
        <5> QED BY <2>3, <5>1, <5>2, <5>3
      <4>7. SubSeq(t, m, Len(t)) = SubSeq(s, f, Len(s))
        <5> DEFINE u == SubSeq(t, m, Len(t))
                   v == SubSeq(s, f, Len(s))
        <5>1. \A i \in 1 .. Len(t) : t[i] = s[g + i]
          BY <1>1, <2>3, <2>4 DEF t, Packets
        <5>2. /\ u \in Packets /\ Len(u) = Len(t) - m + 1
              /\ \A i \in 1 .. Len(u) : u[i] = t[m + i - 1]
          BY <1>1, <2>3, <2>4, <4>5 DEF Packets
        <5>3. /\ v \in Packets /\ Len(v) = Len(s) - f + 1
              /\ \A i \in 1 .. Len(v) : v[i] = s[f + i - 1]
          BY <1>1, <2>3, <4>5, <4>6 DEF Packets
        <5>4. Len(u) = Len(v)
          BY <1>1, <2>3, <2>4, <4>5, <4>6, <5>2, <5>3
        <5>5. ASSUME NEW i \in 1 .. Len(u)
              PROVE  u[i] = v[i]
          <6>1. m + i - 1 \in 1 .. Len(t) /\ g + (m + i - 1) = f + i - 1
            BY <1>1, <2>3, <2>4, <4>5, <4>6, <5>2
          <6> HIDE DEF u, v
          <6> QED BY <5>1, <5>2, <5>3, <5>4, <6>1
        <5> HIDE DEF u, v
        <5>6. u = v
          BY <5>2, <5>3, <5>4, <5>5, SamePackets
        <5> QED BY <5>6 DEF u, v
      <4> QED BY <2>1, <4>4, <4>7 DEF t
    <3> QED BY <3>5, <3>6
  <2> QED BY <2>11, <2>12
<1> QED BY <1>4, <1>5

-----------------------------------------------------------------------------
(* The trimming loop                                                       *)

SoundWindows == {w \in Window : Sound(w)}

(* One turn of the loop that add_to_pre_buffer runs.                       *)
TrimOnce(w) == IF w.iframes > PreIFrames THEN DropOldestGop(w) ELSE w

(* TrimGops is the last of the windows that the turns of the loop pass.    *)
LEMMA TrimIsIteration ==
  ASSUME NEW b, Sound(b)
  PROVE  \E f \in [0 .. Len(b.pkts) -> SoundWindows] :
           /\ f[0] = b
           /\ \A i \in 1 .. Len(b.pkts) : f[i] = TrimOnce(f[i - 1])
           /\ TrimGops(b) = f[Len(b.pkts)]
<1> DEFINE N == Len(b.pkts)
           once == [w \in SoundWindows |-> TrimOnce(w)]
           step == [i \in 1 .. N |-> once]
           Turn(i, w) == IF i = 0 THEN b ELSE TrimOnce(w)
<1>1. N \in Nat /\ b \in SoundWindows
  BY DEF Sound, Window, Packets, SoundWindows
<1>2. \A w \in SoundWindows : TrimOnce(w) \in SoundWindows
  <2>1. \A w : Sound(w) => w \in SoundWindows
    BY DEF Sound, SoundWindows
  <2>2. \A w \in SoundWindows : Sound(w)
    BY DEF SoundWindows
  <2>3. \A w : Sound(w) => Sound(DropOldestGop(w))
    BY DropOldestGopSound
  <2> QED BY <2>1, <2>2, <2>3 DEF TrimOnce
<1>3. once \in [SoundWindows -> SoundWindows]
  BY <1>2
<1>4. step \in [1 .. N -> [SoundWindows -> SoundWindows]]
  BY <1>3
<1>5. PICK f \in [0 .. N -> SoundWindows] : IsIteration(f, N, b, step)
  <2> HIDE DEF N, step
  <2> QED BY <1>1, <1>4, IterationExists
<1> HIDE DEF N
<1>6. \A i \in 0 .. N : f[i] = IF i = 0 THEN b ELSE TrimOnce(f[i - 1])
  <2> SUFFICES ASSUME NEW i \in 0 .. N
               PROVE  f[i] = IF i = 0 THEN b ELSE TrimOnce(f[i - 1])
    OBVIOUS
  <2>1. f[i] = IF i = 0 THEN b ELSE step[i][f[i - 1]]
    <3> HIDE DEF step
    <3>1. f = [j \in 0 .. N |-> IF j = 0 THEN b ELSE step[j][f[j - 1]]]
      BY <1>5 DEF IsIteration
    <3> QED BY <3>1
  <2>2. CASE i # 0
    <3>1. i \in 1 .. N /\ i - 1 \in 0 .. N
      BY <1>1, <2>2
    <3>2. f[i - 1] \in SoundWindows
      BY <3>1
    <3>3. step[i] = once
      BY <3>1
    <3>4. once[f[i - 1]] = TrimOnce(f[i - 1])
      BY <3>2
    <3> HIDE DEF step, once
    <3> QED BY <2>1, <2>2, <3>3, <3>4
  <2> QED BY <2>1, <2>2
<1> HIDE DEF step, once
<1>7. f = [n \in 0 .. N |-> IF n = 0 THEN b
                            ELSE LET w == f[n - 1]
                                 IN  IF w.iframes > PreIFrames THEN DropOldestGop(w) ELSE w]
  BY <1>6 DEF TrimOnce
<1> DEFINE g == CHOOSE after :
                  after = [n \in 0 .. N |->
                            IF n = 0 THEN b
                            ELSE LET w == after[n - 1]
                                 IN  IF w.iframes > PreIFrames THEN DropOldestGop(w) ELSE w]
<1>8. g = [n \in 0 .. N |-> IF n = 0 THEN b
                            ELSE LET w == g[n - 1]
                                 IN  IF w.iframes > PreIFrames THEN DropOldestGop(w) ELSE w]
  BY <1>7
<1>9. TrimGops(b) = g[N]
  BY DEF TrimGops, N
<1> HIDE DEF g
<1>10. g[0] = b /\ \A i \in 1 .. N : g[i] = TrimOnce(g[i - 1])
  BY <1>1, <1>8 DEF TrimOnce
<1>11. g \in [0 .. N -> SoundWindows]
  <2> DEFINE T == {n \in Nat : n <= N => g[n] \in SoundWindows}
  <2>1. 0 \in T
    BY <1>1, <1>10
  <2>2. ASSUME NEW n \in Nat, n \in T, n + 1 <= N
        PROVE  g[n + 1] \in SoundWindows
    <3>1. n + 1 \in 1 .. N /\ (n + 1) - 1 = n /\ g[n] \in SoundWindows
      BY <1>1, <2>2
    <3>2. g[n + 1] = TrimOnce(g[n])
      BY <1>10, <3>1
    <3> QED BY <1>2, <3>1, <3>2
  <2>3. \A n \in Nat : n \in T => n + 1 \in T
    BY <2>2
  <2>4. Nat \subseteq T
    <3> HIDE DEF T
    <3> QED BY <2>1, <2>3, InductionOverNat
  <2>5. \A n \in 0 .. N : g[n] \in SoundWindows
    BY <1>1, <2>4
  <2>6. DOMAIN g = 0 .. N /\ g = [n \in 0 .. N |-> g[n]]
    BY <1>8
  <2> QED BY <2>5, <2>6
<1> QED BY <1>9, <1>10, <1>11 DEF N

LEMMA EmptySound ==
  ASSUME NEW b, Sound(b), Len(b.pkts) = 0
  PROVE  b.iframes = 0 /\ b.bytes = 0
<1>1. b.pkts \in Packets
  BY DEF Sound, Window
<1>2. b.pkts = <<>>
  BY <1>1, EmptySeq DEF Packets
<1>3. KeyIndices(<<>>) = {}
  BY DEF KeyIndices
<1> QED BY <1>2, <1>3, SizeEmpty, FS_EmptySet DEF Sound

(***************************************************************************)
(* The loop that trims the window ends below its limit, with exactly the   *)
(* newest PreIFrames GOPs left.  As long as the counter is above the limit *)
(* every turn has removed a packet, so that the window would be empty      *)
(* after as many turns as there were packets, and the counter 0.           *)
(***************************************************************************)
LEMMA TrimGopsCorrect ==
  ASSUME NEW b, Sound(b)
  PROVE  LET w == TrimGops(b) IN
         /\ Sound(w)
         /\ w.iframes <= PreIFrames
         /\ w.bytes <= b.bytes
         /\ Len(w.pkts) <= Len(b.pkts)
         /\ w.pkts = NewestGops(b.pkts, PreIFrames)
<1> DEFINE N == Len(b.pkts)
<1>1. N \in Nat /\ b.bytes \in Nat /\ PreIFrames \in Nat
  BY BufferAssumption DEF Sound, Window, Packets
<1>2. PICK f \in [0 .. N -> SoundWindows] :
        /\ f[0] = b
        /\ \A i \in 1 .. N : f[i] = TrimOnce(f[i - 1])
        /\ TrimGops(b) = f[N]
  BY TrimIsIteration
<1>3. \A w \in SoundWindows : /\ Sound(w) /\ w.pkts \in Packets /\ w.bytes \in Nat
                              /\ w.iframes \in Nat /\ Len(w.pkts) \in Nat
                              /\ w.iframes = Cardinality(KeyIndices(w.pkts))
  BY DEF SoundWindows, Sound, Window, Packets
<1> DEFINE Fine(i) == /\ f[i].bytes <= b.bytes
                      /\ Len(f[i].pkts) <= N
                      /\ f[i].iframes <= PreIFrames \/ Len(f[i].pkts) + i <= N
                      /\ NewestGops(f[i].pkts, PreIFrames) = NewestGops(b.pkts, PreIFrames)
           T == {i \in Nat : i <= N => Fine(i)}
<1>4. 0 \in T
  BY <1>1, <1>2
<1>5. ASSUME NEW i \in Nat, i \in T, i + 1 <= N
      PROVE  Fine(i + 1)
  <2> DEFINE w == f[i]
             d == DropOldestGop(w)
  <2>1. i + 1 \in 1 .. N /\ (i + 1) - 1 = i /\ i \in 0 .. N
    BY <1>1, <1>5
  <2>2. w \in SoundWindows /\ f[i + 1] = TrimOnce(w)
    BY <1>2, <2>1
  <2>3. Fine(i)
    BY <1>5, <2>1
  <2>4. CASE ~(w.iframes > PreIFrames)
    <3>1. f[i + 1] = w
      BY <2>2, <2>4 DEF TrimOnce
    <3>2. w.iframes <= PreIFrames
      BY <1>1, <1>3, <2>2, <2>4
    <3> HIDE DEF N
    <3> QED BY <2>3, <3>1, <3>2
  <2>5. CASE w.iframes > PreIFrames
    <3>1. f[i + 1] = d
      BY <2>2, <2>5 DEF TrimOnce
    <3>2. Sound(w)
      BY <1>3, <2>2
    <3>3. w.pkts \in Packets /\ w.iframes = Cardinality(KeyIndices(w.pkts))
      BY <1>3, <2>2
    <3>4. w.pkts # <<>>
      <4>1. Len(<<>>) = 0
        OBVIOUS
      <4>2. w.iframes # 0
        BY <1>1, <2>5
      <4> HIDE DEF w
      <4> QED BY <3>2, <4>1, <4>2, EmptySound
    <3>5. /\ Sound(d) /\ d.bytes <= w.bytes /\ Len(d.pkts) < Len(w.pkts)
      <4> HIDE DEF w
      <4> QED BY <3>2, <3>4, DropOldestGopSound
    <3>6. NewestGops(d.pkts, PreIFrames) = NewestGops(w.pkts, PreIFrames)
      <4> DEFINE s == w.pkts
      <4>1. d.pkts = SubSeq(s, OldestGop(s) + 1, Len(s))
        BY <3>4 DEF DropOldestGop, DropFront
      <4>2. Cardinality(KeyIndices(s)) > PreIFrames
        BY <2>5, <3>3
      <4>3. s \in Packets
        BY <3>3
      <4> HIDE DEF s, d
      <4>4. NewestGops(SubSeq(s, OldestGop(s) + 1, Len(s)), PreIFrames)
              = NewestGops(s, PreIFrames)
        BY <1>1, <4>2, <4>3, DropKeepsNewest
      <4> QED BY <4>1, <4>4 DEF s
    <3>7. d.bytes \in Nat /\ Len(d.pkts) \in Nat
      BY <3>5 DEF Sound, Window, Packets
    <3>8. w.bytes \in Nat /\ Len(w.pkts) \in Nat /\ w.iframes \in Nat
      BY <1>3, <2>2
    <3>9. d.bytes <= b.bytes
      BY <1>1, <2>3, <3>5, <3>7, <3>8
    <3>10. Len(w.pkts) + i <= N
      BY <1>1, <2>3, <2>5, <3>8
    <3>11. Len(d.pkts) <= N /\ Len(d.pkts) + (i + 1) <= N
      <4>1. Len(d.pkts) + 1 <= Len(w.pkts)
        BY <3>5, <3>7, <3>8
      <4> HIDE DEF N, d, w
      <4> QED BY <1>1, <3>7, <3>8, <3>10, <4>1
    <3> HIDE DEF N, d
    <3> QED BY <2>3, <3>1, <3>6, <3>9, <3>11
  <2> QED BY <2>4, <2>5
<1>6. \A i \in Nat : i \in T => i + 1 \in T
  <2> HIDE DEF Fine
  <2> QED BY <1>5
<1>7. Fine(N)
  <2>1. Nat \subseteq T
    <3> HIDE DEF T
    <3> QED BY <1>4, <1>6, InductionOverNat
  <2> HIDE DEF Fine
  <2> QED BY <1>1, <2>1
<1> DEFINE w == f[N]
<1>8. w \in SoundWindows
  BY <1>1
<1>9. Sound(w) /\ Len(w.pkts) \in Nat /\ w.pkts \in Packets
  BY <1>3, <1>8
<1>10. w.iframes <= PreIFrames
  <2>1. w.iframes <= PreIFrames \/ Len(w.pkts) + N <= N
    BY <1>7
  <2>2. Len(w.pkts) + N <= N => Len(w.pkts) = 0
    <3> DEFINE k == Len(w.pkts)
    <3>1. N \in Nat /\ k \in Nat
      BY <1>1, <1>9
    <3> HIDE DEF k, N
    <3>2. k + N <= N => k = 0
      BY <3>1
    <3> QED BY <3>2 DEF k
  <2>3. Len(w.pkts) = 0 => w.iframes = 0
    <3> HIDE DEF w
    <3> QED BY <1>9, EmptySound
  <2> HIDE DEF w
  <2>4. Len(w.pkts) + N <= N => w.iframes <= PreIFrames
    BY <1>1, <2>2, <2>3
  <2> QED BY <2>1, <2>4
<1>11. NewestGops(w.pkts, PreIFrames) = w.pkts
  <2>1. Cardinality(KeyIndices(w.pkts)) <= PreIFrames
    BY <1>3, <1>8, <1>10
  <2> QED BY <2>1 DEF NewestGops
<1> QED BY <1>2, <1>7, <1>9, <1>10, <1>11

-----------------------------------------------------------------------------
(* The emergency limits                                                    *)

LEMMA EmergencyClearSound ==
  ASSUME NEW b, Sound(b), NEW target \in Nat
  PROVE  LET c == EmergencyClear(b, target) IN
         /\ Sound(c) /\ c.iframes <= b.iframes
         /\ c.bytes <= target
         /\ Len(c.pkts) <= Len(b.pkts)
<1> DEFINE N == Len(b.pkts)
           enough(n) == b.bytes - SizeOf(SubSeq(b.pkts, 1, n)) <= target
           S == {n \in 0 .. N : enough(n) \/ n = N}
           m == Min(S)
           c == DropFront(b, m)
<1>1. N \in Nat
  BY DEF Sound, Window, Packets
<1>2. EmergencyClear(b, target) = c
  BY DEF EmergencyClear
<1>3. S \subseteq Nat /\ S # {} /\ S \subseteq 0 .. N
  BY <1>1
<1>4. m \in S
  <2> HIDE DEF S
  <2> QED BY <1>3, MinOfNumbers
<1>5. m \in 0 .. N /\ (enough(m) \/ m = N)
  <2> HIDE DEF m, enough
  <2> QED BY <1>4
<1> HIDE DEF m
<1>6. /\ Sound(c) /\ Len(c.pkts) = N - m
      /\ c.iframes <= b.iframes /\ c.bytes <= b.bytes
  BY <1>5, DropFrontSound
<1>7. CASE enough(m)
  BY <1>1, <1>2, <1>5, <1>6, <1>7 DEF DropFront
<1>8. CASE m = N
  <2>1. Len(c.pkts) = 0
    BY <1>1, <1>6, <1>8
  <2>2. c.bytes = 0
    <3> HIDE DEF c
    <3> QED BY <1>6, <2>1, EmptySound
  <2> HIDE DEF c
  <2> QED BY <1>1, <1>2, <1>6, <2>1, <2>2
<1> QED BY <1>5, <1>7, <1>8

LEMMA EmergencyClearByCountSound ==
  ASSUME NEW b, Sound(b), NEW target \in Nat
  PROVE  LET c == EmergencyClearByCount(b, target) IN
         /\ Sound(c) /\ c.iframes <= b.iframes /\ c.bytes <= b.bytes
         /\ Len(c.pkts) <= target
<1> DEFINE N == Len(b.pkts)
           m == Max({0, N - target})
<1>1. N \in Nat
  BY DEF Sound, Window, Packets
<1>2. m = IF 0 <= N - target THEN N - target ELSE 0
  BY <1>1, MaxOfTwo
<1> HIDE DEF m
<1>3. m \in 0 .. N /\ N - m <= target
  BY <1>1, <1>2
<1>4. EmergencyClearByCount(b, target) = DropFront(b, m)
  BY DEF EmergencyClearByCount, m
<1> QED BY <1>3, <1>4, DropFrontSound

-----------------------------------------------------------------------------
(* The window between two operations                                       *)

LEMMA ArrivedSound ==
  ASSUME NEW b, Sound(b), NEW p \in Packet
  PROVE  Sound(Arrived(b, p))
<1>1. /\ b.pkts \in Packets /\ b.iframes \in Nat /\ b.bytes \in Nat
      /\ b.iframes = Cardinality(KeyIndices(b.pkts)) /\ b.bytes = SizeOf(b.pkts)
  BY DEF Sound, Window
<1> DEFINE s == Append(b.pkts, p)
<1>2. p.size \in Nat /\ p.key \in BOOLEAN
  BY PacketType
<1>3. s \in Packets
  BY <1>1 DEF Packets
<1>4. Cardinality(KeyIndices(s)) = b.iframes + (IF p.key THEN 1 ELSE 0)
  BY <1>1, KeysAppend
<1>5. SizeOf(s) = b.bytes + p.size
  BY <1>1, SizeAppend
<1> HIDE DEF s
<1>6. Arrived(b, p) = [pkts |-> s, iframes |-> b.iframes + (IF p.key THEN 1 ELSE 0),
                       bytes |-> b.bytes + p.size]
  BY DEF Arrived, s
<1>7. b.iframes + (IF p.key THEN 1 ELSE 0) \in Nat /\ b.bytes + p.size \in Nat
  BY <1>1, <1>2
<1>8. Arrived(b, p) \in Window
  BY <1>3, <1>6, <1>7 DEF Window
<1> QED BY <1>4, <1>5, <1>6, <1>8 DEF Sound

Bounded(b) ==
  /\ b.iframes <= PreIFrames
  /\ b.bytes <= MaxPreBufferBytes
  /\ Len(b.pkts) <= MaxPreBufferPackets

(***************************************************************************)
(* add_to_pre_buffer leaves a window whose counters are right within all   *)
(* three limits, whatever the window was before.                           *)
(***************************************************************************)
LEMMA AddedSoundAndBounded ==
  ASSUME NEW b, Sound(b), NEW p \in Packet
  PROVE  Sound(Added(b, p)) /\ Bounded(Added(b, p))
<1> DEFINE w == TrimGops(Arrived(b, p))
           light == IF w.bytes > MaxPreBufferBytes
                    THEN EmergencyClear(w, MaxPreBufferBytes \div 2)
                    ELSE w
           half == MaxPreBufferPackets \div 2
<1>1. /\ PreIFrames \in Nat /\ MaxPreBufferBytes \in Nat /\ MaxPreBufferPackets \in Nat
      /\ MaxPreBufferBytes \div 2 \in Nat /\ MaxPreBufferBytes \div 2 <= MaxPreBufferBytes
      /\ half \in Nat /\ half <= MaxPreBufferPackets
  BY BufferAssumption
<1>2. Sound(w) /\ w.iframes <= PreIFrames
  BY ArrivedSound, TrimGopsCorrect
<1>3. \A x : Sound(x) => x.iframes \in Nat /\ x.bytes \in Nat /\ Len(x.pkts) \in Nat
  BY DEF Sound, Window, Packets
<1>4. Added(b, p) = IF Len(light.pkts) > MaxPreBufferPackets
                    THEN EmergencyClearByCount(light, half) ELSE light
  BY DEF Added
<1> HIDE DEF w, half
<1>5. Sound(light) /\ light.iframes <= PreIFrames /\ light.bytes <= MaxPreBufferBytes
  <2>1. CASE w.bytes > MaxPreBufferBytes
    <3> DEFINE c == EmergencyClear(w, MaxPreBufferBytes \div 2)
    <3>1. /\ Sound(c) /\ c.iframes <= w.iframes /\ c.bytes <= MaxPreBufferBytes \div 2
      BY <1>1, <1>2, EmergencyClearSound
    <3>2. light = c
      BY <2>1
    <3> HIDE DEF c, light
    <3>3. /\ c.iframes \in Nat /\ c.bytes \in Nat /\ w.iframes \in Nat
      BY <1>2, <1>3, <3>1
    <3> QED BY <1>1, <1>2, <3>1, <3>2, <3>3
  <2>2. CASE ~(w.bytes > MaxPreBufferBytes)
    <3>1. light = w
      BY <2>2
    <3>2. w.bytes <= MaxPreBufferBytes
      BY <1>1, <1>2, <1>3, <2>2
    <3> QED BY <1>2, <3>1, <3>2
  <2> QED BY <2>1, <2>2
<1> HIDE DEF light
<1>6. CASE Len(light.pkts) > MaxPreBufferPackets
  <2> DEFINE c == EmergencyClearByCount(light, half)
  <2>1. /\ Sound(c) /\ c.iframes <= light.iframes /\ c.bytes <= light.bytes
        /\ Len(c.pkts) <= half
    BY <1>1, <1>5, EmergencyClearByCountSound
  <2>2. Added(b, p) = c
    BY <1>4, <1>6
  <2> HIDE DEF c
  <2>3. /\ c.iframes \in Nat /\ c.bytes \in Nat /\ Len(c.pkts) \in Nat
        /\ light.iframes \in Nat /\ light.bytes \in Nat
    BY <1>3, <1>5, <2>1
  <2>4. Bounded(c)
    BY <1>1, <1>5, <2>1, <2>3 DEF Bounded
  <2> QED BY <2>1, <2>2, <2>4
<1>7. CASE ~(Len(light.pkts) > MaxPreBufferPackets)
  <2>1. Len(light.pkts) <= MaxPreBufferPackets
    BY <1>1, <1>3, <1>5, <1>7
  <2> QED BY <1>4, <1>5, <1>7, <2>1 DEF Bounded
<1> QED BY <1>6, <1>7

LEMMA EmptyBufferSound == Sound(EmptyBuffer) /\ Bounded(EmptyBuffer)
<1>1. KeyIndices(<<>>) = {}
  BY DEF KeyIndices
<1>2. <<>> \in Packets /\ Len(<<>>) = 0
  BY DEF Packets
<1> QED BY <1>1, <1>2, SizeEmpty, FS_EmptySet, BufferAssumption
        DEF Sound, Bounded, Window, EmptyBuffer

BufferInv == Sound(preBuf) /\ Bounded(preBuf)

LEMMA BufferInvHolds == BufferSpec => []BufferInv
<1>1. BufferInit => BufferInv
  BY EmptyBufferSound DEF BufferInit, BufferInv
<1>2. BufferInv /\ [BufferNext]_preBuf => BufferInv'
  <2> SUFFICES ASSUME BufferInv, [BufferNext]_preBuf
               PROVE  BufferInv'
    OBVIOUS
  <2>1. ASSUME NEW p \in Packet, AddToPreBuffer(p)
        PROVE  BufferInv'
    BY <2>1, AddedSoundAndBounded DEF AddToPreBuffer, BufferInv
  <2>2. CASE DrainPreBuffer
    BY <2>2, EmptyBufferSound DEF DrainPreBuffer, BufferInv
  <2>3. CASE UNCHANGED preBuf
    BY <2>3 DEF BufferInv
  <2> QED BY <2>1, <2>2, <2>3 DEF BufferNext
<1> QED BY <1>1, <1>2, PTL DEF BufferSpec

-----------------------------------------------------------------------------
(* Theorems                                                                *)

(* The window stays a deque of packets and neither counter, unsigned in    *)
(* the code, ever goes below zero, for windows and packets of any size.    *)
THEOREM BufferTypeCorrect == BufferSpec => []BufferTypeOK
<1>1. BufferInv => BufferTypeOK
  BY DEF BufferInv, Sound, BufferTypeOK, Window, Packets
<1> QED BY <1>1, BufferInvHolds, PTL

(* The counters that add_to_pre_buffer decides from say what is in the     *)
(* deque, through any mixture of trimming and both emergency limits.       *)
THEOREM WindowAccountsHolds == BufferSpec => []WindowAccounts
<1>1. BufferInv => WindowAccounts
  BY DEF BufferInv, Sound, WindowAccounts
<1> QED BY <1>1, BufferInvHolds, PTL

(* All three limits hold after every call, for all values of the limits    *)
(* and all packet sizes; in particular the loop that drops GOPs ends.      *)
THEOREM WindowBoundedHolds == BufferSpec => []WindowBounded
<1>1. BufferInv => WindowBounded
  BY DEF BufferInv, Bounded, WindowBounded
<1> QED BY <1>1, BufferInvHolds, PTL

(* Dropping GOP after GOP until the counter is at its limit leaves what    *)
(* follows the PreIFrames-th newest keyframe, in every reachable window.   *)
THEOREM TrimKeepsNewestGopsHolds == BufferSpec => []TrimKeepsNewestGops
<1>1. BufferInv => TrimKeepsNewestGops
  <2> SUFFICES ASSUME Sound(preBuf), NEW p \in Packet
               PROVE  TrimGops(Arrived(preBuf, p)).pkts
                        = NewestGops(Append(preBuf.pkts, p), PreIFrames)
    BY DEF BufferInv, TrimKeepsNewestGops
  <2>1. Sound(Arrived(preBuf, p))
    BY ArrivedSound
  <2>2. Arrived(preBuf, p).pkts = Append(preBuf.pkts, p)
    BY DEF Arrived
  <2> QED BY <2>1, <2>2, TrimGopsCorrect
<1> QED BY <1>1, BufferInvHolds, PTL

-----------------------------------------------------------------------------
(* The inductive invariant *)

(* The local variables of the closing thread are set while they are used.  *)
LocalsInv ==
  /\ pc \in {"idle", "finalize"} =>
       op = "none" /\ path = NoFile /\ fmt = NoFile /\ ok = FALSE
  /\ pc \in {"io", "trailer", "end"} => op # "none"
  /\ pc \in {"io", "trailer", "notify"} => path # NoFile
  /\ pc = "end" /\ op \in {"rotate", "finish"} => path # NoFile
  /\ pc = "finalize" => state \in {"RECORDING", "POST_BUFFER"}

(* FINALIZING, and IDLE while the session is being shut down, last as long *)
(* as the thread is between its first and its last block.                  *)
WindowInv ==
  /\ FinalizingWindow
  /\ pc \in {"io", "trailer", "end"} /\ op = "shutdown" => state = "IDLE"
  /\ pc = "notify" => op # "shutdown"
  /\ state = "IDLE" => shutdownRequested

(* There is a muxer only in the states that write, and on the way out of   *)
(* them; it writes the current file.                                       *)
MuxerInv ==
  /\ ctx # NoFile => ctx = curFile /\ ctx = outStream /\ ctx \in opened
  /\ state \in Inactive /\ ctx # NoFile => pc \in {"io", "trailer", "end"}
  /\ ctx \in Closed => pc = "end"

(* The file being closed is the muxer's, and it is closed when the thread  *)
(* takes the mutex for the last time.                                      *)
ClosingInv ==
  /\ pc \in {"io", "trailer"} => path = ctx
  /\ pc = "trailer" => fmt = ctx
  /\ pc = "end" => path = ctx
  /\ pc = "end" /\ path # NoFile => path \in Closed \ notified
  /\ ReportsClosedFileOnce

FilesInv ==
  /\ NoOpenFileLost
  /\ notified \subseteq Closed

(* Names are given out in order.                                           *)
NamesInv ==
  \A f \in created : f[1] < eventId \/ (f[1] = eventId /\ f[2] <= chunkIdx)

IInv ==
  /\ TypeOK
  /\ LocalsInv /\ WindowInv /\ MuxerInv /\ ClosingInv /\ FilesInv /\ NamesInv
  /\ WindowParked

-----------------------------------------------------------------------------
(* The initial states satisfy it.                                          *)
LEMMA InitInv == Init => IInv
<1> SUFFICES ASSUME Init PROVE IInv
  OBVIOUS
<1> USE SessionAssumption DEF Init, BufferInit
<1>1. TypeOK
  <2>1. chunkBytes \in 0..MaxChunkBytes
    OBVIOUS
  <2>2. postIFrames \in Nat /\ eventId \in Nat /\ chunkIdx \in Nat
    OBVIOUS
  <2>3. state \in States
    BY DEF States
  <2> QED
    BY <2>1, <2>2, <2>3 DEF TypeOK
<1>2. LocalsInv /\ WindowInv /\ MuxerInv /\ ClosingInv
  BY DEF LocalsInv, WindowInv, FinalizingWindow, MuxerInv, ClosingInv,
         ReportsClosedFileOnce, Closed, Inactive
<1>3. FilesInv /\ NamesInv /\ WindowParked
  BY DEF FilesInv, NoOpenFileLost, NamesInv, WindowParked, Closed
<1> QED
  BY <1>1, <1>2, <1>3 DEF IInv

(* What init_muxer leaves behind, whatever its outcome.                    *)
LEMMA InitMuxerResult ==
  ASSUME NEW f, NEW outcome, NEW s, InitMuxer(f, outcome, NoFile, s)
  PROVE  /\ curFile' = f
         /\ created' = created \/ created' = created \cup {f}
         /\ outStream' \in {s, NoFile, f}
         /\ \/ ctx' = NoFile /\ opened' = opened
            \/ /\ ctx' = f /\ outStream' = f
               /\ opened' = opened \cup {f} /\ created' = created \cup {f}
  BY DEF InitMuxer

(* A name that is still to come has not been used.                         *)
LEMMA NextNamesFresh ==
  ASSUME IInv
  PROVE  /\ <<eventId + 1, 0>> \in FileId \ created
         /\ <<eventId, chunkIdx + 1>> \in FileId \ created
<1>1. eventId \in Nat /\ chunkIdx \in Nat
  BY DEF IInv, TypeOK
<1>2. <<eventId + 1, 0>> \notin created
  <2> SUFFICES ASSUME <<eventId + 1, 0>> \in created PROVE FALSE
    OBVIOUS
  <2> DEFINE f == <<eventId + 1, 0>>
  <2>1. f[1] < eventId \/ f[1] = eventId
    BY DEF IInv, NamesInv
  <2> QED
    BY <1>1, <2>1
<1>3. <<eventId, chunkIdx + 1>> \notin created
  <2> SUFFICES ASSUME <<eventId, chunkIdx + 1>> \in created PROVE FALSE
    OBVIOUS
  <2> DEFINE f == <<eventId, chunkIdx + 1>>
  <2>1. f[1] < eventId \/ (f[1] = eventId /\ f[2] <= chunkIdx)
    BY DEF IInv, NamesInv
  <2> QED
    BY <1>1, <2>1
<1> QED
  BY <1>1, <1>2, <1>3 DEF FileId

LEMMA StartEventInv ==
  ASSUME IInv, ~shutdownRequested, StartEvent
  PROVE  IInv'
<1>1. CASE state \notin Inactive
  <2>1. UNCHANGED <<preBuf, session, muxer, files, closing,
                    shutdownRequested>> /\ lastAlarm' = "start"
    BY <1>1 DEF StartEvent
  <2> QED
    BY <2>1 DEF IInv, session, muxer, files, closing, TypeOK, LocalsInv, WindowInv,
      FinalizingWindow, MuxerInv, ClosingInv, ReportsClosedFileOnce, FilesInv,
      NoOpenFileLost, NamesInv, WindowParked, Closed, Inactive
<1>2. CASE state \in Inactive
  <2> DEFINE f == <<eventId + 1, 0>>
  <2>1. state = "PRE_BUFFER" /\ ctx = NoFile /\ pc \in {"idle", "notify"}
    BY <1>2 DEF IInv, TypeOK, LocalsInv, WindowInv, FinalizingWindow, MuxerInv, Inactive
  <2>2. PICK outcome \in MuxerOutcomes : InitMuxer(f, outcome, NoFile, outStream)
    BY <1>2, <2>1 DEF StartEvent
  <2>3. /\ eventId' = eventId + 1 /\ chunkIdx' = 0 /\ chunkBytes' = 0
        /\ preBuf' = EmptyBuffer /\ state' = "RECORDING" /\ lastAlarm' = "start"
        /\ UNCHANGED <<postIFrames, saved, removed, notified, closing, shutdownRequested>>
    BY <1>2 DEF StartEvent, DrainPreBuffer
  <2>4. f \in FileId \ created
    BY NextNamesFresh
  <2>5. /\ curFile' = f
        /\ created' = created \/ created' = created \cup {f}
        /\ outStream' \in {outStream, NoFile, f}
        /\ \/ ctx' = NoFile /\ opened' = opened
           \/ /\ ctx' = f /\ outStream' = f
              /\ opened' = opened \cup {f} /\ created' = created \cup {f}
    BY <2>2, InitMuxerResult
  <2> HIDE DEF f
  <2>6. TypeOK'
    BY <2>3, <2>4, <2>5, SessionAssumption DEF IInv, TypeOK, States, closing
  <2>7. LocalsInv' /\ WindowInv' /\ WindowParked'
    BY <2>1, <2>3 DEF IInv, LocalsInv, WindowInv, FinalizingWindow, WindowParked,
                      Inactive, closing
  <2>8. MuxerInv'
    BY <2>1, <2>3, <2>4, <2>5, SessionAssumption
    DEF IInv, TypeOK, MuxerInv, Closed, Inactive, closing
  <2>9. ClosingInv'
    BY <2>1, <2>3, <2>4, <2>5, SessionAssumption
    DEF IInv, TypeOK, ClosingInv, ReportsClosedFileOnce, Closed, closing
  <2>11. FilesInv'
    BY <2>1, <2>3, <2>4, <2>5, SessionAssumption
    DEF IInv, TypeOK, FilesInv, NoOpenFileLost, Closed
  <2>10. NamesInv'
    BY <2>3, <2>5 DEF IInv, TypeOK, NamesInv, f, FileId
  <2> QED
    BY <2>6, <2>7, <2>8, <2>9, <2>10, <2>11 DEF IInv
<1> QED
  BY <1>1, <1>2

(* Between POST_BUFFER and RECORDING nothing else changes.                 *)
LEMMA ContinueEventInv ==
  ASSUME IInv, ContinueEvent
  PROVE  IInv'
<1> USE DEF IInv, ContinueEvent, Closed, Inactive, session, muxer,
            closing, files
<1>1. TypeOK'
  BY DEF TypeOK, States
<1>2. LocalsInv' /\ WindowInv' /\ WindowParked'
  BY DEF LocalsInv, WindowInv, FinalizingWindow, WindowParked
<1>3. MuxerInv' /\ ClosingInv'
  BY DEF MuxerInv, ClosingInv, ReportsClosedFileOnce, LocalsInv,
         WindowInv, FinalizingWindow
<1>4. FilesInv' /\ NamesInv'
  BY DEF FilesInv, NoOpenFileLost, NamesInv
<1> QED
  BY <1>1, <1>2, <1>3, <1>4

(* Between POST_BUFFER and RECORDING nothing else changes.                 *)
LEMMA StopEventInv ==
  ASSUME IInv, StopEvent
  PROVE  IInv'
<1> USE DEF IInv, StopEvent, Closed, Inactive, session, muxer, closing,
            files
<1>1. TypeOK'
  BY DEF TypeOK, States
<1>2. LocalsInv' /\ WindowInv' /\ WindowParked'
  BY DEF LocalsInv, WindowInv, FinalizingWindow, WindowParked
<1>3. MuxerInv' /\ ClosingInv'
  BY DEF MuxerInv, ClosingInv, ReportsClosedFileOnce, LocalsInv,
         WindowInv, FinalizingWindow
<1>4. FilesInv' /\ NamesInv'
  BY DEF FilesInv, NoOpenFileLost, NamesInv
<1> QED
  BY <1>1, <1>2, <1>3, <1>4

(* The file that is about to be closed is the one the muxer writes.        *)
LEMMA FinalizeBeginInv ==
  ASSUME IInv, FinalizeBegin
  PROVE  IInv'
<1> USE DEF IInv, FinalizeBegin, Return, Closed, Inactive, session,
            muxer, closing, files
<1>1. TypeOK'
  <2>1. CASE ctx # NoFile
    BY <2>1 DEF TypeOK, States
  <2>2. CASE ctx = NoFile
    <3>1. /\ state' \in States /\ postIFrames' \in Nat
      BY <2>2 DEF TypeOK, States
    <3>2. ok' \in BOOLEAN /\ pc' = "idle" /\ op' = "none" /\ path' = NoFile /\ fmt' = NoFile
      BY <2>2
    <3> QED
      BY <3>1, <3>2 DEF TypeOK
  <2> QED
    BY <2>1, <2>2
<1>2. LocalsInv' /\ WindowInv' /\ WindowParked'
  BY DEF LocalsInv, WindowInv, FinalizingWindow, WindowParked, MuxerInv
<1>3. MuxerInv' /\ ClosingInv'
  BY DEF MuxerInv, ClosingInv, ReportsClosedFileOnce, LocalsInv,
         WindowInv, FinalizingWindow, TypeOK
<1>4. FilesInv' /\ NamesInv'
  BY DEF FilesInv, NoOpenFileLost, NamesInv
<1> QED
  BY <1>1, <1>2, <1>3, <1>4

(* The muxer is still the one whose path was taken.                        *)
LEMMA FetchMuxerInv ==
  ASSUME IInv, FetchMuxer
  PROVE  IInv'
<1> USE DEF IInv, FetchMuxer, Closed, Inactive, session, muxer, closing,
            files
<1>1. TypeOK'
  BY DEF TypeOK, States
<1>2. LocalsInv' /\ WindowInv' /\ WindowParked'
  BY DEF LocalsInv, WindowInv, FinalizingWindow, WindowParked
<1>3. MuxerInv' /\ ClosingInv'
  BY DEF MuxerInv, ClosingInv, ReportsClosedFileOnce, LocalsInv,
         WindowInv, FinalizingWindow
<1>4. FilesInv' /\ NamesInv'
  BY DEF FilesInv, NoOpenFileLost, NamesInv
<1> QED
  BY <1>1, <1>2, <1>3, <1>4

(* Only the open file is closed, and it was not reported before.           *)
LEMMA WriteTrailerInv ==
  ASSUME IInv, WriteTrailer
  PROVE  IInv'
<1> USE DEF IInv, WriteTrailer, Closed, Inactive, session, muxer,
            closing, files
<1>1. TypeOK'
  BY SessionAssumption DEF TypeOK, States, ClosingInv, MuxerInv,
                           LocalsInv
<1>2. LocalsInv' /\ WindowInv' /\ WindowParked'
  BY SessionAssumption DEF LocalsInv, WindowInv, FinalizingWindow,
                           WindowParked, TypeOK
<1>3. MuxerInv' /\ ClosingInv'
  BY DEF MuxerInv, ClosingInv, ReportsClosedFileOnce, LocalsInv,
         WindowInv, FinalizingWindow, FilesInv, TypeOK
<1>4. FilesInv' /\ NamesInv'
  BY DEF FilesInv, NoOpenFileLost, NamesInv, ClosingInv
<1> QED
  BY <1>1, <1>2, <1>3, <1>4

(* Only a closed file is reported.                                         *)
LEMMA NotifyInv ==
  ASSUME IInv, Notify
  PROVE  IInv'
<1> USE DEF IInv, Notify, Return, Closed, Inactive, session, muxer,
            closing, files
<1>1. TypeOK'
  BY DEF TypeOK, States, ClosingInv, ReportsClosedFileOnce
<1>2. LocalsInv' /\ WindowInv' /\ WindowParked'
  BY DEF LocalsInv, WindowInv, FinalizingWindow, WindowParked
<1>3. MuxerInv' /\ ClosingInv'
  BY DEF MuxerInv, ClosingInv, ReportsClosedFileOnce, LocalsInv,
         WindowInv, FinalizingWindow
<1>4. FilesInv' /\ NamesInv'
  BY DEF FilesInv, NoOpenFileLost, NamesInv, ClosingInv,
         ReportsClosedFileOnce
<1> QED
  BY <1>1, <1>2, <1>3, <1>4

(* The window was empty already.                                           *)
LEMMA ForceStopInv ==
  ASSUME IInv, ForceStop
  PROVE  IInv'
<1> USE DEF IInv, ForceStop, EmptyBuffer, Closed, Inactive, session,
            muxer, closing, files
<1>1. TypeOK'
  BY DEF TypeOK, States
<1>2. LocalsInv' /\ WindowInv'
  BY DEF LocalsInv, WindowInv, FinalizingWindow, MuxerInv, TypeOK
<1>3. WindowParked'
  <2>1. preBuf = EmptyBuffer
    BY DEF WindowParked, TypeOK, States
  <2> QED
    BY <2>1 DEF WindowParked
<1>4. MuxerInv' /\ ClosingInv'
  BY DEF MuxerInv, ClosingInv, ReportsClosedFileOnce, LocalsInv,
         WindowInv, FinalizingWindow, TypeOK
<1>5. FilesInv' /\ NamesInv'
  BY DEF FilesInv, NoOpenFileLost, NamesInv
<1> QED
  BY <1>1, <1>2, <1>3, <1>4, <1>5

(* The muxer is dropped after its file was closed.                         *)
LEMMA ForceStopEndInv ==
  ASSUME IInv, ForceStopEnd
  PROVE  IInv'
<1> USE DEF IInv, ForceStopEnd, DropMuxer, Return, Closed, Inactive,
            session, muxer, closing, files
<1>1. TypeOK'
  BY DEF TypeOK, States
<1>2. LocalsInv' /\ WindowInv' /\ WindowParked'
  BY DEF LocalsInv, WindowInv, FinalizingWindow, WindowParked
<1>3. MuxerInv' /\ ClosingInv'
  BY SessionAssumption DEF MuxerInv, ClosingInv, ReportsClosedFileOnce,
                           LocalsInv, WindowInv, FinalizingWindow,
                           TypeOK
<1>4. FilesInv' /\ NamesInv'
  BY DEF FilesInv, NoOpenFileLost, NamesInv, ClosingInv, TypeOK
<1> QED
  BY <1>1, <1>2, <1>3, <1>4

(* An inactive session at rest has no muxer, and an active one is closed.  *)
LEMMA ShutdownBeginInv ==
  ASSUME IInv, ShutdownBegin
  PROVE  IInv'
<1> USE DEF IInv, ShutdownBegin, Closed, Inactive, session, muxer,
            closing, files
<1>1. TypeOK'
  BY DEF TypeOK, States
<1>2. LocalsInv' /\ WindowInv' /\ WindowParked'
  BY DEF LocalsInv, WindowInv, FinalizingWindow, WindowParked, MuxerInv
<1>3. MuxerInv' /\ ClosingInv'
  BY DEF MuxerInv, ClosingInv, ReportsClosedFileOnce, LocalsInv,
         WindowInv, FinalizingWindow, TypeOK
<1>4. FilesInv' /\ NamesInv'
  BY DEF FilesInv, NoOpenFileLost, NamesInv
<1> QED
  BY <1>1, <1>2, <1>3, <1>4

(* The muxer is dropped after its file was closed.                         *)
LEMMA ShutdownEndInv ==
  ASSUME IInv, ShutdownEnd
  PROVE  IInv'
<1> USE DEF IInv, ShutdownEnd, DropMuxer, Return, Closed, Inactive,
            session, muxer, closing, files
<1>1. TypeOK'
  BY DEF TypeOK, States
<1>2. LocalsInv' /\ WindowInv' /\ WindowParked'
  BY DEF LocalsInv, WindowInv, FinalizingWindow, WindowParked
<1>3. MuxerInv' /\ ClosingInv'
  BY SessionAssumption DEF MuxerInv, ClosingInv, ReportsClosedFileOnce,
                           LocalsInv, WindowInv, FinalizingWindow,
                           TypeOK
<1>4. FilesInv' /\ NamesInv'
  BY DEF FilesInv, NoOpenFileLost, NamesInv, ClosingInv, TypeOK
<1> QED
  BY <1>1, <1>2, <1>3, <1>4

(* A rotation opens the next chunk when the last one is closed.            *)
LEMMA FinalizeEndInv ==
  ASSUME IInv, FinalizeEnd
  PROVE  IInv'
<1> DEFINE f == <<eventId, chunkIdx + 1>>
<1>1. /\ pc = "end" /\ state = "FINALIZING" /\ path = ctx
      /\ UNCHANGED <<preBuf, eventId, saved, removed, notified, lastAlarm,
                     shutdownRequested>>
  BY DEF FinalizeEnd, IInv, WindowInv, FinalizingWindow, ClosingInv
<1>2. op \in {"rotate", "finish"}
  BY DEF FinalizeEnd
<1>3. /\ path # NoFile /\ path \in Closed \ notified /\ opened \subseteq Closed
      /\ \/ pc' = "notify" /\ UNCHANGED <<op, path, fmt, ok>>
         \/ Return
  <2>1. path # NoFile
    BY <1>1, <1>2 DEF IInv, LocalsInv
  <2>2. path \in Closed \ notified /\ opened \subseteq Closed
    BY <1>1, <2>1 DEF IInv, ClosingInv, FilesInv, NoOpenFileLost
  <2> QED
    BY <2>1, <2>2 DEF FinalizeEnd
<1>4. CASE op = "rotate"
  <2>1. PICK outcome \in MuxerOutcomes : InitMuxer(f, outcome, NoFile, NoFile)
    BY <1>4 DEF FinalizeEnd, NextChunk
  <2>2. /\ chunkIdx' = chunkIdx + 1 /\ chunkBytes' = 0 /\ postIFrames' = postIFrames
        /\ state' = "RECORDING"
    BY <1>4 DEF FinalizeEnd, NextChunk
  <2>3. f \in FileId \ created
    BY NextNamesFresh
  <2>4. /\ curFile' = f
        /\ created' = created \/ created' = created \cup {f}
        /\ outStream' \in {NoFile, f}
        /\ \/ ctx' = NoFile /\ opened' = opened
           \/ /\ ctx' = f /\ outStream' = f
              /\ opened' = opened \cup {f} /\ created' = created \cup {f}
    BY <2>1, InitMuxerResult
  <2> HIDE DEF f
  <2>5. TypeOK'
    <3>1. /\ pc' \in {"idle", "notify"} /\ op' \in {"none", "rotate"} /\ ok' \in BOOLEAN
          /\ path' \in FileId \cup {NoFile} /\ fmt' \in FileId \cup {NoFile}
      BY <1>3, <1>4 DEF IInv, TypeOK, Return
    <3>2. chunkBytes' \in 0..MaxChunkBytes /\ chunkIdx' \in Nat
      BY <2>2, SessionAssumption DEF IInv, TypeOK
    <3>3. /\ created' \subseteq FileId /\ opened' \subseteq created'
          /\ opened \subseteq opened'
      BY <2>3, <2>4 DEF IInv, TypeOK
    <3>4. ctx' \in FileId \cup {NoFile} /\ outStream' \in FileId \cup {NoFile}
          /\ curFile' \in FileId \cup {NoFile}
      BY <2>3, <2>4
    <3> QED
      BY <1>1, <2>2, <3>1, <3>2, <3>3, <3>4 DEF IInv, TypeOK, States
  <2>6. LocalsInv' /\ WindowInv' /\ WindowParked'
    BY <1>1, <1>3, <1>4, <2>2
    DEF IInv, LocalsInv, WindowInv, FinalizingWindow, WindowParked, ClosingInv, Return
  <2>7. MuxerInv'
    BY <1>1, <2>2, <2>3, <2>4, SessionAssumption DEF IInv, TypeOK, MuxerInv, Closed, Inactive
  <2>8. ClosingInv'
    BY <1>1, <1>3, <2>3, <2>4, SessionAssumption
    DEF IInv, TypeOK, ClosingInv, ReportsClosedFileOnce, Closed, Return
  <2>9. FilesInv'
    BY <1>1, <1>3, <2>4 DEF IInv, FilesInv, NoOpenFileLost, Closed
  <2>10. NamesInv'
    BY <1>1, <2>2, <2>4 DEF IInv, TypeOK, NamesInv, f, FileId
  <2> QED
    BY <2>5, <2>6, <2>7, <2>8, <2>9, <2>10 DEF IInv
<1>5. CASE op = "finish"
  <2>1. /\ postIFrames' = 0 /\ state' = "PRE_BUFFER" /\ ctx' = NoFile /\ outStream' = NoFile
        /\ UNCHANGED <<curFile, chunkIdx, chunkBytes, created, opened>>
    BY <1>5 DEF FinalizeEnd, DropMuxer
  <2>2. TypeOK'
    BY <1>1, <1>3, <2>1 DEF IInv, TypeOK, States, Return
  <2>3. LocalsInv' /\ WindowInv' /\ WindowParked'
    BY <1>1, <1>3, <1>5, <2>1
    DEF IInv, LocalsInv, WindowInv, FinalizingWindow, WindowParked, ClosingInv, Return
  <2>4. MuxerInv' /\ ClosingInv'
    BY <1>1, <1>3, <2>1, SessionAssumption
    DEF IInv, TypeOK, MuxerInv, ClosingInv, ReportsClosedFileOnce, Closed, Return
  <2>5. FilesInv' /\ NamesInv'
    BY <1>1, <1>3, <2>1
    DEF IInv, TypeOK, FilesInv, NoOpenFileLost, NamesInv, Closed
  <2> QED
    BY <2>2, <2>3, <2>4, <2>5 DEF IInv
<1> QED
  BY <1>2, <1>4, <1>5

(* Packets change the window, the counters and the decision to finalize.   *)
LEMMA PushPacketInv ==
  ASSUME IInv, NEW p \in Packet, PushPacket(p)
  PROVE  IInv'
<1> USE DEF IInv, session, muxer, closing, files
<1>1. CASE PushToPreBuffer(p)
  BY <1>1 DEF PushToPreBuffer, TypeOK, LocalsInv, WindowInv, FinalizingWindow, MuxerInv,
    ClosingInv, ReportsClosedFileOnce, FilesInv, NoOpenFileLost, NamesInv, WindowParked,
    Closed, Inactive
<1>2. CASE PushToRecording(p) \/ PushToPostBuffer(p)
  <2>1. /\ pc = "idle" /\ state \in {"RECORDING", "POST_BUFFER"}
        /\ pc' \in {"idle", "finalize"}
        /\ UNCHANGED <<preBuf, state, chunkIdx, eventId, muxer, op, path, fmt, ok, files,
                       lastAlarm, shutdownRequested>>
    BY <1>2 DEF PushToRecording, PushToPostBuffer
  <2>2. TypeOK'
    <3>1. p.size \in Nat
      BY BufferAssumption DEF Packet
    <3>2. chunkBytes' \in 0..MaxChunkBytes
      <4>1. CASE PushToRecording(p)
        <5>1. chunkBytes' = CountedUpTo(MaxChunkBytes, chunkBytes + p.size)
          BY <4>1 DEF PushToRecording
        <5>2. chunkBytes \in 0..MaxChunkBytes
          BY DEF TypeOK
        <5> QED
          BY <3>1, <5>1, <5>2, SessionAssumption DEF CountedUpTo
      <4>2. CASE PushToPostBuffer(p)
        BY <4>2 DEF PushToPostBuffer, TypeOK
      <4> QED
        BY <1>2, <4>1, <4>2
    <3>3. postIFrames' \in Nat
      <4>1. postIFrames \in Nat
        BY DEF TypeOK
      <4>2. postIFrames' = postIFrames \/ postIFrames' = postIFrames + 1
        <5>1. CASE PushToRecording(p)
          BY <5>1 DEF PushToRecording
        <5>2. CASE PushToPostBuffer(p)
          <6>1. postIFrames' = postIFrames + (IF p.key THEN 1 ELSE 0)
            BY <5>2 DEF PushToPostBuffer
          <6> QED
            BY <4>1, <6>1
        <5> QED
          BY <1>2, <5>1, <5>2
      <4> QED
        BY <4>1, <4>2
    <3> QED
      BY <2>1, <3>2, <3>3 DEF TypeOK, States
  <2>3. LocalsInv' /\ WindowInv' /\ WindowParked'
    BY <2>1 DEF LocalsInv, WindowInv, FinalizingWindow, WindowParked
  <2>4. MuxerInv' /\ ClosingInv'
    BY <2>1 DEF MuxerInv, ClosingInv, ReportsClosedFileOnce, Closed, Inactive
  <2>5. FilesInv' /\ NamesInv'
    BY <2>1 DEF FilesInv, NoOpenFileLost, NamesInv, Closed
  <2> QED
    BY <2>2, <2>3, <2>4, <2>5
<1> QED
  BY <1>1, <1>2 DEF PushPacket

-----------------------------------------------------------------------------
(* The theorems                                                            *)

(* Whatever the alarm thread and the worker do, IInv holds.                *)
THEOREM Inductive == Spec => []IInv
<1>1. IInv /\ [Next]_vars => IInv'
  <2> SUFFICES ASSUME IInv, [Next]_vars PROVE IInv'
    OBVIOUS
  <2>1. CASE Request
    <3>1. CASE ForceStop
      BY <3>1, ForceStopInv
    <3> QED
      BY <2>1, <3>1, StartEventInv, ContinueEventInv, StopEventInv DEF Request
  <2>2. CASE \E p \in Packet : PushPacket(p)
    BY <2>2, PushPacketInv
  <2>3. CASE Close
    BY <2>3, FinalizeBeginInv, FetchMuxerInv, WriteTrailerInv, FinalizeEndInv,
       ForceStopEndInv, ShutdownEndInv, NotifyInv DEF Close
  <2>4. CASE ShutdownBegin
    BY <2>4, ShutdownBeginInv
  <2>5. CASE UNCHANGED vars
    BY <2>5 DEF vars, session, muxer, closing, files, IInv, TypeOK, LocalsInv,
      WindowInv, FinalizingWindow, MuxerInv, ClosingInv, ReportsClosedFileOnce, FilesInv,
      NoOpenFileLost, NamesInv, WindowParked, Closed, Inactive
  <2> QED
    BY <2>1, <2>2, <2>3, <2>4, <2>5 DEF Next
<1> QED
  BY InitInv, <1>1, PTL DEF Spec

(* TypeOK holds in every reachable state.                                  *)
THEOREM TypeCorrect == Spec => []TypeOK
<1>1. IInv => TypeOK
  BY DEF IInv
<1> QED
  BY Inductive, <1>1, PTL

(* FINALIZING lasts exactly as long as a file is being closed: no early    *)
(* return of finalize_and_rotate or force_stop leaves the state behind.    *)
THEOREM FinalizingWindowHolds == Spec => []FinalizingWindow
<1>1. IInv => FinalizingWindow
  BY DEF IInv, WindowInv
<1> QED
  BY Inductive, <1>1, PTL

(* No packet is ever written to a muxer whose trailer has been written.    *)
THEOREM NoWriteAfterTrailerHolds == Spec => []NoWriteAfterTrailer
<1>1. IInv => NoWriteAfterTrailer
  BY DEF IInv, NoWriteAfterTrailer, MuxerInv, LocalsInv, WindowInv, FinalizingWindow,
    TypeOK, Closed
<1> QED
  BY Inductive, <1>1, PTL

(* Every recording that was begun is closed before its muxer goes away.    *)
THEOREM NoOpenFileLostHolds == Spec => []NoOpenFileLost
<1>1. IInv => NoOpenFileLost
  BY DEF IInv, FilesInv
<1> QED
  BY Inductive, <1>1, PTL

(* on_video_save is called with the name of a closed file, once.           *)
THEOREM ReportsClosedFileOnceHolds == Spec => []ReportsClosedFileOnce
<1>1. IInv => ReportsClosedFileOnce
  BY DEF IInv, ClosingInv
<1> QED
  BY Inductive, <1>1, PTL

(* The window and its counters are at zero while an event is recorded.     *)
THEOREM WindowParkedHolds == Spec => []WindowParked
<1>1. IInv => WindowParked
  BY DEF IInv
<1> QED
  BY Inductive, <1>1, PTL

(* A session that begins an event or a chunk never opens, and so           *)
(* truncates, a file that exists already.                                  *)
THEOREM NamesAreFreshHolds == Spec => NamesAreFresh
<1> DEFINE begins == state' = "RECORDING" /\ state \in Inactive \cup {"FINALIZING"}
<1>1. IInv /\ [Next]_vars => [begins => curFile' \notin created]_vars
  <2> SUFFICES ASSUME IInv, Next, begins PROVE curFile' \notin created
    BY Zenon
  <2>1. CASE StartEvent
    <3>1. state \in Inactive
      BY <2>1 DEF StartEvent, session
    <3>2. \E outcome \in MuxerOutcomes :
             InitMuxer(<<eventId + 1, 0>>, outcome, ctx, outStream)
      BY <2>1, <3>1 DEF StartEvent
    <3> QED
      BY <3>2, NextNamesFresh DEF InitMuxer
  <2>2. CASE FinalizeEnd
    <3>1. \E outcome \in MuxerOutcomes :
             InitMuxer(<<eventId, chunkIdx + 1>>, outcome, NoFile, NoFile)
      BY <2>2 DEF FinalizeEnd, NextChunk
    <3> QED
      BY <3>1, NextNamesFresh DEF InitMuxer
  <2> QED
    BY <2>1, <2>2 DEF Next, Request, Close, ContinueEvent, StopEvent, PushPacket,
      PushToPreBuffer, PushToRecording, PushToPostBuffer, FinalizeBegin, FetchMuxer,
      WriteTrailer, ForceStop, ForceStopEnd, ShutdownBegin, ShutdownEnd, Notify,
      Inactive, session
<1> QED
  BY Inductive, <1>1, PTL DEF Spec, NamesAreFresh

(* Initialising a muxer creates a file in the sense of VideoFiles, or      *)
(* leaves the files alone.                                                 *)
LEMMA OpensNewFile ==
  ASSUME NEW f, NEW outcome, NEW s, InitMuxer(f, outcome, NoFile, s),
         f \notin created, opened \subseteq created, opened \subseteq Closed,
         UNCHANGED <<saved, removed, notified>>
  PROVE  [VF!Next]_(VF!vars)
<1>1. CASE created' = created
  <2>1. opened' = opened
    BY <1>1, InitMuxerResult
  <2> QED
    BY <1>1, <2>1 DEF VF!vars, Closed
<1>2. CASE created' # created
  <2>1. created' = created \cup {f} /\ opened' \in {opened, opened \cup {f}}
    BY <1>2, InitMuxerResult
  <2>2. opened \ Closed = {} /\ (opened \ Closed)' \in {{}, {f}}
    BY <2>1 DEF Closed
  <2> QED
    BY <2>1, <2>2 DEF VF!Next, VF!Create
<1> QED
  BY <1>1, <1>2

(* The session implements VideoFiles: one open file at a time, names used  *)
(* once, every recording closed once and reported at most once, afterwards.*)
THEOREM Refinement == Spec => ImplementsVideoFiles
<1>1. Init => VF!Init
  BY DEF Init, VF!Init, Closed
<1>2. IInv /\ [Next]_vars => [VF!Next]_(VF!vars)
  <2> SUFFICES ASSUME IInv, [Next]_vars PROVE [VF!Next]_(VF!vars)
    OBVIOUS
  <2>1. ASSUME UNCHANGED files PROVE [VF!Next]_(VF!vars)
    BY <2>1 DEF files, VF!vars, Closed
  <2>2. ASSUME StartEvent, ~shutdownRequested PROVE [VF!Next]_(VF!vars)
    <3>1. CASE state \notin Inactive
      BY <2>1, <2>2, <3>1 DEF StartEvent
    <3>2. CASE state \in Inactive
      <4>1. ctx = NoFile
        BY <2>2, <3>2 DEF IInv, TypeOK, LocalsInv, WindowInv, FinalizingWindow, MuxerInv,
          Inactive
      <4>2. opened \subseteq Closed
        BY <4>1, SessionAssumption DEF IInv, TypeOK, FilesInv, NoOpenFileLost
      <4>3. PICK outcome : InitMuxer(<<eventId + 1, 0>>, outcome, NoFile, outStream)
        BY <2>2, <3>2, <4>1 DEF StartEvent
      <4>4. UNCHANGED <<saved, removed, notified>>
        BY <2>2 DEF StartEvent, files
      <4> QED
        BY <4>2, <4>3, <4>4, NextNamesFresh, OpensNewFile DEF IInv, TypeOK
    <3> QED
      BY <3>1, <3>2
  <2>3. CASE Request
    BY <2>1, <2>2, <2>3 DEF Request, ContinueEvent, StopEvent, ForceStop
  <2>4. ASSUME FinalizeEnd PROVE [VF!Next]_(VF!vars)
    <3>1. CASE op = "rotate"
      <4>1. path # NoFile /\ path = ctx /\ path \in Closed
        BY <2>4, <3>1 DEF FinalizeEnd, IInv, LocalsInv, ClosingInv
      <4>2. opened \subseteq Closed
        BY <4>1 DEF IInv, FilesInv, NoOpenFileLost
      <4>3. PICK outcome : InitMuxer(<<eventId, chunkIdx + 1>>, outcome, NoFile, NoFile)
        BY <2>4, <3>1 DEF FinalizeEnd, NextChunk
      <4>4. UNCHANGED <<saved, removed, notified>>
        BY <2>4 DEF FinalizeEnd
      <4> QED
        BY <4>2, <4>3, <4>4, NextNamesFresh, OpensNewFile DEF IInv, TypeOK
    <3>2. CASE op = "finish"
      BY <2>1, <2>4, <3>2 DEF FinalizeEnd, files
    <3> QED
      BY <2>4, <3>1, <3>2 DEF FinalizeEnd
  <2>5. ASSUME WriteTrailer PROVE [VF!Next]_(VF!vars)
    <3>1. fmt = ctx /\ path = ctx /\ ctx \in opened \ Closed
      BY <2>5 DEF WriteTrailer, IInv, ClosingInv, MuxerInv, LocalsInv
    <3>2. opened \ Closed = {ctx}
      BY <3>1 DEF IInv, FilesInv, NoOpenFileLost
    <3>3. /\ \/ saved' = saved \cup {ctx} /\ UNCHANGED removed
             \/ removed' = removed \cup {ctx} /\ UNCHANGED saved
          /\ UNCHANGED <<created, opened, notified>>
      BY <2>5, <3>1 DEF WriteTrailer
    <3>4. (opened \ Closed)' = (opened \ Closed) \ {ctx}
      BY <3>3 DEF Closed
    <3> QED
      BY <3>1, <3>3, <3>4 DEF VF!Next, VF!Close
  <2>6. ASSUME Notify PROVE [VF!Next]_(VF!vars)
    <3>1. path \in VF!Closed \ notified
      BY <2>6 DEF Notify, IInv, ClosingInv, ReportsClosedFileOnce, Closed, VF!Closed
    <3> QED
      BY <2>6, <3>1 DEF Notify, VF!Next, VF!Notify, Closed
  <2>7. CASE Close
    BY <2>1, <2>4, <2>5, <2>6, <2>7
    DEF Close, FinalizeBegin, FetchMuxer, ForceStopEnd, ShutdownEnd
  <2>8. CASE \E p \in Packet : PushPacket(p)
    BY <2>1, <2>8 DEF PushPacket, PushToPreBuffer, PushToRecording, PushToPostBuffer
  <2>9. CASE ShutdownBegin
    BY <2>1, <2>9 DEF ShutdownBegin
  <2>10. CASE UNCHANGED vars
    BY <2>1, <2>10 DEF vars
  <2> QED
    BY <2>3, <2>7, <2>8, <2>9, <2>10 DEF Next
<1> QED
  BY Inductive, <1>1, <1>2, PTL DEF Spec, ImplementsVideoFiles, VF!Spec

-----------------------------------------------------------------------------
(* The window within the session.  PreBuffer lets packets arrive and       *)
(* events drain the window; force_stop and shutdown also empty it, without *)
(* resetting all of its counters.                                          *)

WindowKept == Bounded(preBuf) /\ (shutdownRequested \/ Sound(preBuf))

LEMMA WindowKeptStep ==
  IInv /\ WindowKept /\ [Next]_vars => WindowKept'
<1> SUFFICES ASSUME IInv, WindowKept, [Next]_vars
             PROVE  WindowKept'
  OBVIOUS
<1>1. ASSUME NEW p \in Packet, PushToPreBuffer(p)
      PROVE  WindowKept'
  <2>1. Sound(preBuf)
    BY <1>1 DEF PushToPreBuffer, WindowKept
  <2>2. preBuf' = Added(preBuf, p)
    BY <1>1 DEF PushToPreBuffer, AddToPreBuffer
  <2> QED BY <2>1, <2>2, AddedSoundAndBounded DEF WindowKept
<1>2. CASE StartEvent
  <2>1. preBuf' = preBuf \/ preBuf' = EmptyBuffer
    BY <1>2 DEF StartEvent, DrainPreBuffer
  <2>2. shutdownRequested' = shutdownRequested
    BY <1>2 DEF StartEvent
  <2> QED BY <2>1, <2>2, EmptyBufferSound DEF WindowKept
<1>3. CASE ForceStop
  <2>1. preBuf = EmptyBuffer
    BY <1>3 DEF IInv, WindowParked, TypeOK, States, Inactive, ForceStop
  <2>2. preBuf' = EmptyBuffer
    BY <1>3, <2>1 DEF ForceStop, EmptyBuffer
  <2> QED BY <2>2, EmptyBufferSound DEF WindowKept
<1>4. CASE ShutdownBegin
  <2>1. shutdownRequested' = TRUE /\ preBuf' = [preBuf EXCEPT !.pkts = <<>>]
    BY <1>4 DEF ShutdownBegin
  <2>2. preBuf'.iframes = preBuf.iframes /\ preBuf'.bytes = preBuf.bytes
    BY <2>1
  <2>3. Len(preBuf'.pkts) = 0 \/ preBuf'.pkts = preBuf.pkts
    BY <2>1
  <2>4. Len(preBuf'.pkts) <= MaxPreBufferPackets
    BY <2>3, BufferAssumption DEF WindowKept, Bounded
  <2> QED BY <2>1, <2>2, <2>4 DEF WindowKept, Bounded
<1>5. CASE UNCHANGED <<preBuf, shutdownRequested>>
  BY <1>5 DEF WindowKept
<1> QED
  BY <1>1, <1>2, <1>3, <1>4, <1>5
     DEF Next, Request, Close, ContinueEvent, StopEvent, PushPacket, PushToRecording,
         PushToPostBuffer, FinalizeBegin, FetchMuxer, WriteTrailer, FinalizeEnd,
         ForceStopEnd, ShutdownEnd, Notify, vars

LEMMA WindowKeptHolds == Spec => []WindowKept
<1>1. Init => WindowKept
  BY EmptyBufferSound DEF Init, BufferInit, WindowKept
<1> QED
  BY <1>1, WindowKeptStep, Inductive, PTL DEF Spec

(***************************************************************************)
(* In a session too, through any events, lost connections and failures of  *)
(* the muxer, the window stays within its three limits, and its counters   *)
(* say what is in it until shutdown is requested; from then on nothing is  *)
(* put into it any more.                                                   *)
(***************************************************************************)
THEOREM SessionWindowBounded ==
  Spec => [](WindowBounded /\ (~shutdownRequested => WindowAccounts))
<1>1. WindowKept => WindowBounded /\ (~shutdownRequested => WindowAccounts)
  BY DEF WindowKept, Bounded, Sound, WindowBounded, WindowAccounts
<1> QED
  BY <1>1, WindowKeptHolds, PTL

-----------------------------------------------------------------------------
(* The node                                                                *)

(* How far CameraManager::stop has come bounds what the others may do.     *)
JoinInv ==
  /\ initialized <=> main \in {"run", "joining", "joined"}
  /\ main \notin {"run", "joining"} => alarm = "idle" /\ monitor = "idle"
  /\ main \in {"shutdown", "destroy", "done"} => worker = "exited"
  /\ worker = "exited" /\ main \notin {"destroy", "done"} => pc = "idle"
  /\ shutdownRequested => main \in {"destroy", "done"}

NodeInv == NodeTypeOK /\ JoinInv

LEMMA NodeInitInv == NodeInit => NodeInv
  BY DEF NodeInit, NodeInv, NodeTypeOK, JoinInv, Init, CycleInit, CycleTypeOK

(* The stream's own steps keep its type invariant.                         *)
LEMMA CycleStepInv == CycleTypeOK /\ CycleNext => CycleTypeOK'
<1> SUFFICES ASSUME CycleTypeOK, CycleNext PROVE CycleTypeOK'
  OBVIOUS
<1> USE DEF CycleNext, TestStop, GiveUp, Open, Connect, ConnectFails, EnterRead,
      ReadReturns, ReadEnds, CloseInput, MarkDead, ReportLost, Conclude, RequestStop,
      CloseAfterJoin, At
<1>1. alive' \in BOOLEAN /\ input' \in BOOLEAN
  BY DEF CycleTypeOK
<1>2. wasConnected' \in BOOLEAN /\ stopping' \in BOOLEAN
  BY DEF CycleTypeOK
<1>3. worker' \in {"top", "connecting", "opened", "loop", "reading", "leaving",
                  "closed", "dead", "lost", "exited"}
  BY DEF CycleTypeOK
<1>4. worker' \in {"opened", "loop", "reading", "leaving"} => input'
  BY DEF CycleTypeOK
<1>5. input' => worker' \in {"opened", "loop", "reading", "leaving"}
  BY DEF CycleTypeOK
<1>6. worker' \in {"loop", "reading", "leaving"} => alive' /\ wasConnected'
  BY DEF CycleTypeOK
<1>7. (worker' \in {"dead", "lost"} => ~alive') /\ (worker' = "lost" => wasConnected')
  BY DEF CycleTypeOK
<1> QED
  BY <1>1, <1>2, <1>3, <1>4, <1>5, <1>6, <1>7 DEF CycleTypeOK

(* A worker that has ended does nothing more, and only Conclude, GiveUp    *)
(* and TestStop end it; none of the worker's steps touches the stop token. *)
LEMMA WorkerSteps ==
  ASSUME CycleTypeOK,
         \/ TestStop \/ Open \/ Connect \/ ConnectFails
         \/ EnterRead \/ ReadReturns \/ ReadEnds
         \/ CloseInput \/ MarkDead \/ Conclude \/ ReportLost
  PROVE  /\ worker # "exited" /\ UNCHANGED stopping
         /\ CycleNext /\ CycleTypeOK'
<1>1. worker # "exited" /\ UNCHANGED stopping
  BY DEF TestStop, Open, Connect, ConnectFails, EnterRead, ReadReturns,
    ReadEnds, CloseInput, MarkDead, Conclude, ReportLost, At
<1>2. CycleNext
  BY DEF CycleNext
<1> QED
  BY <1>1, <1>2, CycleStepInv

(* The worker's steps; what it starts in the session takes place before    *)
(* it has ended.                                                           *)
LEMMA WorkerStepInv ==
  ASSUME NodeInv, WorkerStep
  PROVE  NodeInv' /\ [Next]_vars
<1> USE DEF NodeInv, NodeTypeOK, JoinInv, Worker
<1>1. CASE Connecting \/ Looping
  <2>1. /\ worker # "exited" /\ UNCHANGED stopping
        /\ CycleNext /\ CycleTypeOK'
    BY <1>1, WorkerSteps DEF Connecting, Looping
  <2>2. pc = "idle" /\ UNCHANGED <<vars, initialized, alarm, monitor, main>>
    BY <1>1 DEF Connecting, Looping
  <2>3. UNCHANGED <<pc, shutdownRequested>>
    BY <2>2 DEF vars, closing
  <2> QED
    BY <2>1, <2>2, <2>3
<1>2. CASE Read
  <2>1. /\ worker # "exited" /\ UNCHANGED stopping
        /\ CycleNext /\ CycleTypeOK'
    BY <1>2, WorkerSteps DEF Read
  <2>2. /\ UNCHANGED <<initialized, alarm, monitor, main>>
        /\ (\E p \in Packet : PushPacket(p)) \/ UNCHANGED vars
    BY <1>2 DEF Read
  <2>3. UNCHANGED shutdownRequested
    BY <2>2 DEF PushPacket, PushToPreBuffer, PushToRecording, PushToPostBuffer, vars
  <2>4. worker' # "exited"
    BY <1>2 DEF Read, ReadReturns, At
  <2> QED
    BY <2>1, <2>2, <2>3, <2>4 DEF Next
<1>3. CASE Lost
  <2>1. /\ worker # "exited" /\ UNCHANGED stopping
        /\ CycleNext /\ CycleTypeOK'
    BY <1>3, WorkerSteps DEF Lost
  <2>2. /\ UNCHANGED <<initialized, alarm, monitor, main>>
        /\ ForceStop \/ UNCHANGED vars
    BY <1>3 DEF Lost
  <2>3. UNCHANGED shutdownRequested
    BY <2>2 DEF ForceStop, vars
  <2>4. ~shutdownRequested
    BY <2>1
  <2>5. worker' # "exited"
    BY <1>3 DEF Lost, ReportLost, At
  <2>6. [Next]_vars
    BY <2>2, <2>4 DEF Next, Request
  <2>7. NodeInv'
    BY <2>1, <2>2, <2>3, <2>4, <2>5
  <2> QED
    BY <2>1, <2>6, <2>7
<1>4. CASE CloseFile
  <2>1. Close /\ UNCHANGED <<stream, initialized, alarm, monitor, main>>
    BY <1>4 DEF CloseFile
  <2>2. pc # "idle" /\ UNCHANGED shutdownRequested
    BY <2>1 DEF Close, FinalizeBegin, FetchMuxer, WriteTrailer, FinalizeEnd,
      ForceStopEnd, ShutdownEnd, Notify
  <2>3. CycleTypeOK' /\ UNCHANGED <<worker, stopping>>
    BY <2>1 DEF stream, CycleTypeOK
  <2> QED
    BY <2>1, <2>2, <2>3 DEF Next
<1> QED
  BY <1>1, <1>2, <1>3, <1>4 DEF WorkerStep

(* What the calls of on_alarm do to the session.                           *)
AlarmMoves == AlarmStart \/ ReadState \/ GetCodecParams \/ GetStreamInfo
                \/ AlarmStop \/ TimeoutStop

AlarmReaches == CallStart \/ CallContinue \/ CallStop \/ CallTimeoutStop

LEMMA AlarmSteps ==
  ASSUME NodeTypeOK, AlarmStep
  PROVE  /\ UNCHANGED <<stream, initialized, main>>
         /\ AlarmMoves \/ AlarmReaches
         /\ AlarmMoves => UNCHANGED vars /\ (main = "run" \/ UNCHANGED monitor)
         /\ AlarmMoves => main = "run" \/ alarm # "idle"
         /\ AlarmReaches => StartEvent \/ ContinueEvent \/ StopEvent \/ UNCHANGED vars
         /\ AlarmReaches => /\ alarm # "idle" \/ monitor # "idle"
                            /\ alarm' \in {alarm, "idle"}
                            /\ monitor' \in {monitor, "idle"}
BY DEF AlarmStep, AlarmMoves, AlarmReaches, AlarmStart, ReadState, GetCodecParams,
  GetStreamInfo, CallStart, CallContinue, AlarmStop, CallStop, TimeoutStop, CallTimeoutStop,
  SessionStop, Alarms, Monitors, Accepts

(* Alarms leave the worker and the closing of files alone, and reach the   *)
(* session before the alarm and monitor threads have been joined.          *)
LEMMA AlarmStepInv ==
  ASSUME NodeInv, AlarmStep
  PROVE  NodeInv' /\ [Next]_vars /\ UNCHANGED stream
<1> USE DEF NodeInv, JoinInv
<1>1. UNCHANGED <<stream, initialized, main>>
  BY AlarmSteps
<1>2. alarm' \in {"idle", "state", "params", "info", "start", "continue", "stop"}
      /\ monitor' \in {"idle", "stop"}
  BY DEF NodeTypeOK, AlarmStep, AlarmStart, ReadState, GetCodecParams, GetStreamInfo,
    CallStart, CallContinue, AlarmStop, CallStop, TimeoutStop, CallTimeoutStop, Alarms,
    Monitors
<1>3. NodeTypeOK'
  BY <1>1, <1>2 DEF NodeTypeOK, CycleTypeOK, stream
<1>4. main \in {"run", "joining"} /\ ~shutdownRequested
  BY AlarmSteps
<1>5. StartEvent \/ ContinueEvent \/ StopEvent \/ UNCHANGED vars
  BY AlarmSteps
<1>6. UNCHANGED <<pc, shutdownRequested>>
  BY <1>5 DEF StartEvent, ContinueEvent, StopEvent, vars, closing
<1>7. JoinInv'
  BY <1>1, <1>4, <1>6 DEF stream
<1>8. [Next]_vars
  BY <1>4, <1>5 DEF Next, Request
<1> QED
  BY <1>1, <1>3, <1>7, <1>8

LEMMA MainStepInv ==
  ASSUME NodeInv, MainStep
  PROVE  NodeInv' /\ [Next]_vars
<1> USE DEF NodeInv, NodeTypeOK, CycleTypeOK, JoinInv, Main, stream
<1>1. CASE StopAlarmThreads \/ JoinAlarmThreads
  BY <1>1 DEF StopAlarmThreads, JoinAlarmThreads, vars, closing
<1>2. CASE StopNode
  BY <1>2 DEF StopNode, vars, closing
<1>3. CASE StopWorker
  BY <1>3 DEF StopWorker, RequestStop, vars, closing
<1>4. CASE JoinWorker
  BY <1>4 DEF JoinWorker, CloseAfterJoin, vars, closing
<1>5. CASE Shutdown
  <2>1. ShutdownBegin /\ UNCHANGED <<stream, initialized, alarm, monitor>>
        /\ main \in {"shutdown", "destroy"} /\ main' \in {"destroy", "done"}
    BY <1>5 DEF Shutdown
  <2> QED
    BY <2>1 DEF Next
<1> QED
  BY <1>1, <1>2, <1>3, <1>4, <1>5 DEF MainStep

LEMMA NodeStep ==
  NodeInv /\ [NodeNext]_nodeVars => NodeInv' /\ [Next]_vars
<1> SUFFICES ASSUME NodeInv, [NodeNext]_nodeVars
             PROVE  NodeInv' /\ [Next]_vars
  OBVIOUS
<1>1. CASE UNCHANGED nodeVars
  BY <1>1 DEF nodeVars, stream, vars, closing, NodeInv, NodeTypeOK, CycleTypeOK, JoinInv
<1> QED
  BY <1>1, WorkerStepInv, AlarmStepInv, MainStepInv DEF NodeNext, Terminated

(* Every step of the camera's threads is a step that RecordingSession      *)
(* allows, or leaves the session alone.                                    *)
THEOREM NodeImplementsSession == NodeSpec => ImplementsSession
<1>1. NodeInit => Init
  BY DEF NodeInit
<1> QED
  BY <1>1, NodeInitInv, NodeStep, PTL DEF NodeSpec, ImplementsSession, Spec

(* NodeInv holds in every reachable state.                                 *)
THEOREM NodeInductive == NodeSpec => []NodeInv
  BY NodeInitInv, NodeStep, PTL DEF NodeSpec

(* The types of the node, and of the stream in it.                         *)
THEOREM NodeTypeCorrect == NodeSpec => []NodeTypeOK
<1>1. NodeInv => NodeTypeOK
  BY DEF NodeInv
<1> QED
  BY NodeInductive, <1>1, PTL

(* The session is shut down only when all the threads that use it are done.*)
THEOREM QuietBeforeShutdownHolds == NodeSpec => []QuietBeforeShutdown
<1>1. NodeInv => QuietBeforeShutdown
  BY DEF NodeInv, JoinInv, QuietBeforeShutdown
<1> QED
  BY NodeInductive, <1>1, PTL

(* Packets go to an open file whatever the camera's threads do.            *)
THEOREM NodeNoWriteAfterTrailer == NodeSpec => []NoWriteAfterTrailer
  BY NodeImplementsSession, NoWriteAfterTrailerHolds, PTL DEF ImplementsSession

-----------------------------------------------------------------------------
(* A clean stop                                                            *)

(* Once shutdown has begun the session is IDLE and stays so.               *)
IdleInv == main \in {"destroy", "done"} => state = "IDLE"

LEMMA IdleStep == NodeInv /\ IInv /\ IdleInv /\ [NodeNext]_nodeVars => IdleInv'
<1> SUFFICES ASSUME NodeInv, IInv, IdleInv, [NodeNext]_nodeVars PROVE IdleInv'
  OBVIOUS
<1> USE DEF IdleInv, NodeInv, JoinInv
<1>1. CASE WorkerStep
  <2>1. UNCHANGED main
    BY <1>1 DEF WorkerStep, Connecting, Looping, Read, Lost, CloseFile, Worker
  <2> SUFFICES ASSUME main \in {"destroy", "done"} PROVE state' = "IDLE"
    BY <2>1
  <2>2. worker = "exited" /\ state = "IDLE"
    OBVIOUS
  <2>3. CloseFile
    BY <1>1, <2>2, WorkerSteps DEF NodeTypeOK, WorkerStep, Connecting, Looping, Read, Lost,
      Worker
  <2>4. ~FinalizeBegin /\ ~FinalizeEnd /\ ~ForceStopEnd
    BY <2>2 DEF IInv, WindowInv, FinalizingWindow, FinalizeBegin, FinalizeEnd, ForceStopEnd
  <2> QED
    BY <2>2, <2>3, <2>4 DEF CloseFile, Close, FetchMuxer, WriteTrailer, ShutdownEnd, Notify,
      session
<1>2. CASE AlarmStep
  <2>1. UNCHANGED main
    BY <1>2, AlarmSteps
  <2>2. main \notin {"destroy", "done"}
    BY <1>2, AlarmSteps
  <2> QED
    BY <2>1, <2>2
<1>3. CASE MainStep
  BY <1>3 DEF MainStep, StopAlarmThreads, JoinAlarmThreads, StopNode, StopWorker,
    JoinWorker, Shutdown, ShutdownBegin, Main, vars, session
<1>4. CASE UNCHANGED nodeVars
  BY <1>4 DEF nodeVars, vars, session
<1> QED
  BY <1>1, <1>2, <1>3, <1>4 DEF NodeNext, Terminated

(* When the process is done, the session is idle, has no muxer, and every  *)
(* recording it ever began has been closed.                                *)
THEOREM StopLeavesNothingOpenHolds == NodeSpec => []StopLeavesNothingOpen
<1>1. NodeInit => IdleInv
  BY DEF NodeInit, IdleInv
<1>2. NodeInv /\ IInv /\ IdleInv => StopLeavesNothingOpen
  BY SessionAssumption DEF StopLeavesNothingOpen, IdleInv, IInv, MuxerInv, FilesInv,
    NoOpenFileLost, TypeOK, Inactive, Closed
<1>3. NodeSpec => []IInv
  BY NodeImplementsSession, Inductive, PTL DEF ImplementsSession
<1> QED
  BY <1>1, <1>2, <1>3, NodeInductive, IdleStep, PTL DEF NodeSpec

-----------------------------------------------------------------------------
(* The calls of a camera                                                   *)

(* What the manager sees of a camera is a function of initialized_, the    *)
(* session and the places of the threads; these are the changes of its     *)
(* recording that CameraLife names.                                        *)
LEMMA LifeStill ==
  ASSUME initialized' = initialized, Recording' <=> Recording,
         Recording => (lastAlarm' = "stop" <=> lastAlarm = "stop")
  PROVE  UNCHANGED Calls!life
BY DEF Calls!life

LEMMA LifeStarts ==
  ASSUME initialized, initialized' = initialized, Recording', lastAlarm' # "stop"
  PROVE  Calls!Start(1)
BY DEF Calls!Start

LEMMA LifeStops ==
  ASSUME initialized' = initialized, Recording' => Recording /\ lastAlarm' = "stop"
  PROVE  Calls!Stop(1)
BY DEF Calls!Stop

LEMMA LifeBreaks ==
  ASSUME initialized' = initialized, ~ Recording'
  PROVE  Calls!Break(1) \/ (1 \notin (IF Recording THEN {1} ELSE {}) /\ UNCHANGED Calls!life)
BY DEF Calls!Break, Calls!life

(* A Start or Continue that reaches the session.                           *)
LEMMA SessionStarts ==
  ASSUME StartEvent \/ ContinueEvent \/ UNCHANGED vars, initialized' = initialized
  PROVE  Calls!Start(1)
<1> USE DEF Recording, Rotating
<1>1. UNCHANGED Calls!life => Calls!Start(1)
  BY DEF Calls!Start
<1>2. CASE ~ initialized
  BY <1>1, <1>2, LifeStill
<1>3. CASE initialized /\ StartEvent
  <2>1. lastAlarm' = "start" /\ op' = op
    BY <1>3 DEF StartEvent, closing
  <2>2. state' = "RECORDING" \/ state' = state
    BY <1>3 DEF StartEvent, session
  <2> QED
    BY <1>1, <1>3, <2>1, <2>2, LifeStarts, LifeStill
<1>4. CASE initialized /\ ContinueEvent
  <2>1. lastAlarm' = "continue" /\ op' = op /\ (state' = state \/ state' = "RECORDING")
    BY <1>4 DEF ContinueEvent, closing
  <2> QED
    BY <1>1, <1>4, <2>1, LifeStarts, LifeStill
<1>5. CASE UNCHANGED vars
  <2>1. UNCHANGED <<state, op, lastAlarm>>
    BY <1>5 DEF vars, session, closing
  <2> QED
    BY <1>1, <2>1, LifeStill
<1> QED
  BY <1>2, <1>3, <1>4, <1>5

(* A Stop that reaches the session is obeyed or on record.                 *)
LEMMA SessionStops ==
  ASSUME SessionStop, initialized' = initialized
  PROVE  Calls!Stop(1)
<1> USE DEF Recording, Rotating
<1>1. CASE state \in Inactive
  <2>1. UNCHANGED <<state, op>>
    BY <1>1 DEF SessionStop, vars, session, closing
  <2> QED
    BY <1>1, <2>1, LifeStops DEF Inactive
<1>2. CASE StopEvent
  <2>1. lastAlarm' = "stop" /\ op' = op
    BY <1>2 DEF StopEvent, closing
  <2>2. state' = state \/ (state = "RECORDING" /\ state' = "POST_BUFFER")
    BY <1>2 DEF StopEvent
  <2> QED
    BY <2>1, <2>2, LifeStops
<1> QED
  BY <1>1, <1>2 DEF SessionStop

(* Packets, and the closing of files, neither begin nor end a recording.   *)
LEMMA SessionStill ==
  ASSUME IInv, initialized' = initialized,
         (\E p \in Packet : PushPacket(p)) \/ Close \/ UNCHANGED vars
  PROVE  UNCHANGED Calls!life
<1> USE DEF Recording, Rotating
<1>1. CASE \E p \in Packet : PushPacket(p)
  <2>1. UNCHANGED <<state, op, lastAlarm>>
    BY <1>1 DEF PushPacket, PushToPreBuffer, PushToRecording, PushToPostBuffer, session, closing
  <2> QED
    BY <2>1, LifeStill
<1>2. CASE Close
  <2> USE DEF IInv, WindowInv, FinalizingWindow
  <2>1. CASE FinalizeBegin
    <3>1. /\ state \in {"RECORDING", "POST_BUFFER"} /\ lastAlarm' = lastAlarm
          /\ state' = "RECORDING" \/ (state' = "FINALIZING" /\ op' = "rotate") <=>
               state = "RECORDING"
      BY <2>1 DEF FinalizeBegin, Return
    <3> QED
      BY <3>1, LifeStill
  <2>2. CASE FetchMuxer \/ WriteTrailer
    <3>1. UNCHANGED <<state, op, lastAlarm>>
      BY <2>2 DEF FetchMuxer, WriteTrailer, session
    <3> QED
      BY <3>1, LifeStill
  <2>3. CASE FinalizeEnd
    <3>1. lastAlarm' = lastAlarm /\ pc = "end"
      BY <2>3 DEF FinalizeEnd
    <3>2. CASE op = "rotate"
      <4>1. state = "FINALIZING" /\ state' = "RECORDING"
        BY <2>3, <3>1, <3>2 DEF FinalizeEnd
      <4> QED
        BY <3>1, <3>2, <4>1, LifeStill
    <3>3. CASE op = "finish"
      <4>1. state = "FINALIZING" /\ state' = "PRE_BUFFER"
        BY <2>3, <3>1, <3>3 DEF FinalizeEnd
      <4> QED
        BY <3>1, <3>3, <4>1, LifeStill
    <3> QED
      BY <2>3, <3>2, <3>3 DEF FinalizeEnd
  <2>4. CASE ForceStopEnd
    <3>1. /\ lastAlarm' = lastAlarm /\ state' = "PRE_BUFFER"
          /\ op = "force" /\ state = "FINALIZING"
      BY <2>4 DEF ForceStopEnd
    <3> QED
      BY <3>1, LifeStill
  <2>5. CASE ShutdownEnd
    <3>1. lastAlarm' = lastAlarm /\ state' = state /\ state = "IDLE"
      BY <2>5 DEF ShutdownEnd, session
    <3> QED
      BY <3>1, LifeStill
  <2>6. CASE Notify
    <3>1. lastAlarm' = lastAlarm /\ state' = state /\ state # "FINALIZING"
      BY <2>6 DEF Notify, session
    <3> QED
      BY <3>1, LifeStill
  <2> QED
    BY <1>2, <2>1, <2>2, <2>3, <2>4, <2>5, <2>6 DEF Close
<1>3. CASE UNCHANGED vars
  <2>1. UNCHANGED <<state, op, lastAlarm>>
    BY <1>3 DEF vars, session, closing
  <2> QED
    BY <2>1, LifeStill
<1> QED
  BY <1>1, <1>2, <1>3

(* The worker: what it does to the session leaves the recording alone, but *)
(* for the report of a loss, and it finds the connection in between.       *)
LEMMA WorkerCalls ==
  ASSUME NodeInv, IInv, WorkerStep
  PROVE  Calls!Found \/ Calls!LoseConnection \/ UNCHANGED Calls!calls
<1> USE DEF Calls!calls
<1>1. UNCHANGED <<initialized, alarm, monitor>>
  BY DEF WorkerStep, Connecting, Looping, Read, Lost, CloseFile, Worker
<1>2. CASE Connecting \/ Looping \/ Read \/ CloseFile
  <2>1. UNCHANGED Calls!life
    BY <1>1, <1>2, SessionStill DEF Connecting, Looping, Read, CloseFile
  <2>2. wasConnected' \in {wasConnected, TRUE}
    BY <1>2 DEF Connecting, Looping, Read, CloseFile, Worker, TestStop, Open, Connect,
      ConnectFails, EnterRead, ReadReturns, ReadEnds, CloseInput, MarkDead, Conclude, stream
  <2> QED
    BY <1>1, <2>1, <2>2 DEF Calls!Found
<1>3. CASE Lost
  <2>1. wasConnected /\ wasConnected' = FALSE /\ pc = "idle"
    BY <1>3 DEF Lost, Worker, ReportLost, At, NodeInv, NodeTypeOK, CycleTypeOK
  <2>2. CASE initialized /\ state \notin Inactive
    <3>1. ~ Recording'
      BY <1>3, <2>2 DEF Lost, ForceStop, Recording, Rotating
    <3> QED
      BY <1>1, <2>1, <3>1, LifeBreaks DEF Calls!LoseConnection
  <2>3. CASE ~ (initialized /\ state \notin Inactive)
    <3>1. UNCHANGED vars
      BY <1>3, <2>3 DEF Lost
    <3>2. ~ Recording
      BY <2>3 DEF Recording, Rotating, Inactive
    <3>3. UNCHANGED Calls!life
      BY <1>1, <3>1, SessionStill
    <3> QED
      BY <1>1, <2>1, <3>2, <3>3 DEF Calls!LoseConnection
  <2> QED
    BY <2>2, <2>3
<1> QED
  BY <1>2, <1>3 DEF WorkerStep

(* The calls of on_alarm begin without an effect and have it on return.    *)
LEMMA AlarmCalls ==
  ASSUME NodeInv, IInv, AlarmStep
  PROVE  \/ \E status \in {"start", "stop"} : Calls!AlarmBegins(status)
         \/ Calls!AlarmReturns \/ Calls!TimeoutBegins \/ Calls!TimeoutReturns
         \/ UNCHANGED Calls!calls
<1> USE DEF Calls!calls
<1>1. UNCHANGED <<initialized, wasConnected>>
  BY AlarmSteps DEF NodeInv, stream
<1>2. ASSUME UNCHANGED vars PROVE UNCHANGED Calls!life
  BY <1>1, <1>2, SessionStill
<1>3. CASE AlarmStart
  <2>1. /\ initialized /\ alarm = "idle" /\ alarm' \in {"idle", "state"}
        /\ UNCHANGED vars /\ UNCHANGED monitor
    BY <1>3 DEF AlarmStart, Accepts, Alarms
  <2> QED
    BY <1>1, <1>2, <2>1 DEF Calls!AlarmBegins
<1>4. CASE ReadState
  BY <1>1, <1>2, <1>4 DEF ReadState, Alarms
<1>5. CASE GetCodecParams \/ GetStreamInfo
  <2>1. /\ alarm \in {"params", "info"} /\ alarm' \in {"info", "start", "idle"}
        /\ UNCHANGED vars /\ UNCHANGED monitor
    BY <1>5 DEF GetCodecParams, GetStreamInfo, Alarms
  <2>2. Calls!Start(1)
    BY <1>1, <2>1, SessionStarts
  <2> QED
    BY <1>1, <1>2, <2>1, <2>2 DEF Calls!AlarmReturns, Calls!OnAlarm
<1>6. CASE CallStart \/ CallContinue
  <2>1. /\ alarm \in {"start", "continue"} /\ alarm' = "idle" /\ UNCHANGED monitor
        /\ StartEvent \/ ContinueEvent \/ UNCHANGED vars
    BY <1>6 DEF CallStart, CallContinue, Alarms
  <2>2. Calls!Start(1)
    BY <1>1, <2>1, SessionStarts
  <2> QED
    BY <1>1, <2>1, <2>2 DEF Calls!AlarmReturns, Calls!OnAlarm
<1>7. CASE AlarmStop
  <2>1. /\ initialized /\ alarm = "idle" /\ alarm' = "stop"
        /\ UNCHANGED vars /\ UNCHANGED monitor
    BY <1>7 DEF AlarmStop, Accepts, Alarms
  <2> QED
    BY <1>1, <1>2, <2>1 DEF Calls!AlarmBegins
<1>8. CASE CallStop
  <2>1. /\ alarm = "stop" /\ alarm' = "idle" /\ UNCHANGED monitor
        /\ SessionStop
    BY <1>8 DEF CallStop, Alarms
  <2>2. Calls!Stop(1)
    BY <1>1, <2>1, SessionStops
  <2> QED
    BY <1>1, <2>1, <2>2 DEF Calls!AlarmReturns, Calls!OnAlarm
<1>9. CASE TimeoutStop
  <2>1. /\ initialized /\ monitor = "idle" /\ monitor' = "stop"
        /\ UNCHANGED vars /\ UNCHANGED alarm
    BY <1>9 DEF TimeoutStop, Accepts, Monitors
  <2> QED
    BY <1>1, <1>2, <2>1 DEF Calls!TimeoutBegins
<1>10. CASE CallTimeoutStop
  <2>1. /\ monitor = "stop" /\ monitor' = "idle" /\ UNCHANGED alarm
        /\ SessionStop
    BY <1>10 DEF CallTimeoutStop, Monitors
  <2>2. Calls!Stop(1)
    BY <1>1, <2>1, SessionStops
  <2> QED
    BY <1>1, <2>1, <2>2 DEF Calls!TimeoutReturns, Calls!OnAlarm
<1> QED
  BY <1>3, <1>4, <1>5, <1>6, <1>7, <1>8, <1>9, <1>10 DEF AlarmStep

(* The main thread ends the camera between calls; what it does afterwards  *)
(* the manager does not see any more.                                      *)
LEMMA MainCalls ==
  ASSUME NodeInv, IInv, MainStep
  PROVE  Calls!Ends \/ UNCHANGED Calls!calls
<1> USE DEF Calls!calls, NodeInv, JoinInv
<1>1. UNCHANGED <<alarm, monitor, wasConnected>>
  BY DEF MainStep, StopAlarmThreads, JoinAlarmThreads, StopNode, StopWorker, JoinWorker,
    Shutdown, Main, RequestStop, CloseAfterJoin, stream
<1>2. CASE StopAlarmThreads \/ JoinAlarmThreads \/ StopWorker \/ JoinWorker
  <2>1. UNCHANGED <<vars, initialized>>
    BY <1>2 DEF StopAlarmThreads, JoinAlarmThreads, StopWorker, JoinWorker
  <2> QED
    BY <1>1, <2>1, SessionStill
<1>3. CASE StopNode
  <2>1. initialized' = FALSE /\ alarm = "idle" /\ monitor = "idle"
    BY <1>3 DEF StopNode, Main
  <2> QED
    BY <1>1, <2>1 DEF Calls!Ends, Calls!Retire, Recording
<1>4. CASE Shutdown
  <2>1. initialized = FALSE /\ initialized' = FALSE
    BY <1>4 DEF Shutdown, Main, NodeTypeOK
  <2> QED
    BY <1>1, <2>1, LifeStill DEF Recording
<1> QED
  BY <1>2, <1>3, <1>4 DEF MainStep

(* The threads of a camera, with their rotations, losses and lost Stops,   *)
(* do for the manager what CameraCalls promises: a recording begins with a *)
(* Start that returns and with nothing else, and ends with a Stop that     *)
(* returns, a reported loss or the end of the camera, and a Stop has its   *)
(* effect or is on record as missed.                                       *)
THEOREM NodeImplementsCalls == NodeSpec => ImplementsCalls
<1>1. NodeInit => Calls!CallsInit
  BY DEF NodeInit, Init, CycleInit, Calls!CallsInit, Calls!LifeInit, Recording, Rotating
<1>2. NodeInv /\ IInv /\ [NodeNext]_nodeVars => [Calls!CallsNext]_(Calls!calls)
  <2> SUFFICES ASSUME NodeInv, IInv, [NodeNext]_nodeVars
               PROVE  Calls!CallsNext \/ UNCHANGED Calls!calls
    OBVIOUS
  <2>1. CASE WorkerStep
    BY <2>1, WorkerCalls DEF Calls!CallsNext
  <2>2. CASE AlarmStep
    BY <2>2, AlarmCalls DEF Calls!CallsNext
  <2>3. CASE MainStep
    BY <2>3, MainCalls DEF Calls!CallsNext
  <2>4. CASE UNCHANGED nodeVars
    <3>1. UNCHANGED <<vars, initialized, alarm, monitor, wasConnected>>
      BY <2>4 DEF nodeVars, stream
    <3> QED
      BY <3>1, SessionStill DEF Calls!calls
  <2> QED
    BY <2>1, <2>2, <2>3, <2>4 DEF NodeNext, Terminated
<1>3. NodeSpec => []IInv
  BY NodeImplementsSession, Inductive, PTL DEF ImplementsSession
<1> QED
  BY <1>1, <1>2, <1>3, NodeInductive, PTL DEF NodeSpec, ImplementsCalls, Calls!CallsSpec

=============================================================================
