---------------------------- MODULE RedactProofs ----------------------------
(***************************************************************************)
(* Proofs about Redact, for any patterns, fragments and lengths: no value  *)
(* and no tag is sent whole, and all the rest is, once and in order.  What *)
(* is held back is the end of the reasoning with some values replaced      *)
(* (Covers), and RedactInv says of everything before it where it went, and *)
(* of each value and tag, wherever it stands, that some place of it was    *)
(* not sent and is not held (Broken).                                      *)
(***************************************************************************)
EXTENDS MCChat, Sequences, FiniteSetTheorems, SequenceTheorems, WellFoundedInduction, TLAPS

-----------------------------------------------------------------------------
(* Naturals and sequences *)

\* The least of some naturals.
LEMMA LeastOf ==
    ASSUME NEW S \in SUBSET Nat, S # {}
    PROVE  \E i \in S : \A j \in S : i <= j
<1>1. PICK i \in S : \A j \in S : ~(<<j, i>> \in OpToRel(<, Nat))
    BY WFMin, NatLessThanWellFounded
<1>2. \A j \in S : ~(j < i)
    BY <1>1 DEF OpToRel
<1> QED
    BY <1>2

\* f strings the first sequences of s together, one more at each place.
Strung(f, s, n) == f = [i \in 1..n |-> IF i = 1 THEN s[i] ELSE f[i - 1] \o s[i]]

LEMMA StrungAt ==
    ASSUME NEW s, NEW n \in Nat, NEW f, Strung(f, s, n), NEW i \in 1..n
    PROVE  f[i] = IF i = 1 THEN s[i] ELSE f[i - 1] \o s[i]
<1> DEFINE h == [k \in 1..n |-> IF k = 1 THEN s[k] ELSE f[k - 1] \o s[k]]
<1>1. f = h
    BY DEF Strung
<1>2. h[i] = IF i = 1 THEN s[i] ELSE f[i - 1] \o s[i]
    OBVIOUS
<1> HIDE DEF h
<1> QED
    BY <1>1, <1>2

LEMMA StrungExists ==
    ASSUME NEW s, NEW n \in Nat
    PROVE  \E f : Strung(f, s, n)
<1> DEFINE bad == {m \in 0..n : ~ \E f : Strung(f, s, m)}
<1>1. SUFFICES ASSUME bad # {}
               PROVE  FALSE
    OBVIOUS
<1>2. PICK k \in bad : \A i \in bad : k <= i
    BY <1>1, LeastOf, bad \in SUBSET Nat
<1>3. CASE k = 0
    <2>1. Strung([i \in {} |-> 0], s, 0)
        BY DEF Strung
    <2> QED
        BY <1>3, <2>1
<1>4. CASE k # 0
    <2>1. PICK f : Strung(f, s, k - 1)
        BY <1>2, <1>4
    <2> DEFINE g == [i \in 1..k |-> IF i = k THEN (IF k = 1 THEN s[k] ELSE f[k - 1] \o s[k]) ELSE f[i]]
    <2>2. ASSUME NEW i \in 1..k
          PROVE  g[i] = IF i = 1 THEN s[i] ELSE g[i - 1] \o s[i]
        <3>1. i # k => f[i] = IF i = 1 THEN s[i] ELSE f[i - 1] \o s[i]
            <4>1. i # k => i \in 1..k - 1
                OBVIOUS
            <4>2. k - 1 \in Nat
                BY <1>4
            <4> QED
                BY <2>1, <4>1, <4>2, StrungAt
        <3>2. i # 1 => g[i - 1] = f[i - 1]
            OBVIOUS
        <3> QED
            BY <3>1, <3>2
    <2>3. g = [i \in 1..k |-> IF i = 1 THEN s[i] ELSE g[i - 1] \o s[i]]
        BY <2>2
    <2>4. Strung(g, s, k)
        BY <2>3 DEF Strung
    <2> QED
        BY <2>4
<1> QED
    BY <1>3, <1>4

\* What FlattenSeq computes, step by step.
LEMMA FlattenStrung ==
    ASSUME NEW n \in Nat \ {0}, NEW s, Len(s) = n, s # <<>>
    PROVE  \E f : Strung(f, s, n) /\ Redaction!FlattenSeq(s) = f[n]
<1> DEFINE fn == CHOOSE f : f = [i \in 1..Len(s) |-> IF i = 1 THEN s[i] ELSE f[i - 1] \o s[i]]
<1>1. fn = [i \in 1..Len(s) |-> IF i = 1 THEN s[i] ELSE fn[i - 1] \o s[i]]
    BY StrungExists DEF Strung
<1>2. Redaction!FlattenSeq(s) = fn[Len(s)]
    BY DEF Redaction!FlattenSeq
<1> HIDE DEF fn
<1> QED
    BY <1>1, <1>2 DEF Strung

LEMMA FlattenNothing == Redaction!FlattenSeq(<<>>) = <<>>
BY DEF Redaction!FlattenSeq

-----------------------------------------------------------------------------
(* Redact: patterns in a text *)

\* What the patterns are made of, as PartsAssumption says it.
Patterns == Secrets \cup {Tag}
\* What a piece is made of.
AnyChar == Chars \cup {"redacted"}

\* The pattern stands in t at i.
Reads(t, i, p) == i + Len(p) - 1 <= Len(t) /\ \A k \in 1..Len(p) : t[i + k - 1] = p[k]

\* The largest of some naturals that are not beyond n.
LEMMA MaxExists ==
    ASSUME NEW n \in Nat, NEW S \in SUBSET (0..n), S # {}
    PROVE  Redaction!Max(S) \in S /\ \A x \in S : x <= Redaction!Max(S)
<1> DEFINE from == {n - x : x \in S}
<1>1. from \in SUBSET Nat /\ from # {}
    <2>1. \A x \in S : x \in 0..n
        OBVIOUS
    <2>2. \A x \in S : n - x \in Nat
        BY <2>1
    <2> QED
        BY <2>2
<1>2. PICK j \in from : \A k \in from : j <= k
    BY <1>1, LeastOf
<1>3. PICK x \in S : j = n - x
    OBVIOUS
<1>4. \A y \in S : x >= y
    <2> SUFFICES ASSUME NEW y \in S
                 PROVE  x >= y
        OBVIOUS
    <2>1. n - y \in from
        OBVIOUS
    <2>2. n - x <= n - y
        BY <1>2, <1>3, <2>1
    <2>3. x \in 0..n /\ y \in 0..n
        OBVIOUS
    <2> HIDE DEF from
    <2> QED
        BY <2>2, <2>3
<1>5. \E m \in S : m = Redaction!Max(S) /\ \A y \in S : m >= y
    BY <1>4 DEF Redaction!Max
<1> QED
    BY <1>5

\* As many naturals have a bound.
LEMMA BoundExists ==
    ASSUME NEW n \in Nat, NEW f \in [1..n -> Nat]
    PROVE  \E m \in Nat : \A i \in 1..n : f[i] <= m
<1> DEFINE bad == {k \in 0..n : ~ \E m \in Nat : \A i \in 1..k : f[i] <= m}
<1>1. SUFFICES ASSUME bad # {}
               PROVE  FALSE
    <2>1. n \in 0..n
        OBVIOUS
    <2>2. bad = {} => n \notin bad
        OBVIOUS
    <2> QED
        BY <2>1, <2>2
<1>2. PICK k \in bad : \A j \in bad : k <= j
    BY <1>1, LeastOf, bad \in SUBSET Nat
<1>3. k # 0
    <2>1. \A i \in 1..0 : f[i] <= 0
        OBVIOUS
    <2>2. 0 \in Nat
        OBVIOUS
    <2> QED
        BY <2>1, <2>2
<1>4. k - 1 \in 0..n /\ k - 1 \notin bad
    <2>1. k \in 1..n
        BY <1>3
    <2>2. k - 1 \in 0..n /\ ~(k <= k - 1)
        BY <2>1
    <2> QED
        BY <1>2, <2>2
<1>5. PICK m \in Nat : \A i \in 1..k - 1 : f[i] <= m
    BY <1>4
<1>6. PICK most \in Nat : m <= most /\ f[k] <= most
    <2>1. f[k] \in Nat
        BY <1>3
    <2>2. CASE f[k] <= m
        BY <2>2
    <2>3. CASE m <= f[k]
        BY <2>1, <2>3
    <2> QED
        BY <2>1, <2>2, <2>3
<1>7. \A i \in 1..k : f[i] <= most
    <2> SUFFICES ASSUME NEW i \in 1..k
                 PROVE  f[i] <= most
        OBVIOUS
    <2>1. f[i] \in Nat
        OBVIOUS
    <2>2. i # k => f[i] <= m
        BY <1>5
    <2> QED
        BY <1>6, <2>1, <2>2
<1> QED
    BY <1>7

\* RedactAssumption, as the lemmas need it.
LEMMA RedactConstants ==
    /\ Chars \subseteq AnyChar /\ "redacted" \notin Chars
    /\ WordChars \subseteq Chars /\ Spaces \subseteq Chars /\ TagEnds \subseteq Chars
    /\ Tag \in Seq(Chars) /\ Len(Tag) \in Nat \ {0}
    /\ \A s \in Secrets : s \in Seq(Chars) /\ Len(s) \in Nat \ {0}
    /\ \A i \in 1..Len(Tag) : Tag[i] \notin Spaces /\ (Tag[i] = Tag[1] => i = 1)
    /\ Tag[1] \notin TagEnds
    /\ \A s \in Secrets : s[1] \notin TagEnds
    /\ MAX_HOLDS \in Nat /\ MAX_HOLDS > 1 /\ MaxFragment \in Nat /\ MaxText \in Nat
<1>1. Redaction!RedactAssumption
    BY PartsAssumption
<1>2. \A s \in Secrets \cup {Tag} : s \in Seq(Chars) /\ Len(s) \in Nat \ {0}
    <2> SUFFICES ASSUME NEW s \in Secrets \cup {Tag}
                 PROVE  s \in Seq(Chars) /\ Len(s) \in Nat \ {0}
        OBVIOUS
    <2>1. s \in Seq(Chars) /\ s # <<>>
        BY <1>1 DEF Redaction!RedactAssumption
    <2> QED
        BY <2>1, EmptySeq
<1> QED
    BY <1>1, <1>2 DEF Redaction!RedactAssumption, AnyChar

\* What is held back is as long as any pattern, and longer than a tag.
LEMMA HoldIs ==
    Redaction!Hold \in Nat /\ Len(Tag) < Redaction!Hold /\ \A s \in Secrets : Len(s) <= Redaction!Hold
<1>1. IsFiniteSet(Secrets)
    BY PartsAssumption DEF Redaction!RedactAssumption, Redaction!IsFiniteSet, IsFiniteSet
<1>2. PICK n \in Nat : n = Cardinality(Secrets)
    BY <1>1, FS_CardinalityType
<1>3. PICK f \in [1..n -> Secrets] : \A s \in Secrets : \E i \in 1..n : f[i] = s
    BY <1>1, <1>2, FS_CardinalityType DEF ExistsBijection, Bijection, Surjection, Injection
<1> DEFINE g == [i \in 1..n |-> Len(f[i])]
<1>4. g \in [1..n -> Nat]
    BY RedactConstants
<1>5. PICK m \in Nat : \A i \in 1..n : g[i] <= m
    BY <1>4, BoundExists
<1>6. \A s \in Secrets : Len(s) \in 0..m
    <2> SUFFICES ASSUME NEW s \in Secrets
                 PROVE  Len(s) \in 0..m
        OBVIOUS
    <2>1. PICK i \in 1..n : f[i] = s
        BY <1>3
    <2>2. g[i] = Len(s) /\ g[i] <= m
        BY <1>5, <2>1
    <2>3. Len(s) \in Nat
        BY RedactConstants
    <2> QED
        BY <2>2, <2>3
<1>7. PICK M \in Nat : m <= M /\ Len(Tag) + 1 <= M
    <2>1. Len(Tag) \in Nat
        BY RedactConstants
    <2>2. CASE m <= Len(Tag) + 1
        BY <2>1, <2>2
    <2>3. CASE Len(Tag) + 1 <= m
        BY <2>3
    <2> QED
        BY <2>1, <2>2, <2>3
<1> DEFINE S == {Len(Tag) + 1} \cup {Len(s) : s \in Secrets}
<1>8. S \in SUBSET (0..M) /\ S # {} /\ \A s \in Secrets : Len(s) \in S
    <2>1. Len(Tag) + 1 \in 0..M
        BY <1>7, RedactConstants
    <2>2. \A s \in Secrets : Len(s) \in 0..M
        BY <1>6, <1>7
    <2> QED
        BY <2>1, <2>2
<1>9. Redaction!Hold = Redaction!Max(S)
    BY DEF Redaction!Hold
<1>10. Len(Tag) + 1 \in S
    OBVIOUS
<1> HIDE DEF S
<1>11. Redaction!Hold \in S /\ \A x \in S : x <= Redaction!Hold
    BY <1>8, <1>9, MaxExists
<1>12. Redaction!Hold \in 0..M
    BY <1>8, <1>11
<1>13. Len(Tag) + 1 <= Redaction!Hold /\ \A s \in Secrets : Len(s) <= Redaction!Hold
    BY <1>8, <1>10, <1>11
<1> QED
    BY <1>12, <1>13, RedactConstants

\* At compares a part of the text with the pattern, Reads their characters.
LEMMA AtIs ==
    ASSUME NEW t \in Seq(AnyChar), NEW i \in Nat \ {0}, NEW p \in Patterns
    PROVE  Redaction!At(t, i, p) <=> Reads(t, i, p)
<1>1. PICK n \in Nat, L \in Nat \ {0} : n = Len(t) /\ L = Len(p)
    BY RedactConstants DEF Patterns
<1>2. p \in Seq(AnyChar)
    BY RedactConstants DEF Patterns, AnyChar
<1>3. CASE i + L - 1 <= n
    <2>1. PICK u : u = SubSeq(t, i, i + L - 1)
        OBVIOUS
    <2>2. u \in Seq(AnyChar) /\ Len(u) = L /\ \A k \in 1..L : u[k] = t[i + k - 1]
        <3>1. i + L - 1 \in Nat /\ i \in 1..i + L - 1 + 1 /\ i + L - 1 - i + 1 = L
            BY <1>1
        <3>2. u = [k \in 1..L |-> t[i + k - 1]]
            BY <1>1, <1>3, <2>1, <3>1
        <3>3. \A k \in 1..L : i + k - 1 \in 1..n
            BY <1>1, <1>3
        <3>4. \A k \in 1..L : t[i + k - 1] \in AnyChar
            BY <1>1, <3>3
        <3> QED
            BY <1>1, <3>2, <3>4
    <2>3. u = p <=> \A k \in 1..L : u[k] = p[k]
        BY <1>1, <1>2, <2>2, SeqEqual
    <2> QED
        BY <1>1, <1>3, <2>1, <2>2, <2>3 DEF Redaction!At, Reads
<1> QED
    BY <1>1, <1>3 DEF Redaction!At, Reads

\* The characters of a piece.
LEMMA CharsOf ==
    ASSUME NEW u \in Seq(Redaction!Char)
    PROVE  /\ Redaction!Chars_of(u) \in Seq(AnyChar) /\ Len(Redaction!Chars_of(u)) = Len(u)
           /\ \A i \in 1..Len(u) : Redaction!Chars_of(u)[i] = u[i].c
<1>1. \A i \in 1..Len(u) : u[i] \in Redaction!Char
    OBVIOUS
<1>2. \A i \in 1..Len(u) : u[i].c \in AnyChar
    BY <1>1 DEF Redaction!Char, AnyChar
<1> QED
    BY <1>2 DEF Redaction!Chars_of


-----------------------------------------------------------------------------
(* Redact: a text cleaned from left to right *)

\* What climbs at each step climbs from any place to any later one.
LEMMA Climbs ==
    ASSUME NEW n \in Nat, NEW b \in [0..n -> Nat], \A q \in 1..n : b[q - 1] < b[q],
           NEW i \in 0..n, NEW j \in 0..n, i < j
    PROVE  b[i] < b[j]
<1> DEFINE bad == {q \in i + 1..n : ~(b[i] < b[q])}
<1>1. SUFFICES ASSUME bad # {}
               PROVE  FALSE
    <2>1. j \in i + 1..n
        OBVIOUS
    <2>2. bad = {} => j \notin bad
        OBVIOUS
    <2> QED
        BY <2>1, <2>2
<1>2. PICK q \in bad : \A k \in bad : q <= k
    BY <1>1, LeastOf, bad \in SUBSET Nat
<1>3. q \in i + 1..n /\ ~(b[i] < b[q]) /\ q \in 1..n /\ q - 1 \in 0..n /\ ~(q <= q - 1)
    OBVIOUS
<1>4. b[q - 1] < b[q] /\ b[q - 1] \in Nat /\ b[q] \in Nat /\ b[i] \in Nat
    BY <1>3
<1>5. CASE q = i + 1
    BY <1>3, <1>4, <1>5
<1>6. CASE q # i + 1
    <2>1. q - 1 \in i + 1..n
        BY <1>3, <1>6
    <2>2. q - 1 \notin bad
        BY <1>2, <1>3
    <2>3. b[i] < b[q - 1]
        BY <2>1, <2>2
    <2> QED
        BY <1>3, <1>4, <2>3
<1> QED
    BY <1>5, <1>6

\* What climbs from below i to i or more gets there at some step.
LEMMA Reaches ==
    ASSUME NEW n \in Nat, NEW b \in [0..n -> Nat], NEW i \in Nat, b[0] < i, i <= b[n]
    PROVE  \E q \in 1..n : b[q - 1] < i /\ i <= b[q]
<1> DEFINE past == {q \in 0..n : i <= b[q]}
<1>1. n \in past /\ past \in SUBSET Nat
    OBVIOUS
<1>2. PICK q \in past : \A k \in past : q <= k
    BY <1>1, LeastOf
<1>3. q \in 0..n /\ i <= b[q] /\ b[0] \in Nat
    OBVIOUS
<1>4. q # 0
    BY <1>3
<1>5. q \in 1..n /\ q - 1 \in 0..n /\ ~(q <= q - 1)
    BY <1>3, <1>4
<1>6. q - 1 \notin past
    BY <1>2, <1>5
<1>7. ~(i <= b[q - 1]) /\ b[q - 1] \in Nat
    BY <1>5, <1>6
<1> QED
    BY <1>3, <1>5, <1>7

\* From place i on, f is what stands there and then f from the next place on.
Chain(f, hd, nx, m, n) == f = [i \in m + 1..n + 1 |-> IF i > n THEN <<>> ELSE <<hd[i]>> \o f[nx[i]]]

LEMMA ChainAt ==
    ASSUME NEW n \in Nat, NEW m \in 0..n, NEW hd, NEW nx, NEW f, Chain(f, hd, nx, m, n), NEW i \in m + 1..n + 1
    PROVE  f[i] = IF i > n THEN <<>> ELSE <<hd[i]>> \o f[nx[i]]
<1> DEFINE h == [k \in m + 1..n + 1 |-> IF k > n THEN <<>> ELSE <<hd[k]>> \o f[nx[k]]]
<1>1. f = h
    BY DEF Chain
<1>2. h[i] = IF i > n THEN <<>> ELSE <<hd[i]>> \o f[nx[i]]
    OBVIOUS
<1> HIDE DEF h
<1> QED
    BY <1>1, <1>2

\* A recursion that goes on to a later place has a function.
LEMMA ChainExists ==
    ASSUME NEW n \in Nat, NEW hd, NEW nx, \A i \in 1..n : nx[i] \in i + 1..n + 1
    PROVE  \E f : Chain(f, hd, nx, 0, n)
<1> DEFINE bad == {k \in 0..n : ~ \E f : Chain(f, hd, nx, n - k, n)}
<1>1. SUFFICES ASSUME bad # {}
               PROVE  FALSE
    <2>1. n \in 0..n /\ n - n = 0
        OBVIOUS
    <2>2. bad = {} => n \notin bad
        OBVIOUS
    <2> QED
        BY <2>1, <2>2
<1>2. PICK k \in bad : \A j \in bad : k <= j
    BY <1>1, LeastOf, bad \in SUBSET Nat
<1>3. k \in 0..n /\ ~ \E f : Chain(f, hd, nx, n - k, n)
    OBVIOUS
<1>4. CASE k = 0
    <2>1. n - k = n
        BY <1>4
    <2> DEFINE g == [i \in n + 1..n + 1 |-> <<>>]
    <2>2. g = [i \in n + 1..n + 1 |-> IF i > n THEN <<>> ELSE <<hd[i]>> \o g[nx[i]]]
        OBVIOUS
    <2>3. Chain(g, hd, nx, n, n)
        BY <2>2 DEF Chain
    <2> HIDE DEF g
    <2> QED
        BY <1>3, <2>1, <2>3
<1>5. CASE k # 0
    <2>1. PICK m \in 1..n : m = n - k + 1
        BY <1>3, <1>5
    <2>2. k - 1 \in 0..n /\ ~(k <= k - 1) /\ n - (k - 1) = m /\ n - k = m - 1
        BY <1>3, <1>5, <2>1
    <2>3. k - 1 \notin bad
        BY <1>2, <2>2
    <2>4. PICK f : Chain(f, hd, nx, m, n)
        BY <2>2, <2>3
    <2> DEFINE g == [i \in m..n + 1 |-> IF i = m THEN <<hd[m]>> \o f[nx[m]] ELSE f[i]]
    <2>5. ASSUME NEW i \in m..n + 1
          PROVE  g[i] = IF i > n THEN <<>> ELSE <<hd[i]>> \o g[nx[i]]
        <3>1. i # m => i \in m + 1..n + 1
            OBVIOUS
        <3>2. i # m => f[i] = IF i > n THEN <<>> ELSE <<hd[i]>> \o f[nx[i]]
            <4>1. m \in 0..n
                OBVIOUS
            <4> QED
                BY <2>4, <3>1, <4>1, ChainAt
        <3>3. i <= n => nx[i] \in m + 1..n + 1
            <4> SUFFICES ASSUME i <= n
                         PROVE  nx[i] \in m + 1..n + 1
                OBVIOUS
            <4>1. i \in 1..n
                OBVIOUS
            <4>2. nx[i] \in i + 1..n + 1
                BY <4>1
            <4> QED
                BY <4>1, <4>2
        <3>4. i <= n => g[nx[i]] = f[nx[i]]
            BY <3>3
        <3>5. g[i] = IF i = m THEN <<hd[m]>> \o f[nx[m]] ELSE f[i]
            OBVIOUS
        <3>6. ~(m > n)
            OBVIOUS
        <3> HIDE DEF g
        <3> QED
            BY <3>2, <3>4, <3>5, <3>6
    <2>6. g = [i \in m..n + 1 |-> IF i > n THEN <<>> ELSE <<hd[i]>> \o g[nx[i]]]
        BY <2>5
    <2>7. m - 1 + 1 = m
        OBVIOUS
    <2> HIDE DEF g
    <2>8. Chain(g, hd, nx, m - 1, n)
        BY <2>6, <2>7 DEF Chain
    <2> QED
        BY <1>3, <2>2, <2>8
<1> QED
    BY <1>4, <1>5

\* u is what is found on the way from place i: g says how far its entries come.
Walk(u, g, hd, nx, i, n) ==
    /\ g \in [0..Len(u) -> 0..n] /\ g[0] = i - 1 /\ g[Len(u)] = n
    /\ \A r \in 1..Len(u) : g[r - 1] < n /\ u[r] = hd[g[r - 1] + 1] /\ g[r] = nx[g[r - 1] + 1] - 1

\* What such a function computes from place i on is a walk from there to the end.
LEMMA ChainWalks ==
    ASSUME NEW T, NEW n \in Nat, NEW hd \in [1..n -> T], NEW nx, \A i \in 1..n : nx[i] \in i + 1..n + 1,
           NEW f, Chain(f, hd, nx, 0, n), NEW i \in 1..n + 1
    PROVE  f[i] \in Seq(T) /\ \E g : Walk(f[i], g, hd, nx, i, n)
<1> DEFINE Good_at(j) == f[j] \in Seq(T) /\ \E g : Walk(f[j], g, hd, nx, j, n)
           bad == {k \in 0..n : ~Good_at(n + 1 - k)}
<1>1. SUFFICES ASSUME bad # {}
               PROVE  FALSE
    <2>1. n + 1 - i \in 0..n /\ n + 1 - (n + 1 - i) = i
        OBVIOUS
    <2>2. bad = {} => n + 1 - i \notin bad
        OBVIOUS
    <2>3. bad = {} => Good_at(n + 1 - (n + 1 - i))
        BY <2>1, <2>2
    <2> QED
        BY <2>1, <2>3
<1>2. PICK k \in bad : \A j \in bad : k <= j
    BY <1>1, LeastOf, bad \in SUBSET Nat
<1>3. k \in 0..n /\ ~Good_at(n + 1 - k)
    OBVIOUS
<1>4. PICK j \in 1..n + 1 : j = n + 1 - k
    BY <1>3
<1>5. f[j] = IF j > n THEN <<>> ELSE <<hd[j]>> \o f[nx[j]]
    BY ChainAt
<1>6. CASE j > n
    <2>1. f[j] = <<>> /\ Len(<<>>) = 0 /\ j - 1 = n
        BY <1>5, <1>6
    <2>2. Walk(<<>>, [r \in 0..0 |-> n], hd, nx, j, n)
        BY <2>1 DEF Walk
    <2> QED
        BY <1>3, <1>4, <2>1, <2>2
<1>7. CASE j <= n
    <2>1. j \in 1..n
        BY <1>7
    <2>2. PICK next \in j + 1..n + 1 : next = nx[j]
        BY <2>1
    <2>3. Good_at(next)
        <3>1. n + 1 - next \in 0..n /\ ~(k <= n + 1 - next) /\ n + 1 - (n + 1 - next) = next
            BY <1>4, <2>1, <2>2
        <3>2. n + 1 - next \notin bad
            BY <1>2, <3>1
        <3> QED
            BY <3>1, <3>2
    <2>4. PICK v \in Seq(T) : v = f[next]
        BY <2>3
    <2>5. PICK g : Walk(v, g, hd, nx, next, n)
        BY <2>3, <2>4
    <2>6. PICK L \in Nat : L = Len(v)
        BY <2>4
    <2>7. hd[j] \in T
        BY <2>1
    <2>8. PICK u : u = f[j]
        OBVIOUS
    <2>9. u = <<hd[j]>> \o v
        BY <1>5, <1>7, <2>1, <2>2, <2>4, <2>8
    <2>10. u \in Seq(T) /\ Len(u) = L + 1 /\ u[1] = hd[j] /\ \A r \in 2..L + 1 : u[r] = v[r - 1]
        BY <2>4, <2>6, <2>7, <2>9
    <2> DEFINE w == [r \in 0..L + 1 |-> IF r = 0 THEN j - 1 ELSE g[r - 1]]
    <2>11. /\ g \in [0..L -> 0..n] /\ g[0] = next - 1 /\ g[L] = n
           /\ \A r \in 1..L : g[r - 1] < n /\ v[r] = hd[g[r - 1] + 1] /\ g[r] = nx[g[r - 1] + 1] - 1
        BY <2>5, <2>6 DEF Walk
    <2>12. w \in [0..L + 1 -> 0..n] /\ w[0] = j - 1 /\ w[L + 1] = n
        BY <2>1, <2>11
    <2>13. ASSUME NEW r \in 1..L + 1
           PROVE  w[r - 1] < n /\ u[r] = hd[w[r - 1] + 1] /\ w[r] = nx[w[r - 1] + 1] - 1
        <3>1. CASE r = 1
            <4>1. w[0] = j - 1 /\ w[1] = g[0] /\ j - 1 + 1 = j /\ j - 1 < n /\ r - 1 = 0
                BY <2>1, <3>1
            <4> HIDE DEF w
            <4>2. w[r - 1] = j - 1 /\ w[r] = next - 1 /\ u[r] = hd[j]
                BY <2>10, <2>11, <3>1, <4>1
            <4>3. w[r - 1] + 1 = j
                BY <4>1, <4>2
            <4> QED
                BY <2>2, <4>1, <4>2, <4>3
        <3>2. CASE r # 1
            <4>1. r - 1 \in 1..L /\ r \in 2..L + 1 /\ w[r - 1] = g[r - 1 - 1] /\ w[r] = g[r - 1]
                BY <3>2
            <4>2. g[r - 1 - 1] < n /\ v[r - 1] = hd[g[r - 1 - 1] + 1] /\ g[r - 1] = nx[g[r - 1 - 1] + 1] - 1
                BY <2>11, <4>1
            <4> HIDE DEF w
            <4> QED
                BY <2>10, <4>1, <4>2
        <3> QED
            BY <3>1, <3>2
    <2> HIDE DEF w
    <2>14. Walk(u, w, hd, nx, j, n)
        BY <2>10, <2>12, <2>13 DEF Walk
    <2> QED
        BY <1>3, <1>4, <2>8, <2>10, <2>14
<1> QED
    BY <1>6, <1>7

\* u is t with its values replaced: g says how far in t its entries come.
Cleans(t, u, g, closed) ==
    /\ u \in Seq(Redaction!Char)
    /\ g \in [0..Len(u) -> 0..Len(t)] /\ g[0] = 0 /\ g[Len(u)] = Len(t)
    /\ \A r \in 1..Len(u) :
         LET p == g[r - 1] + 1 IN
         /\ p <= Len(t)
         /\ \/ /\ u[r] = t[p] /\ g[r] = p
               /\ \A s \in Secrets : ~Redaction!ValueAt(Redaction!Chars_of(t), p, s, closed)
            \/ /\ u[r] = Redaction!Redacted
               /\ \E s \in Secrets : /\ Redaction!ValueAt(Redaction!Chars_of(t), p, s, closed)
                                     /\ g[r] = p + Len(s) - 1

\* The longest value found at p is one found there, and is within the text.
LEMMA FoundIs ==
    ASSUME NEW t \in Seq(Redaction!Char), NEW closed \in BOOLEAN, NEW p \in 1..Len(t)
    PROVE  LET c == Redaction!Chars_of(t)
               found == Redaction!Found(c, p, closed)
           IN /\ found = {} => \A s \in Secrets : ~Redaction!ValueAt(c, p, s, closed)
              /\ found # {} => /\ p + Redaction!Max(found) \in p + 1..Len(t) + 1
                               /\ \E s \in Secrets : /\ Redaction!ValueAt(c, p, s, closed)
                                                     /\ Redaction!Max(found) = Len(s)
<1>1. PICK c \in Seq(AnyChar) : c = Redaction!Chars_of(t) /\ Len(c) = Len(t)
    BY CharsOf
<1>2. PICK found : found = Redaction!Found(c, p, closed)
    OBVIOUS
<1>3. \A x : x \in found <=> \E s \in Secrets : Redaction!ValueAt(c, p, s, closed) /\ x = Len(s)
    BY <1>2 DEF Redaction!Found
<1>4. ASSUME NEW s \in Secrets, Redaction!ValueAt(c, p, s, closed)
      PROVE  Len(s) \in 1..Len(t) - p + 1
    <2>1. p + Len(s) - 1 <= Len(c)
        BY <1>4 DEF Redaction!ValueAt, Redaction!At
    <2>2. Len(s) \in Nat \ {0} /\ Len(t) \in Nat
        BY RedactConstants
    <2> QED
        BY <1>1, <2>1, <2>2
<1>5. found \in SUBSET (0..Len(t) - p + 1) /\ \A x \in found : x >= 1 /\ x <= Len(t) - p + 1
    <2> SUFFICES ASSUME NEW x \in found
                 PROVE  x \in 1..Len(t) - p + 1
        OBVIOUS
    <2> QED
        BY <1>3, <1>4
<1>6. ASSUME found # {}
      PROVE  Redaction!Max(found) \in found
    <2>1. Len(t) - p + 1 \in Nat
        OBVIOUS
    <2> QED
        BY <1>5, <1>6, <2>1, MaxExists
<1>7. found # {} => p + Redaction!Max(found) \in p + 1..Len(t) + 1
    <2> SUFFICES ASSUME found # {}
                 PROVE  p + Redaction!Max(found) \in p + 1..Len(t) + 1
        OBVIOUS
    <2>1. PICK x \in found : x = Redaction!Max(found)
        BY <1>6
    <2>2. x \in 0..Len(t) - p + 1 /\ x >= 1
        BY <1>5
    <2>3. Len(t) \in Nat
        OBVIOUS
    <2> QED
        BY <2>1, <2>2, <2>3
<1> QED
    BY <1>1, <1>2, <1>3, <1>6, <1>7

\* _clean replaces values, and nothing else.
LEMMA CleanIs ==
    ASSUME NEW t \in Seq(Redaction!Char), NEW closed \in BOOLEAN
    PROVE  \E g : Cleans(t, Redaction!Clean(t, closed), g, closed)
<1>1. PICK n \in Nat : n = Len(t)
    OBVIOUS
<1> DEFINE c == Redaction!Chars_of(t)
           found(i) == Redaction!Found(c, i, closed)
           hd == [i \in 1..n |-> IF found(i) = {} THEN t[i] ELSE Redaction!Redacted]
           nx == [i \in 1..n |-> IF found(i) = {} THEN i + 1 ELSE i + Redaction!Max(found(i))]
           rest == CHOOSE f : f = [i \in 1..n + 1 |->
                       IF i > n THEN <<>>
                       ELSE IF found(i) = {} THEN <<t[i]>> \o f[i + 1]
                            ELSE <<Redaction!Redacted>> \o f[i + Redaction!Max(found(i))]]
<1>2. Redaction!Clean(t, closed) = rest[1]
    BY <1>1 DEF Redaction!Clean
<1>3. hd \in [1..n -> Redaction!Char]
    <2>1. Redaction!Redacted \in Redaction!Char
        BY RedactConstants DEF Redaction!Redacted, Redaction!Char
    <2> QED
        BY <1>1, <2>1
<1>4. \A i \in 1..n : nx[i] \in i + 1..n + 1
    <2> SUFFICES ASSUME NEW i \in 1..n
                 PROVE  nx[i] \in i + 1..n + 1
        OBVIOUS
    <2>1. found(i) # {} => i + Redaction!Max(found(i)) \in i + 1..n + 1
        BY <1>1, FoundIs
    <2> QED
        BY <2>1
<1>5. ASSUME NEW f
      PROVE  Chain(f, hd, nx, 0, n) <=>
               f = [i \in 1..n + 1 |->
                       IF i > n THEN <<>>
                       ELSE IF found(i) = {} THEN <<t[i]>> \o f[i + 1]
                            ELSE <<Redaction!Redacted>> \o f[i + Redaction!Max(found(i))]]
    <2>1. ASSUME NEW i \in 1..n + 1
          PROVE  (IF i > n THEN <<>> ELSE <<hd[i]>> \o f[nx[i]]) =
                   IF i > n THEN <<>>
                   ELSE IF found(i) = {} THEN <<t[i]>> \o f[i + 1]
                        ELSE <<Redaction!Redacted>> \o f[i + Redaction!Max(found(i))]
        <3>1. i <= n => i \in 1..n
            OBVIOUS
        <3>2. i \in 1..n => /\ hd[i] = IF found(i) = {} THEN t[i] ELSE Redaction!Redacted
                            /\ nx[i] = IF found(i) = {} THEN i + 1 ELSE i + Redaction!Max(found(i))
            OBVIOUS
        <3> HIDE DEF hd, nx
        <3> QED
            BY <3>1, <3>2
    <2>2. 0 + 1 = 1
        OBVIOUS
    <2> HIDE DEF hd, nx
    <2> QED
        BY <2>1, <2>2 DEF Chain
<1>6. Chain(rest, hd, nx, 0, n)
    <2>1. \E f : Chain(f, hd, nx, 0, n)
        BY <1>4, ChainExists
    <2> HIDE DEF hd, nx
    <2> QED
        BY <1>5, <2>1
<1>7. PICK u, g : u = rest[1] /\ u \in Seq(Redaction!Char) /\ Walk(u, g, hd, nx, 1, n)
    <2>1. 1 \in 1..n + 1
        BY <1>1
    <2> HIDE DEF hd, nx, rest
    <2> QED
        BY <1>3, <1>4, <1>6, <2>1, ChainWalks
<1>8. /\ g \in [0..Len(u) -> 0..n] /\ g[0] = 0 /\ g[Len(u)] = n
      /\ \A r \in 1..Len(u) : g[r - 1] < n /\ u[r] = hd[g[r - 1] + 1] /\ g[r] = nx[g[r - 1] + 1] - 1
    <2>1. 1 - 1 = 0
        OBVIOUS
    <2> HIDE DEF hd, nx, rest
    <2> QED
        BY <1>7, <2>1 DEF Walk
<1>9. ASSUME NEW r \in 1..Len(u), NEW p, p = g[r - 1] + 1
      PROVE  /\ p <= n
             /\ \/ u[r] = t[p] /\ g[r] = p /\ \A s \in Secrets : ~Redaction!ValueAt(c, p, s, closed)
                \/ /\ u[r] = Redaction!Redacted
                   /\ \E s \in Secrets : Redaction!ValueAt(c, p, s, closed) /\ g[r] = p + Len(s) - 1
    <2>1. p \in 1..n
        <3>1. Len(u) \in Nat /\ r - 1 \in 0..Len(u)
            BY <1>7
        <3>2. g[r - 1] \in 0..n /\ g[r - 1] < n
            BY <1>8, <3>1
        <3> QED
            BY <1>9, <3>2
    <2>2. u[r] = hd[p] /\ g[r] = nx[p] - 1
        BY <1>8, <1>9
    <2>3. /\ found(p) = {} => \A s \in Secrets : ~Redaction!ValueAt(c, p, s, closed)
          /\ found(p) # {} => \E s \in Secrets : Redaction!ValueAt(c, p, s, closed) /\ Redaction!Max(found(p)) = Len(s)
        BY <1>1, <2>1, FoundIs
    <2>4. CASE found(p) = {}
        <3>1. hd[p] = t[p] /\ nx[p] = p + 1 /\ p + 1 - 1 = p
            BY <2>1, <2>4
        <3> HIDE DEF hd, nx
        <3> QED
            BY <2>1, <2>2, <2>3, <2>4, <3>1
    <2>5. CASE found(p) # {}
        <3>1. hd[p] = Redaction!Redacted /\ nx[p] = p + Redaction!Max(found(p))
            BY <2>1, <2>5
        <3>2. PICK s \in Secrets : Redaction!ValueAt(c, p, s, closed) /\ Redaction!Max(found(p)) = Len(s)
            BY <2>3, <2>5
        <3>3. nx[p] = p + Len(s)
            BY <3>1, <3>2
        <3> HIDE DEF hd, nx, found, c
        <3>4. g[r] = p + Len(s) - 1
            <4>1. Len(s) \in Nat /\ g[r] = nx[p] - 1 /\ p \in Nat
                BY <2>1, <2>2, RedactConstants
            <4> QED
                BY <3>3, <4>1
        <3>5. u[r] = Redaction!Redacted
            BY <2>2, <3>1
        <3> QED
            BY <2>1, <3>2, <3>4, <3>5
    <2> QED
        BY <2>4, <2>5
<1>10. Cleans(t, u, g, closed)
    <2> HIDE DEF hd, nx, rest, found
    <2> QED
        BY <1>1, <1>7, <1>8, <1>9 DEF Cleans
<1> QED
    BY <1>2, <1>7, <1>10

-----------------------------------------------------------------------------
(* Redact: what an entry that is held stands for *)

\* A character of the reasoning, or a value of it that was replaced.
Kept(u, b, t, q) == b[q] = b[q - 1] + 1 /\ b[q] <= Len(t) /\ u[q] = [c |-> t[b[q]], at |-> b[q]]
Gone(u, b, t, q) ==
    /\ u[q] = Redaction!Redacted
    /\ \E s \in Secrets : Reads(t, b[q - 1] + 1, s) /\ b[q] = b[q - 1] + Len(s)

\* u is what is left of the end of t: b says how far in t its entries come.
Covers(u, b, t) ==
    /\ u \in Seq(Redaction!Char)
    /\ b \in [0..Len(u) -> Nat] /\ b[Len(u)] = Len(t)
    /\ \A q \in 1..Len(u) : Kept(u, b, t, q) \/ Gone(u, b, t, q)

\* How far the entries come climbs to the end of the reasoning.
LEMMA CoversClimbs ==
    ASSUME NEW t \in Seq(Chars), NEW u, NEW b, Covers(u, b, t), NEW n, n = Len(u)
    PROVE  /\ n \in Nat /\ b \in [0..n -> Nat] /\ b[n] = Len(t)
           /\ \A q \in 1..n : b[q - 1] < b[q]
           /\ \A i, j \in 0..n : i < j => b[i] < b[j]
           /\ \A q \in 0..n : b[q] \in Nat /\ b[0] <= b[q] /\ b[q] <= Len(t)
<1>1. n \in Nat /\ b \in [0..n -> Nat] /\ b[n] = Len(t)
    BY DEF Covers
<1>2. ASSUME NEW q \in 1..n
      PROVE  b[q - 1] < b[q]
    <2>1. b[q - 1] \in Nat
        BY <1>1
    <2>2. Kept(u, b, t, q) \/ Gone(u, b, t, q)
        BY DEF Covers
    <2>3. CASE Kept(u, b, t, q)
        BY <2>1, <2>3 DEF Kept
    <2>4. CASE Gone(u, b, t, q)
        <3>1. PICK s \in Secrets : b[q] = b[q - 1] + Len(s)
            BY <2>4 DEF Gone
        <3>2. Len(s) \in Nat \ {0}
            BY RedactConstants
        <3> QED
            BY <2>1, <3>1, <3>2
    <2> QED
        BY <2>2, <2>3, <2>4
<1>3. \A i, j \in 0..n : i < j => b[i] < b[j]
    BY <1>1, <1>2, Climbs
<1>4. ASSUME NEW q \in 0..n
      PROVE  b[q] \in Nat /\ b[0] <= b[q] /\ b[q] <= Len(t)
    <2>1. b[q] \in Nat /\ b[0] \in Nat /\ b[n] \in Nat /\ 0 \in 0..n /\ n \in 0..n
        BY <1>1
    <2>2. q = 0 \/ 0 < q
        OBVIOUS
    <2>3. q = n \/ q < n
        BY <1>1
    <2> QED
        BY <1>1, <1>3, <2>1, <2>2, <2>3
<1> QED
    BY <1>1, <1>2, <1>3, <1>4

\* From entry p on, each of L entries is of the next place.
Runs(b, p, L) == \A k \in 0..L : b[p - 1 + k] = b[p - 1] + k
AllKept(u, b, t, p, L) == \A k \in 1..L : Kept(u, b, t, p + k - 1)

\* Characters that were all kept are of places that follow one another.
LEMMA KeptRun ==
    ASSUME NEW t \in Seq(Chars), NEW u, NEW b, Covers(u, b, t), NEW p \in 1..Len(u), NEW L \in Nat,
           p + L - 1 <= Len(u), AllKept(u, b, t, p, L)
    PROVE  Runs(b, p, L)
<1>1. PICK n \in Nat : n = Len(u) /\ \A q \in 0..n : b[q] \in Nat
    BY CoversClimbs
<1> DEFINE bad == {k \in 0..L : b[p - 1 + k] # b[p - 1] + k}
<1>2. SUFFICES ASSUME bad # {}
               PROVE  FALSE
    BY DEF Runs
<1>3. PICK k \in bad : \A j \in bad : k <= j
    BY <1>2, LeastOf, bad \in SUBSET Nat
<1>4. k \in 0..L /\ b[p - 1 + k] # b[p - 1] + k
    OBVIOUS
<1>5. k # 0
    <2>1. p - 1 \in 0..n /\ p - 1 + 0 = p - 1
        BY <1>1
    <2> QED
        BY <1>1, <1>4, <2>1
<1>6. k \in 1..L /\ k - 1 \in 0..L /\ ~(k <= k - 1) /\ p - 1 + (k - 1) = p + k - 1 - 1 /\ p - 1 + k = p + k - 1
    BY <1>4, <1>5
<1>7. b[p - 1 + (k - 1)] = b[p - 1] + (k - 1)
    <2>1. k - 1 \notin bad
        BY <1>3, <1>6
    <2> QED
        BY <1>6, <2>1
<1>8. b[p - 1 + k] = b[p - 1 + (k - 1)] + 1
    <2>1. Kept(u, b, t, p + k - 1)
        BY <1>6 DEF AllKept
    <2>2. b[p + k - 1] = b[p + k - 1 - 1] + 1
        BY <2>1 DEF Kept
    <2> QED
        BY <1>6, <2>2
<1>9. b[p - 1] \in Nat
    BY <1>1
<1> HIDE DEF bad
<1> QED
    BY <1>4, <1>7, <1>8, <1>9

\* What was put in a value's place has no place of its own.
LEMMA EntryFor ==
    ASSUME NEW t \in Seq(Chars), NEW u, NEW b, Covers(u, b, t), NEW j \in Nat \ {0},
           NEW q \in 1..Len(u), u[q].at = j
    PROVE  Kept(u, b, t, q) /\ b[q] = j /\ b[q - 1] = j - 1
<1>1. Kept(u, b, t, q) \/ Gone(u, b, t, q)
    BY DEF Covers
<1>2. ~Gone(u, b, t, q)
    BY DEF Gone, Redaction!Redacted
<1>3. Kept(u, b, t, q)
    BY <1>1, <1>2
<1>4. b[q] = j
    BY <1>3 DEF Kept
<1>5. b[q - 1] \in Nat
    BY CoversClimbs
<1> QED
    BY <1>3, <1>4, <1>5 DEF Kept

\* Place j is held; and L places from i on.
Held_in(u, j) == \E q \in 1..Len(u) : u[q].at = j
AllHeld(u, i, L) == \A j \in i..i + L - 1 : Held_in(u, j)

\* From entry p on, u holds the places from i on.
HeldFrom(u, b, t, i, L, p) ==
    /\ p + L - 1 <= Len(u)
    /\ b[p - 1] = i - 1
    /\ \A k \in 1..L : Kept(u, b, t, p + k - 1) /\ b[p + k - 1] = i + k - 1

\* Places that follow one another and are held are held one after another.
LEMMA HeldTogether ==
    ASSUME NEW t \in Seq(Chars), NEW u, NEW b, Covers(u, b, t), NEW i \in Nat \ {0}, NEW L \in Nat \ {0},
           AllHeld(u, i, L)
    PROVE  \E p \in 1..Len(u) : HeldFrom(u, b, t, i, L, p)
<1>1. PICK n \in Nat : /\ n = Len(u) /\ \A q \in 0..n : b[q] \in Nat
                       /\ \A q, r \in 0..n : q < r => b[q] < b[r]
    <2>1. PICK n : n = Len(u)
        OBVIOUS
    <2>2. /\ n \in Nat /\ \A q \in 0..n : b[q] \in Nat
          /\ \A q, r \in 0..n : q < r => b[q] < b[r]
        BY <2>1, CoversClimbs
    <2> QED
        BY <2>1, <2>2
<1>2. \A j \in i..i + L - 1 : \E q \in 1..n : Kept(u, b, t, q) /\ b[q] = j /\ b[q - 1] = j - 1
    <2> SUFFICES ASSUME NEW j \in i..i + L - 1
                 PROVE  \E q \in 1..n : Kept(u, b, t, q) /\ b[q] = j /\ b[q - 1] = j - 1
        OBVIOUS
    <2>1. PICK q \in 1..n : u[q].at = j
        BY <1>1 DEF AllHeld, Held_in
    <2>2. j \in Nat \ {0}
        OBVIOUS
    <2> QED
        BY <1>1, <2>1, <2>2, EntryFor
<1>3. PICK p \in 1..n : Kept(u, b, t, p) /\ b[p] = i /\ b[p - 1] = i - 1
    <2>1. i \in i..i + L - 1
        OBVIOUS
    <2> QED
        BY <1>2, <2>1
<1> DEFINE Stays(k) == p + k - 1 <= n /\ Kept(u, b, t, p + k - 1) /\ b[p + k - 1] = i + k - 1
           bad == {k \in 1..L : ~Stays(k)}
<1>4. bad = {}
    <2>1. SUFFICES ASSUME bad # {}
                   PROVE  FALSE
        OBVIOUS
    <2>2. PICK k \in bad : \A j \in bad : k <= j
        BY <2>1, LeastOf, bad \in SUBSET Nat
    <2>3. k \in 1..L /\ ~Stays(k)
        OBVIOUS
    <2>4. k # 1
        <3>1. p + 1 - 1 = p /\ i + 1 - 1 = i /\ p <= n
            BY <1>1
        <3>2. Stays(1)
            BY <1>3, <3>1
        <3> HIDE DEF Stays
        <3> QED
            BY <2>3, <3>2
    <2>5. k - 1 \in 1..L /\ ~(k <= k - 1)
        BY <2>3, <2>4
    <2>6. Stays(k - 1)
        <3>1. k - 1 \notin bad
            BY <2>2, <2>5
        <3> HIDE DEF Stays
        <3> QED
            BY <2>5, <3>1
    <2>7. p + (k - 1) - 1 = p + k - 2 /\ i + (k - 1) - 1 = i + k - 2
        BY <1>3, <2>3
    <2>8. p + k - 2 <= n /\ b[p + k - 2] = i + k - 2
        BY <2>6, <2>7
    <2>9. PICK q \in 1..n : Kept(u, b, t, q) /\ b[q] = i + k - 1 /\ b[q - 1] = i + k - 1 - 1
        <3>1. PICK j \in i..i + L - 1 : j = i + k - 1
            BY <2>3
        <3>2. PICK q \in 1..n : Kept(u, b, t, q) /\ b[q] = j /\ b[q - 1] = j - 1
            BY <1>2
        <3>3. b[q] = i + k - 1 /\ b[q - 1] = i + k - 1 - 1 /\ Kept(u, b, t, q)
            BY <3>1, <3>2
        <3> HIDE DEF bad, Stays
        <3> QED
            BY <3>3
    <2>10. q - 1 = p + k - 2
        <3>1. q - 1 \in 0..n /\ p + k - 2 \in 0..n
            BY <1>1, <2>5, <2>8
        <3>2. b[q - 1] = b[p + k - 2]
            BY <2>3, <2>8, <2>9
        <3>3. ~(q - 1 < p + k - 2) /\ ~(p + k - 2 < q - 1)
            <4>1. b[q - 1] \in Nat /\ b[p + k - 2] \in Nat
                BY <1>1, <3>1
            <4>2. q - 1 < p + k - 2 => b[q - 1] < b[p + k - 2]
                BY <1>1, <3>1
            <4>3. p + k - 2 < q - 1 => b[p + k - 2] < b[q - 1]
                BY <1>1, <3>1
            <4> HIDE DEF bad, Stays
            <4> QED
                BY <3>2, <4>1, <4>2, <4>3
        <3> QED
            BY <3>1, <3>3
    <2>11. q = p + k - 1
        BY <2>3, <2>10
    <2>12. Stays(k)
        BY <1>1, <2>9, <2>11
    <2> HIDE DEF Stays
    <2> QED
        BY <2>3, <2>12
<1>5. \A k \in 1..L : Stays(k)
    <2> HIDE DEF Stays
    <2> QED
        BY <1>4
<1>6. p + L - 1 <= n
    <2>1. L \in 1..L
        OBVIOUS
    <2>2. Stays(L)
        BY <1>5, <2>1
    <2> QED
        BY <2>2
<1> QED
    BY <1>1, <1>3, <1>5, <1>6 DEF HeldFrom

\* A value found in what is held is one of the reasoning.
LEMMA ValueHeld ==
    ASSUME NEW t \in Seq(Chars), NEW u, NEW b, Covers(u, b, t), NEW p \in 1..Len(u), NEW s \in Secrets,
           Reads(Redaction!Chars_of(u), p, s)
    PROVE  /\ p + Len(s) - 1 <= Len(u)
           /\ Reads(t, b[p - 1] + 1, s)
           /\ b[p + Len(s) - 1] = b[p - 1] + Len(s)
<1>1. PICK n \in Nat : n = Len(u) /\ b \in [0..n -> Nat] /\ \A q \in 0..n : b[q] <= Len(t)
    BY CoversClimbs
<1>2. PICK L \in Nat \ {0} : L = Len(s) /\ s \in Seq(Chars)
    BY RedactConstants
<1>3. PICK c \in Seq(AnyChar) : /\ c = Redaction!Chars_of(u) /\ Len(c) = n
                              /\ \A q \in 1..n : c[q] = u[q].c
    BY <1>1, CharsOf DEF Covers
<1>4. p + L - 1 <= n /\ \A k \in 1..L : c[p + k - 1] = s[k]
    BY <1>2, <1>3 DEF Reads
<1>5. ASSUME NEW k \in 1..L
      PROVE  p + k - 1 \in 1..n /\ Kept(u, b, t, p + k - 1) /\ u[p + k - 1].c = s[k]
    <2>1. p + k - 1 \in 1..n
        BY <1>1, <1>4
    <2>2. u[p + k - 1].c = s[k] /\ s[k] \in Chars
        BY <1>2, <1>3, <1>4, <2>1
    <2>3. ~Gone(u, b, t, p + k - 1)
        BY <2>2, RedactConstants DEF Gone, Redaction!Redacted
    <2> QED
        BY <1>1, <2>1, <2>2, <2>3 DEF Covers
<1>6. \A k \in 0..L : b[p - 1 + k] = b[p - 1] + k
    <2>1. p + L - 1 <= Len(u) /\ AllKept(u, b, t, p, L) /\ L \in Nat
        BY <1>1, <1>4, <1>5 DEF AllKept
    <2>2. Runs(b, p, L)
        BY <2>1, KeptRun
    <2> QED
        BY <2>2 DEF Runs
<1>7. p - 1 \in 0..n /\ b[p - 1] \in Nat /\ p - 1 + L \in 0..n /\ p - 1 + L = p + L - 1
    <2>1. p - 1 \in 0..n /\ p - 1 + L \in 0..n /\ p - 1 + L = p + L - 1
        BY <1>1, <1>4
    <2> QED
        BY <1>1, <2>1
<1>8. b[p + L - 1] = b[p - 1] + L /\ b[p - 1] + L <= Len(t)
    <2>1. b[p - 1 + L] = b[p - 1] + L
        BY <1>6
    <2> QED
        BY <1>1, <1>7, <2>1
<1>9. ASSUME NEW k \in 1..L
      PROVE  t[b[p - 1] + 1 + k - 1] = s[k]
    <2>1. p - 1 + k = p + k - 1 /\ k \in 0..L /\ b[p - 1] + 1 + k - 1 = b[p - 1] + k
        BY <1>7
    <2>2. b[p + k - 1] = b[p - 1] + k
        BY <1>6, <2>1
    <2>3. u[p + k - 1].c = t[b[p + k - 1]]
        <3>1. u[p + k - 1] = [c |-> t[b[p + k - 1]], at |-> b[p + k - 1]]
            BY <1>5 DEF Kept
        <3> QED
            BY <3>1
    <2> QED
        BY <1>5, <2>1, <2>2, <2>3
<1>10. b[p - 1] + 1 + L - 1 <= Len(t)
    BY <1>7, <1>8
<1> QED
    BY <1>1, <1>2, <1>4, <1>8, <1>9, <1>10 DEF Reads

\* What stands in a text stands there when more comes.
LEMMA ReadsOn ==
    ASSUME NEW t \in Seq(Chars), NEW f \in Seq(Chars), NEW i \in Nat \ {0}, NEW p \in Patterns, Reads(t, i, p)
    PROVE  Reads(t \o f, i, p)
<1>1. PICK w : w = t \o f
    OBVIOUS
<1>2. /\ Len(w) = Len(t) + Len(f) /\ Len(t) \in Nat /\ Len(f) \in Nat
      /\ \A k \in 1..Len(t) : w[k] = t[k]
    BY <1>1
<1>3. Len(p) \in Nat \ {0}
    BY RedactConstants DEF Patterns
<1>4. i + Len(p) - 1 <= Len(t) /\ \A k \in 1..Len(p) : t[i + k - 1] = p[k]
    BY DEF Reads
<1>5. \A k \in 1..Len(p) : i + k - 1 \in 1..Len(t)
    BY <1>2, <1>3, <1>4
<1>6. i + Len(p) - 1 <= Len(w)
    BY <1>2, <1>3, <1>4
<1> QED
    BY <1>1, <1>2, <1>4, <1>5, <1>6 DEF Reads

\* w is a and then z.
Then(w, a, z, n, m) ==
    Len(w) = n + m /\ (\A q \in 1..n : w[q] = a[q]) /\ (\A q \in n + 1..n + m : w[q] = z[q - n])

LEMMA Concats ==
    ASSUME NEW S, NEW a \in Seq(S), NEW z \in Seq(S), NEW w, w = a \o z
    PROVE  w \in Seq(S) /\ Then(w, a, z, Len(a), Len(z))
BY DEF Then

\* Fragment f of n characters: the reasoning t goes on to t2, and what is held of it, u, to w.
Comes(f, n, t, u, t2, w) ==
    /\ Len(t) + n <= MaxText
    /\ t2 = t \o f
    /\ w = u \o [k \in 1..n |-> [c |-> f[k], at |-> Len(t) + k]]

\* A fragment is held as it came.
LEMMA CoversLonger ==
    ASSUME NEW t \in Seq(Chars), NEW u, NEW b, Covers(u, b, t), NEW n \in Nat, NEW f \in [1..n -> Chars],
           NEW t2, NEW w, Comes(f, n, t, u, t2, w)
    PROVE  \E d : Covers(w, d, t2) /\ d[0] = b[0]
<1>1. PICK N \in Nat, T \in Nat : N = Len(u) /\ T = Len(t) /\ u \in Seq(Redaction!Char)
    BY DEF Covers
<1>2. b \in [0..N -> Nat] /\ b[N] = T /\ \A q \in 0..N : b[q] <= T
    BY <1>1, CoversClimbs
<1>3. PICK came : came = [k \in 1..n |-> [c |-> f[k], at |-> T + k]]
    OBVIOUS
<1>4. came \in Seq(Redaction!Char) /\ Len(came) = n
    <2>1. ASSUME NEW k \in 1..n
          PROVE  [c |-> f[k], at |-> T + k] \in Redaction!Char
        <3>1. f[k] \in Chars /\ T + k \in 0..MaxText
            BY <1>1, RedactConstants DEF Comes
        <3> QED
            BY <3>1 DEF Redaction!Char
    <2> QED
        BY <1>3, <2>1
<1>5. w = u \o came
    BY <1>1, <1>3 DEF Comes
<1>6. /\ w \in Seq(Redaction!Char) /\ Len(w) = N + n
      /\ \A q \in 1..N : w[q] = u[q]
      /\ \A q \in N + 1..N + n : w[q] = came[q - N]
    <2>1. w \in Seq(Redaction!Char) /\ Then(w, u, came, Len(u), Len(came))
        BY <1>1, <1>4, <1>5, Concats
    <2> QED
        BY <1>1, <1>4, <2>1 DEF Then
<1>7. PICK x : x = t \o f
    OBVIOUS
<1>8. /\ f \in Seq(Chars) /\ Len(f) = n /\ Len(x) = T + n
      /\ \A q \in 1..T : x[q] = t[q]
      /\ \A q \in T + 1..T + n : x[q] = f[q - T]
    <2>1. f \in Seq(Chars) /\ Len(f) = n
        OBVIOUS
    <2>2. Then(x, t, f, Len(t), Len(f))
        BY <1>7, <2>1, Concats
    <2> QED
        BY <1>1, <2>1, <2>2 DEF Then
<1> DEFINE d == [q \in 0..N + n |-> IF q <= N THEN b[q] ELSE T + (q - N)]
<1>9. d \in [0..N + n -> Nat] /\ d[N + n] = T + n /\ d[0] = b[0]
    <2>1. \A q \in 0..N + n : q <= N => q \in 0..N
        OBVIOUS
    <2>2. \A q \in 0..N + n : d[q] \in Nat
        BY <1>2, <2>1
    <2>3. d[N + n] = T + n
        <3>1. d[N + n] = IF N + n <= N THEN b[N + n] ELSE T + (N + n - N)
            OBVIOUS
        <3>2. CASE n = 0
            BY <1>2, <3>1, <3>2
        <3>3. CASE n # 0
            BY <3>1, <3>3
        <3> QED
            BY <3>2, <3>3
    <2> QED
        BY <2>2, <2>3
<1>10. ASSUME NEW q \in 1..N + n
       PROVE  Kept(w, d, x, q) \/ Gone(w, d, x, q)
    <2>1. CASE q <= N
        <3>1. q \in 1..N /\ d[q] = b[q] /\ d[q - 1] = b[q - 1] /\ w[q] = u[q]
            BY <1>6, <2>1
        <3>2. b[q - 1] \in Nat /\ b[q] \in Nat
            BY <1>2, <3>1
        <3>3. CASE Kept(u, b, t, q)
            <4>1. b[q] = b[q - 1] + 1 /\ b[q] <= T /\ u[q] = [c |-> t[b[q]], at |-> b[q]]
                BY <1>1, <3>3 DEF Kept
            <4>2. b[q] \in 1..T /\ b[q] <= T + n
                BY <3>2, <4>1
            <4>3. x[b[q]] = t[b[q]]
                BY <1>8, <4>2
            <4> HIDE DEF d
            <4> QED
                BY <1>8, <3>1, <4>1, <4>2, <4>3 DEF Kept
        <3>4. CASE Gone(u, b, t, q)
            <4>1. PICK s \in Secrets : Reads(t, b[q - 1] + 1, s) /\ b[q] = b[q - 1] + Len(s)
                BY <3>4 DEF Gone
            <4>2. b[q - 1] + 1 \in Nat \ {0} /\ s \in Patterns
                BY <3>2 DEF Patterns
            <4>3. Reads(x, b[q - 1] + 1, s)
                BY <1>7, <1>8, <4>1, <4>2, ReadsOn
            <4>4. u[q] = Redaction!Redacted
                BY <3>4 DEF Gone
            <4> HIDE DEF d
            <4> QED
                BY <3>1, <4>1, <4>3, <4>4 DEF Gone
        <3> QED
            BY <1>1, <3>1, <3>3, <3>4 DEF Covers
    <2>2. CASE q > N
        <3>1. q \in N + 1..N + n /\ q - N \in 1..n /\ w[q] = came[q - N]
            <4>1. q \in N + 1..N + n /\ q - N \in 1..n
                BY <2>2
            <4> HIDE DEF d
            <4> QED
                BY <1>6, <4>1
        <3>2. d[q] = T + (q - N)
            BY <2>2
        <3>3. d[q - 1] = T + (q - N) - 1
            <4>1. CASE q - 1 = N
                BY <1>2, <4>1
            <4>2. CASE q - 1 > N
                BY <4>2
            <4> QED
                BY <2>2, <4>1, <4>2
        <3>4. T + (q - N) \in T + 1..T + n /\ T + (q - N) - T = q - N
            BY <3>1
        <3>5. x[T + (q - N)] = f[q - N]
            BY <1>8, <3>4
        <3>6. came[q - N] = [c |-> f[q - N], at |-> T + (q - N)]
            BY <1>3, <3>1
        <3> HIDE DEF d
        <3>7. d[q] = d[q - 1] + 1 /\ d[q] <= Len(x)
            BY <1>8, <3>2, <3>3, <3>4
        <3> QED
            BY <3>1, <3>2, <3>5, <3>6, <3>7 DEF Kept
    <2> QED
        BY <2>1, <2>2
<1>11. Covers(w, d, x)
    <2> HIDE DEF d
    <2> QED
        BY <1>6, <1>8, <1>9, <1>10 DEF Covers
<1> HIDE DEF d
<1>12. t2 = x
    BY <1>7 DEF Comes
<1> QED
    BY <1>9, <1>11, <1>12

Holds_no_more(v, u) == \A j \in Nat \ {0} : Held_in(v, j) => Held_in(u, j)

\* Cleaned, it is of the same reasoning, and holds no place it did not hold.
LEMMA CoversCleaned ==
    ASSUME NEW t \in Seq(Chars), NEW u, NEW b, Covers(u, b, t), NEW v, NEW g, NEW closed \in BOOLEAN,
           Cleans(u, v, g, closed)
    PROVE  /\ Covers(v, [r \in 0..Len(v) |-> b[g[r]]], t)
           /\ Holds_no_more(v, u)
<1>1. PICK n \in Nat, m \in Nat : n = Len(u) /\ m = Len(v) /\ u \in Seq(Redaction!Char) /\ v \in Seq(Redaction!Char)
    BY DEF Covers, Cleans
<1>2. b \in [0..n -> Nat] /\ b[n] = Len(t)
    BY <1>1 DEF Covers
<1>3. /\ g \in [0..m -> 0..n] /\ g[0] = 0 /\ g[m] = n
    BY <1>1 DEF Cleans
<1>4. ASSUME NEW r \in 1..m
      PROVE  \E p \in 1..n :
               /\ p = g[r - 1] + 1 /\ g[r - 1] = p - 1
               /\ \/ v[r] = u[p] /\ g[r] = p
                  \/ /\ v[r] = Redaction!Redacted
                     /\ \E s \in Secrets : Redaction!ValueAt(Redaction!Chars_of(u), p, s, closed) /\ g[r] = p + Len(s) - 1
    <2>1. r \in 1..Len(v) /\ r - 1 \in 0..m
        BY <1>1
    <2>2. g[r - 1] \in 0..n /\ g[r - 1] + 1 <= n
        BY <1>1, <1>3, <2>1 DEF Cleans
    <2>3. PICK p \in 1..n : p = g[r - 1] + 1 /\ g[r - 1] = p - 1
        BY <2>2
    <2>4. \/ v[r] = u[p] /\ g[r] = p
          \/ /\ v[r] = Redaction!Redacted
             /\ \E s \in Secrets : Redaction!ValueAt(Redaction!Chars_of(u), p, s, closed) /\ g[r] = p + Len(s) - 1
        BY <2>1, <2>3 DEF Cleans
    <2> QED
        BY <2>3, <2>4
<1> DEFINE d == [r \in 0..m |-> b[g[r]]]
<1>5. d \in [0..m -> Nat] /\ d[m] = Len(t)
    BY <1>2, <1>3
<1>6. ASSUME NEW r \in 1..m
      PROVE  Kept(v, d, t, r) \/ Gone(v, d, t, r)
    <2>1. PICK p \in 1..n :
            /\ p = g[r - 1] + 1 /\ g[r - 1] = p - 1
            /\ \/ v[r] = u[p] /\ g[r] = p
               \/ /\ v[r] = Redaction!Redacted
                  /\ \E s \in Secrets : Redaction!ValueAt(Redaction!Chars_of(u), p, s, closed) /\ g[r] = p + Len(s) - 1
        BY <1>4
    <2>2. d[r - 1] = b[p - 1] /\ d[r] = b[g[r]]
        <3>1. r \in 0..m /\ r - 1 \in 0..m
            OBVIOUS
        <3>2. d[r - 1] = b[g[r - 1]] /\ d[r] = b[g[r]]
            BY <3>1
        <3> QED
            BY <2>1, <3>2
    <2> HIDE DEF d
    <2>3. CASE v[r] = u[p] /\ g[r] = p
        <3>1. Kept(u, b, t, p) \/ Gone(u, b, t, p)
            BY <1>1 DEF Covers
        <3>2. CASE Kept(u, b, t, p)
            BY <2>2, <2>3, <3>2 DEF Kept
        <3>3. CASE Gone(u, b, t, p)
            BY <2>2, <2>3, <3>3 DEF Gone
        <3> QED
            BY <3>1, <3>2, <3>3
    <2>4. ASSUME v[r] = Redaction!Redacted,
                 NEW s \in Secrets, Redaction!ValueAt(Redaction!Chars_of(u), p, s, closed), g[r] = p + Len(s) - 1
          PROVE  Gone(v, d, t, r)
        <3>1. PICK c \in Seq(AnyChar) : c = Redaction!Chars_of(u)
            BY <1>1, CharsOf
        <3>2. Redaction!At(c, p, s) /\ s \in Patterns /\ p \in Nat \ {0}
            BY <2>4, <3>1 DEF Redaction!ValueAt, Patterns
        <3>3. Reads(c, p, s)
            BY <3>2, AtIs
        <3>4. Reads(t, b[p - 1] + 1, s) /\ b[p + Len(s) - 1] = b[p - 1] + Len(s)
            BY <1>1, <3>1, <3>3, ValueHeld
        <3> QED
            BY <2>2, <2>4, <3>4 DEF Gone
    <2> QED
        BY <2>1, <2>3, <2>4
<1>7. Covers(v, d, t)
    <2> HIDE DEF d
    <2> QED
        BY <1>1, <1>5, <1>6 DEF Covers
<1>8. ASSUME NEW j \in Nat \ {0}, Held_in(v, j)
      PROVE  Held_in(u, j)
    <2>1. PICK r \in 1..m : v[r].at = j
        BY <1>1, <1>8 DEF Held_in
    <2>2. v[r] # Redaction!Redacted
        BY <2>1 DEF Redaction!Redacted
    <2>3. PICK p \in 1..n : v[r] = u[p]
        BY <1>4, <2>2
    <2> QED
        BY <1>1, <2>1, <2>3 DEF Held_in
<1> QED
    BY <1>1, <1>7, <1>8 DEF Holds_no_more

\* The tail of it is of the end of the reasoning.
LEMMA CoversTail ==
    ASSUME NEW t \in Seq(Chars), NEW v, NEW b, Covers(v, b, t), NEW cut \in 0..Len(v)
    PROVE  LET u == SubSeq(v, cut + 1, Len(v))
               d == [q \in 0..Len(v) - cut |-> b[cut + q]]
           IN /\ Covers(u, d, t) /\ d[0] = b[cut]
              /\ Len(u) = Len(v) - cut
              /\ \A q \in 1..Len(u) : u[q] = v[cut + q]
<1>1. PICK n \in Nat : n = Len(v) /\ v \in Seq(Redaction!Char)
    BY DEF Covers
<1>2. b \in [0..n -> Nat] /\ b[n] = Len(t)
    BY <1>1 DEF Covers
<1>3. PICK m \in Nat : m = n - cut
    <2>1. n - cut \in Nat
        BY <1>1
    <2> QED
        BY <2>1
<1>4. PICK u : u = SubSeq(v, cut + 1, n)
    OBVIOUS
<1>5. u \in Seq(Redaction!Char) /\ Len(u) = m /\ \A q \in 1..m : u[q] = v[cut + q]
    <2>1. cut + 1 \in Nat /\ n - (cut + 1) + 1 = m /\ \A q \in 1..m : cut + 1 + q - 1 = cut + q /\ cut + q \in 1..n
        BY <1>1, <1>3
    <2>2. u = [q \in 1..m |-> v[cut + q]]
        BY <1>1, <1>4, <2>1
    <2>3. \A q \in 1..m : v[cut + q] \in Redaction!Char
        BY <1>1, <2>1
    <2> QED
        BY <2>2, <2>3
<1> DEFINE d == [q \in 0..m |-> b[cut + q]]
<1>6. d \in [0..m -> Nat] /\ d[m] = Len(t) /\ d[0] = b[cut]
    <2>1. \A q \in 0..m : cut + q \in 0..n
        BY <1>1, <1>3
    <2>2. cut + m = n /\ cut + 0 = cut
        BY <1>1, <1>3
    <2>3. d \in [0..m -> Nat]
        BY <1>2, <2>1
    <2>4. d[m] = b[cut + m] /\ d[0] = b[cut + 0]
        OBVIOUS
    <2> QED
        BY <1>2, <2>2, <2>3, <2>4
<1>7. ASSUME NEW q \in 1..m
      PROVE  Kept(u, d, t, q) \/ Gone(u, d, t, q)
    <2>1. cut + q \in 1..n /\ cut + (q - 1) = cut + q - 1
        BY <1>1, <1>3
    <2>2. d[q] = b[cut + q] /\ d[q - 1] = b[cut + q - 1] /\ u[q] = v[cut + q]
        BY <1>5, <2>1
    <2>3. Kept(v, b, t, cut + q) \/ Gone(v, b, t, cut + q)
        BY <1>1, <2>1 DEF Covers
    <2> HIDE DEF d
    <2>4. CASE Kept(v, b, t, cut + q)
        BY <2>2, <2>4 DEF Kept
    <2>5. CASE Gone(v, b, t, cut + q)
        BY <2>2, <2>5 DEF Gone
    <2> QED
        BY <2>3, <2>4, <2>5
<1>8. Covers(u, d, t)
    <2> HIDE DEF d
    <2> QED
        BY <1>5, <1>6, <1>7 DEF Covers
<1> QED
    BY <1>1, <1>3, <1>4, <1>5, <1>6, <1>8

-----------------------------------------------------------------------------
(* Redact: the places of a piece, and the tags it quotes *)

\* out is the places of the first m of u, in their order.
Fits(out, u, m) ==
    /\ out \in Seq(1..MaxText)
    /\ \A i, j \in 1..Len(out) : i < j => out[i] < out[j]
    /\ \A i \in 1..Len(out) : \E k \in 1..m : u[k].at = out[i]
    /\ \A k \in 1..m : u[k].at # 0 => \E i \in 1..Len(out) : out[i] = u[k].at

\* Those of its entries that have places have them in order.
Ascends(u) == \A k, l \in 1..Len(u) : k < l /\ u[k].at # 0 /\ u[l].at # 0 => u[k].at < u[l].at

\* The places of no entry, of one entry more, and of all of a piece.
LEMMA FitsNone ==
    ASSUME NEW u, NEW out, out = <<>>
    PROVE  Fits(out, u, 0)
BY DEF Fits

LEMMA FitsMore ==
    ASSUME NEW u \in Seq(Redaction!Char), Ascends(u), NEW m \in 1..Len(u), NEW out, Fits(out, u, m - 1),
           NEW more, more = out \o (IF u[m].at = 0 THEN <<>> ELSE <<u[m].at>>)
    PROVE  Fits(more, u, m)
<1>1. PICK L \in Nat, a \in 0..MaxText : L = Len(out) /\ a = u[m].at /\ out \in Seq(1..MaxText)
    <2>1. u[m] \in Redaction!Char
        OBVIOUS
    <2>2. u[m].at \in 0..MaxText
        BY <2>1 DEF Redaction!Char
    <2>3. out \in Seq(1..MaxText)
        BY DEF Fits
    <2>4. Len(out) \in Nat
        BY <2>3
    <2> QED
        BY <2>2, <2>3, <2>4
<1>2. /\ \A i, j \in 1..L : i < j => out[i] < out[j]
      /\ \A i \in 1..L : \E k \in 1..m - 1 : u[k].at = out[i]
      /\ \A k \in 1..m - 1 : u[k].at # 0 => \E i \in 1..L : out[i] = u[k].at
    BY <1>1 DEF Fits
<1>3. CASE a = 0
    <2>1. more = out
        BY <1>1, <1>3
    <2>2. \A k \in 1..m : k = m \/ k \in 1..m - 1
        OBVIOUS
    <2>3. \A k \in 1..m - 1 : k \in 1..m
        OBVIOUS
    <2> QED
        BY <1>1, <1>2, <1>3, <2>1, <2>2, <2>3 DEF Fits
<1>4. CASE a # 0
    <2>1. more = out \o <<a>> /\ a \in 1..MaxText /\ MaxText \in Nat
        BY <1>1, <1>4, RedactConstants
    <2>2. /\ more \in Seq(1..MaxText) /\ Len(more) = L + 1 /\ more[L + 1] = a
          /\ \A i \in 1..L : more[i] = out[i] /\ out[i] \in 1..MaxText
        <3>1. <<a>> \in Seq(1..MaxText) /\ Len(<<a>>) = 1 /\ <<a>>[1] = a
            BY <2>1
        <3>2. more \in Seq(1..MaxText) /\ Then(more, out, <<a>>, Len(out), Len(<<a>>))
            BY <1>1, <2>1, <3>1, Concats
        <3>3. \A i \in 1..L : out[i] \in 1..MaxText
            <4>1. PICK S : S = 1..MaxText
                OBVIOUS
            <4>2. out \in Seq(S)
                BY <1>1, <4>1
            <4>3. \A i \in 1..L : out[i] \in S
                BY <1>1, <4>2, ElementOfSeq
            <4> QED
                BY <4>1, <4>3
        <3>4. Len(more) = L + 1 /\ (\A i \in 1..L : more[i] = out[i]) /\ more[L + 1] = <<a>>[L + 1 - L]
            BY <1>1, <3>1, <3>2 DEF Then
        <3> QED
            BY <3>1, <3>2, <3>3, <3>4
    <2>3. \A i \in 1..L + 1 : i = L + 1 \/ i \in 1..L
        OBVIOUS
    <2>4. \A i \in 1..L : out[i] < a
        <3> SUFFICES ASSUME NEW i \in 1..L
                     PROVE  out[i] < a
            OBVIOUS
        <3>1. PICK k \in 1..m - 1 : u[k].at = out[i]
            BY <1>2
        <3>2. out[i] # 0
            BY <2>2
        <3>3. k \in 1..Len(u) /\ k < m /\ m \in 1..Len(u)
            OBVIOUS
        <3> QED
            BY <1>1, <1>4, <3>1, <3>2, <3>3 DEF Ascends
    <2>5. ASSUME NEW i \in 1..L + 1, NEW j \in 1..L + 1, i < j
          PROVE  more[i] < more[j]
        <3>1. i \in 1..L
            BY <2>5
        <3> QED
            BY <1>2, <2>2, <2>3, <2>4, <2>5, <3>1
    <2>6. ASSUME NEW i \in 1..L + 1
          PROVE  \E k \in 1..m : u[k].at = more[i]
        <3>1. CASE i = L + 1
            BY <1>1, <2>2, <3>1
        <3>2. CASE i \in 1..L
            <4>1. PICK k \in 1..m - 1 : u[k].at = out[i]
                BY <1>2, <3>2
            <4>2. k \in 1..m
                OBVIOUS
            <4> QED
                BY <2>2, <3>2, <4>1, <4>2
        <3> QED
            BY <2>3, <3>1, <3>2
    <2>7. ASSUME NEW k \in 1..m, u[k].at # 0
          PROVE  \E i \in 1..L + 1 : more[i] = u[k].at
        <3>1. CASE k = m
            <4>1. L + 1 \in 1..L + 1
                OBVIOUS
            <4> QED
                BY <1>1, <2>2, <3>1, <4>1
        <3>2. CASE k # m
            <4>1. k \in 1..m - 1
                BY <3>2
            <4>2. PICK i \in 1..L : out[i] = u[k].at
                BY <1>2, <2>7, <4>1
            <4>3. i \in 1..L + 1
                OBVIOUS
            <4> QED
                BY <2>2, <4>2, <4>3
        <3> QED
            BY <3>1, <3>2
    <2> QED
        BY <2>2, <2>5, <2>6, <2>7 DEF Fits
<1> QED
    BY <1>3, <1>4

LEMMA PlacesAre ==
    ASSUME NEW u \in Seq(Redaction!Char), Ascends(u)
    PROVE  Fits(Redaction!Places(u), u, Len(u))
<1>1. PICK n \in Nat : n = Len(u)
    OBVIOUS
<1> DEFINE s == [k \in 1..n |-> IF u[k].at = 0 THEN <<>> ELSE <<u[k].at>>]
<1>2. s \in Seq(Seq(Nat)) /\ Len(s) = n
    <2>1. ASSUME NEW k \in 1..n
          PROVE  u[k].at \in Nat
        <3>1. u[k] \in Redaction!Char
            BY <1>1
        <3> QED
            BY <3>1, RedactConstants DEF Redaction!Char
    <2> QED
        BY <2>1
<1>3. Redaction!Places(u) = Redaction!FlattenSeq(s)
    BY <1>1 DEF Redaction!Places
<1>4. CASE n = 0
    <2>1. s = <<>>
        BY <1>4
    <2> QED
        BY <1>1, <1>3, <1>4, <2>1, FlattenNothing, FitsNone
<1>5. CASE n # 0
    <2>1. \A k \in 1..n : s[k] = IF u[k].at = 0 THEN <<>> ELSE <<u[k].at>>
        OBVIOUS
    <2> HIDE DEF s
    <2>2. s # <<>>
        BY <1>2, <1>5, EmptySeq
    <2>3. PICK f : Strung(f, s, n) /\ Redaction!FlattenSeq(s) = f[n]
        BY <1>2, <1>5, <2>2, FlattenStrung
    <2> DEFINE bad == {m \in 1..n : ~Fits(f[m], u, m)}
    <2>4. SUFFICES ASSUME bad # {}
                   PROVE  FALSE
        <3>1. n \in 1..n
            BY <1>5
        <3>2. bad = {} => n \notin bad
            OBVIOUS
        <3>3. bad = {} => Fits(f[n], u, n)
            BY <3>1, <3>2
        <3> HIDE DEF bad
        <3> QED
            BY <1>1, <1>3, <2>3, <3>3
    <2>5. PICK m \in bad : \A j \in bad : m <= j
        BY <2>4, LeastOf, bad \in SUBSET Nat
    <2>6. m \in 1..n /\ ~Fits(f[m], u, m)
        OBVIOUS
    <2>7. f[m] = IF m = 1 THEN s[m] ELSE f[m - 1] \o s[m]
        BY <2>3, <2>6, StrungAt
    <2>8. PICK out : Fits(out, u, m - 1) /\ f[m] = out \o s[m]
        <3>1. CASE m = 1
            <4>1. Fits(<<>>, u, 0) /\ m - 1 = 0
                BY <3>1, FitsNone
            <4>2. s[m] \in Seq(Nat)
                BY <1>2, <2>6
            <4>3. f[m] = <<>> \o s[m]
                BY <2>7, <3>1, <4>2
            <4> QED
                BY <4>1, <4>3
        <3>2. CASE m # 1
            <4>1. m - 1 \in 1..n /\ ~(m <= m - 1)
                BY <2>6, <3>2
            <4>2. m - 1 \notin bad
                BY <2>5, <4>1
            <4>3. Fits(f[m - 1], u, m - 1)
                BY <4>1, <4>2
            <4> QED
                BY <2>7, <3>2, <4>3
        <3> QED
            BY <3>1, <3>2
    <2>9. Fits(f[m], u, m)
        <3>1. m \in 1..Len(u) /\ f[m] = out \o (IF u[m].at = 0 THEN <<>> ELSE <<u[m].at>>)
            BY <1>1, <2>1, <2>6, <2>8
        <3> QED
            BY <2>8, <3>1, FitsMore
    <2> QED
        BY <2>6, <2>9
<1> QED
    BY <1>4, <1>5

\* The places of a part of what is held ascend.
LEMMA PartAscends ==
    ASSUME NEW t \in Seq(Chars), NEW v, NEW b, Covers(v, b, t), NEW cut \in 0..Len(v)
    PROVE  LET u == SubSeq(v, 1, cut)
           IN /\ u \in Seq(Redaction!Char) /\ Len(u) = cut /\ \A q \in 1..cut : u[q] = v[q]
              /\ Ascends(u)
<1>1. PICK n \in Nat : n = Len(v) /\ v \in Seq(Redaction!Char)
    BY DEF Covers
<1>2. PICK u : u = SubSeq(v, 1, cut)
    OBVIOUS
<1>3. u \in Seq(Redaction!Char) /\ Len(u) = cut /\ \A q \in 1..cut : u[q] = v[q]
    <2>1. u = [q \in 1..cut |-> v[q]]
        BY <1>1, <1>2
    <2>2. \A q \in 1..cut : v[q] \in Redaction!Char
        BY <1>1
    <2> QED
        BY <2>1, <2>2
<1>4. ASSUME NEW k \in 1..cut, NEW l \in 1..cut, k < l, u[k].at # 0, u[l].at # 0
      PROVE  u[k].at < u[l].at
    <2>1. k \in 1..n /\ l \in 1..n /\ k \in 0..n /\ l \in 0..n
        BY <1>1
    <2>2. v[k] \in Redaction!Char /\ v[l] \in Redaction!Char
        BY <1>1, <2>1
    <2>3. v[k].at \in Nat \ {0} /\ v[l].at \in Nat \ {0}
        BY <1>3, <1>4, <2>2, RedactConstants DEF Redaction!Char
    <2>4. b[k] = v[k].at
        BY <1>1, <2>1, <2>3, EntryFor
    <2>5. b[l] = v[l].at
        BY <1>1, <2>1, <2>3, EntryFor
    <2>6. b[k] < b[l]
        BY <1>1, <1>4, <2>1, CoversClimbs
    <2> QED
        BY <1>3, <2>4, <2>5, <2>6
<1> QED
    BY <1>2, <1>3, <1>4 DEF Ascends

\* A tag is its name and one more character that ends it.
LEMMA TagReads ==
    ASSUME NEW t \in Seq(AnyChar), NEW i \in Nat \ {0}
    PROVE  Redaction!TagAt(t, i) <=>
             Reads(t, i, Tag) /\ i + Len(Tag) <= Len(t) /\ t[i + Len(Tag)] \in TagEnds
<1>1. Redaction!At(t, i, Tag) <=> Reads(t, i, Tag)
    BY AtIs DEF Patterns
<1> QED
    BY <1>1 DEF Redaction!TagAt

LEMMA PlainIsAny ==
    ASSUME NEW t \in Seq(Chars)
    PROVE  t \in Seq(AnyChar)
BY RedactConstants

\* A tag of the reasoning that is held is found in what is held.
LEMMA TagHeld ==
    ASSUME NEW t \in Seq(Chars), NEW v, NEW b, Covers(v, b, t), NEW i \in 1..Len(t), Redaction!TagAt(t, i),
           AllHeld(v, i, Len(Tag))
    PROVE  \E q \in 1..Len(v) : b[q] = i /\ Redaction!TagAt(Redaction!Chars_of(v), q)
<1>1. PICK n \in Nat, L \in Nat \ {0} : n = Len(v) /\ L = Len(Tag) /\ b \in [0..n -> Nat] /\ b[n] = Len(t)
    <2>1. v \in Seq(Redaction!Char) /\ b \in [0..Len(v) -> Nat] /\ b[Len(v)] = Len(t)
        BY DEF Covers
    <2>2. Len(v) \in Nat /\ Len(Tag) \in Nat \ {0}
        BY <2>1, RedactConstants
    <2> QED
        BY <2>1, <2>2
<1>2. Reads(t, i, Tag) /\ i + L <= Len(t) /\ t[i + L] \in TagEnds /\ i \in Nat \ {0}
    BY <1>1, TagReads, PlainIsAny
<1>3. PICK q \in 1..n : /\ q + L - 1 <= n
                        /\ \A k \in 1..L : Kept(v, b, t, q + k - 1) /\ b[q + k - 1] = i + k - 1
    <2>1. PICK q \in 1..n : HeldFrom(v, b, t, i, L, q)
        BY <1>1, <1>2, HeldTogether
    <2> QED
        BY <1>1, <2>1 DEF HeldFrom
<1>4. PICK c \in Seq(AnyChar) : c = Redaction!Chars_of(v) /\ Len(c) = n /\ \A k \in 1..n : c[k] = v[k].c
    BY <1>1, CharsOf DEF Covers
<1>5. ASSUME NEW k \in 1..L
      PROVE  c[q + k - 1] = Tag[k]
    <2>1. q + k - 1 \in 1..n
        BY <1>3
    <2>2. v[q + k - 1].c = t[b[q + k - 1]]
        <3>1. v[q + k - 1] = [c |-> t[b[q + k - 1]], at |-> b[q + k - 1]]
            BY <1>3 DEF Kept
        <3> QED
            BY <3>1
    <2>3. t[i + k - 1] = Tag[k]
        BY <1>1, <1>2 DEF Reads
    <2> QED
        BY <1>3, <1>4, <2>1, <2>2, <2>3
<1>6. b[q + L - 1] = i + L - 1 /\ b[q] = i
    <2>1. L \in 1..L /\ 1 \in 1..L /\ q + 1 - 1 = q /\ i + 1 - 1 = i
        BY <1>1
    <2> QED
        BY <1>3, <2>1
<1>7. q + L \in 1..n
    <2>1. q + L - 1 # n
        <3>1. i + L - 1 < i + L /\ i + L \in Nat
            BY <1>1, <1>2
        <3>2. b[n] # b[q + L - 1]
            BY <1>1, <1>2, <1>6, <3>1
        <3> QED
            BY <3>2
    <2>2. q + L - 1 <= n
        BY <1>3
    <2>3. q \in 1..n /\ q + L - 1 \in Nat
        BY <1>1
    <2> QED
        BY <1>1, <2>1, <2>2, <2>3
<1>8. q + L - 1 \in 0..n /\ i + L - 1 + 1 = i + L
    BY <1>1, <1>7
<1>9. ~Gone(v, b, t, q + L)
    <2> SUFFICES ASSUME Gone(v, b, t, q + L)
                 PROVE  FALSE
        OBVIOUS
    <2>1. PICK s \in Secrets : Reads(t, b[q + L - 1] + 1, s)
        BY DEF Gone
    <2>2. Len(s) \in Nat \ {0} /\ 1 \in 1..Len(s)
        BY RedactConstants
    <2>3. t[b[q + L - 1] + 1 + 1 - 1] = s[1]
        BY <2>1, <2>2 DEF Reads
    <2>4. b[q + L - 1] + 1 + 1 - 1 = i + L
        BY <1>6, <1>8
    <2>5. t[i + L] = s[1]
        BY <2>3, <2>4
    <2> QED
        BY <1>2, <2>5, RedactConstants
<1>10. c[q + L] \in TagEnds
    <2>1. Kept(v, b, t, q + L)
        BY <1>1, <1>7, <1>9 DEF Covers
    <2>2. b[q + L] = b[q + L - 1] + 1 /\ v[q + L] = [c |-> t[b[q + L]], at |-> b[q + L]]
        BY <2>1 DEF Kept
    <2>3. b[q + L] = i + L
        BY <1>6, <1>8, <2>2
    <2>4. v[q + L].c = t[i + L]
        BY <2>2, <2>3
    <2> QED
        BY <1>2, <1>4, <1>7, <2>4
<1>11. Reads(c, q, Tag)
    BY <1>1, <1>3, <1>4, <1>5 DEF Reads
<1>12. Redaction!TagAt(c, q)
    <2>1. q \in Nat \ {0} /\ q + Len(Tag) <= Len(c)
        BY <1>1, <1>4, <1>7
    <2> QED
        BY <1>1, <1>10, <1>11, <2>1, TagReads
<1> QED
    BY <1>1, <1>4, <1>6, <1>12

\* A tag found in what is held is one of the reasoning.
LEMMA TagQuoted ==
    ASSUME NEW t \in Seq(Chars), NEW v, NEW b, Covers(v, b, t), NEW q \in 1..Len(v),
           Redaction!TagAt(Redaction!Chars_of(v), q)
    PROVE  b[q] \in 1..Len(t) /\ Redaction!TagAt(t, b[q])
<1>1. PICK n \in Nat, L \in Nat \ {0} : n = Len(v) /\ L = Len(Tag)
    BY RedactConstants DEF Covers
<1>2. b \in [0..n -> Nat] /\ \A k \in 0..n : b[k] <= Len(t)
    BY <1>1, CoversClimbs
<1>3. PICK c \in Seq(AnyChar) : c = Redaction!Chars_of(v) /\ Len(c) = n /\ \A k \in 1..n : c[k] = v[k].c
    BY <1>1, CharsOf DEF Covers
<1>4. Reads(c, q, Tag) /\ q + L <= n /\ c[q + L] \in TagEnds
    BY <1>1, <1>3, TagReads
<1>5. ASSUME NEW k \in 1..L + 1
      PROVE  Kept(v, b, t, q + k - 1)
    <2>1. q + k - 1 \in 1..n
        BY <1>1, <1>4
    <2>2. c[q + k - 1] \in Chars
        <3>1. CASE k = L + 1
            <4>1. q + k - 1 = q + L
                BY <3>1
            <4> QED
                BY <1>4, <4>1, RedactConstants
        <3>2. CASE k # L + 1
            <4>1. k \in 1..L
                BY <3>2
            <4>2. c[q + k - 1] = Tag[k]
                BY <1>1, <1>4, <4>1 DEF Reads
            <4> QED
                BY <1>1, <4>1, <4>2, RedactConstants
        <3> QED
            BY <3>1, <3>2
    <2>3. ~Gone(v, b, t, q + k - 1)
        BY <1>3, <2>1, <2>2, RedactConstants DEF Gone, Redaction!Redacted
    <2> QED
        BY <1>1, <2>1, <2>3 DEF Covers
<1>6. \A k \in 0..L + 1 : b[q - 1 + k] = b[q - 1] + k
    <2>1. AllKept(v, b, t, q, L + 1) /\ q + (L + 1) - 1 <= Len(v) /\ L + 1 \in Nat
        BY <1>1, <1>4, <1>5 DEF AllKept
    <2>2. Runs(b, q, L + 1)
        BY <2>1, KeptRun
    <2> QED
        BY <2>2 DEF Runs
<1>7. b[q - 1] \in Nat /\ q - 1 \in Nat
    <2>1. q - 1 \in 0..n
        BY <1>1
    <2> QED
        BY <1>2, <2>1
<1>8. ASSUME NEW k \in 1..L + 1
      PROVE  /\ c[q + k - 1] = t[b[q] + k - 1] /\ b[q] + k - 1 <= Len(t) /\ b[q] = b[q - 1] + 1
    <2>1. q + k - 1 \in 1..n /\ q + k - 1 \in 0..n
        BY <1>1, <1>4
    <2>2. k \in 0..L + 1 /\ q - 1 + k = q + k - 1 /\ 1 \in 0..L + 1 /\ q - 1 + 1 = q
        BY <1>1
    <2>3. b[q + k - 1] = b[q - 1] + k /\ b[q] = b[q - 1] + 1
        BY <1>6, <2>2
    <2>4. b[q] + k - 1 = b[q + k - 1]
        BY <1>7, <2>3
    <2>5. v[q + k - 1] = [c |-> t[b[q + k - 1]], at |-> b[q + k - 1]]
        BY <1>5 DEF Kept
    <2>6. v[q + k - 1].c = t[b[q + k - 1]]
        BY <2>5
    <2> QED
        BY <1>2, <1>3, <2>1, <2>3, <2>4, <2>6
<1>9. b[q] \in Nat \ {0}
    <2>1. 1 \in 1..L + 1
        BY <1>1
    <2>2. b[q] = b[q - 1] + 1
        BY <1>8, <2>1
    <2> QED
        BY <1>7, <2>2
<1>10. b[q] + L <= Len(t) /\ t[b[q] + L] \in TagEnds
    <2>1. L + 1 \in 1..L + 1 /\ q + (L + 1) - 1 = q + L /\ b[q] + (L + 1) - 1 = b[q] + L
        BY <1>1, <1>9
    <2> QED
        BY <1>4, <1>8, <2>1
<1>11. Reads(t, b[q], Tag)
    <2>1. ASSUME NEW k \in 1..L
          PROVE  t[b[q] + k - 1] = Tag[k]
        <3>1. k \in 1..L + 1
            OBVIOUS
        <3>2. c[q + k - 1] = Tag[k]
            BY <1>1, <1>4 DEF Reads
        <3> QED
            BY <1>8, <3>1, <3>2
    <2>2. b[q] + L - 1 <= Len(t)
        BY <1>9, <1>10
    <2> QED
        BY <1>1, <2>1, <2>2 DEF Reads
<1>12. Redaction!TagAt(t, b[q])
    BY <1>1, <1>9, <1>10, <1>11, TagReads, PlainIsAny
<1>13. b[q] \in 1..Len(t)
    BY <1>9, <1>10
<1> QED
    BY <1>12, <1>13

LEMMA Twice ==
    ASSUME NEW a \in Nat, a > 1, NEW h \in Nat
    PROVE  2 * h <= a * h
<1>1. PICK m \in Nat : a = 2 + m
    <2>1. a - 2 \in Nat /\ a = 2 + (a - 2)
        OBVIOUS
    <2> QED
        BY <2>1
<1>2. a * h = 2 * h + m * h
    BY <1>1
<1>3. m * h \in Nat
    OBVIOUS
<1> QED
    BY <1>2, <1>3

\* Where what is held is cut: after a space, before what may begin a tag, or, if nothing near may, before the
\* length of a pattern.
LEMMA CutIs ==
    ASSUME NEW v \in Seq(Redaction!Char), NEW n, n = Len(v), NEW H, H = Redaction!Hold, NEW cut, cut = Redaction!Cut(v)
    PROVE  /\ cut \in 0..n
           /\ cut # 0 =>
                /\ cut + H <= n
                /\ \/ v[cut].c \in Spaces
                   \/ v[cut + 1].c = Tag[1]
                   \/ H < cut /\ \A k \in cut - H + 1..cut : k > 1 => v[k].c # Tag[1]
<1>1. n \in Nat /\ H \in Nat \ {0} /\ MAX_HOLDS \in Nat /\ MAX_HOLDS > 1
    BY HoldIs, RedactConstants
<1>2. PICK limit \in 0..n : limit = IF n > H THEN n - H ELSE 0
    <2>1. (IF n > H THEN n - H ELSE 0) \in 0..n
        BY <1>1
    <2> QED
        BY <2>1
<1> DEFINE S == {0} \cup {i \in 1..limit : v[i].c \in Spaces}
           A == {0} \cup {i \in limit - H + 1..limit : v[i].c = Tag[1]}
<1>3. cut = IF Redaction!Max(S) > 0 THEN Redaction!Max(S)
            ELSE IF n > MAX_HOLDS * H THEN (IF Redaction!Max(A) > 1 THEN Redaction!Max(A) - 1 ELSE limit)
            ELSE 0
    BY <1>2 DEF Redaction!Cut
<1>4. /\ Redaction!Max(S) \in 0..limit
      /\ Redaction!Max(S) > 0 => v[Redaction!Max(S)].c \in Spaces
    <2>1. S \in SUBSET (0..limit) /\ S # {} /\ limit \in Nat
        BY <1>1, <1>2
    <2>2. \A i \in S : i > 0 => v[i].c \in Spaces
        OBVIOUS
    <2> HIDE DEF S
    <2>3. Redaction!Max(S) \in S
        BY <2>1, MaxExists
    <2> QED
        BY <2>1, <2>2, <2>3
<1>5. ASSUME n > MAX_HOLDS * H
      PROVE  /\ H < limit /\ limit = n - H
             /\ Redaction!Max(A) \in 0..limit
             /\ Redaction!Max(A) > 1 => v[Redaction!Max(A)].c = Tag[1]
             /\ \A k \in limit - H + 1..limit : v[k].c = Tag[1] => k <= Redaction!Max(A)
    <2>1. 2 * H <= MAX_HOLDS * H /\ MAX_HOLDS * H \in Nat
        BY <1>1, Twice
    <2>2. H < limit /\ limit = n - H
        BY <1>1, <1>2, <1>5, <2>1
    <2>3. A \in SUBSET (0..limit) /\ A # {} /\ limit \in Nat
        BY <1>1, <1>2, <2>2
    <2>4. \A i \in A : i > 1 => v[i].c = Tag[1]
        OBVIOUS
    <2>5. \A k \in limit - H + 1..limit : v[k].c = Tag[1] => k \in A
        OBVIOUS
    <2> HIDE DEF A
    <2>6. Redaction!Max(A) \in A /\ \A x \in A : x <= Redaction!Max(A)
        BY <2>3, MaxExists
    <2> QED
        BY <2>2, <2>3, <2>4, <2>5, <2>6
<1> HIDE DEF S, A
<1>6. CASE Redaction!Max(S) > 0
    <2>1. cut \in 1..limit /\ v[cut].c \in Spaces
        BY <1>3, <1>4, <1>6
    <2>2. limit = n - H
        BY <1>2, <2>1
    <2> QED
        BY <1>1, <2>1, <2>2
<1>7. CASE ~(Redaction!Max(S) > 0) /\ n > MAX_HOLDS * H
    <2>1. PICK top \in 0..limit : top = Redaction!Max(A)
        BY <1>5, <1>7
    <2>2. CASE top > 1
        <3>1. cut = top - 1 /\ v[top].c = Tag[1]
            BY <1>3, <1>5, <1>7, <2>1, <2>2
        <3>2. cut \in 0..n /\ cut + H <= n /\ cut + 1 = top
            BY <1>1, <1>5, <1>7, <2>2, <3>1
        <3> QED
            BY <3>1, <3>2
    <2>3. CASE ~(top > 1)
        <3>1. cut = limit
            BY <1>3, <1>7, <2>1, <2>3
        <3>2. cut \in 0..n /\ cut + H <= n /\ H < cut
            BY <1>1, <1>5, <1>7, <3>1
        <3>3. ASSUME NEW k \in cut - H + 1..cut, k > 1
              PROVE  v[k].c # Tag[1]
            <4>1. v[k].c = Tag[1] => k <= top
                BY <1>5, <1>7, <2>1, <3>1
            <4> QED
                BY <1>1, <2>3, <3>2, <3>3, <4>1
        <3> QED
            BY <3>2, <3>3
    <2> QED
        BY <2>2, <2>3
<1>8. CASE ~(Redaction!Max(S) > 0) /\ ~(n > MAX_HOLDS * H)
    <2>1. cut = 0
        BY <1>3, <1>8
    <2> QED
        BY <1>1, <2>1
<1> QED
    BY <1>6, <1>7, <1>8

\* A tag that begins in the piece that is cut off is whole in it, with what ends it.
LEMMA TagCut ==
    ASSUME NEW v \in Seq(Redaction!Char), NEW q \in 1..Redaction!Cut(v), q <= Len(v),
           Redaction!TagAt(Redaction!Chars_of(v), q)
    PROVE  Redaction!TagAt(Redaction!Chars_of(SubSeq(v, 1, Redaction!Cut(v))), q)
<1>1. PICK n \in Nat, H \in Nat, L \in Nat \ {0} : n = Len(v) /\ H = Redaction!Hold /\ L = Len(Tag) /\ L < H
    <2>1. Len(v) \in Nat
        OBVIOUS
    <2>2. Redaction!Hold \in Nat /\ Len(Tag) \in Nat \ {0} /\ Len(Tag) < Redaction!Hold
        BY HoldIs, RedactConstants
    <2> QED
        BY <2>1, <2>2
<1>2. PICK cut : cut = Redaction!Cut(v)
    OBVIOUS
<1>3. /\ cut \in 1..n /\ cut + H <= n /\ q \in 1..cut
      /\ \/ v[cut].c \in Spaces
         \/ v[cut + 1].c = Tag[1]
         \/ H < cut /\ \A k \in cut - H + 1..cut : k > 1 => v[k].c # Tag[1]
    <2>1. cut \in 0..n /\ q \in 1..cut
        BY <1>1, <1>2, CutIs
    <2>2. cut # 0
        BY <2>1
    <2> QED
        BY <1>1, <1>2, <2>1, <2>2, CutIs
<1>4. PICK c \in Seq(AnyChar) : c = Redaction!Chars_of(v) /\ Len(c) = n /\ \A k \in 1..n : c[k] = v[k].c
    BY <1>1, CharsOf
<1>5. Reads(c, q, Tag) /\ q + L <= n /\ c[q + L] \in TagEnds
    BY <1>1, <1>4, TagReads
<1>6. \A k \in 1..L : q + k - 1 \in 1..n /\ v[q + k - 1].c = Tag[k]
    <2> SUFFICES ASSUME NEW k \in 1..L
                 PROVE  q + k - 1 \in 1..n /\ v[q + k - 1].c = Tag[k]
        OBVIOUS
    <2>1. q + k - 1 \in 1..n
        BY <1>1, <1>3, <1>5
    <2>2. c[q + k - 1] = Tag[k]
        BY <1>1, <1>5 DEF Reads
    <2> QED
        BY <1>4, <2>1, <2>2
<1>7. v[q + L].c \in TagEnds
    <2>1. q + L \in 1..n
        BY <1>1, <1>3, <1>5
    <2> QED
        BY <1>4, <1>5, <2>1
<1>8. q + L <= cut
    <2> SUFFICES ASSUME cut < q + L
                 PROVE  FALSE
        BY <1>1, <1>3
    <2>1. v[cut].c \notin Spaces
        <3>1. PICK k \in 1..L : k = cut - q + 1
            <4>1. cut - q + 1 \in 1..L
                BY <1>1, <1>3
            <4> QED
                BY <4>1
        <3>2. q + k - 1 = cut
            BY <1>3, <3>1
        <3>3. v[cut].c = Tag[k]
            BY <1>6, <3>2
        <3> QED
            BY <1>1, <3>3, RedactConstants
    <2>2. v[cut + 1].c # Tag[1]
        <3>1. CASE cut + 1 = q + L
            BY <1>7, <3>1, RedactConstants
        <3>2. CASE cut + 1 # q + L
            <4>1. PICK k \in 2..L : k = cut - q + 2
                <5>1. cut \in Nat /\ q \in Nat /\ L \in Nat /\ q <= cut
                    BY <1>1, <1>3
                <5>2. cut + 1 < q + L
                    BY <3>2, <5>1
                <5>3. cut - q + 2 \in 2..L
                    BY <5>1, <5>2
                <5> QED
                    BY <5>3
            <4>2. q + k - 1 = cut + 1 /\ k \in 1..L /\ k # 1
                BY <1>3, <4>1
            <4>3. v[cut + 1].c = Tag[k]
                BY <1>6, <4>2
            <4> QED
                BY <1>1, <4>2, <4>3, RedactConstants
        <3> QED
            BY <3>1, <3>2
    <2>3. PICK low \in Nat : H < cut /\ low = cut - H + 1
                             /\ \A k \in low..cut : k > 1 => v[k].c # Tag[1]
        <3>1. H < cut /\ cut - H + 1 \in Nat /\ \A k \in cut - H + 1..cut : k > 1 => v[k].c # Tag[1]
            BY <1>1, <1>3, <2>1, <2>2
        <3> QED
            BY <3>1
    <2>4. q \in low..cut /\ q > 1
        BY <1>1, <1>3, <2>3
    <2>5. v[q].c = Tag[1]
        <3>1. 1 \in 1..L /\ q + 1 - 1 = q
            BY <1>1, <1>3
        <3> QED
            BY <1>6, <3>1
    <2> QED
        BY <2>3, <2>4, <2>5
<1>9. PICK u : u = SubSeq(v, 1, cut)
    OBVIOUS
<1>10. u \in Seq(Redaction!Char) /\ Len(u) = cut /\ \A k \in 1..cut : u[k] = v[k]
    <2>1. u = [k \in 1..cut |-> v[k]]
        BY <1>1, <1>3, <1>9
    <2>2. \A k \in 1..cut : v[k] \in Redaction!Char
        BY <1>1, <1>3
    <2> QED
        BY <1>3, <2>1, <2>2
<1>11. PICK e \in Seq(AnyChar) : e = Redaction!Chars_of(u) /\ Len(e) = cut /\ \A k \in 1..cut : e[k] = v[k].c
    BY <1>10, CharsOf
<1>12. Reads(e, q, Tag)
    <2>1. ASSUME NEW k \in 1..L
          PROVE  e[q + k - 1] = Tag[k]
        <3>1. q + k - 1 \in 1..cut
            BY <1>1, <1>3, <1>8
        <3> QED
            BY <1>6, <1>11, <3>1
    <2>2. q + L - 1 <= cut
        BY <1>1, <1>3, <1>8
    <2> QED
        BY <1>1, <1>11, <2>1, <2>2 DEF Reads
<1>13. e[q + L] \in TagEnds
    <2>1. q + L \in 1..cut
        BY <1>1, <1>3, <1>8
    <2> QED
        BY <1>7, <1>11, <2>1
<1>14. Redaction!TagAt(e, q)
    <2>1. q \in Nat \ {0} /\ q + Len(Tag) <= Len(e)
        BY <1>1, <1>3, <1>8, <1>11
    <2> QED
        BY <1>1, <1>12, <1>13, <2>1, TagReads
<1> QED
    BY <1>2, <1>9, <1>11, <1>14

\* A value of the reasoning is not held whole once what is held was cleaned.
LEMMA ValueCleaned ==
    ASSUME NEW t \in Seq(Chars), NEW u, NEW b, Covers(u, b, t), NEW v, NEW g, NEW closed \in BOOLEAN,
           Cleans(u, v, g, closed), NEW i \in 1..Len(t), NEW s \in Secrets, Redaction!ValueAt(t, i, s, closed)
    PROVE  ~AllHeld(v, i, Len(s))
<1>1. SUFFICES ASSUME AllHeld(v, i, Len(s))
               PROVE  FALSE
    OBVIOUS
<1>2. PICK n \in Nat, m \in Nat : n = Len(u) /\ m = Len(v) /\ u \in Seq(Redaction!Char)
    BY DEF Covers, Cleans
<1>3. PICK L \in Nat \ {0} : L = Len(s)
    BY RedactConstants
<1> DEFINE d == [r \in 0..m |-> b[g[r]]]
<1>4. Covers(v, d, t) /\ \A j \in Nat \ {0} : Held_in(v, j) => Held_in(u, j)
    BY <1>2, CoversCleaned DEF Holds_no_more
<1>5. AllHeld(u, i, L)
    BY <1>1, <1>3, <1>4 DEF AllHeld
<1>6. PICK p \in 1..n : HeldFrom(u, b, t, i, L, p)
    BY <1>2, <1>5, HeldTogether
<1>7. /\ p + L - 1 <= n /\ b[p - 1] = i - 1
      /\ \A k \in 1..L : Kept(u, b, t, p + k - 1) /\ b[p + k - 1] = i + k - 1
    BY <1>2, <1>6 DEF HeldFrom
<1>8. /\ b \in [0..n -> Nat] /\ b[n] = Len(t)
      /\ \A q, r \in 0..n : q < r => b[q] < b[r]
    BY <1>2, CoversClimbs
<1>9. b[p] = i /\ b[p + L - 1] = i + L - 1
    <2>1. 1 \in 1..L /\ L \in 1..L /\ p + 1 - 1 = p /\ i + 1 - 1 = i
        OBVIOUS
    <2> QED
        BY <1>7, <2>1
<1>10. PICK c \in Seq(AnyChar) : c = Redaction!Chars_of(u) /\ Len(c) = n /\ \A k \in 1..n : c[k] = u[k].c
    BY <1>2, CharsOf
<1>11. /\ Reads(t, i, s)
       /\ i > 1 => t[i - 1] \notin WordChars
       /\ IF i + L > Len(t) THEN closed ELSE t[i + L] \notin WordChars
    <2>1. t \in Seq(AnyChar) /\ i \in Nat \ {0} /\ s \in Patterns
        BY PlainIsAny DEF Patterns
    <2> QED
        BY <1>3, <2>1, AtIs DEF Redaction!ValueAt
<1>12. Reads(c, p, s)
    <2>1. ASSUME NEW k \in 1..L
          PROVE  c[p + k - 1] = s[k]
        <3>1. p + k - 1 \in 1..n
            BY <1>7
        <3>2. u[p + k - 1] = [c |-> t[b[p + k - 1]], at |-> b[p + k - 1]]
            BY <1>7 DEF Kept
        <3>3. u[p + k - 1].c = t[i + k - 1]
            BY <1>7, <3>2
        <3>4. t[i + k - 1] = s[k]
            BY <1>3, <1>11 DEF Reads
        <3> QED
            BY <1>10, <3>1, <3>3, <3>4
    <2> QED
        BY <1>3, <1>7, <1>10, <2>1 DEF Reads
\* What stands at another entry is a character of the reasoning, or none of its.
<1>13. ASSUME NEW q \in 1..n
       PROVE  u[q].c \notin Chars \/ (b[q] = b[q - 1] + 1 /\ u[q].c = t[b[q]])
    <2>1. CASE Kept(u, b, t, q)
        <3>1. b[q] = b[q - 1] + 1 /\ u[q] = [c |-> t[b[q]], at |-> b[q]]
            BY <2>1 DEF Kept
        <3> QED
            BY <3>1
    <2>2. CASE Gone(u, b, t, q)
        BY <2>2, RedactConstants DEF Gone, Redaction!Redacted
    <2> QED
        BY <1>2, <2>1, <2>2 DEF Covers
<1>14. p > 1 => c[p - 1] \notin WordChars
    <2> SUFFICES ASSUME p > 1, c[p - 1] \in WordChars
                 PROVE  FALSE
        OBVIOUS
    <2>1. p - 1 \in 1..n /\ p - 1 - 1 \in 0..n
        OBVIOUS
    <2>2. b[p - 1 - 1] \in Nat /\ u[p - 1].c \in WordChars
        BY <1>8, <1>10, <2>1
    <2>3. b[p - 1] = b[p - 1 - 1] + 1 /\ u[p - 1].c = t[b[p - 1]]
        BY <1>13, <2>1, <2>2, RedactConstants
    <2>4. i > 1 /\ t[i - 1] \in WordChars
        BY <1>7, <2>2, <2>3
    <2> QED
        BY <1>11, <2>4
<1>15. IF p + L > n THEN closed ELSE c[p + L] \notin WordChars
    <2>1. CASE p + L > n
        <3>1. p + L - 1 = n
            BY <1>7, <2>1
        <3>2. i + L > Len(t)
            <4>1. Len(t) = i + L - 1
                BY <1>8, <1>9, <3>1
            <4>2. i \in Nat /\ i + L - 1 < i + L
                OBVIOUS
            <4> QED
                BY <4>1, <4>2
        <3> QED
            BY <1>11, <2>1, <3>2
    <2>2. CASE ~(p + L > n)
        <3> SUFFICES ASSUME c[p + L] \in WordChars
                     PROVE  FALSE
            BY <2>2
        <3>1. p + L \in 1..n /\ p + L \in 0..n
            BY <2>2
        <3>2. u[p + L].c \in WordChars
            BY <1>10, <3>1
        <3>3. b[p + L] = b[p + L - 1] + 1 /\ u[p + L].c = t[b[p + L]]
            BY <1>13, <3>1, <3>2, RedactConstants
        <3>4. b[p + L] = i + L /\ t[i + L] \in WordChars
            BY <1>9, <3>2, <3>3
        <3>5. i + L <= Len(t)
            <4>1. b[p + L] <= Len(t)
                BY <1>2, <3>1, CoversClimbs
            <4> QED
                BY <3>4, <4>1
        <3> QED
            BY <1>11, <3>4, <3>5
    <2> QED
        BY <2>1, <2>2
<1>16. Redaction!ValueAt(c, p, s, closed)
    <2>1. p \in Nat \ {0} /\ s \in Patterns
        BY DEF Patterns
    <2>2. Redaction!At(c, p, s)
        BY <1>12, <2>1, AtIs
    <2> QED
        BY <1>3, <1>10, <1>14, <1>15, <2>2 DEF Redaction!ValueAt
<1>17. /\ g \in [0..m -> 0..n] /\ g \in [0..m -> Nat] /\ g[0] = 0 /\ g[m] = n
    BY <1>2 DEF Cleans
<1>18. PICK r \in 1..m : g[r - 1] < p /\ p <= g[r]
    <2>1. p \in Nat /\ g[0] < p /\ p <= g[m]
        BY <1>17
    <2> QED
        BY <1>17, <2>1, Reaches
<1>19. v[r] = Redaction!Redacted
    <2>1. r \in 1..Len(v)
        BY <1>2
    <2>2. \/ /\ g[r] = g[r - 1] + 1
             /\ ~Redaction!ValueAt(Redaction!Chars_of(u), g[r - 1] + 1, s, closed)
          \/ v[r] = Redaction!Redacted
        BY <2>1 DEF Cleans
    <2>3. g[r - 1] \in Nat /\ g[r] \in Nat
        BY <1>17
    <2>4. g[r] = g[r - 1] + 1 => p = g[r - 1] + 1
        BY <1>18, <2>3
    <2> QED
        BY <1>10, <1>16, <2>2, <2>4
<1>20. PICK q \in 1..m : v[q].at = i
    <2>1. i \in i..i + Len(s) - 1
        BY <1>3
    <2> QED
        BY <1>1, <1>2, <2>1 DEF AllHeld, Held_in
<1>21. d[q] = i /\ d[q - 1] = i - 1
    <2> HIDE DEF d
    <2>1. i \in Nat \ {0} /\ q \in 1..Len(v)
        BY <1>2
    <2> QED
        BY <1>4, <1>20, <2>1, EntryFor
<1>22. q = r
    <2>1. r - 1 \in 0..m /\ r \in 0..m /\ q - 1 \in 0..m /\ q \in 0..m
        OBVIOUS
    <2>2. d[r - 1] = b[g[r - 1]] /\ d[r] = b[g[r]] /\ g[r - 1] \in 0..n /\ g[r] \in 0..n
        BY <1>17, <2>1
    <2> HIDE DEF d
    <2>3. d[r - 1] \in Nat /\ d[r] \in Nat /\ p - 1 \in 0..n /\ p \in 0..n
        BY <1>8, <2>2
    <2>4. d[r - 1] <= i - 1
        <3>1. g[r - 1] = p - 1 \/ g[r - 1] < p - 1
            BY <1>18, <2>2
        <3>2. g[r - 1] < p - 1 => b[g[r - 1]] < b[p - 1]
            BY <1>8, <2>2, <2>3
        <3> QED
            BY <1>7, <2>2, <2>3, <3>1, <3>2
    <2>5. d[r] >= i
        <3>1. g[r] = p \/ p < g[r]
            BY <1>18, <2>2
        <3>2. p < g[r] => b[p] < b[g[r]]
            BY <1>8, <2>2, <2>3
        <3> QED
            BY <1>9, <2>2, <2>3, <3>1, <3>2
    <2>6. \A x, y \in 0..m : x < y => d[x] < d[y]
        BY <1>2, <1>4, CoversClimbs
    <2>7. ~(q <= r - 1) /\ ~(r <= q - 1)
        <3>1. q < r - 1 => d[q] < d[r - 1]
            BY <2>1, <2>6
        <3>2. r < q - 1 => d[r] < d[q - 1]
            BY <2>1, <2>6
        <3>3. q # r - 1 /\ r # q - 1
            BY <1>21, <2>3, <2>4, <2>5
        <3> QED
            BY <1>21, <2>3, <2>4, <2>5, <3>1, <3>2, <3>3
    <2> QED
        BY <2>7
<1> QED
    BY <1>19, <1>20, <1>22 DEF Redaction!Redacted

-----------------------------------------------------------------------------
(* Redact: what was sent, and what is held *)

\* Place j is among those sent.
Was_sent(out, j) == \E k \in 1..Len(out) : out[k] = j

\* A place that was not sent, and will not be.
Lost(out, u, j) == ~Was_sent(out, j) /\ ~Held_in(u, j)

\* Some place from i on is lost.
Broken(out, u, i, L) == \E j \in i..i + L - 1 : Lost(out, u, j)

\* Where each place before the held ones went.
Accounted(t, out, drop, i) ==
    \/ Was_sent(out, i)
    \/ i \in drop /\ \E j \in 1..Len(t) : Redaction!TagAt(t, j)
    \/ \E s \in Secrets, j \in 1..i : Reads(t, j, s) /\ i \in j..j + Len(s) - 1

\* What was sent and dropped of reasoning t, of which the first `gone` places are not held any more.
Sent_well(t, out, drop, gone) ==
    /\ out \in Seq(1..MaxText) /\ drop \subseteq 1..MaxText
    /\ \A i, j \in 1..Len(out) : i < j => out[i] < out[j]
    /\ \A i \in 1..Len(out) : out[i] <= gone
    /\ \A i \in 1..gone : Accounted(t, out, drop, i)

ValuesBroken(t, out, u, closed) ==
    \A i \in 1..Len(t), s \in Secrets : Redaction!ValueAt(t, i, s, closed) => Broken(out, u, i, Len(s))

TagsBroken(t, out, u, gone) ==
    \A i \in 1..Len(t) : Redaction!TagAt(t, i) => gone < i \/ Broken(out, u, i, Len(Tag))

Redacts(t, u, out, drop, closed, b) ==
    /\ Covers(u, b, t)
    /\ Sent_well(t, out, drop, b[0])
    /\ closed \/ b[0] = 0 \/ b[0] + Redaction!Hold <= Len(t)
    /\ ValuesBroken(t, out, u, closed)
    /\ TagsBroken(t, out, u, b[0])

RedactInv ==
    /\ text \in Seq(Chars) /\ Len(text) <= MaxText
    /\ over \in BOOLEAN
    /\ over => buffer = <<>>
    /\ \E b : Redacts(text, buffer, sent, dropped, over, b)

\* A piece is sent, or dropped because it quotes a tag.
Sends(out, drop, piece, out2, drop2) ==
    IF Redaction!Quotes(piece)
      THEN drop2 = drop \cup Redaction!ToSet(Redaction!Places(piece)) /\ out2 = out
      ELSE out2 = out \o Redaction!Places(piece) /\ drop2 = drop

\* No place of 1..T is held or sent that was not.
NoneNew(out, u, out2, u2, T) ==
    \A j \in 1..T : Was_sent(out2, j) \/ Held_in(u2, j) => Was_sent(out, j) \/ Held_in(u, j)

\* What a value and a tag would take to be sent whole is lost for good.
LEMMA StaysBroken ==
    ASSUME NEW out, NEW out2, NEW u, NEW u2, NEW i \in Nat \ {0}, NEW L \in Nat, NEW T \in Nat, i + L - 1 <= T,
           NoneNew(out, u, out2, u2, T),
           Broken(out, u, i, L)
    PROVE  Broken(out2, u2, i, L)
<1>1. PICK j \in i..i + L - 1 : Lost(out, u, j)
    BY DEF Broken
<1>2. j \in 1..T
    OBVIOUS
<1> QED
    BY <1>1, <1>2 DEF Broken, Lost, NoneNew

\* out2 is out and then the places of the first m of the piece.
Follows(out2, out, piece, m) ==
    /\ out2 \in Seq(1..MaxText)
    /\ \A i, j \in 1..Len(out2) : i < j => out2[i] < out2[j]
    /\ \A j \in Nat \ {0} : Was_sent(out2, j) <=> Was_sent(out, j) \/ \E k \in 1..m : piece[k].at = j

\* What was sent ascends, up to the places that are not held any more; what is sent later comes after them.
UpTo(out, gone) ==
    /\ \A i, j \in 1..Len(out) : i < j => out[i] < out[j]
    /\ \A i \in 1..Len(out) : out[i] <= gone

Later(piece, m, gone) == \A k \in 1..m : piece[k].at # 0 => gone < piece[k].at

\* The places of the piece that is cut off follow what was sent.
LEMMA SentMore ==
    ASSUME NEW out \in Seq(1..MaxText), NEW gone \in Nat, UpTo(out, gone),
           NEW piece, NEW m \in Nat, NEW more, Fits(more, piece, m), Later(piece, m, gone),
           NEW out2, out2 = out \o more
    PROVE  Follows(out2, out, piece, m)
<1>1. PICK n \in Nat, l \in Nat : n = Len(out) /\ l = Len(more) /\ more \in Seq(1..MaxText)
    BY DEF Fits
<1>2. /\ \A i, j \in 1..l : i < j => more[i] < more[j]
      /\ \A i \in 1..l : \E k \in 1..m : piece[k].at = more[i]
      /\ \A k \in 1..m : piece[k].at # 0 => \E i \in 1..l : more[i] = piece[k].at
    BY <1>1 DEF Fits
<1>3. out2 \in Seq(1..MaxText) /\ Then(out2, out, more, n, l)
    BY <1>1, Concats
<1>4. Len(out2) = n + l /\ (\A q \in 1..n : out2[q] = out[q]) /\ (\A q \in n + 1..n + l : out2[q] = more[q - n])
    BY <1>3 DEF Then
<1>5. (\A i \in 1..n : out[i] \in 1..MaxText) /\ (\A i \in 1..l : more[i] \in 1..MaxText)
    <2>1. PICK S : S = 1..MaxText
        OBVIOUS
    <2>2. out \in Seq(S) /\ more \in Seq(S)
        BY <1>1, <2>1
    <2>3. (\A i \in 1..n : out[i] \in S) /\ (\A i \in 1..l : more[i] \in S)
        BY <1>1, <2>2, ElementOfSeq
    <2> QED
        BY <2>1, <2>3
<1>6. \A i \in 1..l : gone < more[i]
    <2> SUFFICES ASSUME NEW i \in 1..l
                 PROVE  gone < more[i]
        OBVIOUS
    <2>1. PICK k \in 1..m : piece[k].at = more[i]
        BY <1>2
    <2>2. more[i] # 0
        BY <1>5, RedactConstants
    <2> QED
        BY <2>1, <2>2 DEF Later
<1>7. ASSUME NEW i \in 1..n + l, NEW j \in 1..n + l, i < j
      PROVE  out2[i] < out2[j]
    <2>1. CASE j <= n
        <3>1. i \in 1..n /\ j \in 1..n
            BY <1>7, <2>1
        <3> QED
            BY <1>1, <1>4, <1>7, <3>1 DEF UpTo
    <2>2. CASE n < i
        <3>1. i \in n + 1..n + l /\ j \in n + 1..n + l /\ i - n \in 1..l /\ j - n \in 1..l /\ i - n < j - n
            BY <1>7, <2>2
        <3> QED
            BY <1>2, <1>4, <3>1
    <2>3. CASE i <= n /\ n < j
        <3>1. i \in 1..n /\ j \in n + 1..n + l /\ j - n \in 1..l
            BY <2>3
        <3>2. out[i] <= gone /\ gone < more[j - n] /\ out[i] \in 1..MaxText /\ more[j - n] \in 1..MaxText
            BY <1>1, <1>5, <1>6, <3>1 DEF UpTo
        <3>3. out[i] < more[j - n]
            BY <3>2, RedactConstants
        <3> QED
            BY <1>4, <3>1, <3>3
    <2>4. j <= n \/ n < i \/ (i <= n /\ n < j)
        OBVIOUS
    <2> QED
        BY <2>1, <2>2, <2>3, <2>4
<1>8. ASSUME NEW j \in Nat \ {0}
      PROVE  Was_sent(out2, j) <=> Was_sent(out, j) \/ \E k \in 1..m : piece[k].at = j
    <2>1. ASSUME NEW q \in 1..n + l, out2[q] = j
          PROVE  Was_sent(out, j) \/ \E k \in 1..m : piece[k].at = j
        <3>1. CASE q <= n
            <4>1. q \in 1..n
                BY <3>1
            <4> QED
                BY <1>1, <1>4, <2>1, <4>1 DEF Was_sent
        <3>2. CASE n < q
            <4>1. q \in n + 1..n + l /\ q - n \in 1..l
                BY <3>2
            <4> QED
                BY <1>2, <1>4, <2>1, <4>1
        <3> QED
            BY <3>1, <3>2
    <2>2. ASSUME Was_sent(out, j)
          PROVE  Was_sent(out2, j)
        <3>1. PICK q \in 1..n : out[q] = j
            BY <1>1, <2>2 DEF Was_sent
        <3>2. q \in 1..n + l
            OBVIOUS
        <3> QED
            BY <1>4, <3>1, <3>2 DEF Was_sent
    <2>3. ASSUME NEW k \in 1..m, piece[k].at = j
          PROVE  Was_sent(out2, j)
        <3>1. PICK i \in 1..l : more[i] = j
            BY <1>2, <2>3
        <3>2. n + i \in n + 1..n + l /\ n + i \in 1..n + l /\ n + i - n = i
            OBVIOUS
        <3>3. out2[n + i] = j /\ n + i \in 1..Len(out2)
            BY <1>4, <3>1, <3>2
        <3> QED
            BY <3>3 DEF Was_sent
    <2> QED
        BY <1>4, <2>1, <2>2, <2>3 DEF Was_sent
<1> QED
    BY <1>3, <1>4, <1>7, <1>8 DEF Follows

\* One step: u, of reasoning t, is cleaned to v, of which the first `cut` are sent or dropped and the rest stays held.
StepOf(t, u, v, g, closed, cut, out, drop, out2, drop2) ==
    /\ Cleans(u, v, g, closed)
    /\ cut \in 0..Len(v)
    /\ IF closed THEN cut = Len(v) ELSE cut = Redaction!Cut(v)
    /\ Sends(out, drop, SubSeq(v, 1, cut), out2, drop2)

\* The piece is what v holds of places gone + 1..past, and the rest what it holds of later ones.
Divides(t, v, piece, rest, cut, gone, past) ==
    /\ \A k \in 1..cut : piece[k].at # 0 => /\ gone < piece[k].at /\ piece[k].at <= past
                                            /\ ~Held_in(rest, piece[k].at)
    /\ \A j \in Nat \ {0} : Held_in(rest, j) => Held_in(v, j)
    /\ \A j \in Nat \ {0} : (\E k \in 1..cut : piece[k].at = j) => Held_in(v, j)
    /\ \A j \in gone + 1..past :
         \/ \E k \in 1..cut : piece[k].at = j
         \/ \E s \in Secrets, i \in 1..j : Reads(t, i, s) /\ j \in i..i + Len(s) - 1

\* What a piece holds is of the reasoning after what went before and up to where the rest begins.
LEMMA PieceHolds ==
    ASSUME NEW t \in Seq(Chars), NEW v, NEW b, Covers(v, b, t), NEW cut \in 0..Len(v),
           NEW piece, piece = SubSeq(v, 1, cut), NEW rest, rest = SubSeq(v, cut + 1, Len(v))
    PROVE  Divides(t, v, piece, rest, cut, b[0], b[cut])
<1>1. PICK n \in Nat : n = Len(v) /\ v \in Seq(Redaction!Char)
    BY DEF Covers
<1>2. /\ b \in [0..n -> Nat] /\ b[n] = Len(t)
      /\ \A q, r \in 0..n : q < r => b[q] < b[r]
    BY <1>1, CoversClimbs
<1>3. \A k \in 1..cut : piece[k] = v[k] /\ k \in 1..n
    BY <1>1, PartAscends
<1>4. Len(rest) = n - cut /\ \A q \in 1..n - cut : rest[q] = v[cut + q]
    BY <1>1, CoversTail
<1>5. \A k \in 1..n : v[k].at \in Nat
    <2>1. \A k \in 1..n : v[k] \in Redaction!Char
        BY <1>1
    <2> QED
        BY <2>1, RedactConstants DEF Redaction!Char
<1>6. ASSUME NEW k \in 1..n, v[k].at # 0
      PROVE  b[k] = v[k].at
    <2>1. v[k].at \in Nat \ {0} /\ k \in 1..Len(v)
        BY <1>1, <1>5, <1>6
    <2> QED
        BY <2>1, EntryFor
<1>7. ASSUME NEW k \in 1..cut, piece[k].at # 0
      PROVE  b[0] < piece[k].at /\ piece[k].at <= b[cut] /\ ~Held_in(rest, piece[k].at)
    <2>1. piece[k].at = b[k] /\ k \in 0..n /\ cut \in 0..n /\ 0 \in 0..n
        BY <1>1, <1>3, <1>6, <1>7
    <2>2. b[0] < b[k]
        BY <1>2, <2>1
    <2>3. b[k] <= b[cut]
        <3>1. k = cut \/ k < cut
            BY <1>1
        <3>2. k < cut => b[k] < b[cut]
            BY <1>2, <2>1
        <3>3. b[k] \in Nat /\ b[cut] \in Nat
            BY <1>2, <2>1
        <3> QED
            BY <3>1, <3>2, <3>3
    <2>4. ASSUME Held_in(rest, b[k])
          PROVE  FALSE
        <3>1. PICK q \in 1..n - cut : rest[q].at = b[k]
            BY <1>4, <2>4 DEF Held_in
        <3>2. cut + q \in 1..n /\ cut + q \in 0..n /\ k < cut + q
            BY <1>1
        <3>3. v[cut + q].at = b[k]
            BY <1>4, <3>1
        <3>4. b[k] < b[cut + q]
            BY <1>2, <2>1, <3>2
        <3>5. b[k] # 0
            BY <1>7, <2>1
        <3>6. b[cut + q] = b[k]
            BY <1>6, <3>2, <3>3, <3>5
        <3> QED
            BY <1>2, <2>1, <3>4, <3>6
    <2> QED
        BY <2>1, <2>2, <2>3, <2>4
<1>8. ASSUME NEW j \in Nat \ {0}, Held_in(rest, j)
      PROVE  Held_in(v, j)
    <2>1. PICK q \in 1..n - cut : rest[q].at = j
        BY <1>4, <1>8 DEF Held_in
    <2>2. cut + q \in 1..n /\ v[cut + q].at = j
        BY <1>1, <1>4, <2>1
    <2> QED
        BY <1>1, <2>2 DEF Held_in
<1>9. ASSUME NEW j \in Nat \ {0}, NEW k \in 1..cut, piece[k].at = j
      PROVE  Held_in(v, j)
    BY <1>1, <1>3, <1>9 DEF Held_in
<1>10. ASSUME NEW j \in b[0] + 1..b[cut]
       PROVE  \/ \E k \in 1..cut : piece[k].at = j
              \/ \E s \in Secrets, i \in 1..j : Reads(t, i, s) /\ j \in i..i + Len(s) - 1
    <2>1. (\A q \in 0..cut : b[q] \in Nat) /\ b[0] \in Nat /\ b[cut] \in Nat /\ cut \in Nat
        <3>1. \A q \in 0..cut : q \in 0..n
            BY <1>1
        <3>2. \A q \in 0..cut : b[q] \in Nat
            BY <1>2, <3>1
        <3> QED
            BY <1>1, <3>2
    <2> DEFINE a == [q \in 0..cut |-> b[q]]
    <2>2. a \in [0..cut -> Nat] /\ a[0] = b[0] /\ a[cut] = b[cut] /\ j \in Nat /\ a[0] < j /\ j <= a[cut]
        BY <2>1
    <2>3. PICK q \in 1..cut : a[q - 1] < j /\ j <= a[q]
        <3> HIDE DEF a
        <3> QED
            BY <2>1, <2>2, Reaches
    <2>4. b[q - 1] < j /\ j <= b[q] /\ q \in 1..n /\ b[q - 1] \in Nat /\ b[q] \in Nat
        <3>1. q - 1 \in 0..cut /\ q \in 0..cut /\ q \in 1..n /\ q - 1 \in 0..n /\ q \in 0..n
            BY <1>1
        <3> QED
            BY <1>2, <2>3, <3>1
    <2> HIDE DEF a
    <2>5. CASE Kept(v, b, t, q)
        <3>1. b[q] = b[q - 1] + 1 /\ v[q] = [c |-> t[b[q]], at |-> b[q]]
            BY <2>5 DEF Kept
        <3>2. b[q] = j
            BY <2>2, <2>4, <3>1
        <3>3. v[q].at = j
            BY <3>1, <3>2
        <3> QED
            BY <1>3, <3>3
    <2>6. CASE Gone(v, b, t, q)
        <3>1. PICK s \in Secrets : Reads(t, b[q - 1] + 1, s) /\ b[q] = b[q - 1] + Len(s)
            BY <2>6 DEF Gone
        <3>2. Len(s) \in Nat \ {0}
            BY RedactConstants
        <3>3. PICK from \in Nat, L \in Nat \ {0} : from = b[q - 1] /\ L = Len(s)
            BY <2>4, <3>2
        <3>4. j \in Nat /\ from < j /\ j <= from + L
            BY <2>2, <2>4, <3>1, <3>3
        <3>5. from + 1 \in 1..j /\ j \in from + 1..from + 1 + L - 1
            BY <3>4
        <3> QED
            BY <3>1, <3>3, <3>5
    <2> QED
        BY <1>1, <2>4, <2>5, <2>6 DEF Covers
<1> QED
    BY <1>7, <1>8, <1>9, <1>10 DEF Divides

\* Between two entries are at least as many places as entries.
LEMMA ClimbsBy ==
    ASSUME NEW n \in Nat, NEW b \in [0..n -> Nat], \A q \in 1..n : b[q - 1] < b[q], NEW i \in 0..n
    PROVE  b[i] + (n - i) <= b[n]
<1> DEFINE bad == {q \in i..n : ~(b[i] + (q - i) <= b[q])}
<1>1. SUFFICES ASSUME bad # {}
               PROVE  FALSE
    <2>1. n \in i..n
        OBVIOUS
    <2>2. bad = {} => n \notin bad
        OBVIOUS
    <2> QED
        BY <2>1, <2>2
<1>2. PICK q \in bad : \A k \in bad : q <= k
    BY <1>1, LeastOf, bad \in SUBSET Nat
<1>3. q \in i..n /\ ~(b[i] + (q - i) <= b[q]) /\ b[i] \in Nat /\ b[q] \in Nat
    OBVIOUS
<1>4. q # i
    BY <1>3
<1>5. q - 1 \in i..n /\ q \in 1..n /\ ~(q <= q - 1) /\ b[q - 1] \in Nat
    BY <1>3, <1>4
<1>6. q - 1 \notin bad
    BY <1>2, <1>5
<1>7. b[i] + (q - 1 - i) <= b[q - 1] /\ b[q - 1] < b[q]
    BY <1>5, <1>6
<1> HIDE DEF bad
<1> QED
    BY <1>3, <1>5, <1>7

\* t2 begins with t.
Goes_on(t, t2) == Len(t) <= Len(t2) /\ \A k \in 1..Len(t) : t2[k] = t[k]

\* What stands in a text stands in what it goes on to, and what stands there within it stood in it.
LEMMA GoesOn ==
    ASSUME NEW t \in Seq(Chars), NEW t2 \in Seq(Chars), Goes_on(t, t2), NEW i \in Nat \ {0}, NEW p \in Patterns
    PROVE  /\ Reads(t, i, p) => Reads(t2, i, p)
           /\ i + Len(p) - 1 <= Len(t) /\ Reads(t2, i, p) => Reads(t, i, p)
           /\ Redaction!TagAt(t, i) => Redaction!TagAt(t2, i)
           /\ i + Len(Tag) <= Len(t) /\ Redaction!TagAt(t2, i) => Redaction!TagAt(t, i)
<1>1. PICK n \in Nat, m \in Nat : n = Len(t) /\ m = Len(t2) /\ n <= m /\ \A k \in 1..n : t2[k] = t[k]
    <2>1. Len(t) \in Nat /\ Len(t2) \in Nat
        OBVIOUS
    <2> QED
        BY <2>1 DEF Goes_on
<1>2. ASSUME NEW s \in Patterns
      PROVE  /\ Reads(t, i, s) => Reads(t2, i, s)
             /\ i + Len(s) - 1 <= n /\ Reads(t2, i, s) => Reads(t, i, s)
    <2>1. PICK L \in Nat \ {0} : L = Len(s)
        BY RedactConstants DEF Patterns
    <2>2. i + L - 1 <= n => \A k \in 1..L : i + k - 1 \in 1..n
        OBVIOUS
    <2>3. i + L - 1 <= n => \A k \in 1..L : t2[i + k - 1] = t[i + k - 1]
        BY <1>1, <2>2
    <2>4. i + L - 1 <= n => i + L - 1 <= m
        BY <1>1
    <2> QED
        BY <1>1, <2>1, <2>3, <2>4 DEF Reads
<1>3. PICK L \in Nat \ {0} : L = Len(Tag) /\ Tag \in Patterns
    BY RedactConstants DEF Patterns
<1>4. i + L <= n => t2[i + L] = t[i + L] /\ i + L <= m /\ i + L - 1 <= n
    BY <1>1
<1>5. Redaction!TagAt(t, i) => Redaction!TagAt(t2, i)
    <2> SUFFICES ASSUME Redaction!TagAt(t, i)
                 PROVE  Redaction!TagAt(t2, i)
        OBVIOUS
    <2>1. Reads(t, i, Tag) /\ i + L <= n /\ t[i + L] \in TagEnds
        BY <1>1, <1>3, TagReads, PlainIsAny
    <2>2. Reads(t2, i, Tag) /\ i + L <= m /\ t2[i + L] \in TagEnds
        BY <1>2, <1>3, <1>4, <2>1
    <2> QED
        BY <1>1, <1>3, <2>2, TagReads, PlainIsAny
<1>6. i + L <= n /\ Redaction!TagAt(t2, i) => Redaction!TagAt(t, i)
    <2> SUFFICES ASSUME i + L <= n, Redaction!TagAt(t2, i)
                 PROVE  Redaction!TagAt(t, i)
        OBVIOUS
    <2>1. Reads(t2, i, Tag) /\ t2[i + L] \in TagEnds
        BY <1>1, <1>3, TagReads, PlainIsAny
    <2>2. Reads(t, i, Tag) /\ t[i + L] \in TagEnds
        BY <1>2, <1>3, <1>4, <2>1
    <2> QED
        BY <1>1, <1>3, <2>2, TagReads, PlainIsAny
<1> QED
    BY <1>1, <1>2, <1>3, <1>5, <1>6

\* A value that was one before the text went on: it is one still, or what follows it has just come.
LEMMA ValueOld ==
    ASSUME NEW t \in Seq(Chars), NEW t2 \in Seq(Chars), Goes_on(t, t2), NEW closed \in BOOLEAN,
           NEW i \in 1..Len(t2), NEW s \in Secrets, Redaction!ValueAt(t2, i, s, closed), i + Len(s) <= Len(t)
    PROVE  i \in 1..Len(t) /\ Redaction!ValueAt(t, i, s, FALSE)
<1>1. PICK n \in Nat, m \in Nat : n = Len(t) /\ m = Len(t2) /\ n <= m /\ \A k \in 1..n : t2[k] = t[k]
    <2>1. Len(t) \in Nat /\ Len(t2) \in Nat
        OBVIOUS
    <2> QED
        BY <2>1 DEF Goes_on
<1>2. PICK L \in Nat \ {0} : L = Len(s) /\ i + L <= n
    BY <1>1, RedactConstants
<1>3. s \in Patterns /\ i \in Nat \ {0}
    BY DEF Patterns
<1>4. i \in 1..n /\ i + L \in 1..n /\ ~(i + L > n) /\ ~(i + L > m) /\ (i > 1 => i - 1 \in 1..n) /\ i + L - 1 <= n
    BY <1>1, <1>2
<1>5. /\ Reads(t2, i, s)
      /\ i > 1 => t2[i - 1] \notin WordChars
      /\ t2[i + L] \notin WordChars
    <2>1. Redaction!At(t2, i, s) /\ (i > 1 => t2[i - 1] \notin WordChars) /\ t2[i + L] \notin WordChars
        BY <1>1, <1>2, <1>4 DEF Redaction!ValueAt
    <2> QED
        BY <1>3, <2>1, AtIs, PlainIsAny
<1>6. Reads(t, i, s)
    BY <1>1, <1>2, <1>3, <1>4, <1>5, GoesOn
<1>7. Redaction!At(t, i, s)
    BY <1>3, <1>6, AtIs, PlainIsAny
<1>8. (i > 1 => t[i - 1] \notin WordChars) /\ t[i + L] \notin WordChars
    BY <1>1, <1>4, <1>5
<1> QED
    BY <1>1, <1>2, <1>4, <1>7, <1>8 DEF Redaction!ValueAt

\* A tag in the piece that is cut off is one in what was held.
LEMMA TagOfPiece ==
    ASSUME NEW v \in Seq(Redaction!Char), NEW cut \in 0..Len(v), NEW piece \in Seq(Redaction!Char), Len(piece) = cut,
           \A k \in 1..cut : piece[k] = v[k], NEW q \in 1..cut,
           Redaction!TagAt(Redaction!Chars_of(piece), q)
    PROVE  Redaction!TagAt(Redaction!Chars_of(v), q)
<1>1. PICK n \in Nat, L \in Nat \ {0} : n = Len(v) /\ L = Len(Tag)
    <2>1. Len(v) \in Nat /\ Len(Tag) \in Nat \ {0}
        BY RedactConstants
    <2> QED
        BY <2>1
<1>2. PICK c \in Seq(AnyChar) : c = Redaction!Chars_of(v) /\ Len(c) = n /\ \A k \in 1..n : c[k] = v[k].c
    BY <1>1, CharsOf
<1>3. PICK e \in Seq(AnyChar) : e = Redaction!Chars_of(piece) /\ Len(e) = cut /\ \A k \in 1..cut : e[k] = v[k].c
    BY CharsOf
<1>4. Reads(e, q, Tag) /\ q + L <= cut /\ e[q + L] \in TagEnds /\ q \in Nat \ {0}
    BY <1>1, <1>3, TagReads
<1>5. \A k \in 1..cut : k \in 1..n /\ c[k] = e[k]
    BY <1>1, <1>2, <1>3
<1>6. Reads(c, q, Tag)
    <2>1. ASSUME NEW k \in 1..L
          PROVE  c[q + k - 1] = Tag[k]
        <3>1. q + k - 1 \in 1..cut
            BY <1>4
        <3>2. e[q + k - 1] = Tag[k]
            BY <1>1, <1>4 DEF Reads
        <3> QED
            BY <1>5, <3>1, <3>2
    <2>2. q + L - 1 <= n
        BY <1>1, <1>4
    <2> QED
        BY <1>1, <1>2, <2>1, <2>2 DEF Reads
<1>7. q + L <= n /\ c[q + L] \in TagEnds
    <2>1. q + L \in 1..cut
        BY <1>1, <1>4
    <2> QED
        BY <1>1, <1>4, <1>5, <2>1
<1> QED
    BY <1>1, <1>2, <1>4, <1>6, <1>7, TagReads

\* What is held comes after what is not any more.
LEMMA HeldLater ==
    ASSUME NEW t \in Seq(Chars), NEW u, NEW b, Covers(u, b, t), NEW j \in Nat \ {0}, Held_in(u, j)
    PROVE  b[0] < j
<1>1. PICK n : n = Len(u)
    OBVIOUS
<1>2. PICK q \in 1..n : u[q].at = j
    BY <1>1 DEF Held_in
<1>3. b[q] = j
    BY <1>1, <1>2, EntryFor
<1>4. n \in Nat /\ \A k, l \in 0..n : k < l => b[k] < b[l]
    BY <1>1, CoversClimbs
<1>5. 0 \in 0..n /\ q \in 0..n /\ 0 < q
    BY <1>4
<1> QED
    BY <1>3, <1>4, <1>5

\* With u held of t, the reasoning goes on to t2, of which w is held.
Grows(t, u, out, drop, b, t2, w, d) ==
    /\ Redacts(t, u, out, drop, FALSE, b)
    /\ Goes_on(t, t2)
    /\ Covers(w, d, t2) /\ d[0] = b[0]
    /\ \A j \in 1..Len(t) : Held_in(w, j) => Held_in(u, j)

\* What stays held of v.
Rest_is(rest, v, cut) == rest = SubSeq(v, cut + 1, Len(v))

LEMMA RestCovers ==
    ASSUME NEW t \in Seq(Chars), NEW v, NEW b, Covers(v, b, t), NEW cut \in 0..Len(v),
           NEW rest, Rest_is(rest, v, cut)
    PROVE  \E e : Covers(rest, e, t) /\ e[0] = b[cut] /\ Len(rest) = Len(v) - cut
<1>1. rest = SubSeq(v, cut + 1, Len(v))
    BY DEF Rest_is
<1> QED
    BY <1>1, CoversTail

\* What is held and was sent is as RedactInv says after a step, too.
LEMMA RedactStep ==
    ASSUME NEW t \in Seq(Chars), NEW u, NEW out, NEW drop, NEW b, NEW t2 \in Seq(Chars), NEW w, NEW d,
           Grows(t, u, out, drop, b, t2, w, d),
           NEW closed \in BOOLEAN, NEW v, NEW g, NEW cut, NEW out2, NEW drop2,
           StepOf(t2, w, v, g, closed, cut, out, drop, out2, drop2),
           NEW rest, Rest_is(rest, v, cut)
    PROVE  \E e : Redacts(t2, rest, out2, drop2, closed, e)
<1>0. /\ Redacts(t, u, out, drop, FALSE, b)
      /\ Goes_on(t, t2)
      /\ Covers(w, d, t2) /\ d[0] = b[0]
      /\ \A j \in 1..Len(t) : Held_in(w, j) => Held_in(u, j)
      /\ rest = SubSeq(v, cut + 1, Len(v))
    BY DEF Grows, Rest_is
<1> USE <1>0
<1>1. PICK n \in Nat, n2 \in Nat, gone \in Nat, H \in Nat :
         /\ n = Len(t) /\ n2 = Len(t2) /\ n <= n2 /\ gone = b[0] /\ H = Redaction!Hold
         /\ gone = 0 \/ gone + H <= n
    <2>1. Len(t) \in Nat /\ Len(t2) \in Nat /\ Len(t) <= Len(t2)
        BY DEF Goes_on
    <2>2. b[0] \in Nat
        <3>1. PICK N : N = Len(u) /\ Covers(u, b, t)
            BY DEF Redacts
        <3>2. N \in Nat /\ b \in [0..N -> Nat]
            BY <3>1, CoversClimbs
        <3> QED
            BY <3>2
    <2>3. Redaction!Hold \in Nat /\ (b[0] = 0 \/ b[0] + Redaction!Hold <= Len(t))
        BY HoldIs DEF Redacts
    <2> QED
        BY <2>1, <2>2, <2>3
<1>2. Cleans(w, v, g, closed) /\ cut \in 0..Len(v)
      /\ (IF closed THEN cut = Len(v) ELSE cut = Redaction!Cut(v))
      /\ Sends(out, drop, SubSeq(v, 1, cut), out2, drop2)
    BY DEF StepOf
<1>3. PICK m \in Nat : m = Len(v) /\ v \in Seq(Redaction!Char)
    BY <1>2 DEF Cleans
<1> DEFINE c == [r \in 0..m |-> d[g[r]]]
<1>4. /\ Covers(v, c, t2)
      /\ \A j \in Nat \ {0} : Held_in(v, j) => Held_in(w, j)
    <2>1. Cleans(w, v, g, closed)
        BY <1>2
    <2>2. Covers(v, [r \in 0..Len(v) |-> d[g[r]]], t2) /\ Holds_no_more(v, w)
        BY <2>1, CoversCleaned
    <2> QED
        BY <1>3, <2>2 DEF Holds_no_more
<1>5. c[0] = gone
    <2>1. g[0] = 0 /\ 0 \in 0..m
        BY <1>2, <1>3 DEF Cleans
    <2>2. c[0] = d[g[0]]
        BY <2>1
    <2> QED
        BY <1>1, <2>1, <2>2
<1> HIDE DEF c
<1>6. PICK e : Covers(rest, e, t2) /\ e[0] = c[cut] /\ Len(rest) = m - cut
    <2>1. Covers(v, c, t2) /\ cut \in 0..Len(v)
        BY <1>2, <1>4
    <2> QED
        BY <1>3, <2>1, RestCovers
<1>7. /\ c \in [0..m -> Nat] /\ c[m] = n2
      /\ (\A q \in 1..m : c[q - 1] < c[q])
      /\ \A q, r \in 0..m : q < r => c[q] < c[r]
    BY <1>1, <1>3, <1>4, CoversClimbs
<1>8. PICK past \in Nat : past = c[cut] /\ gone <= past /\ past <= n2 /\ (cut = 0 => past = gone)
    <2>1. c[cut] \in Nat /\ c[cut] <= n2 /\ c[0] <= c[cut]
        BY <1>1, <1>2, <1>3, <1>4, CoversClimbs
    <2> QED
        BY <1>5, <2>1
<1>9. PICK piece : piece = SubSeq(v, 1, cut)
    OBVIOUS
<1>10. /\ piece \in Seq(Redaction!Char) /\ Len(piece) = cut /\ (\A q \in 1..cut : piece[q] = v[q])
       /\ Ascends(piece)
    BY <1>2, <1>4, <1>9, PartAscends
<1>11. PICK more : more = Redaction!Places(piece) /\ Fits(more, piece, cut)
    BY <1>10, PlacesAre
<1>12. /\ \A k \in 1..cut : piece[k].at # 0 => /\ gone < piece[k].at /\ piece[k].at <= past
                                               /\ ~Held_in(rest, piece[k].at)
       /\ \A j \in Nat \ {0} : Held_in(rest, j) => Held_in(v, j)
       /\ \A j \in Nat \ {0} : (\E k \in 1..cut : piece[k].at = j) => Held_in(v, j)
       /\ \A j \in gone + 1..past :
            \/ \E k \in 1..cut : piece[k].at = j
            \/ \E s \in Secrets, i \in 1..j : Reads(t2, i, s) /\ j \in i..i + Len(s) - 1
    <2>1. Divides(t2, v, piece, rest, cut, c[0], c[cut])
        BY <1>2, <1>4, <1>9, PieceHolds
    <2> QED
        BY <1>5, <1>8, <2>1 DEF Divides
<1>13. /\ out \in Seq(1..MaxText) /\ drop \subseteq 1..MaxText
       /\ \A i, j \in 1..Len(out) : i < j => out[i] < out[j]
       /\ \A i \in 1..Len(out) : out[i] <= gone
       /\ \A i \in 1..gone : Accounted(t, out, drop, i)
    BY <1>1 DEF Redacts, Sent_well
\* What was sent before is sent, what the piece holds is sent or dropped.
<1>14. /\ \A j \in Nat \ {0} : Was_sent(out2, j) => Was_sent(out, j) \/ (~Redaction!Quotes(piece) /\ Held_in(v, j))
       /\ \A j \in Nat \ {0} : Was_sent(out, j) => Was_sent(out2, j)
       /\ \A j \in Nat \ {0} : (\E k \in 1..cut : piece[k].at = j) => Was_sent(out2, j) \/ (Redaction!Quotes(piece) /\ j \in drop2)
       /\ drop \subseteq drop2 /\ drop2 \subseteq 1..MaxText /\ out2 \in Seq(1..MaxText)
       /\ \A i, j \in 1..Len(out2) : i < j => out2[i] < out2[j]
       /\ \A i \in 1..Len(out2) : out2[i] <= past
    <2>1. CASE Redaction!Quotes(piece)
        <3>1. out2 = out /\ drop2 = drop \cup Redaction!ToSet(more)
            BY <1>2, <1>9, <1>11, <2>1 DEF Sends
        <3>2. more \in Seq(1..MaxText) /\ \A k \in 1..cut : piece[k].at # 0 => \E i \in 1..Len(more) : more[i] = piece[k].at
            BY <1>11 DEF Fits
        <3>3. Redaction!ToSet(more) \subseteq 1..MaxText /\ \A i \in 1..Len(more) : more[i] \in Redaction!ToSet(more)
            <4>1. PICK S : S = 1..MaxText
                OBVIOUS
            <4>2. more \in Seq(S)
                BY <3>2, <4>1
            <4>3. DOMAIN more = 1..Len(more) /\ \A i \in 1..Len(more) : more[i] \in S
                BY <4>2
            <4> QED
                BY <4>1, <4>3 DEF Redaction!ToSet
        <3>4. \A i \in 1..Len(out) : out[i] <= past
            <4> SUFFICES ASSUME NEW i \in 1..Len(out)
                         PROVE  out[i] <= past
                OBVIOUS
            <4>1. PICK S : S = 1..MaxText
                OBVIOUS
            <4>2. out \in Seq(S)
                BY <1>13, <4>1
            <4>3. out[i] \in S
                BY <4>2
            <4>4. out[i] \in Nat /\ out[i] <= gone
                BY <1>13, <4>1, <4>3, RedactConstants
            <4> QED
                BY <1>8, <4>4
        <3> QED
            BY <1>13, <2>1, <3>1, <3>2, <3>3, <3>4
    <2>2. CASE ~Redaction!Quotes(piece)
        <3>1. out2 = out \o more /\ drop2 = drop
            BY <1>2, <1>9, <1>11, <2>2 DEF Sends
        <3>2. \A k \in 1..cut : piece[k].at # 0 => gone < piece[k].at
            BY <1>12
        <3>3. cut \in Nat
            BY <1>2, <1>3
        <3>4. /\ out2 \in Seq(1..MaxText)
              /\ \A i, j \in 1..Len(out2) : i < j => out2[i] < out2[j]
              /\ \A j \in Nat \ {0} : Was_sent(out2, j) <=> Was_sent(out, j) \/ \E k \in 1..cut : piece[k].at = j
            <4>1. Follows(out2, out, piece, cut)
                BY <1>11, <1>13, <3>1, <3>2, <3>3, SentMore DEF UpTo, Later
            <4> QED
                BY <4>1 DEF Follows
        <3>5. ASSUME NEW i \in 1..Len(out2)
              PROVE  out2[i] <= past
            <4>1. PICK S : S = 1..MaxText
                OBVIOUS
            <4>2. out2 \in Seq(S) /\ out \in Seq(S)
                BY <1>13, <3>4, <4>1
            <4>3. out2[i] \in S
                BY <4>2
            <4>4. out2[i] \in Nat \ {0}
                BY <4>1, <4>3, RedactConstants
            <4>5. Was_sent(out2, out2[i])
                BY DEF Was_sent
            <4>6. CASE Was_sent(out, out2[i])
                <5>1. PICK k \in 1..Len(out) : out[k] = out2[i]
                    BY <4>6 DEF Was_sent
                <5>2. out2[i] <= gone
                    BY <1>13, <5>1
                <5> QED
                    BY <1>1, <1>8, <4>4, <5>2
            <4>7. CASE \E k \in 1..cut : piece[k].at = out2[i]
                <5>1. PICK k \in 1..cut : piece[k].at = out2[i]
                    BY <4>7
                <5>2. piece[k].at # 0
                    BY <4>4, <5>1
                <5> QED
                    BY <1>12, <5>1, <5>2
            <4> QED
                BY <3>4, <4>4, <4>5, <4>6, <4>7
        <3> QED
            BY <1>12, <1>13, <2>2, <3>1, <3>4, <3>5
    <2> HIDE <1>0
    <2> QED
        BY <2>1, <2>2
<1>15. NoneNew(out, u, out2, rest, n)
    <2> SUFFICES ASSUME NEW j \in 1..n, Was_sent(out2, j) \/ Held_in(rest, j)
                 PROVE  Was_sent(out, j) \/ Held_in(u, j)
        BY DEF NoneNew
    <2>1. j \in Nat \ {0}
        OBVIOUS
    <2>2. Was_sent(out, j) \/ Held_in(v, j)
        BY <1>12, <1>14, <2>1
    <2>3. Held_in(v, j) => Held_in(u, j)
        BY <1>1, <1>4, <2>1
    <2> QED
        BY <2>2, <2>3
<1>16. ASSUME NEW i \in Nat \ {0}, NEW L \in Nat, gone < i, ~Broken(out2, rest, i, L)
       PROVE  AllHeld(v, i, L)
    <2> SUFFICES ASSUME NEW j \in i..i + L - 1
                 PROVE  Held_in(v, j)
        BY DEF AllHeld
    <2>1. j \in Nat \ {0} /\ gone < j
        BY <1>1, <1>16
    <2>2. ~Was_sent(out, j)
        <3> SUFFICES ASSUME NEW k \in 1..Len(out), out[k] = j
                     PROVE  FALSE
            BY DEF Was_sent
        <3>1. j <= gone
            BY <1>13
        <3> QED
            BY <1>1, <2>1, <3>1
    <2>3. Was_sent(out2, j) \/ Held_in(rest, j)
        BY <1>16 DEF Broken, Lost
    <2> QED
        BY <1>12, <1>14, <2>1, <2>2, <2>3
<1>17. ValuesBroken(t2, out2, rest, closed)
    <2> SUFFICES ASSUME NEW i \in 1..Len(t2), NEW s \in Secrets, Redaction!ValueAt(t2, i, s, closed)
                 PROVE  Broken(out2, rest, i, Len(s))
        BY DEF ValuesBroken
    <2>1. PICK L \in Nat \ {0} : L = Len(s) /\ L <= H
        BY <1>1, HoldIs, RedactConstants
    <2>2. i \in Nat \ {0}
        OBVIOUS
    <2>3. CASE i + L <= n
        <3>1. i \in 1..Len(t) /\ Redaction!ValueAt(t, i, s, FALSE)
            BY <1>1, <2>1, <2>3, ValueOld
        <3>2. Broken(out, u, i, L)
            BY <2>1, <3>1 DEF Redacts, ValuesBroken
        <3>3. i + L - 1 <= n
            BY <1>1, <2>3
        <3> QED
            BY <1>1, <1>15, <2>1, <2>2, <3>2, <3>3, StaysBroken
    <2>4. CASE n < i + L
        <3>1. gone < i
            BY <1>1, <2>1, <2>2, <2>4
        <3>2. ~AllHeld(v, i, Len(s))
            BY <1>2, ValueCleaned
        <3> QED
            BY <1>16, <2>1, <2>2, <3>1, <3>2
    <2> QED
        BY <1>1, <2>1, <2>3, <2>4
<1>18. TagsBroken(t2, out2, rest, past)
    <2> SUFFICES ASSUME NEW i \in 1..Len(t2), Redaction!TagAt(t2, i), ~(past < i), ~Broken(out2, rest, i, Len(Tag))
                 PROVE  FALSE
        BY DEF TagsBroken
    <2>1. PICK L \in Nat \ {0} : L = Len(Tag) /\ L < H
        BY <1>1, HoldIs, RedactConstants
    <2>2. i \in Nat \ {0} /\ Tag \in Patterns
        BY DEF Patterns
    <2>3. gone < i
        <3> SUFFICES ASSUME i <= gone
                     PROVE  FALSE
            BY <1>1
        <3>1. i + L <= n
            BY <1>1, <2>1, <2>2
        <3>2. Redaction!TagAt(t, i)
            BY <1>1, <2>1, <2>2, <3>1, GoesOn
        <3>3. i \in 1..Len(t) /\ ~(b[0] < i) /\ i + L - 1 <= n
            BY <1>1, <2>1, <3>1
        <3>4. Broken(out, u, i, L)
            BY <2>1, <3>2, <3>3 DEF Redacts, TagsBroken
        <3>5. Broken(out2, rest, i, L)
            BY <1>1, <1>15, <2>1, <2>2, <3>3, <3>4, StaysBroken
        <3> QED
            BY <2>1, <3>5
    <2>4. AllHeld(v, i, Len(Tag))
        BY <1>16, <2>1, <2>2, <2>3
    <2>5. PICK q \in 1..m : c[q] = i /\ Redaction!TagAt(Redaction!Chars_of(v), q)
        BY <1>3, <1>4, <2>4, TagHeld
    <2>6. q \in 1..cut
        <3> SUFFICES ASSUME cut < q
                     PROVE  FALSE
            BY <1>2, <1>3
        <3>1. cut \in 0..m /\ q \in 0..m
            BY <1>2, <1>3
        <3>2. c[cut] < c[q]
            BY <1>7, <3>1
        <3> QED
            BY <1>8, <2>2, <2>5, <3>2
    <2>7. Redaction!TagAt(Redaction!Chars_of(piece), q)
        <3>1. CASE closed
            <4>1. cut = m
                BY <1>2, <1>3, <3>1
            <4>2. piece = v
                BY <1>3, <1>10, <4>1, SeqEqual
            <4> QED
                BY <2>5, <4>2
        <3>2. CASE ~closed
            <4>1. cut = Redaction!Cut(v)
                BY <1>2, <3>2
            <4>2. q <= Len(v)
                BY <1>3
            <4> QED
                BY <1>3, <1>9, <2>5, <2>6, <4>1, <4>2, TagCut
        <3> QED
            BY <3>1, <3>2
    <2>8. Redaction!Quotes(piece)
        <3>1. q \in DOMAIN piece
            BY <1>10, <2>6
        <3> QED
            BY <2>7, <3>1 DEF Redaction!Quotes
    <2>9. ~Was_sent(out2, i)
        <3>1. ~Was_sent(out, i)
            <4> SUFFICES ASSUME NEW k \in 1..Len(out), out[k] = i
                         PROVE  FALSE
                BY DEF Was_sent
            <4>1. i <= gone
                BY <1>13
            <4> QED
                BY <1>1, <2>3, <4>1
        <3> QED
            BY <1>14, <2>2, <2>8, <3>1
    <2>10. ~Held_in(rest, i)
        <3>1. ~(e[0] < i)
            BY <1>1, <1>6, <1>8, <2>2
        <3> QED
            BY <1>6, <2>2, <3>1, HeldLater
    <2> QED
        <3>1. i \in i..i + Len(Tag) - 1
            BY <2>1
        <3> QED
            BY <2>9, <2>10, <3>1 DEF Broken, Lost
<1>19. closed \/ past = 0 \/ past + H <= n2
    <2> SUFFICES ASSUME ~closed, past # 0
                 PROVE  past + H <= n2
        OBVIOUS
    <2>1. CASE cut = 0
        BY <1>1, <1>8, <2>1
    <2>2. CASE cut # 0
        <3>1. cut + H <= m
            <4>1. cut = Redaction!Cut(v)
                BY <1>2
            <4> QED
                BY <1>1, <1>3, <2>2, <4>1, CutIs
        <3>2. c[cut] + (m - cut) <= c[m]
            BY <1>2, <1>3, <1>7, ClimbsBy
        <3>3. past + (m - cut) <= n2 /\ cut \in Nat
            BY <1>2, <1>3, <1>7, <1>8, <3>2
        <3> QED
            BY <1>1, <1>3, <1>8, <3>1, <3>3
    <2> QED
        BY <2>1, <2>2
<1>20. ASSUME NEW i \in 1..past
       PROVE  Accounted(t2, out2, drop2, i)
    <2>1. i \in Nat \ {0}
        OBVIOUS
    <2>2. CASE i <= gone
        <3>1. Accounted(t, out, drop, i)
            BY <1>1, <1>13, <2>2
        <3>2. CASE Was_sent(out, i)
            BY <1>14, <2>1, <3>2 DEF Accounted
        <3>3. CASE i \in drop /\ \E j \in 1..Len(t) : Redaction!TagAt(t, j)
            <4>1. PICK j \in 1..Len(t) : Redaction!TagAt(t, j)
                BY <3>3
            <4>2. j \in Nat \ {0} /\ j \in 1..Len(t2) /\ Tag \in Patterns
                BY <1>1 DEF Patterns
            <4>3. Redaction!TagAt(t2, j)
                BY <4>1, <4>2, GoesOn
            <4> QED
                BY <1>14, <3>3, <4>2, <4>3 DEF Accounted
        <3>4. CASE \E s \in Secrets, j \in 1..i : Reads(t, j, s) /\ i \in j..j + Len(s) - 1
            <4>1. PICK s \in Secrets, j \in 1..i : Reads(t, j, s) /\ i \in j..j + Len(s) - 1
                BY <3>4
            <4>2. j \in Nat \ {0} /\ s \in Patterns
                BY DEF Patterns
            <4>3. Reads(t2, j, s)
                BY <4>1, <4>2, GoesOn
            <4> QED
                BY <4>1, <4>3 DEF Accounted
        <3> QED
            BY <3>1, <3>2, <3>3, <3>4 DEF Accounted
    <2>3. CASE gone < i
        <3>1. i \in gone + 1..past
            BY <1>1, <1>8, <2>3
        <3>2. CASE \E s \in Secrets, j \in 1..i : Reads(t2, j, s) /\ i \in j..j + Len(s) - 1
            BY <3>2 DEF Accounted
        <3>3. CASE \E k \in 1..cut : piece[k].at = i
            <4>1. Was_sent(out2, i) \/ (Redaction!Quotes(piece) /\ i \in drop2)
                BY <1>14, <2>1, <3>3
            <4>2. ASSUME Redaction!Quotes(piece)
                  PROVE  \E j \in 1..Len(t2) : Redaction!TagAt(t2, j)
                <5>1. PICK q \in 1..cut : Redaction!TagAt(Redaction!Chars_of(piece), q)
                    BY <1>10, <4>2 DEF Redaction!Quotes
                <5>2. Redaction!TagAt(Redaction!Chars_of(v), q)
                    <6>1. v \in Seq(Redaction!Char) /\ cut \in 0..Len(v) /\ piece \in Seq(Redaction!Char) /\ Len(piece) = cut
                        BY <1>2, <1>3, <1>10
                    <6>2. \A k \in 1..cut : piece[k] = v[k]
                        BY <1>10
                    <6> HIDE <1>0
                    <6> QED
                        BY <5>1, <6>1, <6>2, TagOfPiece
                <5>3. q \in 1..Len(v)
                    BY <1>2, <1>3
                <5> QED
                    BY <1>4, <5>2, <5>3, TagQuoted
            <4> QED
                BY <4>1, <4>2 DEF Accounted
        <3> QED
            BY <1>12, <3>1, <3>2, <3>3
    <2> QED
        BY <1>1, <1>8, <2>2, <2>3
<1>21. Sent_well(t2, out2, drop2, past)
    BY <1>14, <1>20 DEF Sent_well
<1>22. Redacts(t2, rest, out2, drop2, closed, e)
    <2>1. e[0] = past
        BY <1>6, <1>8
    <2> QED
        BY <1>1, <1>6, <1>17, <1>18, <1>19, <1>21, <2>1 DEF Redacts
<1> QED
    BY <1>22


-----------------------------------------------------------------------------
(* Redact: the steps of the filter *)

\* The steps of the filter keep RedactInv.
LEMMA RedactStarts == Redaction!Init => RedactInv
<1> SUFFICES ASSUME Redaction!Init
             PROVE  RedactInv
    OBVIOUS
<1> DEFINE b == [q \in 0..0 |-> 0]
<1>1. text = <<>> /\ buffer = <<>> /\ sent = <<>> /\ dropped = {} /\ over = FALSE
    BY DEF Redaction!Init
<1>2. text \in Seq(Chars) /\ Len(text) = 0 /\ Len(buffer) = 0 /\ Len(sent) = 0 /\ MaxText \in Nat
    BY <1>1, RedactConstants
<1>3. Covers(buffer, b, text)
    <2>1. buffer \in Seq(Redaction!Char)
        BY <1>1
    <2>2. b \in [0..0 -> Nat] /\ b[0] = 0
        OBVIOUS
    <2> HIDE DEF b
    <2> QED
        BY <1>2, <2>1, <2>2 DEF Covers
<1>4. b[0] = 0
    OBVIOUS
<1> HIDE DEF b
<1>5. Sent_well(text, sent, dropped, b[0])
    <2>1. sent \in Seq(1..MaxText) /\ dropped \subseteq 1..MaxText
        BY <1>1
    <2> QED
        BY <1>2, <1>4, <2>1 DEF Sent_well
<1>6. ValuesBroken(text, sent, buffer, over) /\ TagsBroken(text, sent, buffer, b[0])
    BY <1>2 DEF ValuesBroken, TagsBroken
<1>7. Redacts(text, buffer, sent, dropped, over, b)
    BY <1>3, <1>4, <1>5, <1>6 DEF Redacts
<1>8. Len(text) <= MaxText
    BY <1>2
<1>9. over \in BOOLEAN /\ (over => buffer = <<>>)
    BY <1>1
<1> QED
    BY <1>2, <1>7, <1>8, <1>9 DEF RedactInv

\* What comes with a fragment is not of the reasoning before it.
LEMMA CameAfter ==
    ASSUME NEW t \in Seq(Chars), NEW u \in Seq(Redaction!Char), NEW n \in Nat, NEW f \in [1..n -> Chars],
           NEW t2, NEW w, Comes(f, n, t, u, t2, w)
    PROVE  \A j \in 1..Len(t) : Held_in(w, j) => Held_in(u, j)
<1>1. PICK m \in Nat, l \in Nat : m = Len(t) /\ l = Len(u)
    OBVIOUS
<1> DEFINE came == [k \in 1..n |-> [c |-> f[k], at |-> Len(t) + k]]
<1>2. came \in Seq(Redaction!Char) /\ Len(came) = n /\ \A k \in 1..n : came[k].at = m + k
    <2>1. ASSUME NEW k \in 1..n
          PROVE  [c |-> f[k], at |-> Len(t) + k] \in Redaction!Char
        <3>1. f[k] \in Chars /\ m + k \in 0..MaxText
            BY <1>1, RedactConstants DEF Comes
        <3> QED
            BY <1>1, <3>1 DEF Redaction!Char
    <2> QED
        BY <1>1, <2>1
<1> HIDE DEF came
<1>3. Then(w, u, came, Len(u), Len(came))
    BY <1>2, Concats DEF came, Comes
<1>4. Len(w) = l + n /\ (\A q \in 1..l : w[q] = u[q]) /\ (\A q \in l + 1..l + n : w[q] = came[q - l])
    BY <1>1, <1>2, <1>3 DEF Then
<1> SUFFICES ASSUME NEW j \in 1..Len(t), NEW q \in 1..l + n, w[q].at = j
             PROVE  Held_in(u, j)
    BY <1>4 DEF Held_in
<1>5. CASE q \in 1..l
    BY <1>1, <1>4, <1>5 DEF Held_in
<1>6. CASE q \notin 1..l
    <2>1. q \in l + 1..l + n /\ q - l \in 1..n
        BY <1>6
    <2>2. w[q].at = m + (q - l)
        BY <1>2, <1>4, <2>1
    <2> QED
        BY <1>1, <2>1, <2>2
<1> QED
    BY <1>5, <1>6

LEMMA RedactFeeds == RedactInv /\ Redaction!Feed => RedactInv'
<1> SUFFICES ASSUME RedactInv, Redaction!Feed
             PROVE  RedactInv'
    OBVIOUS
<1>1. PICK t, u, out, drop, t2, u2, out2, drop2 :
         /\ t = text /\ u = buffer /\ out = sent /\ drop = dropped
         /\ t2 = text' /\ u2 = buffer' /\ out2 = sent' /\ drop2 = dropped'
    OBVIOUS
<1>2. over = FALSE /\ over' = FALSE /\ t \in Seq(Chars) /\ Len(t) <= MaxText
    BY <1>1 DEF RedactInv, Redaction!Feed
<1>3. PICK b : Redacts(t, u, out, drop, FALSE, b)
    BY <1>1, <1>2 DEF RedactInv
<1>40. PICK n \in 1..MaxFragment : \E f \in [1..n -> Chars] :
         LET w == u \o [k \in 1..n |-> [c |-> f[k], at |-> Len(t) + k]]
             v == Redaction!Clean(w, FALSE)
             cut == Redaction!Cut(v)
         IN /\ Len(t) + n <= MaxText
            /\ t2 = t \o f
            /\ u2 = SubSeq(v, cut + 1, Len(v))
            /\ Redaction!Send(SubSeq(v, 1, cut))
    BY <1>1 DEF Redaction!Feed
<1>4. PICK f \in [1..n -> Chars] :
         LET w == u \o [k \in 1..n |-> [c |-> f[k], at |-> Len(t) + k]]
             v == Redaction!Clean(w, FALSE)
             cut == Redaction!Cut(v)
         IN /\ Len(t) + n <= MaxText
            /\ t2 = t \o f
            /\ u2 = SubSeq(v, cut + 1, Len(v))
            /\ Redaction!Send(SubSeq(v, 1, cut))
    BY <1>40
<1>5. PICK w, v, cut :
         /\ w = u \o [k \in 1..n |-> [c |-> f[k], at |-> Len(t) + k]]
         /\ v = Redaction!Clean(w, FALSE) /\ cut = Redaction!Cut(v)
         /\ Len(t) + n <= MaxText /\ t2 = t \o f
         /\ u2 = SubSeq(v, cut + 1, Len(v))
         /\ Redaction!Send(SubSeq(v, 1, cut))
    BY <1>4
<1>6. Sends(out, drop, SubSeq(v, 1, cut), out2, drop2)
    BY <1>1, <1>5 DEF Sends, Redaction!Send
<1>7. n \in Nat
    OBVIOUS
<1>8. t2 \in Seq(Chars) /\ Goes_on(t, t2) /\ Len(t2) <= MaxText
    <2>1. PICK m \in Nat : m = Len(t)
        BY <1>2
    <2>2. f \in Seq(Chars) /\ Len(f) = n
        BY <1>7
    <2>3. t2 \in Seq(Chars) /\ Then(t2, t, f, Len(t), Len(f))
        BY <1>2, <1>5, <2>2, Concats
    <2>4. Len(t2) = m + n /\ \A q \in 1..m : t2[q] = t[q]
        BY <2>1, <2>2, <2>3 DEF Then
    <2> QED
        BY <1>5, <1>7, <2>1, <2>3, <2>4 DEF Goes_on
<1>9. Covers(u, b, t) /\ u \in Seq(Redaction!Char)
    BY <1>3 DEF Redacts, Covers
<1>20. Comes(f, n, t, u, t2, w)
    BY <1>5 DEF Comes
<1>10. PICK d : Covers(w, d, t2) /\ d[0] = b[0]
    BY <1>2, <1>7, <1>9, <1>20, CoversLonger
<1>11. \A j \in 1..Len(t) : Held_in(w, j) => Held_in(u, j)
    BY <1>2, <1>7, <1>9, <1>20, CameAfter
<1>12. w \in Seq(Redaction!Char)
    BY <1>10 DEF Covers
<1>13. PICK g : Cleans(w, v, g, FALSE)
    BY <1>5, <1>12, CleanIs
<1>14. v \in Seq(Redaction!Char)
    BY <1>13 DEF Cleans
<1>15. cut \in 0..Len(v)
    BY <1>5, <1>14, CutIs
<1>16. PICK closed \in BOOLEAN : closed = FALSE
    OBVIOUS
<1>17. StepOf(t2, w, v, g, closed, cut, out, drop, out2, drop2)
    BY <1>5, <1>6, <1>13, <1>15, <1>16 DEF StepOf
<1>18. Rest_is(u2, v, cut) /\ Grows(t, u, out, drop, b, t2, w, d)
    BY <1>3, <1>5, <1>8, <1>10, <1>11 DEF Rest_is, Grows
<1>19. PICK e : Redacts(t2, u2, out2, drop2, closed, e)
    BY <1>2, <1>8, <1>16, <1>17, <1>18, RedactStep
<1> QED
    BY <1>1, <1>2, <1>8, <1>16, <1>19 DEF RedactInv

LEMMA RedactFlushes == RedactInv /\ Redaction!Flush => RedactInv'
<1> SUFFICES ASSUME RedactInv, Redaction!Flush
             PROVE  RedactInv'
    OBVIOUS
<1>1. PICK t, u, out, drop, u2, out2, drop2 :
         /\ t = text /\ u = buffer /\ out = sent /\ drop = dropped
         /\ t = text' /\ u2 = buffer' /\ out2 = sent' /\ drop2 = dropped'
    BY DEF Redaction!Flush
<1>2. over = FALSE /\ over' = TRUE /\ u2 = <<>> /\ t \in Seq(Chars) /\ Len(t) <= MaxText
    BY <1>1 DEF RedactInv, Redaction!Flush
<1>3. PICK b : Redacts(t, u, out, drop, FALSE, b)
    BY <1>1, <1>2 DEF RedactInv
<1>4. PICK v : v = Redaction!Clean(u, TRUE) /\ Redaction!Send(v)
    BY <1>1 DEF Redaction!Flush
<1>5. Covers(u, b, t) /\ u \in Seq(Redaction!Char)
    BY <1>3 DEF Redacts, Covers
<1>6. PICK g : Cleans(u, v, g, TRUE)
    BY <1>4, <1>5, CleanIs
<1>7. v \in Seq(Redaction!Char)
    BY <1>6 DEF Cleans
<1>8. PICK m \in Nat : m = Len(v)
    BY <1>7
<1>9. SubSeq(v, 1, m) = v /\ SubSeq(v, m + 1, Len(v)) = <<>>
    BY <1>7, <1>8
<1>10. Sends(out, drop, SubSeq(v, 1, m), out2, drop2)
    BY <1>1, <1>4, <1>9 DEF Sends, Redaction!Send
<1>11. PICK closed \in BOOLEAN : closed = TRUE
    OBVIOUS
<1>14. StepOf(t, u, v, g, closed, m, out, drop, out2, drop2)
    <2>1. m \in 0..Len(v)
        BY <1>8
    <2> QED
        BY <1>6, <1>8, <1>10, <1>11, <2>1 DEF StepOf
<1>12. Goes_on(t, t)
    BY <1>2 DEF Goes_on
<1>15. Rest_is(u2, v, m) /\ Grows(t, u, out, drop, b, t, u, b)
    BY <1>2, <1>3, <1>5, <1>9, <1>12 DEF Rest_is, Grows
<1>13. PICK e : Redacts(t, u2, out2, drop2, closed, e)
    BY <1>2, <1>11, <1>14, <1>15, RedactStep
<1> QED
    BY <1>1, <1>2, <1>11, <1>13 DEF RedactInv

LEMMA RedactRest == RedactInv /\ UNCHANGED redactVars => RedactInv'
BY DEF RedactInv, redactVars

\* The filter keeps its invariant, and the other parts leave it alone.
LEMMA RedactAlways == ChatSpec => []RedactInv
<1>1. ChatInit => RedactInv
    BY RedactStarts DEF ChatInit
<1>2. RedactInv /\ Redaction!Next => RedactInv'
    BY RedactFeeds, RedactFlushes DEF Redaction!Next
<1>3. RedactInv /\ [ChatNext]_chatVars => RedactInv'
    BY <1>2, RedactRest DEF ChatNext, chatVars
<1> QED
    BY <1>1, <1>3, PTL DEF ChatSpec

\* redact.py 3-14 and 74-75: neither a value nor a tag is sent, however fragments and cuts divide them,
\* and all the rest is, once and in order.
THEOREM RestAloneIsSentHolds == ChatSpec => []RestAloneIsSent
<1>1. ASSUME RedactInv
      PROVE  RestAloneIsSent
    <2>1. PICK b : Redacts(text, buffer, sent, dropped, over, b)
        BY <1>1 DEF RedactInv
    <2>2. PICK n, gone : n \in Nat /\ n = Len(text) /\ gone = b[0] /\ text \in Seq(Chars) /\ DOMAIN text = 1..n
        BY <1>1 DEF RedactInv
    <2>3. /\ sent \in Seq(1..MaxText)
          /\ \A i, j \in 1..Len(sent) : i < j => sent[i] < sent[j]
          /\ \A i \in 1..Len(sent) : sent[i] <= gone
          /\ \A i \in 1..gone : Accounted(text, sent, dropped, i)
        BY <2>1, <2>2 DEF Redacts, Sent_well
    <2>4. DOMAIN sent = 1..Len(sent) /\ \A i : i \in Redaction!ToSet(sent) <=> Was_sent(sent, i)
        <3>1. DOMAIN sent = 1..Len(sent)
            BY <2>3
        <3> QED
            BY <3>1 DEF Redaction!ToSet, Was_sent
    <2>5. gone \in Nat /\ (over => gone = n)
        <3>1. Covers(buffer, b, text)
            BY <2>1 DEF Redacts
        <3>2. PICK N : N = Len(buffer)
            OBVIOUS
        <3>3. N \in Nat /\ b \in [0..N -> Nat] /\ b[N] = n
            BY <2>2, <3>1, <3>2, CoversClimbs
        <3>4. 0 \in 0..N
            BY <3>3
        <3>5. over => buffer = <<>>
            BY <1>1 DEF RedactInv
        <3>6. buffer = <<>> => N = 0
            BY <3>2
        <3> QED
            BY <2>2, <3>3, <3>4, <3>5, <3>6
    <2>6. Redaction!NoValueSent
        <3> SUFFICES ASSUME NEW i \in DOMAIN text, NEW s \in Secrets, Redaction!ValueAt(text, i, s, over),
                            Redaction!Between(i, Len(s)) \subseteq Redaction!ToSet(sent)
                     PROVE  FALSE
            BY DEF Redaction!NoValueSent
        <3>1. Broken(sent, buffer, i, Len(s))
            BY <2>1, <2>2 DEF Redacts, ValuesBroken
        <3>2. PICK j \in i..i + Len(s) - 1 : ~Was_sent(sent, j)
            BY <3>1 DEF Broken, Lost
        <3> QED
            BY <2>4, <3>2 DEF Redaction!Between
    <2>7. Redaction!NoTagSent
        <3> SUFFICES ASSUME NEW i \in DOMAIN text, Redaction!TagAt(text, i),
                            Redaction!Between(i, Len(Tag)) \subseteq Redaction!ToSet(sent)
                     PROVE  FALSE
            BY DEF Redaction!NoTagSent
        <3>1. gone < i \/ Broken(sent, buffer, i, Len(Tag))
            BY <2>1, <2>2 DEF Redacts, TagsBroken
        <3>2. CASE Broken(sent, buffer, i, Len(Tag))
            <4>1. PICK j \in i..i + Len(Tag) - 1 : ~Was_sent(sent, j)
                BY <3>2 DEF Broken, Lost
            <4> QED
                BY <2>4, <4>1 DEF Redaction!Between
        <3>3. CASE gone < i
            <4>1. PICK L \in Nat \ {0} : L = Len(Tag)
                BY RedactConstants
            <4>2. i \in i..i + L - 1
                BY <2>2, <4>1
            <4>3. Was_sent(sent, i)
                BY <2>4, <4>1, <4>2 DEF Redaction!Between
            <4>4. PICK k \in 1..Len(sent) : sent[k] = i
                BY <4>3 DEF Was_sent
            <4>5. i <= gone
                BY <2>3, <4>4
            <4> QED
                BY <2>2, <2>5, <3>3, <4>5
        <3> QED
            BY <3>1, <3>2, <3>3
    <2>8. Redaction!RestIsSent
        <3>1. \A i, j \in DOMAIN sent : i < j => sent[i] < sent[j]
            BY <2>3, <2>4
        <3>2. ASSUME over, NEW i \in DOMAIN text
              PROVE  \/ i \in Redaction!ToSet(sent)
                     \/ i \in dropped /\ \E j \in DOMAIN text : Redaction!TagAt(text, j)
                     \/ \E s \in Secrets, j \in 1..i : Redaction!At(text, j, s) /\ i \in Redaction!Between(j, Len(s))
            <4>1. Accounted(text, sent, dropped, i)
                BY <2>2, <2>3, <2>5, <3>2
            <4>2. CASE \E s \in Secrets, j \in 1..i : Reads(text, j, s) /\ i \in j..j + Len(s) - 1
                <5>1. PICK s \in Secrets, j \in 1..i : Reads(text, j, s) /\ i \in j..j + Len(s) - 1
                    BY <4>2
                <5>2. j \in Nat \ {0} /\ s \in Patterns /\ text \in Seq(AnyChar)
                    BY <2>2, PlainIsAny DEF Patterns
                <5>3. Redaction!At(text, j, s)
                    BY <5>1, <5>2, AtIs
                <5> QED
                    BY <5>1, <5>3 DEF Redaction!Between
            <4> QED
                BY <2>2, <2>4, <4>1, <4>2 DEF Accounted
        <3> QED
            BY <3>1, <3>2 DEF Redaction!RestIsSent
    <2> QED
        BY <2>6, <2>7, <2>8 DEF RestAloneIsSent
<1> QED
    BY <1>1, RedactAlways, PTL

=============================================================================
