-------------------------- MODULE MountPathProofs ---------------------------
(***************************************************************************)
(* unescapeMountPath (docker.go:204-222) gives back every path that the    *)
(* kernel can write into mountinfo.  Both directions are recursive; the    *)
(* induction is that a set of numbers without a least one is empty.        *)
(***************************************************************************)
EXTENDS Inventory, SequenceTheorems, WellFoundedInduction, TLAPS

\* A set of natural numbers that has 0, and with each number the next, has them all.
LEMMA Induction ==
    ASSUME NEW S, 0 \in S, \A n \in Nat : n \in S => n + 1 \in S
    PROVE  Nat \subseteq S
<1> DEFINE R == {pair \in Nat \X Nat : pair[1] < pair[2]}
           T == Nat \ S
<1>1. IsWellFoundedOn(R, Nat)
    BY NatLessThanWellFounded DEF OpToRel
<1>2. ASSUME T # {} PROVE FALSE
    <2>1. PICK m \in T : \A k \in T : <<k, m>> \notin R
      <3> HIDE DEF R
      <3> QED
        BY <1>1, <1>2, WFMin
    <2>2. m # 0 /\ m - 1 \in Nat
        BY <2>1
    <2>3. <<m - 1, m>> \in R
        BY <2>1, <2>2
    <2>4. m - 1 \in S
        BY <2>1, <2>2, <2>3
    <2> QED
        BY <2>1, <2>2, <2>4
<1> QED
    BY <1>2

-----------------------------------------------------------------------------
(* Decoding *)

\* One step of Unescape, at position i, from a function f that has the rest.
Decoded(text, f, i) ==
    IF i > Len(text) THEN <<>>
    ELSE IF Coded(text, i) THEN <<Value(text, i)>> \o f[i + 4]
    ELSE <<text[i]>> \o f[i + 1]

\* f decodes text from position i on.
DecodesFrom(text, f, i) ==
    \A j \in i .. Len(text) + 1 : f[j] = Decoded(text, f, j)

\* What is decoded is a sequence of numbers.
LEMMA DecodedType ==
    ASSUME NEW text \in Seq(Nat), NEW f \in [1 .. Len(text) + 1 -> Seq(Nat)],
           NEW i \in 1 .. Len(text) + 1
    PROVE  Decoded(text, f, i) \in Seq(Nat)
<1>1. CASE i > Len(text)
    BY <1>1 DEF Decoded
<1>2. CASE i <= Len(text) /\ Coded(text, i)
    <2>1. i + 4 \in 1 .. Len(text) + 1 /\ f[i + 4] \in Seq(Nat)
        <3>1. i + 3 <= Len(text)
            BY <1>2, Zenon DEF Coded
        <3>2. Len(text) \in Nat
            OBVIOUS
        <3>3. i + 4 \in 1 .. Len(text) + 1
            BY <3>1, <3>2
        <3> QED
            BY <3>3
    <2>2. \A j \in 1 .. 3 : Octal(text[i + j])
        BY <1>2, Zenon DEF Coded
    <2>3. text[i + 1] \in 48 .. 55 /\ text[i + 2] \in 48 .. 55 /\ text[i + 3] \in 48 .. 55
        BY <2>2 DEF Octal
    <2>4. \A a, b, c \in 48 .. 55 : (64 * (a - 48) + 8 * (b - 48) + (c - 48)) % 256 \in Nat
        OBVIOUS
    <2>5. Value(text, i) \in Nat
        <3> DEFINE a == text[i + 1]
                   b == text[i + 2]
                   c == text[i + 3]
        <3>1. a \in 48 .. 55 /\ b \in 48 .. 55 /\ c \in 48 .. 55
            BY <2>3
        <3>2. Value(text, i) = (64 * (a - 48) + 8 * (b - 48) + (c - 48)) % 256
            BY DEF Value
        <3> HIDE DEF a, b, c
        <3> QED
            BY <2>4, <3>1, <3>2
    <2>6. <<Value(text, i)>> \in Seq(Nat)
        BY <2>5
    <2> QED
        BY <1>2, <2>1, <2>6, ConcatProperties DEF Decoded
<1>3. CASE i <= Len(text) /\ ~Coded(text, i)
    <2>1. f[i + 1] \in Seq(Nat) /\ <<text[i]>> \in Seq(Nat)
        BY <1>3
    <2> QED
        BY <1>3, <2>1, ConcatProperties DEF Decoded
<1> QED
    BY <1>1, <1>2, <1>3

\* The recursion of Unescape is a definition: some function satisfies it.
LEMMA DecodingExists ==
    ASSUME NEW text \in Seq(Nat)
    PROVE  \E f \in [1 .. Len(text) + 1 -> Seq(Nat)] : DecodesFrom(text, f, 1)
<1> DEFINE N == Len(text)
           F == [1 .. N + 1 -> Seq(Nat)]
           S == {k \in Nat : k <= N => \E f \in F : DecodesFrom(text, f, N + 1 - k)}
<1>1. N \in Nat
    OBVIOUS
<1>2. 0 \in S
    <2> DEFINE f == [i \in 1 .. N + 1 |-> <<>>]
    <2>1. f \in F
        OBVIOUS
    <2>2. DecodesFrom(text, f, N + 1)
        BY <1>1 DEF DecodesFrom, Decoded
    <2>3. N + 1 - 0 = N + 1
        BY <1>1
    <2> QED
        BY <2>1, <2>2, <2>3
<1>3. ASSUME NEW k \in Nat, k \in S, k + 1 <= N
      PROVE  \E f \in F : DecodesFrom(text, f, N + 1 - (k + 1))
    <2>1. PICK f \in F : DecodesFrom(text, f, N + 1 - k)
        BY <1>1, <1>3
    <2> DEFINE i == N - k
               g == [f EXCEPT ![i] = Decoded(text, f, i)]
    <2>2. i \in 1 .. N + 1 /\ i + 1 = N + 1 - k /\ i = N + 1 - (k + 1)
        BY <1>1, <1>3
    <2>3. Decoded(text, f, i) \in Seq(Nat)
        BY <2>2, DecodedType
    <2>4. g \in F
        BY <2>3
    <2>5. ASSUME NEW j \in N + 1 - (k + 1) .. N + 1 PROVE g[j] = Decoded(text, g, j)
        <3>1. Decoded(text, g, j) = Decoded(text, f, j)
            <4>1. j > N \/ (g[j + 1] = f[j + 1] /\ (Coded(text, j) => g[j + 4] = f[j + 4]))
                BY <1>1, <2>2, <2>5 DEF Coded
            <4> QED
                BY <4>1 DEF Decoded
        <3>2. CASE j = i
            BY <3>1, <3>2, <2>2
        <3>3. CASE j # i
            <4>1. j \in 1 .. N + 1 /\ j \in N + 1 - k .. N + 1
                <5>1. j \in Int /\ i \in Int /\ j >= i /\ j <= N + 1 /\ i >= 1
                    BY <1>1, <2>2, <2>5
                <5>2. j >= i + 1
                    BY <5>1, <3>3
                <5> QED
                    BY <1>1, <2>2, <5>1, <5>2
            <4>2. g[j] = f[j]
                BY <4>1, <3>3
            <4>3. f[j] = Decoded(text, f, j)
                BY <4>1, <2>1 DEF DecodesFrom
            <4> QED
                BY <3>1, <4>2, <4>3
        <3> QED
            BY <3>2, <3>3
    <2>6. DecodesFrom(text, g, N + 1 - (k + 1))
        BY <2>2, <2>5 DEF DecodesFrom
    <2> QED
        BY <2>4, <2>6
<1>4. ASSUME NEW k \in Nat, k \in S PROVE k + 1 \in S
    <2>1. CASE k + 1 <= N
        <3>1. \E f \in F : DecodesFrom(text, f, N + 1 - (k + 1))
            BY <1>3, <1>4, <2>1
        <3> QED
            BY <1>4, <3>1
    <2>2. CASE ~(k + 1 <= N)
        BY <2>2
    <2> QED
        BY <2>1, <2>2
<1>5. N \in S
  <2> HIDE DEF S
  <2> QED
    BY <1>1, <1>2, <1>4, Induction
<1>6. N + 1 - N = 1
    BY <1>1
<1> QED
    BY <1>5, <1>6, <1>1

\* So Unescape is what such a function has at the first position.
LEMMA UnescapeDecodes ==
    ASSUME NEW text \in Seq(Nat)
    PROVE  \E f : DecodesFrom(text, f, 1) /\ Unescape(text) = f[1]
<1> DEFINE Rec(f) == f = [i \in 1 .. Len(text) + 1 |-> Decoded(text, f, i)]
           g == CHOOSE f : Rec(f)
<1>1. \E f : Rec(f)
    <2>1. PICK f \in [1 .. Len(text) + 1 -> Seq(Nat)] : DecodesFrom(text, f, 1)
        BY DecodingExists
    <2> QED
        BY <2>1 DEF DecodesFrom
<1>2. Rec(g)
  <2> HIDE DEF Rec
  <2> QED
    BY <1>1
<1>3. Unescape(text) = g[1]
    BY DEF Unescape, Decoded
<1>4. DecodesFrom(text, g, 1)
    BY <1>2 DEF DecodesFrom
<1> QED
    BY <1>3, <1>4
-----------------------------------------------------------------------------
(* Encoding *)

\* f has what the first elements of seqs are together.
Flattens(seqs, f, n) ==
    \A i \in 1 .. n : f[i] = IF i = 1 THEN seqs[i] ELSE f[i - 1] \o seqs[i]

\* The recursion of FlattenSeq is a definition, too, and what it has are sequences.
LEMMA FlatteningExists ==
    ASSUME NEW U, NEW seqs \in Seq(Seq(U)), seqs # <<>>
    PROVE  \E f \in [1 .. Len(seqs) -> Seq(U)] :
               Flattens(seqs, f, Len(seqs)) /\ FlattenSeq(seqs) = f[Len(seqs)]
<1> DEFINE N == Len(seqs)
           F == [1 .. N -> Seq(U)]
           S == {k \in Nat : k <= N => \E f \in F : Flattens(seqs, f, k)}
<1>1. N \in Nat /\ N > 0 /\ \A i \in 1 .. N : seqs[i] \in Seq(U)
    OBVIOUS
<1>2. 0 \in S
    <2>1. [i \in 1 .. N |-> <<>>] \in F
        OBVIOUS
    <2> QED
        BY <2>1 DEF Flattens
<1>3. ASSUME NEW k \in Nat, k \in S, k + 1 <= N
      PROVE  \E f \in F : Flattens(seqs, f, k + 1)
    <2>1. PICK f \in F : Flattens(seqs, f, k)
        BY <1>1, <1>3
    <2> DEFINE i == k + 1
               v == IF i = 1 THEN seqs[i] ELSE f[i - 1] \o seqs[i]
               g == [f EXCEPT ![i] = v]
    <2>2. v \in Seq(U)
        <3>1. i = 1 \/ i - 1 \in 1 .. N
            BY <1>1, <1>3
        <3>2. i \in 1 .. N
            BY <1>1, <1>3
        <3> QED
            BY <1>1, <3>1, <3>2, ConcatProperties
    <2>3. g \in F
        BY <2>2
    <2>4. Flattens(seqs, g, i)
        <3> HIDE DEF v
        <3> SUFFICES ASSUME NEW j \in 1 .. i
                     PROVE  g[j] = IF j = 1 THEN seqs[j] ELSE g[j - 1] \o seqs[j]
            BY DEF Flattens
        <3>1. j \in 1 .. N /\ (j # 1 => j - 1 \in 1 .. k /\ j - 1 \in 1 .. N)
            BY <1>1, <1>3
        <3>2. j # 1 => g[j - 1] = f[j - 1]
            BY <3>1
        <3>3. CASE j = i
            BY <3>1, <3>2, <3>3 DEF v
        <3>4. CASE j # i
            <4>1. g[j] = f[j] /\ j \in 1 .. k
                BY <1>3, <3>1, <3>4
            <4> QED
                BY <2>1, <3>2, <4>1 DEF Flattens
        <3> QED
            BY <3>3, <3>4
    <2> QED
        BY <2>3, <2>4
<1>4. ASSUME NEW k \in Nat, k \in S PROVE k + 1 \in S
    <2>1. CASE k + 1 <= N
        <3>1. \E f \in F : Flattens(seqs, f, k + 1)
            BY <1>3, <1>4, <2>1
        <3> QED
            BY <1>4, <3>1
    <2>2. CASE ~(k + 1 <= N)
        BY <2>2
    <2> QED
        BY <2>1, <2>2
<1>5. N \in S
  <2> HIDE DEF S
  <2> QED
    BY <1>1, <1>2, <1>4, Induction
<1> DEFINE Rec(f) == f = [i \in 1 .. N |-> IF i = 1 THEN seqs[i] ELSE f[i - 1] \o seqs[i]]
           g == CHOOSE f : Rec(f)
<1>6. Rec(g)
    <2>1. PICK f \in F : Flattens(seqs, f, N)
        BY <1>1, <1>5
    <2>2. Rec(f)
        BY <2>1 DEF Flattens
    <2> HIDE DEF Rec
    <2> QED
        BY <2>2
<1>7. FlattenSeq(seqs) = g[N]
    BY <1>1 DEF FlattenSeq
<1> HIDE DEF g
<1>8. DOMAIN g = 1 .. N /\ Flattens(seqs, g, N)
    BY <1>6 DEF Flattens
<1> DEFINE T == {k \in Nat : k \in 1 .. N => g[k] \in Seq(U)}
<1>9. ASSUME NEW k \in Nat, k \in T PROVE k + 1 \in T
    <2> SUFFICES ASSUME k + 1 \in 1 .. N PROVE g[k + 1] \in Seq(U)
        OBVIOUS
    <2>1. \A i \in 1 .. N : g[i] = IF i = 1 THEN seqs[i] ELSE g[i - 1] \o seqs[i]
        BY <1>8 DEF Flattens
    <2>2. CASE k = 0
        BY <1>1, <2>1, <2>2
    <2>3. CASE k # 0
        <3>1. k \in 1 .. N /\ k + 1 # 1 /\ (k + 1) - 1 = k
            BY <1>1, <2>3
        <3>2. g[k] \in Seq(U)
            BY <1>9, <3>1
        <3>3. g[k + 1] = IF k + 1 = 1 THEN seqs[k + 1] ELSE g[(k + 1) - 1] \o seqs[k + 1]
            BY <2>1, Zenon
        <3>4. g[k + 1] = g[k] \o seqs[k + 1]
            BY <3>1, <3>3
        <3> QED
            BY <1>1, <3>2, <3>4, ConcatProperties
    <2> QED
        BY <2>2, <2>3
<1>10. Nat \subseteq T
    <2>1. 0 \in T
        OBVIOUS
    <2> HIDE DEF T
    <2> QED
        BY <1>9, <2>1, Induction
<1>11. g \in F
    <2>1. g = [i \in 1 .. N |-> g[i]]
        BY <1>6
    <2>2. \A i \in 1 .. N : g[i] \in Seq(U)
        BY <1>1, <1>10
    <2> QED
        BY <2>1, <2>2
<1> QED
    BY <1>7, <1>8, <1>11
-----------------------------------------------------------------------------
(* There and back *)

\* A code is a sequence of characters, and not empty.
LEMMA CodeType ==
    ASSUME NEW c \in Nat
    PROVE  Code(c) \in Seq(Nat) /\ Len(Code(c)) \in {1, 4}
<1>1. CASE c \in {9, 10, 32, Backslash}
    <2>1. Digit(c \div 64) \in Nat /\ Digit((c \div 8) % 8) \in Nat /\ Digit(c % 8) \in Nat
        BY DEF Digit
    <2> QED
        BY <1>1, <2>1 DEF Code, Backslash
<1>2. CASE c \notin {9, 10, 32, Backslash}
    BY <1>2 DEF Code
<1> QED
    BY <1>1, <1>2

\* Where a text has the code of a character, decoding takes it for that character, whatever
\* is after it.
LEMMA CodeDecodes ==
    ASSUME NEW text \in Seq(Nat), NEW f, NEW o \in 1 .. Len(text), NEW c \in Nat,
           o + Len(Code(c)) <= Len(text) + 1,
           \A k \in 1 .. Len(Code(c)) : text[o + (k - 1)] = Code(c)[k]
    PROVE  Decoded(text, f, o) = <<c>> \o f[o + Len(Code(c))]
<1>1. CASE c \in {9, 10, 32, Backslash}
    <2>1. Code(c) = <<Backslash, Digit(c \div 64), Digit((c \div 8) % 8), Digit(c % 8)>>
        BY <1>1 DEF Code
    <2> DEFINE x == c \div 64
               y == (c \div 8) % 8
               z == c % 8
    <2>2. x \in 0 .. 7 /\ y \in 0 .. 7 /\ z \in 0 .. 7 /\ 64 * x + 8 * y + z = c /\ c < 256
        <3>1. CASE c = 9
            <4>1. x = 0 /\ y = 1 /\ z = 1
                BY <3>1
            <4> QED
                BY <3>1, <4>1
        <3>2. CASE c = 10
            <4>1. x = 0 /\ y = 1 /\ z = 2
                BY <3>2
            <4> QED
                BY <3>2, <4>1
        <3>3. CASE c = 32
            <4>1. x = 0 /\ y = 4 /\ z = 0
                BY <3>3
            <4> QED
                BY <3>3, <4>1
        <3>4. CASE c = 92
            <4>1. x = 1 /\ y = 3 /\ z = 4
                BY <3>4
            <4> QED
                BY <3>4, <4>1
        <3> QED
            BY <1>1, <3>1, <3>2, <3>3, <3>4 DEF Backslash
    <2> HIDE DEF x, y, z
    <2>3. Len(Code(c)) = 4 /\ Code(c)[1] = Backslash
              /\ Code(c)[2] = 48 + x /\ Code(c)[3] = 48 + y /\ Code(c)[4] = 48 + z
        BY <2>1 DEF Digit, x, y, z
    <2>4. text[o] = Backslash /\ text[o + 1] = 48 + x /\ text[o + 2] = 48 + y /\ text[o + 3] = 48 + z
        <3>1. o + (1 - 1) = o /\ o + (2 - 1) = o + 1 /\ o + (3 - 1) = o + 2 /\ o + (4 - 1) = o + 3
            OBVIOUS
        <3>2. \A k \in 1 .. 4 : text[o + (k - 1)] = Code(c)[k]
            BY <2>3
        <3>3. /\ text[o + (1 - 1)] = Code(c)[1] /\ text[o + (2 - 1)] = Code(c)[2]
              /\ text[o + (3 - 1)] = Code(c)[3] /\ text[o + (4 - 1)] = Code(c)[4]
            BY <3>2
        <3> QED
            BY <2>3, <3>1, <3>3
    <2>5. Coded(text, o)
        <3>1. o + 3 <= Len(text)
            BY <2>3
        <3>2. \A j \in 1 .. 3 : Octal(text[o + j])
            <4>1. Octal(text[o + 1]) /\ Octal(text[o + 2]) /\ Octal(text[o + 3])
                BY <2>2, <2>4 DEF Octal
            <4> QED
                BY <4>1
        <3> QED
            BY <2>4, <3>1, <3>2 DEF Coded
    <2>6. Value(text, o) = c
        <3>1. text[o + 1] - 48 = x /\ text[o + 2] - 48 = y /\ text[o + 3] - 48 = z
            BY <2>2, <2>4
        <3>2. Value(text, o) = (64 * x + 8 * y + z) % 256
            BY <3>1 DEF Value
        <3>3. 64 * x + 8 * y + z = c
            BY <2>2
        <3>4. c % 256 = c
            <4>1. 9 % 256 = 9 /\ 10 % 256 = 10 /\ 32 % 256 = 32 /\ 92 % 256 = 92
                OBVIOUS
            <4> QED
                BY <1>1, <4>1 DEF Backslash
        <3> QED
            BY <3>2, <3>3, <3>4, Zenon
    <2> QED
        <3>1. Decoded(text, f, o) = <<Value(text, o)>> \o f[o + 4]
            BY <2>5 DEF Decoded
        <3> QED
            BY <2>3, <2>6, <3>1
<1>2. CASE c \notin {9, 10, 32, Backslash}
    <2>1. Code(c) = <<c>>
        BY <1>2 DEF Code
    <2>2. Len(Code(c)) = 1 /\ text[o] = c
        <3>1. Len(Code(c)) = 1 /\ Code(c)[1] = c /\ o + (1 - 1) = o
            BY <2>1
        <3> QED
            BY <3>1
    <2>3. ~Coded(text, o)
        BY <1>2, <2>2 DEF Coded
    <2> QED
        BY <2>2, <2>3 DEF Decoded
<1> QED
    BY <1>1, <1>2

\* What the first codes are together stays at the front when more are added.
LEMMA FlattenedPrefix ==
    ASSUME NEW seqs \in Seq(Seq(Nat)), NEW N \in 0 .. Len(seqs),
           NEW f \in [1 .. Len(seqs) -> Seq(Nat)], Flattens(seqs, f, Len(seqs)),
           NEW i \in 1 .. N
    PROVE  Len(f[i]) <= Len(f[N]) /\ \A m \in 1 .. Len(f[i]) : f[N][m] = f[i][m]
<1> DEFINE P(j) == Len(f[i]) <= Len(f[j]) /\ \A m \in 1 .. Len(f[i]) : f[j][m] = f[i][m]
           S == {k \in Nat : i + k <= Len(seqs) => P(i + k)}
<1>1. 0 \in S
    OBVIOUS
<1>2. ASSUME NEW k \in Nat, k \in S, i + (k + 1) <= Len(seqs) PROVE P(i + (k + 1))
    <2> DEFINE j == i + k
    <2>1. j \in 1 .. Len(seqs) /\ j + 1 \in 1 .. Len(seqs) /\ j + 1 # 1 /\ (j + 1) - 1 = j
              /\ i + (k + 1) = j + 1
        BY <1>2
    <2>2. P(j)
        BY <1>2, <2>1
    <2> HIDE DEF j
    <2>3. f[j + 1] = f[j] \o seqs[j + 1]
        BY <2>1 DEF Flattens
    <2>4. f[j] \in Seq(Nat) /\ f[i] \in Seq(Nat)
        <3>1. i \in 1 .. Len(seqs)
            OBVIOUS
        <3>2. f[j] \in Seq(Nat)
            BY <2>1
        <3>3. f[i] \in Seq(Nat)
            BY <3>1
        <3> QED
            BY <3>2, <3>3
    <2>5. seqs[j + 1] \in Seq(Nat)
        BY <2>1, ElementOfSeq
    <2>6. Len(f[j + 1]) = Len(f[j]) + Len(seqs[j + 1])
        BY <2>3, <2>4, <2>5, ConcatProperties
    <2>8. Len(f[i]) \in Nat /\ Len(f[j]) \in Nat /\ Len(seqs[j + 1]) \in Nat
        BY <2>4, <2>5, LenProperties
    <2>7. ASSUME NEW m \in 1 .. Len(f[j]) PROVE f[j + 1][m] = f[j][m]
        <3>1. m \in 1 .. Len(f[j]) + Len(seqs[j + 1]) /\ m <= Len(f[j])
            <4>1. \A a, b \in Nat : \A x \in 1 .. a : x \in 1 .. a + b /\ x <= a
                OBVIOUS
            <4> QED
                BY <2>8, <4>1, Zenon
        <3> QED
            BY <2>3, <2>4, <2>5, <3>1, ConcatProperties
    <2>9. P(j + 1)
        <3>1. Len(f[i]) <= Len(f[j + 1])
            <4>1. \A a, b, d \in Nat : a <= b => a <= b + d
                OBVIOUS
            <4>2. Len(f[i]) <= Len(f[j])
                BY <2>2
            <4> QED
                BY <2>6, <2>8, <4>1, <4>2, Zenon
        <3>2. ASSUME NEW m \in 1 .. Len(f[i]) PROVE f[j + 1][m] = f[i][m]
            BY <2>2, <2>7, <2>8
        <3> QED
            BY <3>1, <3>2
    <2> QED
        BY <2>1, <2>9
<1>3. ASSUME NEW k \in Nat, k \in S PROVE k + 1 \in S
    <2>1. k + 1 \in Nat /\ (i + (k + 1) <= Len(seqs) => P(i + (k + 1)))
        <3> HIDE DEF P, S
        <3> QED
            BY <1>2, <1>3
    <2> HIDE DEF P
    <2> QED
        BY <2>1
<1>4. N - i \in S
    <2>1. N - i \in Nat
        OBVIOUS
    <2> HIDE DEF S
    <2> QED
        BY <1>1, <1>3, <2>1, Induction
<1> QED
    BY <1>4

\* Where the code of a character is in an escaped path.
LEMMA CodePlaces ==
    ASSUME NEW path \in Seq(Nat), path # <<>>
    PROVE  \E e \in [0 .. Len(path) -> Nat] :
               /\ e[0] = 0 /\ e[Len(path)] = Len(Escape(path))
               /\ Escape(path) \in Seq(Nat)
               /\ \A i \in 1 .. Len(path) :
                     /\ e[i] = e[i - 1] + Len(Code(path[i])) /\ e[i] <= Len(Escape(path))
                     /\ \A k \in 1 .. Len(Code(path[i])) : Escape(path)[e[i - 1] + k] = Code(path[i])[k]
<1> DEFINE N == Len(path)
           seqs == [i \in DOMAIN path |-> Code(path[i])]
<1>1. N \in Nat /\ N > 0 /\ DOMAIN path = 1 .. N /\ \A i \in 1 .. N : path[i] \in Nat
    OBVIOUS
<1>2. \A i \in 1 .. N : Code(path[i]) \in Seq(Nat) /\ Len(Code(path[i])) \in Nat
    BY <1>1, CodeType
<1>3. seqs \in Seq(Seq(Nat)) /\ Len(seqs) = N /\ seqs # <<>> /\ \A i \in 1 .. N : seqs[i] = Code(path[i])
    BY <1>1, <1>2
<1> HIDE DEF seqs, N
<1>4. PICK f \in [1 .. N -> Seq(Nat)] : Flattens(seqs, f, N) /\ FlattenSeq(seqs) = f[N]
    BY <1>3, FlatteningExists
<1>5. Escape(path) = f[N] /\ f[N] \in Seq(Nat)
    BY <1>1, <1>4 DEF Escape, seqs
<1> DEFINE e == [i \in 0 .. N |-> IF i = 0 THEN 0 ELSE Len(f[i])]
<1>6. ASSUME NEW i \in 1 .. N PROVE f[i] \in Seq(Nat) /\ Len(f[i]) \in Nat /\ e[i] = Len(f[i])
    BY <1>1, <1>4
<1>7. e \in [0 .. N -> Nat] /\ e[0] = 0 /\ e[N] = Len(f[N])
    BY <1>1, <1>6
<1>8. ASSUME NEW i \in 1 .. N
      PROVE  /\ e[i] = e[i - 1] + Len(Code(path[i])) /\ e[i] <= Len(f[N])
             /\ \A k \in 1 .. Len(Code(path[i])) : f[N][e[i - 1] + k] = Code(path[i])[k]
    <2> DEFINE c == Code(path[i])
               d == e[i - 1]
    <2>1. c \in Seq(Nat) /\ Len(c) \in Nat /\ d \in Nat /\ Len(f[i]) \in Nat
        BY <1>1, <1>2, <1>6, <1>7
    <2>2. f[i] = IF i = 1 THEN c ELSE f[i - 1] \o c
        BY <1>3, <1>4 DEF Flattens
    <2>3. Len(f[i]) <= Len(f[N]) /\ \A m \in 1 .. Len(f[i]) : f[N][m] = f[i][m]
        <3>1. /\ seqs \in Seq(Seq(Nat)) /\ N \in 0 .. Len(seqs) /\ f \in [1 .. Len(seqs) -> Seq(Nat)]
              /\ Flattens(seqs, f, Len(seqs))
            BY <1>1, <1>3, <1>4
        <3> HIDE DEF c, d, e
        <3>2. i \in 1 .. N
            OBVIOUS
        <3> QED
            BY <3>1, <3>2, FlattenedPrefix, Zenon
    <2>4. Len(f[i]) = d + Len(c) /\ \A k \in 1 .. Len(c) : f[i][d + k] = c[k]
        <3>1. CASE i = 1
            <4>1. d = 0 /\ f[i] = c
                BY <2>2, <3>1, <1>7
            <4> HIDE DEF c, d
            <4>2. \A k \in 1 .. Len(c) : d + k = k
                BY <2>1, <4>1
            <4> QED
                BY <2>1, <4>1, <4>2
        <3>2. CASE i # 1
            <4>1. i - 1 \in 1 .. N
                BY <1>1, <3>2
            <4>2. f[i - 1] \in Seq(Nat) /\ d = Len(f[i - 1]) /\ f[i] = f[i - 1] \o c
                BY <1>6, <2>2, <3>2, <4>1
            <4> HIDE DEF c, d
            <4> QED
                BY <2>1, <4>2, ConcatProperties
        <3> QED
            BY <3>1, <3>2
    <2>5. e[i] = Len(f[i])
        BY <1>6
    <2> HIDE DEF c, d, e
    <2>6. ASSUME NEW k \in 1 .. Len(c) PROVE f[N][d + k] = c[k]
        <3>1. d + k \in 1 .. Len(f[i])
            BY <2>1, <2>4
        <3> QED
            BY <2>3, <2>4, <3>1
    <2> QED
        BY <2>3, <2>4, <2>5, <2>6 DEF c, d
<1> HIDE DEF e
<1> QED
    BY <1>5, <1>7, <1>8 DEF N

\* unescapeMountPath gives back every path, whatever is in it, that the kernel escaped
\* (docker.go:204-222).
THEOREM PathsSurvive == \A path \in Seq(Nat) : Unescape(Escape(path)) = path
<1> SUFFICES ASSUME NEW path \in Seq(Nat) PROVE Unescape(Escape(path)) = path
    OBVIOUS
<1>1. CASE path = <<>>
    <2>1. Escape(path) = <<>>
        BY <1>1 DEF Escape, FlattenSeq
    <2>2. PICK f : DecodesFrom(<<>>, f, 1) /\ Unescape(<<>>) = f[1]
        <3>1. <<>> \in Seq(Nat)
            OBVIOUS
        <3> QED
            BY <3>1, UnescapeDecodes
    <2>3. f[1] = <<>>
        <3>1. Len(<<>>) = 0 /\ 1 \in 1 .. Len(<<>>) + 1 /\ 1 > Len(<<>>)
            OBVIOUS
        <3>2. f[1] = Decoded(<<>>, f, 1)
            BY <2>2, <3>1, Zenon DEF DecodesFrom
        <3> QED
            BY <3>1, <3>2, Zenon DEF Decoded
    <2> QED
        BY <1>1, <2>1, <2>2, <2>3
<1>2. CASE path # <<>>
    <2> DEFINE N == Len(path)
               text == Escape(path)
               size(i) == Len(Code(path[i]))
    <2>1. PICK e \in [0 .. N -> Nat] :
              /\ e[0] = 0 /\ e[N] = Len(text) /\ text \in Seq(Nat)
              /\ \A i \in 1 .. N :
                    /\ e[i] = e[i - 1] + size(i) /\ e[i] <= Len(text)
                    /\ \A k \in 1 .. size(i) : text[e[i - 1] + k] = Code(path[i])[k]
        BY <1>2, CodePlaces
    <2>2. PICK f : DecodesFrom(text, f, 1) /\ Unescape(text) = f[1]
        BY <2>1, UnescapeDecodes
    <2>3. N \in Nat /\ \A i \in 1 .. N : path[i] \in Nat
        OBVIOUS
    <2> DEFINE S == {k \in Nat : k <= N => f[e[N - k] + 1] = SubSeq(path, (N - k) + 1, N)}
    <2> HIDE DEF text, N
    <2>4. 0 \in S
        <3>1. f[Len(text) + 1] = <<>>
            <4>1. Len(text) + 1 \in 1 .. Len(text) + 1 /\ Len(text) \in Nat
                BY <2>1
            <4>2. f[Len(text) + 1] = Decoded(text, f, Len(text) + 1)
                BY <2>2, <4>1 DEF DecodesFrom
            <4>3. Len(text) + 1 > Len(text)
                BY <4>1
            <4> QED
                BY <4>2, <4>3, Zenon DEF Decoded
        <3>2. SubSeq(path, (N - 0) + 1, N) = <<>>
            BY <2>3, SubSeqEmpty
        <3>3. N - 0 = N
            BY <2>3
        <3> QED
            BY <2>1, <3>1, <3>2, <3>3
    <2>5. ASSUME NEW k \in Nat, k \in S, k + 1 <= N
          PROVE  f[e[N - (k + 1)] + 1] = SubSeq(path, (N - (k + 1)) + 1, N)
        <3> DEFINE i == N - k
                   o == e[i - 1] + 1
        <3>1. i \in 1 .. N /\ i - 1 = N - (k + 1) /\ (i - 1) + 1 = i /\ i - 1 \in 0 .. N
            BY <2>3, <2>5
        <3>2. f[e[i] + 1] = SubSeq(path, i + 1, N)
            BY <2>3, <2>5, <3>1
        <3> HIDE DEF i
        <3>3. e[i - 1] \in Nat /\ path[i] \in Nat
            BY <2>1, <2>3, <3>1
        <3>4. size(i) \in {1, 4} /\ e[i] = e[i - 1] + size(i) /\ e[i] <= Len(text)
            BY <2>1, <3>1, <3>3, CodeType
        <3>5. o \in 1 .. Len(text) /\ o + size(i) = e[i] + 1 /\ o + size(i) <= Len(text) + 1
            <4>1. Len(text) \in Nat /\ e[i] \in Nat
                <5>1. Len(text) \in Nat
                    BY <2>1
                <5>2. e[i] \in Nat
                    BY <2>1, <2>3, <3>1
                <5> QED
                    BY <5>1, <5>2
            <4>2. size(i) \in Nat \ {0}
                BY <3>4
            <4> HIDE DEF size
            <4> QED
                <5>1. \A a, b, c, l \in Nat :
                          c # 0 /\ b = a + c /\ b <= l =>
                              a + 1 \in 1 .. l /\ (a + 1) + c = b + 1 /\ (a + 1) + c <= l + 1
                    OBVIOUS
                <5> QED
                    BY <3>3, <3>4, <4>1, <4>2, <5>1
        <3>6. ASSUME NEW m \in 1 .. size(i) PROVE text[o + (m - 1)] = Code(path[i])[m]
            <4>1. o + (m - 1) = e[i - 1] + m
                <5>1. m \in Int
                    BY <3>4
                <5> QED
                    BY <3>3, <5>1 DEF o
            <4> QED
                BY <2>1, <3>1, <4>1
        <3> HIDE DEF o
        <3>7. Decoded(text, f, o) = <<path[i]>> \o f[e[i] + 1]
            <4>1. Decoded(text, f, o) = <<path[i]>> \o f[o + size(i)]
                <5>1. /\ text \in Seq(Nat) /\ path[i] \in Nat /\ o \in 1 .. Len(text)
                      /\ o + Len(Code(path[i])) <= Len(text) + 1
                      /\ \A j \in 1 .. Len(Code(path[i])) : text[o + (j - 1)] = Code(path[i])[j]
                    BY <2>1, <3>3, <3>5, <3>6
                <5> QED
                    BY <5>1, CodeDecodes
            <4> QED
                BY <3>5, <4>1
        <3>8. f[o] = Decoded(text, f, o)
            <4>1. o \in 1 .. Len(text) + 1
                <5>1. Len(text) \in Nat
                    BY <2>1
                <5> QED
                    BY <3>5, <5>1
            <4>2. \A j \in 1 .. Len(text) + 1 : f[j] = Decoded(text, f, j)
                BY <2>2, Zenon DEF DecodesFrom
            <4> QED
                BY <4>1, <4>2
        <3>9. SubSeq(path, i, N) = <<path[i]>> \o SubSeq(path, i + 1, N)
            <4>1. N \in i .. Len(path) /\ i \in 1 .. Len(path)
                BY <2>3, <3>1 DEF N
            <4> QED
                BY <4>1, SubSeqRecursiveFirst
        <3>10. f[o] = SubSeq(path, i, N)
            BY <3>2, <3>7, <3>8, <3>9
        <3> QED
            BY <3>1, <3>10 DEF o
    <2>6. ASSUME NEW k \in Nat, k \in S PROVE k + 1 \in S
        BY <2>5, <2>6
    <2>7. N \in S
        <3> HIDE DEF S
        <3> QED
            BY <2>3, <2>4, <2>6, Induction
    <2>8. f[1] = SubSeq(path, 1, N)
        <3>1. N - N = 0 /\ (N - N) + 1 = 1 /\ e[N - N] + 1 = 1
            BY <2>1, <2>3
        <3> QED
            BY <2>3, <2>7, <3>1
    <2>9. SubSeq(path, 1, N) = path
        BY SubSeqFull DEF N
    <2> QED
        BY <2>2, <2>8, <2>9 DEF text
<1> QED
    BY <1>1, <1>2
=============================================================================
