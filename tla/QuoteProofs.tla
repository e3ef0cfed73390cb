------------------------------ MODULE QuoteProofs ------------------------------
(***************************************************************************)
(* Lemmas about the percent-encoding of Filenames, which the proofs about  *)
(* recorded names rest on: unquote() gives back every name that quote()    *)
(* encoded, of any length and of characters of the modelled kinds.         *)
(* FlattenSeq() is a recursive function, so that what it does follows by   *)
(* induction over sequences, which is proved first.                        *)
(***************************************************************************)
EXTENDS Filenames, SequenceTheorems, FiniteSetTheorems, WellFoundedInduction, TLAPS

\* Every set of numbers has a least element.
LEMMA Smallest ==
    ASSUME NEW T \in SUBSET Nat, T # {}
    PROVE  \E m \in T : \A n \in T : m <= n
<1> DEFINE R == OpToRel(<, Nat)
<1>1. IsWellFoundedOn(R, Nat)
  BY NatLessThanWellFounded
<1>2. \A m, n \in Nat : m < n => <<m, n>> \in R
  BY DEF OpToRel
<1> HIDE DEF R
<1>3. PICK m \in T : \A n \in T : ~ (<<n, m>> \in R)
  BY <1>1, WFMin
<1>4. ASSUME NEW n \in T
      PROVE  m <= n
  <2>1. ~(n < m)
    BY <1>2, <1>3
  <2> QED
    BY <2>1
<1> QED
  BY <1>4

\* Induction over the numbers, for a set: what the library's theorem states for
\* an operator.
LEMMA Induction ==
    ASSUME NEW T, 0 \in T, \A n \in Nat : n \in T => n + 1 \in T
    PROVE  Nat \subseteq T
<1> SUFFICES ASSUME Nat \ T # {}
             PROVE  FALSE
  OBVIOUS
<1>1. PICK m \in Nat \ T : \A n \in Nat \ T : m <= n
  BY Smallest
<1>2. m # 0 /\ m - 1 \in Nat /\ m - 1 \in T
  BY <1>1
<1> QED
  BY <1>1, <1>2

\* Induction over sequences, element by element from the left.
LEMMA SeqInduction ==
    ASSUME NEW S, NEW T, <<>> \in T,
           \A s \in Seq(S), x \in S : s \in T => Append(s, x) \in T
    PROVE  Seq(S) \subseteq T
<1> DEFINE N == {n \in Nat : \A s \in Seq(S) : Len(s) = n => s \in T}
<1>1. 0 \in N
  BY EmptySeq
<1>2. ASSUME NEW n \in Nat, n \in N
      PROVE  n + 1 \in N
  <2>1. ASSUME NEW s \in Seq(S), Len(s) = n + 1
        PROVE  s \in T
    <3>1. s # <<>>
      BY <2>1, EmptySeq
    <3>2. PICK t \in Seq(S), x \in S : s = Append(t, x)
      BY <3>1, SequenceEmptyOrAppend
    <3>3. Len(t) = n
      BY <2>1, <3>2, AppendProperties, LenProperties
    <3> QED
      BY <1>2, <3>2, <3>3
  <2> QED
    BY <2>1
<1> HIDE DEF N
<1>3. Nat \subseteq N
  BY <1>1, <1>2, Induction
<1> QED
  BY <1>3, LenProperties DEF N


\* What FlattenSeq(s) computes on the way: f[i] is the concatenation of the
\* first i parts.
Step(f, s, i) == f[i] = IF i = 1 THEN s[i] ELSE f[i - 1] \o s[i]
Flat(f, s, n) == f = [i \in 1 .. n |-> IF i = 1 THEN s[i] ELSE f[i - 1] \o s[i]]
Agree(f, g, n) == \A i \in 1 .. n : f[i] = g[i]

\* What the function is at each place.
LEMMA FlatStep ==
    ASSUME NEW f, NEW s, NEW n \in Nat, Flat(f, s, n), NEW i \in 1 .. n
    PROVE  Step(f, s, i)
<1> DEFINE body(j) == IF j = 1 THEN s[j] ELSE f[j - 1] \o s[j]
<1>1. f = [j \in 1 .. n |-> body(j)]
  BY Zenon DEF Flat
<1> HIDE DEF body
<1>2. f[i] = body(i)
  BY <1>1, Zenon
<1> QED
  BY <1>2 DEF body, Step

\* Two such functions agree where their sequences do.
LEMMA FlatUnique ==
    ASSUME NEW f, NEW g, NEW s, NEW t, NEW m \in Nat, NEW n \in Nat, m <= n,
           Flat(f, s, m), Flat(g, t, n), Agree(s, t, m)
    PROVE  Agree(f, g, m)
<1> DEFINE T == {i \in Nat : i \in 1 .. m => f[i] = g[i]}
<1>1. 0 \in T
  OBVIOUS
<1>2. ASSUME NEW i \in Nat, i \in T
      PROVE  i + 1 \in T
  <2>1. ASSUME i + 1 \in 1 .. m
        PROVE  f[i + 1] = g[i + 1]
    <3>1. i + 1 \in 1 .. n /\ s[i + 1] = t[i + 1]
      BY <2>1 DEF Agree
    <3>2. Step(f, s, i + 1)
      BY <2>1, FlatStep, Zenon
    <3>3. Step(g, t, i + 1)
      BY <3>1, FlatStep, Zenon
    <3>4. i # 0 => f[i] = g[i]
      BY <1>2, <2>1
    <3>5. (i + 1) - 1 = i /\ (i + 1 = 1 <=> i = 0)
      OBVIOUS
    <3> QED
      <4>1. CASE i = 0
        BY <3>1, <3>2, <3>3, <4>1 DEF Step
      <4>2. CASE i # 0
        BY <3>1, <3>2, <3>3, <3>4, <3>5, <4>2, Zenon DEF Step
      <4> QED
        BY <4>1, <4>2
  <2> QED
    BY <2>1
<1> HIDE DEF T
<1>3. Nat \subseteq T
  BY <1>1, <1>2, Induction
<1> QED
  BY <1>3 DEF T, Agree

\* There is such a function for every sequence of sequences.
LEMMA FlatExists ==
    ASSUME NEW S, NEW s \in Seq(Seq(S))
    PROVE  \A n \in Nat : n <= Len(s) => \E f \in [1 .. n -> Seq(S)] : Flat(f, s, n)
<1> DEFINE T == {n \in Nat : n <= Len(s) => \E f \in [1 .. n -> Seq(S)] : Flat(f, s, n)}
<1>1. 0 \in T
  <2> DEFINE f == [i \in 1 .. 0 |-> <<>>]
  <2>1. Flat(f, s, 0)
    BY DEF Flat
  <2>2. f \in [1 .. 0 -> Seq(S)]
    OBVIOUS
  <2> HIDE DEF f
  <2> QED
    BY <2>1, <2>2
<1> Len(s) \in Nat
  BY LenProperties
<1>2. ASSUME NEW n \in Nat, n \in T
      PROVE  n + 1 \in T
  <2>1. ASSUME n + 1 <= Len(s)
        PROVE  \E f \in [1 .. n + 1 -> Seq(S)] : Flat(f, s, n + 1)
    <3>1. PICK f \in [1 .. n -> Seq(S)] : Flat(f, s, n)
      <4>1. n <= Len(s)
        BY <2>1
      <4> QED
        BY <1>2, <4>1
    <3> DEFINE last == IF n = 0 THEN s[1] ELSE f[n] \o s[n + 1]
               g == [i \in 1 .. n + 1 |-> IF i = n + 1 THEN last ELSE f[i]]
    <3>2. \A i \in 1 .. n + 1 : s[i] \in Seq(S)
      BY <2>1, ElementOfSeq
    <3>3. last \in Seq(S)
      BY <3>1, <3>2, ConcatProperties
    <3>4. ASSUME NEW i \in 1 .. n + 1
          PROVE  Step(g, s, i) /\ g[i] \in Seq(S)
      <4>1. CASE i = n + 1
        BY <3>3, <4>1 DEF Step
      <4>2. CASE i # n + 1
        <5>1. i \in 1 .. n /\ g[i] = f[i] /\ (i # 1 => g[i - 1] = f[i - 1])
          BY <4>2
        <5>2. Step(f, s, i)
          BY <3>1, <5>1, FlatStep, Zenon
        <5> QED
          BY <3>1, <5>1, <5>2 DEF Step
      <4> QED
        BY <4>1, <4>2
    <3>5. g \in [1 .. n + 1 -> Seq(S)]
      BY <3>4
    <3>6. Flat(g, s, n + 1)
      <4>1. g = [i \in 1 .. n + 1 |-> g[i]]
        OBVIOUS
      <4> HIDE DEF g
      <4> QED
        BY <3>4, <4>1 DEF Flat, Step
    <3> QED
      BY <3>5, <3>6
  <2> QED
    BY <2>1
<1> HIDE DEF T
<1>3. Nat \subseteq T
  BY <1>1, <1>2, Induction
<1> QED
  BY <1>3 DEF T

\* So the recursive function in FlattenSeq is that one.
LEMMA FlattenIs ==
    ASSUME NEW S, NEW s \in Seq(Seq(S)), NEW f \in [1 .. Len(s) -> Seq(S)], Flat(f, s, Len(s))
    PROVE  FlattenSeq(s) = IF Len(s) = 0 THEN <<>> ELSE f[Len(s)]
<1>1. Len(s) \in Nat /\ (Len(s) = 0 => s = <<>>)
  BY EmptySeq, LenProperties
<1>2. ASSUME NEW g, Flat(g, s, Len(s))
      PROVE  g = f
  <2>1. Agree(g, f, Len(s))
    <3>1. Len(s) <= Len(s) /\ Agree(s, s, Len(s))
      BY <1>1 DEF Agree
    <3> QED
      BY <1>1, <1>2, <3>1, FlatUnique, Zenon
  <2>2. g = [i \in 1 .. Len(s) |-> g[i]] /\ f = [i \in 1 .. Len(s) |-> f[i]]
    BY <1>2 DEF Flat
  <2> QED
    BY <2>1, <2>2 DEF Agree
<1>3. CASE Len(s) # 0
  BY <1>2, <1>3, Zenon DEF FlattenSeq, Flat
<1> QED
  BY <1>1, <1>3 DEF FlattenSeq

\* One more part is one more part of the concatenation.
LEMMA FlattenAppend ==
    ASSUME NEW S, NEW s \in Seq(Seq(S)), NEW x \in Seq(S)
    PROVE  /\ FlattenSeq(s) \in Seq(S)
           /\ FlattenSeq(Append(s, x)) = FlattenSeq(s) \o x
<1>1. PICK n \in Nat : n = Len(s)
  BY LenProperties
<1>2. PICK t \in Seq(Seq(S)) : t = Append(s, x)
  BY AppendProperties
<1>3. /\ Len(t) = n + 1
      /\ \A i \in 1 .. n : t[i] = s[i]
      /\ t[n + 1] = x
  BY <1>1, <1>2, AppendProperties
<1>4. n <= Len(s) /\ n + 1 <= Len(t) /\ n + 1 \in Nat
  BY <1>1, <1>3
<1>5. PICK f \in [1 .. n -> Seq(S)] : Flat(f, s, n)
  BY <1>4, FlatExists, Zenon
<1>6. PICK g \in [1 .. n + 1 -> Seq(S)] : Flat(g, t, n + 1)
  BY <1>4, FlatExists, Zenon
<1>7. FlattenSeq(s) = IF Len(s) = 0 THEN <<>> ELSE f[Len(s)]
  BY <1>1, <1>5, FlattenIs, Zenon
<1>8. FlattenSeq(t) = IF Len(t) = 0 THEN <<>> ELSE g[Len(t)]
  BY <1>3, <1>6, FlattenIs, Zenon
<1>9. Agree(f, g, n)
  <2>1. n <= n + 1 /\ Agree(s, t, n)
    BY <1>3 DEF Agree
  <2> QED
    BY <1>4, <1>5, <1>6, <2>1, FlatUnique, Zenon
<1>10. (n = 0 => g[n + 1] = x) /\ (n # 0 => g[n + 1] = g[n] \o x)
  <2>1. n + 1 \in 1 .. n + 1
    OBVIOUS
  <2>2. Step(g, t, n + 1)
    BY <1>4, <1>6, <2>1, FlatStep, Zenon
  <2>3. (n + 1) - 1 = n /\ (n + 1 = 1 <=> n = 0)
    OBVIOUS
  <2> QED
    BY <1>3, <2>2, <2>3, Zenon DEF Step
<1>11. FlattenSeq(s) \in Seq(S)
  <2>1. n # 0 => n \in 1 .. n
    OBVIOUS
  <2> QED
    BY <1>1, <1>5, <1>7, <2>1, EmptySeq
<1>12. FlattenSeq(t) = FlattenSeq(s) \o x
  <2>1. CASE n = 0
    BY <1>1, <1>3, <1>7, <1>8, <1>10, <2>1, ConcatEmptySeq
  <2>2. CASE n # 0
    <3>1. f[n] = g[n] /\ n + 1 # 0
      BY <1>9, <2>2 DEF Agree
    <3> QED
      BY <1>1, <1>3, <1>7, <1>8, <1>10, <2>2, <3>1, Zenon
  <2> QED
    BY <2>1, <2>2
<1> QED
  BY <1>2, <1>11, <1>12

-------------------------------------------------------------------------------
(* Quote, character by character.                                          *)

\* A symbol of the encoded text.
Symbol == [of : Char, nth : Nat]

\* Each character has one, three or six symbols, each of which knows its place.
LEMMA SymbolsType ==
    ASSUME NEW c \in Char
    PROVE  /\ Width(c) \in {1, 3, 6}
           /\ Symbols(c) \in Seq(Symbol)
           /\ Len(Symbols(c)) = Width(c)
           /\ \A k \in 1 .. Width(c) : Symbols(c)[k] = [of |-> c, nth |-> k]
<1>1. Width(c) \in {1, 3, 6}
  BY DEF Width
<1>2. \A k \in 1 .. Width(c) : [of |-> c, nth |-> k] \in Symbol
  BY <1>1 DEF Symbol
<1>3. Symbols(c) \in [1 .. Width(c) -> Symbol]
  BY <1>2 DEF Symbols
<1>4. Symbols(c) \in Seq(Symbol)
  BY <1>1, <1>3
<1> QED
  BY <1>1, <1>4 DEF Symbols

\* The symbols of each character of a name.
Parts(name) == [i \in DOMAIN name |-> Symbols(name[i])]

\* One more character is one more part.
LEMMA PartsAppend ==
    ASSUME NEW name \in Seq(Char), NEW c \in Char
    PROVE  /\ Parts(name) \in Seq(Seq(Symbol))
           /\ Parts(Append(name, c)) = Append(Parts(name), Symbols(c))
<1>1. ASSUME NEW w \in Seq(Char)
      PROVE  /\ Parts(w) \in Seq(Seq(Symbol))
             /\ Len(Parts(w)) = Len(w)
             /\ \A i \in 1 .. Len(w) : Parts(w)[i] = Symbols(w[i])
  <2>1. Len(w) \in Nat /\ DOMAIN w = 1 .. Len(w) /\ \A i \in 1 .. Len(w) : w[i] \in Char
    BY LenProperties, ElementOfSeq
  <2>2. \A i \in 1 .. Len(w) : Symbols(w[i]) \in Seq(Symbol)
    BY <2>1, SymbolsType
  <2>3. Parts(w) \in [1 .. Len(w) -> Seq(Symbol)]
    BY <2>1, <2>2 DEF Parts
  <2> QED
    BY <2>1, <2>3 DEF Parts
<1> DEFINE long == Append(name, c)
<1>2. /\ long \in Seq(Char) /\ Len(long) = Len(name) + 1 /\ Len(name) \in Nat
      /\ \A i \in 1 .. Len(name) : long[i] = name[i]
      /\ long[Len(name) + 1] = c
  BY AppendProperties, LenProperties
<1> HIDE DEF long
<1> DEFINE both == Append(Parts(name), Symbols(c))
<1>3. /\ both \in Seq(Seq(Symbol)) /\ Len(both) = Len(name) + 1
      /\ \A i \in 1 .. Len(name) : both[i] = Parts(name)[i]
      /\ both[Len(name) + 1] = Symbols(c)
  <2>1. Symbols(c) \in Seq(Symbol)
    BY SymbolsType
  <2> QED
    BY <1>1, <2>1, AppendProperties
<1> HIDE DEF both
<1>4. Parts(long) = both
  <2>1. ASSUME NEW i \in 1 .. Len(name) + 1
        PROVE  Parts(long)[i] = both[i]
    <3>1. CASE i \in 1 .. Len(name)
      BY <1>1, <1>2, <1>3, <3>1
    <3>2. CASE i = Len(name) + 1
      BY <1>1, <1>2, <1>3, <3>2
    <3> QED
      BY <1>2, <3>1, <3>2
  <2> QED
    BY <1>1, <1>2, <1>3, <2>1, SeqEqual
<1> QED
  BY <1>1, <1>4 DEF long, both

\* quote() works on one character after the other.
LEMMA QuoteAppend ==
    ASSUME NEW name \in Seq(Char), NEW c \in Char
    PROVE  /\ Quote(name) \in Seq(Symbol)
           /\ Quote(Append(name, c)) = Quote(name) \o Symbols(c)
           /\ Len(Quote(Append(name, c))) = Len(Quote(name)) + Width(c)
<1>1. \A w : Quote(w) = FlattenSeq(Parts(w))
  BY Zenon DEF Quote, Parts
<1>2. /\ Parts(name) \in Seq(Seq(Symbol)) /\ Symbols(c) \in Seq(Symbol)
      /\ Parts(Append(name, c)) = Append(Parts(name), Symbols(c))
      /\ Len(Symbols(c)) = Width(c)
  BY PartsAppend, SymbolsType
<1>3. /\ FlattenSeq(Parts(name)) \in Seq(Symbol)
      /\ FlattenSeq(Append(Parts(name), Symbols(c))) = FlattenSeq(Parts(name)) \o Symbols(c)
  BY <1>2, FlattenAppend, Zenon
<1>4. /\ Quote(name) \in Seq(Symbol)
      /\ Quote(Append(name, c)) = Quote(name) \o Symbols(c)
  BY <1>1, <1>2, <1>3, Zenon
<1>5. Len(Quote(name) \o Symbols(c)) = Len(Quote(name)) + Len(Symbols(c))
  BY <1>2, <1>4, ConcatProperties
<1> QED
  BY <1>2, <1>4, <1>5

\* Nothing is encoded as nothing.
LEMMA QuoteEmpty == Quote(<<>>) = <<>>
<1>1. Parts(<<>>) = <<>>
  BY DEF Parts
<1> QED
  BY <1>1 DEF Quote, Parts, FlattenSeq

\* The encoded text is a sequence of symbols.
LEMMA QuoteType ==
    ASSUME NEW name \in Seq(Char)
    PROVE  Quote(name) \in Seq(Symbol)
<1>1. PICK c : c \in Char
  BY FilenameAssumption DEF Char
<1> QED
  BY <1>1, QuoteAppend

\* quote() of two names, one behind the other, is the two encoded texts, one
\* behind the other.
LEMMA QuoteConcat ==
    ASSUME NEW v \in Seq(Char), NEW w \in Seq(Char)
    PROVE  /\ Quote(v \o w) = Quote(v) \o Quote(w)
           /\ Len(Quote(v \o w)) = Len(Quote(v)) + Len(Quote(w))
<1> DEFINE T == {u \in Seq(Char) : Quote(v \o u) = Quote(v) \o Quote(u)}
<1>0. \A u \in Seq(Char) : Quote(u) \in Seq(Symbol)
  BY QuoteType
<1>1. <<>> \in T
  BY <1>0, QuoteEmpty, EmptySeq, ConcatEmptySeq
<1>2. ASSUME NEW u \in Seq(Char), NEW c \in Char, u \in T
      PROVE  Append(u, c) \in T
  <2>1. v \o Append(u, c) = Append(v \o u, c) /\ v \o u \in Seq(Char) /\ Append(u, c) \in Seq(Char)
    BY ConcatProperties, AppendProperties, SeqEqual
  <2>2. Quote(Append(v \o u, c)) = Quote(v \o u) \o Symbols(c)
    BY <2>1, QuoteAppend
  <2>3. Quote(Append(u, c)) = Quote(u) \o Symbols(c)
    BY QuoteAppend
  <2>4. (Quote(v) \o Quote(u)) \o Symbols(c) = Quote(v) \o (Quote(u) \o Symbols(c))
    <3>1. Quote(v) \in Seq(Symbol) /\ Quote(u) \in Seq(Symbol) /\ Symbols(c) \in Seq(Symbol)
      BY <1>0, SymbolsType
    <3> QED
      BY <3>1, ConcatAssociative
  <2> QED
    BY <1>2, <2>1, <2>2, <2>3, <2>4
<1> HIDE DEF T
<1>3. Seq(Char) \subseteq T
  BY <1>1, <1>2, SeqInduction
<1>4. Quote(v \o w) = Quote(v) \o Quote(w)
  BY <1>3 DEF T
<1> QED
  BY <1>0, <1>4, ConcatProperties

-------------------------------------------------------------------------------
(* Unquote gives back what was quoted.                                     *)

\* What a symbol can decode to.
Decoded == Char \cup {Broken}

\* The positions of whole characters, and what each symbol decodes to.
Covered(text) == UNION {i .. i + Width(text[i].of) - 1 : i \in Starts(text)}
Piece(text, i) ==
    IF i \in Starts(text) THEN <<text[i].of>>
    ELSE IF i \in Covered(text) THEN <<>> ELSE <<Broken>>
Pieces(text) == [i \in DOMAIN text |-> Piece(text, i)]

\* unquote() puts these pieces together.
LEMMA UnquotePieces ==
    ASSUME NEW text
    PROVE  Unquote(text) = FlattenSeq(Pieces(text))
BY Zenon DEF Unquote, Pieces, Piece, Covered

\* The pieces are texts.
LEMMA PiecesType ==
    ASSUME NEW text \in Seq(Symbol)
    PROVE  /\ Pieces(text) \in Seq(Seq(Decoded))
           /\ Len(Pieces(text)) = Len(text)
           /\ \A i \in 1 .. Len(text) : Pieces(text)[i] = Piece(text, i)
<1>1. Len(text) \in Nat /\ DOMAIN text = 1 .. Len(text) /\ \A i \in 1 .. Len(text) : text[i] \in Symbol
  BY LenProperties, ElementOfSeq
<1>2. \A i \in 1 .. Len(text) : Piece(text, i) \in Seq(Decoded)
  <2>1. \A i \in 1 .. Len(text) : text[i].of \in Decoded
    BY <1>1 DEF Symbol, Decoded
  <2>2. \A x \in Decoded : <<x>> \in Seq(Decoded)
    OBVIOUS
  <2>3. Broken \in Decoded /\ <<>> \in Seq(Decoded)
    BY DEF Decoded
  <2> QED
    BY <2>1, <2>2, <2>3 DEF Piece
<1>3. Pieces(text) \in [1 .. Len(text) -> Seq(Decoded)]
  BY <1>1, <1>2 DEF Pieces
<1> QED
  BY <1>1, <1>3 DEF Pieces

\* A character added at the end starts behind the others, and it is the only
\* character that starts in its symbols or reaches into them.
LEMMA StartsAppend ==
    ASSUME NEW text \in Seq(Symbol), NEW c \in Char
    PROVE  Starts(text \o Symbols(c)) = Starts(text) \cup {Len(text) + 1}
<1> DEFINE both == text \o Symbols(c)
           n == Len(text)
           w == Width(c)
<1>1. /\ n \in Nat /\ w \in Nat \ {0} /\ DOMAIN text = 1 .. n
      /\ DOMAIN both = 1 .. n + w /\ Len(both) = n + w
      /\ \A i \in 1 .. n : both[i] = text[i]
      /\ \A k \in 1 .. w : both[n + k] = [of |-> c, nth |-> k]
  <2>1. /\ Symbols(c) \in Seq(Symbol) /\ Len(Symbols(c)) = w /\ w \in Nat \ {0}
        /\ \A k \in 1 .. w : Symbols(c)[k] = [of |-> c, nth |-> k]
    BY SymbolsType
  <2>2. n \in Nat /\ DOMAIN text = 1 .. n
    BY LenProperties
  <2>3. /\ both \in Seq(Symbol) /\ Len(both) = n + Len(Symbols(c))
        /\ \A i \in 1 .. n + Len(Symbols(c)) :
              both[i] = IF i <= n THEN text[i] ELSE Symbols(c)[i - n]
    BY <2>1, ConcatProperties
  <2>4. DOMAIN both = 1 .. Len(both)
    BY <2>3, LenProperties
  <2> HIDE DEF both, n, w
  <2>5. \A i \in 1 .. n : i \in 1 .. n + w /\ i <= n
    BY <2>1, <2>2
  <2>6. \A k \in 1 .. w : n + k \in 1 .. n + w /\ ~(n + k <= n) /\ (n + k) - n = k
    BY <2>1, <2>2
  <2> QED
    BY <2>1, <2>2, <2>3, <2>4, <2>5, <2>6
<1> HIDE DEF both, n, w
<1>2. \A x : Width(x) \in {1, 3, 6}
  BY DEF Width
<1>3. ASSUME NEW i \in 1 .. n
      PROVE  i \in Starts(both) <=> i \in Starts(text)
  <2> DEFINE v == Width(text[i].of)
  <2>1. v \in {1, 3, 6}
    BY <1>2
  <2>2. i \in Starts(both) <=>
          /\ i + v - 1 <= n + w
          /\ \A k \in 1 .. v : both[i + k - 1] = [of |-> text[i].of, nth |-> k]
    BY <1>1 DEF Starts
  <2>3. i \in Starts(text) <=>
          /\ i + v - 1 <= n
          /\ \A k \in 1 .. v : text[i + k - 1] = [of |-> text[i].of, nth |-> k]
    BY <1>1 DEF Starts, n
  <2> HIDE DEF v
  <2>4. CASE i + v - 1 <= n
    <3>1. \A k \in 1 .. v : both[i + k - 1] = text[i + k - 1]
      BY <1>1, <2>1, <2>4
    <3>2. i + v - 1 <= n + w
      BY <1>1, <2>1, <2>4
    <3> QED
      BY <2>2, <2>3, <2>4, <3>1, <3>2
  <2>5. CASE i + v - 1 > n
    <3> DEFINE k == n + 2 - i
    <3>1. k \in 2 .. v /\ i + k - 1 = n + 1
      BY <1>1, <2>1, <2>5
    <3>2. both[n + 1] = [of |-> c, nth |-> 1]
      BY <1>1
    <3>3. ~ (both[n + 1] = [of |-> text[i].of, nth |-> k])
      BY <3>1, <3>2
    <3> HIDE DEF k
    <3> QED
      BY <1>1, <2>1, <2>2, <2>3, <2>5, <3>1, <3>3
  <2> QED
    BY <1>1, <2>1, <2>4, <2>5
<1>4. n + 1 \in Starts(both)
  <2>1. both[n + 1].of = c /\ (n + 1) + w - 1 <= n + w
    <3>1. 1 \in 1 .. w
      BY <1>1
    <3>2. both[n + 1] = [of |-> c, nth |-> 1]
      BY <1>1, <3>1
    <3> QED
      BY <1>1, <3>2
  <2>2. \A k \in 1 .. w : both[(n + 1) + k - 1] = [of |-> c, nth |-> k]
    BY <1>1
  <2> QED
    BY <1>1, <2>1, <2>2 DEF Starts, w
<1>5. ASSUME NEW j \in 2 .. w
      PROVE  n + j \notin Starts(both)
  <2>1. both[n + j].of = c /\ both[n + j].nth = j /\ n + j \in DOMAIN both
    <3>1. j \in 1 .. w
      BY <1>1
    <3>2. both[n + j] = [of |-> c, nth |-> j]
      BY <1>1, <3>1
    <3> QED
      BY <1>1, <3>1, <3>2
  <2>2. both[(n + j) + 1 - 1] # [of |-> c, nth |-> 1]
    BY <1>1, <2>1
  <2>3. 1 \in 1 .. w
    BY <1>1
  <2> QED
    BY <2>1, <2>2, <2>3 DEF Starts, w
<1>6. /\ Starts(text) \subseteq 1 .. n /\ Starts(both) \subseteq 1 .. n + w
  BY <1>1 DEF Starts
<1>7. ASSUME NEW i \in Starts(both)
      PROVE  i \in Starts(text) \cup {n + 1}
  <2>1. i \in 1 .. n \/ i = n + 1 \/ \E j \in 2 .. w : i = n + j
    <3>1. i \in 1 .. n + w
      BY <1>6
    <3>2. i > n + 1 => i - n \in 2 .. w /\ i = n + (i - n)
      BY <1>1, <3>1
    <3> QED
      BY <1>1, <3>1, <3>2
  <2> QED
    BY <1>3, <1>5, <2>1
<1> QED
  BY <1>3, <1>4, <1>6, <1>7 DEF both, n

\* The pieces of a character: itself, and nothing for its further symbols.
Pad(c, w) == [k \in 1 .. w |-> IF k = 1 THEN <<c>> ELSE <<>>]

\* There are as many of them as symbols.
LEMMA PadType ==
    ASSUME NEW c \in Decoded, NEW w \in Nat
    PROVE  /\ Pad(c, w) \in Seq(Seq(Decoded)) /\ Len(Pad(c, w)) = w
           /\ \A k \in 1 .. w : Pad(c, w)[k] = IF k = 1 THEN <<c>> ELSE <<>>
<1>1. <<c>> \in Seq(Decoded) /\ <<>> \in Seq(Decoded)
  OBVIOUS
<1>2. Pad(c, w) \in [1 .. w -> Seq(Decoded)]
  BY <1>1 DEF Pad
<1> QED
  BY <1>2 DEF Pad

\* Put together, they are the character.
LEMMA FlattenPad ==
    ASSUME NEW s \in Seq(Seq(Decoded)), NEW c \in Decoded
    PROVE  \A w \in Nat : w # 0 => FlattenSeq(s \o Pad(c, w)) = FlattenSeq(s) \o <<c>>
<1> DEFINE T == {w \in Nat : w # 0 => FlattenSeq(s \o Pad(c, w)) = FlattenSeq(s) \o <<c>>}
<1>1. 0 \in T
  OBVIOUS
<1>2. ASSUME NEW w \in Nat, w \in T
      PROVE  w + 1 \in T
  <2> DEFINE x == IF w = 0 THEN <<c>> ELSE <<>>
  <2>1. x \in Seq(Decoded)
    OBVIOUS
  <2>2. s \o Pad(c, w + 1) = Append(s \o Pad(c, w), x)
    <3>1. /\ Pad(c, w) \in Seq(Seq(Decoded)) /\ Len(Pad(c, w)) = w
          /\ \A k \in 1 .. w : Pad(c, w)[k] = IF k = 1 THEN <<c>> ELSE <<>>
      BY PadType
    <3>2. /\ Pad(c, w + 1) \in Seq(Seq(Decoded)) /\ Len(Pad(c, w + 1)) = w + 1
          /\ \A k \in 1 .. w + 1 : Pad(c, w + 1)[k] = IF k = 1 THEN <<c>> ELSE <<>>
      BY PadType
    <3>3. /\ Append(Pad(c, w), x) \in Seq(Seq(Decoded)) /\ Len(Append(Pad(c, w), x)) = w + 1
          /\ \A k \in 1 .. w : Append(Pad(c, w), x)[k] = Pad(c, w)[k]
          /\ Append(Pad(c, w), x)[w + 1] = x
      BY <2>1, <3>1, AppendProperties
    <3>4. Pad(c, w + 1) = Append(Pad(c, w), x)
      <4>1. ASSUME NEW k \in 1 .. w + 1
            PROVE  Pad(c, w + 1)[k] = Append(Pad(c, w), x)[k]
        <5>1. CASE k \in 1 .. w
          BY <3>1, <3>2, <3>3, <5>1
        <5>2. CASE k = w + 1
          BY <3>2, <3>3, <5>2
        <5>3. k \in 1 .. w \/ k = w + 1
          OBVIOUS
        <5> QED
          BY <5>1, <5>2, <5>3
      <4> QED
        BY <3>2, <3>3, <4>1, SeqEqual
    <3>5. s \o Append(Pad(c, w), x) = Append(s \o Pad(c, w), x)
      <4> HIDE DEF x
      <4>1. /\ Append(Pad(c, w), x) = Pad(c, w) \o <<x>>
            /\ Append(s \o Pad(c, w), x) = (s \o Pad(c, w)) \o <<x>>
            /\ <<x>> \in Seq(Seq(Decoded))
        BY <2>1, <3>1, AppendIsConcat, ConcatProperties
      <4> QED
        BY <3>1, <4>1, ConcatAssociative
    <3> QED
      BY <3>4, <3>5
  <2>3. s \o Pad(c, w) \in Seq(Seq(Decoded))
    BY PadType, ConcatProperties
  <2>4. FlattenSeq(s \o Pad(c, w + 1)) = FlattenSeq(s \o Pad(c, w)) \o x
    BY <2>1, <2>2, <2>3, FlattenAppend
  <2>5. CASE w = 0
    <3>1. Pad(c, w) = <<>>
      BY <2>5 DEF Pad
    <3>2. s \o Pad(c, w) = s
      BY <3>1, ConcatEmptySeq
    <3>3. x = <<c>>
      BY <2>5
    <3> QED
      BY <2>4, <3>2, <3>3
  <2>6. CASE w # 0
    <3>1. FlattenSeq(s) \in Seq(Decoded)
      BY <2>1, FlattenAppend
    <3>2. FlattenSeq(s) \o <<c>> \in Seq(Decoded)
      BY <3>1, ConcatProperties
    <3>3. FlattenSeq(s \o Pad(c, w)) = FlattenSeq(s) \o <<c>>
      BY <1>2, <2>6
    <3> QED
      BY <2>4, <2>6, <3>2, <3>3, ConcatEmptySeq
  <2> QED
    BY <2>5, <2>6
<1> HIDE DEF T
<1>3. Nat \subseteq T
  BY <1>1, <1>2, Induction
<1> QED
  BY <1>3 DEF T

\* A character added at the end adds its pieces and changes no other.
LEMMA PiecesAppend ==
    ASSUME NEW text \in Seq(Symbol), NEW c \in Char
    PROVE  Pieces(text \o Symbols(c)) = Pieces(text) \o Pad(c, Width(c))
<1> DEFINE both == text \o Symbols(c)
           n == Len(text)
           w == Width(c)
<1>1. /\ n \in Nat /\ w \in {1, 3, 6} /\ DOMAIN text = 1 .. n
      /\ both \in Seq(Symbol) /\ Len(both) = n + w
      /\ \A i \in 1 .. n : both[i] = text[i]
      /\ both[n + 1].of = c
  <2>1. /\ Symbols(c) \in Seq(Symbol) /\ Len(Symbols(c)) = w /\ w \in {1, 3, 6}
        /\ Symbols(c)[1].of = c
    <3>1. 1 \in 1 .. w /\ w \in {1, 3, 6}
      BY SymbolsType
    <3>2. Symbols(c)[1] = [of |-> c, nth |-> 1]
      BY <3>1, SymbolsType
    <3> QED
      BY <3>1, <3>2, SymbolsType
  <2> QED
    BY <2>1, ConcatProperties, LenProperties
<1>2. Starts(both) = Starts(text) \cup {n + 1}
  BY StartsAppend
<1> HIDE DEF both, n, w
<1>3. Starts(text) \subseteq 1 .. n
  BY <1>1 DEF Starts
<1>4. \A i \in 1 .. n : i \in Starts(both) <=> i \in Starts(text)
  BY <1>1, <1>2
<1>5. \A i \in Starts(text) : i + Width(text[i].of) - 1 <= n
  BY DEF Starts, n
<1>6. Covered(both) = Covered(text) \cup (n + 1 .. n + w)
  <2>1. \A i \in Starts(text) : both[i].of = text[i].of
    BY <1>1, <1>3
  <2>2. Width(both[n + 1].of) = w /\ (n + 1) + w - 1 = n + w
    BY <1>1 DEF w
  <2> QED
    BY <1>2, <2>1, <2>2 DEF Covered
<1>7. \A i \in 1 .. n : i \in Covered(both) <=> i \in Covered(text)
  BY <1>1, <1>6
<1>8. ASSUME NEW i \in 1 .. n
      PROVE  Piece(both, i) = Piece(text, i)
  BY <1>1, <1>4, <1>7 DEF Piece
<1>9. ASSUME NEW k \in 1 .. w
      PROVE  Piece(both, n + k) = IF k = 1 THEN <<c>> ELSE <<>>
  <2>1. n + k \in Covered(both)
    BY <1>1, <1>6
  <2>2. n + k \in Starts(both) <=> k = 1
    BY <1>1, <1>2, <1>3
  <2> QED
    BY <1>1, <2>1, <2>2 DEF Piece
<1> DEFINE right == Pieces(text) \o Pad(c, w)
<1>10. /\ right \in Seq(Seq(Decoded)) /\ Len(right) = n + w
       /\ \A i \in 1 .. n : right[i] = Piece(text, i)
       /\ \A k \in 1 .. w : right[n + k] = IF k = 1 THEN <<c>> ELSE <<>>
  <2>1. /\ Pieces(text) \in Seq(Seq(Decoded)) /\ Len(Pieces(text)) = n
        /\ \A i \in 1 .. n : Pieces(text)[i] = Piece(text, i)
    BY PiecesType DEF n
  <2>2. /\ Pad(c, w) \in Seq(Seq(Decoded)) /\ Len(Pad(c, w)) = w
        /\ \A k \in 1 .. w : Pad(c, w)[k] = IF k = 1 THEN <<c>> ELSE <<>>
    <3>1. c \in Decoded /\ w \in Nat
      BY <1>1 DEF Decoded
    <3> QED
      BY <3>1, PadType
  <2>3. /\ right \in Seq(Seq(Decoded)) /\ Len(right) = n + w
        /\ \A i \in 1 .. n + w : right[i] = IF i <= n THEN Pieces(text)[i] ELSE Pad(c, w)[i - n]
    <3>1. /\ right \in Seq(Seq(Decoded)) /\ Len(right) = Len(Pieces(text)) + Len(Pad(c, w))
          /\ \A i \in 1 .. Len(Pieces(text)) + Len(Pad(c, w)) :
                right[i] = IF i <= Len(Pieces(text)) THEN Pieces(text)[i]
                           ELSE Pad(c, w)[i - Len(Pieces(text))]
      BY <2>1, <2>2, ConcatProperties
    <3> QED
      BY <2>1, <2>2, <3>1
  <2> HIDE DEF right
  <2>4. \A i \in 1 .. n : i \in 1 .. n + w /\ i <= n
    BY <1>1
  <2>5. \A k \in 1 .. w : n + k \in 1 .. n + w /\ ~(n + k <= n) /\ (n + k) - n = k
    BY <1>1
  <2>6. ASSUME NEW i \in 1 .. n
        PROVE  right[i] = Piece(text, i)
    BY <2>1, <2>3, <2>4
  <2>7. ASSUME NEW k \in 1 .. w
        PROVE  right[n + k] = IF k = 1 THEN <<c>> ELSE <<>>
    BY <2>2, <2>3, <2>5
  <2> QED
    BY <2>3, <2>6, <2>7
<1> HIDE DEF right
<1>11. /\ Pieces(both) \in Seq(Seq(Decoded)) /\ Len(Pieces(both)) = n + w
       /\ \A i \in 1 .. n + w : Pieces(both)[i] = Piece(both, i)
  BY <1>1, PiecesType
<1>12. ASSUME NEW i \in 1 .. n + w
       PROVE  Pieces(both)[i] = right[i]
  <2>1. CASE i \in 1 .. n
    BY <1>8, <1>10, <1>11, <2>1
  <2>2. CASE i \notin 1 .. n
    <3>1. i - n \in 1 .. w /\ i = n + (i - n)
      BY <1>1, <2>2
    <3> QED
      BY <1>9, <1>10, <1>11, <3>1
  <2> QED
    BY <2>1, <2>2
<1>13. Pieces(both) = right
  BY <1>10, <1>11, <1>12, SeqEqual
<1> QED
  BY <1>13 DEF both, right, w

\* No name is changed by quote() and unquote().
LEMMA UnquoteQuote ==
    ASSUME NEW name \in Seq(Char)
    PROVE  Unquote(Quote(name)) = name
<1> DEFINE T == {u \in Seq(Char) : Unquote(Quote(u)) = u}
<1>1. <<>> \in T
  <2>1. Pieces(<<>>) = <<>>
    BY DEF Pieces
  <2>2. FlattenSeq(<<>>) = <<>>
    BY DEF FlattenSeq
  <2> QED
    BY <2>1, <2>2, QuoteEmpty, UnquotePieces
<1>2. ASSUME NEW u \in Seq(Char), NEW c \in Char, u \in T
      PROVE  Append(u, c) \in T
  <2>1. Quote(u) \in Seq(Symbol) /\ Quote(Append(u, c)) = Quote(u) \o Symbols(c)
    BY QuoteAppend
  <2>2. Pieces(Quote(u) \o Symbols(c)) = Pieces(Quote(u)) \o Pad(c, Width(c))
    BY <2>1, PiecesAppend
  <2>3. Pieces(Quote(u)) \in Seq(Seq(Decoded)) /\ c \in Decoded /\ Width(c) \in Nat /\ Width(c) # 0
    <3>1. Width(c) \in {1, 3, 6} /\ c \in Decoded
      BY SymbolsType DEF Decoded
    <3> QED
      BY <2>1, <3>1, PiecesType
  <2>4. FlattenSeq(Pieces(Quote(u)) \o Pad(c, Width(c))) = FlattenSeq(Pieces(Quote(u))) \o <<c>>
    BY <2>3, FlattenPad
  <2>5. Unquote(Quote(Append(u, c))) = Unquote(Quote(u)) \o <<c>>
    BY <2>1, <2>2, <2>4, UnquotePieces
  <2> QED
    BY <1>2, <2>5, AppendIsConcat, AppendProperties
<1> HIDE DEF T
<1>3. Seq(Char) \subseteq T
  BY <1>1, <1>2, SeqInduction
<1> QED
  BY <1>3 DEF T
================================================================================
