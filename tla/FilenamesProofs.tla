---------------------------- MODULE FilenamesProofs ----------------------------
(***************************************************************************)
(* Proofs about Filenames, for every name and every pair of limits: what   *)
(* is recorded fits, is the longest start of the name, stays the same when *)
(* it is uploaded again and is read back from the header. A recorded name  *)
(* is Plain: a last component of a path is its own last component.         *)
(***************************************************************************)
EXTENDS QuoteProofs

\* What a recorded name looks like: it has no separator and is no path syntax.
Flatname(w) == w \in Seq(Char) /\ \A i \in 1 .. Len(w) : w[i] # Sep
Plain(w) == Flatname(w) /\ w # <<>> /\ w # <<Dot>> /\ w # <<Dot, Dot>>

-------------------------------------------------------------------------------
(* Paths.                                                                  *)

\* Every non-empty set of numbers up to a bound has a greatest element.
LEMMA Largest ==
    ASSUME NEW n \in Nat, NEW T \in SUBSET (0 .. n), T # {}
    PROVE  \E m \in T : \A k \in T : k <= m
<1> DEFINE U == {n - k : k \in T}
<1>1. U \in SUBSET Nat /\ U # {}
  <2>1. PICK k : k \in T
    OBVIOUS
  <2>2. n - k \in U
    BY <2>1
  <2>3. \A j \in T : n - j \in Nat
    OBVIOUS
  <2> QED
    BY <2>2, <2>3
<1>2. PICK u \in U : \A v \in U : u <= v
  BY <1>1, Smallest
<1>3. PICK m \in T : u = n - m
  BY <1>2
<1>4. ASSUME NEW k \in T
      PROVE  k <= m
  <2>1. n - m <= n - k
    BY <1>2, <1>3
  <2> QED
    BY <2>1
<1> QED
  BY <1>4

\* A part of a sequence.
LEMMA PartOf ==
    ASSUME NEW S, NEW w \in Seq(S), NEW i \in Nat, i >= 1, NEW j \in Int, j <= Len(w)
    PROVE  /\ SubSeq(w, i, j) \in Seq(S)
           /\ Len(SubSeq(w, i, j)) = IF i <= j THEN j - i + 1 ELSE 0
           /\ \A k \in 1 .. j - i + 1 : SubSeq(w, i, j)[k] = w[i + k - 1]
<1>1. \A k \in i .. j : w[k] \in S
  BY LenProperties, ElementOfSeq
<1> QED
  BY <1>1, SubSeqProperties

\* A part of a name without separators is one.
LEMMA PartFlat ==
    ASSUME NEW w, Flatname(w), NEW i \in Nat, i >= 1, NEW j \in Int, j <= Len(w)
    PROVE  Flatname(SubSeq(w, i, j))
<1> DEFINE p == SubSeq(w, i, j)
<1>1. w \in Seq(Char) /\ Len(w) \in Nat
  BY LenProperties DEF Flatname
<1>2. /\ p \in Seq(Char)
      /\ Len(p) = IF i <= j THEN j - i + 1 ELSE 0
      /\ \A k \in 1 .. j - i + 1 : p[k] = w[i + k - 1]
  BY <1>1, PartOf
<1> HIDE DEF p
<1>3. ASSUME NEW k \in 1 .. Len(p)
      PROVE  p[k] # Sep
  <2>1. k \in 1 .. j - i + 1 /\ i + k - 1 \in 1 .. Len(w)
    BY <1>1, <1>2
  <2> QED
    BY <1>2, <2>1 DEF Flatname
<1> QED
  BY <1>2, <1>3 DEF Flatname, p

\* A path without its drive is a part of it.
LEMMA WithoutDriveType ==
    ASSUME NEW path \in Seq(Char)
    PROVE  /\ WithoutDrive(path) \in Seq(Char)
           /\ Flatname(path) => \/ WithoutDrive(path) = path
                                \/ WithoutDrive(path) = SubSeq(path, 3, Len(path))
<1> DEFINE later == {i \in 3 .. Len(path) : path[i] = Sep}
           second == {i \in later : Cardinality({j \in later : j <= i}) = 2}
           unc == Len(path) >= 2 /\ path[1] = Sep /\ path[2] = Sep
<1>0. Len(path) \in Nat
  BY LenProperties
<1>1. WithoutDrive(path) = IF unc
                           THEN IF second = {} THEN <<>>
                                ELSE SubSeq(path, 1 + CHOOSE i \in second : TRUE, Len(path))
                           ELSE IF Len(path) >= 2 /\ path[1] # Sep /\ path[2] = Colon
                                THEN SubSeq(path, 3, Len(path))
                                ELSE path
  BY DEF WithoutDrive
<1>2. second # {} => (CHOOSE i \in second : TRUE) \in 3 .. Len(path)
  OBVIOUS
<1>3. Flatname(path) => ~unc
  BY <1>0 DEF Flatname
<1> HIDE DEF second, unc
<1>4. CASE unc
  <2>1. CASE second = {}
    BY <1>1, <1>3, <1>4, <2>1
  <2>2. CASE second # {}
    <3>1. PICK i \in 3 .. Len(path) : WithoutDrive(path) = SubSeq(path, 1 + i, Len(path))
      BY <1>1, <1>2, <1>4, <2>2
    <3>2. SubSeq(path, 1 + i, Len(path)) \in Seq(Char)
      BY <1>0, PartOf
    <3> QED
      BY <1>3, <1>4, <3>1, <3>2
  <2> QED
    BY <2>1, <2>2
<1>5. CASE ~unc
  <2>1. SubSeq(path, 3, Len(path)) \in Seq(Char)
    BY <1>0, PartOf
  <2> QED
    BY <1>1, <1>5, <2>1
<1> QED
  BY <1>4, <1>5

\* Where a component may lie in a path.
Component(path, i, j) ==
    /\ \A k \in i .. j : path[k] # Sep
    /\ i > 1 => path[i - 1] = Sep
    /\ j < Len(path) => path[j + 1] = Sep
    /\ SubSeq(path, i, j) # <<Dot>>
Spans(path) ==
    {s \in (1 .. Len(path)) \X (1 .. Len(path)) : s[1] <= s[2] /\ Component(path, s[1], s[2])}
LastSpan(path) == CHOOSE s \in Spans(path) : \A t \in Spans(path) : t[1] <= s[1]

\* The last component is empty, or what stands in the last such place.
LEMMA LastComponentIs ==
    ASSUME NEW path \in Seq(Char)
    PROVE  \/ Spans(path) = {} /\ LastComponent(path) = <<>>
           \/ \E s \in Spans(path) : LastComponent(path) = SubSeq(path, s[1], s[2])
<1>1. LastComponent(path) = IF Spans(path) = {} THEN <<>>
                            ELSE SubSeq(path, LastSpan(path)[1], LastSpan(path)[2])
  BY Zenon DEF LastComponent, Spans, LastSpan, Component
<1>2. ASSUME Spans(path) # {}
      PROVE  LastSpan(path) \in Spans(path)
  <2> DEFINE starts == {s[1] : s \in Spans(path)}
  <2>1. Len(path) \in Nat
    BY LenProperties
  <2>2. starts \in SUBSET (0 .. Len(path)) /\ starts # {}
    BY <1>2, <2>1 DEF Spans
  <2>3. PICK m \in starts : \A k \in starts : k <= m
    BY <2>1, <2>2, Largest
  <2>4. PICK s \in Spans(path) : s[1] = m
    BY <2>3
  <2>5. \A t \in Spans(path) : t[1] <= s[1]
    BY <2>3, <2>4
  <2> QED
    BY <2>4, <2>5 DEF LastSpan
<1> QED
  BY <1>1, <1>2

\* It is a name without separators, and never ".".
LEMMA LastComponentType ==
    ASSUME NEW path \in Seq(Char)
    PROVE  Flatname(LastComponent(path)) /\ LastComponent(path) # <<Dot>>
<1>1. CASE LastComponent(path) = <<>>
  BY <1>1 DEF Flatname
<1>2. ASSUME NEW s \in Spans(path), LastComponent(path) = SubSeq(path, s[1], s[2])
      PROVE  Flatname(LastComponent(path)) /\ LastComponent(path) # <<Dot>>
  <2>1. /\ Len(path) \in Nat /\ s[1] \in 1 .. Len(path) /\ s[2] \in 1 .. Len(path) /\ s[1] <= s[2]
        /\ Component(path, s[1], s[2])
    BY <1>2, LenProperties DEF Spans
  <2> DEFINE p == SubSeq(path, s[1], s[2])
  <2>2. /\ p \in Seq(Char) /\ Len(p) = s[2] - s[1] + 1
        /\ \A k \in 1 .. s[2] - s[1] + 1 : p[k] = path[s[1] + k - 1]
    BY <2>1, PartOf
  <2>3. p # <<Dot>>
    BY <2>1 DEF Component
  <2> HIDE DEF p
  <2>4. ASSUME NEW k \in 1 .. Len(p)
        PROVE  p[k] # Sep
    <3>1. k \in 1 .. s[2] - s[1] + 1 /\ s[1] + k - 1 \in s[1] .. s[2]
      BY <2>1, <2>2
    <3> QED
      BY <2>1, <2>2, <3>1 DEF Component
  <2> QED
    BY <1>2, <2>2, <2>3, <2>4 DEF Flatname, p
<1> QED
  BY <1>1, <1>2, LastComponentIs

\* A name without separators is its own last component.
LEMMA LastComponentSelf ==
    ASSUME NEW w, Flatname(w)
    PROVE  LastComponent(w) = IF w = <<Dot>> THEN <<>> ELSE w
<1>1. w \in Seq(Char) /\ Len(w) \in Nat /\ (Len(w) = 0 => w = <<>>)
  BY LenProperties, EmptySeq DEF Flatname
<1>2. SubSeq(w, 1, Len(w)) = w
  BY <1>1, SubSeqFull
<1>3. ASSUME NEW s \in Spans(w)
      PROVE  s[1] = 1 /\ s[2] = Len(w)
  <2>1. /\ s[1] \in 1 .. Len(w) /\ s[2] \in 1 .. Len(w)
        /\ Component(w, s[1], s[2])
    BY DEF Spans
  <2>2. s[1] > 1 => s[1] - 1 \in 1 .. Len(w)
    BY <1>1, <2>1
  <2>3. s[2] < Len(w) => s[2] + 1 \in 1 .. Len(w)
    BY <1>1, <2>1
  <2> QED
    BY <1>1, <2>1, <2>2, <2>3 DEF Component, Flatname
<1>4. CASE Spans(w) # {}
  <2>1. PICK s \in Spans(w) : LastComponent(w) = SubSeq(w, s[1], s[2])
    BY <1>1, <1>4, LastComponentIs
  <2>2. LastComponent(w) = w
    BY <1>2, <1>3, <2>1
  <2> QED
    BY <1>1, <2>2, LastComponentType
<1>5. CASE Spans(w) = {}
  <2>1. LastComponent(w) = <<>>
    BY <1>1, <1>5, LastComponentIs
  <2>2. CASE w # <<>> /\ w # <<Dot>>
    <3>1. 1 \in 1 .. Len(w) /\ Len(w) \in 1 .. Len(w) /\ 1 <= Len(w)
      BY <1>1, <2>2
    <3>2. Component(w, 1, Len(w))
      <4>1. \A k \in 1 .. Len(w) : w[k] # Sep
        BY DEF Flatname
      <4>2. ~(1 > 1) /\ ~(Len(w) < Len(w))
        BY <1>1
      <4>3. SubSeq(w, 1, Len(w)) # <<Dot>>
        BY <1>2, <2>2, Zenon
      <4> QED
        BY <4>1, <4>2, <4>3, Zenon DEF Component
    <3>3. <<1, Len(w)>> \in Spans(w)
      BY <3>1, <3>2 DEF Spans
    <3> QED
      BY <1>5, <3>3
  <2> QED
    BY <2>1, <2>2
<1> QED
  BY <1>4, <1>5

\* The fallback is such a name, and every name that is recorded is.
LEMMA UsablePlain ==
    ASSUME NEW path \in Seq(Char) \cup {None}
    PROVE  Plain(UsableName(path))
<1>1. Plain(FallbackName)
  <2>1. /\ FallbackName \in Seq(Letter \cup {Dot}) /\ Len(FallbackName) \in 1 .. MaxEncoded
        /\ MaxEncoded \in Nat /\ FallbackName[1] \in Letter /\ Dot \notin Letter
    BY FilenameAssumption
  <2>2. FallbackName \in Seq(Char)
    BY <2>1, SeqMonotonic DEF Char
  <2>3. \A i \in 1 .. Len(FallbackName) : FallbackName[i] # Sep
    <3>1. Sep \notin Letter \cup {Dot}
      BY FilenameAssumption DEF Escaped
    <3> QED
      BY <2>1, <3>1, ElementOfSeq
  <2>4. FallbackName # <<>> /\ FallbackName # <<Dot>> /\ FallbackName # <<Dot, Dot>>
    BY <2>1
  <2> QED
    BY <2>2, <2>3, <2>4 DEF Plain, Flatname
<1> DEFINE base == IF path = None THEN <<>> ELSE BaseName(path)
<1>2. Flatname(base)
  <2>1. CASE path = None
    BY <2>1 DEF Flatname
  <2>2. CASE path # None
    BY <2>2, WithoutDriveType, LastComponentType DEF BaseName
  <2> QED
    BY <2>1, <2>2
<1>3. UsableName(path) = OrFallback(base)
  BY DEF UsableName
<1> HIDE DEF base
<1> QED
  BY <1>1, <1>2, <1>3 DEF OrFallback, Plain

-------------------------------------------------------------------------------
(* Extensions.                                                             *)

\* A name ends with another one.
EndsWith(w, x) == x = <<>> \/ \E k \in 1 .. Len(w) : x = SubSeq(w, k, Len(w))

\* An extension is an end of its name.
LEMMA ExtensionIs ==
    ASSUME NEW w \in Seq(Char)
    PROVE  EndsWith(w, Extension(w))
<1> DEFINE dots == {i \in DOMAIN w : w[i] = Dot /\ \E j \in 1 .. (i - 1) : w[j] # Dot}
           last == {i \in dots : \A j \in DOMAIN w : j > i => w[j] # Dot}
<1>1. Extension(w) = IF last = {} THEN <<>>
                     ELSE SubSeq(w, CHOOSE i \in last : TRUE, Len(w))
  BY DEF Extension
<1>2. DOMAIN w = 1 .. Len(w)
  BY LenProperties
<1>3. last # {} => (CHOOSE i \in last : TRUE) \in 1 .. Len(w)
  BY <1>2
<1> HIDE DEF last
<1> QED
  BY <1>1, <1>3 DEF EndsWith

\* What the code takes for the extension of a name it records is an end of the
\* name, even if the name begins like a path on another drive.
LEMMA SuffixIs ==
    ASSUME NEW w, Flatname(w)
    PROVE  EndsWith(w, Suffix(w))
<1>1. w \in Seq(Char) /\ Len(w) \in Nat
  BY LenProperties DEF Flatname
<1>2. CASE BaseName(w) = w
  BY <1>1, <1>2, ExtensionIs DEF Suffix
<1>3. CASE BaseName(w) = <<>>
  <2>1. EndsWith(<<>>, Extension(<<>>)) /\ Len(<<>>) = 0
    BY ExtensionIs, EmptySeq
  <2> QED
    BY <1>3, <2>1 DEF Suffix, EndsWith
<1>4. CASE BaseName(w) = SubSeq(w, 3, Len(w)) /\ BaseName(w) # <<>>
  <2> DEFINE v == SubSeq(w, 3, Len(w))
             n == Len(w)
  <2>1. n >= 3 /\ v \in Seq(Char) /\ Len(v) = n - 2
    <3>1. v \in Seq(Char) /\ Len(v) = IF 3 <= n THEN n - 3 + 1 ELSE 0
      BY <1>1, PartOf
    <3>2. Len(v) # 0
      BY <1>4, <3>1, EmptySeq
    <3> HIDE DEF v
    <3> QED
      BY <1>1, <3>1, <3>2
  <2>2. EndsWith(v, Extension(v)) /\ Suffix(w) = Extension(v)
    BY <1>4, <2>1, ExtensionIs DEF Suffix
  <2>3. ASSUME NEW k \in 1 .. n - 2
        PROVE  SubSeq(v, k, n - 2) = SubSeq(w, k + 2, n)
    <3>1. 3 \in 1 .. n /\ n \in 1 .. n /\ k \in 1 .. n - 3 + 1 /\ n - 2 \in 1 .. n - 3 + 1
      BY <1>1, <2>1
    <3>2. SubSeq(SubSeq(w, 3, n), k, n - 2) = SubSeq(w, 3 + k - 1, 3 + (n - 2) - 1)
      BY <1>1, <3>1, SubSeqOfSubSeq
    <3>3. 3 + k - 1 = k + 2 /\ 3 + (n - 2) - 1 = n
      BY <1>1
    <3> QED
      BY <3>2, <3>3
  <2>4. \A k \in 1 .. n - 2 : k + 2 \in 1 .. n
    BY <1>1
  <2> HIDE DEF v, n
  <2> QED
    BY <2>1, <2>2, <2>3, <2>4 DEF EndsWith, n
<1>5. BaseName(w) \in {w, <<>>, SubSeq(w, 3, Len(w))}
  <2>1. WithoutDrive(w) \in {w, SubSeq(w, 3, Len(w))}
    BY <1>1, WithoutDriveType
  <2>2. Flatname(WithoutDrive(w))
    <3>1. Flatname(SubSeq(w, 3, Len(w)))
      BY <1>1, PartFlat
    <3> QED
      BY <2>1, <3>1
  <2> QED
    BY <2>1, <2>2, LastComponentSelf DEF BaseName
<1> QED
  BY <1>2, <1>3, <1>4, <1>5

\* A name is what stands before its end, and its end.
LEMMA EndSplits ==
    ASSUME NEW w, Flatname(w), NEW x, EndsWith(w, x)
    PROVE  /\ Flatname(x) /\ Len(x) \in 0 .. Len(w)
           /\ SubSeq(w, 1, Len(w) - Len(x)) \o x = w
<1>1. w \in Seq(Char) /\ Len(w) \in Nat
  BY LenProperties DEF Flatname
<1>2. CASE x = <<>>
  <2>1. Flatname(x) /\ Len(x) = 0
    BY <1>2, EmptySeq DEF Flatname
  <2>2. SubSeq(w, 1, Len(w)) \o <<>> = w
    BY <1>1, SubSeqFull, ConcatEmptySeq
  <2>3. Len(w) - 0 = Len(w)
    BY <1>1
  <2> QED
    BY <1>1, <1>2, <2>1, <2>2, <2>3
<1>3. ASSUME NEW k \in 1 .. Len(w), x = SubSeq(w, k, Len(w))
      PROVE  /\ Flatname(x) /\ Len(x) \in 0 .. Len(w)
             /\ SubSeq(w, 1, Len(w) - Len(x)) \o x = w
  <2>1. Flatname(x)
    BY <1>1, <1>3, PartFlat
  <2>2. Len(x) = Len(w) - k + 1
    BY <1>1, <1>3, PartOf
  <2>3. SubSeq(w, 1, k - 1) \o SubSeq(w, k, Len(w)) = SubSeq(w, 1, Len(w))
    <3> DEFINE m == k - 1
    <3>1. 1 \in 1 .. Len(w) + 1 /\ m \in 1 - 1 .. Len(w) /\ Len(w) \in m .. Len(w)
          /\ m + 1 = k
      BY <1>1
    <3> HIDE DEF m
    <3>2. SubSeq(w, 1, m) \o SubSeq(w, m + 1, Len(w)) = SubSeq(w, 1, Len(w))
      BY <1>1, <3>1, ConcatAdjacentSubSeq
    <3> QED
      BY <3>1, <3>2 DEF m
  <2>4. Len(w) - Len(x) = k - 1 /\ Len(x) \in 0 .. Len(w)
    BY <1>1, <2>2
  <2> QED
    BY <1>1, <1>3, <2>1, <2>3, <2>4, SubSeqFull
<1> QED
  BY <1>2, <1>3 DEF EndsWith

-------------------------------------------------------------------------------
(* Shortening.                                                             *)

\* How long the first n characters are when encoded.
Cost(w, n) == Len(Quote(SubSeq(w, 1, n)))

\* One more character costs what it is wide.
LEMMA CostStep ==
    ASSUME NEW w \in Seq(Char), NEW n \in 0 .. Len(w)
    PROVE  /\ Cost(w, n) \in Nat
           /\ Cost(w, 0) = 0
           /\ n < Len(w) => Cost(w, n + 1) = Cost(w, n) + Width(w[n + 1])
<1>1. Len(w) \in Nat
  BY LenProperties
<1>2. SubSeq(w, 1, n) \in Seq(Char)
  BY <1>1, PartOf
<1>3. Cost(w, n) \in Nat
  BY <1>2, QuoteType, LenProperties DEF Cost
<1>4. Cost(w, 0) = 0
  <2>1. SubSeq(w, 1, 0) = <<>>
    BY SubSeqEmpty
  <2> QED
    BY <2>1, QuoteEmpty, EmptySeq DEF Cost
<1>5. ASSUME n < Len(w)
      PROVE  Cost(w, n + 1) = Cost(w, n) + Width(w[n + 1])
  <2>1. n + 1 \in 1 .. Len(w) /\ n + 1 \in 1 .. Len(w) /\ 1 \in 1 .. Len(w) /\ n + 1 - 1 = n
    BY <1>1, <1>5
  <2>2. w[n + 1] \in Char
    BY <2>1, ElementOfSeq
  <2>3. SubSeq(w, 1, n + 1) = SubSeq(w, 1, n) \o <<w[n + 1]>>
    BY <2>1, SubSeqRecursiveSecond
  <2>4. SubSeq(w, 1, n + 1) = Append(SubSeq(w, 1, n), w[n + 1])
    BY <1>2, <2>2, <2>3, AppendIsConcat
  <2> QED
    BY <1>2, <2>2, <2>4, QuoteAppend DEF Cost
<1> QED
  BY <1>3, <1>4, <1>5

\* A longer start costs at least as much.
LEMMA CostMonotonic ==
    ASSUME NEW w \in Seq(Char), NEW m \in 0 .. Len(w), NEW n \in m .. Len(w)
    PROVE  Cost(w, m) <= Cost(w, n)
<1>1. Len(w) \in Nat /\ n \in 0 .. Len(w)
  BY LenProperties
<1>2. SubSeq(w, 1, m) \o SubSeq(w, m + 1, n) = SubSeq(w, 1, n)
  <2>1. 1 \in 1 .. Len(w) + 1 /\ m \in 0 .. Len(w) /\ m \in 1 - 1 .. Len(w)
    BY <1>1
  <2> QED
    BY <2>1, ConcatAdjacentSubSeq
<1>3. SubSeq(w, 1, m) \in Seq(Char) /\ SubSeq(w, m + 1, n) \in Seq(Char)
  BY <1>1, PartOf
<1>4. Cost(w, n) = Cost(w, m) + Len(Quote(SubSeq(w, m + 1, n)))
  BY <1>2, <1>3, QuoteConcat DEF Cost
<1>5. Cost(w, m) \in Nat /\ Len(Quote(SubSeq(w, m + 1, n))) \in Nat
  BY <1>3, CostStep, QuoteType, LenProperties
<1> QED
  BY <1>1, <1>4, <1>5

\* The stem is cut as late as the budget allows.
LEMMA CutIs ==
    ASSUME NEW stem \in Seq(Char), NEW suffix \in Seq(Char), NEW budget \in Nat
    PROVE  \E m \in 0 .. Len(stem) :
             /\ Cut(stem, suffix, budget) = Quote(SubSeq(stem, 1, m)) \o Quote(suffix)
             /\ Cost(stem, m) <= budget
             /\ \A n \in 0 .. Len(stem) : Cost(stem, n) <= budget => n <= m
<1> DEFINE kept == {k \in 1 .. Len(stem) : Cost(stem, k) <= budget}
           fits == {k \in 0 .. Len(stem) : Cost(stem, k) <= budget}
<1>1. Cut(stem, suffix, budget) = Quote(SubSeq(stem, 1, Cardinality(kept))) \o Quote(suffix)
  BY Zenon DEF Cut, Cost
<1>2. Len(stem) \in Nat
  BY LenProperties
<1>3. 0 \in fits
  BY <1>2, CostStep
<1>4. PICK m \in fits : \A k \in fits : k <= m
  <2>1. fits \in SUBSET (0 .. Len(stem)) /\ fits # {}
    BY <1>3
  <2> QED
    BY <1>2, <2>1, Largest
<1>5. kept = 1 .. m
  <2>1. ASSUME NEW k \in 1 .. m
        PROVE  k \in kept
    <3>1. k \in 0 .. Len(stem) /\ m \in k .. Len(stem)
      BY <1>2, <1>4
    <3>2. Cost(stem, k) <= Cost(stem, m)
      BY <3>1, CostMonotonic
    <3>3. Cost(stem, k) \in Nat /\ Cost(stem, m) \in Nat /\ Cost(stem, m) <= budget
      BY <1>4, <3>1, CostStep
    <3> QED
      BY <1>2, <1>4, <3>2, <3>3
  <2>2. ASSUME NEW k \in kept
        PROVE  k \in 1 .. m
    BY <1>2, <1>4
  <2> QED
    BY <2>1, <2>2
<1>6. Cardinality(kept) = m
  <2>1. m \in Int /\ 1 \in Int
    BY <1>2
  <2>2. Cardinality(1 .. m) = IF 1 > m THEN 0 ELSE m - 1 + 1
    BY <2>1, FS_Interval
  <2>3. m >= 0
    BY <1>2
  <2> HIDE DEF kept
  <2> QED
    BY <1>5, <2>1, <2>2, <2>3
<1> QED
  BY <1>1, <1>4, <1>6

\* The first n characters of a name and its extension.
Start(w, x, n) == SubSeq(w, 1, n) \o x
Fits(name) == Len(Quote(name)) <= MaxEncoded

\* Such a start has no separator either, and its length is the sum.
LEMMA StartType ==
    ASSUME NEW w, Flatname(w), NEW x, Flatname(x), NEW n \in 0 .. Len(w)
    PROVE  /\ Flatname(Start(w, x, n))
           /\ Len(Start(w, x, n)) = n + Len(x)
           /\ Quote(Start(w, x, n)) = Quote(SubSeq(w, 1, n)) \o Quote(x)
           /\ Len(Quote(Start(w, x, n))) = Cost(w, n) + Len(Quote(x))
<1> DEFINE v == SubSeq(w, 1, n)
<1>1. w \in Seq(Char) /\ Len(w) \in Nat /\ x \in Seq(Char) /\ Len(x) \in Nat
  BY LenProperties DEF Flatname
<1>2. v \in Seq(Char) /\ Len(v) = n /\ Flatname(v)
  BY <1>1, PartOf, PartFlat
<1>3. /\ v \o x \in Seq(Char) /\ Len(v \o x) = n + Len(x)
      /\ \A i \in 1 .. n + Len(x) : (v \o x)[i] = IF i <= n THEN v[i] ELSE x[i - n]
  BY <1>1, <1>2, ConcatProperties
<1>4. Quote(v \o x) = Quote(v) \o Quote(x) /\ Len(Quote(v \o x)) = Cost(w, n) + Len(Quote(x))
  BY <1>1, <1>2, QuoteConcat DEF Cost
<1> HIDE DEF v
<1>5. ASSUME NEW i \in 1 .. n + Len(x)
      PROVE  (v \o x)[i] # Sep
  <2>1. CASE i <= n
    <3>1. i \in 1 .. Len(v) /\ (v \o x)[i] = v[i]
      BY <1>1, <1>2, <1>3, <2>1
    <3> QED
      BY <1>2, <3>1 DEF Flatname
  <2>2. CASE ~(i <= n)
    <3>1. i - n \in 1 .. Len(x) /\ (v \o x)[i] = x[i - n]
      BY <1>1, <1>3, <2>2
    <3> QED
      BY <3>1 DEF Flatname
  <2> QED
    BY <2>1, <2>2
<1>6. Flatname(v \o x)
  BY <1>3, <1>5 DEF Flatname
<1> QED
  BY <1>3, <1>4, <1>6 DEF Start, v

\* The extension that is kept is an end of the name and fits.
LEMMA KeptIs ==
    ASSUME NEW w, Flatname(w)
    PROVE  /\ EndsWith(w, KeptSuffix(Suffix(w)))
           /\ KeptSuffix(Suffix(w)) = IF Len(Quote(Suffix(w))) <= MaxExtension
                                      THEN Suffix(w) ELSE <<>>
           /\ Len(Quote(KeptSuffix(Suffix(w)))) \in 0 .. MaxEncoded
<1>1. EndsWith(w, Suffix(w))
  BY SuffixIs
<1>2. Suffix(w) \in Seq(Char)
  BY <1>1, EndSplits DEF Flatname
<1>3. Len(Quote(Suffix(w))) \in Nat
  BY <1>2, QuoteType, LenProperties
<1>4. MaxExtension \in Nat /\ MaxEncoded \in Nat /\ MaxExtension <= MaxEncoded
  BY FilenameAssumption
<1>5. EndsWith(w, <<>>) /\ Len(Quote(<<>>)) = 0
  BY QuoteEmpty, EmptySeq DEF EndsWith
<1> QED
  BY <1>1, <1>3, <1>4, <1>5 DEF KeptSuffix

\* The encoded name is the start of m characters, the longest that fits with
\* the extension.
Longest(w, x, m) ==
    /\ Encode(w) = Quote(Start(w, x, m))
    /\ Fits(Start(w, x, m))
    /\ \A n \in 0 .. Len(w) - Len(x) : Fits(Start(w, x, n)) => n <= m

\* The encoded name is the longest start that fits.
LEMMA EncodeIs ==
    ASSUME NEW w, Flatname(w), NEW x, x = KeptSuffix(Suffix(w))
    PROVE  \E m \in 0 .. Len(w) - Len(x) : Longest(w, x, m)
<1> DEFINE n0 == Len(w) - Len(x)
           stem == SubSeq(w, 1, n0)
<1>1. /\ w \in Seq(Char) /\ Len(w) \in Nat /\ Flatname(x) /\ x \in Seq(Char)
      /\ Len(x) \in 0 .. Len(w) /\ n0 \in 0 .. Len(w) /\ stem \o x = w
      /\ Len(Quote(x)) \in 0 .. MaxEncoded /\ MaxEncoded \in Nat
  <2>1. EndsWith(w, x) /\ Len(Quote(x)) \in 0 .. MaxEncoded /\ MaxEncoded \in Nat
    BY KeptIs, FilenameAssumption
  <2>2. /\ w \in Seq(Char) /\ Len(w) \in Nat /\ Flatname(x) /\ x \in Seq(Char)
        /\ Len(x) \in 0 .. Len(w) /\ stem \o x = w
    BY <2>1, EndSplits, LenProperties DEF Flatname
  <2> QED
    BY <2>1, <2>2
<1>2. Start(w, x, n0) = w /\ \A n \in 0 .. n0 : n <= n0
  BY <1>1 DEF Start
<1>3. CASE Fits(w)
  BY <1>1, <1>2, <1>3 DEF Longest, Encode, Fits
<1>4. CASE ~Fits(w)
  <2> DEFINE budget == MaxEncoded - Len(Quote(x))
  <2>1. stem \in Seq(Char) /\ Len(stem) = n0 /\ budget \in Nat
    BY <1>1, PartOf
  <2>2. Encode(w) = Cut(stem, x, budget)
    BY <1>4 DEF Encode, Fits, Shorten, Stem
  <2> HIDE DEF stem, budget
  <2>3. PICK m \in 0 .. n0 :
           /\ Cut(stem, x, budget) = Quote(SubSeq(stem, 1, m)) \o Quote(x)
           /\ Cost(stem, m) <= budget
           /\ \A n \in 0 .. n0 : Cost(stem, n) <= budget => n <= m
    BY <1>1, <2>1, CutIs
  <2> HIDE DEF n0
  <2>4. ASSUME NEW n \in 0 .. n0
        PROVE  /\ SubSeq(stem, 1, n) = SubSeq(w, 1, n)
               /\ Fits(Start(w, x, n)) <=> Cost(stem, n) <= budget
    <3>1. SubSeq(stem, 1, n) = SubSeq(w, 1, n)
      BY <1>1, <2>1, SubSeqOfSubSeq, SubSeqEmpty DEF stem
    <3>2. n \in 0 .. Len(w)
      BY <1>1
    <3>3. Len(Quote(Start(w, x, n))) = Cost(w, n) + Len(Quote(x)) /\ Cost(w, n) \in Nat
      BY <1>1, <3>2, StartType, CostStep
    <3>4. Cost(w, n) = Cost(stem, n)
      BY <3>1 DEF Cost
    <3> QED
      BY <1>1, <3>1, <3>3, <3>4 DEF Fits, budget
  <2>5. m \in 0 .. Len(w)
    BY <1>1
  <2>6. Encode(w) = Quote(Start(w, x, m))
    BY <1>1, <2>2, <2>3, <2>4, <2>5, StartType
  <2> QED
    BY <2>3, <2>4, <2>6 DEF Longest, n0
<1> QED
  BY <1>3, <1>4

\* One character more takes at most six symbols more.
LEMMA OneMore ==
    ASSUME NEW w, Flatname(w), NEW x, Flatname(x), NEW n \in 0 .. Len(w), n < Len(w)
    PROVE  Len(Quote(Start(w, x, n + 1))) <= Len(Quote(Start(w, x, n))) + 6
<1>1. w \in Seq(Char) /\ x \in Seq(Char) /\ Len(w) \in Nat /\ n + 1 \in 1 .. Len(w)
      /\ n + 1 \in 0 .. Len(w)
  BY LenProperties DEF Flatname
<1>2. Cost(w, n + 1) = Cost(w, n) + Width(w[n + 1]) /\ Cost(w, n) \in Nat
  BY <1>1, CostStep
<1>3. Width(w[n + 1]) \in {1, 3, 6}
  BY DEF Width
<1>4. Len(Quote(x)) \in Nat
  BY <1>1, QuoteType, LenProperties
<1>5. /\ Len(Quote(Start(w, x, n))) = Cost(w, n) + Len(Quote(x))
      /\ Len(Quote(Start(w, x, n + 1))) = Cost(w, n + 1) + Len(Quote(x))
  BY <1>1, StartType
<1> QED
  BY <1>2, <1>3, <1>4, <1>5

\* What is only path syntax is short.
LEMMA SyntaxIsShort ==
    ASSUME NEW w \in {<<>>, <<Dot>>, <<Dot, Dot>>}
    PROVE  Len(Quote(w)) \in 0 .. 2
<1>1. Dot \in Char /\ Width(Dot) = 1
  BY DEF Char, Width
<1>2. Quote(<<>>) = <<>> /\ Len(Quote(<<>>)) = 0
  BY QuoteEmpty, EmptySeq
<1>3. <<>> \in Seq(Char) /\ <<Dot>> \in Seq(Char)
  BY <1>1
<1>4. Append(<<>>, Dot) = <<Dot>> /\ Append(<<Dot>>, Dot) = <<Dot, Dot>>
  <2>1. <<>> \in Seq({Dot}) /\ <<Dot>> \in Seq({Dot}) /\ <<Dot, Dot>> \in Seq({Dot})
    OBVIOUS
  <2>2. Len(<<>>) = 0 /\ Len(<<Dot>>) = 1 /\ <<Dot>>[1] = Dot
        /\ Len(<<Dot, Dot>>) = 2 /\ <<Dot, Dot>>[1] = Dot /\ <<Dot, Dot>>[2] = Dot
    OBVIOUS
  <2>3. Append(<<>>, Dot) = <<Dot>>
    OBVIOUS
  <2>4. Append(<<Dot>>, Dot) = <<Dot, Dot>>
    <3>1. Append(<<Dot>>, Dot) \in Seq({Dot}) /\ Len(Append(<<Dot>>, Dot)) = 2
          /\ Append(<<Dot>>, Dot)[1] = Dot /\ Append(<<Dot>>, Dot)[2] = Dot
      BY <2>1, <2>2, AppendProperties
    <3>2. \A i \in 1 .. 2 : Append(<<Dot>>, Dot)[i] = <<Dot, Dot>>[i]
      BY <2>2, <3>1
    <3> QED
      BY <2>1, <2>2, <3>1, <3>2, SeqEqual
  <2> QED
    BY <2>3, <2>4
<1>5. Len(Quote(<<Dot>>)) = 1
  <2>1. Len(Quote(Append(<<>>, Dot))) = Len(Quote(<<>>)) + Width(Dot)
    BY <1>1, <1>3, QuoteAppend
  <2>2. Len(Quote(<<Dot>>)) = 0 + 1
    BY <1>1, <1>2, <1>4, <2>1, Zenon
  <2> QED
    BY <2>2
<1>6. Len(Quote(<<Dot, Dot>>)) = 2
  <2>1. Len(Quote(Append(<<Dot>>, Dot))) = Len(Quote(<<Dot>>)) + Width(Dot)
    BY <1>1, <1>3, QuoteAppend
  <2>2. Len(Quote(<<Dot, Dot>>)) = 1 + 1
    BY <1>1, <1>4, <1>5, <2>1, Zenon
  <2> QED
    BY <2>2
<1> QED
  BY <1>2, <1>5, <1>6

\* Shortening a name leaves more than path syntax.
LEMMA ShortenedPlain ==
    ASSUME NEW w, Plain(w), NEW x, x = KeptSuffix(Suffix(w)),
           NEW m \in 0 .. Len(w) - Len(x), Longest(w, x, m)
    PROVE  Plain(Start(w, x, m))
<1>1. /\ Flatname(w) /\ Flatname(x) /\ Len(w) \in Nat /\ Len(x) \in 0 .. Len(w)
      /\ SubSeq(w, 1, Len(w) - Len(x)) \o x = w
  <2>1. Flatname(w) /\ EndsWith(w, x)
    BY KeptIs DEF Plain
  <2> QED
    BY <2>1, EndSplits, LenProperties DEF Flatname
<1>2. m \in 0 .. Len(w)
  BY <1>1
<1>3. Flatname(Start(w, x, m))
  BY <1>1, <1>2, StartType
<1>4. CASE m = Len(w) - Len(x)
  BY <1>1, <1>4 DEF Start
<1>5. CASE m # Len(w) - Len(x)
  <2>1. m < Len(w) /\ m + 1 \in 0 .. Len(w) - Len(x) /\ ~(m + 1 <= m) /\ m + 1 \in 0 .. Len(w)
    <3>1. ASSUME NEW a \in Nat, NEW b \in 0 .. a, NEW k \in 0 .. a - b, k # a - b
          PROVE  k < a /\ k + 1 \in 0 .. a - b /\ ~(k + 1 <= k) /\ k + 1 \in 0 .. a
      BY <3>1
    <3>2. Len(w) \in Nat /\ Len(x) \in 0 .. Len(w)
      BY <1>1, Zenon
    <3> QED
      BY <1>5, <3>1, <3>2, Zenon
  <2>2. ~Fits(Start(w, x, m + 1))
    BY <2>1 DEF Longest
  <2>3. Len(Quote(Start(w, x, m + 1))) <= Len(Quote(Start(w, x, m))) + 6
    BY <1>1, <1>2, <2>1, OneMore
  <2>4. Len(Quote(Start(w, x, m + 1))) \in Nat
    <3>1. Start(w, x, m + 1) \in Seq(Char)
      BY <1>1, <2>1, StartType DEF Flatname
    <3> QED
      BY <3>1, QuoteType, LenProperties
  <2>5. 8 <= MaxEncoded /\ MaxEncoded \in Nat
    BY FilenameAssumption
  <2>6. ~(Len(Quote(Start(w, x, m))) \in 0 .. 2)
    <3>1. ASSUME NEW k \in Nat, NEW l \in 0 .. 2, k <= l + 6
          PROVE  k <= MaxEncoded
      BY <2>5, <3>1
    <3>2. ~(Len(Quote(Start(w, x, m + 1))) <= MaxEncoded)
      BY <2>2, Zenon DEF Fits
    <3> QED
      BY <2>3, <2>4, <3>1, <3>2, Zenon
  <2> QED
    BY <1>3, <2>6, SyntaxIsShort DEF Plain
<1> QED
  BY <1>4, <1>5, Zenon DEF Plain

\* A recorded name is read back.
LEMMA ReadBack ==
    ASSUME NEW name, Plain(name)
    PROVE  /\ DecodeFilename(Quote(name)) = name /\ name \in Seq(Char)
           /\ Quote(name) # None /\ name # None
<1>1. name \in Seq(Char) /\ Quote(name) \in Seq(Symbol) /\ Unquote(Quote(name)) = name
  BY QuoteType, UnquoteQuote DEF Plain, Flatname
<1>2. Quote(name) # None /\ name # None
  BY <1>1, FilenameAssumption DEF Symbol
<1>3. Quote(name) # <<>>
  <2>1. Unquote(Quote(<<>>)) = <<>>
    <3>1. <<>> \in Seq(Char)
      OBVIOUS
    <3> QED
      BY <3>1, UnquoteQuote, Zenon
  <2>2. Unquote(<<>>) = <<>>
    BY <2>1, QuoteEmpty
  <2> QED
    BY <1>1, <2>2 DEF Plain
<1> QED
  BY <1>1, <1>2, <1>3 DEF DecodeFilename

\* A recorded name.
Recorded(text) ==
    LET name == DecodeFilename(text)
    IN  Plain(name) /\ text = Quote(name) /\ Fits(name)

\* Whatever was sent, what is recorded is one.
LEMMA RecordedNames ==
    ASSUME NEW path \in Seq(Char) \cup {None}
    PROVE  Recorded(EncodeFilename(path))
<1> DEFINE w == UsableName(path)
           x == KeptSuffix(Suffix(w))
<1>1. Plain(w) /\ Flatname(w)
  BY UsablePlain DEF Plain
<1> HIDE DEF w
<1>2. PICK m \in 0 .. Len(w) - Len(x) : Longest(w, x, m)
  BY <1>1, EncodeIs
<1>3. Plain(Start(w, x, m))
  BY <1>1, <1>2, ShortenedPlain
<1>4. DecodeFilename(Quote(Start(w, x, m))) = Start(w, x, m)
  BY <1>3, ReadBack
<1> QED
  BY <1>2, <1>3, <1>4 DEF Recorded, Longest, EncodeFilename, w

\* Uploading it again records the same, unless it reads like a path.
LEMMA SameAgain ==
    ASSUME NEW name, Plain(name), Fits(name), WithoutDrive(name) = name
    PROVE  EncodeFilename(name) = Quote(name)
<1>1. BaseName(name) = name
  BY LastComponentSelf DEF BaseName, Plain
<1>2. UsableName(name) = name
  BY <1>1, ReadBack DEF UsableName, OrFallback, Plain
<1> QED
  BY <1>2 DEF EncodeFilename, Encode, Fits

-------------------------------------------------------------------------------
(* The states of the specification.                                        *)

\* What the client's form carries: an empty name stands for none.
Sent == IF filename = <<>> THEN None ELSE filename

\* What is recorded is a name that fits; before the second upload it is the
\* name of what the client sent, and after it the client has sent what it was
\* shown.
FInv ==
    /\ filename \in Seq(Char)
    /\ recorded = None => previous = None
    /\ recorded # None => Recorded(recorded)
    /\ recorded # None /\ previous = None => recorded = EncodeFilename(Sent)
    /\ previous # None => /\ Recorded(previous)
                          /\ filename = DecodeFilename(previous)
                          /\ recorded = EncodeFilename(filename)

\* Before anything is recorded it holds.
LEMMA InitF == Init => FInv
BY DEF Init, FInv

\* Every step keeps it.
LEMMA NextF == FInv /\ [Next]_vars => FInv'
<1> SUFFICES ASSUME FInv, [Next]_vars
             PROVE  FInv'
  OBVIOUS
<1>1. CASE UNCHANGED vars
  BY <1>1 DEF FInv, vars, Sent
<1>2. ASSUME NEW c \in Char, Type(c)
      PROVE  FInv'
  BY <1>2, AppendProperties DEF FInv, Type
<1>3. CASE Upload
  <2>1. Sent \in Seq(Char) \cup {None} /\ Sent' = Sent /\ recorded' = EncodeFilename(Sent)
    BY <1>3 DEF FInv, Sent, Upload
  <2>2. Recorded(recorded')
    BY <2>1, RecordedNames
  <2> QED
    BY <1>3, <2>1, <2>2 DEF FInv, Upload
<1>4. CASE UploadAgain
  <2>1. PICK name : Plain(name) /\ recorded = Quote(name)
    BY <1>4 DEF FInv, UploadAgain, Recorded
  <2>2. filename' = name /\ name \in Seq(Char)
    BY <1>4, <2>1, ReadBack DEF UploadAgain
  <2>3. Recorded(recorded')
    BY <1>4, <2>2, RecordedNames DEF UploadAgain
  <2>4. recorded' # None
    BY <2>3, ReadBack DEF Recorded
  <2> QED
    BY <1>4, <2>2, <2>3, <2>4 DEF FInv, UploadAgain
<1>5. CASE Done
  BY <1>1, <1>5 DEF Done
<1> QED
  BY <1>1, <1>2, <1>3, <1>4, <1>5 DEF Next

\* Always.
LEMMA FInvAlways == Spec => []FInv
<1> QED
  BY InitF, NextF, PTL DEF Spec

\* The encoded name stays within its budget, whatever its characters are.
THEOREM FitsCorrect == Spec => []FitsMetadata
<1>1. FInv => FitsMetadata
  BY DEF FInv, FitsMetadata, Recorded, Fits
<1> QED
  BY <1>1, FInvAlways, PTL

\* The client is shown the name it sent, or the longest start that fits.
THEOREM ShortenedCorrect == Spec => []OnlyShortened
<1>1. FInv => OnlyShortened
  <2> SUFFICES ASSUME FInv, recorded # None, previous = None
               PROVE  OnlyShortened
    BY DEF OnlyShortened
  <2> DEFINE base == BaseName(filename)
             name == IF base \in {<<>>, <<Dot, Dot>>} THEN FallbackName ELSE base
             ext == IF Len(Quote(Suffix(name))) <= MaxExtension THEN Suffix(name) ELSE <<>>
  <2>1. filename \in Seq(Char) /\ filename # None
    BY FilenameAssumption DEF FInv
  <2>2. base # <<Dot>>
    BY <2>1, WithoutDriveType, LastComponentType DEF BaseName
  <2>3. filename = <<>> => base = <<>>
    <3>1. <<>> \in Seq(Char) /\ Flatname(<<>>) /\ SubSeq(<<>>, 3, Len(<<>>)) = <<>>
      BY DEF Flatname
    <3>2. WithoutDrive(<<>>) = <<>>
      BY <3>1, WithoutDriveType
    <3> QED
      BY <3>1, <3>2, LastComponentSelf DEF BaseName
  <2>4. UsableName(Sent) = name
    BY <2>1, <2>2, <2>3 DEF UsableName, OrFallback, Sent
  <2>5. Plain(name) /\ Flatname(name)
    <3>1. Sent \in Seq(Char) \cup {None}
      BY <2>1 DEF Sent
    <3> QED
      BY <2>4, <3>1, UsablePlain DEF Plain
  <2>6. OnlyShortened <=> LongestStart(name, ext)
    BY Zenon DEF OnlyShortened
  <2>7. recorded = Encode(name)
    BY <2>4 DEF FInv, EncodeFilename
  <2> HIDE DEF name
  <2>8. ext = KeptSuffix(Suffix(name))
    BY <2>5, KeptIs
  <2> HIDE DEF ext
  <2>9. PICK m \in 0 .. Len(name) - Len(ext) : Longest(name, ext, m)
    BY <2>5, <2>8, EncodeIs
  <2> DEFINE shown == Start(name, ext, m)
  <2>10. Shown = shown
    BY <2>5, <2>7, <2>8, <2>9, ShortenedPlain, ReadBack DEF Shown, Longest
  <2>11. /\ Flatname(ext) /\ Len(name) \in Nat /\ Len(ext) \in 0 .. Len(name)
    <3>1. EndsWith(name, ext) /\ name \in Seq(Char)
      BY <2>5, <2>8, KeptIs DEF Flatname
    <3> QED
      BY <2>5, <3>1, EndSplits, LenProperties
  <2>12. ASSUME NEW n \in 0 .. Len(name) - Len(ext), Fits(Start(name, ext, n))
         PROVE  Len(Start(name, ext, n)) <= Len(shown)
    <3>1. n \in 0 .. Len(name) /\ m \in 0 .. Len(name) /\ n <= m
      BY <2>9, <2>11, <2>12 DEF Longest
    <3>2. Len(Start(name, ext, n)) = n + Len(ext) /\ Len(shown) = m + Len(ext)
      BY <2>5, <2>11, <3>1, StartType
    <3> QED
      BY <2>11, <3>1, <3>2
  <2>13. Fits(shown)
    BY <2>9 DEF Longest
  <2>14. LongestStart(name, ext)
    BY <2>10, <2>12, <2>13 DEF LongestStart, Start, Fits
  <2> QED
    BY <2>6, <2>14
<1> QED
  BY <1>1, FInvAlways, PTL

\* Uploading a drawing again under the name shown keeps the name.
THEOREM UploadAgainCorrect == Spec => []UploadAgainKeepsName
<1>1. FInv => UploadAgainKeepsName
  BY ReadBack, SameAgain DEF FInv, UploadAgainKeepsName, Recorded
<1> QED
  BY <1>1, FInvAlways, PTL

\* Both names of the header can be read back.
THEOREM HeaderCorrect == Spec => []HeaderReadable
<1>1. ASSUME NEW name, Plain(name)
      PROVE  Readable(ContentDisposition(name), name)
  <2> DEFINE quoted == [i \in DOMAIN name |-> Ascii(name[i])]
             header == ContentDisposition(name)
             n == Len(name)
             S == Char \cup Symbol
  <2>1. name \in Seq(Char) /\ n \in Nat /\ DOMAIN name = 1 .. n /\ Quote(name) \in Seq(S)
        /\ \A i \in 1 .. n : name[i] \in Char
    <3>0. name \in Seq(Char)
      BY <1>1, Zenon DEF Plain, Flatname
    <3>1. name \in Seq(Char) /\ Quote(name) \in Seq(Symbol)
      BY <3>0, QuoteType, Zenon
    <3>2. Quote(name) \in Seq(S)
      BY <3>1, SeqMonotonic
    <3> QED
      BY <3>1, <3>2, LenProperties, ElementOfSeq
  <2>2. \A c \in Char : Ascii(c) \in Char \ ({QuoteMark} \cup Accented)
    BY FilenameAssumption DEF Ascii, Char, Escaped
  <2>3. QuoteMark \in Char
    BY DEF Char, Escaped
  <2>4. quoted \in Seq(S) /\ Len(quoted) = n /\ \A i \in 1 .. n : quoted[i] = Ascii(name[i])
    BY <2>1, <2>2
  <2> DEFINE mark == <<QuoteMark>>
             q == Quote(name)
  <2>5. mark \in Seq(S) /\ Len(mark) = 1 /\ mark[1] = QuoteMark
    BY <2>3
  <2>6. header = ((mark \o quoted) \o mark) \o q
    BY Zenon DEF ContentDisposition
  <2> HIDE DEF mark, q, quoted, header, S, n
  <2>7. /\ mark \o quoted \in Seq(S) /\ Len(mark \o quoted) = n + 1
        /\ \A i \in 1 .. n : (mark \o quoted)[i + 1] = quoted[i]
    <3>0. /\ mark \o quoted \in Seq(S) /\ Len(mark \o quoted) = Len(mark) + Len(quoted)
          /\ \A i \in 1 .. Len(mark) + Len(quoted) :
                (mark \o quoted)[i] = IF i <= Len(mark) THEN mark[i] ELSE quoted[i - Len(mark)]
      BY <2>4, <2>5, ConcatProperties, Zenon
    <3>1. /\ mark \o quoted \in Seq(S) /\ Len(mark \o quoted) = 1 + n
          /\ \A i \in 1 .. 1 + n :
                (mark \o quoted)[i] = IF i <= 1 THEN mark[i] ELSE quoted[i - 1]
      BY <2>4, <2>5, <3>0, Zenon
    <3>2. \A i \in 1 .. n : i + 1 \in 1 .. 1 + n /\ ~(i + 1 <= 1) /\ (i + 1) - 1 = i
      BY <2>1
    <3> QED
      BY <2>1, <3>1, <3>2
  <2> DEFINE front == mark \o quoted
             both == front \o mark
  <2> HIDE DEF front
  <2>8. /\ both \in Seq(S) /\ Len(both) = n + 2
        /\ \A i \in 1 .. n : both[i + 1] = quoted[i]
        /\ both[n + 2] = QuoteMark
    <3>0. /\ both \in Seq(S) /\ Len(both) = Len(front) + Len(mark)
          /\ \A i \in 1 .. Len(front) + Len(mark) :
                both[i] = IF i <= Len(front) THEN front[i] ELSE mark[i - Len(front)]
      <4>1. front \in Seq(S)
        BY <2>7 DEF front
      <4> QED
        BY <2>5, <4>1, ConcatProperties, Zenon
    <3>1. /\ both \in Seq(S) /\ Len(both) = n + 1 + 1
          /\ \A i \in 1 .. n + 1 + 1 : both[i] = IF i <= n + 1 THEN front[i] ELSE mark[i - (n + 1)]
      <4>1. Len(front) = n + 1
        BY <2>7 DEF front
      <4> QED
        BY <2>5, <3>0, <4>1, Zenon
    <3>2. \A i \in 1 .. n : i + 1 \in 1 .. n + 1 + 1 /\ i + 1 <= n + 1
      BY <2>1
    <3>3. n + 2 \in 1 .. n + 1 + 1 /\ ~(n + 2 <= n + 1) /\ (n + 2) - (n + 1) = 1
          /\ n + 1 + 1 = n + 2
      BY <2>1
    <3> HIDE DEF both
    <3>4. both[n + 2] = QuoteMark
      BY <2>5, <3>1, <3>3
    <3>5. ASSUME NEW i \in 1 .. n
          PROVE  both[i + 1] = quoted[i]
      BY <2>7, <3>1, <3>2 DEF front
    <3> QED
      BY <3>1, <3>3, <3>4, <3>5
  <2> HIDE DEF both
  <2>9. /\ header \in Seq(S) /\ Len(header) = n + 2 + Len(q) /\ q \in Seq(S) /\ Len(q) \in Nat
        /\ \A i \in 1 .. n + 2 : header[i] = both[i]
        /\ SubSeq(header, n + 3, n + 2 + Len(q)) = q
    <3>0. q \in Seq(S) /\ Len(q) \in Nat
      BY <2>1, LenProperties DEF q
    <3>1. /\ header \in Seq(S) /\ Len(header) = n + 2 + Len(q)
          /\ \A i \in 1 .. n + 2 + Len(q) :
                header[i] = IF i <= n + 2 THEN both[i] ELSE q[i - (n + 2)]
      <4>1. header = both \o q
        BY <2>6 DEF both, front
      <4>2. /\ both \o q \in Seq(S) /\ Len(both \o q) = Len(both) + Len(q)
            /\ \A i \in 1 .. Len(both) + Len(q) :
                  (both \o q)[i] = IF i <= Len(both) THEN both[i] ELSE q[i - Len(both)]
        BY <2>8, <3>0, ConcatProperties, Zenon
      <4> QED
        BY <2>8, <4>1, <4>2, Zenon
    <3>2. ASSUME NEW i \in 1 .. n + 2
          PROVE  header[i] = both[i]
      <4>1. i \in 1 .. n + 2 + Len(q) /\ i <= n + 2
        BY <2>1, <3>0
      <4> QED
        BY <3>1, <4>1
    <3>3. SubSeq(header, n + 3, n + 2 + Len(q)) = q
      <4>1. n + 3 \in Nat /\ n + 3 >= 1 /\ n + 2 + Len(q) \in Int /\ n + 2 + Len(q) <= Len(header)
        BY <2>1, <3>0, <3>1
      <4> DEFINE tail == SubSeq(header, n + 3, n + 2 + Len(q))
      <4>2. /\ tail \in Seq(S)
            /\ Len(tail) = IF n + 3 <= n + 2 + Len(q) THEN (n + 2 + Len(q)) - (n + 3) + 1 ELSE 0
            /\ \A k \in 1 .. (n + 2 + Len(q)) - (n + 3) + 1 : tail[k] = header[n + 3 + k - 1]
        <5> DEFINE i == n + 3
                   j == n + 2 + Len(q)
        <5>1. i \in Nat /\ i >= 1 /\ j \in Int /\ j <= Len(header) /\ header \in Seq(S)
          BY <3>1, <4>1
        <5> HIDE DEF i, j
        <5>2. /\ SubSeq(header, i, j) \in Seq(S)
              /\ Len(SubSeq(header, i, j)) = IF i <= j THEN j - i + 1 ELSE 0
              /\ \A k \in 1 .. j - i + 1 : SubSeq(header, i, j)[k] = header[i + k - 1]
          BY <5>1, PartOf
        <5> QED
          BY <5>2, Zenon DEF i, j
      <4> HIDE DEF tail
      <4>3. Len(tail) = Len(q)
        BY <2>1, <3>0, <4>2
      <4>4. ASSUME NEW k \in 1 .. Len(q)
            PROVE  tail[k] = q[k]
        <5>1. /\ k \in 1 .. (n + 2 + Len(q)) - (n + 3) + 1
              /\ n + 3 + k - 1 \in 1 .. n + 2 + Len(q)
              /\ ~(n + 3 + k - 1 <= n + 2)
              /\ (n + 3 + k - 1) - (n + 2) = k
          BY <2>1, <3>0
        <5>2. tail[k] = header[n + 3 + k - 1]
          BY <4>2, <5>1, Zenon
        <5>3. header[n + 3 + k - 1] = q[(n + 3 + k - 1) - (n + 2)]
          <6> DEFINE i == n + 3 + k - 1
          <6>1. i \in 1 .. n + 2 + Len(q) /\ ~(i <= n + 2)
            BY <5>1
          <6> HIDE DEF i
          <6>2. header[i] = q[i - (n + 2)]
            BY <3>1, <6>1
          <6> QED
            BY <6>2, Zenon DEF i
        <5> QED
          BY <5>1, <5>2, <5>3, Zenon
      <4>5. tail = q
        BY <3>0, <4>2, <4>3, <4>4, SeqEqual
      <4> QED
        BY <4>5 DEF tail
    <3> QED
      BY <3>0, <3>1, <3>2, <3>3
  <2> DEFINE stops(i) == header[i] = QuoteMark /\ \A j \in 2 .. (i - 1) : header[j] # QuoteMark
             end == CHOOSE i \in 2 .. Len(header) : stops(i)
  <2>10. ASSUME NEW i \in 2 .. n + 1
         PROVE  header[i] \in Char \ ({QuoteMark} \cup Accented)
    <3>1. i \in 1 .. n + 2 /\ i - 1 \in 1 .. n /\ (i - 1) + 1 = i
      BY <2>1
    <3>2. header[i] = Ascii(name[i - 1])
      BY <2>4, <2>8, <2>9, <3>1
    <3> QED
      BY <2>1, <2>2, <3>1, <3>2
  <2>11. stops(n + 2) /\ n + 2 \in 2 .. Len(header)
    <3>1. n + 2 \in 1 .. n + 2 /\ (n + 2) - 1 = n + 1 /\ n + 2 \in 2 .. n + 2 + Len(q)
      BY <2>1, <2>9
    <3>2. header[n + 2] = QuoteMark
      BY <2>8, <2>9, <3>1
    <3> QED
      BY <2>9, <2>10, <3>1, <3>2
  <2>12. ASSUME NEW i \in 2 .. Len(header), stops(i)
         PROVE  i = n + 2
    <3>1. ~(i <= n + 1)
      <4>1. i <= n + 1 => i \in 2 .. n + 1
        BY <2>1
      <4> QED
        BY <2>10, <2>12, <4>1
    <3>2. ~(n + 2 <= i - 1)
      <4>1. n + 2 <= i - 1 => n + 2 \in 2 .. (i - 1)
        BY <2>1
      <4> QED
        BY <2>11, <2>12, <4>1
    <3> QED
      BY <2>1, <2>9, <3>1, <3>2
  <2>13. end = n + 2
    <3> HIDE DEF stops
    <3> QED
      BY <2>11, <2>12
  <2>14. Readable(header, name) <=>
           /\ end - 2 = Len(name)
           /\ \A i \in 2 .. (end - 1) : header[i] \notin Accented
           /\ Unquote(SubSeq(header, end + 1, Len(header))) = name
    BY Zenon DEF Readable
  <2> HIDE DEF end, stops
  <2>15. end - 2 = n /\ end - 1 = n + 1 /\ end + 1 = n + 3
    BY <2>1, <2>13
  <2>16. Unquote(q) = name
    <3>1. name \in Seq(Char)
      BY <2>1
    <3> QED
      BY <3>1, UnquoteQuote, Zenon DEF q
  <2>17. Readable(header, name)
    BY <2>9, <2>10, <2>14, <2>15, <2>16 DEF n
  <2> QED
    BY <2>17 DEF header
<1>2. FInv => HeaderReadable
  BY <1>1, ReadBack DEF FInv, HeaderReadable, Recorded, Shown
<1> QED
  BY <1>2, FInvAlways, PTL
================================================================================
