------------------------- MODULE StreamingRestore_proofs -------------------------
(***************************************************************************)
(* Proofs about StreamingRestore, for every alphabet, marker and limit and *)
(* for streams of any length.                                              *)
(***************************************************************************)
EXTENDS StreamingRestore, InductionLemmas, SequenceTheorems

--------------------------------------------------------------------------------
(***************************************************************************)
(* The bytes of a text                                                     *)
(***************************************************************************)
Text == Seq(Characters)

ByteStep(text) ==
    [n \in 1..Len(text) |-> [sum \in Nat |-> sum + Width[text[n]]]]

\* Bytes adds the widths of the characters one after the other.
LEMMA BytesIterates ==
    ASSUME NEW text \in Text
    PROVE  \E f : /\ Iterates(f, 0, ByteStep(text), Len(text))
                  /\ \A n \in 0..Len(text) : f[n] \in Nat
                  /\ Bytes(text) = f[Len(text)]
<1> DEFINE N == Len(text)
           Solves(f) ==
              f = [n \in 0..N |-> IF n = 0 THEN 0 ELSE f[n - 1] + Width[text[n]]]
           sum == CHOOSE f : Solves(f)
<1>1. N \in Nat /\ \A n \in 1..N : Width[text[n]] \in Nat
  BY WidthAssumption DEF Text
<1>2. ByteStep(text) \in [1..N -> [Nat -> Nat]]
  BY <1>1 DEF ByteStep
<1>3. \E f : Solves(f)
  <2>1. PICK f \in [0..N -> Nat] : Iterates(f, 0, ByteStep(text), N)
    BY <1>1, <1>2, RecursionExists
  <2>2. \A n \in 1..N : f[n] = f[n - 1] + Width[text[n]]
    <3>1. \A n \in 1..N : n - 1 \in 0..N
      BY <1>1
    <3>2. QED
      BY <2>1, <3>1 DEF Iterates, ByteStep
  <2>3. \A n \in 0..N :
          f[n] = IF n = 0 THEN 0 ELSE f[n - 1] + Width[text[n]]
    BY <1>1, <2>1, <2>2 DEF Iterates
  <2>4. Solves(f)
    BY <2>1, <2>3
  <2>5. QED
    BY <2>4
<1>4. Solves(sum)
  BY <1>3
<1> HIDE DEF sum
<1>5. \A n \in 0..N : sum[n] = IF n = 0 THEN 0 ELSE sum[n - 1] + Width[text[n]]
  BY <1>4
<1>6. sum[0] = 0 /\ \A n \in 1..N : sum[n] = sum[n - 1] + Width[text[n]]
  BY <1>1, <1>5
<1>7. \A n \in 1..N : sum[n - 1] \in Nat => sum[n] = ByteStep(text)[n][sum[n - 1]]
  BY <1>6 DEF ByteStep
<1>8. /\ \A n \in 0..N : sum[n] \in Nat
      /\ Iterates(sum, 0, ByteStep(text), N)
  BY <1>1, <1>2, <1>6, <1>7, RecursionTyped
<1>9. Bytes(text) = sum[N]
  BY DEF Bytes, sum
<1>10. QED
  BY <1>8, <1>9

\* The number of bytes is a natural number, 0 for the empty text.
LEMMA BytesType ==
    ASSUME NEW text \in Text
    PROVE  Bytes(text) \in Nat /\ (text = <<>> => Bytes(text) = 0)
<1>1. Len(text) \in Nat /\ (text = <<>> => Len(text) = 0)
  BY DEF Text
<1>2. QED
  BY <1>1, BytesIterates DEF Iterates

\* A character adds its width.
LEMMA BytesAppend ==
    ASSUME NEW text \in Text, NEW ch \in Characters
    PROVE  Bytes(Append(text, ch)) = Bytes(text) + Width[ch]
<1> DEFINE N == Len(text)
           more == Append(text, ch)
<1>1. /\ N \in Nat /\ more \in Text /\ Len(more) = N + 1
      /\ more[N + 1] = ch
      /\ \A n \in 1..N : more[n] = text[n]
  BY DEF Text
<1>2. PICK f : /\ Iterates(f, 0, ByteStep(text), N)
               /\ \A n \in 0..N : f[n] \in Nat
               /\ Bytes(text) = f[N]
  BY BytesIterates
<1> HIDE DEF more
<1>3. PICK g : /\ Iterates(g, 0, ByteStep(more), N + 1)
               /\ \A n \in 0..(N + 1) : g[n] \in Nat
               /\ Bytes(more) = g[N + 1]
  BY <1>1, BytesIterates
<1>4. \A n \in 1..N : ByteStep(text)[n] = ByteStep(more)[n]
  BY <1>1 DEF ByteStep
<1>5. g[N + 1] = ByteStep(more)[N + 1][f[N]]
  <2> DEFINE a == ByteStep(text)
             b == ByteStep(more)
  <2>1. /\ N \in Nat
        /\ Iterates(f, 0, a, N) /\ Iterates(g, 0, b, N + 1)
        /\ \A n \in 1..N : a[n] = b[n]
    BY <1>1, <1>2, <1>3, <1>4
  <2> HIDE DEF N, a, b
  <2>2. g[N + 1] = b[N + 1][f[N]]
    BY <2>1, RecursionExtends
  <2>3. QED
    BY <2>2 DEF b
<1>6. ByteStep(more)[N + 1] = [sum \in Nat |-> sum + Width[ch]]
  BY <1>1 DEF ByteStep
<1>7. f[N] \in Nat
  BY <1>1, <1>2
<1>8. QED
  BY <1>2, <1>3, <1>5, <1>6, <1>7 DEF more

--------------------------------------------------------------------------------
(***************************************************************************)
(* Parts of a text, character by character                                 *)
(***************************************************************************)

\* s is found in the text at position j.
FoundAt(text, s, j) ==
    /\ j + Len(s) - 1 =< Len(text)
    /\ \A k \in 1..Len(s) : text[j + k - 1] = s[k]

LEMMA SliceElements ==
    ASSUME NEW text \in Text, NEW i \in Nat \ {0}, NEW j \in Nat,
           i =< j + 1, j =< Len(text)
    PROVE  /\ SubSeq(text, i, j) \in Text
           /\ Len(SubSeq(text, i, j)) = j - i + 1
           /\ \A k \in 1..(j - i + 1) : SubSeq(text, i, j)[k] = text[i + k - 1]
<1>1. i \in Int /\ j \in Int /\ Len(text) \in Nat
  BY DEF Text
<1>2. \A k \in i..j : text[k] \in Characters
  BY <1>1 DEF Text
<1>3. Len(SubSeq(text, i, j)) = IF i =< j THEN j - i + 1 ELSE 0
  BY <1>1, <1>2, SubSeqProperties
<1>4. /\ SubSeq(text, i, j) \in Seq(Characters)
      /\ \A k \in 1..(j - i + 1) : SubSeq(text, i, j)[k] = text[i + k - 1]
  BY <1>1, <1>2, SubSeqProperties
<1>5. QED
  BY <1>1, <1>3, <1>4 DEF Text

LEMMA FromElements ==
    ASSUME NEW text \in Text, NEW i \in 1..(Len(text) + 1)
    PROVE  /\ From(text, i) \in Text
           /\ Len(From(text, i)) = Len(text) - i + 1
           /\ \A k \in 1..(Len(text) - i + 1) :
                 From(text, i)[k] = text[i + k - 1]
<1>1. Len(text) \in Nat /\ i \in Nat \ {0} /\ i =< Len(text) + 1
  BY DEF Text
<1>2. QED
  BY <1>1, SliceElements DEF From

\* Two texts with the same characters are the same text.
LEMMA TextsEqual ==
    ASSUME NEW s \in Text, NEW t \in Text, Len(s) = Len(t),
           \A k \in 1..Len(s) : s[k] = t[k]
    PROVE  s = t
BY SeqEqual DEF Text

LEMMA StartsWithElements ==
    ASSUME NEW text \in Text, NEW s \in Text
    PROVE  StartsWith(text, s) <=> FoundAt(text, s, 1)
<1>1. Len(text) \in Nat /\ Len(s) \in Nat
  BY DEF Text
<1>2. ASSUME Len(s) =< Len(text)
      PROVE  SubSeq(text, 1, Len(s)) = s
               <=> \A k \in 1..Len(s) : text[k] = s[k]
  <2> DEFINE t == SubSeq(text, 1, Len(s))
  <2>1. /\ t \in Text /\ Len(t) = Len(s)
        /\ \A k \in 1..Len(s) : t[k] = text[k]
    <3>1. /\ t \in Text /\ Len(t) = Len(s) - 1 + 1
          /\ \A k \in 1..(Len(s) - 1 + 1) : t[k] = text[1 + k - 1]
      BY <1>1, <1>2, SliceElements
    <3>2. Len(s) - 1 + 1 = Len(s) /\ \A k \in 1..Len(s) : 1 + k - 1 = k
      BY <1>1
    <3> HIDE DEF t
    <3>3. QED
      BY <3>1, <3>2
  <2> HIDE DEF t
  <2>2. (\A k \in 1..Len(s) : text[k] = s[k]) => t = s
    BY <2>1, TextsEqual
  <2>3. t = s => \A k \in 1..Len(s) : text[k] = s[k]
    BY <2>1
  <2>4. QED
    BY <2>2, <2>3 DEF t
<1>3. \A k \in 1..Len(s) : 1 + k - 1 = k
  BY <1>1
<1>4. 1 + Len(s) - 1 = Len(s)
  BY <1>1
<1>5. QED
  BY <1>2, <1>3, <1>4 DEF StartsWith, FoundAt

LEMMA EndsWithElements ==
    ASSUME NEW text \in Text, NEW s \in Text
    PROVE  EndsWith(text, s) <=> /\ Len(s) =< Len(text)
                                 /\ FoundAt(text, s, Len(text) - Len(s) + 1)
<1>1. Len(text) \in Nat /\ Len(s) \in Nat
  BY DEF Text
<1> DEFINE i == Len(text) - Len(s) + 1
<1>2. ASSUME Len(s) =< Len(text)
      PROVE  From(text, i) = s <=> \A k \in 1..Len(s) : text[i + k - 1] = s[k]
  <2> DEFINE t == From(text, i)
  <2>1. i \in 1..(Len(text) + 1) /\ Len(text) - i + 1 = Len(s)
    BY <1>1, <1>2
  <2> HIDE DEF i
  <2>2. /\ t \in Text /\ Len(t) = Len(s)
        /\ \A k \in 1..Len(s) : t[k] = text[i + k - 1]
    BY <2>1, FromElements
  <2> HIDE DEF t
  <2>3. (\A k \in 1..Len(s) : text[i + k - 1] = s[k]) => t = s
    BY <2>2, TextsEqual
  <2>4. t = s => \A k \in 1..Len(s) : text[i + k - 1] = s[k]
    BY <2>2
  <2>5. QED
    BY <2>3, <2>4 DEF t
<1>3. Len(s) =< Len(text) => i + Len(s) - 1 = Len(text)
  BY <1>1
<1>4. QED
  BY <1>1, <1>2, <1>3 DEF EndsWith, FoundAt

LEMMA OccurrencesElements ==
    ASSUME NEW text \in Text, NEW s \in Text, NEW i \in Nat \ {0}
    PROVE  Occurrences(text, s, i) = {j \in i..Len(text) : FoundAt(text, s, j)}
<1>1. Len(text) \in Nat /\ Len(s) \in Nat
  BY DEF Text
<1>2. ASSUME NEW j \in i..Len(text)
      PROVE  StartsWith(From(text, j), s) <=> FoundAt(text, s, j)
  <2> DEFINE t == From(text, j)
  <2>1. j \in 1..(Len(text) + 1) /\ j \in Nat \ {0} /\ j =< Len(text)
    BY <1>1
  <2>2. /\ t \in Text /\ Len(t) = Len(text) - j + 1
        /\ \A k \in 1..(Len(text) - j + 1) : t[k] = text[j + k - 1]
    BY <2>1, FromElements
  <2> HIDE DEF t
  <2>3. StartsWith(t, s) <=> FoundAt(t, s, 1)
    BY <2>2, StartsWithElements
  <2>4. FoundAt(t, s, 1) <=> FoundAt(text, s, j)
    <3>1. 1 + Len(s) - 1 =< Len(t) <=> j + Len(s) - 1 =< Len(text)
      BY <1>1, <2>1, <2>2
    <3>2. 1 + Len(s) - 1 =< Len(t) =>
            \A k \in 1..Len(s) : t[1 + k - 1] = text[j + k - 1]
      BY <1>1, <2>1, <2>2
    <3>3. QED
      BY <3>1, <3>2 DEF FoundAt
  <2>5. QED
    BY <2>3, <2>4 DEF t
<1>3. QED
  BY <1>2 DEF Occurrences

\* Min picks the least element.
LEMMA MinIsLeast ==
    ASSUME NEW S, S \subseteq Nat, S # {}
    PROVE  Min(S) \in S /\ \A j \in S : Min(S) =< j
BY LeastElement DEF Min

--------------------------------------------------------------------------------
(***************************************************************************)
(* What is held back is bounded                                            *)
(***************************************************************************)

\* What is held back, with the next character.
Held(ch) == IF Overflows(ch) THEN <<ch>> ELSE Append(pending, ch)

\* Appending to a candidate leaves a candidate.
LEMMA CandidateContinues ==
    ASSUME NEW text \in Text, NEW ch \in Characters, IsCandidate(text)
    PROVE  IsCandidate(Append(text, ch))
<1>1. /\ Append(text, ch) \in Text
      /\ Len(Append(text, ch)) = Len(text) + 1
      /\ \A k \in 1..Len(text) : Append(text, ch)[k] = text[k]
      /\ Len(text) \in Nat
  BY DEF Text
<1>2. Prefix \in Text /\ Len(Prefix) \in Nat
  BY MarkerAssumption DEF Text
<1>3. FoundAt(text, Prefix, 1)
  BY <1>2, StartsWithElements DEF IsCandidate
<1>4. FoundAt(Append(text, ch), Prefix, 1)
  BY <1>1, <1>2, <1>3 DEF FoundAt
<1>5. QED
  BY <1>1, <1>2, <1>4, StartsWithElements DEF IsCandidate

\* What may become a candidate and is none is shorter than the prefix.
LEMMA BeginningIsShort ==
    ASSUME NEW text \in Text, MayBecomeCandidate(text), ~IsCandidate(text)
    PROVE  Len(text) < Len(Prefix)
<1>1. /\ Prefix \in Text /\ Len(Prefix) \in Nat /\ Len(text) \in Nat
  BY MarkerAssumption DEF Text
<1>2. FoundAt(Prefix, text, 1)
  BY <1>1, StartsWithElements DEF MayBecomeCandidate
<1>3. ~FoundAt(text, Prefix, 1)
  BY <1>1, StartsWithElements DEF IsCandidate
<1>4. ASSUME Len(text) >= Len(Prefix) PROVE FALSE
  <2>1. Len(text) = Len(Prefix)
    BY <1>1, <1>2, <1>4 DEF FoundAt
  <2>2. \A k \in 1..Len(Prefix) : text[1 + k - 1] = Prefix[k]
    BY <1>1, <1>2, <2>1 DEF FoundAt
  <2>3. QED
    BY <1>1, <1>3, <2>1, <2>2 DEF FoundAt
<1>5. QED
  BY <1>1, <1>4

\* With the next character, what is held back is the prefix itself, or a longer
\* candidate within the limit, or no candidate and no longer than the prefix.
LEMMA HeldShape ==
    ASSUME pending \in Text, PendingBounded, NEW ch \in Characters
    PROVE  /\ Held(ch) \in Text
           /\ \/ Held(ch) = Prefix
              \/ /\ IsCandidate(pending) /\ ~Overflows(ch)
                 /\ Held(ch) = Append(pending, ch)
                 /\ IsCandidate(Held(ch))
                 /\ Bytes(Held(ch)) =< MaxBytes
              \/ ~IsCandidate(Held(ch)) /\ Len(Held(ch)) =< Len(Prefix)
<1> DEFINE t == Held(ch)
<1>1. /\ Prefix \in Text /\ Len(Prefix) \in Nat /\ Len(Prefix) > 0
      /\ Len(pending) \in Nat
  BY MarkerAssumption DEF Text
<1>2. t \in Text
  BY DEF Held, Text
<1>3. ASSUME IsCandidate(t), Len(t) =< Len(Prefix) PROVE t = Prefix
  <2>1. FoundAt(t, Prefix, 1)
    BY <1>1, <1>2, <1>3, StartsWithElements DEF IsCandidate
  <2>2. Len(t) \in Nat
    BY <1>2 DEF Text
  <2> HIDE DEF t
  <2>3. Len(t) = Len(Prefix) /\ \A k \in 1..Len(t) : t[k] = Prefix[k]
    BY <1>1, <1>3, <2>1, <2>2 DEF FoundAt
  <2>4. QED
    BY <1>1, <1>2, <2>3, TextsEqual
<1>4. CASE Overflows(ch)
  <2>1. Len(t) = 1
    BY <1>4 DEF Held
  <2>2. QED
    BY <1>1, <1>2, <1>3, <2>1
<1>5. CASE ~Overflows(ch) /\ IsCandidate(pending)
  <2>1. t = Append(pending, ch)
    BY <1>5 DEF Held
  <2>2. IsCandidate(t)
    BY <1>5, <2>1, CandidateContinues
  <2>3. Bytes(t) =< MaxBytes
    <3>1. Bytes(t) = Bytes(pending) + Width[ch]
      BY <2>1, BytesAppend
    <3>2. Bytes(pending) \in Nat /\ Width[ch] \in Nat /\ MaxBytes \in Nat
      BY BytesType, WidthAssumption, BoundAssumption
    <3>3. QED
      BY <1>5, <3>1, <3>2 DEF Overflows
  <2>4. QED
    BY <1>2, <1>5, <2>1, <2>2, <2>3
<1>6. CASE ~Overflows(ch) /\ ~IsCandidate(pending)
  <2>1. t = Append(pending, ch) /\ Len(t) = Len(pending) + 1
    BY <1>1, <1>6 DEF Held, Text
  <2>2. Len(pending) < Len(Prefix)
    BY <1>6, BeginningIsShort DEF PendingBounded
  <2>3. Len(t) =< Len(Prefix)
    BY <1>1, <2>1, <2>2
  <2>4. QED
    BY <1>2, <1>3, <2>3
<1>7. QED
  BY <1>4, <1>5, <1>6

\* A candidate that is not closed by the character that completes it holds no
\* suffix in its body.
LEMMA BodyStaysOpen ==
    ASSUME NEW text \in Text, NEW ch \in Characters,
           Occurrences(text, Suffix, Len(Prefix) + 1) = {},
           ~EndsWith(Append(text, ch), Suffix)
    PROVE  Occurrences(Append(text, ch), Suffix, Len(Prefix) + 1) = {}
<1> DEFINE t == Append(text, ch)
           body == Len(Prefix) + 1
<1>1. /\ t \in Text /\ Len(t) = Len(text) + 1
      /\ \A k \in 1..Len(text) : t[k] = text[k]
      /\ Len(text) \in Nat
  BY DEF Text
<1>2. /\ Prefix \in Text /\ Len(Prefix) \in Nat
      /\ Suffix \in Text /\ Len(Suffix) \in Nat /\ Len(Suffix) > 0
      /\ body \in Nat \ {0}
  BY MarkerAssumption DEF Text
<1> HIDE DEF t, body
<1>0. Occurrences(t, Suffix, body) = {j \in body..Len(t) : FoundAt(t, Suffix, j)}
  BY <1>1, <1>2, OccurrencesElements
<1>3. SUFFICES ASSUME NEW j \in body..Len(t), FoundAt(t, Suffix, j)
               PROVE  FALSE
  BY <1>0 DEF t, body
<1>4. j \in Nat
  BY <1>2
<1>5. CASE j + Len(Suffix) - 1 =< Len(text)
  <2>1. FoundAt(text, Suffix, j)
    <3>1. \A k \in 1..Len(Suffix) : t[j + k - 1] = text[j + k - 1]
      BY <1>1, <1>2, <1>4, <1>5
    <3>2. QED
      BY <1>3, <1>5, <3>1 DEF FoundAt
  <2>2. j \in body..Len(text)
    BY <1>1, <1>2, <1>3, <1>4, <1>5
  <2>3. QED
    BY <1>2, <2>1, <2>2, OccurrencesElements DEF body
<1>6. CASE ~(j + Len(Suffix) - 1 =< Len(text))
  <2>1. j + Len(Suffix) - 1 = Len(t)
    <3>1. j + Len(Suffix) - 1 =< Len(text) + 1
      BY <1>1, <1>3 DEF FoundAt
    <3>2. QED
      BY <1>1, <1>2, <1>4, <1>6, <3>1
  <2>2. j = Len(t) - Len(Suffix) + 1 /\ Len(Suffix) =< Len(t)
    BY <1>1, <1>2, <1>4, <2>1
  <2>3. QED
    BY <1>1, <1>2, <1>3, <2>2, EndsWithElements DEF t
<1>7. QED
  BY <1>5, <1>6

\* flush_non_marker_prefix keeps the longest end of the text that may become a
\* candidate.
LEMMA KeepFromLeast ==
    ASSUME NEW text \in Text
    PROVE  /\ KeepFrom(text) \in 1..(Len(text) + 1)
           /\ MayBecomeCandidate(From(text, KeepFrom(text)))
           /\ \A i \in 1..(KeepFrom(text) - 1) : ~MayBecomeCandidate(From(text, i))
<1> DEFINE S == {i \in 1..Len(text) : MayBecomeCandidate(From(text, i))}
                  \cup {Len(text) + 1}
<1>1. Len(text) \in Nat /\ Prefix \in Text
  BY MarkerAssumption DEF Text
<1>2. S \subseteq Nat /\ S # {} /\ S \subseteq 1..(Len(text) + 1)
  BY <1>1
<1>3. KeepFrom(text) = Min(S)
  BY DEF KeepFrom
<1>4. MayBecomeCandidate(From(text, Len(text) + 1))
  <2> DEFINE t == From(text, Len(text) + 1)
  <2>1. Len(text) + 1 \in 1..(Len(text) + 1) /\ Len(text) - (Len(text) + 1) + 1 = 0
    BY <1>1
  <2>2. t \in Text /\ Len(t) = 0
    BY <2>1, FromElements
  <2> HIDE DEF t
  <2>3. FoundAt(Prefix, t, 1)
    BY <1>1, <2>2 DEF FoundAt, Text
  <2>4. QED
    BY <1>1, <2>2, <2>3, StartsWithElements DEF MayBecomeCandidate, t
<1>5. \A i \in S : MayBecomeCandidate(From(text, i))
  BY <1>4
<1>6. \A i \in 1..Len(text) : MayBecomeCandidate(From(text, i)) => i \in S
  OBVIOUS
<1> HIDE DEF S
<1>7. Min(S) \in S /\ \A j \in S : Min(S) =< j
  BY <1>2, MinIsLeast
<1>8. Min(S) \in 1..(Len(text) + 1)
  BY <1>2, <1>7
<1>9. \A i \in 1..(Min(S) - 1) : ~MayBecomeCandidate(From(text, i))
  BY <1>1, <1>6, <1>7, <1>8
<1>10. QED
  BY <1>3, <1>5, <1>7, <1>8, <1>9

\* Nothing may become a candidate.
LEMMA EmptyIsBeginning == MayBecomeCandidate(<<>>)
<1>1. Prefix \in Text /\ Len(Prefix) \in Nat
  BY MarkerAssumption DEF Text
<1>2. <<>> \in Text /\ FoundAt(Prefix, <<>>, 1)
  BY <1>1 DEF Text, FoundAt
<1>3. QED
  BY <1>1, <1>2, StartsWithElements DEF MayBecomeCandidate

\* The bound survives the next character.
LEMMA PushKeepsBound ==
    ASSUME pending \in Text, PendingBounded, NEW ch \in Characters, PushChar(ch)
    PROVE  pending' \in Text /\ PendingBounded'
<1> DEFINE t == Held(ch)
<1>1. /\ Prefix \in Text /\ Suffix \in Text
      /\ Len(Prefix) \in Nat /\ Len(Prefix) > 0 /\ Len(Suffix) > 0
      /\ Len(Prefix) + 1 \in Nat \ {0}
      /\ t \in Text /\ Len(t) \in Nat
  BY MarkerAssumption, HeldShape DEF Text
<1>2. \/ pending' = <<>>
      \/ IsCandidate(t) /\ ~EndsWith(t, Suffix) /\ pending' = t
      \/ ~IsCandidate(t) /\ pending' = From(t, KeepFrom(t))
  BY DEF PushChar, Held
<1>3. CASE pending' = <<>>
  BY <1>3, EmptyIsBeginning DEF PendingBounded, Text
<1>4. CASE IsCandidate(t) /\ ~EndsWith(t, Suffix) /\ pending' = t
  <2>1. Bytes(t) =< MaxBytes /\ Occurrences(t, Suffix, Len(Prefix) + 1) = {}
    <3>1. CASE t = Prefix
      <4>1. Bytes(t) =< MaxBytes
        BY <3>1, LimitAssumption
      <4>2. Occurrences(Prefix, Suffix, Len(Prefix) + 1)
              = {j \in (Len(Prefix) + 1)..Len(Prefix) : FoundAt(Prefix, Suffix, j)}
        BY <1>1, OccurrencesElements
      <4>3. (Len(Prefix) + 1)..Len(Prefix) = {}
        BY <1>1
      <4>4. QED
        BY <3>1, <4>1, <4>2, <4>3
    <3>2. CASE t # Prefix
      <4>1. /\ IsCandidate(pending)
            /\ t = Append(pending, ch)
            /\ Bytes(t) =< MaxBytes
        BY <1>4, <3>2, HeldShape
      <4>2. Occurrences(pending, Suffix, Len(Prefix) + 1) = {}
        <5>1. CASE MayBecomeCandidate(pending)
          <6>1. FoundAt(Prefix, pending, 1) /\ Len(pending) \in Nat
            BY <1>1, <5>1, StartsWithElements DEF MayBecomeCandidate, Text
          <6>2. Len(pending) =< Len(Prefix)
            BY <1>1, <6>1 DEF FoundAt
          <6>3. (Len(Prefix) + 1)..Len(pending) = {}
            BY <1>1, <6>1, <6>2
          <6>4. QED
            BY <6>3 DEF Occurrences
        <5>2. CASE ~MayBecomeCandidate(pending)
          BY <5>2 DEF PendingBounded
        <5>3. QED
          BY <5>1, <5>2
      <4>3. QED
        BY <1>4, <4>1, <4>2, BodyStaysOpen
    <3>3. QED
      BY <3>1, <3>2
  <2>2. QED
    BY <1>1, <1>4, <2>1 DEF PendingBounded
<1>5. CASE ~IsCandidate(t) /\ pending' = From(t, KeepFrom(t))
  <2>1. From(t, KeepFrom(t)) \in Text
    BY <1>1, KeepFromLeast, FromElements
  <2>2. QED
    BY <1>1, <1>5, <2>1, KeepFromLeast DEF PendingBounded
<1>6. QED
  BY <1>2, <1>3, <1>4, <1>5

\* What is held back is a text, and bounded.
HeldBack == pending \in Text /\ PendingBounded

LEMMA NextHeldBack == HeldBack /\ [Next]_vars => HeldBack'
<1> SUFFICES ASSUME HeldBack, [Next]_vars PROVE HeldBack'
  OBVIOUS
<1>1. CASE \E ch \in Characters : PushChar(ch)
  BY <1>1, PushKeepsBound DEF HeldBack
<1>2. CASE Finish
  <2>1. pending' = <<>>
    BY <1>2 DEF Finish
  <2>2. QED
    BY <2>1, EmptyIsBeginning DEF HeldBack, PendingBounded, Text
<1>3. CASE UNCHANGED vars
  BY <1>3 DEF vars, HeldBack, PendingBounded
<1>4. QED
  BY <1>1, <1>2, <1>3 DEF Next

LEMMA StreamHeldBack == Spec => []HeldBack
<1>1. Init => HeldBack
  BY EmptyIsBeginning DEF Init, HeldBack, PendingBounded, Text
<1>2. QED
  BY <1>1, NextHeldBack, PTL DEF Spec

\* However a stream is cut and whatever it holds, what is held back is an open
\* candidate within the limit or the beginning of a prefix.
THEOREM HeldBackBounded == Spec => []PendingBounded
<1>1. HeldBack => PendingBounded
  BY DEF HeldBack
<1>2. QED
  BY <1>1, StreamHeldBack, PTL

--------------------------------------------------------------------------------
(***************************************************************************)
(* Nothing is lost, repeated or reordered                                  *)
(***************************************************************************)
PieceSet == [text : Text, original : BOOLEAN]

Pieces == Seq(PieceSet)

Results == [pieces : Pieces, skipped : Seq(Text), unresolved : Seq(Text)]

JoinedWith(text) == [before \in Text |-> before \o text]

SourceStep(pieces) == [n \in 1..Len(pieces) |-> JoinedWith(pieces[n].text)]

LEMMA JoinedText ==
    ASSUME NEW text \in Text
    PROVE  /\ JoinedWith(text) \in [Text -> Text]
           /\ \A before \in Text : JoinedWith(text)[before] = before \o text
<1>1. \A before \in Text : before \o text \in Text
  BY ConcatProperties DEF Text
<1>2. QED
  BY <1>1, Zenon DEF JoinedWith

\* Joining texts is associative, and the empty text is neutral.
LEMMA JoinAssociative ==
    ASSUME NEW a \in Text, NEW b \in Text, NEW c \in Text
    PROVE  (a \o b) \o c = a \o (b \o c)
BY ConcatAssociative DEF Text

LEMMA JoinEmpty ==
    ASSUME NEW a \in Text
    PROVE  a \o <<>> = a /\ <<>> \o a = a
BY ConcatEmptySeq DEF Text

LEMMA JoinType ==
    ASSUME NEW a \in Text, NEW b \in Text
    PROVE  a \o b \in Text
BY ConcatProperties DEF Text

LEMMA PieceTexts ==
    ASSUME NEW pieces \in Pieces
    PROVE  /\ Len(pieces) \in Nat
           /\ \A n \in 1..Len(pieces) : pieces[n] \in PieceSet /\ pieces[n].text \in Text
<1>1. Len(pieces) \in Nat /\ \A n \in 1..Len(pieces) : pieces[n] \in PieceSet
  BY DEF Pieces
<1>2. QED
  BY <1>1 DEF PieceSet

\* Source puts the texts of the pieces one after the other.
LEMMA SourceIterates ==
    ASSUME NEW pieces \in Pieces
    PROVE  \E f : /\ Iterates(f, <<>>, SourceStep(pieces), Len(pieces))
                  /\ \A n \in 0..Len(pieces) : f[n] \in Text
                  /\ Source(pieces) = f[Len(pieces)]
<1> DEFINE N == Len(pieces)
           base == <<>>
           step == SourceStep(pieces)
           Join(before, n) == before \o pieces[n].text
           Solves(f) ==
              f = [n \in 0..N |-> IF n = 0 THEN base ELSE Join(f[n - 1], n)]
           src == CHOOSE f : Solves(f)
<1>1. N \in Nat /\ base \in Text
  BY PieceTexts DEF Text
<1>2. /\ step \in [1..N -> [Text -> Text]]
      /\ \A n \in 1..N, before \in Text : step[n][before] = Join(before, n)
  <2>1. ASSUME NEW n \in 1..N
        PROVE  /\ step[n] \in [Text -> Text]
               /\ \A before \in Text : step[n][before] = Join(before, n)
    <3>1. step[n] = JoinedWith(pieces[n].text)
      BY DEF SourceStep
    <3>2. pieces[n].text \in Text
      BY PieceTexts
    <3>3. QED
      BY <3>1, <3>2, JoinedText, Zenon
  <2>2. step = [n \in 1..N |-> step[n]]
    BY DEF SourceStep
  <2> HIDE DEF step
  <2>3. QED
    BY <2>1, <2>2, Zenon
<1>3. Source(pieces) = src[N]
  BY DEF Source
<1> HIDE DEF step, Join, base, N
<1>4. \E f : Solves(f)
  <2>1. PICK f \in [0..N -> Text] : Iterates(f, base, step, N)
    BY <1>1, <1>2, RecursionExists
  <2>2. \A n \in 1..N : f[n] = Join(f[n - 1], n)
    <3>1. \A n \in 1..N : n - 1 \in 0..N
      BY <1>1
    <3>2. QED
      BY <1>2, <2>1, <3>1 DEF Iterates
  <2>3. \A n \in 0..N : f[n] = IF n = 0 THEN base ELSE Join(f[n - 1], n)
    BY <1>1, <2>1, <2>2 DEF Iterates
  <2>4. Solves(f)
    BY <2>1, <2>3
  <2>5. QED
    BY <2>4
<1>5. Solves(src)
  BY <1>4
<1>6. src[0] = base /\ \A n \in 1..N : src[n] = Join(src[n - 1], n)
  <2> HIDE DEF src
  <2>1. \A n \in 0..N : src[n] = IF n = 0 THEN base ELSE Join(src[n - 1], n)
    BY <1>5
  <2>2. QED
    BY <1>1, <2>1
<1> HIDE DEF src
<1>7. \A n \in 1..N : src[n - 1] \in Text => src[n] = step[n][src[n - 1]]
  BY <1>2, <1>6
<1>8. /\ \A n \in 0..N : src[n] \in Text
      /\ Iterates(src, base, step, N)
  BY <1>1, <1>2, <1>6, <1>7, RecursionTyped
<1>9. QED
  BY <1>3, <1>8, Zenon DEF N, base, step

LEMMA SourceType ==
    ASSUME NEW pieces \in Pieces
    PROVE  Source(pieces) \in Text /\ (pieces = <<>> => Source(pieces) = <<>>)
<1>1. Len(pieces) \in Nat /\ (pieces = <<>> => Len(pieces) = 0)
  BY DEF Pieces
<1>2. Len(pieces) \in 0..Len(pieces)
  BY <1>1
<1>3. PICK f : /\ Iterates(f, <<>>, SourceStep(pieces), Len(pieces))
               /\ \A n \in 0..Len(pieces) : f[n] \in Text
               /\ Source(pieces) = f[Len(pieces)]
  BY SourceIterates
<1>4. f[0] = <<>>
  BY <1>3 DEF Iterates
<1>5. QED
  BY <1>1, <1>2, <1>3, <1>4

\* A piece adds its text.
LEMMA SourceAppend ==
    ASSUME NEW pieces \in Pieces, NEW piece \in PieceSet
    PROVE  Source(Append(pieces, piece)) = Source(pieces) \o piece.text
<1> DEFINE N == Len(pieces)
           more == Append(pieces, piece)
           a == SourceStep(pieces)
           b == SourceStep(more)
           base == <<>>
<1>1. /\ N \in Nat /\ more \in Pieces /\ Len(more) = N + 1
      /\ more[N + 1] = piece
      /\ \A n \in 1..N : more[n] = pieces[n]
  BY DEF Pieces
<1>2. PICK f : /\ Iterates(f, base, a, N)
               /\ \A n \in 0..N : f[n] \in Text
               /\ Source(pieces) = f[N]
  BY SourceIterates
<1> HIDE DEF more
<1>3. PICK g : /\ Iterates(g, base, b, N + 1)
               /\ \A n \in 0..(N + 1) : g[n] \in Text
               /\ Source(more) = g[N + 1]
  BY <1>1, SourceIterates, Zenon
<1>4. /\ \A n \in 1..N : a[n] = JoinedWith(pieces[n].text)
      /\ \A n \in 1..(N + 1) : b[n] = JoinedWith(more[n].text)
  BY <1>1 DEF SourceStep
<1>5. /\ \A n \in 1..N : a[n] = b[n]
      /\ b[N + 1] = JoinedWith(piece.text)
  BY <1>1, <1>4
<1> HIDE DEF N, a, b, base
<1>6. g[N + 1] = b[N + 1][f[N]]
  <2>1. /\ N \in Nat
        /\ Iterates(f, base, a, N) /\ Iterates(g, base, b, N + 1)
        /\ \A n \in 1..N : a[n] = b[n]
    BY <1>1, <1>2, <1>3, <1>5
  <2>2. QED
    BY <2>1, RecursionExtends
<1>7. f[N] \in Text /\ piece.text \in Text
  BY <1>1, <1>2 DEF PieceSet
<1>8. JoinedWith(piece.text)[f[N]] = f[N] \o piece.text
  BY <1>7, JoinedText, Zenon
<1>9. QED
  BY <1>2, <1>3, <1>5, <1>6, <1>8, Zenon DEF more

\* The source of pieces that follow each other.
LEMMA SourceConcat ==
    ASSUME NEW p \in Pieces, NEW q \in Pieces
    PROVE  Source(p \o q) = Source(p) \o Source(q)
<1> DEFINE Good(x) == Source(p \o x) = Source(p) \o Source(x)
           Bad == {n \in Nat : \E x \in Pieces : Len(x) = n /\ ~Good(x)}
<1>1. Bad = {}
  <2>1. SUFFICES ASSUME Bad # {} PROVE FALSE
    OBVIOUS
  <2>2. PICK m \in Bad : \A j \in Bad : m =< j
    <3>1. Bad \subseteq Nat
      OBVIOUS
    <3> HIDE DEF Bad
    <3>2. QED
      BY <2>1, <3>1, LeastElement
  <2>3. PICK x \in Pieces : Len(x) = m /\ ~Good(x)
    BY <2>2
  <2>4. x # <<>>
    <3>0. <<>> \in Pieces
      BY DEF Pieces
    <3>1. Source(p) \in Text /\ Source(<<>>) = <<>>
      BY <3>0, SourceType
    <3>2. p \o <<>> = p /\ Source(p) \o <<>> = Source(p)
      BY <3>1, ConcatEmptySeq DEF Pieces, Text
    <3>3. Good(<<>>)
      BY <3>1, <3>2
    <3>4. QED
      BY <2>3, <3>3
  <2>5. PICK y \in Pieces, piece \in PieceSet :
            x = Append(y, piece)
    BY <2>3, <2>4, SequenceEmptyOrAppend DEF Pieces
  <2>6. Len(y) \in Nat /\ Len(x) = Len(y) + 1 /\ p \o y \in Pieces
    BY <2>5 DEF Pieces
  <2>7. Good(y)
    <3>1. ~(m =< Len(y))
      BY <2>3, <2>6
    <3>2. Len(y) \notin Bad
      BY <2>2, <3>1
    <3>3. QED
      BY <2>6, <3>2
  <2>8. p \o x = Append(p \o y, piece)
    <3> DEFINE last == <<piece>>
    <3>1. x = y \o last /\ Append(p \o y, piece) = (p \o y) \o last
      BY <2>5, <2>6, AppendIsConcat DEF Pieces
    <3>2. last \in Seq(PieceSet) /\ p \in Seq(PieceSet) /\ y \in Seq(PieceSet)
      BY DEF Pieces
    <3> HIDE DEF last, Good, Bad
    <3>3. (p \o y) \o last = p \o (y \o last)
      BY <3>2, ConcatAssociative
    <3>4. QED
      BY <3>1, <3>3
  <2>9. Source(p \o x) = (Source(p) \o Source(y)) \o piece.text
    BY <2>6, <2>7, <2>8, SourceAppend
  <2>10. Source(x) = Source(y) \o piece.text
    BY <2>5, SourceAppend
  <2>11. Source(p) \in Text /\ Source(y) \in Text /\ piece.text \in Text
    BY SourceType DEF PieceSet
  <2>12. Good(x)
    <3>1. (Source(p) \o Source(y)) \o piece.text
            = Source(p) \o (Source(y) \o piece.text)
      BY <2>11, JoinAssociative, Zenon
    <3>2. QED
      BY <2>9, <2>10, <3>1, Zenon
  <2>13. QED
    BY <2>3, <2>12
<1>2. Len(q) \in Nat
  BY DEF Pieces
<1>3. QED
  BY <1>1, <1>2

\* A text is what comes before a position and what comes from it on.
LEMMA SliceJoin ==
    ASSUME NEW text \in Text, NEW i \in Nat \ {0}, NEW j \in Nat, NEW k \in Nat,
           i =< j + 1, j =< k, k =< Len(text)
    PROVE  SubSeq(text, i, j) \o SubSeq(text, j + 1, k) = SubSeq(text, i, k)
<1> DEFINE a == SubSeq(text, i, j)
           b == SubSeq(text, j + 1, k)
           c == SubSeq(text, i, k)
<1>1. Len(text) \in Nat
  BY DEF Text
<1>2. /\ a \in Text /\ Len(a) = j - i + 1
      /\ \A n \in 1..(j - i + 1) : a[n] = text[i + n - 1]
  BY <1>1, SliceElements
<1>3. /\ b \in Text /\ Len(b) = k - j
      /\ \A n \in 1..(k - j) : b[n] = text[j + n]
  <2>1. /\ j + 1 \in Nat \ {0} /\ j + 1 =< k + 1
        /\ k - (j + 1) + 1 = k - j /\ \A n \in 1..(k - j) : (j + 1) + n - 1 = j + n
    BY <1>1
  <2>2. /\ b \in Text /\ Len(b) = k - (j + 1) + 1
        /\ \A n \in 1..(k - (j + 1) + 1) : b[n] = text[(j + 1) + n - 1]
    BY <1>1, <2>1, SliceElements
  <2> HIDE DEF b
  <2>3. QED
    BY <2>1, <2>2
<1>4. /\ c \in Text /\ Len(c) = k - i + 1
      /\ \A n \in 1..(k - i + 1) : c[n] = text[i + n - 1]
  BY <1>1, SliceElements
<1> HIDE DEF a, b, c
<1>5. /\ a \o b \in Text /\ Len(a \o b) = Len(a) + Len(b)
      /\ \A n \in 1..(Len(a) + Len(b)) :
            (a \o b)[n] = IF n =< Len(a) THEN a[n] ELSE b[n - Len(a)]
  BY <1>2, <1>3, ConcatProperties DEF Text
<1>6. Len(a \o b) = Len(c)
  BY <1>1, <1>2, <1>3, <1>4, <1>5
<1>7. ASSUME NEW n \in 1..Len(c) PROVE (a \o b)[n] = c[n]
  <2>1. n \in Nat /\ n \in 1..(k - i + 1) /\ n \in 1..(Len(a) + Len(b))
    BY <1>1, <1>4, <1>5, <1>6
  <2>2. c[n] = text[i + n - 1]
    BY <1>4, <2>1
  <2>3. CASE n =< Len(a)
    BY <1>2, <1>5, <2>1, <2>2, <2>3
  <2>4. CASE ~(n =< Len(a))
    <3>1. n - Len(a) \in 1..(k - j) /\ j + (n - Len(a)) = i + n - 1
      BY <1>2, <2>1, <2>4
    <3>2. (a \o b)[n] = b[n - Len(a)]
      BY <1>5, <2>1, <2>4
    <3>3. b[n - Len(a)] = text[j + (n - Len(a))]
      BY <1>3, <3>1
    <3>4. QED
      BY <2>2, <3>1, <3>2, <3>3
  <2>5. QED
    BY <2>3, <2>4
<1>8. QED
  BY <1>4, <1>5, <1>6, <1>7, TextsEqual DEF a, b, c

\* A text cut in two.
LEMMA CutJoin ==
    ASSUME NEW text \in Text, NEW k \in 1..(Len(text) + 1)
    PROVE  /\ SubSeq(text, 1, k - 1) \in Text /\ From(text, k) \in Text
           /\ SubSeq(text, 1, k - 1) \o From(text, k) = text
<1>1. Len(text) \in Nat /\ k \in Int
  BY DEF Text
<1>2. \A j \in 0..Len(text) :
         SubSeq(text, 1, j) \o SubSeq(text, j + 1, Len(text))
           = SubSeq(text, 1, Len(text))
  <2> TAKE j \in 0..Len(text)
  <2>1. /\ j \in Nat /\ 1 =< j + 1 /\ j =< Len(text) /\ 1 \in Nat \ {0}
        /\ Len(text) =< Len(text)
    BY <1>1
  <2>2. QED
    BY <1>1, <2>1, SliceJoin, Zenon
<1>3. k - 1 \in 0..Len(text) /\ (k - 1) + 1 = k
  BY <1>1
<1>4. From(text, k) = SubSeq(text, (k - 1) + 1, Len(text))
  BY <1>3 DEF From
<1>5. SubSeq(text, 1, Len(text)) = text
  BY SubSeqFull DEF Text
<1>6. SubSeq(text, 1, k - 1) \o From(text, k) = text
  BY <1>2, <1>3, <1>4, <1>5, Zenon
<1>7. SubSeq(text, 1, k - 1) \in Text
  BY <1>1, <1>3, SliceElements
<1>8. QED
  BY <1>6, <1>7, FromElements

\* The pieces of a plain text are its characters.
CharacterPiece(ch) == Piece(<<ch>>, FALSE)

PlainPieces(text) == [i \in DOMAIN text |-> CharacterPiece(text[i])]

LEMMA PlainShape ==
    ASSUME NEW text \in Text
    PROVE  /\ Plain(text) = [pieces |-> PlainPieces(text),
                             skipped |-> <<>>, unresolved |-> <<>>]
           /\ Plain(text).pieces = PlainPieces(text)
           /\ Unresolved(text).pieces = PlainPieces(text)
           /\ PlainPieces(text) \in Pieces
           /\ Len(PlainPieces(text)) = Len(text)
           /\ \A i \in 1..Len(text) : PlainPieces(text)[i] = CharacterPiece(text[i])
           /\ Plain(text) \in Results /\ Unresolved(text) \in Results
<1>1. /\ Len(text) \in Nat /\ DOMAIN text = 1..Len(text)
      /\ \A i \in 1..Len(text) : text[i] \in Characters
  BY DEF Text
<1>2. \A ch \in Characters : CharacterPiece(ch) \in PieceSet
  BY DEF CharacterPiece, Piece, PieceSet, Text
<1>3. PlainPieces(text) \in [1..Len(text) -> PieceSet]
  BY <1>1, <1>2 DEF PlainPieces
<1>4. PlainPieces(text) \in Pieces /\ Len(PlainPieces(text)) = Len(text)
  BY <1>1, <1>3, IsASeq, LenProperties DEF Pieces
<1>5. \A i \in 1..Len(text) : PlainPieces(text)[i] = CharacterPiece(text[i])
  BY <1>1 DEF PlainPieces
<1>6. Plain(text) = [pieces |-> PlainPieces(text),
                     skipped |-> <<>>, unresolved |-> <<>>]
  <2>1. Plain(text) = [EmptyResult EXCEPT !.pieces = PlainPieces(text)]
    BY DEF Plain, PlainPieces, CharacterPiece
  <2> HIDE DEF PlainPieces
  <2>2. QED
    BY <2>1 DEF EmptyResult
<1>7. Unresolved(text) = [pieces |-> PlainPieces(text),
                          skipped |-> <<>>, unresolved |-> <<text>>]
  BY <1>6 DEF Unresolved
<1>8. <<>> \in Seq(Text) /\ <<text>> \in Seq(Text)
  OBVIOUS
<1>9. Plain(text) \in Results /\ Unresolved(text) \in Results
  BY <1>4, <1>6, <1>7, <1>8 DEF Results
<1>10. Plain(text).pieces = PlainPieces(text) /\ Unresolved(text).pieces = PlainPieces(text)
  BY <1>6, <1>7
<1>11. QED
  BY <1>4, <1>5, <1>6, <1>9, <1>10, Zenon

\* One more character is one more piece.
LEMMA PlainAppend ==
    ASSUME NEW text \in Text, NEW ch \in Characters
    PROVE  PlainPieces(Append(text, ch))
             = Append(PlainPieces(text), CharacterPiece(ch))
<1> DEFINE more == Append(text, ch)
           p == PlainPieces(more)
           q == PlainPieces(text)
           piece == CharacterPiece(ch)
<1>1. /\ more \in Text /\ Len(more) = Len(text) + 1 /\ Len(text) \in Nat
      /\ more[Len(text) + 1] = ch
      /\ \A i \in 1..Len(text) : more[i] = text[i]
  BY DEF Text
<1> HIDE DEF more
<1>2. /\ p \in Pieces /\ Len(p) = Len(text) + 1
      /\ \A i \in 1..(Len(text) + 1) : p[i] = CharacterPiece(more[i])
  BY <1>1, PlainShape
<1>3. /\ q \in Pieces /\ Len(q) = Len(text)
      /\ \A i \in 1..Len(text) : q[i] = CharacterPiece(text[i])
  BY PlainShape
<1>4. p[Len(text) + 1] = piece /\ \A i \in 1..Len(text) : p[i] = q[i]
  BY <1>1, <1>2, <1>3
<1>5. piece \in PieceSet
  BY DEF CharacterPiece, Piece, PieceSet, Text
<1> HIDE DEF p, q, piece
<1>6. /\ Append(q, piece) \in Pieces /\ Len(Append(q, piece)) = Len(text) + 1
      /\ Append(q, piece)[Len(text) + 1] = piece
      /\ \A i \in 1..Len(text) : Append(q, piece)[i] = q[i]
  BY <1>3, <1>5 DEF Pieces
<1>7. \A i \in 1..(Len(text) + 1) : p[i] = Append(q, piece)[i]
  <2>1. \A i \in 1..(Len(text) + 1) : i = Len(text) + 1 \/ i \in 1..Len(text)
    BY <1>1
  <2>2. QED
    BY <1>4, <1>6, <2>1
<1>8. p = Append(q, piece)
  BY <1>1, <1>2, <1>6, <1>7, SeqEqual DEF Pieces
<1>9. QED
  BY <1>8 DEF p, q, piece, more

\* A plain text is its own source.
LEMMA SourcePlain ==
    ASSUME NEW text \in Text
    PROVE  Source(PlainPieces(text)) = text
<1> DEFINE Bad == {n \in Nat : \E x \in Text : Len(x) = n /\ Source(PlainPieces(x)) # x}
<1>1. Bad = {}
  <2>1. SUFFICES ASSUME Bad # {} PROVE FALSE
    OBVIOUS
  <2>2. PICK m \in Bad : \A j \in Bad : m =< j
    <3>1. Bad \subseteq Nat
      OBVIOUS
    <3> HIDE DEF Bad
    <3>2. QED
      BY <2>1, <3>1, LeastElement
  <2>3. PICK x \in Text : Len(x) = m /\ Source(PlainPieces(x)) # x
    BY <2>2
  <2>4. x # <<>>
    <3>1. SUFFICES ASSUME x = <<>> PROVE FALSE
      OBVIOUS
    <3>2. PlainPieces(x) \in Pieces /\ Len(PlainPieces(x)) = 0
      <4>1. Len(x) = 0
        BY <3>1
      <4>2. QED
        BY <4>1, PlainShape
    <3>3. PlainPieces(x) = <<>>
      BY <3>2, EmptySeq DEF Pieces
    <3>4. QED
      BY <2>3, <3>1, <3>2, <3>3, SourceType
  <2>5. PICK y \in Text, ch \in Characters : x = Append(y, ch)
    BY <2>3, <2>4, SequenceEmptyOrAppend DEF Text
  <2>6. Len(y) \in Nat /\ Len(x) = Len(y) + 1
    BY <2>5 DEF Text
  <2>7. Source(PlainPieces(y)) = y
    <3>1. ~(m =< Len(y))
      BY <2>3, <2>6
    <3>2. Len(y) \notin Bad
      BY <2>2, <3>1
    <3>3. QED
      BY <2>6, <3>2
  <2>8. PlainPieces(x) = Append(PlainPieces(y), CharacterPiece(ch))
    BY <2>5, PlainAppend
  <2>9. /\ PlainPieces(y) \in Pieces
        /\ CharacterPiece(ch) \in PieceSet /\ CharacterPiece(ch).text = <<ch>>
    BY PlainShape DEF CharacterPiece, Piece, PieceSet, Text
  <2>10. Source(PlainPieces(x)) = y \o <<ch>>
    BY <2>7, <2>8, <2>9, SourceAppend, Zenon
  <2>11. x = y \o <<ch>>
    BY <2>5, AppendIsConcat DEF Text
  <2>12. QED
    BY <2>3, <2>10, <2>11
<1>2. Len(text) \in Nat
  BY DEF Text
<1>3. QED
  BY <1>1, <1>2

\* Results are merged part by part.
LEMMA MergeShape ==
    ASSUME NEW a \in Results, NEW b \in Results
    PROVE  /\ MergeResult(a, b) \in Results
           /\ MergeResult(a, b).pieces = a.pieces \o b.pieces
           /\ Source(MergeResult(a, b).pieces) = Source(a.pieces) \o Source(b.pieces)
<1>1. /\ a.pieces \in Pieces /\ b.pieces \in Pieces
      /\ a.skipped \in Seq(Text) /\ b.skipped \in Seq(Text)
      /\ a.unresolved \in Seq(Text) /\ b.unresolved \in Seq(Text)
  BY DEF Results
<1>2. /\ a.pieces \o b.pieces \in Pieces
      /\ a.skipped \o b.skipped \in Seq(Text)
      /\ a.unresolved \o b.unresolved \in Seq(Text)
  BY <1>1, ConcatProperties DEF Pieces
<1>3. MergeResult(a, b).pieces = a.pieces \o b.pieces
  BY DEF MergeResult
<1>4. MergeResult(a, b) \in Results
  BY <1>2 DEF MergeResult, Results
<1>5. QED
  BY <1>1, <1>3, <1>4, SourceConcat

LEMMA EmptyShape ==
    EmptyResult \in Results /\ EmptyResult.pieces = <<>> /\ Source(<<>>) = <<>>
<1>1. <<>> \in Pieces /\ <<>> \in Seq(Text)
  BY DEF Pieces
<1>2. QED
  BY <1>1, SourceType DEF EmptyResult, Results

\* A token's original stands for the token.
LEMMA SourceOriginal ==
    ASSUME NEW text \in Text
    PROVE  /\ <<Piece(text, TRUE)>> \in Pieces
           /\ Source(<<Piece(text, TRUE)>>) = text
<1> DEFINE piece == Piece(text, TRUE)
<1>1. piece \in PieceSet /\ piece.text = text
  BY DEF Piece, PieceSet
<1>2. <<>> \in Pieces
  BY DEF Pieces
<1> HIDE DEF piece
<1>3. <<piece>> \in Pieces /\ <<piece>> = Append(<<>>, piece)
  BY <1>1 DEF Pieces
<1>4. Source(<<piece>>) = Source(<<>>) \o piece.text
  BY <1>1, <1>2, <1>3, SourceAppend, Zenon
<1>5. Source(<<piece>>) = text
  BY <1>1, <1>2, <1>4, SourceType, JoinEmpty
<1>6. QED
  BY <1>3, <1>5 DEF piece

\* Whatever becomes of a candidate, its pieces stand for it.
LEMMA CandidateShape ==
    ASSUME NEW text \in Text
    PROVE  /\ RestoreCandidate(text) \in Results
           /\ Source(RestoreCandidate(text).pieces) = text
<1>1. /\ Plain(text) = [pieces |-> PlainPieces(text),
                        skipped |-> <<>>, unresolved |-> <<>>]
      /\ Unresolved(text).pieces = PlainPieces(text)
      /\ Unresolved(text) \in Results
      /\ PlainPieces(text) \in Pieces
      /\ Source(PlainPieces(text)) = text
  BY PlainShape, SourcePlain
<1>2. <<text>> \in Seq(Text) /\ <<>> \in Seq(Text)
  OBVIOUS
<1> HIDE DEF PlainPieces
<1>3. CASE text \notin Tokens
  BY <1>1, <1>3 DEF RestoreCandidate
<1>4. CASE text \in Tokens /\ text \notin Authorized
  <2>1. RestoreCandidate(text)
          = [pieces |-> PlainPieces(text), skipped |-> <<text>>, unresolved |-> <<>>]
    BY <1>1, <1>4 DEF RestoreCandidate
  <2>2. RestoreCandidate(text) \in Results
    BY <1>1, <1>2, <2>1 DEF Results
  <2>3. RestoreCandidate(text).pieces = PlainPieces(text)
    BY <2>1
  <2>4. QED
    BY <1>1, <2>2, <2>3
<1>5. CASE text \in Tokens /\ text \in Authorized
  <2> DEFINE pieces == <<Piece(text, TRUE)>>
  <2>1. pieces \in Pieces /\ Source(pieces) = text
    BY SourceOriginal
  <2>2. RestoreCandidate(text) = [EmptyResult EXCEPT !.pieces = pieces]
    BY <1>5 DEF RestoreCandidate
  <2> HIDE DEF pieces
  <2>3. RestoreCandidate(text)
          = [pieces |-> pieces, skipped |-> <<>>, unresolved |-> <<>>]
    BY <2>2 DEF EmptyResult
  <2>4. RestoreCandidate(text) \in Results
    BY <1>2, <2>1, <2>3 DEF Results
  <2>5. RestoreCandidate(text).pieces = pieces
    BY <2>3
  <2>6. QED
    BY <2>1, <2>4, <2>5
<1>6. QED
  BY <1>3, <1>4, <1>5

\* The stream, with the types of what it is made of.
Conserved ==
    /\ input \in Text
    /\ pending \in Text
    /\ result \in Results
    /\ NothingLost

\* What goes out because of the limit, and what is held with the next
\* character, are what was held and the character.
LEMMA FlushConserves ==
    ASSUME Conserved, NEW ch \in Characters,
           NEW flushed,
           flushed = IF Overflows(ch) THEN Unresolved(pending) ELSE EmptyResult
    PROVE  /\ Held(ch) \in Text
           /\ MergeResult(result, flushed) \in Results
           /\ Source(MergeResult(result, flushed).pieces) \o Held(ch)
                = Append(input, ch)
<1>1. /\ pending \in Text /\ result \in Results /\ result.pieces \in Pieces
      /\ input \in Text
      /\ Source(result.pieces) \o pending = input
      /\ Source(result.pieces) \in Text
      /\ <<ch>> \in Text
  <2>1. result.pieces \in Pieces
    BY DEF Conserved, Results
  <2>2. <<ch>> \in Text
    BY DEF Text
  <2>3. QED
    BY <2>1, <2>2, SourceType DEF Conserved, NothingLost
<1>2. Append(input, ch) = input \o <<ch>> /\ Append(pending, ch) = pending \o <<ch>>
  BY <1>1, AppendIsConcat DEF Text
<1>3. CASE Overflows(ch)
  <2>1. /\ flushed \in Results
        /\ Source(flushed.pieces) = pending
    BY <1>1, <1>3, PlainShape, SourcePlain
  <2>2. Source(MergeResult(result, flushed).pieces) = input
    <3>1. Source(MergeResult(result, flushed).pieces)
            = Source(result.pieces) \o Source(flushed.pieces)
      BY <1>1, <2>1, MergeShape, Zenon
    <3>2. QED
      BY <1>1, <2>1, <3>1, Zenon
  <2>3. Held(ch) = <<ch>>
    BY <1>3 DEF Held
  <2>4. QED
    BY <1>1, <1>2, <2>1, <2>2, <2>3, MergeShape
<1>4. CASE ~Overflows(ch)
  <2>1. flushed = EmptyResult /\ flushed \in Results /\ Source(flushed.pieces) = <<>>
    BY <1>4, EmptyShape
  <2>2. Source(MergeResult(result, flushed).pieces) = Source(result.pieces)
    <3>1. Source(MergeResult(result, flushed).pieces)
            = Source(result.pieces) \o Source(flushed.pieces)
      BY <1>1, <2>1, MergeShape, Zenon
    <3>2. Source(result.pieces) \o <<>> = Source(result.pieces)
      BY <1>1, JoinEmpty, Zenon
    <3>3. QED
      BY <2>1, <3>1, <3>2, Zenon
  <2>3. Held(ch) = pending \o <<ch>>
    BY <1>2, <1>4 DEF Held
  <2>4. Source(result.pieces) \o Held(ch) = Append(input, ch)
    <3>1. (Source(result.pieces) \o pending) \o <<ch>>
            = Source(result.pieces) \o (pending \o <<ch>>)
      BY <1>1, JoinAssociative, Zenon
    <3>2. QED
      BY <1>1, <1>2, <2>3, <3>1, Zenon
  <2>5. Held(ch) \in Text
    BY <1>1, <2>3, JoinType
  <2>6. QED
    BY <1>1, <2>1, <2>2, <2>4, <2>5, MergeShape
<1>5. QED
  BY <1>3, <1>4

\* A result followed by another, and what stays, are the first and the whole of
\* what they stand for.
LEMMA SentConserves ==
    ASSUME NEW before \in Results, NEW sent \in Results, NEW rest \in Text,
           NEW body \in Text, body = Source(sent.pieces) \o rest
    PROVE  Source(MergeResult(before, sent).pieces) \o rest
             = Source(before.pieces) \o body
<1>1. Source(before.pieces) \in Text /\ Source(sent.pieces) \in Text
  BY SourceType DEF Results
<1>2. Source(MergeResult(before, sent).pieces)
        = Source(before.pieces) \o Source(sent.pieces)
  BY MergeShape
<1> DEFINE first == Source(before.pieces)
           second == Source(sent.pieces)
           merged == Source(MergeResult(before, sent).pieces)
<1>3. /\ first \in Text /\ second \in Text /\ merged = first \o second
      /\ body = second \o rest
  BY <1>1, <1>2
<1> HIDE DEF first, second, merged
<1>4. (first \o second) \o rest = first \o (second \o rest)
  BY <1>3, JoinAssociative
<1>5. merged \o rest = first \o body
  BY <1>3, <1>4
<1>6. QED
  BY <1>5, Zenon DEF first, merged

LEMMA PushConserves ==
    ASSUME Conserved, NEW ch \in Characters, PushChar(ch)
    PROVE  Conserved'
<1> DEFINE flushed == IF Overflows(ch) THEN Unresolved(pending) ELSE EmptyResult
           before == MergeResult(result, flushed)
           t == Held(ch)
           k == KeepFrom(t)
<1>1. /\ t \in Text /\ before \in Results
      /\ Source(before.pieces) \o t = Append(input, ch)
  BY FlushConserves
<1>2. input' = Append(input, ch) /\ input' \in Text
  BY DEF PushChar, Conserved, Text
<1>3. \/ pending' = <<>> /\ result' = MergeResult(before, RestoreCandidate(t))
      \/ pending' = t /\ result' = before
      \/ /\ pending' = From(t, k)
         /\ result' = MergeResult(before, Plain(SubSeq(t, 1, k - 1)))
  BY DEF PushChar, Held
<1> HIDE DEF flushed, before, t
<1>4. CASE pending' = <<>> /\ result' = MergeResult(before, RestoreCandidate(t))
  <2> DEFINE sent == RestoreCandidate(t)
  <2>1. <<>> \in Text
    BY DEF Text
  <2>2. sent \in Results /\ Source(sent.pieces) = t
    BY <1>1, CandidateShape
  <2> HIDE DEF sent
  <2>3. Source(sent.pieces) \o <<>> = t
    BY <1>1, <2>2, JoinEmpty
  <2>4. MergeResult(before, sent) \in Results
    BY <1>1, <2>2, MergeShape
  <2>5. Source(MergeResult(before, sent).pieces) \o <<>> = Append(input, ch)
    BY <1>1, <2>1, <2>2, <2>3, SentConserves
  <2>6. QED
    BY <1>2, <1>4, <2>1, <2>4, <2>5 DEF Conserved, NothingLost, sent
<1>5. CASE pending' = t /\ result' = before
  BY <1>1, <1>2, <1>5 DEF Conserved, NothingLost
<1>6. CASE /\ pending' = From(t, k)
           /\ result' = MergeResult(before, Plain(SubSeq(t, 1, k - 1)))
  <2>1. k \in 1..(Len(t) + 1) /\ Len(t) \in Nat
    BY <1>1, KeepFromLeast DEF Text
  <2> HIDE DEF k
  <2> DEFINE a == SubSeq(t, 1, k - 1)
             b == From(t, k)
             sent == Plain(a)
  <2>2. a \in Text /\ b \in Text /\ a \o b = t
    BY <1>1, <2>1, CutJoin, Zenon
  <2>5. sent \in Results /\ Source(sent.pieces) = a
    BY <2>2, PlainShape, SourcePlain
  <2> HIDE DEF a, b, sent
  <2>6. Source(sent.pieces) \o b = t
    BY <2>2, <2>5
  <2>7. MergeResult(before, sent) \in Results
    BY <1>1, <2>5, MergeShape
  <2>8. Source(MergeResult(before, sent).pieces) \o b = Append(input, ch)
    <3>1. Source(MergeResult(before, sent).pieces) \o b
            = Source(before.pieces) \o t
      <4>1. \A rest, body \in Text :
               body = Source(sent.pieces) \o rest
               => Source(MergeResult(before, sent).pieces) \o rest
                    = Source(before.pieces) \o body
        BY <1>1, <2>5, SentConserves
      <4>2. QED
        BY <1>1, <2>2, <2>6, <4>1, Zenon
    <3>2. QED
      BY <1>1, <3>1, Zenon
  <2>9. QED
    BY <1>2, <1>6, <2>2, <2>7, <2>8 DEF Conserved, NothingLost, a, b, sent
<1>7. QED
  BY <1>3, <1>4, <1>5, <1>6

LEMMA FinishConserves == Conserved /\ Finish => Conserved'
<1> SUFFICES ASSUME Conserved, Finish PROVE Conserved'
  OBVIOUS
<1> DEFINE sent == IF IsCandidate(pending) THEN Unresolved(pending) ELSE Plain(pending)
<1>1. pending \in Text /\ result \in Results /\ input \in Text /\ <<>> \in Text
  BY DEF Conserved, Text
<1>2. sent \in Results /\ Source(sent.pieces) = pending
  BY <1>1, PlainShape, SourcePlain
<1>3. /\ result' = MergeResult(result, sent) /\ pending' = <<>> /\ input' = input
  BY DEF Finish
<1> HIDE DEF sent
<1>4. Source(sent.pieces) \o <<>> = pending
  BY <1>1, <1>2, JoinEmpty
<1>5. Source(MergeResult(result, sent).pieces) \o <<>> = input
  <2> DEFINE nothing == <<>>
  <2>1. nothing \in Text /\ Source(sent.pieces) \o nothing = pending
    BY <1>1, <1>4
  <2> HIDE DEF nothing
  <2>2. Source(MergeResult(result, sent).pieces) \o nothing
          = Source(result.pieces) \o pending
    <3>1. \A rest, body \in Text :
             body = Source(sent.pieces) \o rest
             => Source(MergeResult(result, sent).pieces) \o rest
                  = Source(result.pieces) \o body
      BY <1>1, <1>2, SentConserves
    <3>2. QED
      BY <1>1, <2>1, <3>1, Zenon
  <2>3. Source(result.pieces) \o pending = input
    BY DEF Conserved, NothingLost
  <2>4. QED
    BY <2>2, <2>3, Zenon DEF nothing
<1>6. MergeResult(result, sent) \in Results
  BY <1>1, <1>2, MergeShape
<1>7. QED
  BY <1>1, <1>3, <1>5, <1>6 DEF Conserved, NothingLost

LEMMA StreamConserved == Spec => []Conserved
<1>1. Init => Conserved
  <2>1. SUFFICES ASSUME Init PROVE Conserved
    OBVIOUS
  <2>2. <<>> \in Text
    BY DEF Text
  <2>3. Source(EmptyResult.pieces) \o <<>> = <<>>
    BY <2>2, EmptyShape, JoinEmpty
  <2>4. input = <<>> /\ pending = <<>> /\ result = EmptyResult
    BY <2>1 DEF Init
  <2>5. NothingLost
    BY <2>3, <2>4, Zenon DEF NothingLost
  <2>6. QED
    BY <2>2, <2>4, <2>5, EmptyShape DEF Conserved
<1>2. Conserved /\ [Next]_vars => Conserved'
  <2>1. CASE UNCHANGED vars
    BY <2>1 DEF vars, Conserved, NothingLost
  <2>2. QED
    BY <2>1, PushConserves, FinishConserves DEF Next
<1>3. QED
  BY <1>1, <1>2, PTL DEF Spec

\* At every moment, what has gone out stands for the stream up to what is held
\* back, character for character.
THEOREM NothingOfTheStreamIsLost == Spec => []NothingLost
<1>1. Conserved => NothingLost
  BY DEF Conserved
<1>2. QED
  BY <1>1, StreamConserved, PTL

--------------------------------------------------------------------------------
(***************************************************************************)
(* Where a text is found for the first time                                *)
(***************************************************************************)

\* From i on, s is found in the text at j and nowhere before j.
FirstAt(text, s, i, j) ==
    /\ i =< j
    /\ FoundAt(text, s, j)
    /\ \A k \in i..(j - 1) : ~FoundAt(text, s, k)

\* The least of the occurrences is the first.
LEMMA FirstIsMin ==
    ASSUME NEW text \in Text, NEW s \in Text, Len(s) > 0, NEW i \in Nat \ {0}
    PROVE  /\ Occurrences(text, s, i) # {}
                => FirstAt(text, s, i, Min(Occurrences(text, s, i)))
           /\ \A j \in Nat : FirstAt(text, s, i, j) =>
                /\ Occurrences(text, s, i) # {}
                /\ Min(Occurrences(text, s, i)) = j
           /\ Occurrences(text, s, i) = {}
                <=> \A j \in Nat : i =< j => ~FoundAt(text, s, j)
<1> DEFINE S == Occurrences(text, s, i)
<1>1. Len(text) \in Nat /\ Len(s) \in Nat
  BY DEF Text
<1>2. S = {j \in i..Len(text) : FoundAt(text, s, j)}
  BY OccurrencesElements
<1>3. \A j \in Nat : FoundAt(text, s, j) => j =< Len(text)
  BY <1>1 DEF FoundAt
<1>4. \A j \in Nat : i =< j /\ FoundAt(text, s, j) <=> j \in S
  BY <1>1, <1>2, <1>3
<1>5. S \subseteq Nat
  BY <1>1, <1>2
<1> HIDE DEF S
<1>6. S # {} => Min(S) \in S /\ \A j \in S : Min(S) =< j
  BY <1>5, MinIsLeast
<1>7. ASSUME S # {} PROVE FirstAt(text, s, i, Min(S))
  <2>1. Min(S) \in Nat /\ i =< Min(S) /\ FoundAt(text, s, Min(S))
    BY <1>4, <1>5, <1>6, <1>7
  <2>2. ASSUME NEW k \in i..(Min(S) - 1), FoundAt(text, s, k) PROVE FALSE
    <3>1. k \in Nat /\ i =< k /\ ~(Min(S) =< k)
      BY <2>1
    <3>2. k \in S
      BY <1>4, <2>2, <3>1
    <3>3. QED
      BY <1>6, <3>1, <3>2
  <2>3. QED
    BY <2>1, <2>2 DEF FirstAt
<1>8. ASSUME NEW j \in Nat, FirstAt(text, s, i, j) PROVE S # {} /\ Min(S) = j
  <2>1. j \in S
    BY <1>4, <1>8 DEF FirstAt
  <2>2. Min(S) \in S /\ Min(S) =< j /\ Min(S) \in Nat
    BY <1>5, <1>6, <2>1
  <2>3. i =< Min(S) /\ FoundAt(text, s, Min(S))
    BY <1>4, <2>2
  <2>4. ~(Min(S) \in i..(j - 1))
    BY <1>8, <2>3 DEF FirstAt
  <2>5. QED
    BY <2>1, <2>2, <2>3, <2>4
<1>9. S = {} <=> \A j \in Nat : i =< j => ~FoundAt(text, s, j)
  BY <1>4, <1>5
<1>10. QED
  BY <1>7, <1>8, <1>9 DEF S

\* What is found stays where it is when the text goes on, and what is found
\* later ends with the new character.
LEMMA FoundStays ==
    ASSUME NEW text \in Text, NEW s \in Text, NEW ch \in Characters,
           NEW j \in Nat \ {0}
    PROVE  /\ FoundAt(text, s, j) => FoundAt(Append(text, ch), s, j)
           /\ FoundAt(Append(text, ch), s, j) =>
                \/ FoundAt(text, s, j)
                \/ j + Len(s) - 1 = Len(text) + 1
<1> DEFINE more == Append(text, ch)
<1>1. /\ more \in Text /\ Len(more) = Len(text) + 1 /\ Len(text) \in Nat
      /\ \A k \in 1..Len(text) : more[k] = text[k]
      /\ Len(s) \in Nat
  BY DEF Text
<1> HIDE DEF more
<1>2. ASSUME j + Len(s) - 1 =< Len(text)
      PROVE  \A k \in 1..Len(s) : more[j + k - 1] = text[j + k - 1]
  BY <1>1, <1>2
<1>3. FoundAt(text, s, j) => FoundAt(more, s, j)
  BY <1>1, <1>2 DEF FoundAt
<1>4. FoundAt(more, s, j) /\ j + Len(s) - 1 =< Len(text) => FoundAt(text, s, j)
  BY <1>1, <1>2 DEF FoundAt
<1>5. FoundAt(more, s, j) => j + Len(s) - 1 =< Len(text) + 1
  BY <1>1 DEF FoundAt
<1>6. QED
  BY <1>1, <1>3, <1>4, <1>5 DEF more

LEMMA FirstStays ==
    ASSUME NEW text \in Text, NEW s \in Text, NEW ch \in Characters,
           NEW i \in Nat \ {0}, NEW j \in Nat, FirstAt(text, s, i, j)
    PROVE  FirstAt(Append(text, ch), s, i, j)
<1>1. i =< j /\ FoundAt(text, s, j) /\ j \in Nat \ {0}
  BY DEF FirstAt
<1>2. Len(text) \in Nat /\ Len(s) \in Nat
  BY DEF Text
<1>3. ASSUME NEW k \in i..(j - 1), FoundAt(Append(text, ch), s, k) PROVE FALSE
  <2>1. k \in Nat \ {0} /\ k < j
    BY <1>1
  <2>2. j + Len(s) - 1 =< Len(text)
    BY <1>1 DEF FoundAt
  <2>3. FoundAt(text, s, k)
    BY <1>2, <1>3, <2>1, <2>2, FoundStays
  <2>4. QED
    BY <2>3 DEF FirstAt
<1>4. QED
  BY <1>1, <1>3, FoundStays DEF FirstAt

\* What is found in a part of a text is found in the text.
LEMMA FoundInPart ==
    ASSUME NEW text \in Text, NEW s \in Text, NEW i \in 1..(Len(text) + 1),
           NEW j \in Nat \ {0}
    PROVE  FoundAt(From(text, i), s, j) <=> FoundAt(text, s, i + j - 1)
<1> DEFINE t == From(text, i)
<1>1. Len(text) \in Nat /\ Len(s) \in Nat /\ i \in Nat
  BY DEF Text
<1>2. /\ t \in Text /\ Len(t) = Len(text) - i + 1
      /\ \A k \in 1..(Len(text) - i + 1) : t[k] = text[i + k - 1]
  BY FromElements
<1> HIDE DEF t
<1>3. j + Len(s) - 1 =< Len(t) <=> (i + j - 1) + Len(s) - 1 =< Len(text)
  BY <1>1, <1>2
<1>4. ASSUME j + Len(s) - 1 =< Len(t), NEW k \in 1..Len(s)
      PROVE  t[j + k - 1] = text[(i + j - 1) + k - 1]
  <2>1. j + k - 1 \in 1..(Len(text) - i + 1)
    BY <1>1, <1>2, <1>4
  <2>2. i + (j + k - 1) - 1 = (i + j - 1) + k - 1
    BY <1>1
  <2>3. t[j + k - 1] = text[i + (j + k - 1) - 1]
    BY <1>2, <2>1
  <2>4. QED
    BY <2>2, <2>3
<1>5. QED
  BY <1>3, <1>4 DEF FoundAt, t

\* A prefix cannot begin at i, whatever follows the text.
Dead(text, i) ==
    \E k \in 1..Len(Prefix) :
        i + k - 1 =< Len(text) /\ text[i + k - 1] # Prefix[k]

LEMMA DeadStays ==
    ASSUME NEW text \in Text, NEW ch \in Characters, NEW i \in Nat \ {0},
           Dead(text, i)
    PROVE  Dead(Append(text, ch), i) /\ ~FoundAt(text, Prefix, i)
<1>1. /\ Len(Append(text, ch)) = Len(text) + 1 /\ Len(text) \in Nat
      /\ \A k \in 1..Len(text) : Append(text, ch)[k] = text[k]
      /\ Len(Prefix) \in Nat
  BY MarkerAssumption DEF Text
<1>2. PICK k \in 1..Len(Prefix) : i + k - 1 =< Len(text) /\ text[i + k - 1] # Prefix[k]
  BY DEF Dead
<1>3. i + k - 1 \in 1..Len(text)
  BY <1>1, <1>2
<1>4. i + k - 1 =< Len(text) + 1 /\ Append(text, ch)[i + k - 1] # Prefix[k]
  BY <1>1, <1>2, <1>3
<1>5. QED
  BY <1>1, <1>2, <1>4 DEF Dead, FoundAt

\* A text of which neither a candidate nor the beginning of a prefix is left
\* from i on is dead there.
LEMMA DeadOrBeginning ==
    ASSUME NEW text \in Text, NEW i \in 1..(Len(text) + 1),
           ~MayBecomeCandidate(From(text, i)), ~IsCandidate(From(text, i))
    PROVE  Dead(text, i)
<1> DEFINE t == From(text, i)
<1>1. /\ Len(text) \in Nat /\ i \in Nat \ {0}
      /\ Prefix \in Text /\ Len(Prefix) \in Nat
  BY MarkerAssumption DEF Text
<1>2. /\ t \in Text /\ Len(t) = Len(text) - i + 1
      /\ \A k \in 1..(Len(text) - i + 1) : t[k] = text[i + k - 1]
  BY FromElements
<1>3. ~FoundAt(Prefix, t, 1) /\ ~FoundAt(t, Prefix, 1)
  BY <1>1, <1>2, StartsWithElements DEF MayBecomeCandidate, IsCandidate
<1> HIDE DEF t
<1>4. \E k \in 1..Len(Prefix) : k =< Len(t) /\ t[k] # Prefix[k]
  <2>1. SUFFICES ASSUME \A k \in 1..Len(Prefix) : k =< Len(t) => t[k] = Prefix[k]
                 PROVE  FALSE
    OBVIOUS
  <2>2. CASE Len(t) =< Len(Prefix)
    <3>1. \A k \in 1..Len(t) : Prefix[1 + k - 1] = t[k]
      BY <1>1, <1>2, <2>1, <2>2
    <3>2. QED
      BY <1>1, <1>2, <1>3, <2>2, <3>1 DEF FoundAt
  <2>3. CASE ~(Len(t) =< Len(Prefix))
    <3>1. \A k \in 1..Len(Prefix) : t[1 + k - 1] = Prefix[k]
      BY <1>1, <1>2, <2>1, <2>3
    <3>2. QED
      BY <1>1, <1>2, <1>3, <2>3, <3>1 DEF FoundAt
  <2>4. QED
    BY <2>2, <2>3
<1>5. PICK k \in 1..Len(Prefix) : k =< Len(t) /\ t[k] # Prefix[k]
  BY <1>4
<1>6. i + k - 1 =< Len(text) /\ text[i + k - 1] # Prefix[k]
  BY <1>1, <1>2, <1>5
<1>7. QED
  BY <1>6 DEF Dead

--------------------------------------------------------------------------------
(***************************************************************************)
(* The bytes of a part                                                     *)
(***************************************************************************)
LEMMA BytesConcat ==
    ASSUME NEW p \in Text, NEW q \in Text
    PROVE  Bytes(p \o q) = Bytes(p) + Bytes(q)
<1> DEFINE Good(x) == Bytes(p \o x) = Bytes(p) + Bytes(x)
           Bad == {n \in Nat : \E x \in Text : Len(x) = n /\ ~Good(x)}
<1>1. Bad = {}
  <2>1. SUFFICES ASSUME Bad # {} PROVE FALSE
    OBVIOUS
  <2>2. PICK m \in Bad : \A j \in Bad : m =< j
    <3>1. Bad \subseteq Nat
      OBVIOUS
    <3> HIDE DEF Bad
    <3>2. QED
      BY <2>1, <3>1, LeastElement
  <2>3. PICK x \in Text : Len(x) = m /\ ~Good(x)
    BY <2>2
  <2>4. x # <<>>
    <3>0. <<>> \in Text
      BY DEF Text
    <3>1. Bytes(p) \in Nat /\ Bytes(<<>>) = 0 /\ p \o <<>> = p
      BY <3>0, BytesType, JoinEmpty
    <3>2. Good(<<>>)
      BY <3>1
    <3>3. QED
      BY <2>3, <3>2
  <2>5. PICK y \in Text, ch \in Characters : x = Append(y, ch)
    BY <2>3, <2>4, SequenceEmptyOrAppend DEF Text
  <2>6. Len(y) \in Nat /\ Len(x) = Len(y) + 1
    BY <2>5 DEF Text
  <2>7. Good(y)
    <3>1. ~(m =< Len(y))
      BY <2>3, <2>6
    <3>2. Len(y) \notin Bad
      BY <2>2, <3>1
    <3>3. QED
      BY <2>6, <3>2
  <2>8. p \o x = Append(p \o y, ch) /\ p \o y \in Text
    <3> DEFINE last == <<ch>>
    <3>1. last \in Text /\ p \o y \in Text
      <4>1. last \in Text
        BY <2>5 DEF Text
      <4>2. p \o y \in Text
        BY <2>5, JoinType
      <4>3. QED
        BY <4>1, <4>2
    <3> HIDE DEF Good, Bad
    <3>2. x = y \o last /\ Append(p \o y, ch) = (p \o y) \o last
      <4>1. x = y \o last
        BY <2>5, AppendIsConcat DEF Text
      <4>2. Append(p \o y, ch) = (p \o y) \o last
        BY <2>5, <3>1, AppendIsConcat, Zenon DEF Text
      <4>3. QED
        BY <4>1, <4>2
    <3> HIDE DEF last
    <3>3. (p \o y) \o last = p \o (y \o last)
      <4>1. \A u, v, w \in Text : (u \o v) \o w = u \o (v \o w)
        BY JoinAssociative
      <4>2. p \in Text /\ y \in Text /\ last \in Text
        BY <2>5, <3>1
      <4>3. QED
        BY <4>1, <4>2, Zenon
    <3>4. QED
      BY <3>1, <3>2, <3>3, Zenon
  <2>9. Bytes(p \o x) = Bytes(p \o y) + Width[ch]
    BY <2>8, BytesAppend
  <2>10. Bytes(x) = Bytes(y) + Width[ch]
    BY <2>5, BytesAppend
  <2>11. Bytes(p) \in Nat /\ Bytes(y) \in Nat /\ Width[ch] \in Nat
    BY BytesType, WidthAssumption
  <2>12. Bytes(p \o x) = Bytes(p) + Bytes(x)
    BY <2>7, <2>9, <2>10, <2>11
  <2>13. QED
    BY <2>3, <2>12
<1>2. Len(q) \in Nat
  BY DEF Text
<1>3. QED
  BY <1>1, <1>2

LEMMA BytesOfParts ==
    ASSUME NEW text \in Text, NEW i \in Nat \ {0}, NEW j \in Nat, NEW k \in Nat,
           i =< j + 1, j =< k, k =< Len(text)
    PROVE  /\ Bytes(SubSeq(text, i, j)) \in Nat
           /\ Bytes(SubSeq(text, j + 1, k)) \in Nat
           /\ Bytes(SubSeq(text, i, k))
                = Bytes(SubSeq(text, i, j)) + Bytes(SubSeq(text, j + 1, k))
<1> DEFINE a == SubSeq(text, i, j)
           b == SubSeq(text, j + 1, k)
<1>1. Len(text) \in Nat /\ j =< Len(text) /\ j + 1 \in Nat \ {0} /\ j + 1 =< k + 1
  BY DEF Text
<1>2. a \in Text /\ b \in Text
  BY <1>1, SliceElements
<1>3. a \o b = SubSeq(text, i, k)
  BY SliceJoin, Zenon
<1> HIDE DEF a, b
<1>4. Bytes(a \o b) = Bytes(a) + Bytes(b)
  BY <1>2, BytesConcat
<1>5. Bytes(a) \in Nat /\ Bytes(b) \in Nat
  BY <1>2, BytesType
<1>6. QED
  BY <1>3, <1>4, <1>5 DEF a, b

--------------------------------------------------------------------------------
(***************************************************************************)
(* The candidates of a text                                                *)
(***************************************************************************)

\* Max picks the largest element.
LEMMA MaxIsLargest ==
    ASSUME NEW N \in Nat, NEW S, S \subseteq 0..N, S # {}
    PROVE  Max(S) \in S /\ \A j \in S : j =< Max(S)
<1> DEFINE Above == {u \in Nat : \A j \in S : j =< u}
<1>1. N \in Above
  OBVIOUS
<1>2. PICK u \in Above : \A v \in Above : u =< v
  <2>1. Above \subseteq Nat
    OBVIOUS
  <2> HIDE DEF Above
  <2>2. QED
    BY <1>1, <2>1, LeastElement
<1>3. u \in S
  <2>1. SUFFICES ASSUME u \notin S PROVE FALSE
    OBVIOUS
  <2>2. \A j \in S : j \in Nat /\ j < u
    BY <1>2, <2>1
  <2>3. u - 1 \in Nat
    <3>1. PICK j \in S : TRUE
      OBVIOUS
    <3>2. j \in Nat /\ j < u /\ u \in Nat
      BY <1>2, <2>2, <3>1
    <3>3. QED
      BY <3>2
  <2>4. \A j \in S : j =< u - 1
    BY <1>2, <2>2
  <2>5. u - 1 \in Above
    BY <2>3, <2>4
  <2>6. QED
    BY <1>2, <2>3, <2>5
<1>4. \A j \in S : u >= j
  BY <1>2
<1>5. \E x \in S : \A j \in S : x >= j
  BY <1>3, <1>4
<1>6. Max(S) \in S /\ \A j \in S : Max(S) >= j
  BY <1>5 DEF Max
<1>7. \A j \in S : j \in Nat
  OBVIOUS
<1>8. QED
  BY <1>6, <1>7

\* A candidate ends after its first suffix.
LEMMA ClosedEnd ==
    ASSUME NEW text \in Text, NEW i \in Nat \ {0}, NEW j \in Nat,
           FirstAt(text, Suffix, i + Len(Prefix), j)
    PROVE  CandidateEnd(text, i) = j + Len(Suffix)
<1>1. /\ Suffix \in Text /\ Len(Suffix) > 0 /\ Len(Prefix) \in Nat
      /\ i + Len(Prefix) \in Nat \ {0}
  BY MarkerAssumption DEF Text
<1>2. /\ Occurrences(text, Suffix, i + Len(Prefix)) # {}
      /\ Min(Occurrences(text, Suffix, i + Len(Prefix))) = j
  BY <1>1, FirstIsMin
<1>3. QED
  BY <1>2 DEF CandidateEnd

\* Without a suffix it ends where its body exceeds the limit, or with the text.
LEMMA OpenEnd ==
    ASSUME NEW text \in Text, NEW i \in Nat \ {0}, FoundAt(text, Prefix, i),
           Occurrences(text, Suffix, i + Len(Prefix)) = {}
    PROVE  LET body == i + Len(Prefix)
               end == CandidateEnd(text, i) IN
           /\ end \in body..(Len(text) + 1)
           /\ Bytes(SubSeq(text, body, end - 1)) =< MaxBytes
           /\ \A j \in body..(Len(text) + 1) :
                 Bytes(SubSeq(text, body, j - 1)) =< MaxBytes => j =< end
<1> DEFINE body == i + Len(Prefix)
           S == {j \in body..(Len(text) + 1) :
                    Bytes(SubSeq(text, body, j - 1)) =< MaxBytes}
<1>1. Len(text) \in Nat /\ Len(Prefix) \in Nat /\ body \in Nat \ {0}
  BY MarkerAssumption DEF Text
<1>2. body =< Len(text) + 1
  BY <1>1 DEF FoundAt
<1>3. body \in S
  <2>1. SubSeq(text, body, body - 1) = <<>>
    <3>1. body \in Int /\ body - 1 \in Int /\ body - 1 < body
      BY <1>1
    <3>2. QED
      BY <3>1, SubSeqEmpty
  <2>2. <<>> \in Text
    BY DEF Text
  <2>3. Bytes(SubSeq(text, body, body - 1)) = 0
    BY <2>1, <2>2, BytesType
  <2>4. 0 =< MaxBytes
    BY BoundAssumption
  <2>5. QED
    BY <1>1, <1>2, <2>3, <2>4
<1>4. CandidateEnd(text, i) = Max(S)
  BY DEF CandidateEnd
<1>5. S \subseteq 0..(Len(text) + 1) /\ Len(text) + 1 \in Nat
  BY <1>1
<1>6. \A j \in S : /\ j \in body..(Len(text) + 1)
                   /\ Bytes(SubSeq(text, body, j - 1)) =< MaxBytes
  OBVIOUS
<1>7. \A j \in body..(Len(text) + 1) :
         Bytes(SubSeq(text, body, j - 1)) =< MaxBytes => j \in S
  OBVIOUS
<1> HIDE DEF S
<1>8. Max(S) \in S /\ \A j \in S : j =< Max(S)
  BY <1>3, <1>5, MaxIsLargest
<1>9. QED
  BY <1>4, <1>6, <1>7, <1>8

RangeSet == [start : Nat, end : Nat]

\* r is the first candidate of the text from i on, as the scan cuts it.
NextCandidate(text, i, r) ==
    FirstAt(text, Prefix, i, r.start) /\ r.end = CandidateEnd(text, r.start)

\* The ranges are the first candidates of the text.
Scanned(text, R) ==
    /\ R \in Seq(RangeSet)
    /\ \A n \in 1..Len(R) : NextCandidate(text, Cursor(R, n - 1), R[n])

LEMMA NextBounds ==
    ASSUME NEW text \in Text, NEW i \in Nat \ {0}, NEW r,
           r.start \in Nat, NextCandidate(text, i, r)
    PROVE  /\ i =< r.start /\ r.end \in Nat
           /\ r.start + Len(Prefix) =< r.end /\ r.end =< Len(text) + 1
<1> DEFINE body == r.start + Len(Prefix)
           closing == Occurrences(text, Suffix, body)
<1>1. /\ i =< r.start /\ r.start \in Nat \ {0}
      /\ FoundAt(text, Prefix, r.start) /\ r.end = CandidateEnd(text, r.start)
  BY DEF NextCandidate, FirstAt
<1>2. /\ Suffix \in Text /\ Len(Suffix) \in Nat /\ Len(Suffix) > 0
      /\ Len(Prefix) \in Nat /\ Len(text) \in Nat /\ body \in Nat \ {0}
  BY <1>1, MarkerAssumption DEF Text
<1>3. CASE closing # {}
  <2>1. FirstAt(text, Suffix, body, Min(closing))
    BY <1>2, <1>3, FirstIsMin
  <2>2. Min(closing) \in Nat
    <3>1. closing \subseteq Nat
      BY <1>2 DEF Occurrences
    <3> HIDE DEF closing
    <3>2. QED
      BY <1>3, <3>1, MinIsLeast
  <2>3. r.end = Min(closing) + Len(Suffix)
    BY <1>1, <2>1, <2>2, ClosedEnd
  <2>4. body =< Min(closing) /\ Min(closing) + Len(Suffix) - 1 =< Len(text)
    BY <2>1 DEF FirstAt, FoundAt
  <2> HIDE DEF closing
  <2>5. QED
    BY <1>1, <1>2, <2>2, <2>3, <2>4
<1>4. CASE closing = {}
  <2>1. r.end \in body..(Len(text) + 1)
    BY <1>1, <1>4, OpenEnd
  <2>2. QED
    BY <1>1, <1>2, <2>1
<1>5. QED
  BY <1>3, <1>4

\* The scan moves on with every candidate and stays within the text.
LEMMA CursorMovesOn ==
    ASSUME NEW text \in Text, NEW R, Scanned(text, R)
    PROVE  /\ Len(R) \in Nat
           /\ \A n \in 0..Len(R) : /\ Cursor(R, n) \in Nat
                                   /\ n + 1 =< Cursor(R, n)
                                   /\ Cursor(R, n) =< Len(text) + 1
<1> DEFINE Good(n) == /\ Cursor(R, n) \in Nat
                      /\ n + 1 =< Cursor(R, n)
                      /\ Cursor(R, n) =< Len(text) + 1
           Bad == {n \in 0..Len(R) : ~Good(n)}
<1>1. /\ Len(R) \in Nat /\ Len(text) \in Nat
      /\ Len(Prefix) \in Nat /\ Len(Prefix) > 0
      /\ \A n \in 1..Len(R) : R[n] \in RangeSet
  BY MarkerAssumption DEF Scanned, Text
<1>2. Bad = {}
  <2>1. SUFFICES ASSUME Bad # {} PROVE FALSE
    OBVIOUS
  <2>2. PICK m \in Bad : \A j \in Bad : m =< j
    <3>1. Bad \subseteq Nat
      OBVIOUS
    <3> HIDE DEF Bad
    <3>2. QED
      BY <2>1, <3>1, LeastElement
  <2>3. m # 0
    <3>1. Good(0)
      BY <1>1 DEF Cursor
    <3>2. QED
      BY <2>2, <3>1
  <2>4. m \in 1..Len(R) /\ m - 1 \in 0..Len(R) /\ ~(m =< m - 1)
    BY <1>1, <2>2, <2>3
  <2>5. Good(m - 1)
    BY <2>2, <2>4
  <2>6. /\ NextCandidate(text, Cursor(R, m - 1), R[m])
        /\ R[m].start \in Nat
    BY <1>1, <2>4 DEF Scanned, RangeSet
  <2>7. Cursor(R, m - 1) \in Nat \ {0}
    BY <2>4, <2>5
  <2>8. /\ Cursor(R, m - 1) =< R[m].start /\ R[m].end \in Nat
        /\ R[m].start + Len(Prefix) =< R[m].end /\ R[m].end =< Len(text) + 1
    BY <2>6, <2>7, NextBounds
  <2>9. Cursor(R, m) = R[m].end
    BY <2>3 DEF Cursor
  <2>10. m + 1 =< R[m].end
    BY <1>1, <2>4, <2>5, <2>6, <2>8
  <2>11. Good(m)
    BY <2>8, <2>9, <2>10
  <2>12. QED
    BY <2>2, <2>11
<1>3. QED
  BY <1>1, <1>2

LEMMA RangeFields ==
    ASSUME NEW R \in Seq(RangeSet), NEW n \in 1..Len(R)
    PROVE  R[n] \in RangeSet /\ R[n].start \in Nat /\ R[n].end \in Nat
<1>1. R[n] \in RangeSet
  OBVIOUS
<1>2. QED
  BY <1>1 DEF RangeSet

LEMMA CursorAppend ==
    ASSUME NEW R \in Seq(RangeSet), NEW r \in RangeSet
    PROVE  /\ Append(R, r) \in Seq(RangeSet) /\ Len(Append(R, r)) = Len(R) + 1
           /\ Append(R, r)[Len(R) + 1] = r
           /\ \A n \in 1..Len(R) : Append(R, r)[n] = R[n]
           /\ \A n \in 0..Len(R) : Cursor(Append(R, r), n) = Cursor(R, n)
           /\ Cursor(Append(R, r), Len(R) + 1) = r.end
<1>1. /\ Append(R, r) \in Seq(RangeSet) /\ Len(Append(R, r)) = Len(R) + 1
      /\ Append(R, r)[Len(R) + 1] = r
      /\ \A n \in 1..Len(R) : Append(R, r)[n] = R[n]
      /\ Len(R) \in Nat
  OBVIOUS
<1>2. \A n \in 0..Len(R) : Cursor(Append(R, r), n) = Cursor(R, n)
  <2> TAKE n \in 0..Len(R)
  <2>1. n = 0 \/ n \in 1..Len(R)
    BY <1>1
  <2>2. QED
    BY <1>1, <2>1 DEF Cursor
<1>3. Cursor(Append(R, r), Len(R) + 1) = r.end
  <2>1. Len(R) + 1 # 0
    BY <1>1
  <2>2. QED
    BY <1>1, <2>1 DEF Cursor
<1>4. QED
  BY <1>1, <1>2, <1>3

LEMMA ScannedAppend ==
    ASSUME NEW text \in Text, NEW R, Scanned(text, R), NEW r \in RangeSet,
           NextCandidate(text, Cursor(R, Len(R)), r)
    PROVE  Scanned(text, Append(R, r))
<1> DEFINE more == Append(R, r)
<1>1. R \in Seq(RangeSet) /\ Len(R) \in Nat
  BY DEF Scanned
<1>2. /\ more \in Seq(RangeSet) /\ Len(more) = Len(R) + 1
      /\ more[Len(R) + 1] = r
      /\ \A n \in 1..Len(R) : more[n] = R[n]
      /\ \A n \in 0..Len(R) : Cursor(more, n) = Cursor(R, n)
  BY <1>1, CursorAppend
<1> HIDE DEF more
<1>3. ASSUME NEW n \in 1..Len(more)
      PROVE  NextCandidate(text, Cursor(more, n - 1), more[n])
  <2>1. CASE n = Len(R) + 1
    <3>1. n - 1 = Len(R) /\ Len(R) \in 0..Len(R)
      BY <1>1, <2>1
    <3>2. Cursor(more, n - 1) = Cursor(R, Len(R)) /\ more[n] = r
      BY <1>2, <2>1, <3>1
    <3>3. QED
      BY <3>2
  <2>2. CASE n # Len(R) + 1
    <3>1. n \in 1..Len(R) /\ n - 1 \in 0..Len(R)
      BY <1>1, <1>2, <2>2
    <3>2. Cursor(more, n - 1) = Cursor(R, n - 1) /\ more[n] = R[n]
      BY <1>2, <3>1
    <3>3. QED
      BY <3>1, <3>2 DEF Scanned
  <2>3. QED
    BY <2>1, <2>2
<1>4. QED
  BY <1>2, <1>3 DEF Scanned, more

\* An iteration of the scan adds the next candidate, if there is one.
LEMMA ScanStays ==
    ASSUME NEW text \in Text, NEW R, Scanned(text, R)
    PROVE  /\ Scanned(text, Scan(text, R))
           /\ \/ /\ Occurrences(text, Prefix, Cursor(R, Len(R))) = {}
                 /\ Scan(text, R) = R
              \/ Len(Scan(text, R)) = Len(R) + 1
<1> DEFINE i == Cursor(R, Len(R))
           starts == Occurrences(text, Prefix, i)
           r == [start |-> Min(starts), end |-> CandidateEnd(text, Min(starts))]
<1>1. R \in Seq(RangeSet) /\ Len(R) \in Nat /\ Len(R) \in 0..Len(R)
  BY DEF Scanned
<1>2. i \in Nat \ {0}
  BY <1>1, CursorMovesOn
<1>3. Prefix \in Text /\ Len(Prefix) > 0
  BY MarkerAssumption DEF Text
<1>4. CASE starts = {}
  BY <1>4 DEF Scan
<1>5. CASE starts # {}
  <2>1. starts \subseteq Nat
    BY <1>2 DEF Occurrences
  <2> HIDE DEF i
  <2>2. FirstAt(text, Prefix, i, Min(starts))
    BY <1>2, <1>3, <1>5, FirstIsMin
  <2>3. Min(starts) \in Nat
    <3> HIDE DEF starts
    <3>1. QED
      BY <1>5, <2>1, MinIsLeast
  <2>4. r.start = Min(starts) /\ r.end = CandidateEnd(text, Min(starts))
    OBVIOUS
  <2>5. NextCandidate(text, i, r)
    BY <2>2, <2>4 DEF NextCandidate
  <2>6. r \in RangeSet
    <3>1. r.start \in Nat
      BY <2>3
    <3> HIDE DEF r
    <3>2. r.end \in Nat
      BY <1>2, <2>5, <3>1, NextBounds
    <3>3. QED
      BY <3>1, <3>2 DEF RangeSet, r
  <2>7. Scan(text, R) = Append(R, r)
    BY <1>5 DEF Scan, i
  <2> HIDE DEF r
  <2>8. Scanned(text, Append(R, r))
    BY <2>5, <2>6, ScannedAppend DEF i
  <2>9. Len(Append(R, r)) = Len(R) + 1
    BY <1>1, <2>6
  <2>10. QED
    BY <2>7, <2>8, <2>9
<1>6. QED
  BY <1>4, <1>5

\* The candidates of a text are the ranges that the scan finds, to the end.
LEMMA CandidatesScanned ==
    ASSUME NEW text \in Text
    PROVE  LET C == Candidates(text) IN
           /\ Scanned(text, C)
           /\ Occurrences(text, Prefix, Cursor(C, Len(C))) = {}
<1> DEFINE N == Len(text)
           S == {R \in Seq(RangeSet) : Scanned(text, R)}
           base == <<>>
           step == [n \in 1..N |-> [R \in S |-> Scan(text, R)]]
           Solves(f) ==
              f = [n \in 0..N |-> IF n = 0 THEN base ELSE Scan(text, f[n - 1])]
           found == CHOOSE f : Solves(f)
           Open(R) == Occurrences(text, Prefix, Cursor(R, Len(R))) # {}
<1>1. N \in Nat
  BY DEF Text
<1>2. base \in S
  BY DEF Scanned
<1>3. \A R \in S : Scan(text, R) \in S
  BY ScanStays DEF Scanned
<1>4. Candidates(text) = found[N]
  BY DEF Candidates
<1>5. ASSUME NEW R \in S
      PROVE  Scanned(text, R) /\ (Open(R) => Len(Scan(text, R)) = Len(R) + 1)
                              /\ (~Open(R) => Scan(text, R) = R)
  <2>1. Scanned(text, R)
    OBVIOUS
  <2>2. ~Open(R) => Scan(text, R) = R
    BY DEF Scan
  <2>3. Open(R) => Len(Scan(text, R)) = Len(R) + 1
    BY <2>1, ScanStays
  <2>4. QED
    BY <2>1, <2>2, <2>3
<1>6. Len(base) = 0
  OBVIOUS
<1> HIDE DEF S, base, N
<1>7. step \in [1..N -> [S -> S]] /\ \A n \in 1..N : step[n] = [R \in S |-> Scan(text, R)]
  BY <1>3
<1> HIDE DEF step
<1>8. \E f : Solves(f)
  <2>1. PICK f \in [0..N -> S] : Iterates(f, base, step, N)
    BY <1>1, <1>2, <1>7, RecursionExists
  <2>2. \A n \in 1..N : f[n] = Scan(text, f[n - 1])
    <3>1. \A n \in 1..N : n - 1 \in 0..N
      BY <1>1
    <3>2. \A n \in 1..N : f[n] = step[n][f[n - 1]] /\ f[n - 1] \in S
      BY <2>1, <3>1 DEF Iterates
    <3>3. QED
      BY <1>7, <3>2
  <2>3. \A n \in 0..N : f[n] = IF n = 0 THEN base ELSE Scan(text, f[n - 1])
    BY <1>1, <2>1, <2>2 DEF Iterates
  <2>4. Solves(f)
    BY <2>1, <2>3
  <2>5. QED
    BY <2>4
<1>9. Solves(found)
  BY <1>8
<1>10. found[0] = base /\ \A n \in 1..N : found[n] = Scan(text, found[n - 1])
  <2> HIDE DEF found
  <2>1. \A n \in 0..N : found[n] = IF n = 0 THEN base ELSE Scan(text, found[n - 1])
    BY <1>9
  <2>2. QED
    BY <1>1, <2>1
<1> HIDE DEF found
<1>11. \A n \in 0..N : found[n] \in S
  <2>1. \A n \in 1..N : found[n - 1] \in S => found[n] = step[n][found[n - 1]]
    BY <1>7, <1>10
  <2>2. QED
    BY <1>1, <1>2, <1>7, <1>10, <2>1, RecursionTyped
<1>12. \A n \in 0..N : Open(found[n]) => Len(found[n]) = n
  <2> DEFINE Bad == {n \in 0..N : Open(found[n]) /\ Len(found[n]) # n}
  <2>1. SUFFICES Bad = {}
    BY <1>1
  <2>2. SUFFICES ASSUME Bad # {} PROVE FALSE
    OBVIOUS
  <2>3. PICK m \in Bad : \A j \in Bad : m =< j
    <3>1. Bad \subseteq Nat
      OBVIOUS
    <3> HIDE DEF Bad
    <3>2. QED
      BY <2>2, <3>1, LeastElement
  <2>4. m # 0 /\ m \in 0..N /\ Open(found[m]) /\ Len(found[m]) # m
    BY <1>6, <1>10, <2>3
  <2>5. m - 1 \in 0..N /\ m \in 1..N /\ ~(m =< m - 1)
    BY <1>1, <2>4
  <2>6. m - 1 \notin Bad
    BY <2>3, <2>5
  <2>7. found[m - 1] \in S /\ found[m] = Scan(text, found[m - 1])
    BY <1>10, <1>11, <2>5
  <2>8. CASE Open(found[m - 1])
    <3>1. Len(found[m - 1]) = m - 1
      BY <2>5, <2>6, <2>8
    <3>2. Len(found[m]) = Len(found[m - 1]) + 1
      BY <1>5, <2>7, <2>8
    <3>3. QED
      BY <2>4, <2>5, <3>1, <3>2
  <2>9. CASE ~Open(found[m - 1])
    <3>1. found[m] = found[m - 1]
      BY <1>5, <2>7, <2>9
    <3>2. QED
      BY <2>4, <2>9, <3>1
  <2>10. QED
    BY <2>8, <2>9
<1>13. Scanned(text, found[N])
  BY <1>1, <1>5, <1>11
<1>14. ~Open(found[N])
  <2>1. SUFFICES ASSUME Open(found[N]) PROVE FALSE
    OBVIOUS
  <2> DEFINE R == found[N]
  <2>2. Len(R) = N /\ Scanned(text, R) /\ N \in 0..N
    BY <1>1, <1>12, <1>13, <2>1
  <2>3. Cursor(R, Len(R)) \in Nat /\ N + 1 =< Cursor(R, Len(R))
    BY <1>1, <2>2, CursorMovesOn
  <2>4. Cursor(R, Len(R))..Len(text) = {}
    BY <1>1, <2>3 DEF N
  <2>5. Occurrences(text, Prefix, Cursor(R, Len(R))) = {}
    BY <2>4 DEF Occurrences
  <2>6. QED
    BY <2>1, <2>5
<1>15. QED
  BY <1>4, <1>13, <1>14

\* The scan is deterministic: ranges that are the first candidates of a text are
\* the first of its candidates.
LEMMA ScanUnique ==
    ASSUME NEW text \in Text, NEW R, Scanned(text, R)
    PROVE  LET C == Candidates(text) IN
           /\ Len(R) =< Len(C)
           /\ \A n \in 1..Len(R) : R[n] = C[n]
           /\ Occurrences(text, Prefix, Cursor(R, Len(R))) = {} => C = R
<1> DEFINE C == Candidates(text)
           Good(n) == n =< Len(C) /\ (n > 0 => R[n] = C[n])
           Bad == {n \in 0..Len(R) : ~Good(n)}
<1>1. Scanned(text, C) /\ Occurrences(text, Prefix, Cursor(C, Len(C))) = {}
  BY CandidatesScanned
<1> HIDE DEF C
<1>2. /\ R \in Seq(RangeSet) /\ Len(R) \in Nat
      /\ C \in Seq(RangeSet) /\ Len(C) \in Nat
      /\ \A n \in 1..Len(R) : R[n] \in RangeSet
      /\ \A n \in 1..Len(C) : C[n] \in RangeSet
  BY <1>1 DEF Scanned
<1>3. /\ Prefix \in Text /\ Len(Prefix) > 0
  BY MarkerAssumption DEF Text
<1>4. ASSUME NEW n \in 1..Len(R), n - 1 =< Len(C), Cursor(R, n - 1) = Cursor(C, n - 1)
      PROVE  n =< Len(C) /\ R[n] = C[n]
  <2> DEFINE i == Cursor(R, n - 1)
  <2>1. n - 1 \in 0..Len(R) /\ n - 1 \in 0..Len(C)
    BY <1>2, <1>4
  <2>2. i \in Nat \ {0}
    BY <2>1, CursorMovesOn
  <2>3. FirstAt(text, Prefix, i, R[n].start) /\ R[n].end = CandidateEnd(text, R[n].start)
    BY DEF Scanned, NextCandidate
  <2>4. R[n].start \in Nat
    BY <1>2 DEF RangeSet
  <2>5. Occurrences(text, Prefix, i) # {} /\ Min(Occurrences(text, Prefix, i)) = R[n].start
    BY <1>3, <2>2, <2>3, <2>4, FirstIsMin
  <2>6. n =< Len(C)
    <3>1. SUFFICES ASSUME ~(n =< Len(C)) PROVE FALSE
      OBVIOUS
    <3>2. n - 1 = Len(C)
      BY <1>2, <1>4, <3>1
    <3>3. i = Cursor(C, Len(C))
      BY <1>4, <3>2
    <3>4. QED
      BY <1>1, <2>5, <3>3
  <2>7. n \in 1..Len(C) /\ C[n].start \in Nat
    BY <1>2, <2>6 DEF RangeSet
  <2>8. FirstAt(text, Prefix, i, C[n].start) /\ C[n].end = CandidateEnd(text, C[n].start)
    BY <1>1, <1>4, <2>7 DEF Scanned, NextCandidate
  <2>9. Min(Occurrences(text, Prefix, i)) = C[n].start
    BY <1>3, <2>2, <2>7, <2>8, FirstIsMin
  <2>10. R[n].start = C[n].start /\ R[n].end = C[n].end
    BY <2>3, <2>5, <2>8, <2>9
  <2>11. R[n] \in RangeSet /\ C[n] \in RangeSet
    BY <1>2, <2>7
  <2>12. QED
    BY <2>6, <2>10, <2>11 DEF RangeSet
<1>5. Bad = {}
  <2>1. SUFFICES ASSUME Bad # {} PROVE FALSE
    OBVIOUS
  <2>2. PICK m \in Bad : \A j \in Bad : m =< j
    <3>1. Bad \subseteq Nat
      OBVIOUS
    <3> HIDE DEF Bad
    <3>2. QED
      BY <2>1, <3>1, LeastElement
  <2>3. m # 0 /\ m \in 0..Len(R)
    BY <1>2, <2>2
  <2>4. m - 1 \in 0..Len(R) /\ m \in 1..Len(R) /\ ~(m =< m - 1)
    BY <1>2, <2>3
  <2>5. Good(m - 1)
    BY <2>2, <2>4
  <2>6. Cursor(R, m - 1) = Cursor(C, m - 1)
    <3>1. m - 1 = 0 \/ m - 1 > 0
      BY <2>4
    <3>2. QED
      BY <2>5, <3>1 DEF Cursor
  <2>7. m =< Len(C) /\ R[m] = C[m]
    BY <1>4, <2>4, <2>5, <2>6
  <2>8. QED
    BY <2>2, <2>7
<1>6. \A n \in 0..Len(R) : Good(n)
  BY <1>5
<1>7. Len(R) =< Len(C)
  BY <1>2, <1>6
<1>8. \A n \in 1..Len(R) : R[n] = C[n]
  BY <1>2, <1>6
<1>9. ASSUME Occurrences(text, Prefix, Cursor(R, Len(R))) = {} PROVE C = R
  <2>1. Len(C) = Len(R)
    <3>1. SUFFICES ASSUME Len(C) # Len(R) PROVE FALSE
      OBVIOUS
    <3> DEFINE n == Len(R) + 1
    <3>2. n \in 1..Len(C) /\ n - 1 = Len(R) /\ Len(R) \in 0..Len(R)
      BY <1>2, <1>7, <3>1
    <3>3. Cursor(C, n - 1) = Cursor(R, Len(R))
      <4>1. Len(R) = 0 \/ Len(R) \in 1..Len(R)
        BY <1>2
      <4>2. QED
        BY <1>8, <3>2, <4>1 DEF Cursor
    <3>4. FirstAt(text, Prefix, Cursor(R, Len(R)), C[n].start) /\ C[n].start \in Nat
      BY <1>1, <1>2, <3>2, <3>3 DEF Scanned, NextCandidate, RangeSet
    <3>5. Cursor(R, Len(R)) \in Nat \ {0}
      BY <3>2, CursorMovesOn
    <3>6. Occurrences(text, Prefix, Cursor(R, Len(R))) # {}
      BY <1>3, <3>4, <3>5, FirstIsMin
    <3>7. QED
      BY <1>9, <3>6
  <2>2. QED
    BY <1>2, <1>8, <2>1, SeqEqual
<1>10. QED
  BY <1>7, <1>8, <1>9 DEF C

\* The ranges are the first candidates of the text, and all of them are closed.
Parsed(text, R) ==
    /\ R \in Seq(RangeSet)
    /\ \A n \in 1..Len(R) :
          /\ FirstAt(text, Prefix, Cursor(R, n - 1), R[n].start)
          /\ FirstAt(text, Suffix, R[n].start + Len(Prefix), R[n].end - Len(Suffix))

\* Closed candidates are those that the scan finds.
LEMMA ParsedIsScanned ==
    ASSUME NEW text \in Text, NEW R, Parsed(text, R)
    PROVE  Scanned(text, R)
<1>1. /\ Len(Suffix) \in Nat /\ Len(Prefix) \in Nat /\ Len(Prefix) > 0
      /\ R \in Seq(RangeSet)
  BY MarkerAssumption DEF Text, Parsed
<1>2. ASSUME NEW n \in 1..Len(R), Cursor(R, n - 1) \in Nat \ {0}
      PROVE  NextCandidate(text, Cursor(R, n - 1), R[n])
  <2>1. R[n].start \in Nat /\ R[n].end \in Nat
    BY <1>1, RangeFields
  <2>2. /\ FirstAt(text, Prefix, Cursor(R, n - 1), R[n].start)
        /\ FirstAt(text, Suffix, R[n].start + Len(Prefix), R[n].end - Len(Suffix))
    BY DEF Parsed
  <2>3. R[n].start \in Nat \ {0} /\ R[n].end - Len(Suffix) \in Nat
    BY <1>1, <1>2, <2>1, <2>2 DEF FirstAt
  <2>4. CandidateEnd(text, R[n].start) = (R[n].end - Len(Suffix)) + Len(Suffix)
    BY <2>2, <2>3, ClosedEnd
  <2>5. CandidateEnd(text, R[n].start) = R[n].end
    BY <1>1, <2>1, <2>4
  <2>6. QED
    BY <2>2, <2>5 DEF NextCandidate
<1> DEFINE Bad == {n \in 0..Len(R) : Cursor(R, n) \notin Nat \ {0}}
<1>3. Bad = {}
  <2>1. SUFFICES ASSUME Bad # {} PROVE FALSE
    OBVIOUS
  <2>2. PICK m \in Bad : \A j \in Bad : m =< j
    <3>1. Bad \subseteq Nat
      OBVIOUS
    <3> HIDE DEF Bad
    <3>2. QED
      BY <2>1, <3>1, LeastElement
  <2>3. m # 0
    <3>1. Cursor(R, 0) \in Nat \ {0}
      BY DEF Cursor
    <3>2. QED
      BY <2>2, <3>1
  <2>4. Len(R) \in Nat
    BY <1>1
  <2>5. m - 1 \in 0..Len(R) /\ m \in 1..Len(R) /\ ~(m =< m - 1)
    BY <2>2, <2>3, <2>4
  <2>6. Cursor(R, m - 1) \in Nat \ {0} /\ R[m].start \in Nat
    BY <1>1, <2>2, <2>5, RangeFields
  <2>7. NextCandidate(text, Cursor(R, m - 1), R[m])
    BY <1>2, <2>5, <2>6
  <2>8. R[m].end \in Nat \ {0}
    <3>1. /\ Cursor(R, m - 1) =< R[m].start /\ R[m].end \in Nat
          /\ R[m].start + Len(Prefix) =< R[m].end
      BY <2>6, <2>7, NextBounds
    <3>2. QED
      BY <1>1, <2>6, <3>1
  <2>9. Cursor(R, m) = R[m].end
    BY <2>3 DEF Cursor
  <2>10. QED
    BY <2>2, <2>8, <2>9
<1>4. \A n \in 1..Len(R) : Cursor(R, n - 1) \in Nat \ {0}
  <2>1. Len(R) \in Nat
    BY <1>1
  <2>2. \A n \in 1..Len(R) : n - 1 \in 0..Len(R)
    BY <2>1
  <2>3. QED
    BY <1>3, <2>2
<1>5. QED
  BY <1>1, <1>2, <1>4 DEF Scanned

\* Closed candidates stay when the text goes on.
LEMMA ParsedStays ==
    ASSUME NEW text \in Text, NEW R, Parsed(text, R), NEW ch \in Characters
    PROVE  Parsed(Append(text, ch), R)
<1>1. /\ Prefix \in Text /\ Suffix \in Text
      /\ Len(Suffix) \in Nat /\ Len(Prefix) \in Nat
      /\ R \in Seq(RangeSet) /\ Len(R) \in Nat
  BY MarkerAssumption DEF Text, Parsed
<1>2. Scanned(text, R)
  BY ParsedIsScanned
<1>3. ASSUME NEW n \in 1..Len(R)
      PROVE  /\ FirstAt(Append(text, ch), Prefix, Cursor(R, n - 1), R[n].start)
             /\ FirstAt(Append(text, ch), Suffix,
                        R[n].start + Len(Prefix), R[n].end - Len(Suffix))
  <2>1. n - 1 \in 0..Len(R)
    BY <1>1
  <2>2. Cursor(R, n - 1) \in Nat \ {0}
    BY <1>2, <2>1, CursorMovesOn
  <2>3. /\ FirstAt(text, Prefix, Cursor(R, n - 1), R[n].start)
        /\ FirstAt(text, Suffix, R[n].start + Len(Prefix), R[n].end - Len(Suffix))
    BY DEF Parsed
  <2>4. R[n].start \in Nat /\ R[n].end \in Nat
    BY <1>1, RangeFields
  <2>5. /\ R[n].start + Len(Prefix) \in Nat \ {0}
        /\ R[n].end - Len(Suffix) \in Nat
    <3> DEFINE from == R[n].start + Len(Prefix)
               at == R[n].end - Len(Suffix)
    <3>1. Cursor(R, n - 1) =< R[n].start /\ from =< at
      BY <2>3 DEF FirstAt
    <3>2. from \in Nat \ {0}
      BY <1>1, <2>2, <2>4, <3>1
    <3>3. at \in Int
      BY <1>1, <2>4
    <3> HIDE DEF from, at
    <3>4. at \in Nat
      BY <3>1, <3>2, <3>3
    <3>5. QED
      BY <3>2, <3>4 DEF from, at
  <2>6. FirstAt(Append(text, ch), Prefix, Cursor(R, n - 1), R[n].start)
    BY <1>1, <2>2, <2>3, <2>4, FirstStays
  <2>7. FirstAt(Append(text, ch), Suffix,
                R[n].start + Len(Prefix), R[n].end - Len(Suffix))
    <3> DEFINE from == R[n].start + Len(Prefix)
               at == R[n].end - Len(Suffix)
    <3>1. from \in Nat \ {0} /\ at \in Nat /\ FirstAt(text, Suffix, from, at)
      BY <2>3, <2>5
    <3> HIDE DEF from, at
    <3>2. FirstAt(Append(text, ch), Suffix, from, at)
      BY <1>1, <3>1, FirstStays
    <3>3. QED
      BY <3>2 DEF from, at
  <2>8. QED
    BY <2>6, <2>7
<1>4. QED
  BY <1>1, <1>3 DEF Parsed

LEMMA ParsedAppend ==
    ASSUME NEW text \in Text, NEW R, Parsed(text, R), NEW r \in RangeSet,
           FirstAt(text, Prefix, Cursor(R, Len(R)), r.start),
           FirstAt(text, Suffix, r.start + Len(Prefix), r.end - Len(Suffix))
    PROVE  Parsed(text, Append(R, r))
<1> DEFINE more == Append(R, r)
<1>1. R \in Seq(RangeSet) /\ Len(R) \in Nat
  BY DEF Parsed
<1>2. /\ more \in Seq(RangeSet) /\ Len(more) = Len(R) + 1
      /\ more[Len(R) + 1] = r
      /\ \A n \in 1..Len(R) : more[n] = R[n]
      /\ \A n \in 0..Len(R) : Cursor(more, n) = Cursor(R, n)
  BY <1>1, CursorAppend
<1> HIDE DEF more
<1>3. ASSUME NEW n \in 1..Len(more)
      PROVE  /\ FirstAt(text, Prefix, Cursor(more, n - 1), more[n].start)
             /\ FirstAt(text, Suffix, more[n].start + Len(Prefix),
                        more[n].end - Len(Suffix))
  <2>1. CASE n = Len(R) + 1
    <3>1. n - 1 = Len(R) /\ Len(R) \in 0..Len(R)
      BY <1>1, <2>1
    <3>2. Cursor(more, n - 1) = Cursor(R, Len(R)) /\ more[n] = r
      BY <1>2, <2>1, <3>1
    <3>3. QED
      BY <3>2
  <2>2. CASE n # Len(R) + 1
    <3>1. n \in 1..Len(R) /\ n - 1 \in 0..Len(R)
      BY <1>1, <1>2, <2>2
    <3>2. Cursor(more, n - 1) = Cursor(R, n - 1) /\ more[n] = R[n]
      BY <1>2, <3>1
    <3>3. QED
      BY <3>1, <3>2 DEF Parsed
  <2>3. QED
    BY <2>1, <2>2
<1>4. QED
  BY <1>2, <1>3 DEF Parsed, more

--------------------------------------------------------------------------------
(***************************************************************************)
(* Restoring the text up to a candidate                                    *)
(***************************************************************************)

\* What goes out for the n-th candidate and what is before it.
RangeStep(text, R) ==
    [n \in 1..Len(R) |->
        [before \in Results |->
            MergeResult(
                MergeResult(before,
                    Plain(SubSeq(text, Cursor(R, n - 1), R[n].start - 1))),
                RestoreCandidate(SubSeq(text, R[n].start, R[n].end - 1)))]]

\* The ranges lie in the text one behind the other.
LEMMA RangesInText ==
    ASSUME NEW text \in Text, NEW R, Scanned(text, R), NEW n \in 1..Len(R)
    PROVE  /\ Cursor(R, n - 1) \in Nat \ {0}
           /\ R[n].start \in Nat \ {0} /\ R[n].end \in Nat \ {0}
           /\ Cursor(R, n - 1) =< R[n].start
           /\ R[n].start =< R[n].end
           /\ R[n].end =< Len(text) + 1
           /\ SubSeq(text, Cursor(R, n - 1), R[n].start - 1) \in Text
           /\ SubSeq(text, R[n].start, R[n].end - 1) \in Text
<1>1. /\ Len(Prefix) \in Nat /\ Len(Prefix) > 0 /\ Len(text) \in Nat
      /\ R \in Seq(RangeSet) /\ Len(R) \in Nat
  BY MarkerAssumption DEF Text, Scanned
<1>2. n - 1 \in 0..Len(R)
  BY <1>1
<1>3. Cursor(R, n - 1) \in Nat \ {0}
  BY <1>2, CursorMovesOn
<1>4. R[n].start \in Nat /\ NextCandidate(text, Cursor(R, n - 1), R[n])
  BY <1>1, RangeFields DEF Scanned
<1>5. /\ Cursor(R, n - 1) =< R[n].start /\ R[n].end \in Nat
      /\ R[n].start + Len(Prefix) =< R[n].end /\ R[n].end =< Len(text) + 1
  BY <1>3, <1>4, NextBounds
<1>6. R[n].start \in Nat \ {0} /\ R[n].end \in Nat \ {0} /\ R[n].start =< R[n].end
  BY <1>1, <1>3, <1>4, <1>5
<1>7. /\ R[n].start - 1 \in Nat /\ R[n].end - 1 \in Nat
      /\ Cursor(R, n - 1) =< (R[n].start - 1) + 1
      /\ R[n].start - 1 =< Len(text)
      /\ R[n].start =< (R[n].end - 1) + 1
      /\ R[n].end - 1 =< Len(text)
  <2> DEFINE from == Cursor(R, n - 1)
             start == R[n].start
             end == R[n].end
             size == Len(text)
  <2>1. /\ from \in Nat \ {0} /\ start \in Nat \ {0} /\ end \in Nat \ {0} /\ size \in Nat
        /\ from =< start /\ start =< end /\ end =< size + 1
    BY <1>1, <1>3, <1>5, <1>6
  <2> HIDE DEF from, start, end, size
  <2>2. /\ start - 1 \in Nat /\ end - 1 \in Nat /\ from =< (start - 1) + 1
        /\ start - 1 =< size /\ start =< (end - 1) + 1 /\ end - 1 =< size
    BY <2>1
  <2>3. QED
    BY <2>2 DEF from, start, end, size
<1>8. SubSeq(text, Cursor(R, n - 1), R[n].start - 1) \in Text
  <2> DEFINE from == Cursor(R, n - 1)
             to == R[n].start - 1
  <2>1. from \in Nat \ {0} /\ to \in Nat /\ from =< to + 1 /\ to =< Len(text)
    BY <1>3, <1>7
  <2> HIDE DEF from, to
  <2>2. SubSeq(text, from, to) \in Text
    BY <2>1, SliceElements
  <2>3. QED
    BY <2>2 DEF from, to
<1>9. SubSeq(text, R[n].start, R[n].end - 1) \in Text
  BY <1>6, <1>7, SliceElements
<1>10. QED
  BY <1>3, <1>5, <1>6, <1>8, <1>9

\* RestoreRanges takes one candidate after the other.
LEMMA RangesIterate ==
    ASSUME NEW text \in Text, NEW R, Scanned(text, R)
    PROVE  \E f : /\ Iterates(f, EmptyResult, RangeStep(text, R), Len(R))
                  /\ \A n \in 0..Len(R) : f[n] \in Results
                  /\ RestoreRanges(text, R) = f[Len(R)]
<1> DEFINE N == Len(R)
           base == EmptyResult
           step == RangeStep(text, R)
           Go(before, n) ==
              MergeResult(
                MergeResult(before,
                    Plain(SubSeq(text, Cursor(R, n - 1), R[n].start - 1))),
                RestoreCandidate(SubSeq(text, R[n].start, R[n].end - 1)))
           Solves(f) ==
              f = [n \in 0..N |-> IF n = 0 THEN base ELSE Go(f[n - 1], n)]
           done == CHOOSE f : Solves(f)
<1>1. N \in Nat /\ base \in Results
  BY EmptyShape DEF Scanned
<1>2. RestoreRanges(text, R) = done[N]
  BY DEF RestoreRanges
<1>3. ASSUME NEW n \in 1..N, NEW before \in Results
      PROVE  Go(before, n) \in Results
  <2>1. /\ SubSeq(text, Cursor(R, n - 1), R[n].start - 1) \in Text
        /\ SubSeq(text, R[n].start, R[n].end - 1) \in Text
    BY RangesInText
  <2>2. /\ Plain(SubSeq(text, Cursor(R, n - 1), R[n].start - 1)) \in Results
        /\ RestoreCandidate(SubSeq(text, R[n].start, R[n].end - 1)) \in Results
    BY <2>1, PlainShape, CandidateShape
  <2>3. QED
    BY <2>2, MergeShape
<1>4. step = [n \in 1..N |-> [before \in Results |-> Go(before, n)]]
  BY DEF RangeStep
<1> HIDE DEF step, Go, base, N
<1>5. /\ step \in [1..N -> [Results -> Results]]
      /\ \A n \in 1..N, before \in Results : step[n][before] = Go(before, n)
  BY <1>3, <1>4
<1>6. \E f : Solves(f)
  <2>1. PICK f \in [0..N -> Results] : Iterates(f, base, step, N)
    BY <1>1, <1>5, RecursionExists
  <2>2. \A n \in 1..N : f[n] = Go(f[n - 1], n)
    <3>1. \A n \in 1..N : n - 1 \in 0..N
      BY <1>1
    <3>2. \A n \in 1..N : f[n] = step[n][f[n - 1]] /\ f[n - 1] \in Results
      BY <2>1, <3>1 DEF Iterates
    <3>3. QED
      BY <1>5, <3>2
  <2>3. \A n \in 0..N : f[n] = IF n = 0 THEN base ELSE Go(f[n - 1], n)
    BY <1>1, <2>1, <2>2 DEF Iterates
  <2>4. Solves(f)
    BY <2>1, <2>3
  <2>5. QED
    BY <2>4
<1>7. Solves(done)
  BY <1>6
<1>8. done[0] = base /\ \A n \in 1..N : done[n] = Go(done[n - 1], n)
  <2> HIDE DEF done
  <2>1. \A n \in 0..N : done[n] = IF n = 0 THEN base ELSE Go(done[n - 1], n)
    BY <1>7
  <2>2. QED
    BY <1>1, <2>1
<1> HIDE DEF done
<1>9. \A n \in 1..N : done[n - 1] \in Results => done[n] = step[n][done[n - 1]]
  BY <1>5, <1>8
<1>10. /\ \A n \in 0..N : done[n] \in Results
       /\ Iterates(done, base, step, N)
  BY <1>1, <1>5, <1>8, <1>9, RecursionTyped
<1>11. QED
  BY <1>2, <1>10, Zenon DEF N, base, step

LEMMA RangesType ==
    ASSUME NEW text \in Text, NEW R, Scanned(text, R)
    PROVE  /\ RestoreRanges(text, R) \in Results
           /\ R = <<>> => RestoreRanges(text, R) = EmptyResult
<1>1. Len(R) \in Nat /\ (R = <<>> => Len(R) = 0)
  BY DEF Scanned
<1>2. PICK f : /\ Iterates(f, EmptyResult, RangeStep(text, R), Len(R))
               /\ \A n \in 0..Len(R) : f[n] \in Results
               /\ RestoreRanges(text, R) = f[Len(R)]
  BY RangesIterate
<1>3. f[0] = EmptyResult /\ Len(R) \in 0..Len(R)
  BY <1>1, <1>2 DEF Iterates
<1>4. QED
  BY <1>1, <1>2, <1>3

\* What is within a text does not change when the text goes on.
LEMMA SliceStays ==
    ASSUME NEW text \in Text, NEW ch \in Characters, NEW i \in Nat \ {0},
           NEW j \in Nat, i =< j + 1, j =< Len(text)
    PROVE  SubSeq(Append(text, ch), i, j) = SubSeq(text, i, j)
<1> DEFINE more == Append(text, ch)
           a == SubSeq(more, i, j)
           b == SubSeq(text, i, j)
<1>1. /\ more \in Text /\ Len(more) = Len(text) + 1 /\ Len(text) \in Nat
      /\ \A k \in 1..Len(text) : more[k] = text[k]
  BY DEF Text
<1> HIDE DEF more
<1>2. /\ a \in Text /\ Len(a) = j - i + 1
      /\ \A k \in 1..(j - i + 1) : a[k] = more[i + k - 1]
  BY <1>1, SliceElements
<1>3. /\ b \in Text /\ Len(b) = j - i + 1
      /\ \A k \in 1..(j - i + 1) : b[k] = text[i + k - 1]
  BY SliceElements
<1> HIDE DEF a, b
<1>4. \A k \in 1..(j - i + 1) : i + k - 1 \in 1..Len(text)
  BY <1>1
<1>5. \A k \in 1..Len(a) : a[k] = b[k]
  BY <1>1, <1>2, <1>3, <1>4
<1>6. QED
  BY <1>2, <1>3, <1>5, TextsEqual DEF a, b, more

LEMMA RangesStay ==
    ASSUME NEW text \in Text, NEW ch \in Characters, NEW R,
           Scanned(text, R), Scanned(Append(text, ch), R)
    PROVE  RestoreRanges(Append(text, ch), R) = RestoreRanges(text, R)
<1> DEFINE more == Append(text, ch)
           N == Len(R)
           a == RangeStep(text, R)
           b == RangeStep(more, R)
           base == EmptyResult
<1>1. more \in Text /\ N \in Nat /\ N =< N /\ N \in 0..N /\ Len(text) \in Nat
  BY DEF Text, Scanned
<1>2. PICK f : Iterates(f, base, a, N) /\ RestoreRanges(text, R) = f[N]
  BY RangesIterate
<1>3. PICK g : Iterates(g, base, b, N) /\ RestoreRanges(more, R) = g[N]
  BY <1>1, RangesIterate
<1>4. ASSUME NEW n \in 1..N PROVE a[n] = b[n]
  <2>1. /\ Cursor(R, n - 1) \in Nat \ {0}
        /\ R[n].start \in Nat \ {0} /\ R[n].end \in Nat \ {0}
        /\ Cursor(R, n - 1) =< R[n].start
        /\ R[n].start =< R[n].end
        /\ R[n].end =< Len(text) + 1
    BY RangesInText
  <2>2. /\ R[n].start - 1 \in Nat /\ R[n].end - 1 \in Nat
        /\ Cursor(R, n - 1) =< (R[n].start - 1) + 1
        /\ R[n].start - 1 =< Len(text)
        /\ R[n].start =< (R[n].end - 1) + 1
        /\ R[n].end - 1 =< Len(text)
    <3> DEFINE from == Cursor(R, n - 1)
               start == R[n].start
               end == R[n].end
               size == Len(text)
    <3>1. /\ from \in Nat \ {0} /\ start \in Nat \ {0} /\ end \in Nat \ {0} /\ size \in Nat
          /\ from =< start /\ start =< end /\ end =< size + 1
      BY <1>1, <2>1
    <3> HIDE DEF from, start, end, size
    <3>2. /\ start - 1 \in Nat /\ end - 1 \in Nat /\ from =< (start - 1) + 1
          /\ start - 1 =< size /\ start =< (end - 1) + 1 /\ end - 1 =< size
      BY <3>1
    <3>3. QED
      BY <3>2 DEF from, start, end, size
  <2>3. SubSeq(more, Cursor(R, n - 1), R[n].start - 1)
          = SubSeq(text, Cursor(R, n - 1), R[n].start - 1)
    <3> DEFINE from == Cursor(R, n - 1)
               to == R[n].start - 1
    <3>1. from \in Nat \ {0} /\ to \in Nat /\ from =< to + 1 /\ to =< Len(text)
      BY <2>1, <2>2
    <3> HIDE DEF from, to
    <3>2. SubSeq(more, from, to) = SubSeq(text, from, to)
      BY <3>1, SliceStays
    <3>3. QED
      BY <3>2 DEF from, to
  <2>4. SubSeq(more, R[n].start, R[n].end - 1)
          = SubSeq(text, R[n].start, R[n].end - 1)
    BY <2>1, <2>2, SliceStays
  <2>5. QED
    BY <2>3, <2>4 DEF RangeStep
<1> HIDE DEF a, b, base, N, more
<1>5. Iterates(f, base, a, N) /\ Iterates(g, base, b, N)
  BY <1>2, <1>3
<1>6. \A n \in 0..N : f[n] = g[n]
  BY <1>1, <1>4, <1>5, RecursionAgrees
<1>7. QED
  BY <1>1, <1>2, <1>3, <1>6 DEF more

LEMMA RangesAppend ==
    ASSUME NEW text \in Text, NEW R, Scanned(text, R), NEW r \in RangeSet,
           Scanned(text, Append(R, r))
    PROVE  RestoreRanges(text, Append(R, r))
             = MergeResult(
                 MergeResult(RestoreRanges(text, R),
                             Plain(SubSeq(text, Cursor(R, Len(R)), r.start - 1))),
                 RestoreCandidate(SubSeq(text, r.start, r.end - 1)))
<1> DEFINE more == Append(R, r)
           N == Len(R)
           a == RangeStep(text, R)
           b == RangeStep(text, more)
           base == EmptyResult
           Go(before) ==
              MergeResult(
                 MergeResult(before,
                             Plain(SubSeq(text, Cursor(R, Len(R)), r.start - 1))),
                 RestoreCandidate(SubSeq(text, r.start, r.end - 1)))
<1>1. R \in Seq(RangeSet) /\ N \in Nat
  BY DEF Scanned
<1>2. /\ Len(more) = N + 1
      /\ more[N + 1] = r
      /\ \A n \in 1..N : more[n] = R[n]
      /\ \A n \in 0..N : Cursor(more, n) = Cursor(R, n)
  BY <1>1, CursorAppend
<1> HIDE DEF more
<1>3. PICK f : /\ Iterates(f, base, a, N) /\ RestoreRanges(text, R) = f[N]
               /\ \A n \in 0..N : f[n] \in Results
  BY RangesIterate
<1>4. PICK g : Iterates(g, base, b, N + 1) /\ RestoreRanges(text, more) = g[N + 1]
  <2>1. Scanned(text, more)
    BY DEF more
  <2>2. PICK g : /\ Iterates(g, base, b, Len(more))
                 /\ RestoreRanges(text, more) = g[Len(more)]
    BY <2>1, RangesIterate
  <2>3. QED
    BY <1>2, <2>2, Zenon
<1>5. ASSUME NEW n \in 1..N PROVE a[n] = b[n]
  <2>1. n \in 1..(N + 1) /\ n - 1 \in 0..N
    BY <1>1
  <2>2. Cursor(more, n - 1) = Cursor(R, n - 1) /\ more[n] = R[n]
    BY <1>2, <2>1
  <2>3. QED
    BY <1>2, <2>1, <2>2 DEF RangeStep
<1>6. b[N + 1] = [before \in Results |-> Go(before)]
  <2>1. N + 1 \in 1..(N + 1) /\ (N + 1) - 1 = N /\ N \in 0..N
    BY <1>1
  <2>2. Cursor(more, (N + 1) - 1) = Cursor(R, N) /\ more[N + 1] = r
    BY <1>2, <2>1
  <2>3. QED
    BY <1>2, <2>1, <2>2 DEF RangeStep
<1>7. RestoreRanges(text, R) \in Results
  BY RangesType
<1> HIDE DEF a, b, base, N, Go
<1>8. /\ N \in Nat
      /\ Iterates(f, base, a, N) /\ Iterates(g, base, b, N + 1)
      /\ \A n \in 1..N : a[n] = b[n]
  BY <1>1, <1>3, <1>4, <1>5
<1>9. g[N + 1] = b[N + 1][f[N]]
  BY <1>8, RecursionExtends
<1>10. RestoreRanges(text, more) = Go(RestoreRanges(text, R))
  BY <1>3, <1>4, <1>6, <1>7, <1>9
<1>11. QED
  BY <1>10 DEF Go, more

--------------------------------------------------------------------------------
(***************************************************************************)
(* Merging results                                                         *)
(***************************************************************************)
LEMMA MergeAssociative ==
    ASSUME NEW a \in Results, NEW b \in Results, NEW c \in Results
    PROVE  MergeResult(MergeResult(a, b), c) = MergeResult(a, MergeResult(b, c))
<1>1. /\ a.pieces \in Seq(PieceSet) /\ b.pieces \in Seq(PieceSet)
      /\ c.pieces \in Seq(PieceSet)
      /\ a.skipped \in Seq(Text) /\ b.skipped \in Seq(Text)
      /\ c.skipped \in Seq(Text)
      /\ a.unresolved \in Seq(Text) /\ b.unresolved \in Seq(Text)
      /\ c.unresolved \in Seq(Text)
  BY DEF Results, Pieces
<1>2. (a.pieces \o b.pieces) \o c.pieces = a.pieces \o (b.pieces \o c.pieces)
  <2>1. \A s, t, u \in Seq(PieceSet) : (s \o t) \o u = s \o (t \o u)
    BY ConcatAssociative
  <2>2. QED
    BY <1>1, <2>1, Zenon
<1>3. \A s, t, u \in Seq(Text) : (s \o t) \o u = s \o (t \o u)
  BY ConcatAssociative
<1>4. /\ (a.skipped \o b.skipped) \o c.skipped
           = a.skipped \o (b.skipped \o c.skipped)
      /\ (a.unresolved \o b.unresolved) \o c.unresolved
           = a.unresolved \o (b.unresolved \o c.unresolved)
  <2>1. /\ a.skipped \in Seq(Text) /\ b.skipped \in Seq(Text)
        /\ c.skipped \in Seq(Text)
    BY <1>1
  <2>2. /\ a.unresolved \in Seq(Text) /\ b.unresolved \in Seq(Text)
        /\ c.unresolved \in Seq(Text)
    BY <1>1
  <2>3. (a.skipped \o b.skipped) \o c.skipped
          = a.skipped \o (b.skipped \o c.skipped)
    BY <1>3, <2>1, Zenon
  <2>4. (a.unresolved \o b.unresolved) \o c.unresolved
          = a.unresolved \o (b.unresolved \o c.unresolved)
    BY <1>3, <2>2, Zenon
  <2>5. QED
    BY <2>3, <2>4
<1>5. /\ MergeResult(MergeResult(a, b), c)
           = [pieces |-> (a.pieces \o b.pieces) \o c.pieces,
              skipped |-> (a.skipped \o b.skipped) \o c.skipped,
              unresolved |-> (a.unresolved \o b.unresolved) \o c.unresolved]
      /\ MergeResult(a, MergeResult(b, c))
           = [pieces |-> a.pieces \o (b.pieces \o c.pieces),
              skipped |-> a.skipped \o (b.skipped \o c.skipped),
              unresolved |-> a.unresolved \o (b.unresolved \o c.unresolved)]
  BY DEF MergeResult
<1>6. QED
  BY <1>2, <1>4, <1>5, Zenon

LEMMA MergeEmpty ==
    ASSUME NEW a \in Results
    PROVE  MergeResult(a, EmptyResult) = a
<1>1. /\ a.pieces \in Pieces /\ a.skipped \in Seq(Text) /\ a.unresolved \in Seq(Text)
      /\ a = [pieces |-> a.pieces, skipped |-> a.skipped, unresolved |-> a.unresolved]
  BY DEF Results
<1>2. /\ a.pieces \o <<>> = a.pieces
      /\ a.skipped \o <<>> = a.skipped
      /\ a.unresolved \o <<>> = a.unresolved
  BY <1>1, ConcatEmptySeq DEF Pieces
<1>3. MergeResult(a, EmptyResult)
        = [pieces |-> a.pieces \o <<>>, skipped |-> a.skipped \o <<>>,
           unresolved |-> a.unresolved \o <<>>]
  BY DEF MergeResult, EmptyResult
<1>4. QED
  BY <1>1, <1>2, <1>3, Zenon

LEMMA PlainOfNothing == Plain(<<>>) = EmptyResult
<1>1. <<>> \in Text /\ Len(<<>>) = 0
  BY DEF Text
<1>2. PlainPieces(<<>>) \in Pieces /\ Len(PlainPieces(<<>>)) = 0
  BY <1>1, PlainShape
<1>3. PlainPieces(<<>>) = <<>>
  BY <1>2, EmptySeq DEF Pieces
<1>4. QED
  BY <1>1, <1>3, PlainShape DEF EmptyResult

\* Texts that go out one after the other go out as one.
LEMMA PlainJoin ==
    ASSUME NEW a \in Text, NEW b \in Text
    PROVE  MergeResult(Plain(a), Plain(b)) = Plain(a \o b)
<1> DEFINE p == PlainPieces(a)
           q == PlainPieces(b)
           c == a \o b
           r == PlainPieces(c)
<1>1. /\ Len(a) \in Nat /\ Len(b) \in Nat
      /\ c \in Text /\ Len(c) = Len(a) + Len(b)
      /\ \A n \in 1..(Len(a) + Len(b)) :
            c[n] = IF n =< Len(a) THEN a[n] ELSE b[n - Len(a)]
  BY ConcatProperties DEF Text
<1> HIDE DEF c
<1>2. /\ p \in Pieces /\ Len(p) = Len(a)
      /\ \A n \in 1..Len(a) : p[n] = CharacterPiece(a[n])
  BY PlainShape
<1>3. /\ q \in Pieces /\ Len(q) = Len(b)
      /\ \A n \in 1..Len(b) : q[n] = CharacterPiece(b[n])
  BY PlainShape
<1>4. /\ r \in Pieces /\ Len(r) = Len(c)
      /\ \A n \in 1..Len(c) : r[n] = CharacterPiece(c[n])
  BY <1>1, PlainShape
<1>5. /\ Plain(a) = [pieces |-> p, skipped |-> <<>>, unresolved |-> <<>>]
      /\ Plain(b) = [pieces |-> q, skipped |-> <<>>, unresolved |-> <<>>]
      /\ Plain(c) = [pieces |-> r, skipped |-> <<>>, unresolved |-> <<>>]
  BY <1>1, PlainShape, Zenon
<1> HIDE DEF p, q, r
<1>6. /\ p \o q \in Pieces /\ Len(p \o q) = Len(p) + Len(q)
      /\ \A n \in 1..(Len(p) + Len(q)) :
            (p \o q)[n] = IF n =< Len(p) THEN p[n] ELSE q[n - Len(p)]
  <2>1. p \in Seq(PieceSet) /\ q \in Seq(PieceSet)
    BY <1>2, <1>3 DEF Pieces
  <2>2. QED
    BY <2>1, ConcatProperties DEF Pieces
<1>7. ASSUME NEW n \in 1..Len(c) PROVE (p \o q)[n] = r[n]
  <2>1. n \in 1..(Len(a) + Len(b)) /\ n \in Nat
    BY <1>1
  <2>2. CASE n =< Len(a)
    <3>1. n \in 1..Len(a) /\ c[n] = a[n] /\ (p \o q)[n] = p[n]
      BY <1>1, <1>2, <1>3, <1>6, <2>1, <2>2
    <3>2. QED
      BY <1>2, <1>4, <3>1
  <2>3. CASE ~(n =< Len(a))
    <3>1. /\ n - Len(a) \in 1..Len(b) /\ c[n] = b[n - Len(a)]
          /\ (p \o q)[n] = q[n - Len(a)]
      BY <1>1, <1>2, <1>3, <1>6, <2>1, <2>3
    <3>2. QED
      BY <1>3, <1>4, <3>1
  <2>4. QED
    BY <2>2, <2>3
<1>8. p \o q = r
  BY <1>1, <1>2, <1>3, <1>4, <1>6, <1>7, SeqEqual DEF Pieces
<1>9. MergeResult(Plain(a), Plain(b))
        = [pieces |-> p \o q, skipped |-> <<>> \o <<>>, unresolved |-> <<>> \o <<>>]
  BY <1>5 DEF MergeResult
<1>10. <<>> \o <<>> = <<>>
  BY ConcatEmptySeq
<1>11. QED
  BY <1>5, <1>8, <1>9, <1>10, Zenon DEF c

--------------------------------------------------------------------------------
(***************************************************************************)
(* How far a stream has come                                               *)
(***************************************************************************)

\* The closed candidates of the text are R, and behind them no prefix begins
\* before c.
Standing(text, R, c) ==
    /\ Parsed(text, R)
    /\ c \in Cursor(R, Len(R))..(Len(text) + 1)
    /\ \A i \in Cursor(R, Len(R))..(c - 1) : Dead(text, i)

\* The text up to c, restored.
Done(text, R, c) ==
    MergeResult(RestoreRanges(text, R),
                Plain(SubSeq(text, Cursor(R, Len(R)), c - 1)))

LEMMA StandingBounds ==
    ASSUME NEW text \in Text, NEW R, NEW c, Standing(text, R, c)
    PROVE  /\ R \in Seq(RangeSet) /\ Len(R) \in Nat /\ Scanned(text, R)
           /\ Cursor(R, Len(R)) \in Nat \ {0}
           /\ c \in Nat \ {0} /\ c \in 1..(Len(text) + 1)
           /\ Cursor(R, Len(R)) =< c /\ c =< Len(text) + 1
           /\ SubSeq(text, Cursor(R, Len(R)), c - 1) \in Text
           /\ RestoreRanges(text, R) \in Results
           /\ Done(text, R, c) \in Results
<1>1. Parsed(text, R) /\ Scanned(text, R) /\ Len(text) \in Nat
  BY ParsedIsScanned DEF Standing, Text
<1>2. R \in Seq(RangeSet) /\ Len(R) \in Nat /\ Len(R) \in 0..Len(R)
  BY <1>1 DEF Parsed
<1> DEFINE cursor == Cursor(R, Len(R))
<1>3. cursor \in Nat \ {0}
  BY <1>1, <1>2, CursorMovesOn
<1> HIDE DEF cursor
<1>4. c \in cursor..(Len(text) + 1)
  BY DEF Standing, cursor
<1>5. /\ c \in Nat \ {0} /\ c \in 1..(Len(text) + 1)
      /\ cursor =< c /\ c =< Len(text) + 1
  BY <1>1, <1>3, <1>4
<1>6. SubSeq(text, cursor, c - 1) \in Text
  <2>1. c - 1 \in Nat /\ cursor =< (c - 1) + 1 /\ c - 1 =< Len(text)
    BY <1>1, <1>3, <1>5
  <2>2. QED
    BY <1>3, <2>1, SliceElements
<1>7. RestoreRanges(text, R) \in Results
  BY <1>1, RangesType
<1>8. Plain(SubSeq(text, cursor, c - 1)) \in Results
  BY <1>6, PlainShape
<1>9. Done(text, R, c) \in Results
  BY <1>7, <1>8, MergeShape DEF Done, cursor
<1>10. QED
  BY <1>1, <1>2, <1>3, <1>5, <1>6, <1>7, <1>9 DEF cursor

LEMMA DeadIsNoStart ==
    ASSUME NEW text, NEW i, Dead(text, i)
    PROVE  ~FoundAt(text, Prefix, i)
BY DEF Dead, FoundAt

\* Another character of the text changes nothing of what is done.
LEMMA StandingStays ==
    ASSUME NEW text \in Text, NEW ch \in Characters, NEW R, NEW c,
           Standing(text, R, c)
    PROVE  /\ Standing(Append(text, ch), R, c)
           /\ Done(Append(text, ch), R, c) = Done(text, R, c)
           /\ From(Append(text, ch), c) = Append(From(text, c), ch)
<1> DEFINE more == Append(text, ch)
           cursor == Cursor(R, Len(R))
<1>1. /\ more \in Text /\ Len(more) = Len(text) + 1 /\ Len(text) \in Nat
      /\ more[Len(text) + 1] = ch
      /\ \A k \in 1..Len(text) : more[k] = text[k]
  BY DEF Text
<1>2. /\ Scanned(text, R) /\ cursor \in Nat \ {0}
      /\ c \in Nat \ {0} /\ c \in 1..(Len(text) + 1)
      /\ cursor =< c /\ c =< Len(text) + 1
  BY StandingBounds
<1>3. Parsed(text, R) /\ \A i \in cursor..(c - 1) : Dead(text, i)
  BY DEF Standing
<1>4. Parsed(more, R) /\ Scanned(more, R)
  BY <1>1, <1>3, ParsedStays, ParsedIsScanned
<1> HIDE DEF cursor
<1>5. \A i \in cursor..(c - 1) : Dead(more, i)
  <2> TAKE i \in cursor..(c - 1)
  <2>1. i \in Nat \ {0}
    BY <1>2
  <2>2. QED
    BY <1>3, <2>1, DeadStays
<1>6. Standing(more, R, c)
  <2>1. c \in cursor..(Len(more) + 1)
    BY <1>1, <1>2
  <2>2. QED
    BY <1>4, <1>5, <2>1 DEF Standing, cursor
<1>7. SubSeq(more, cursor, c - 1) = SubSeq(text, cursor, c - 1)
  <2>1. c - 1 \in Nat /\ cursor =< (c - 1) + 1 /\ c - 1 =< Len(text)
    BY <1>1, <1>2
  <2>2. QED
    BY <1>2, <2>1, SliceStays
<1>8. RestoreRanges(more, R) = RestoreRanges(text, R)
  BY <1>2, <1>4, RangesStay
<1>9. Done(more, R, c) = Done(text, R, c)
  BY <1>7, <1>8 DEF Done, cursor
<1>10. From(more, c) = Append(From(text, c), ch)
  <2> DEFINE a == From(more, c)
             b == From(text, c)
  <2>1. c \in 1..(Len(more) + 1)
    BY <1>1, <1>2
  <2> HIDE DEF more
  <2>2. /\ a \in Text /\ Len(a) = Len(more) - c + 1
        /\ \A k \in 1..(Len(more) - c + 1) : a[k] = more[c + k - 1]
    BY <1>1, <2>1, FromElements
  <2>3. /\ b \in Text /\ Len(b) = Len(text) - c + 1
        /\ \A k \in 1..(Len(text) - c + 1) : b[k] = text[c + k - 1]
    BY <1>2, FromElements
  <2> HIDE DEF a, b
  <2>4. /\ Append(b, ch) \in Text /\ Len(Append(b, ch)) = Len(b) + 1
        /\ Append(b, ch)[Len(b) + 1] = ch
        /\ \A k \in 1..Len(b) : Append(b, ch)[k] = b[k]
    BY <2>3 DEF Text
  <2>5. Len(a) = Len(b) + 1
    BY <1>1, <1>2, <2>2, <2>3
  <2>6. ASSUME NEW k \in 1..Len(a) PROVE a[k] = Append(b, ch)[k]
    <3>1. CASE k = Len(b) + 1
      <4>1. c + k - 1 = Len(text) + 1 /\ k \in 1..(Len(more) - c + 1)
        BY <1>1, <1>2, <2>3, <2>2, <3>1
      <4>2. QED
        BY <1>1, <2>2, <2>4, <3>1, <4>1
    <3>2. CASE k # Len(b) + 1
      <4>1. /\ k \in 1..Len(b) /\ k \in 1..(Len(text) - c + 1)
            /\ k \in 1..(Len(more) - c + 1) /\ c + k - 1 \in 1..Len(text)
        <5>1. Len(b) \in Nat /\ k \in 1..(Len(b) + 1)
          BY <1>1, <1>2, <2>3, <2>5
        <5>2. k \in 1..Len(b) /\ k \in Nat
          BY <3>2, <5>1
        <5>3. Len(more) - c + 1 = Len(b) + 1 /\ Len(text) - c + 1 = Len(b)
          BY <1>1, <1>2, <2>3
        <5>4. c + k - 1 \in 1..Len(text)
          BY <1>1, <1>2, <2>3, <5>2
        <5>5. QED
          BY <5>1, <5>2, <5>3, <5>4
      <4>2. QED
        BY <1>1, <2>2, <2>3, <2>4, <4>1
    <3>3. QED
      BY <3>1, <3>2
  <2>7. a = Append(b, ch)
    BY <2>2, <2>4, <2>5, <2>6, TextsEqual
  <2>8. QED
    BY <2>7 DEF a, b
<1>11. QED
  BY <1>6, <1>9, <1>10 DEF more

\* No candidate may begin before k.
GoesOut(text, k) ==
    /\ k \in 1..(Len(text) + 1)
    /\ \A i \in 1..(k - 1) : ~MayBecomeCandidate(From(text, i))

\* What flush_non_marker_prefix cuts off is dead.
LEMMA FlushedIsDead ==
    ASSUME NEW text \in Text, NEW R, NEW c, Standing(text, R, c),
           ~IsCandidate(From(text, c)), Len(From(text, c)) =< Len(Prefix),
           NEW k, GoesOut(From(text, c), k)
    PROVE  LET t == From(text, c)
               d == c + k - 1 IN
           /\ Standing(text, R, d)
           /\ From(text, d) = From(t, k)
           /\ Done(text, R, d)
                = MergeResult(Done(text, R, c), Plain(SubSeq(t, 1, k - 1)))
<1> DEFINE t == From(text, c)
           d == c + k - 1
           cursor == Cursor(R, Len(R))
<1>1. /\ Len(text) \in Nat /\ Prefix \in Text /\ Len(Prefix) \in Nat
  BY MarkerAssumption DEF Text
<1>2. /\ cursor \in Nat \ {0}
      /\ c \in Nat \ {0} /\ c \in 1..(Len(text) + 1)
      /\ cursor =< c /\ c =< Len(text) + 1
      /\ RestoreRanges(text, R) \in Results
      /\ SubSeq(text, cursor, c - 1) \in Text
  BY StandingBounds
<1>3. /\ t \in Text /\ Len(t) = Len(text) - c + 1
      /\ \A i \in 1..(Len(text) - c + 1) : t[i] = text[c + i - 1]
  BY <1>2, FromElements
<1>4. /\ ~IsCandidate(t) /\ Len(t) =< Len(Prefix) /\ k \in 1..(Len(t) + 1)
      /\ \A i \in 1..(k - 1) : ~MayBecomeCandidate(From(t, i))
  BY DEF GoesOut
<1> HIDE DEF t, cursor
<1>5. /\ d \in Nat \ {0} /\ c =< d /\ d =< Len(text) + 1 /\ cursor =< d
      /\ d \in 1..(Len(text) + 1) /\ k \in Nat
  BY <1>1, <1>2, <1>3, <1>4
<1>6. ASSUME NEW i \in 1..(Len(t) + 1)
      PROVE  From(t, i) = From(text, c + i - 1)
  <2> DEFINE a == From(t, i)
             b == From(text, c + i - 1)
  <2>1. c + i - 1 \in 1..(Len(text) + 1) /\ i \in Nat
    BY <1>1, <1>2, <1>3
  <2>2. /\ a \in Text /\ Len(a) = Len(t) - i + 1
        /\ \A j \in 1..(Len(t) - i + 1) : a[j] = t[i + j - 1]
    BY <1>3, FromElements
  <2>3. /\ b \in Text /\ Len(b) = Len(text) - (c + i - 1) + 1
        /\ \A j \in 1..(Len(text) - (c + i - 1) + 1) :
              b[j] = text[(c + i - 1) + j - 1]
    BY <2>1, FromElements
  <2> HIDE DEF a, b
  <2>4. Len(a) = Len(b)
    BY <1>1, <1>2, <1>3, <2>1, <2>2, <2>3
  <2>5. ASSUME NEW j \in 1..Len(a) PROVE a[j] = b[j]
    <3>1. /\ i + j - 1 \in 1..(Len(text) - c + 1)
          /\ c + (i + j - 1) - 1 = (c + i - 1) + j - 1
      BY <1>1, <1>2, <1>3, <2>1, <2>2
    <3>2. a[j] = text[c + (i + j - 1) - 1]
      BY <1>3, <2>2, <3>1
    <3>3. b[j] = text[(c + i - 1) + j - 1]
      BY <2>3, <2>4, <2>2
    <3>4. QED
      BY <3>1, <3>2, <3>3
  <2>6. QED
    BY <2>2, <2>3, <2>4, <2>5, TextsEqual DEF a, b
<1>7. ASSUME NEW i \in 1..(k - 1) PROVE Dead(text, c + i - 1)
  <2>1. /\ i \in 1..(Len(t) + 1) /\ c + i - 1 \in 1..(Len(text) + 1)
        /\ i \in Nat \ {0} /\ i =< Len(t)
    BY <1>1, <1>2, <1>3, <1>4
  <2>2. From(t, i) = From(text, c + i - 1) /\ ~MayBecomeCandidate(From(t, i))
    BY <1>4, <1>6, <2>1
  <2>3. ~IsCandidate(From(t, i))
    <3>1. CASE i = 1
      <4>1. From(t, 1) = t
        BY <1>3, SubSeqFull DEF From, Text
      <4>2. QED
        BY <1>4, <3>1, <4>1
    <3>2. CASE i # 1
      <4>1. From(t, i) \in Text /\ Len(From(t, i)) = Len(t) - i + 1
        BY <1>3, <2>1, FromElements
      <4>2. Len(From(t, i)) < Len(Prefix) /\ Len(From(t, i)) \in Nat
        BY <1>1, <1>3, <1>4, <2>1, <3>2, <4>1
      <4>3. QED
        BY <1>1, <4>2 DEF IsCandidate, StartsWith
    <3>3. QED
      BY <3>1, <3>2
  <2>4. QED
    BY <2>1, <2>2, <2>3, DeadOrBeginning
<1>8. \A i \in cursor..(d - 1) : Dead(text, i)
  <2> TAKE i \in cursor..(d - 1)
  <2>1. CASE i < c
    <3>1. i \in cursor..(c - 1)
      BY <1>2, <2>1
    <3>2. QED
      BY <3>1 DEF Standing, cursor
  <2>2. CASE ~(i < c)
    <3>1. i - c + 1 \in 1..(k - 1) /\ c + (i - c + 1) - 1 = i
      BY <1>2, <1>5, <2>2
    <3>2. Dead(text, c + (i - c + 1) - 1)
      BY <1>7, <3>1
    <3>3. QED
      BY <3>1, <3>2
  <2>3. QED
    BY <2>1, <2>2
<1>9. Standing(text, R, d)
  <2>1. d \in cursor..(Len(text) + 1)
    BY <1>1, <1>2, <1>5
  <2>2. Parsed(text, R)
    BY DEF Standing
  <2> HIDE DEF d
  <2>3. QED
    BY <1>8, <2>1, <2>2 DEF Standing, cursor
<1>10. From(text, d) = From(t, k)
  BY <1>4, <1>6
<1> DEFINE a == SubSeq(text, cursor, c - 1)
           b == SubSeq(t, 1, k - 1)
<1>11. b \in Text /\ a \o b = SubSeq(text, cursor, d - 1)
  <2>1. /\ c - 1 \in Nat /\ cursor =< (c - 1) + 1 /\ c - 1 =< d - 1
        /\ d - 1 \in Nat /\ d - 1 =< Len(text) /\ (c - 1) + 1 = c
    BY <1>1, <1>2, <1>5
  <2>2. a \o SubSeq(text, (c - 1) + 1, d - 1) = SubSeq(text, cursor, d - 1)
    <3> HIDE DEF d
    <3>1. QED
      BY <1>2, <2>1, SliceJoin, Zenon
  <2>3. b \in Text /\ b = SubSeq(text, c, d - 1)
    <3> DEFINE e == SubSeq(text, c, d - 1)
    <3>1. /\ k - 1 \in Nat /\ 1 =< (k - 1) + 1 /\ k - 1 =< Len(t)
          /\ (k - 1) - 1 + 1 = k - 1 /\ 1 \in Nat \ {0}
      BY <1>3, <1>4, <1>5
    <3>2. /\ b \in Text /\ Len(b) = (k - 1) - 1 + 1
          /\ \A j \in 1..((k - 1) - 1 + 1) : b[j] = t[1 + j - 1]
      BY <1>3, <3>1, SliceElements
    <3>3. c =< (d - 1) + 1 /\ (d - 1) - c + 1 = k - 1
      BY <1>2, <1>5
    <3>4. /\ e \in Text /\ Len(e) = (d - 1) - c + 1
          /\ \A j \in 1..((d - 1) - c + 1) : e[j] = text[c + j - 1]
      BY <1>2, <2>1, <3>3, SliceElements
    <3> HIDE DEF b, e, d
    <3>5. Len(b) = Len(e)
      BY <3>1, <3>2, <3>3, <3>4
    <3>6. ASSUME NEW j \in 1..Len(b) PROVE b[j] = e[j]
      <4>1. /\ j \in 1..((k - 1) - 1 + 1) /\ j \in 1..((d - 1) - c + 1)
            /\ 1 + j - 1 = j /\ j \in 1..(Len(text) - c + 1)
        BY <1>3, <1>4, <3>1, <3>2, <3>3
      <4>2. QED
        BY <1>3, <3>2, <3>4, <4>1
    <3>7. b = e
      BY <3>2, <3>4, <3>5, <3>6, TextsEqual
    <3>8. QED
      BY <3>2, <3>7 DEF e
  <2> HIDE DEF b, d
  <2>4. QED
    BY <2>1, <2>2, <2>3
<1>12. MergeResult(Done(text, R, c), Plain(b)) = Done(text, R, d)
  <2>1. a \in Text /\ Plain(a) \in Results /\ Plain(b) \in Results
    BY <1>2, <1>11, PlainShape
  <2> HIDE DEF a, b, d
  <2>2. MergeResult(MergeResult(RestoreRanges(text, R), Plain(a)), Plain(b))
          = MergeResult(RestoreRanges(text, R), MergeResult(Plain(a), Plain(b)))
    BY <1>2, <2>1, MergeAssociative, Zenon
  <2>3. MergeResult(Plain(a), Plain(b)) = Plain(SubSeq(text, cursor, d - 1))
    BY <1>11, <2>1, PlainJoin, Zenon
  <2>4. /\ Done(text, R, c) = MergeResult(RestoreRanges(text, R), Plain(a))
        /\ Done(text, R, d)
             = MergeResult(RestoreRanges(text, R), Plain(SubSeq(text, cursor, d - 1)))
    BY DEF Done, a, cursor
  <2>5. QED
    BY <2>2, <2>3, <2>4, Zenon
<1>13. QED
  BY <1>9, <1>10, <1>12, Zenon DEF t

\* A candidate at c is the next one of the text.
LEMMA CandidateIsNext ==
    ASSUME NEW text \in Text, NEW R, NEW c, Standing(text, R, c),
           IsCandidate(From(text, c))
    PROVE  /\ FirstAt(text, Prefix, Cursor(R, Len(R)), c)
           /\ Len(From(text, c)) >= Len(Prefix)
<1>1. /\ Prefix \in Text /\ Len(Prefix) \in Nat /\ Len(text) \in Nat
  BY MarkerAssumption DEF Text
<1>2. /\ Cursor(R, Len(R)) =< c /\ c \in 1..(Len(text) + 1) /\ c \in Nat \ {0}
  BY StandingBounds
<1>3. From(text, c) \in Text /\ FoundAt(From(text, c), Prefix, 1)
  BY <1>1, <1>2, FromElements, StartsWithElements DEF IsCandidate
<1>4. FoundAt(text, Prefix, c + 1 - 1)
  BY <1>1, <1>2, <1>3, FoundInPart
<1>5. c + 1 - 1 = c
  BY <1>2
<1>6. \A i \in Cursor(R, Len(R))..(c - 1) : ~FoundAt(text, Prefix, i)
  BY DeadIsNoStart DEF Standing
<1>7. Len(From(text, c)) >= Len(Prefix)
  BY <1>1 DEF IsCandidate, StartsWith
<1>8. QED
  BY <1>2, <1>4, <1>5, <1>6, <1>7 DEF FirstAt

\* In a candidate, a suffix comes after the prefix.
LEMMA SuffixAfterPrefix ==
    ASSUME NEW t \in Text, IsCandidate(t), NEW p \in Nat \ {0}, FoundAt(t, Suffix, p)
    PROVE  p >= Len(Prefix) + 1
<1>1. /\ Prefix \in Text /\ Len(Prefix) \in Nat /\ Len(Suffix) \in Nat
      /\ Len(Suffix) > 0
  BY MarkerAssumption DEF Text
<1>2. SUFFICES ASSUME ~(p >= Len(Prefix) + 1) PROVE FALSE
  OBVIOUS
<1>3. p \in 1..Len(Prefix) /\ 1 \in 1..Len(Suffix) /\ p + 1 - 1 = p /\ 1 + p - 1 = p
  BY <1>1, <1>2
<1>4. t[p] = Suffix[1]
  <2>1. t[p + 1 - 1] = Suffix[1]
    BY <1>3 DEF FoundAt
  <2>2. QED
    BY <1>3, <2>1
<1>5. t[p] = Prefix[p]
  <2>1. FoundAt(t, Prefix, 1)
    BY <1>1, StartsWithElements DEF IsCandidate
  <2>2. t[1 + p - 1] = Prefix[p]
    BY <1>3, <2>1 DEF FoundAt
  <2>3. QED
    BY <1>3, <2>2
<1>6. Prefix[p] # Suffix[1]
  BY <1>3, MarkerAssumption
<1>7. QED
  BY <1>4, <1>5, <1>6

\* A candidate that its last character closes is restored as the scan does.
LEMMA ClosedIsDone ==
    ASSUME NEW text \in Text, NEW R, NEW c, Standing(text, R, c),
           IsCandidate(From(text, c)), EndsWith(From(text, c), Suffix),
           \A j \in Nat : /\ j >= Len(Prefix) + 1
                          /\ FoundAt(From(text, c), Suffix, j)
                          => j + Len(Suffix) - 1 = Len(From(text, c))
    PROVE  LET d == Len(text) + 1
               R2 == Append(R, [start |-> c, end |-> d]) IN
           /\ R2 \in Seq(RangeSet)
           /\ Standing(text, R2, d)
           /\ From(text, d) = <<>>
           /\ Done(text, R2, d)
                = MergeResult(Done(text, R, c), RestoreCandidate(From(text, c)))
<1> DEFINE t == From(text, c)
           d == Len(text) + 1
           r == [start |-> c, end |-> d]
           R2 == Append(R, r)
           cursor == Cursor(R, Len(R))
           p == Len(t) - Len(Suffix) + 1
<1>1. /\ Prefix \in Text /\ Len(Prefix) \in Nat /\ Len(Prefix) > 0
      /\ Suffix \in Text /\ Len(Suffix) \in Nat /\ Len(Suffix) > 0
      /\ Len(text) \in Nat /\ d \in Nat \ {0}
  BY MarkerAssumption DEF Text
<1>2. /\ R \in Seq(RangeSet) /\ Len(R) \in Nat /\ Scanned(text, R)
      /\ cursor \in Nat \ {0}
      /\ c \in Nat \ {0} /\ c \in 1..(Len(text) + 1)
      /\ cursor =< c /\ c =< Len(text) + 1
      /\ RestoreRanges(text, R) \in Results
      /\ Done(text, R, c) \in Results
  BY StandingBounds
<1>3. t \in Text /\ Len(t) = Len(text) - c + 1 /\ Len(t) \in Nat
  BY <1>1, <1>2, FromElements DEF Text
<1>4. FirstAt(text, Prefix, cursor, c) /\ Len(t) >= Len(Prefix)
  BY CandidateIsNext
<1>5. Len(Suffix) =< Len(t) /\ FoundAt(t, Suffix, p)
  BY <1>1, <1>3, EndsWithElements
<1>6. p \in Nat \ {0}
  BY <1>1, <1>3, <1>5
<1>7. p >= Len(Prefix) + 1
  BY <1>3, <1>5, <1>6, SuffixAfterPrefix
<1>8. d - Len(Suffix) = c + p - 1
  BY <1>1, <1>2, <1>3
<1> HIDE DEF p
<1>9. FirstAt(text, Suffix, c + Len(Prefix), d - Len(Suffix))
  <2>1. c + Len(Prefix) =< d - Len(Suffix)
    BY <1>1, <1>2, <1>6, <1>7, <1>8
  <2>2. FoundAt(text, Suffix, d - Len(Suffix))
    BY <1>1, <1>2, <1>5, <1>6, <1>8, FoundInPart
  <2>3. ASSUME NEW k \in (c + Len(Prefix))..((d - Len(Suffix)) - 1),
               FoundAt(text, Suffix, k)
        PROVE  FALSE
    <3> DEFINE j == k - c + 1
    <3>1. /\ j \in Nat \ {0} /\ j >= Len(Prefix) + 1 /\ c + j - 1 = k
          /\ j < p
      BY <1>1, <1>2, <1>6, <1>8, <2>3
    <3> HIDE DEF j
    <3>2. FoundAt(t, Suffix, j)
      BY <1>1, <1>2, <2>3, <3>1, FoundInPart
    <3>3. j + Len(Suffix) - 1 = Len(t)
      BY <3>1, <3>2
    <3>4. QED
      BY <1>1, <1>3, <3>1, <3>3 DEF p
  <2>4. QED
    BY <2>1, <2>2, <2>3 DEF FirstAt
<1>10. r \in RangeSet /\ r.start = c /\ r.end = d
  BY <1>1, <1>2 DEF RangeSet
<1> HIDE DEF d, r, t
<1>11. Parsed(text, R2)
  <2>1. Parsed(text, R)
    BY DEF Standing
  <2>2. QED
    BY <1>4, <1>9, <1>10, <2>1, ParsedAppend
<1>12. R2 \in Seq(RangeSet) /\ Len(R2) = Len(R) + 1 /\ Cursor(R2, Len(R) + 1) = d
  BY <1>2, <1>10, CursorAppend
<1>13. Cursor(R2, Len(R2)) = d
  BY <1>12
<1> HIDE DEF R2
<1>14. Standing(text, R2, d)
  <2>1. d \in d..(Len(text) + 1) /\ d..(d - 1) = {}
    BY <1>1 DEF d
  <2>2. QED
    BY <1>11, <1>13, <2>1 DEF Standing
<1>15. SubSeq(text, d, d - 1) = <<>> /\ From(text, d) = <<>>
  <2>1. d \in Int /\ d - 1 \in Int /\ d - 1 < d /\ Len(text) \in Int /\ Len(text) < d
    BY <1>1 DEF d
  <2>2. SubSeq(text, d, d - 1) = <<>> /\ SubSeq(text, d, Len(text)) = <<>>
    BY <2>1, SubSeqEmpty
  <2>3. QED
    BY <2>2 DEF From
<1>16. Done(text, R2, d) = MergeResult(Done(text, R, c), RestoreCandidate(t))
  <2>1. Scanned(text, R2)
    BY <1>11, ParsedIsScanned
  <2>2. RestoreRanges(text, R2)
          = MergeResult(
              MergeResult(RestoreRanges(text, R), Plain(SubSeq(text, cursor, c - 1))),
              RestoreCandidate(SubSeq(text, c, d - 1)))
    BY <1>2, <1>10, <2>1, RangesAppend DEF R2
  <2>3. SubSeq(text, c, d - 1) = t
    <3>1. d - 1 = Len(text)
      BY <1>1 DEF d
    <3>2. QED
      BY <3>1 DEF From, t
  <2>4. RestoreRanges(text, R2) = MergeResult(Done(text, R, c), RestoreCandidate(t))
    BY <2>2, <2>3 DEF Done
  <2>5. Done(text, R2, d) = MergeResult(RestoreRanges(text, R2), EmptyResult)
    BY <1>13, <1>15, PlainOfNothing DEF Done
  <2>6. RestoreRanges(text, R2) \in Results
    BY <2>1, RangesType
  <2>7. QED
    BY <2>4, <2>5, <2>6, MergeEmpty
<1>17. QED
  BY <1>12, <1>14, <1>15, <1>16, Zenon DEF d, r, R2, t

--------------------------------------------------------------------------------
(***************************************************************************)
(* A candidate beyond the limit                                            *)
(***************************************************************************)

\* The candidate of the text that begins at c exceeds the limit at e, and is not
\* closed before e.
TooLong(text, R, c, e) ==
    /\ Standing(text, R, c)
    /\ FoundAt(text, Prefix, c)
    /\ c + Len(Prefix) =< e /\ e =< Len(text)
    /\ Bytes(SubSeq(text, c, e)) > MaxBytes
    /\ \A j \in Nat : /\ j >= c + Len(Prefix)
                      /\ FoundAt(text, Suffix, j)
                      => j + Len(Suffix) - 1 >= e

Unfit(text) ==
    \E R \in Seq(RangeSet), c \in Nat, e \in Nat : TooLong(text, R, c, e)

LEMMA UnfitStays ==
    ASSUME NEW text \in Text, NEW ch \in Characters, Unfit(text)
    PROVE  Unfit(Append(text, ch))
<1> DEFINE more == Append(text, ch)
<1>1. PICK R \in Seq(RangeSet), c \in Nat, e \in Nat : TooLong(text, R, c, e)
  BY DEF Unfit
<1>2. /\ Prefix \in Text /\ Len(Prefix) \in Nat
      /\ Suffix \in Text /\ Len(Suffix) \in Nat
      /\ Len(text) \in Nat /\ Len(more) = Len(text) + 1 /\ more \in Text
  BY MarkerAssumption DEF Text
<1>3. /\ Standing(text, R, c) /\ FoundAt(text, Prefix, c)
      /\ c + Len(Prefix) =< e /\ e =< Len(text)
      /\ Bytes(SubSeq(text, c, e)) > MaxBytes
      /\ \A j \in Nat : /\ j >= c + Len(Prefix)
                        /\ FoundAt(text, Suffix, j)
                        => j + Len(Suffix) - 1 >= e
  BY <1>1 DEF TooLong
<1>4. c \in Nat \ {0}
  BY <1>3, StandingBounds
<1>5. Standing(more, R, c)
  BY <1>3, StandingStays
<1>6. FoundAt(more, Prefix, c)
  BY <1>2, <1>3, <1>4, FoundStays
<1>7. SubSeq(more, c, e) = SubSeq(text, c, e)
  <2>1. c =< e + 1
    BY <1>2, <1>3, <1>4
  <2>2. QED
    BY <1>3, <1>4, <2>1, SliceStays
<1>8. ASSUME NEW j \in Nat, j >= c + Len(Prefix), FoundAt(more, Suffix, j)
      PROVE  j + Len(Suffix) - 1 >= e
  <2>1. j \in Nat \ {0}
    BY <1>2, <1>4, <1>8
  <2>2. FoundAt(text, Suffix, j) \/ j + Len(Suffix) - 1 = Len(text) + 1
    BY <1>2, <1>8, <2>1, FoundStays
  <2>3. QED
    BY <1>2, <1>3, <1>8, <2>2
<1> HIDE DEF more
<1>9. e =< Len(more)
  BY <1>2, <1>3
<1>10. TooLong(more, R, c, e)
  BY <1>3, <1>5, <1>6, <1>7, <1>8, <1>9 DEF TooLong
<1>11. QED
  BY <1>10 DEF Unfit, more

\* The next character adds its width to a part.
LEMMA BytesNext ==
    ASSUME NEW text \in Text, NEW i \in 1..Len(text), NEW j \in i..Len(text)
    PROVE  /\ text[j] \in Characters
           /\ Bytes(SubSeq(text, i, j)) = Bytes(SubSeq(text, i, j - 1)) + Width[text[j]]
<1> DEFINE a == SubSeq(text, i, j - 1)
<1>1. Len(text) \in Nat /\ j \in 1..Len(text)
  BY DEF Text
<1>2. text[j] \in Characters
  BY <1>1 DEF Text
<1>3. a \in Text
  <2>1. i \in Nat \ {0} /\ j - 1 \in Nat /\ i =< (j - 1) + 1 /\ j - 1 =< Len(text)
    BY <1>1
  <2>2. QED
    BY <2>1, SliceElements
<1>4. SubSeq(text, i, j) = a \o <<text[j]>>
  BY SubSeqRecursiveSecond DEF Text
<1> HIDE DEF a
<1>5. Append(a, text[j]) = a \o <<text[j]>>
  BY <1>2, <1>3, AppendIsConcat DEF Text
<1>6. Bytes(SubSeq(text, i, j)) = Bytes(a) + Width[text[j]]
  BY <1>2, <1>3, <1>4, <1>5, BytesAppend
<1>7. QED
  BY <1>2, <1>6 DEF a

LEMMA BytesGrow ==
    ASSUME NEW text \in Text, NEW i \in Nat \ {0}, NEW j \in Nat, NEW k \in Nat,
           i =< j + 1, j =< k, k =< Len(text)
    PROVE  /\ Bytes(SubSeq(text, i, j)) \in Nat
           /\ Bytes(SubSeq(text, i, k)) \in Nat
           /\ Bytes(SubSeq(text, i, j)) =< Bytes(SubSeq(text, i, k))
<1>1. /\ Bytes(SubSeq(text, i, j)) \in Nat
      /\ Bytes(SubSeq(text, j + 1, k)) \in Nat
      /\ Bytes(SubSeq(text, i, k))
           = Bytes(SubSeq(text, i, j)) + Bytes(SubSeq(text, j + 1, k))
  BY BytesOfParts
<1>2. QED
  BY <1>1

\* A next candidate that is longer than the limit does not fit.
LEMMA DoesNotFit ==
    ASSUME NEW text \in Text, NEW R, Scanned(text, R), NEW r \in RangeSet,
           NextCandidate(text, Cursor(R, Len(R)), r),
           Bytes(SubSeq(text, r.start, r.end - 1)) > MaxBytes
    PROVE  ~CandidatesFit(text)
<1> DEFINE C == Candidates(text)
           more == Append(R, r)
           n == Len(R) + 1
<1>1. R \in Seq(RangeSet) /\ Len(R) \in Nat
  BY DEF Scanned
<1>2. Len(more) = n /\ more[n] = r
  BY <1>1, CursorAppend
<1>3. Scanned(text, more)
  BY ScannedAppend
<1> HIDE DEF more
<1>4. C \in Seq(RangeSet) /\ Len(C) \in Nat
  BY CandidatesScanned DEF Scanned
<1>5. n =< Len(C) /\ C[n] = r
  <2>1. /\ Len(more) =< Len(C)
        /\ \A k \in 1..Len(more) : more[k] = C[k]
    BY <1>3, ScanUnique
  <2>2. n \in 1..n
    BY <1>1
  <2>3. QED
    BY <1>2, <2>1, <2>2
<1> HIDE DEF C
<1>6. n \in DOMAIN C
  BY <1>1, <1>4, <1>5
<1>7. SUFFICES ASSUME CandidatesFit(text) PROVE FALSE
  OBVIOUS
<1>8. Bytes(SubSeq(text, C[n].start, C[n].end - 1)) =< MaxBytes
  BY <1>6, <1>7 DEF CandidatesFit, C
<1>9. r.start \in Nat \ {0} /\ r.end \in Nat /\ r.start =< r.end /\ r.end =< Len(text) + 1
  <2>1. r.start \in Nat /\ Cursor(R, Len(R)) \in Nat \ {0} /\ Len(Prefix) \in Nat
    <3>1. Len(R) \in 0..Len(R)
      BY <1>1
    <3>2. QED
      BY <3>1, CursorMovesOn, MarkerAssumption DEF RangeSet
  <2>2. /\ Cursor(R, Len(R)) =< r.start /\ r.end \in Nat
        /\ r.start + Len(Prefix) =< r.end /\ r.end =< Len(text) + 1
    BY <2>1, NextBounds
  <2>3. QED
    BY <2>1, <2>2
<1>10. Bytes(SubSeq(text, r.start, r.end - 1)) \in Nat
  <2>1. Len(text) \in Nat
    BY DEF Text
  <2>2. /\ r.end - 1 \in Nat /\ r.start =< (r.end - 1) + 1 /\ r.end - 1 =< Len(text)
    BY <1>9, <2>1
  <2>3. QED
    BY <1>9, <2>2, SliceElements, BytesType
<1>11. QED
  BY <1>5, <1>8, <1>10, BoundAssumption

\* A text in which a candidate exceeds the limit has a candidate that does not
\* fit: where the scan cuts it, it is longer than the limit.
LEMMA UnfitDoesNotFit ==
    ASSUME NEW text \in Text, Unfit(text)
    PROVE  ~CandidatesFit(text)
<1>1. PICK R \in Seq(RangeSet), c \in Nat, e \in Nat : TooLong(text, R, c, e)
  BY DEF Unfit
<1>2. /\ Prefix \in Text /\ Len(Prefix) \in Nat /\ Len(Prefix) > 0
      /\ Suffix \in Text /\ Len(Suffix) \in Nat /\ Len(Suffix) > 0
      /\ Len(text) \in Nat /\ MaxBytes \in Nat
  BY MarkerAssumption, BoundAssumption DEF Text
<1>3. /\ Standing(text, R, c) /\ FoundAt(text, Prefix, c)
      /\ c + Len(Prefix) =< e /\ e =< Len(text)
      /\ Bytes(SubSeq(text, c, e)) > MaxBytes
      /\ \A j \in Nat : /\ j >= c + Len(Prefix)
                        /\ FoundAt(text, Suffix, j)
                        => j + Len(Suffix) - 1 >= e
  BY <1>1 DEF TooLong
<1>4. /\ Scanned(text, R) /\ Len(R) \in Nat /\ c \in Nat \ {0}
      /\ Cursor(R, Len(R)) \in Nat \ {0} /\ Cursor(R, Len(R)) =< c
  BY <1>3, StandingBounds
<1> DEFINE body == c + Len(Prefix)
           end == CandidateEnd(text, c)
           r == [start |-> c, end |-> end]
           closing == Occurrences(text, Suffix, body)
<1>5. FirstAt(text, Prefix, Cursor(R, Len(R)), c)
  <2>1. \A i \in Cursor(R, Len(R))..(c - 1) : ~FoundAt(text, Prefix, i)
    BY <1>3, DeadIsNoStart DEF Standing
  <2>2. QED
    BY <1>3, <1>4, <2>1 DEF FirstAt
<1>6. /\ NextCandidate(text, Cursor(R, Len(R)), r)
      /\ r.start = c /\ r.end = end
  BY <1>5 DEF NextCandidate
<1>7. /\ end \in Nat /\ body =< end /\ end =< Len(text) + 1
      /\ body \in Nat \ {0}
  <2>1. r.start \in Nat
    BY <1>6
  <2>2. /\ r.end \in Nat /\ r.start + Len(Prefix) =< r.end
        /\ r.end =< Len(text) + 1
    BY <1>4, <1>6, <2>1, NextBounds
  <2>3. QED
    BY <1>2, <1>4, <1>6, <2>2
<1>8. r \in RangeSet
  BY <1>7 DEF RangeSet
<1> HIDE DEF end, r, body
<1>9. end - 1 >= e => Bytes(SubSeq(text, c, end - 1)) > MaxBytes
  <2>1. SUFFICES ASSUME end - 1 >= e PROVE Bytes(SubSeq(text, c, end - 1)) > MaxBytes
    OBVIOUS
  <2>2. /\ end - 1 \in Nat /\ c =< e + 1 /\ e =< end - 1 /\ end - 1 =< Len(text)
    BY <1>2, <1>3, <1>4, <1>7, <2>1
  <2>3. /\ Bytes(SubSeq(text, c, e)) \in Nat
        /\ Bytes(SubSeq(text, c, end - 1)) \in Nat
        /\ Bytes(SubSeq(text, c, e)) =< Bytes(SubSeq(text, c, end - 1))
    BY <1>4, <2>2, BytesGrow
  <2>4. QED
    BY <1>2, <1>3, <2>3
<1>10. CASE closing # {}
  <2>1. FirstAt(text, Suffix, body, Min(closing))
    BY <1>2, <1>7, <1>10, FirstIsMin
  <2>2. Min(closing) \in Nat
    <3>1. closing \subseteq Nat
      BY <1>7 DEF Occurrences
    <3> HIDE DEF closing
    <3>2. QED
      BY <1>10, <3>1, MinIsLeast
  <2> HIDE DEF closing
  <2>3. end = Min(closing) + Len(Suffix)
    BY <1>4, <2>1, <2>2, ClosedEnd DEF end, body
  <2>4. Min(closing) >= c + Len(Prefix) /\ FoundAt(text, Suffix, Min(closing))
    BY <1>7, <2>1, <2>2 DEF FirstAt, body
  <2>5. Min(closing) + Len(Suffix) - 1 >= e
    BY <1>3, <2>2, <2>4
  <2>6. end - 1 >= e
    BY <1>2, <2>2, <2>3, <2>5
  <2>7. QED
    <3>1. Bytes(SubSeq(text, c, end - 1)) > MaxBytes
      BY <1>9, <2>6
    <3>2. QED
      BY <1>4, <1>6, <1>8, <3>1, DoesNotFit
<1>11. CASE closing = {}
  <2>1. /\ end \in body..(Len(text) + 1)
        /\ Bytes(SubSeq(text, body, end - 1)) =< MaxBytes
        /\ \A j \in body..(Len(text) + 1) :
              Bytes(SubSeq(text, body, j - 1)) =< MaxBytes => j =< end
    BY <1>3, <1>4, <1>11, OpenEnd DEF body, end
  <2>2. CASE end - 1 >= e
    <3>1. Bytes(SubSeq(text, c, end - 1)) > MaxBytes
      BY <1>9, <2>2
    <3>2. QED
      BY <1>4, <1>6, <1>8, <3>1, DoesNotFit
  <2>3. CASE ~(end - 1 >= e)
    <3>1. /\ end =< Len(text) /\ end + 1 \in body..(Len(text) + 1)
          /\ (end + 1) - 1 = end /\ ~(end + 1 =< end)
          /\ body \in 1..Len(text) /\ end \in body..Len(text)
      BY <1>2, <1>3, <1>7, <2>3
    <3>2. ~(Bytes(SubSeq(text, body, end)) =< MaxBytes)
      <4>1. ~(Bytes(SubSeq(text, body, (end + 1) - 1)) =< MaxBytes)
        BY <2>1, <3>1
      <4>2. QED
        BY <3>1, <4>1
    <3>3. /\ text[end] \in Characters
          /\ Bytes(SubSeq(text, body, end))
               = Bytes(SubSeq(text, body, end - 1)) + Width[text[end]]
      BY <3>1, BytesNext
    <3>4. SubSeq(text, c, body - 1) = Prefix
      <4> DEFINE a == SubSeq(text, c, body - 1)
      <4>1. /\ body - 1 \in Nat /\ c =< (body - 1) + 1 /\ body - 1 =< Len(text)
            /\ (body - 1) - c + 1 = Len(Prefix)
        BY <1>2, <1>4, <1>7, <3>1 DEF body
      <4>2. /\ a \in Text /\ Len(a) = (body - 1) - c + 1
            /\ \A k \in 1..((body - 1) - c + 1) : a[k] = text[c + k - 1]
        BY <1>4, <4>1, SliceElements
      <4> HIDE DEF a
      <4>3. \A k \in 1..Len(Prefix) : a[k] = Prefix[k]
        BY <1>3, <4>1, <4>2 DEF FoundAt
      <4>4. QED
        BY <1>2, <4>1, <4>2, <4>3, TextsEqual DEF a
    <3>5. /\ Bytes(SubSeq(text, c, body - 1)) \in Nat
          /\ Bytes(SubSeq(text, (body - 1) + 1, end - 1)) \in Nat
          /\ Bytes(SubSeq(text, c, end - 1))
               = Bytes(SubSeq(text, c, body - 1))
                   + Bytes(SubSeq(text, (body - 1) + 1, end - 1))
      <4>1. /\ body - 1 \in Nat /\ end - 1 \in Nat /\ c =< (body - 1) + 1
            /\ body - 1 =< end - 1 /\ end - 1 =< Len(text)
        BY <1>2, <1>4, <1>7, <3>1 DEF body
      <4>2. QED
        BY <1>4, <4>1, BytesOfParts
    <3>6. (body - 1) + 1 = body
      BY <1>7
    <3>7. Width[text[end]] =< Bytes(Prefix) /\ Width[text[end]] \in Nat
      BY <3>3, LimitAssumption, WidthAssumption
    <3>8. Bytes(SubSeq(text, c, end - 1)) > MaxBytes
      <4> DEFINE w == Width[text[end]]
                 x == Bytes(SubSeq(text, body, end - 1))
                 y == Bytes(SubSeq(text, body, end))
                 z == Bytes(SubSeq(text, c, end - 1))
                 u == Bytes(Prefix)
      <4>1. w \in Nat /\ w =< u /\ y = x + w /\ ~(y =< MaxBytes)
        BY <3>2, <3>3, <3>7
      <4>2. Bytes(SubSeq(text, (body - 1) + 1, end - 1)) = x
        BY <3>6
      <4>3. x \in Nat /\ u \in Nat /\ z = u + x
        BY <3>4, <3>5, <4>2
      <4> HIDE DEF w, x, y, z, u
      <4>4. z > MaxBytes
        BY <1>2, <4>1, <4>3
      <4>5. QED
        BY <4>4 DEF z
    <3>9. QED
      BY <1>4, <1>6, <1>8, <3>8, DoesNotFit
  <2>4. QED
    BY <2>2, <2>3
<1>12. QED
  BY <1>10, <1>11

--------------------------------------------------------------------------------
(***************************************************************************)
(* A stream is restored as its whole text                                  *)
(***************************************************************************)

\* The end of a text of which a beginning of a prefix is left.
LEMMA PlainEnd ==
    ASSUME NEW text \in Text, NEW R, NEW c, Standing(text, R, c),
           MayBecomeCandidate(From(text, c)), ~IsCandidate(From(text, c))
    PROVE  RestoreText(text) = MergeResult(Done(text, R, c), Plain(From(text, c)))
<1> DEFINE t == From(text, c)
           cursor == Cursor(R, Len(R))
           a == SubSeq(text, cursor, c - 1)
<1>1. /\ Prefix \in Text /\ Len(Prefix) \in Nat /\ Len(Prefix) > 0
      /\ Len(text) \in Nat
  BY MarkerAssumption DEF Text
<1>2. /\ Scanned(text, R) /\ Len(R) \in Nat /\ cursor \in Nat \ {0}
      /\ c \in Nat \ {0} /\ c \in 1..(Len(text) + 1)
      /\ cursor =< c /\ c =< Len(text) + 1
      /\ a \in Text /\ RestoreRanges(text, R) \in Results
  BY StandingBounds
<1>3. t \in Text /\ Len(t) = Len(text) - c + 1 /\ Len(t) < Len(Prefix)
  BY <1>2, FromElements, BeginningIsShort
<1> HIDE DEF t, cursor, a
<1>4. \A j \in Nat : cursor =< j => ~FoundAt(text, Prefix, j)
  <2>1. SUFFICES ASSUME NEW j \in Nat, cursor =< j, FoundAt(text, Prefix, j)
                 PROVE  FALSE
    OBVIOUS
  <2>2. CASE j < c
    <3>1. j \in cursor..(c - 1)
      BY <1>2, <2>1, <2>2
    <3>2. Dead(text, j)
      BY <3>1 DEF Standing, cursor
    <3>3. QED
      BY <2>1, <3>2, DeadIsNoStart
  <2>3. CASE ~(j < c)
    <3>1. j + Len(Prefix) - 1 =< Len(text)
      BY <2>1 DEF FoundAt
    <3>2. QED
      BY <1>1, <1>2, <1>3, <2>3, <3>1
  <2>4. QED
    BY <2>2, <2>3
<1>5. Occurrences(text, Prefix, cursor) = {}
  BY <1>1, <1>2, <1>4, FirstIsMin
<1>6. Candidates(text) = R
  BY <1>2, <1>5, ScanUnique DEF cursor
<1>7. RestoreText(text) = MergeResult(RestoreRanges(text, R), Plain(From(text, cursor)))
  BY <1>6 DEF RestoreText, cursor
<1>8. a \o t = From(text, cursor)
  <2>1. /\ c - 1 \in Nat /\ cursor =< (c - 1) + 1 /\ c - 1 =< Len(text)
        /\ Len(text) =< Len(text) /\ (c - 1) + 1 = c
    BY <1>1, <1>2
  <2>2. SubSeq(text, cursor, c - 1) \o SubSeq(text, (c - 1) + 1, Len(text))
          = SubSeq(text, cursor, Len(text))
    BY <1>1, <1>2, <2>1, SliceJoin, Zenon
  <2>3. t = SubSeq(text, (c - 1) + 1, Len(text))
    BY <2>1 DEF t, From
  <2>4. QED
    BY <2>2, <2>3, Zenon DEF a, From
<1>9. Plain(a) \in Results /\ Plain(t) \in Results
  BY <1>2, <1>3, PlainShape
<1>10. MergeResult(MergeResult(RestoreRanges(text, R), Plain(a)), Plain(t))
         = MergeResult(RestoreRanges(text, R), MergeResult(Plain(a), Plain(t)))
  BY <1>2, <1>9, MergeAssociative, Zenon
<1>11. MergeResult(Plain(a), Plain(t)) = Plain(From(text, cursor))
  BY <1>2, <1>3, <1>8, PlainJoin, Zenon
<1>12. Done(text, R, c) = MergeResult(RestoreRanges(text, R), Plain(a))
  BY DEF Done, a, cursor
<1>13. QED
  BY <1>7, <1>10, <1>11, <1>12, Zenon DEF t

\* The end of a text of which an open candidate within the limit is left.
LEMMA OpenCandidateEnd ==
    ASSUME NEW text \in Text, NEW R, NEW c, Standing(text, R, c),
           IsCandidate(From(text, c)), Bytes(From(text, c)) =< MaxBytes,
           \A j \in Nat : j >= Len(Prefix) + 1 => ~FoundAt(From(text, c), Suffix, j)
    PROVE  RestoreText(text) = MergeResult(Done(text, R, c), Unresolved(From(text, c)))
<1> DEFINE t == From(text, c)
           cursor == Cursor(R, Len(R))
           body == c + Len(Prefix)
           d == Len(text) + 1
           r == [start |-> c, end |-> d]
           R2 == Append(R, r)
<1>1. /\ Prefix \in Text /\ Len(Prefix) \in Nat /\ Len(Prefix) > 0
      /\ Suffix \in Text /\ Len(Suffix) \in Nat /\ Len(Suffix) > 0
      /\ Len(text) \in Nat /\ d \in Nat \ {0} /\ MaxBytes \in Nat
  BY MarkerAssumption, BoundAssumption DEF Text
<1>2. /\ R \in Seq(RangeSet) /\ Scanned(text, R) /\ Len(R) \in Nat
      /\ cursor \in Nat \ {0}
      /\ c \in Nat \ {0} /\ c \in 1..(Len(text) + 1)
      /\ cursor =< c /\ c =< Len(text) + 1
      /\ RestoreRanges(text, R) \in Results /\ Done(text, R, c) \in Results
  BY StandingBounds
<1>3. /\ t \in Text /\ Len(t) = Len(text) - c + 1
      /\ t = SubSeq(text, c, Len(text))
  BY <1>2, FromElements DEF From
<1>4. FirstAt(text, Prefix, cursor, c) /\ Len(t) >= Len(Prefix)
  BY CandidateIsNext
<1>5. FoundAt(text, Prefix, c) /\ body \in Nat \ {0} /\ body =< d
  BY <1>1, <1>2, <1>3, <1>4 DEF FirstAt
<1>6. \A j \in Nat : body =< j => ~FoundAt(text, Suffix, j)
  <2>1. SUFFICES ASSUME NEW j \in Nat, body =< j, FoundAt(text, Suffix, j)
                 PROVE  FALSE
    OBVIOUS
  <2> DEFINE i == j - c + 1
  <2>2. i \in Nat \ {0} /\ i >= Len(Prefix) + 1 /\ c + i - 1 = j
    BY <1>1, <1>2, <2>1
  <2> HIDE DEF i
  <2>3. FoundAt(t, Suffix, i)
    BY <1>1, <1>2, <2>1, <2>2, FoundInPart
  <2>4. QED
    BY <2>2, <2>3
<1>7. Occurrences(text, Suffix, body) = {}
  BY <1>1, <1>5, <1>6, FirstIsMin
<1>8. Bytes(SubSeq(text, body, d - 1)) =< MaxBytes
  <2> DEFINE m == body - 1
  <2>1. /\ m \in Nat /\ c =< m + 1 /\ m =< Len(text)
        /\ Len(text) =< Len(text) /\ m + 1 = body /\ d - 1 = Len(text)
        /\ c \in Nat \ {0} /\ Len(text) \in Nat
    BY <1>1, <1>2, <1>5
  <2> HIDE DEF m, body, d
  <2>2. /\ Bytes(SubSeq(text, c, m)) \in Nat
        /\ Bytes(SubSeq(text, m + 1, Len(text))) \in Nat
        /\ Bytes(SubSeq(text, c, Len(text)))
             = Bytes(SubSeq(text, c, m)) + Bytes(SubSeq(text, m + 1, Len(text)))
    BY <2>1, BytesOfParts, Zenon
  <2>3. Bytes(SubSeq(text, c, Len(text))) =< MaxBytes
    BY <1>3
  <2>4. Bytes(SubSeq(text, body, Len(text))) =< MaxBytes
    <3>1. Bytes(SubSeq(text, m + 1, Len(text))) =< MaxBytes
      BY <1>1, <2>2, <2>3
    <3>2. QED
      BY <2>1, <3>1
  <2>5. QED
    BY <2>1, <2>4
<1>9. CandidateEnd(text, c) = d
  <2>1. /\ CandidateEnd(text, c) \in body..(Len(text) + 1)
        /\ \A j \in body..(Len(text) + 1) :
              Bytes(SubSeq(text, body, j - 1)) =< MaxBytes
                => j =< CandidateEnd(text, c)
    BY <1>2, <1>5, <1>7, OpenEnd
  <2>2. d \in body..(Len(text) + 1)
    BY <1>1, <1>5
  <2>3. d =< CandidateEnd(text, c)
    BY <1>8, <2>1, <2>2
  <2>4. QED
    BY <1>1, <2>1, <2>3
<1> HIDE DEF t, d, body
<1>10. r \in RangeSet /\ r.start = c /\ r.end = d
  BY <1>1, <1>2 DEF RangeSet
<1> HIDE DEF r
<1>11. NextCandidate(text, cursor, r)
  BY <1>4, <1>9, <1>10 DEF NextCandidate
<1>12. Scanned(text, R2)
  BY <1>2, <1>10, <1>11, ScannedAppend
<1>13. Len(R2) = Len(R) + 1 /\ Cursor(R2, Len(R) + 1) = d
  BY <1>2, <1>10, CursorAppend
<1>14. Cursor(R2, Len(R2)) = d
  BY <1>13
<1> HIDE DEF R2
<1>15. SubSeq(text, c, d - 1) = t /\ From(text, d) = <<>>
  <2>1. d - 1 = Len(text) /\ d \in Int /\ Len(text) \in Int /\ Len(text) < d
    BY <1>1 DEF d
  <2>2. SubSeq(text, d, Len(text)) = <<>>
    BY <2>1, SubSeqEmpty
  <2>3. QED
    BY <2>1, <2>2 DEF From, t
<1>16. Candidates(text) = R2
  <2>1. d..Len(text) = {}
    BY <1>1 DEF d
  <2>2. Occurrences(text, Prefix, Cursor(R2, Len(R2))) = {}
    BY <1>14, <2>1 DEF Occurrences
  <2>3. QED
    BY <1>12, <2>2, ScanUnique
<1>17. RestoreText(text) = MergeResult(RestoreRanges(text, R2), EmptyResult)
  BY <1>14, <1>15, <1>16, PlainOfNothing DEF RestoreText
<1>18. RestoreRanges(text, R2) = MergeResult(Done(text, R, c), RestoreCandidate(t))
  <2>1. RestoreRanges(text, R2)
          = MergeResult(
              MergeResult(RestoreRanges(text, R), Plain(SubSeq(text, cursor, c - 1))),
              RestoreCandidate(SubSeq(text, c, d - 1)))
    BY <1>2, <1>10, <1>12, RangesAppend DEF R2
  <2>2. QED
    BY <1>15, <2>1 DEF Done
<1>19. RestoreCandidate(t) = Unresolved(t)
  <2>1. SUFFICES ASSUME t \in Tokens PROVE FALSE
    BY DEF RestoreCandidate
  <2>2. EndsWith(t, Suffix)
    BY <2>1, TokensAssumption
  <2> DEFINE p == Len(t) - Len(Suffix) + 1
  <2>3. Len(Suffix) =< Len(t) /\ FoundAt(t, Suffix, p)
    BY <1>1, <1>3, <2>2, EndsWithElements
  <2>4. p \in Nat \ {0}
    BY <1>1, <1>2, <1>3, <2>3
  <2> HIDE DEF p
  <2>5. p >= Len(Prefix) + 1
    BY <1>1, <1>3, <2>3, <2>4, SuffixAfterPrefix DEF t
  <2>6. QED
    BY <2>3, <2>4, <2>5 DEF t
<1>20. RestoreRanges(text, R2) \in Results
  BY <1>12, RangesType
<1>21. QED
  BY <1>17, <1>18, <1>19, <1>20, MergeEmpty DEF t

--------------------------------------------------------------------------------
(***************************************************************************)
(* A stream is restored as its whole text                                  *)
(***************************************************************************)

\* What is held back holds no suffix behind a prefix.
LEMMA HeldIsOpen ==
    ASSUME HeldBack, NEW j \in Nat, j >= Len(Prefix) + 1
    PROVE  ~FoundAt(pending, Suffix, j)
<1>1. /\ Prefix \in Text /\ Len(Prefix) \in Nat /\ Len(Prefix) + 1 \in Nat \ {0}
      /\ Suffix \in Text /\ Len(Suffix) \in Nat /\ Len(Suffix) > 0
      /\ pending \in Text /\ Len(pending) \in Nat
  BY MarkerAssumption DEF HeldBack, Text
<1>2. CASE Occurrences(pending, Suffix, Len(Prefix) + 1) = {}
  BY <1>1, <1>2, FirstIsMin
<1>3. CASE MayBecomeCandidate(pending)
  <2>1. FoundAt(Prefix, pending, 1)
    BY <1>1, <1>3, StartsWithElements DEF MayBecomeCandidate
  <2>2. Len(pending) =< Len(Prefix)
    BY <1>1, <2>1 DEF FoundAt
  <2>3. QED
    BY <1>1, <2>2 DEF FoundAt
<1>4. QED
  BY <1>2, <1>3 DEF HeldBack, PendingBounded

\* The next character may only close what is held back with its last character.
LEMMA SuffixIsLast ==
    ASSUME HeldBack, NEW ch \in Characters, NEW j \in Nat, j >= Len(Prefix) + 1,
           FoundAt(Append(pending, ch), Suffix, j)
    PROVE  j + Len(Suffix) - 1 = Len(pending) + 1
<1>1. /\ Suffix \in Text /\ Len(Prefix) \in Nat /\ pending \in Text
  BY MarkerAssumption DEF HeldBack, Text
<1>2. j \in Nat \ {0}
  BY <1>1
<1>3. ~FoundAt(pending, Suffix, j)
  BY HeldIsOpen
<1>4. QED
  BY <1>1, <1>2, <1>3, FoundStays

\* What has gone out is what the scan restores of the text up to a position, and
\* the text from there on is held back.
Follows(text, held, restored) ==
    \E R \in Seq(RangeSet), c \in Nat :
        /\ Standing(text, R, c)
        /\ held = From(text, c)
        /\ restored = Done(text, R, c)

\* A candidate that the limit cuts is too long for the scan's limit too.
LEMMA OverflowIsTooLong ==
    ASSUME HeldBack, input \in Text, NEW R \in Seq(RangeSet), NEW c \in Nat,
           Standing(input, R, c), pending = From(input, c),
           NEW ch \in Characters, Overflows(ch)
    PROVE  Unfit(Append(input, ch))
<1> DEFINE more == Append(input, ch)
           t == Append(pending, ch)
           e == Len(input) + 1
<1>1. /\ Prefix \in Text /\ Len(Prefix) \in Nat
      /\ Suffix \in Text /\ Len(Suffix) \in Nat
      /\ Len(input) \in Nat /\ Len(more) = e /\ more \in Text /\ e \in Nat
      /\ pending \in Text /\ t \in Text
  BY MarkerAssumption DEF HeldBack, Text
<1>2. c \in Nat \ {0} /\ c \in 1..(Len(input) + 1)
  BY StandingBounds
<1>3. Standing(more, R, c) /\ From(more, c) = t
  BY StandingStays
<1>4. Len(pending) = Len(input) - c + 1
  BY <1>2, FromElements
<1>5. FoundAt(input, Prefix, c) /\ Len(pending) >= Len(Prefix)
  BY CandidateIsNext DEF Overflows, FirstAt
<1>6. FoundAt(more, Prefix, c)
  BY <1>1, <1>2, <1>5, FoundStays
<1>7. Bytes(SubSeq(more, c, e)) > MaxBytes
  <2>1. SubSeq(more, c, e) = t
    BY <1>1, <1>3 DEF From
  <2>2. Bytes(t) = Bytes(pending) + Width[ch]
    BY <1>1, BytesAppend
  <2>3. QED
    BY <2>1, <2>2 DEF Overflows
<1>8. ASSUME NEW j \in Nat, j >= c + Len(Prefix), FoundAt(more, Suffix, j)
      PROVE  j + Len(Suffix) - 1 >= e
  <2> DEFINE i == j - c + 1
  <2>1. i \in Nat \ {0} /\ i >= Len(Prefix) + 1 /\ c + i - 1 = j
        /\ c \in 1..(Len(more) + 1)
    BY <1>1, <1>2, <1>8
  <2> HIDE DEF i
  <2>2. FoundAt(t, Suffix, i)
    <3>1. FoundAt(more, Suffix, c + i - 1)
      BY <1>8, <2>1
    <3>2. QED
      BY <1>1, <1>3, <2>1, <3>1, FoundInPart
  <2>3. i + Len(Suffix) - 1 = Len(pending) + 1
    BY <2>1, <2>2, SuffixIsLast
  <2>4. QED
    BY <1>1, <1>2, <1>4, <2>1, <2>3
<1>9. c + Len(Prefix) =< e /\ e =< Len(more)
  BY <1>1, <1>2, <1>4, <1>5
<1> HIDE DEF more, e
<1>10. TooLong(more, R, c, e)
  BY <1>3, <1>6, <1>7, <1>8, <1>9 DEF TooLong
<1>11. QED
  BY <1>1, <1>10 DEF Unfit, more

\* A character leaves the stream following its text, or shows that a candidate
\* is beyond the limit.
LEMMA PushFollows ==
    ASSUME HeldBack, Conserved, Follows(input, pending, result),
           NEW ch \in Characters, PushChar(ch)
    PROVE  Unfit(input') \/ Follows(input', pending', result')
<1> DEFINE more == Append(input, ch)
           t == Append(pending, ch)
           k == KeepFrom(t)
<1>1. PICK R \in Seq(RangeSet), c \in Nat :
          /\ Standing(input, R, c)
          /\ pending = From(input, c)
          /\ result = Done(input, R, c)
  BY DEF Follows
<1>2. /\ input \in Text /\ pending \in Text /\ result \in Results
      /\ more \in Text /\ t \in Text /\ input' = more
      /\ Len(more) \in Nat /\ Len(t) = Len(pending) + 1
      /\ Len(Suffix) \in Nat /\ Len(Prefix) \in Nat
      /\ Suffix \in Text /\ Prefix \in Text
  BY MarkerAssumption DEF Conserved, PushChar, Text
<1>3. CASE Overflows(ch)
  BY <1>1, <1>2, <1>3, OverflowIsTooLong
<1>4. CASE ~Overflows(ch)
  <2>1. Held(ch) = t /\ MergeResult(result, EmptyResult) = result
    BY <1>2, <1>4, MergeEmpty DEF Held
  <2>2. Standing(more, R, c) /\ Done(more, R, c) = result /\ From(more, c) = t
    BY <1>1, <1>2, StandingStays
  <2>3. \/ /\ IsCandidate(t) /\ EndsWith(t, Suffix)
           /\ pending' = <<>>
           /\ result' = MergeResult(result, RestoreCandidate(t))
        \/ /\ IsCandidate(t) /\ pending' = t /\ result' = result
        \/ /\ ~IsCandidate(t)
           /\ pending' = From(t, k)
           /\ result' = MergeResult(result, Plain(SubSeq(t, 1, k - 1)))
    BY <1>4, <2>1 DEF PushChar
  <2>4. CASE /\ IsCandidate(t) /\ EndsWith(t, Suffix)
             /\ pending' = <<>>
             /\ result' = MergeResult(result, RestoreCandidate(t))
    <3> DEFINE d == Len(more) + 1
               R2 == Append(R, [start |-> c, end |-> d])
    <3>1. \A j \in Nat : j >= Len(Prefix) + 1 /\ FoundAt(t, Suffix, j)
                           => j + Len(Suffix) - 1 = Len(t)
      BY <1>2, SuffixIsLast
    <3>2. /\ R2 \in Seq(RangeSet)
          /\ Standing(more, R2, d)
          /\ From(more, d) = <<>>
          /\ Done(more, R2, d)
               = MergeResult(Done(more, R, c), RestoreCandidate(From(more, c)))
      <4> HIDE DEF more, t
      <4>1. /\ IsCandidate(From(more, c)) /\ EndsWith(From(more, c), Suffix)
            /\ \A j \in Nat : /\ j >= Len(Prefix) + 1
                              /\ FoundAt(From(more, c), Suffix, j)
                              => j + Len(Suffix) - 1 = Len(From(more, c))
        BY <2>2, <2>4, <3>1
      <4>2. more \in Text /\ Standing(more, R, c)
        BY <1>2, <2>2
      <4>3. QED
        BY <4>1, <4>2, ClosedIsDone
    <3>3. d \in Nat
      BY <1>2
    <3> HIDE DEF d, R2
    <3>4. Follows(more, pending', result')
      BY <2>2, <2>4, <3>2, <3>3 DEF Follows
    <3>5. QED
      BY <1>2, <3>4
  <2>5. CASE IsCandidate(t) /\ pending' = t /\ result' = result
    <3>1. Follows(more, pending', result')
      BY <2>2, <2>5 DEF Follows
    <3>2. QED
      BY <1>2, <3>1
  <2>6. CASE /\ ~IsCandidate(t)
             /\ pending' = From(t, k)
             /\ result' = MergeResult(result, Plain(SubSeq(t, 1, k - 1)))
    <3> DEFINE d == c + k - 1
    <3>1. Len(t) =< Len(Prefix)
      <4>1. t # Prefix
        <5>1. FoundAt(Prefix, Prefix, 1)
          BY <1>2 DEF FoundAt
        <5>2. IsCandidate(Prefix)
          BY <1>2, <5>1, StartsWithElements DEF IsCandidate
        <5>3. QED
          BY <2>6, <5>2
      <4>2. QED
        BY <2>1, <2>6, <4>1, HeldShape DEF HeldBack
    <3>2. /\ k \in 1..(Len(t) + 1)
          /\ \A i \in 1..(k - 1) : ~MayBecomeCandidate(From(t, i))
      BY <1>2, KeepFromLeast
    <3> HIDE DEF k
    <3>3. /\ Standing(more, R, d)
          /\ From(more, d) = From(t, k)
          /\ Done(more, R, d)
               = MergeResult(Done(more, R, c), Plain(SubSeq(t, 1, k - 1)))
      <4> HIDE DEF more, t
      <4>1. /\ ~IsCandidate(From(more, c))
            /\ Len(From(more, c)) =< Len(Prefix)
            /\ GoesOut(From(more, c), k)
        BY <2>2, <2>6, <3>1, <3>2 DEF GoesOut
      <4>2. more \in Text /\ Standing(more, R, c)
        BY <1>2, <2>2
      <4>3. /\ Standing(more, R, d)
            /\ From(more, d) = From(From(more, c), k)
            /\ Done(more, R, d)
                 = MergeResult(Done(more, R, c),
                               Plain(SubSeq(From(more, c), 1, k - 1)))
        BY <4>1, <4>2, FlushedIsDead
      <4>4. QED
        BY <2>2, <4>3
    <3>4. d \in Nat
      <4>1. c \in Nat \ {0}
        BY <1>1, <1>2, StandingBounds
      <4>2. QED
        BY <3>2, <4>1
    <3> HIDE DEF d
    <3>5. Follows(more, pending', result')
      BY <2>2, <2>6, <3>3, <3>4 DEF Follows
    <3>6. QED
      BY <1>2, <3>5
  <2>7. QED
    BY <2>3, <2>4, <2>5, <2>6
<1>5. QED
  BY <1>3, <1>4

\* At its end, the stream has been restored as its text.
LEMMA FinishFollows ==
    ASSUME HeldBack, Conserved, Follows(input, pending, result), Finish
    PROVE  input' = input /\ result' = RestoreText(input)
<1>1. PICK R \in Seq(RangeSet), c \in Nat :
          /\ Standing(input, R, c)
          /\ pending = From(input, c)
          /\ result = Done(input, R, c)
  BY DEF Follows
<1>2. /\ input \in Text /\ pending \in Text /\ input' = input
      /\ Prefix \in Text /\ Len(Prefix) \in Nat
  BY MarkerAssumption DEF Conserved, Finish, Text
<1>3. CASE IsCandidate(pending)
  <2>1. Bytes(pending) =< MaxBytes
    <3>1. CASE MayBecomeCandidate(pending)
      <4>1. FoundAt(Prefix, pending, 1) /\ FoundAt(pending, Prefix, 1)
        BY <1>2, <1>3, <3>1, StartsWithElements DEF MayBecomeCandidate, IsCandidate
      <4>2. Len(pending) \in Nat
        BY <1>2 DEF Text
      <4>3. /\ Len(pending) = Len(Prefix)
            /\ \A i \in 1..Len(Prefix) : pending[i] = Prefix[i]
        BY <1>2, <4>1, <4>2 DEF FoundAt
      <4>4. pending = Prefix
        BY <1>2, <4>3, TextsEqual
      <4>5. QED
        BY <4>4, LimitAssumption
    <3>2. QED
      BY <3>1 DEF HeldBack, PendingBounded
  <2>2. \A j \in Nat : j >= Len(Prefix) + 1 => ~FoundAt(pending, Suffix, j)
    BY HeldIsOpen
  <2>3. RestoreText(input) = MergeResult(Done(input, R, c), Unresolved(pending))
    BY <1>1, <1>2, <1>3, <2>1, <2>2, OpenCandidateEnd
  <2>4. QED
    BY <1>1, <1>2, <1>3, <2>3 DEF Finish
<1>4. CASE ~IsCandidate(pending)
  <2>1. MayBecomeCandidate(pending)
    BY <1>4 DEF HeldBack, PendingBounded
  <2>2. RestoreText(input) = MergeResult(Done(input, R, c), Plain(pending))
    BY <1>1, <1>2, <1>4, <2>1, PlainEnd
  <2>3. QED
    BY <1>1, <1>2, <1>4, <2>2 DEF Finish
<1>5. QED
  BY <1>3, <1>4

\* Unless a candidate is beyond the limit, the stream follows its text, and has
\* been restored as its text at the end.
Agrees ==
    /\ HeldBack
    /\ Conserved
    /\ \/ Unfit(input)
       \/ ~finished /\ Follows(input, pending, result)
       \/ finished /\ result = RestoreText(input)

LEMMA InitAgrees == Init => Agrees
<1> SUFFICES ASSUME Init PROVE Agrees
  OBVIOUS
<1>1. /\ input = <<>> /\ pending = <<>> /\ result = EmptyResult /\ ~finished
  BY DEF Init
<1>2. HeldBack
  BY <1>1, EmptyIsBeginning DEF HeldBack, PendingBounded, Text
<1>3. <<>> \in Text /\ Len(<<>>) = 0 /\ <<>> \in Seq(RangeSet)
  BY DEF Text
<1>4. Conserved
  <2>1. EmptyResult \in Results /\ Source(EmptyResult.pieces) = <<>>
    BY EmptyShape
  <2>2. QED
    BY <1>1, <1>3, <2>1, JoinEmpty DEF Conserved, NothingLost
<1>5. Cursor(<<>>, Len(<<>>)) = 1
  BY <1>3 DEF Cursor
<1>6. Standing(<<>>, <<>>, 1)
  <2>1. Parsed(<<>>, <<>>)
    BY <1>3 DEF Parsed
  <2>2. QED
    BY <1>3, <1>5, <2>1 DEF Standing
<1>7. SubSeq(<<>>, 1, 0) = <<>> /\ From(<<>>, 1) = <<>> /\ 1 - 1 = 0
  BY <1>3, SubSeqEmpty DEF From
<1>8. Done(<<>>, <<>>, 1) = EmptyResult
  <2>1. Scanned(<<>>, <<>>)
    BY <1>3 DEF Scanned
  <2>2. RestoreRanges(<<>>, <<>>) = EmptyResult
    BY <1>3, <2>1, RangesType
  <2>3. Plain(SubSeq(<<>>, Cursor(<<>>, Len(<<>>)), 1 - 1)) = EmptyResult
    BY <1>5, <1>7, PlainOfNothing
  <2>4. QED
    BY <2>2, <2>3, EmptyShape, MergeEmpty DEF Done
<1>9. Follows(input, pending, result)
  BY <1>1, <1>3, <1>6, <1>7, <1>8 DEF Follows
<1>10. QED
  BY <1>1, <1>2, <1>4, <1>9 DEF Agrees

LEMMA NextAgrees == Agrees /\ [Next]_vars => Agrees'
<1> SUFFICES ASSUME Agrees, [Next]_vars PROVE Agrees'
  OBVIOUS
<1>1. HeldBack /\ Conserved /\ HeldBack'
  BY NextHeldBack DEF Agrees
<1>2. CASE \E ch \in Characters : PushChar(ch)
  <2>1. PICK ch \in Characters : PushChar(ch)
    BY <1>2
  <2>2. Conserved'
    BY <1>1, <2>1, PushConserves
  <2>3. ~finished /\ ~finished' /\ input \in Text /\ input' = Append(input, ch)
    BY <1>1, <2>1 DEF PushChar, Conserved
  <2>4. CASE Unfit(input)
    <3>1. Unfit(input')
      BY <2>3, <2>4, UnfitStays
    <3>2. QED
      BY <1>1, <2>2, <3>1 DEF Agrees, Unfit
  <2>5. CASE ~Unfit(input)
    <3>1. Unfit(input') \/ Follows(input', pending', result')
      BY <1>1, <2>1, <2>3, <2>5, PushFollows DEF Agrees
    <3>2. QED
      BY <1>1, <2>2, <2>3, <3>1 DEF Agrees, Unfit, Follows
  <2>6. QED
    BY <2>4, <2>5
<1>3. CASE Finish
  <2>1. Conserved'
    BY <1>1, <1>3, FinishConserves
  <2>2. ~finished /\ finished' /\ input' = input
    BY <1>3 DEF Finish
  <2>3. CASE Unfit(input)
    BY <1>1, <2>1, <2>2, <2>3 DEF Agrees, Unfit
  <2>4. CASE ~Unfit(input)
    <3>1. result' = RestoreText(input)
      BY <1>1, <1>3, <2>2, <2>4, FinishFollows DEF Agrees
    <3>2. QED
      BY <1>1, <2>1, <2>2, <3>1 DEF Agrees
  <2>5. QED
    BY <2>3, <2>4
<1>4. CASE UNCHANGED vars
  BY <1>1, <1>4 DEF vars, Agrees, Conserved, NothingLost
<1>5. QED
  BY <1>2, <1>3, <1>4 DEF Next

LEMMA StreamAgrees == Spec => []Agrees
BY InitAgrees, NextAgrees, PTL DEF Spec

\* A stream that ends has been restored as its whole text would be, with the same
\* candidates skipped and unresolved, wherever it was cut, unless one of its
\* candidates is beyond the limit of the stream.
THEOREM StreamRestoredAsWhole == Spec => []StreamEqualsWhole
<1>1. Agrees => StreamEqualsWhole
  <2>1. SUFFICES ASSUME Agrees, finished, CandidatesFit(input)
                 PROVE  result = RestoreText(input)
    BY DEF StreamEqualsWhole
  <2>2. ~Unfit(input)
    BY <2>1, UnfitDoesNotFit DEF Agrees, Conserved
  <2>3. QED
    BY <2>1, <2>2 DEF Agrees
<1>2. QED
  BY <1>1, StreamAgrees, PTL
=============================================================================
