---------------------------- MODULE FormatProofs ----------------------------
(***************************************************************************)
(* Proofs about ReadPath: a known command, written out from its parsed     *)
(* form, parses to the same command and parameters.                        *)
(*                                                                         *)
(* Format is defined by recursion over the parameters.  What holds of it   *)
(* for every number of them is shown by the smallest number for which it   *)
(* fails (Descent): the text behind parameter k splits into the command    *)
(* and the first k parameters (TextUpTo), and the trailing parameter is    *)
(* all that follows the first colon behind a space (TrailingFound).        *)
(***************************************************************************)
EXTENDS ReadPathProofs

\* A set of numbers that holds with each number the one before, and not 0, is
\* empty.
LEMMA Descent ==
  ASSUME NEW B \in SUBSET Nat, 0 \notin B, \A k \in Nat : k + 1 \in B => k \in B
  PROVE  B = {}
<1> SUFFICES ASSUME B # {} PROVE FALSE
  OBVIOUS
<1> DEFINE m == Min(B)
<1>1. m \in B /\ \A k \in B : m <= k
  BY MinProperties
<1> HIDE DEF m
<1>2. m \in Nat /\ m # 0 /\ m - 1 \in Nat /\ (m - 1) + 1 = m
  BY <1>1
<1>3. m - 1 \in B
  BY <1>1, <1>2
<1> QED
  BY <1>1, <1>2, <1>3

-----------------------------------------------------------------------------
(***************************************************************************)
(* Words of a text.                                                        *)
(***************************************************************************)

\* Where the words of a text start.
Starts(text) == {k \in DOMAIN text : text[k] # SP /\ (k > 1 => text[k - 1] = SP)}

\* The word that starts at k.
WordAt(text, k) ==
  IF find(from(text, k), SP) = 0 THEN from(text, k)
  ELSE SubSeq(from(text, k), 1, find(from(text, k), SP) - 1)

\* The bytes k to e of text have no space, and none of that kind follows.
IsWord(text, k, e) ==
  /\ \A i \in k..e : text[i] # SP
  /\ e = Len(text) \/ (e < Len(text) /\ text[e + 1] = SP)

LEMMA StartsFacts ==
  ASSUME NEW X, NEW text \in Seq(X)
  PROVE  /\ Starts(text) \in SUBSET Nat
         /\ Starts(text) \subseteq 1..Len(text)
         /\ IsFiniteSet(Starts(text))
         /\ Cardinality(Starts(text)) \in Nat
         /\ words(text) = [n \in 1..Cardinality(Starts(text)) |->
                             WordAt(text, ascending(Starts(text))[n])]
<1>1. Len(text) \in Nat /\ DOMAIN text = 1..Len(text)
  OBVIOUS
<1>2. Starts(text) \in SUBSET Nat /\ Starts(text) \subseteq 1..Len(text)
  BY <1>1 DEF Starts
<1>3. IsFiniteSet(Starts(text)) /\ Cardinality(Starts(text)) \in Nat
  <2>1. IsFiniteSet(1..Len(text))
    BY <1>1, FS_Interval
  <2> QED
    BY <1>2, <2>1, FS_Subset, FS_CardinalityType
<1>4. DOMAIN ascending(Starts(text)) = 1..Cardinality(Starts(text))
  BY DEF ascending
<1>5. words(text) = [n \in DOMAIN ascending(Starts(text)) |->
                       WordAt(text, ascending(Starts(text))[n])]
  BY DEF words, Starts, WordAt
<1> QED
  BY <1>2, <1>3, <1>4, <1>5

\* A word ends before the next space, or where the text ends.
LEMMA WordIs ==
  ASSUME NEW X, NEW text \in Seq(X), NEW k \in 1..Len(text),
         NEW e \in k..Len(text), IsWord(text, k, e)
  PROVE  WordAt(text, k) = SubSeq(text, k, e)
<1> DEFINE tail == from(text, k)
           p == find(tail, SP)
<1>1. /\ Len(text) \in Nat /\ k \in Nat \ {0} /\ e \in Nat /\ k <= e /\ e <= Len(text)
      /\ k \in 1..(Len(text) + 1)
  OBVIOUS
<1>2. /\ tail \in Seq(X)
      /\ Len(tail) = Len(text) - k + 1
      /\ \A j \in 1..(Len(text) - k + 1) : tail[j] = text[k + j - 1]
  BY <1>1, FromProperties
<1> HIDE DEF tail
<1>3. /\ p \in 0..Len(tail)
      /\ p = 0 => \A j \in 1..Len(tail) : tail[j] # SP
      /\ p # 0 => tail[p] = SP
      /\ \A j \in 1..(p - 1) : tail[j] # SP
  BY <1>2, FindProperties
<1> HIDE DEF p
<1>4. WordAt(text, k) = IF p = 0 THEN tail ELSE SubSeq(tail, 1, p - 1)
  BY DEF WordAt, p, tail
<1>5. CASE p = 0
  <2>1. e = Len(text)
    <3> SUFFICES ASSUME e < Len(text), text[e + 1] = SP PROVE FALSE
      BY DEF IsWord
    <3>1. e + 2 - k \in 1..(Len(text) - k + 1) /\ k + (e + 2 - k) - 1 = e + 1
      BY <1>1
    <3> QED
      BY <1>2, <1>3, <1>5, <3>1
  <2> QED
    BY <1>4, <1>5, <2>1 DEF tail, from
<1>6. CASE p # 0
  <2>1. p \in 1..(Len(text) - k + 1) /\ text[k + p - 1] = SP
    BY <1>1, <1>2, <1>3, <1>6
  <2>2. k + p - 1 > e
    BY <1>1, <2>1 DEF IsWord
  <2>3. k + p - 1 = e + 1
    <3> SUFFICES ASSUME e + 1 < k + p - 1 PROVE FALSE
      BY <1>1, <2>1, <2>2
    <3>1. e < Len(text) /\ text[e + 1] = SP
      BY <1>1, <2>1 DEF IsWord
    <3>2. e + 2 - k \in 1..(Len(text) - k + 1) /\ k + (e + 2 - k) - 1 = e + 1
          /\ e + 2 - k \in 1..(p - 1)
      BY <1>1, <2>1, <3>1
    <3> QED
      BY <1>2, <1>3, <3>1, <3>2
  <2> DEFINE n == p - 1
             v == SubSeq(tail, 1, n)
             w == SubSeq(text, k, e)
  <2>4. n = e - k + 1 /\ n \in Nat \ {0} /\ n <= Len(tail)
    BY <1>1, <1>2, <2>1, <2>3
  <2> HIDE DEF n
  <2>5. v \in Seq(X) /\ Len(v) = n /\ \A j \in 1..n : v[j] = tail[j]
    <3>1. /\ v \in Seq(X)
          /\ Len(v) = IF 1 <= n THEN n - 1 + 1 ELSE 0
          /\ \A j \in 1..(n - 1 + 1) : v[j] = tail[1 + j - 1]
      BY <1>2, <2>4, SliceProperties
    <3> HIDE DEF v
    <3> QED
      BY <2>4, <3>1
  <2>6. w \in Seq(X) /\ Len(w) = n /\ \A j \in 1..n : w[j] = text[k + j - 1]
    <3>1. /\ w \in Seq(X)
          /\ Len(w) = IF k <= e THEN e - k + 1 ELSE 0
          /\ \A j \in 1..(e - k + 1) : w[j] = text[k + j - 1]
      BY <1>1, SliceProperties
    <3> HIDE DEF w
    <3> QED
      BY <1>1, <2>4, <3>1
  <2> HIDE DEF v, w
  <2>7. \A j \in 1..n : j \in 1..(Len(text) - k + 1)
    BY <1>2, <2>4
  <2>8. v = w
    BY <1>2, <2>5, <2>6, <2>7, SeqEqual
  <2> QED
    BY <1>4, <1>6, <2>8 DEF n, v, w
<1> QED
  BY <1>5, <1>6

\* Every word has its end.
LEMMA WordEnds ==
  ASSUME NEW X, NEW text \in Seq(X), NEW k \in Starts(text)
  PROVE  \E e \in k..Len(text) : IsWord(text, k, e)
<1> DEFINE tail == from(text, k)
           p == find(tail, SP)
<1>1. Len(text) \in Nat /\ k \in 1..Len(text) /\ text[k] # SP
  BY DEF Starts
<1>2. /\ tail \in Seq(X)
      /\ Len(tail) = Len(text) - k + 1
      /\ \A j \in 1..(Len(text) - k + 1) : tail[j] = text[k + j - 1]
  BY <1>1, FromProperties
<1> HIDE DEF tail
<1>3. /\ p \in 0..Len(tail)
      /\ p = 0 => \A j \in 1..Len(tail) : tail[j] # SP
      /\ p # 0 => tail[p] = SP
      /\ \A j \in 1..(p - 1) : tail[j] # SP
  BY <1>2, FindProperties
<1> HIDE DEF p
<1>4. \A i \in k..Len(text) : i - k + 1 \in 1..(Len(text) - k + 1) /\ k + (i - k + 1) - 1 = i
  BY <1>1
<1>5. \A i \in k..Len(text) : tail[i - k + 1] = text[i]
  BY <1>2, <1>4
<1>6. CASE p = 0
  <2>1. \A i \in k..Len(text) : text[i] # SP
    BY <1>2, <1>3, <1>4, <1>5, <1>6
  <2> QED
    BY <1>1, <2>1 DEF IsWord
<1>7. CASE p # 0
  <2> DEFINE e == k + p - 2
  <2>1. p \in 1..(Len(text) - k + 1) /\ text[k + p - 1] = SP
    BY <1>1, <1>2, <1>3, <1>7
  <2>2. p # 1
    BY <1>1, <2>1
  <2>3. e \in k..Len(text) /\ e < Len(text) /\ e + 1 = k + p - 1
    BY <1>1, <2>1, <2>2
  <2>4. \A i \in k..e : i \in k..Len(text) /\ i - k + 1 \in 1..(p - 1)
    BY <1>1, <2>1, <2>3
  <2> HIDE DEF e
  <2>5. \A i \in k..e : text[i] # SP
    BY <1>3, <1>5, <2>4
  <2> QED
    BY <2>1, <2>3, <2>5 DEF IsWord
<1> QED
  BY <1>6, <1>7

-----------------------------------------------------------------------------
(***************************************************************************)
(* One more parameter.                                                     *)
(***************************************************************************)

\* A text with a further word behind a space.
Extended(text, w) == text \o (<<SP>> \o w)

\* A word that words can return.
WordOf(X, w) == w \in Seq(X) /\ w # <<>> /\ \A k \in 1..Len(w) : w[k] # SP

\* No trailing parameter starts in text.
NoTrailing(text) ==
  \A k \in 1..(Len(text) - 1) : ~(text[k] = SP /\ text[k + 1] = COLON)

\* The bytes of text with p behind a separator sep.
LEMMA JoinFacts ==
  ASSUME NEW X, NEW text \in Seq(X), NEW sep \in Seq(X), NEW w \in Seq(X)
  PROVE  /\ sep \o w \in Seq(X)
         /\ text \o (sep \o w) \in Seq(X)
         /\ Len(text \o (sep \o w)) = Len(text) + Len(sep) + Len(w)
         /\ \A k \in 1..Len(text) : (text \o (sep \o w))[k] = text[k]
         /\ \A k \in 1..Len(sep) : (text \o (sep \o w))[Len(text) + k] = sep[k]
         /\ \A k \in 1..Len(w) :
              (text \o (sep \o w))[Len(text) + Len(sep) + k] = w[k]
<1> DEFINE r == sep \o w
           t == text \o r
           a == Len(text)
           b == Len(sep)
           c == Len(w)
<1>1. a \in Nat /\ b \in Nat /\ c \in Nat
  OBVIOUS
<1>2. /\ r \in Seq(X) /\ Len(r) = b + c
      /\ \A k \in 1..(b + c) : r[k] = IF k <= b THEN sep[k] ELSE w[k - b]
  BY ConcatProperties
<1> HIDE DEF r
<1>3. /\ t \in Seq(X) /\ Len(t) = a + Len(r)
      /\ \A k \in 1..(a + Len(r)) : t[k] = IF k <= a THEN text[k] ELSE r[k - a]
  <2>1. r \in Seq(X)
    BY <1>2
  <2> QED
    BY <2>1, ConcatProperties
<1> HIDE DEF t, a, b, c
<1>4. \A k \in 1..a : t[k] = text[k]
  BY <1>1, <1>2, <1>3
<1>5. ASSUME NEW k \in 1..b PROVE t[a + k] = sep[k]
  <2>1. /\ a + k \in 1..(a + Len(r)) /\ ~(a + k <= a) /\ (a + k) - a = k
        /\ k \in 1..(b + c) /\ k <= b
    BY <1>1, <1>2
  <2>2. t[a + k] = r[k]
    BY <1>3, <2>1
  <2> QED
    BY <1>2, <2>1, <2>2
<1>6. ASSUME NEW k \in 1..c PROVE t[a + b + k] = w[k]
  <2>1. /\ a + b + k \in 1..(a + Len(r)) /\ ~(a + b + k <= a)
        /\ (a + b + k) - a = b + k /\ b + k \in 1..(b + c)
        /\ ~(b + k <= b) /\ (b + k) - b = k
    BY <1>1, <1>2
  <2>2. t[a + b + k] = r[b + k]
    BY <1>3, <2>1
  <2> QED
    BY <1>2, <2>1, <2>2
<1>7. Len(t) = a + b + c
  BY <1>1, <1>2, <1>3
<1> QED
  BY <1>2, <1>3, <1>4, <1>5, <1>6, <1>7 DEF t, r, a, b, c

\* Where each byte of an extended text comes from.
LEMMA ExtendedFacts ==
  ASSUME NEW X, SP \in X, NEW h \in Seq(X), h # <<>>, NEW w, WordOf(X, w)
  PROVE  /\ Len(h) \in Nat \ {0} /\ Len(w) \in Nat \ {0}
         /\ Extended(h, w) \in Seq(X)
         /\ Len(Extended(h, w)) = Len(h) + 1 + Len(w)
         /\ \A k \in 1..Len(h) : Extended(h, w)[k] = h[k]
         /\ Extended(h, w)[Len(h) + 1] = SP
         /\ \A k \in 1..Len(w) : Extended(h, w)[Len(h) + 1 + k] = w[k]
         /\ \A k \in (Len(h) + 2)..(Len(h) + 1 + Len(w)) : Extended(h, w)[k] # SP
<1> DEFINE t == Extended(h, w)
           a == Len(h)
           c == Len(w)
           sep == <<SP>>
<1>1. /\ a \in Nat \ {0} /\ c \in Nat \ {0} /\ w \in Seq(X)
      /\ \A k \in 1..c : w[k] # SP
  BY EmptySeq DEF WordOf
<1>2. sep \in Seq(X) /\ Len(sep) = 1 /\ sep[1] = SP
  OBVIOUS
<1> HIDE DEF sep
<1>3. /\ t \in Seq(X)
      /\ Len(t) = a + Len(sep) + c
      /\ \A k \in 1..a : t[k] = h[k]
      /\ \A k \in 1..Len(sep) : t[a + k] = sep[k]
      /\ \A k \in 1..c : t[a + Len(sep) + k] = w[k]
  <2>1. t = h \o (sep \o w)
    BY DEF Extended, sep
  <2>2. h \in Seq(X) /\ w \in Seq(X) /\ sep \in Seq(X)
    BY <1>1, <1>2
  <2> HIDE DEF t
  <2>3. /\ h \o (sep \o w) \in Seq(X)
        /\ Len(h \o (sep \o w)) = Len(h) + Len(sep) + Len(w)
        /\ \A k \in 1..Len(h) : (h \o (sep \o w))[k] = h[k]
        /\ \A k \in 1..Len(sep) : (h \o (sep \o w))[Len(h) + k] = sep[k]
        /\ \A k \in 1..Len(w) : (h \o (sep \o w))[Len(h) + Len(sep) + k] = w[k]
    BY <2>2, JoinFacts
  <2> QED
    BY <2>1, <2>3
<1> HIDE DEF t, a, c
<1>4. \A k \in (a + 2)..(a + 1 + c) : k - a - 1 \in 1..c /\ a + 1 + (k - a - 1) = k
  BY <1>1
<1>5. \A k \in (a + 2)..(a + 1 + c) : t[k] # SP
  <2>1. ASSUME NEW k \in (a + 2)..(a + 1 + c) PROVE t[k] # SP
    <3> DEFINE j == k - a - 1
    <3>1. j \in 1..c /\ a + 1 + j = k
      BY <1>4
    <3> HIDE DEF j
    <3>2. t[a + Len(sep) + j] = w[j] /\ w[j] # SP
      BY <1>1, <1>3, <3>1
    <3> QED
      BY <1>2, <3>1, <3>2
  <2> QED
    BY <2>1
<1> QED
  BY <1>1, <1>2, <1>3, <1>5 DEF t, a, c

\* It starts one word more, behind the space.
LEMMA ExtendedStarts ==
  ASSUME NEW X, SP \in X, NEW h \in Seq(X), h # <<>>, NEW w, WordOf(X, w)
  PROVE  Starts(Extended(h, w)) = Starts(h) \cup {Len(h) + 2}
<1> DEFINE t == Extended(h, w)
           a == Len(h)
           c == Len(w)
<1>1. /\ a \in Nat \ {0} /\ c \in Nat \ {0}
      /\ t \in Seq(X) /\ Len(t) = a + 1 + c
      /\ \A k \in 1..a : t[k] = h[k]
      /\ t[a + 1] = SP
      /\ \A k \in (a + 2)..(a + 1 + c) : t[k] # SP
  BY ExtendedFacts
<1>2. DOMAIN t = 1..(a + 1 + c) /\ DOMAIN h = 1..a
  BY <1>1
<1> HIDE DEF t, a, c
<1>3. ASSUME NEW k \in 1..a PROVE k \in Starts(t) <=> k \in Starts(h)
  <2>1. t[k] = h[k] /\ k \in 1..(a + 1 + c)
    BY <1>1
  <2>2. k > 1 => t[k - 1] = h[k - 1]
    BY <1>1
  <2> QED
    BY <1>2, <2>1, <2>2 DEF Starts
<1>4. a + 1 \notin Starts(t)
  BY <1>1 DEF Starts
<1>5. a + 2 \in Starts(t)
  <2>1. a + 2 \in 1..(a + 1 + c) /\ a + 2 \in (a + 2)..(a + 1 + c) /\ (a + 2) - 1 = a + 1
    BY <1>1
  <2> QED
    BY <1>1, <1>2, <2>1 DEF Starts
<1>6. ASSUME NEW k \in (a + 3)..(a + 1 + c) PROVE k \notin Starts(t)
  <2>1. k - 1 \in (a + 2)..(a + 1 + c) /\ k > 1
    BY <1>1
  <2> QED
    BY <1>1, <2>1 DEF Starts
<1>7. \A k \in 1..(a + 1 + c) : k \in 1..a \/ k = a + 1 \/ k = a + 2 \/ k \in (a + 3)..(a + 1 + c)
  BY <1>1
<1>8. Starts(t) \subseteq 1..(a + 1 + c) /\ Starts(h) \subseteq 1..a
  BY <1>2 DEF Starts
<1>9. Starts(t) = Starts(h) \cup {a + 2}
  BY <1>3, <1>4, <1>5, <1>6, <1>7, <1>8
<1> QED
  BY <1>9 DEF t, a

\* A number above all of S comes last.
LEMMA AscendingAbove ==
  ASSUME NEW S \in SUBSET Nat, IsFiniteSet(S), NEW x \in Nat, \A k \in S : k < x
  PROVE  /\ Cardinality(S \cup {x}) = Cardinality(S) + 1
         /\ \A n \in 1..Cardinality(S) : ascending(S \cup {x})[n] = ascending(S)[n]
         /\ ascending(S \cup {x})[Cardinality(S) + 1] = x
<1> DEFINE T == S \cup {x}
           c == Cardinality(S)
<1>1. x \notin S
  <2>1. ~(x < x)
    OBVIOUS
  <2> QED
    BY <2>1
<1>2. /\ IsFiniteSet(T) /\ Cardinality(T) = c + 1 /\ c \in Nat /\ T \in SUBSET Nat
  <2>1. IsFiniteSet(T) /\ Cardinality(T) = c + 1
    BY <1>1, FS_AddElement
  <2>2. c \in Nat
    BY FS_CardinalityType
  <2>3. T \in SUBSET Nat
    OBVIOUS
  <2> HIDE DEF T, c
  <2> QED
    BY <2>1, <2>2, <2>3
<1>3. Below(T, x) = S
  <2>1. ~(x < x)
    OBVIOUS
  <2> QED
    BY <2>1 DEF Below
<1>4. ASSUME NEW k \in S PROVE Below(T, k) = Below(S, k) /\ k \in T
  <2>1. ~(x < k)
    OBVIOUS
  <2> QED
    BY <2>1 DEF Below
<1>5. /\ ascending(S) \in [1..c -> S]
      /\ \A n \in 1..c : Cardinality(Below(S, ascending(S)[n])) = n - 1
  BY AscendingProperties
<1>6. x \in T
  OBVIOUS
<1> HIDE DEF T, c
<1>7. \A k \in T : ascending(T)[Cardinality(Below(T, k)) + 1] = k
  BY <1>2, AscendingProperties
<1>8. ascending(T)[c + 1] = x
  BY <1>3, <1>6, <1>7 DEF c
<1>9. ASSUME NEW n \in 1..c PROVE ascending(T)[n] = ascending(S)[n]
  <2>1. ascending(S)[n] \in S
    BY <1>5
  <2>2. Cardinality(Below(T, ascending(S)[n])) = n - 1
    BY <1>4, <1>5, <2>1
  <2>3. (n - 1) + 1 = n
    BY <1>2
  <2> QED
    BY <1>4, <1>7, <2>1, <2>2, <2>3
<1> QED
  BY <1>2, <1>8, <1>9 DEF T, c

\* A further word is the last of them.
LEMMA WordsExtended ==
  ASSUME NEW X, SP \in X, NEW h \in Seq(X), h # <<>>, NEW w, WordOf(X, w)
  PROVE  words(Extended(h, w)) = Append(words(h), w)
<1> DEFINE t == Extended(h, w)
           a == Len(h)
           b == Len(w)
           H == Starts(h)
           T == Starts(t)
           c == Cardinality(H)
           ws == words(h)
           vs == words(t)
<1>1. /\ a \in Nat \ {0} /\ b \in Nat \ {0} /\ w \in Seq(X)
      /\ t \in Seq(X) /\ Len(t) = a + 1 + b
      /\ \A k \in 1..a : t[k] = h[k]
      /\ t[a + 1] = SP
      /\ \A k \in 1..b : t[a + 1 + k] = w[k]
      /\ \A k \in (a + 2)..(a + 1 + b) : t[k] # SP
  <2>1. w \in Seq(X)
    BY DEF WordOf
  <2> HIDE DEF t
  <2>2. /\ a \in Nat \ {0} /\ b \in Nat \ {0}
        /\ t \in Seq(X) /\ Len(t) = a + 1 + b
        /\ \A k \in 1..a : t[k] = h[k]
        /\ t[a + 1] = SP
        /\ \A k \in 1..b : t[a + 1 + k] = w[k]
        /\ \A k \in (a + 2)..(a + 1 + b) : t[k] # SP
    BY ExtendedFacts DEF t
  <2> QED
    BY <2>1, <2>2
<1>2. /\ H \in SUBSET Nat /\ H \subseteq 1..a /\ IsFiniteSet(H) /\ c \in Nat
      /\ ws = [n \in 1..c |-> WordAt(h, ascending(H)[n])]
  BY StartsFacts
<1>3. T = H \cup {a + 2}
  BY ExtendedStarts
<1> HIDE DEF t
<1>4. vs = [n \in 1..Cardinality(T) |-> WordAt(t, ascending(T)[n])]
  BY <1>1, StartsFacts
<1> HIDE DEF a, b, H, T, c, ws, vs
<1>5. /\ Cardinality(T) = c + 1
      /\ \A n \in 1..c : ascending(T)[n] = ascending(H)[n]
      /\ ascending(T)[c + 1] = a + 2
  <2>1. a + 2 \in Nat /\ \A k \in H : k < a + 2
    BY <1>1, <1>2
  <2> QED
    BY <1>2, <1>3, <2>1, AscendingAbove DEF c
<1>6. \A n \in 1..c : ascending(H)[n] \in H
  BY <1>2, AscendingProperties DEF c
<1>7. ASSUME NEW k \in H PROVE WordAt(t, k) = WordAt(h, k)
  <2>1. PICK e \in k..a : IsWord(h, k, e)
    BY WordEnds DEF H, a
  <2>2. k \in 1..a /\ e \in 1..a /\ k \in 1..(a + 1 + b) /\ e \in k..(a + 1 + b)
    BY <1>1, <1>2
  <2>3. WordAt(h, k) = SubSeq(h, k, e)
    BY <2>1, <2>2, WordIs DEF a
  <2>4. IsWord(t, k, e)
    <3>1. \A i \in k..e : i \in 1..a
      BY <1>1, <2>2
    <3>2. \A i \in k..e : t[i] # SP
      BY <1>1, <2>1, <3>1 DEF IsWord
    <3>3. e < Len(t) /\ t[e + 1] = SP
      <4>1. CASE e = a
        BY <1>1, <4>1
      <4>2. CASE e # a
        <5>1. e < a /\ h[e + 1] = SP
          BY <2>1, <4>2 DEF IsWord, a
        <5>2. e + 1 \in 1..a
          BY <1>1, <2>2, <5>1
        <5> QED
          BY <1>1, <2>2, <5>1, <5>2
      <4> QED
        BY <4>1, <4>2
    <3> QED
      BY <3>2, <3>3 DEF IsWord
  <2>5. WordAt(t, k) = SubSeq(t, k, e)
    BY <1>1, <2>2, <2>4, WordIs
  <2>6. SubSeq(t, k, e) = SubSeq(h, k, e)
    <3>1. <<SP>> \o w \in Seq(X)
      <4>1. <<SP>> \in Seq(X)
        OBVIOUS
      <4> QED
        BY <1>1, <4>1, ConcatProperties
    <3>2. t = h \o (<<SP>> \o w)
      BY DEF t, Extended
    <3> QED
      BY <2>2, <3>1, <3>2, SubSeqOfConcat1 DEF a
  <2> QED
    BY <2>3, <2>5, <2>6
<1>8. WordAt(t, a + 2) = w
  <2> DEFINE k == a + 2
             e == a + 1 + b
             v == SubSeq(t, k, e)
  <2>1. k \in 1..Len(t) /\ e \in k..Len(t) /\ e = Len(t) /\ e - k + 1 = b
        /\ k \in Nat \ {0} /\ e \in Int /\ k <= e /\ e <= Len(t)
    BY <1>1
  <2>2. IsWord(t, k, e)
    BY <1>1, <2>1 DEF IsWord
  <2>3. \A j \in 1..b : k + j - 1 = a + 1 + j
    BY <1>1
  <2> HIDE DEF k, e
  <2>4. WordAt(t, k) = v
    BY <1>1, <2>1, <2>2, WordIs
  <2>5. /\ v \in Seq(X)
        /\ Len(v) = IF k <= e THEN e - k + 1 ELSE 0
        /\ \A j \in 1..(e - k + 1) : v[j] = t[k + j - 1]
    BY <1>1, <2>1, SliceProperties
  <2> HIDE DEF v
  <2>6. Len(v) = b /\ \A j \in 1..b : v[j] = w[j]
    <3>1. Len(v) = b
      BY <2>1, <2>5
    <3>2. ASSUME NEW j \in 1..b PROVE v[j] = w[j]
      <4>1. v[j] = t[k + j - 1]
        BY <2>1, <2>5
      <4>2. k + j - 1 = a + 1 + j /\ t[a + 1 + j] = w[j]
        BY <1>1, <2>3
      <4> QED
        BY <4>1, <4>2
    <3> QED
      BY <3>1, <3>2
  <2>7. v = w
    BY <1>1, <2>5, <2>6, SeqEqual DEF b
  <2> QED
    BY <2>4, <2>7 DEF k
<1>9. vs = [n \in 1..(c + 1) |-> IF n = c + 1 THEN w ELSE ws[n]]
  <2>1. ASSUME NEW n \in 1..(c + 1)
        PROVE  WordAt(t, ascending(T)[n]) = IF n = c + 1 THEN w ELSE ws[n]
    <3>1. CASE n = c + 1
      BY <1>5, <1>8, <3>1
    <3>2. CASE n # c + 1
      <4>1. n \in 1..c
        BY <1>2, <3>2
      <4> QED
        BY <1>2, <1>5, <1>6, <1>7, <3>2, <4>1
    <3> QED
      BY <3>1, <3>2
  <2> QED
    BY <1>4, <1>5, <2>1
<1>10. ws \in Seq(Seq(X))
  BY WordsProperties DEF ws
<1>11. Len(ws) = c /\ DOMAIN ws = 1..c
  <2>1. DOMAIN ws = 1..c
    BY <1>2
  <2> QED
    BY <1>2, <1>10, <2>1, LenProperties
<1>12. Append(ws, w) = [n \in 1..(c + 1) |-> IF n = c + 1 THEN w ELSE ws[n]]
  <2> DEFINE u == Append(ws, w)
  <2>1. /\ u \in Seq(Seq(X)) /\ Len(u) = Len(ws) + 1
        /\ \A n \in 1..Len(ws) : u[n] = ws[n]
        /\ u[Len(ws) + 1] = w
    BY <1>1, <1>10, AppendProperties
  <2> HIDE DEF u
  <2>2. u \in [1..(c + 1) -> Seq(X)]
    BY <1>11, <2>1, LenProperties
  <2>3. \A n \in 1..(c + 1) : u[n] = IF n = c + 1 THEN w ELSE ws[n]
    BY <1>2, <1>11, <2>1
  <2>4. u = [n \in 1..(c + 1) |-> IF n = c + 1 THEN w ELSE ws[n]]
    BY <2>2, <2>3
  <2> QED
    BY <2>4 DEF u
<1> QED
  BY <1>9, <1>12 DEF vs, t, ws

\* A single word.
LEMMA OneWord ==
  ASSUME NEW X, NEW w, WordOf(X, w)
  PROVE  words(w) = <<w>>
<1> DEFINE a == Len(w)
           S == Starts(w)
           vs == words(w)
<1>1. w \in Seq(X) /\ a \in Nat \ {0} /\ DOMAIN w = 1..a /\ \A k \in 1..a : w[k] # SP
  BY EmptySeq DEF WordOf
<1> HIDE DEF a
<1>2. S = {1}
  <2>1. 1 \in 1..a /\ ~(1 > 1) /\ \A k \in 1..a : k # 1 => k > 1 /\ k - 1 \in 1..a
    BY <1>1
  <2> QED
    BY <1>1, <2>1 DEF Starts
<1>3. vs = [n \in 1..Cardinality(S) |-> WordAt(w, ascending(S)[n])] /\ IsFiniteSet(S)
  BY <1>1, StartsFacts
<1>4. WordAt(w, 1) = w
  <2>1. IsWord(w, 1, a) /\ 1 \in 1..a /\ a \in 1..a
    BY <1>1 DEF IsWord, a
  <2>2. WordAt(w, 1) = SubSeq(w, 1, a)
    BY <1>1, <2>1, WordIs DEF a
  <2> QED
    BY <1>1, <2>2, SubSeqFull DEF a
<1> HIDE DEF S, vs
<1>5. Cardinality(S) = 1
  BY <1>2, FS_Singleton
<1>6. ascending(S)[1] = 1
  <2>1. S \in SUBSET Nat
    BY <1>2
  <2>2. ascending(S) \in [1..1 -> S]
    BY <1>3, <1>5, <2>1, AscendingProperties
  <2> QED
    BY <1>2, <2>2
<1>7. vs = [n \in 1..1 |-> w]
  BY <1>3, <1>4, <1>5, <1>6
<1> QED
  BY <1>7 DEF vs

\* A parameter that is a word, and does not start with the colon of a trailing
\* one, starts no trailing parameter.
LEMMA ExtendedNoTrailing ==
  ASSUME NEW X, SP \in X, NEW h \in Seq(X), h # <<>>, NEW w, WordOf(X, w),
         w[1] # COLON, NoTrailing(h)
  PROVE  NoTrailing(Extended(h, w))
<1> DEFINE t == Extended(h, w)
           a == Len(h)
           b == Len(w)
<1>1. /\ a \in Nat \ {0} /\ b \in Nat \ {0}
      /\ Len(t) = a + 1 + b
      /\ \A k \in 1..a : t[k] = h[k]
      /\ t[a + 1] = SP
      /\ \A k \in 1..b : t[a + 1 + k] = w[k]
      /\ \A k \in (a + 2)..(a + 1 + b) : t[k] # SP
  <2> HIDE DEF t
  <2> QED
    BY ExtendedFacts DEF t
<1>2. \A k \in 1..(a - 1) : ~(h[k] = SP /\ h[k + 1] = COLON)
  BY DEF NoTrailing
<1> HIDE DEF t, a, b
<1>3. SP # COLON
  BY DEF SP, COLON
<1>4. ASSUME NEW k \in 1..(a + 1 + b - 1), t[k] = SP, t[k + 1] = COLON PROVE FALSE
  <2>1. CASE k < a
    <3>1. k \in 1..(a - 1) /\ k \in 1..a /\ k + 1 \in 1..a
      BY <1>1, <2>1
    <3> QED
      BY <1>1, <1>2, <1>4, <3>1
  <2>2. CASE k = a
    BY <1>1, <1>3, <1>4, <2>2
  <2>3. CASE k = a + 1
    <3>1. 1 \in 1..b /\ k + 1 = a + 1 + 1
      BY <1>1, <2>3
    <3> QED
      BY <1>1, <1>4, <3>1
  <2>4. CASE k > a + 1
    <3>1. k \in (a + 2)..(a + 1 + b)
      BY <1>1, <2>4
    <3> QED
      BY <1>1, <1>4, <3>1
  <2> QED
    BY <1>1, <2>1, <2>2, <2>3, <2>4
<1>5. NoTrailing(t)
  BY <1>1, <1>4 DEF NoTrailing
<1> QED
  BY <1>5 DEF t

\* Behind " :" the trailing parameter starts, and it is found there.
LEMMA TrailingFound ==
  ASSUME NEW X, SP \in X, COLON \in X, NEW h \in Seq(X), NEW p \in Seq(X),
         NoTrailing(h), NEW t, t = h \o (<<SP, COLON>> \o p)
  PROVE  /\ t \in Seq(X)
         /\ trailingPositions(t) # {}
         /\ SubSeq(t, 1, Min(trailingPositions(t)) - 1) = h
         /\ from(t, Min(trailingPositions(t)) + 2) = p
<1> DEFINE a == Len(h)
           b == Len(p)
           sep == <<SP, COLON>>
           P == trailingPositions(t)
           m == Min(P)
<1>1. /\ sep \in Seq(X) /\ Len(sep) = 2 /\ sep[1] = SP /\ sep[2] = COLON
  OBVIOUS
<1>2. a \in Nat /\ b \in Nat
  OBVIOUS
<1> HIDE DEF sep
<1>3. /\ sep \o p \in Seq(X)
      /\ t \in Seq(X)
      /\ Len(t) = a + Len(sep) + b
      /\ \A k \in 1..a : t[k] = h[k]
      /\ \A k \in 1..Len(sep) : t[a + k] = sep[k]
      /\ \A k \in 1..b : t[a + Len(sep) + k] = p[k]
  BY <1>1, JoinFacts DEF sep
<1>4. /\ Len(t) = a + 2 + b
      /\ t[a + 1] = SP /\ t[a + 2] = COLON
      /\ \A k \in 1..b : t[a + 2 + k] = p[k]
  <2>1. 1 \in 1..2 /\ 2 \in 1..2
    OBVIOUS
  <2>2. Len(t) = a + 2 + b /\ t[a + 1] = SP /\ t[a + 2] = COLON
    BY <1>1, <1>3, <2>1
  <2>3. ASSUME NEW k \in 1..b PROVE t[a + 2 + k] = p[k]
    <3>1. t[a + Len(sep) + k] = p[k]
      BY <1>3
    <3> QED
      BY <1>1, <3>1
  <2> QED
    BY <2>2, <2>3
<1>5. \A k \in 1..(a - 1) : ~(h[k] = SP /\ h[k + 1] = COLON)
  BY DEF NoTrailing
<1>6. SP # COLON
  BY DEF SP, COLON
<1>7. P = {k \in 1..(Len(t) - 1) : t[k] = SP /\ t[k + 1] = COLON}
  BY DEF trailingPositions
<1> HIDE DEF a, b, P
<1>8. a + 1 \in P
  <2>1. a + 1 \in 1..(Len(t) - 1) /\ (a + 1) + 1 = a + 2
    BY <1>2, <1>4
  <2> QED
    BY <1>4, <1>7, <2>1
<1>9. ASSUME NEW k \in P PROVE a + 1 <= k
  <2> SUFFICES ASSUME k <= a PROVE FALSE
    BY <1>2, <1>7
  <2>1. k \in 1..a /\ t[k] = SP /\ t[k + 1] = COLON
    BY <1>2, <1>7
  <2>2. CASE k = a
    BY <1>4, <1>6, <2>1, <2>2
  <2>3. CASE k < a
    <3>1. k \in 1..(a - 1) /\ k + 1 \in 1..a
      BY <1>2, <2>1, <2>3
    <3> QED
      BY <1>3, <1>5, <2>1, <3>1
  <2> QED
    BY <1>2, <2>1, <2>2, <2>3
<1>10. m = a + 1
  <2>1. P \in SUBSET Nat /\ P # {}
    BY <1>7, <1>8
  <2>2. m \in P /\ \A k \in P : m <= k
    BY <2>1, MinProperties
  <2> HIDE DEF m
  <2>3. m <= a + 1 /\ a + 1 <= m /\ m \in Nat
    BY <1>8, <1>9, <2>1, <2>2
  <2> QED
    BY <1>2, <2>3
<1> HIDE DEF m
<1>11. SubSeq(t, 1, m - 1) = h
  <2> DEFINE v == SubSeq(t, 1, a)
  <2>1. a <= Len(t) /\ a \in Int /\ 1 \in Nat \ {0} /\ t \in Seq(X)
    BY <1>2, <1>3, <1>4
  <2>2. /\ v \in Seq(X)
        /\ Len(v) = IF 1 <= a THEN a - 1 + 1 ELSE 0
        /\ \A k \in 1..(a - 1 + 1) : v[k] = t[1 + k - 1]
    BY <2>1, SliceProperties
  <2> HIDE DEF v
  <2>3. Len(v) = a /\ \A k \in 1..a : v[k] = h[k]
    <3>1. Len(v) = a
      BY <1>2, <2>2
    <3>2. ASSUME NEW k \in 1..a PROVE v[k] = h[k]
      <4>1. k \in 1..(a - 1 + 1) /\ 1 + k - 1 = k
        BY <1>2
      <4>2. v[k] = t[1 + k - 1]
        BY <2>2, <4>1
      <4> QED
        BY <1>3, <4>1, <4>2
    <3> QED
      BY <3>1, <3>2
  <2>4. v = h
    BY <2>2, <2>3, SeqEqual DEF a
  <2>5. m - 1 = a
    BY <1>2, <1>10
  <2> QED
    BY <2>4, <2>5 DEF v
<1>12. from(t, m + 2) = p
  <2> DEFINE f == from(t, a + 3)
  <2>1. a + 3 \in 1..(Len(t) + 1) /\ t \in Seq(X)
    BY <1>2, <1>3, <1>4
  <2>2. /\ f \in Seq(X)
        /\ Len(f) = Len(t) - (a + 3) + 1
        /\ \A k \in 1..(Len(t) - (a + 3) + 1) : f[k] = t[(a + 3) + k - 1]
    BY <2>1, FromProperties
  <2> HIDE DEF f
  <2>3. Len(f) = b
    BY <1>2, <1>4, <2>2
  <2>4. ASSUME NEW k \in 1..b PROVE f[k] = p[k]
    <3>1. (a + 3) + k - 1 = a + 2 + k
      BY <1>2
    <3> QED
      BY <1>4, <2>2, <2>3, <3>1
  <2>5. f = p
    BY <2>2, <2>3, <2>4, SeqEqual DEF b
  <2>6. m + 2 = a + 3
    BY <1>2, <1>10
  <2> QED
    BY <2>5, <2>6 DEF f
<1> QED
  BY <1>3, <1>8, <1>11, <1>12 DEF P, m

-----------------------------------------------------------------------------
(***************************************************************************)
(* What the parser leaves as it is.                                        *)
(***************************************************************************)

\* A text without line feed has no line ending to strip.
LEMMA StripNothing ==
  ASSUME NEW X, LF \notin X, NEW line \in Seq(X)
  PROVE  stripLineEnding(line) = line
<1> DEFINE r == Reverse(line)
           a == Len(line)
<1>1. a \in Nat /\ \A k \in 1..a : line[k] # LF
  BY ElementOfSeq
<1>2. /\ r \in Seq(X) /\ Len(r) = a
      /\ \A k \in 1..a : r[k] # LF
  <2>1. r = [k \in 1..a |-> line[(a - k) + 1]]
    BY DEF Reverse
  <2>2. \A k \in 1..a : (a - k) + 1 \in 1..a
    BY <1>1
  <2>3. \A k \in 1..a : line[(a - k) + 1] \in X /\ line[(a - k) + 1] # LF
    BY <1>1, <2>2, ElementOfSeq
  <2> HIDE DEF r, a
  <2>4. r \in [1..a -> X]
    BY <2>1, <2>3
  <2>5. r \in Seq(X) /\ Len(r) = a
    BY <1>1, <2>4, SeqDef, LenProperties
  <2> QED
    BY <2>1, <2>3, <2>5
<1>3. ASSUME NEW s, s \in Seq({LF, CR}), Len(s) \in Nat \ {0}, s[Len(s)] = LF
      PROVE  ~IsSuffix(s, line)
  <2> DEFINE q == Reverse(s)
             b == Len(s)
             v == SubSeq(q, 1, Len(q))
             w == SubSeq(r, 1, Len(q))
  <2> SUFFICES ASSUME Len(q) <= Len(r), v = w PROVE FALSE
    BY DEF IsSuffix, IsPrefix
  <2>1. q = [k \in 1..b |-> s[(b - k) + 1]] /\ b \in Nat \ {0}
    BY <1>3 DEF Reverse
  <2>2. q \in Seq({LF, CR}) /\ Len(q) = b /\ q[1] = LF
    <3>1. \A k \in 1..b : (b - k) + 1 \in 1..b
      BY <2>1
    <3>2. \A k \in 1..b : s[(b - k) + 1] \in {LF, CR}
      BY <1>3, <3>1, ElementOfSeq
    <3>3. (b - 1) + 1 = b /\ 1 \in 1..b
      BY <2>1
    <3>4. s[b] = LF
      BY <1>3
    <3> HIDE DEF q, b
    <3>5. q \in [1..b -> {LF, CR}]
      BY <2>1, <3>2
    <3>6. q \in Seq({LF, CR}) /\ Len(q) = b
      BY <2>1, <3>5, SeqDef, LenProperties
    <3> QED
      BY <2>1, <3>3, <3>4, <3>6
  <2>3. b \in Nat \ {0} /\ b <= a /\ 1 \in 1..b /\ 1 \in 1..a
    BY <1>1, <1>2, <2>1, <2>2
  <2> HIDE DEF q, b, r, a
  <2>4. v = q
    BY <2>2, SubSeqFull
  <2>5. w[1] = r[1]
    <3>1. /\ b \in Int /\ b <= Len(r) /\ 1 \in Nat \ {0} /\ r \in Seq(X)
          /\ 1 \in 1..(b - 1 + 1) /\ 1 + 1 - 1 = 1
      BY <1>2, <2>3
    <3>2. \A k \in 1..(b - 1 + 1) : SubSeq(r, 1, b)[k] = r[1 + k - 1]
      BY <3>1, SliceProperties
    <3> QED
      BY <2>2, <3>1, <3>2
  <2> HIDE DEF v, w
  <2> QED
    BY <1>2, <2>2, <2>3, <2>4, <2>5
<1>4. ~IsSuffix(<<LF>>, line) /\ ~IsSuffix(<<CR, LF>>, line)
  <2> DEFINE lf == <<LF>>
             crlf == <<CR, LF>>
  <2>1. lf \in Seq({LF, CR}) /\ Len(lf) = 1 /\ lf[1] = LF
    OBVIOUS
  <2>2. crlf \in Seq({LF, CR}) /\ Len(crlf) = 2 /\ crlf[2] = LF
    OBVIOUS
  <2> HIDE DEF lf, crlf
  <2>3. Len(lf) \in Nat \ {0} /\ lf[Len(lf)] = LF
    BY <2>1
  <2>4. Len(crlf) \in Nat \ {0} /\ crlf[Len(crlf)] = LF
    BY <2>2
  <2>5. ~IsSuffix(lf, line) /\ ~IsSuffix(crlf, line)
    BY <1>3, <2>1, <2>2, <2>3, <2>4
  <2> QED
    BY <2>5 DEF lf, crlf
<1> QED
  BY <1>4 DEF stripLineEnding

\* A text that does not start with a colon has no prefix to skip.
LEMMA SkipNothing ==
  ASSUME NEW X, NEW text \in Seq(X), text # <<>>, text[1] # COLON
  PROVE  skipPrefix(text) = text
<1> DEFINE c == <<COLON>>
<1>1. c \in Seq({COLON}) /\ Len(c) = 1 /\ c[1] = COLON
  OBVIOUS
<1> HIDE DEF c
<1>2. Len(text) \in Nat \ {0} /\ 1 \in Nat \ {0} /\ 1 \in Int /\ 1 <= Len(text)
      /\ 1 \in 1..(1 - 1 + 1) /\ 1 + 1 - 1 = 1
  BY EmptySeq
<1>3. SubSeq(text, 1, 1)[1] = text[1]
  <2>1. \A k \in 1..(1 - 1 + 1) : SubSeq(text, 1, 1)[k] = text[1 + k - 1]
    BY <1>2, SliceProperties
  <2> QED
    BY <1>2, <2>1
<1>4. SubSeq(c, 1, 1) = c
  BY <1>1, SubSeqFull
<1>5. SubSeq(c, 1, Len(c)) # SubSeq(text, 1, Len(c))
  BY <1>1, <1>3, <1>4
<1>6. ~IsPrefix(c, text)
  BY <1>5 DEF IsPrefix
<1> QED
  BY <1>6 DEF skipPrefix, c

\* A known command is written in the upper case it is compared in.
LEMMA SetCommandKnown ==
  ASSUME NEW word \in KnownCommands
  PROVE  setCommand(word) = word
<1> DEFINE upper == [k \in DOMAIN word |-> IF word[k] \in Letters THEN toupper[word[k]]
                                          ELSE word[k]]
<1>1. word \in Seq(Letters) /\ \A k \in DOMAIN word : toupper[word[k]] = word[k]
  BY ReadPathAssumption
<1>2. word \in [1..Len(word) -> Letters] /\ DOMAIN word = 1..Len(word)
  BY <1>1, LenProperties
<1>3. upper = [k \in DOMAIN word |-> word[k]]
  BY <1>1
<1>4. upper = word
  BY <1>2, <1>3
<1> QED
  BY <1>4 DEF setCommand

-----------------------------------------------------------------------------
(***************************************************************************)
(* The text that Format writes.                                            *)
(***************************************************************************)

\* What Format writes for parameter k.
Part(cmd, k) ==
  IF k = Len(cmd.params) THEN <<SP, COLON>> \o cmd.params[k]
  ELSE <<SP>> \o cmd.params[k]

\* g is the text behind each of the first m parameters.
Grows(cmd, g, m) ==
  g = [k \in 0..m |-> IF k = 0 THEN cmd.command ELSE g[k - 1] \o Part(cmd, k)]

\* There is such a g for every m.
LEMMA GrowsExists ==
  ASSUME NEW cmd, NEW n \in Nat
  PROVE  \E g : Grows(cmd, g, n)
<1> DEFINE B == {m \in Nat : ~\E g : Grows(cmd, g, m)}
<1>1. 0 \notin B
  <2> DEFINE g == [k \in 0..0 |-> cmd.command]
  <2>1. \A k \in 0..0 : k = 0
    OBVIOUS
  <2>2. Grows(cmd, g, 0)
    BY <2>1 DEF Grows
  <2> QED
    BY <2>2
<1>2. ASSUME NEW m \in Nat, NEW g, Grows(cmd, g, m)
      PROVE  \E h : Grows(cmd, h, m + 1)
  <2> DEFINE h == [k \in 0..(m + 1) |-> IF k = m + 1 THEN g[m] \o Part(cmd, m + 1)
                                        ELSE g[k]]
  <2>1. \A k \in 0..m : g[k] = IF k = 0 THEN cmd.command ELSE g[k - 1] \o Part(cmd, k)
    BY <1>2 DEF Grows
  <2>2. \A k \in 0..m : h[k] = g[k]
    OBVIOUS
  <2>3. ASSUME NEW k \in 0..(m + 1)
        PROVE  h[k] = IF k = 0 THEN cmd.command ELSE h[k - 1] \o Part(cmd, k)
    <3>1. CASE k = m + 1
      <4>1. k # 0 /\ k - 1 = m /\ m \in 0..m
        BY <3>1
      <4>2. h[k] = g[m] \o Part(cmd, k)
        BY <3>1
      <4> HIDE DEF h
      <4> QED
        BY <2>2, <4>1, <4>2
    <3>2. CASE k # m + 1
      <4>1. k \in 0..m /\ (k # 0 => k - 1 \in 0..m)
        BY <3>2
      <4> HIDE DEF h
      <4> QED
        BY <2>1, <2>2, <4>1
    <3> QED
      BY <3>1, <3>2
  <2>4. h = [k \in 0..(m + 1) |-> h[k]]
    OBVIOUS
  <2> HIDE DEF h
  <2>5. Grows(cmd, h, m + 1)
    BY <2>3, <2>4 DEF Grows
  <2> QED
    BY <2>5
<1>3. \A m \in Nat : m + 1 \in B => m \in B
  BY <1>2
<1>4. B \in SUBSET Nat
  OBVIOUS
<1> HIDE DEF B
<1>5. B = {}
  BY <1>1, <1>3, <1>4, Descent
<1> QED
  BY <1>5 DEF B

\* Format is the text behind the last parameter.
LEMMA FormatGrows ==
  ASSUME NEW cmd, Len(cmd.params) \in Nat
  PROVE  \E g : Grows(cmd, g, Len(cmd.params)) /\ Format(cmd) = g[Len(cmd.params)]
<1>1. PICK g : Grows(cmd, g, Len(cmd.params))
  BY GrowsExists
<1> QED
  BY <1>1 DEF Format, Grows, Part

\* The words of a command and its first j parameters.
UpTo(cmd, j) == <<cmd.command>> \o SubSeq(cmd.params, 1, j)

\* A command that the parser can have made of a line, and that is known.
Known(cmd) == cmd \in Executed /\ cmd.command \in KnownCommands /\ Fits(cmd.params)

\* The text behind parameter j, which is not the trailing one.
TextUpTo(cmd, text, j) ==
  /\ text \in Seq(LineBytes)
  /\ text # <<>>
  /\ text[1] \in Letters
  /\ NoTrailing(text)
  /\ words(text) = UpTo(cmd, j)

\* The elements of a sequence of that form.
LEMMA OneMore ==
  ASSUME NEW Y, NEW c \in Y, NEW s \in Seq(Y), NEW j \in 0..Len(s)
  PROVE  /\ SubSeq(s, 1, j) \in Seq(Y) /\ Len(SubSeq(s, 1, j)) = j
         /\ \A k \in 1..j : SubSeq(s, 1, j)[k] = s[k]
         /\ <<c>> \o SubSeq(s, 1, j) \in Seq(Y)
         /\ Len(<<c>> \o SubSeq(s, 1, j)) = j + 1
         /\ (<<c>> \o SubSeq(s, 1, j))[1] = c
         /\ \A k \in 1..j : (<<c>> \o SubSeq(s, 1, j))[k + 1] = s[k]
<1> DEFINE v == SubSeq(s, 1, j)
           o == <<c>>
           u == o \o v
<1>1. j \in Nat /\ j \in Int /\ j <= Len(s) /\ 1 \in Nat \ {0} /\ j - 1 + 1 = j
      /\ \A k \in 1..j : 1 + k - 1 = k
  OBVIOUS
<1>2. v \in Seq(Y) /\ Len(v) = j /\ \A k \in 1..j : v[k] = s[k]
  <2>1. /\ v \in Seq(Y)
        /\ Len(v) = IF 1 <= j THEN j - 1 + 1 ELSE 0
        /\ \A k \in 1..(j - 1 + 1) : v[k] = s[1 + k - 1]
    BY <1>1, SliceProperties
  <2> HIDE DEF v
  <2> QED
    BY <1>1, <2>1
<1>3. o \in Seq(Y) /\ Len(o) = 1 /\ o[1] = c
  OBVIOUS
<1> HIDE DEF v, o
<1>4. /\ u \in Seq(Y) /\ Len(u) = Len(o) + Len(v)
      /\ \A k \in 1..(Len(o) + Len(v)) : u[k] = IF k <= Len(o) THEN o[k] ELSE v[k - Len(o)]
  BY <1>2, <1>3, ConcatProperties
<1> HIDE DEF u
<1>5. /\ Len(u) = j + 1
      /\ \A k \in 1..(j + 1) : u[k] = IF k <= 1 THEN c ELSE v[k - 1]
  BY <1>1, <1>2, <1>3, <1>4
<1>6. u[1] = c
  BY <1>1, <1>5
<1>7. ASSUME NEW k \in 1..j PROVE u[k + 1] = s[k]
  <2>1. k + 1 \in 1..(j + 1) /\ ~(k + 1 <= 1) /\ (k + 1) - 1 = k
    BY <1>1
  <2> QED
    BY <1>2, <1>5, <2>1
<1> QED
  BY <1>2, <1>4, <1>5, <1>6, <1>7 DEF u, v, o

\* One parameter more.
LEMMA UpToNext ==
  ASSUME NEW Y, NEW cmd, cmd.command \in Y, cmd.params \in Seq(Y),
         NEW j \in Nat, j + 1 <= Len(cmd.params)
  PROVE  Append(UpTo(cmd, j), cmd.params[j + 1]) = UpTo(cmd, j + 1)
<1> DEFINE u == UpTo(cmd, j)
           v == UpTo(cmd, j + 1)
           p == cmd.params
           c == cmd.command
           a == Append(u, p[j + 1])
<1>1. Len(p) \in Nat /\ j \in 0..Len(p) /\ j + 1 \in 0..Len(p) /\ j + 1 \in 1..Len(p)
      /\ p \in Seq(Y) /\ c \in Y /\ (j + 1) + 1 = j + 2
  OBVIOUS
<1>2. p[j + 1] \in Y
  BY <1>1, ElementOfSeq
<1> HIDE DEF p, c
<1>3. /\ u \in Seq(Y) /\ Len(u) = j + 1 /\ u[1] = c
      /\ \A k \in 1..j : u[k + 1] = p[k]
  BY <1>1, OneMore DEF UpTo, p, c
<1>4. /\ v \in Seq(Y) /\ Len(v) = j + 2 /\ v[1] = c
      /\ \A k \in 1..(j + 1) : v[k + 1] = p[k]
  <2>1. /\ v \in Seq(Y) /\ Len(v) = (j + 1) + 1 /\ v[1] = c
        /\ \A k \in 1..(j + 1) : v[k + 1] = p[k]
    BY <1>1, OneMore DEF UpTo, p, c
  <2> QED
    BY <1>1, <2>1
<1> HIDE DEF u, v
<1>5. /\ a \in Seq(Y) /\ Len(a) = Len(u) + 1
      /\ \A k \in 1..Len(u) : a[k] = u[k]
      /\ a[Len(u) + 1] = p[j + 1]
  BY <1>2, <1>3, AppendProperties
<1> HIDE DEF a
<1>6. Len(a) = j + 2 /\ a[j + 2] = p[j + 1] /\ \A k \in 1..(j + 1) : a[k] = u[k]
  BY <1>1, <1>3, <1>5
<1>7. ASSUME NEW k \in 1..(j + 2) PROVE a[k] = v[k]
  <2>1. CASE k = 1
    BY <1>3, <1>4, <1>6, <2>1
  <2>2. CASE k = j + 2
    <3>1. j + 1 \in 1..(j + 1)
      OBVIOUS
    <3>2. v[(j + 1) + 1] = p[j + 1]
      BY <1>4, <3>1
    <3> QED
      BY <1>1, <1>6, <2>2, <3>2
  <2>3. CASE k # 1 /\ k # j + 2
    <3> DEFINE i == k - 1
    <3>1. i \in 1..j /\ i \in 1..(j + 1) /\ k = i + 1 /\ k \in 1..(j + 1)
      BY <2>3
    <3> HIDE DEF i
    <3> QED
      BY <1>3, <1>4, <1>6, <3>1
  <2> QED
    BY <2>1, <2>2, <2>3
<1>8. a = v
  BY <1>4, <1>5, <1>6, <1>7, SeqEqual
<1> QED
  BY <1>8 DEF a, u, v, p

\* What a known command is made of.
LEMMA KnownFacts ==
  ASSUME NEW cmd, Known(cmd)
  PROVE  /\ SP \in LineBytes /\ COLON \in LineBytes /\ LF \notin LineBytes
         /\ cmd.command \in Seq(LineBytes)
         /\ cmd.params \in Seq(Seq(LineBytes))
         /\ Len(cmd.params) \in Nat
         /\ cmd = [command |-> cmd.command, params |-> cmd.params]
         /\ cmd.command # <<>>
         /\ \A k \in 1..Len(cmd.command) : cmd.command[k] \in Letters
         /\ SP \notin Letters /\ COLON \notin Letters
         /\ \A k \in 1..(Len(cmd.params) - 1) :
              WordOf(LineBytes, cmd.params[k]) /\ cmd.params[k][1] # COLON
<1>1. /\ SP \in LineBytes /\ COLON \in LineBytes /\ LF \notin LineBytes
      /\ Letters \subseteq LineBytes /\ SP \notin Letters /\ COLON \notin Letters
  BY ReadPathAssumption DEF LineBytes, Bytes, SP, COLON, LF, NUL, CR
<1>2. /\ cmd.params \in Seq(Seq(LineBytes))
      /\ cmd = [command |-> cmd.command, params |-> cmd.params]
  BY DEF Known, Executed
<1>3. Len(cmd.params) \in Nat
  BY <1>2
<1>4. /\ cmd.command \in Seq(Letters) /\ cmd.command # <<>>
  BY ReadPathAssumption DEF Known
<1>5. \A k \in 1..Len(cmd.command) : cmd.command[k] \in Letters
  BY <1>4, ElementOfSeq
<1>6. cmd.command \in Seq(LineBytes)
  <2>1. cmd.command \in [1..Len(cmd.command) -> Letters] /\ Len(cmd.command) \in Nat
    BY <1>4, LenProperties
  <2>2. cmd.command \in [1..Len(cmd.command) -> LineBytes]
    BY <1>1, <2>1
  <2> QED
    BY <2>1, <2>2, SeqDef
<1>7. ASSUME NEW k \in 1..(Len(cmd.params) - 1)
      PROVE  WordOf(LineBytes, cmd.params[k]) /\ cmd.params[k][1] # COLON
  <2> DEFINE w == cmd.params[k]
  <2>1. k \in 1..Len(cmd.params)
    BY <1>3
  <2>2. w \in Seq(LineBytes)
    BY <1>2, <2>1, ElementOfSeq
  <2>3. w # <<>> /\ w[1] # COLON /\ find(w, SP) = 0
    BY DEF Known, Fits
  <2> HIDE DEF w
  <2>4. \A i \in 1..Len(w) : w[i] # SP
    BY <2>2, <2>3, FindProperties
  <2>5. WordOf(LineBytes, w) /\ w[1] # COLON
    BY <2>2, <2>3, <2>4 DEF WordOf
  <2> QED
    BY <2>5 DEF w
<1> QED
  BY <1>1, <1>2, <1>3, <1>4, <1>5, <1>6, <1>7

\* The command alone.
LEMMA TextStarts ==
  ASSUME NEW cmd, Known(cmd)
  PROVE  TextUpTo(cmd, cmd.command, 0)
<1> DEFINE w == cmd.command
           p == cmd.params
           Y == Seq(LineBytes)
<1>1. /\ w \in Y /\ w # <<>> /\ SP \notin Letters
      /\ \A k \in 1..Len(w) : w[k] \in Letters
      /\ p \in Seq(Y) /\ Len(p) \in Nat
  BY KnownFacts
<1>2. UpTo(cmd, 0) = <<w>>
  <2> DEFINE u == UpTo(cmd, 0)
             o == <<w>>
  <2>1. u \in Seq(Y) /\ Len(u) = 0 + 1 /\ u[1] = w
    <3>1. 0 \in 0..Len(p)
      BY <1>1
    <3> HIDE DEF w, p, Y
    <3> QED
      BY <1>1, <3>1, OneMore DEF UpTo, w, p
  <2>2. o \in Seq(Y) /\ Len(o) = 1 /\ o[1] = w
    BY <1>1
  <2> HIDE DEF u, o, Y
  <2>3. Len(u) = Len(o) /\ \A k \in 1..Len(u) : u[k] = o[k]
    BY <2>1, <2>2
  <2>4. u = o
    BY <2>1, <2>2, <2>3, SeqEqual
  <2> QED
    BY <2>4 DEF u, o
<1>3. WordOf(LineBytes, w)
  BY <1>1 DEF WordOf
<1>4. words(w) = <<w>>
  BY <1>3, OneWord
<1>5. NoTrailing(w)
  <2>1. \A k \in 1..(Len(w) - 1) : k \in 1..Len(w)
    BY <1>1
  <2> QED
    BY <1>1, <2>1 DEF NoTrailing
<1>6. w[1] \in Letters
  <2>1. 1 \in 1..Len(w)
    BY <1>1, EmptySeq
  <2> QED
    BY <1>1, <2>1
<1> QED
  BY <1>1, <1>2, <1>4, <1>5, <1>6 DEF TextUpTo

\* A parameter more, which is not the trailing one.
LEMMA TextGoesOn ==
  ASSUME NEW cmd, Known(cmd), NEW j \in Nat, j + 1 < Len(cmd.params),
         NEW text, TextUpTo(cmd, text, j)
  PROVE  TextUpTo(cmd, text \o Part(cmd, j + 1), j + 1)
<1> DEFINE w == cmd.params[j + 1]
           t == Extended(text, w)
           Y == Seq(LineBytes)
<1>1. /\ SP \in LineBytes /\ cmd.command \in Y /\ cmd.params \in Seq(Y)
      /\ Len(cmd.params) \in Nat
      /\ \A k \in 1..(Len(cmd.params) - 1) :
           WordOf(LineBytes, cmd.params[k]) /\ cmd.params[k][1] # COLON
  BY KnownFacts
<1>2. j + 1 \in 1..(Len(cmd.params) - 1) /\ j + 1 # Len(cmd.params)
      /\ j + 1 <= Len(cmd.params)
  BY <1>1
<1>3. WordOf(LineBytes, w) /\ w[1] # COLON
  BY <1>1, <1>2
<1>4. t = text \o Part(cmd, j + 1)
  BY <1>2 DEF Part, Extended
<1>5. /\ text \in Y /\ text # <<>> /\ text[1] \in Letters /\ NoTrailing(text)
      /\ words(text) = UpTo(cmd, j)
  BY DEF TextUpTo
<1> HIDE DEF t
<1>6. words(t) = UpTo(cmd, j + 1)
  <2>1. words(t) = Append(UpTo(cmd, j), w)
    BY <1>1, <1>3, <1>5, WordsExtended DEF t
  <2>2. Append(UpTo(cmd, j), w) = UpTo(cmd, j + 1)
    <3> HIDE DEF Y
    <3> QED
      BY <1>1, <1>2, UpToNext
  <2> QED
    BY <2>1, <2>2
<1>7. NoTrailing(t)
  BY <1>1, <1>3, <1>5, ExtendedNoTrailing DEF t
<1> HIDE DEF w
<1>8. t \in Y /\ t # <<>> /\ t[1] \in Letters
  <2>1. /\ Len(text) \in Nat \ {0} /\ Len(w) \in Nat \ {0}
        /\ t \in Y /\ Len(t) = Len(text) + 1 + Len(w)
        /\ \A k \in 1..Len(text) : t[k] = text[k]
    BY <1>1, <1>3, <1>5, ExtendedFacts DEF t
  <2>2. 1 \in 1..Len(text) /\ Len(t) # 0
    BY <2>1
  <2>3. t # <<>>
    BY <2>1, <2>2, EmptySeq
  <2> QED
    BY <1>5, <2>1, <2>2, <2>3
<1>9. TextUpTo(cmd, t, j + 1)
  BY <1>6, <1>7, <1>8 DEF TextUpTo
<1> QED
  BY <1>4, <1>9

\* The text behind each parameter but the last is as it should be.
LEMMA TextGrows ==
  ASSUME NEW cmd, Known(cmd), NEW g, Grows(cmd, g, Len(cmd.params)),
         NEW j \in Nat, j = 0 \/ j < Len(cmd.params)
  PROVE  TextUpTo(cmd, g[j], j)
<1> DEFINE n == Len(cmd.params)
           B == {k \in Nat : (k = 0 \/ k < n) /\ ~TextUpTo(cmd, g[k], k)}
<1>1. n \in Nat
  BY KnownFacts
<1>2. \A k \in 0..n : g[k] = IF k = 0 THEN cmd.command ELSE g[k - 1] \o Part(cmd, k)
  BY DEF Grows
<1> HIDE DEF n
<1>3. g[0] = cmd.command
  BY <1>1, <1>2
<1>4. 0 \notin B
  BY <1>3, TextStarts
<1>5. ASSUME NEW k \in Nat, k + 1 \in B PROVE k \in B
  <2>1. k + 1 < n /\ ~TextUpTo(cmd, g[k + 1], k + 1)
    BY <1>5
  <2>2. g[k + 1] = g[k] \o Part(cmd, k + 1)
    <3>1. k + 1 \in 0..n /\ k + 1 # 0 /\ (k + 1) - 1 = k
      BY <1>1, <2>1
    <3> QED
      BY <1>2, <3>1
  <2>3. ~TextUpTo(cmd, g[k], k)
    BY <2>1, <2>2, TextGoesOn DEF n
  <2>4. k < n
    BY <1>1, <2>1
  <2> QED
    BY <2>3, <2>4
<1>6. B \in SUBSET Nat
  OBVIOUS
<1>7. B = {}
  <2> HIDE DEF B
  <2> QED
    BY <1>4, <1>5, <1>6, Descent
<1> QED
  BY <1>7 DEF n

\* The command and the parameters come apart again.
LEMMA SplitUpTo ==
  ASSUME NEW cmd, Known(cmd), NEW j \in 0..Len(cmd.params)
  PROVE  /\ UpTo(cmd, j) # <<>>
         /\ Head(UpTo(cmd, j)) = cmd.command
         /\ Tail(UpTo(cmd, j)) = SubSeq(cmd.params, 1, j)
<1> DEFINE u == UpTo(cmd, j)
           p == cmd.params
           c == cmd.command
           Y == Seq(LineBytes)
           v == SubSeq(p, 1, j)
<1>1. c \in Y /\ p \in Seq(Y) /\ Len(p) \in Nat /\ j \in 0..Len(p) /\ j \in Nat
  BY KnownFacts
<1> HIDE DEF Y, p, c
<1>2. /\ v \in Seq(Y) /\ Len(v) = j
      /\ \A k \in 1..j : v[k] = p[k]
      /\ u \in Seq(Y) /\ Len(u) = j + 1 /\ u[1] = c
      /\ \A k \in 1..j : u[k + 1] = p[k]
  BY <1>1, OneMore DEF UpTo, p, c
<1> HIDE DEF u, v
<1>3. u # <<>>
  BY <1>1, <1>2, EmptySeq
<1>4. Head(u) = c
  BY <1>2, <1>3
<1>5. /\ Tail(u) \in Seq(Y) /\ Len(Tail(u)) = j
      /\ \A k \in 1..j : Tail(u)[k] = u[k + 1]
  <2>1. /\ Tail(u) \in Seq(Y) /\ Len(Tail(u)) = Len(u) - 1
        /\ \A k \in 1..Len(Tail(u)) : Tail(u)[k] = u[k + 1]
    BY <1>2, <1>3, HeadTailProperties
  <2> QED
    BY <1>1, <1>2, <2>1
<1>6. Tail(u) = v
  <2>1. \A k \in 1..j : Tail(u)[k] = v[k]
    BY <1>2, <1>5
  <2> QED
    BY <1>2, <1>5, <2>1, SeqEqual
<1> QED
  BY <1>3, <1>4, <1>6 DEF u, v, p, c

\* The text behind a known command without parameters parses to it.
LEMMA ParsesBare ==
  ASSUME NEW cmd, Known(cmd), Len(cmd.params) = 0,
         NEW t, TextUpTo(cmd, t, 0)
  PROVE  Parser(t) = cmd
<1> DEFINE ws == words(t)
<1>1. /\ LF \notin LineBytes /\ COLON \notin Letters
      /\ cmd.params \in Seq(Seq(LineBytes))
      /\ cmd = [command |-> cmd.command, params |-> cmd.params]
  BY KnownFacts
<1>2. /\ t \in Seq(LineBytes) /\ t # <<>> /\ t[1] \in Letters /\ NoTrailing(t)
      /\ ws = UpTo(cmd, 0)
  BY DEF TextUpTo
<1> HIDE DEF ws
<1>3. skipPrefix(stripLineEnding(t)) = t
  BY <1>1, <1>2, StripNothing, SkipNothing
<1>4. trailingPositions(t) = {}
  BY <1>2 DEF trailingPositions, NoTrailing
<1>5. cmd.params = <<>>
  BY <1>1, EmptySeq
<1>6. /\ ws # <<>> /\ Head(ws) = cmd.command /\ Tail(ws) = SubSeq(cmd.params, 1, 0)
  <2>1. 0 \in 0..Len(cmd.params)
    OBVIOUS
  <2> QED
    BY <1>2, <2>1, SplitUpTo
<1>7. SubSeq(cmd.params, 1, 0) = <<>>
  BY <1>5
<1>8. setCommand(cmd.command) = cmd.command
  BY SetCommandKnown DEF Known
<1>9. Tail(ws) \o <<>> = cmd.params
  BY <1>5, <1>6, <1>7
<1>10. Parser(t) = [command |-> setCommand(Head(ws)), params |-> Tail(ws) \o <<>>]
  BY <1>3, <1>4, <1>6 DEF Parser, ws
<1> QED
  BY <1>1, <1>6, <1>8, <1>9, <1>10

\* So does the text with the trailing parameter.
LEMMA ParsesTrailing ==
  ASSUME NEW cmd, Known(cmd), NEW n \in Nat \ {0}, n = Len(cmd.params),
         NEW h, TextUpTo(cmd, h, n - 1),
         NEW t, t = h \o Part(cmd, n)
  PROVE  Parser(t) = cmd
<1> DEFINE p == cmd.params[n]
           P == trailingPositions(t)
           ws == words(h)
           Y == Seq(LineBytes)
           v == SubSeq(cmd.params, 1, n - 1)
<1>1. /\ LF \notin LineBytes /\ COLON \notin Letters
      /\ SP \in LineBytes /\ COLON \in LineBytes
      /\ cmd.params \in Seq(Y)
      /\ cmd = [command |-> cmd.command, params |-> cmd.params]
  BY KnownFacts
<1>2. n - 1 \in Nat /\ n - 1 \in 0..Len(cmd.params) /\ n \in 1..Len(cmd.params)
      /\ (n - 1) + 1 = n
  OBVIOUS
<1>3. p \in Y
  BY <1>1, <1>2, ElementOfSeq
<1>4. /\ h \in Y /\ h # <<>> /\ h[1] \in Letters /\ NoTrailing(h)
      /\ ws = UpTo(cmd, n - 1)
  BY DEF TextUpTo
<1>5. t = h \o (<<SP, COLON>> \o p)
  BY DEF Part
<1>6. /\ t \in Y /\ P # {}
      /\ SubSeq(t, 1, Min(P) - 1) = h
      /\ from(t, Min(P) + 2) = p
  <2>1. SP \in LineBytes /\ COLON \in LineBytes /\ h \in Seq(LineBytes)
        /\ p \in Seq(LineBytes) /\ NoTrailing(h)
    BY <1>1, <1>3, <1>4
  <2> HIDE DEF p
  <2>2. /\ t \in Seq(LineBytes)
        /\ trailingPositions(t) # {}
        /\ SubSeq(t, 1, Min(trailingPositions(t)) - 1) = h
        /\ from(t, Min(trailingPositions(t)) + 2) = p
    BY <1>5, <2>1, TrailingFound
  <2> QED
    BY <2>2
<1>7. t # <<>> /\ t[1] = h[1]
  <2> DEFINE sep == <<SP, COLON>>
  <2>1. sep \in Y
    BY <1>1
  <2>2. Len(h) \in Nat \ {0} /\ 1 \in 1..Len(h)
    BY <1>4, EmptySeq
  <2> HIDE DEF sep, p, Y
  <2>3. /\ Len(h \o (sep \o p)) = Len(h) + Len(sep) + Len(p)
        /\ \A k \in 1..Len(h) : (h \o (sep \o p))[k] = h[k]
    BY <1>3, <1>4, <2>1, JoinFacts DEF Y
  <2>4. Len(sep) \in Nat /\ Len(p) \in Nat
    BY <1>3, <2>1 DEF Y
  <2>5. t = h \o (sep \o p)
    BY <1>5 DEF sep
  <2>6. Len(t) # 0 /\ t[1] = h[1]
    BY <2>2, <2>3, <2>4, <2>5
  <2> QED
    BY <2>6, EmptySeq
<1> HIDE DEF P, ws, p, v
<1>8. skipPrefix(stripLineEnding(t)) = t
  <2>1. stripLineEnding(t) = t
    BY <1>1, <1>6, StripNothing
  <2>2. t[1] # COLON
    BY <1>1, <1>4, <1>7
  <2> QED
    BY <1>6, <1>7, <2>1, <2>2, SkipNothing
<1>9. ws # <<>> /\ Head(ws) = cmd.command /\ Tail(ws) = v
  BY <1>2, <1>4, SplitUpTo DEF v
<1>10. setCommand(cmd.command) = cmd.command
  BY SetCommandKnown DEF Known
<1>11. v \o <<p>> = cmd.params
  <2> DEFINE s == cmd.params
             o == <<p>>
             u == v \o o
  <2> HIDE DEF Y, s
  <2>1. s \in Seq(Y) /\ Len(s) = n /\ n - 1 \in 0..Len(s) /\ p = s[n]
    BY <1>1, <1>2 DEF s, p
  <2>2. cmd.command \in Y
    BY KnownFacts DEF Y
  <2>3. /\ v \in Seq(Y) /\ Len(v) = n - 1
        /\ \A k \in 1..(n - 1) : v[k] = s[k]
    BY <2>1, <2>2, OneMore DEF v, s
  <2>4. o \in Seq(Y) /\ Len(o) = 1 /\ o[1] = p
    BY <1>3
  <2> HIDE DEF o
  <2>5. /\ u \in Seq(Y) /\ Len(u) = Len(v) + Len(o)
        /\ \A k \in 1..(Len(v) + Len(o)) :
             u[k] = IF k <= Len(v) THEN v[k] ELSE o[k - Len(v)]
    BY <2>3, <2>4, ConcatProperties
  <2> HIDE DEF u
  <2>6. Len(u) = n /\ \A k \in 1..n : u[k] = IF k <= n - 1 THEN v[k] ELSE o[k - (n - 1)]
    BY <1>2, <2>3, <2>4, <2>5
  <2>7. ASSUME NEW k \in 1..n PROVE u[k] = s[k]
    <3>1. CASE k <= n - 1
      <4>1. k \in 1..(n - 1)
        BY <3>1
      <4>2. u[k] = v[k]
        BY <2>6, <3>1
      <4> QED
        BY <2>3, <4>1, <4>2
    <3>2. CASE k = n
      <4>1. ~(n <= n - 1) /\ n - (n - 1) = 1
        OBVIOUS
      <4> QED
        BY <2>1, <2>4, <2>6, <3>2, <4>1
    <3> QED
      BY <3>1, <3>2
  <2>8. u = s
    BY <2>1, <2>5, <2>6, <2>7, SeqEqual
  <2> QED
    BY <2>8 DEF u, o, s
<1>12. Parser(t) = [command |-> setCommand(Head(ws)), params |-> Tail(ws) \o <<p>>]
  <2>1. ws = words(SubSeq(t, 1, Min(trailingPositions(t)) - 1))
    BY <1>6 DEF P, ws
  <2>2. trailingPositions(t) # {} /\ from(t, Min(trailingPositions(t)) + 2) = p
    BY <1>6 DEF P
  <2> QED
    BY <1>8, <1>9, <2>1, <2>2 DEF Parser
<1> QED
  BY <1>1, <1>9, <1>10, <1>11, <1>12

-----------------------------------------------------------------------------
\* Parsing a known command, written out from its parsed form, gives the same
\* command and parameters: what Parser::Parser makes of a line is in its command
\* and parameters, for any bytes and any number of parameters.
THEOREM FormatParses == Spec => []ParseFormat
<1>1. ASSUME NEW cmd, Known(cmd) PROVE Parser(Format(cmd)) = cmd
  <2> DEFINE n == Len(cmd.params)
  <2>1. n \in Nat
    BY KnownFacts
  <2>2. PICK g : Grows(cmd, g, n) /\ Format(cmd) = g[n]
    BY <2>1, FormatGrows
  <2>3. CASE n = 0
    <3>1. TextUpTo(cmd, g[0], 0)
      BY <1>1, <2>1, <2>2, <2>3, TextGrows
    <3> QED
      BY <1>1, <2>2, <2>3, <3>1, ParsesBare
  <2>4. CASE n # 0
    <3>1. n - 1 \in Nat /\ n - 1 < n /\ n \in Nat \ {0} /\ n \in 0..n
      BY <2>1, <2>4
    <3>2. TextUpTo(cmd, g[n - 1], n - 1)
      BY <1>1, <2>2, <3>1, TextGrows
    <3>3. g[n] = g[n - 1] \o Part(cmd, n)
      BY <2>2, <2>4, <3>1 DEF Grows
    <3> QED
      BY <1>1, <2>2, <3>1, <3>2, <3>3, ParsesTrailing
  <2> QED
    BY <2>3, <2>4
<1>2. ReadInv => ParseFormat
  <2> SUFFICES ASSUME ReadInv, NEW n \in DOMAIN executed,
                      executed[n].command \in KnownCommands
               PROVE  Parser(Format(executed[n])) = executed[n]
    BY DEF ParseFormat
  <2>1. executed \in Seq(Executed) /\ n \in 1..Len(executed) /\ Fits(executed[n].params)
    BY LenProperties DEF ReadInv
  <2>2. executed[n] \in Executed
    BY <2>1, ElementOfSeq
  <2> QED
    BY <1>1, <2>1, <2>2 DEF Known
<1> QED
  BY <1>2, ReadInvariance, PTL
=============================================================================
