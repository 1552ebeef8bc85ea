--------------------------- MODULE ReadPathProofs ---------------------------
(***************************************************************************)
(* Proofs about ReadPath: for any bytes in any chunks, the commands run    *)
(* are the lines of the stream, each once and in order, the parser gives   *)
(* them the shape the handlers rely on, and the read buffer implements     *)
(* Inbox.                                                                  *)
(*                                                                         *)
(* The argument counts line feeds.  The n-th line feed is the one with     *)
(* n - 1 before it (AscendingProperties), so appending bytes leaves the    *)
(* lines there are as they were (AppendedLines), and cutting off the first *)
(* line renumbers the others (LaterLines).                                 *)
(***************************************************************************)
EXTENDS ReadPath, TLAPS, SequenceTheorems, FiniteSetTheorems,
        WellFoundedInduction

-----------------------------------------------------------------------------
(***************************************************************************)
(* Numbers: the smallest, and all of them in order.                        *)
(***************************************************************************)

\* Min finds the smallest of a set of numbers.
LEMMA MinProperties ==
  ASSUME NEW S \in SUBSET Nat, S # {}
  PROVE  Min(S) \in S /\ \A k \in S : Min(S) <= k
<1> DEFINE F == {0..k : k \in S}
           R == StrictSubsetOrdering(Nat)
<1>1. F \subseteq FiniteSubsetsOf(Nat) /\ F # {}
  <2>1. ASSUME NEW k \in S PROVE 0..k \in FiniteSubsetsOf(Nat)
    <3>1. IsFiniteSet(0..k)
      BY FS_Interval
    <3>2. 0..k \in SUBSET Nat
      OBVIOUS
    <3> QED
      BY <3>1, <3>2 DEF FiniteSubsetsOf
  <2> QED
    BY <2>1
<1>2. IsWellFoundedOn(R, FiniteSubsetsOf(Nat))
  BY FS_StrictSubsetOrderingWellFounded
<1>3. PICK x \in F : \A y \in F : <<y, x>> \notin R
  <2> HIDE DEF F, R
  <2> QED
    BY <1>1, <1>2, WFMin
<1>4. PICK k \in S : x = 0..k
  OBVIOUS
<1>5. ASSUME NEW l \in S, l < k PROVE FALSE
  <2>1. 0..l \in F /\ 0..l \subseteq 0..k
    BY <1>5
  <2>2. k \in 0..k /\ k \notin 0..l
    BY <1>5
  <2>3. <<0..l, x>> \in R
    BY <1>4, <2>1, <2>2 DEF StrictSubsetOrdering
  <2> QED
    BY <1>3, <2>1, <2>3
<1>6. \A l \in S : k <= l
  BY <1>5
<1> QED
  BY <1>6 DEF Min

\* The elements of S below k.
Below(S, k) == {j \in S : j < k}

\* An element has fewer below it than any larger one.
LEMMA BelowProperties ==
  ASSUME NEW S \in SUBSET Nat, IsFiniteSet(S), NEW k \in S
  PROVE  /\ Cardinality(S) \in Nat
         /\ IsFiniteSet(Below(S, k))
         /\ Cardinality(Below(S, k)) \in 0..(Cardinality(S) - 1)
         /\ \A l \in S : k < l => Cardinality(Below(S, k)) < Cardinality(Below(S, l))
<1>1. \A T \in SUBSET S : /\ IsFiniteSet(T) /\ Cardinality(T) \in Nat
                          /\ Cardinality(T) <= Cardinality(S)
  BY FS_Subset, FS_CardinalityType
<1>2. ASSUME NEW T \in SUBSET S, k \in T, \A j \in Below(S, k) : j \in T
      PROVE  Cardinality(Below(S, k)) + 1 <= Cardinality(T)
  <2>1. k \notin Below(S, k) /\ Below(S, k) \in SUBSET S
    BY DEF Below
  <2>2. Cardinality(Below(S, k) \cup {k}) = Cardinality(Below(S, k)) + 1
    BY <1>1, <2>1, FS_AddElement
  <2>3. Below(S, k) \cup {k} \in SUBSET T
    BY <1>2
  <2> QED
    BY <1>1, <2>2, <2>3, FS_Subset
<1>3. Cardinality(Below(S, k)) + 1 <= Cardinality(S)
  BY <1>2 DEF Below
<1>4. ASSUME NEW l \in S, k < l
      PROVE  Cardinality(Below(S, k)) + 1 <= Cardinality(Below(S, l))
  <2>1. Below(S, l) \in SUBSET S /\ k \in Below(S, l)
    BY <1>4 DEF Below
  <2>2. \A j \in Below(S, k) : j \in Below(S, l)
    BY <1>4 DEF Below
  <2> QED
    BY <1>2, <2>1, <2>2
<1>5. \A l \in S : Below(S, l) \in SUBSET S
  BY DEF Below
<1> HIDE DEF Below
<1> QED
  BY <1>1, <1>3, <1>4, <1>5

\* ascending lists the whole set in increasing order; an element is where the
\* number of those below it says.
LEMMA AscendingProperties ==
  ASSUME NEW S \in SUBSET Nat, IsFiniteSet(S)
  PROVE  /\ Cardinality(S) \in Nat
         /\ ascending(S) \in [1..Cardinality(S) -> S]
         /\ \A n \in 1..Cardinality(S) :
              Cardinality(Below(S, ascending(S)[n])) = n - 1
         /\ \A k \in S :
              /\ Cardinality(Below(S, k)) + 1 \in 1..Cardinality(S)
              /\ ascending(S)[Cardinality(Below(S, k)) + 1] = k
<1> DEFINE c == Cardinality(S)
           rank == [k \in S |-> Cardinality(Below(S, k)) + 1]
<1>1. c \in Nat
  BY FS_CardinalityType
<1>2. rank \in [S -> 1..c]
  BY <1>1, BelowProperties
<1>3. \A k, l \in S : rank[k] = rank[l] => k = l
  <2> SUFFICES ASSUME NEW k \in S, NEW l \in S, k < l PROVE rank[k] # rank[l]
    OBVIOUS
  <2>1. rank[k] < rank[l]
    BY <1>1, BelowProperties
  <2> QED
    BY <2>1, <1>2
<1>4. rank \in Injection(S, 1..c)
  BY <1>2, <1>3 DEF Injection, IsInjective
<1>5. IsFiniteSet(1..c) /\ Cardinality(1..c) = c
  BY <1>1, FS_Interval
<1>6. rank \in Surjection(S, 1..c)
  BY <1>4, <1>5, FS_Injection
<1>7. \A n \in 1..c : \E k \in S : rank[k] = n
  BY <1>6 DEF Surjection
<1>8. \A k \in S : rank[k] = Cardinality(Below(S, k)) + 1 /\ rank[k] - 1 = Cardinality(Below(S, k))
  BY <1>1, BelowProperties
<1>9. ASSUME NEW n \in 1..c
      PROVE  /\ ascending(S)[n] \in S
             /\ Cardinality(Below(S, ascending(S)[n])) = n - 1
  <2>1. PICK k \in S : Cardinality(Below(S, k)) = n - 1
    BY <1>7, <1>8
  <2>2. ascending(S)[n] = CHOOSE l \in S : Cardinality(Below(S, l)) = n - 1
    BY <1>9 DEF ascending, Below
  <2> QED
    BY <2>1, <2>2
<1>10. ascending(S) \in [1..c -> S]
  BY <1>9 DEF ascending
<1>11. ASSUME NEW k \in S
       PROVE  ascending(S)[Cardinality(Below(S, k)) + 1] = k
  <2>1. rank[k] \in 1..c
    BY <1>2
  <2>2. Cardinality(Below(S, ascending(S)[rank[k]])) = rank[k] - 1 /\ ascending(S)[rank[k]] \in S
    BY <1>9, <2>1
  <2>3. rank[ascending(S)[rank[k]]] = rank[k]
    BY <1>8, <2>2
  <2> HIDE DEF rank
  <2>4. ascending(S)[rank[k]] = k
    BY <1>3, <2>2, <2>3
  <2> QED
    BY <1>8, <2>4
<1> QED
  BY <1>1, <1>2, <1>8, <1>9, <1>10, <1>11

\* Hence an increasing sequence.
LEMMA AscendingIncreases ==
  ASSUME NEW S \in SUBSET Nat, IsFiniteSet(S),
         NEW m \in 1..Cardinality(S), NEW n \in 1..Cardinality(S), m < n
  PROVE  ascending(S)[m] < ascending(S)[n]
<1> DEFINE k == ascending(S)[m]
           l == ascending(S)[n]
<1>1. /\ k \in S /\ Cardinality(Below(S, k)) = m - 1
      /\ l \in S /\ Cardinality(Below(S, l)) = n - 1
  BY AscendingProperties
<1> HIDE DEF k, l
<1>2. ~(l < k)
  <2>1. l < k => Cardinality(Below(S, l)) < Cardinality(Below(S, k))
    BY <1>1, BelowProperties
  <2> QED
    BY <1>1, <2>1
<1>3. k # l
  BY <1>1
<1>4. k < l
  BY <1>1, <1>2, <1>3
<1> QED
  BY <1>4 DEF k, l

-----------------------------------------------------------------------------
(***************************************************************************)
(* Pieces of a byte sequence.                                              *)
(***************************************************************************)

\* find returns the first place of a byte, 0 where there is none.
LEMMA FindProperties ==
  ASSUME NEW X, NEW s \in Seq(X), NEW b
  PROVE  /\ find(s, b) \in 0..Len(s)
         /\ find(s, b) = 0 => \A k \in 1..Len(s) : s[k] # b
         /\ find(s, b) # 0 => s[find(s, b)] = b
         /\ \A k \in 1..(find(s, b) - 1) : s[k] # b
<1> DEFINE I == {k \in 1..Len(s) : s[k] = b}
<1>1. find(s, b) = IF I # {} THEN Min(I) ELSE 0
  BY DEF find, SelectInSeq
<1>2. Len(s) \in Nat
  OBVIOUS
<1>3. CASE I = {}
  BY <1>1, <1>2, <1>3
<1>4. CASE I # {}
  <2>1. I \in SUBSET Nat
    OBVIOUS
  <2>2. Min(I) \in I /\ \A k \in I : Min(I) <= k
    BY <2>1, <1>4, MinProperties
  <2> QED
    <3>1. find(s, b) \in I /\ \A k \in I : find(s, b) <= k
      BY <1>1, <1>4, <2>2, Zenon
    <3> QED
      BY <1>2, <3>1
<1> QED
  BY <1>3, <1>4

\* A part of a sequence, within its bounds.
LEMMA SliceProperties ==
  ASSUME NEW X, NEW s \in Seq(X), NEW m \in Nat \ {0}, NEW n \in Int, n <= Len(s)
  PROVE  /\ SubSeq(s, m, n) \in Seq(X)
         /\ Len(SubSeq(s, m, n)) = IF m <= n THEN n - m + 1 ELSE 0
         /\ \A k \in 1..(n - m + 1) : SubSeq(s, m, n)[k] = s[m + k - 1]
<1>1. \A k \in m..n : s[k] \in X
  BY ElementOfSeq
<1> QED
  BY <1>1, SubSeqProperties

\* What from keeps of a sequence.
LEMMA FromProperties ==
  ASSUME NEW X, NEW s \in Seq(X), NEW m \in 1..(Len(s) + 1)
  PROVE  /\ from(s, m) \in Seq(X)
         /\ Len(from(s, m)) = Len(s) - m + 1
         /\ \A k \in 1..(Len(s) - m + 1) : from(s, m)[k] = s[m + k - 1]
<1>1. Len(s) \in Nat /\ m \in Nat \ {0}
  OBVIOUS
<1> QED
  BY <1>1, SliceProperties DEF from

-----------------------------------------------------------------------------
(***************************************************************************)
(* Parser.                                                                 *)
(***************************************************************************)

\* Stripping the line ending makes up no byte (Parser::Parser).
LEMMA StripProperties ==
  ASSUME NEW X, NEW line \in Seq(X)
  PROVE  stripLineEnding(line) \in Seq(X)
<1>1. Len(line) \in Nat
  OBVIOUS
<1>2. SubSeq(line, 1, Len(line) - 2) \in Seq(X) /\ Front(line) \in Seq(X)
  BY <1>1, SliceProperties DEF Front
<1> QED
  BY <1>2 DEF stripLineEnding

\* Nor does skipping the prefix.
LEMMA SkipProperties ==
  ASSUME NEW X, NEW message \in Seq(X)
  PROVE  skipPrefix(message) \in Seq(X)
<1>1. find(message, SP) # 0 => find(message, SP) + 1 \in 1..(Len(message) + 1)
  BY FindProperties
<1>2. find(message, SP) # 0 => from(message, find(message, SP) + 1) \in Seq(X)
  BY <1>1, FromProperties
<1> QED
  BY <1>2 DEF skipPrefix

\* A word is not empty and has no space; every word but the first stands
\* behind a space.
LEMMA WordsProperties ==
  ASSUME NEW X, NEW text \in Seq(X)
  PROVE  /\ words(text) \in Seq(Seq(X))
         /\ \A n \in 1..Len(words(text)) :
              /\ words(text)[n] # <<>>
              /\ find(words(text)[n], SP) = 0
              /\ \E k \in 1..Len(text) :
                   /\ words(text)[n][1] = text[k]
                   /\ n > 1 => k > 1 /\ text[k - 1] = SP
<1> DEFINE starts == {k \in DOMAIN text : text[k] # SP /\ (k > 1 => text[k - 1] = SP)}
           order == ascending(starts)
           c == Cardinality(starts)
           word(k) == LET tail == from(text, k)
                      IN IF find(tail, SP) = 0 THEN tail
                         ELSE SubSeq(tail, 1, find(tail, SP) - 1)
<1>1. Len(text) \in Nat /\ DOMAIN text = 1..Len(text)
  OBVIOUS
<1>2. starts \in SUBSET Nat /\ IsFiniteSet(starts)
  <2>1. IsFiniteSet(1..Len(text))
    BY <1>1, FS_Interval
  <2>2. starts \in SUBSET (1..Len(text))
    BY <1>1
  <2> QED
    BY <1>1, <2>1, <2>2, FS_Subset
<1>3. c \in Nat /\ order \in [1..c -> starts]
  <2> HIDE DEF starts
  <2> QED
    BY <1>2, AscendingProperties
<1>4. \A m, n \in 1..c : m < n => order[m] < order[n]
  <2> HIDE DEF starts
  <2> QED
    BY <1>2, AscendingIncreases
<1>5. words(text) = [n \in 1..c |-> word(order[n])]
  BY <1>3 DEF words
<1>6. ASSUME NEW k \in starts
      PROVE  /\ word(k) \in Seq(X)
             /\ word(k) # <<>>
             /\ word(k)[1] = text[k]
             /\ find(word(k), SP) = 0
  <2> DEFINE tail == from(text, k)
             p == find(tail, SP)
  <2>1. k \in 1..(Len(text) + 1) /\ k <= Len(text) /\ text[k] # SP
    BY <1>1
  <2>2. /\ tail \in Seq(X)
        /\ Len(tail) \in Nat \ {0}
        /\ tail[1] = text[k]
    <3>1. /\ tail \in Seq(X)
          /\ Len(tail) = Len(text) - k + 1
          /\ \A j \in 1..(Len(text) - k + 1) : tail[j] = text[k + j - 1]
      BY <2>1, FromProperties
    <3> HIDE DEF tail
    <3>2. k \in Nat /\ 1 \in 1..(Len(text) - k + 1) /\ k + 1 - 1 = k
      BY <1>1, <2>1
    <3> QED
      BY <1>1, <2>1, <3>1, <3>2
  <2> HIDE DEF tail
  <2>3. /\ p \in 0..Len(tail)
        /\ p = 0 => \A j \in 1..Len(tail) : tail[j] # SP
        /\ p # 0 => tail[p] = SP
        /\ \A j \in 1..(p - 1) : tail[j] # SP
    BY <2>2, FindProperties
  <2> HIDE DEF p
  <2>4. word(k) = IF p = 0 THEN tail ELSE SubSeq(tail, 1, p - 1)
    BY DEF p, tail
  <2>5. CASE p = 0
    <3>1. tail # <<>>
      BY <2>2, EmptySeq
    <3> QED
      BY <2>2, <2>4, <2>5, <3>1 DEF p
  <2>6. CASE p # 0
    <3>1. p - 1 \in 1..Len(tail)
      BY <2>1, <2>2, <2>3, <2>6
    <3>2. /\ word(k) \in Seq(X)
          /\ Len(word(k)) = p - 1
          /\ \A j \in 1..(p - 1) : word(k)[j] = tail[j]
      <4>1. /\ SubSeq(tail, 1, p - 1) \in Seq(X)
            /\ Len(SubSeq(tail, 1, p - 1)) = IF 1 <= p - 1 THEN p - 1 - 1 + 1 ELSE 0
            /\ \A j \in 1..(p - 1 - 1 + 1) : SubSeq(tail, 1, p - 1)[j] = tail[1 + j - 1]
        BY <2>2, <3>1, SliceProperties
      <4> HIDE DEF word
      <4> QED
        BY <2>4, <2>6, <3>1, <4>1, <2>2
    <3> HIDE DEF word
    <3>3. word(k) # <<>>
      BY <3>1, <3>2, EmptySeq
    <3>4. \A j \in 1..Len(word(k)) : word(k)[j] # SP
      BY <2>3, <3>2
    <3>5. find(word(k), SP) = 0
      BY <3>2, <3>4, FindProperties
    <3> QED
      BY <2>2, <3>1, <3>2, <3>3, <3>5
  <2> QED
    BY <2>5, <2>6
<1>7. ASSUME NEW n \in 1..c, n > 1
      PROVE  order[n] > 1 /\ text[order[n] - 1] = SP
  <2>1. 1 \in 1..c /\ order[1] \in starts /\ order[n] \in starts
    BY <1>3, <1>7
  <2>2. order[1] < order[n]
    BY <2>1, <1>4, <1>7
  <2> HIDE DEF order
  <2>3. order[1] >= 1 /\ order[1] \in Nat /\ order[n] \in Nat
    BY <1>1, <2>1
  <2>4. order[n] > 1
    BY <2>2, <2>3
  <2> QED
    BY <2>1, <2>4
<1>8. \A n \in 1..c : order[n] \in starts /\ order[n] \in 1..Len(text)
  BY <1>1, <1>3
<1> HIDE DEF word, order, c, starts
<1>9. words(text) \in [1..c -> Seq(X)]
  BY <1>5, <1>6, <1>8
<1>10. words(text) \in Seq(Seq(X)) /\ Len(words(text)) = c
  BY <1>3, <1>9, SeqDef, LenProperties
<1>11. \A n \in 1..c : words(text)[n] = word(order[n])
  BY <1>5
<1>12. ASSUME NEW n \in 1..c
       PROVE  /\ words(text)[n] # <<>>
              /\ find(words(text)[n], SP) = 0
              /\ \E k \in 1..Len(text) :
                   /\ words(text)[n][1] = text[k]
                   /\ n > 1 => k > 1 /\ text[k - 1] = SP
  <2>1. /\ words(text)[n] # <<>>
        /\ find(words(text)[n], SP) = 0
        /\ words(text)[n][1] = text[order[n]]
    BY <1>6, <1>8, <1>11
  <2> QED
    BY <2>1, <1>7, <1>8
<1> QED
  BY <1>10, <1>12

\* ParserFits, of the parameters of one command.
Fits(params) ==
  \A k \in 1..(Len(params) - 1) :
    params[k] # <<>> /\ params[k][1] # COLON /\ find(params[k], SP) = 0

\* The parser makes what the handlers rely on out of any bytes.
LEMMA ParserProperties ==
  ASSUME NEW X, NEW line \in Seq(X)
  PROVE  /\ Parser(line).command \in KnownCommands \cup {UNKNOWN, <<>>}
         /\ Parser(line).params \in Seq(Seq(X))
         /\ Fits(Parser(line).params)
<1> DEFINE message == skipPrefix(stripLineEnding(line))
           colons == trailingPositions(message)
           text == IF colons = {} THEN message ELSE SubSeq(message, 1, Min(colons) - 1)
           ws == words(text)
           first == IF ws = <<>> THEN <<>> ELSE Tail(ws)
           trailing == IF colons = {} THEN <<>> ELSE <<from(message, Min(colons) + 2)>>
<1>1. message \in Seq(X)
  BY StripProperties, SkipProperties
<1>2. Parser(line) = [command |-> IF ws = <<>> THEN <<>> ELSE setCommand(Head(ws)),
                      params |-> first \o trailing]
  BY DEF Parser
<1> HIDE DEF message
<1>3. /\ colons \in SUBSET Nat
      /\ \A k \in colons : k \in 1..(Len(message) - 1)
      /\ \A k \in 1..(Len(message) - 1) :
           message[k] = SP /\ message[k + 1] = COLON => k \in colons
  BY DEF trailingPositions
<1> HIDE DEF colons
<1>4. colons # {} => Min(colons) \in colons /\ \A k \in colons : Min(colons) <= k
  BY <1>3, MinProperties
<1>5. /\ text \in Seq(X)
      /\ \A k \in 1..(Len(text) - 1) : ~(text[k] = SP /\ text[k + 1] = COLON)
  <2>1. CASE colons = {}
    BY <1>1, <1>3, <2>1
  <2>2. CASE colons # {}
    <3> DEFINE m == Min(colons)
    <3>1. m \in 1..(Len(message) - 1) /\ \A k \in colons : m <= k
      BY <1>3, <1>4, <2>2
    <3> HIDE DEF m
    <3>2. Len(message) \in Nat
      BY <1>1
    <3>3. /\ SubSeq(message, 1, m - 1) \in Seq(X)
          /\ Len(SubSeq(message, 1, m - 1)) = IF 1 <= m - 1 THEN m - 1 - 1 + 1 ELSE 0
          /\ \A k \in 1..(m - 1 - 1 + 1) : SubSeq(message, 1, m - 1)[k] = message[1 + k - 1]
      BY <1>1, <3>1, <3>2, SliceProperties
    <3>4. text = SubSeq(message, 1, m - 1)
      BY <2>2 DEF m
    <3> HIDE DEF text
    <3>5. Len(text) = m - 1 /\ \A k \in 1..(m - 1) : text[k] = message[k]
      BY <3>1, <3>2, <3>3, <3>4
    <3>6. ASSUME NEW k \in 1..(Len(text) - 1), text[k] = SP, text[k + 1] = COLON
          PROVE  FALSE
      <4>1. message[k] = SP /\ message[k + 1] = COLON /\ k \in 1..(Len(message) - 1)
            /\ k < m
        BY <3>1, <3>2, <3>5, <3>6
      <4> QED
        BY <1>3, <3>1, <4>1
    <3> QED
      BY <3>3, <3>4, <3>6
  <2> QED
    BY <2>1, <2>2
<1> HIDE DEF text
<1>6. /\ ws \in Seq(Seq(X))
      /\ \A n \in 1..Len(ws) :
           /\ ws[n] # <<>>
           /\ find(ws[n], SP) = 0
           /\ \E k \in 1..Len(text) :
                /\ ws[n][1] = text[k]
                /\ n > 1 => k > 1 /\ text[k - 1] = SP
  BY <1>5, WordsProperties
<1> HIDE DEF ws
<1>7. \A n \in 2..Len(ws) : ws[n][1] # COLON
  <2> SUFFICES ASSUME NEW n \in 2..Len(ws), ws[n][1] = COLON PROVE FALSE
    OBVIOUS
  <2>1. n \in 1..Len(ws) /\ n > 1
    OBVIOUS
  <2>2. PICK k \in 1..Len(text) : ws[n][1] = text[k] /\ k > 1 /\ text[k - 1] = SP
    BY <2>1, <1>6
  <2>3. Len(text) \in Nat
    BY <1>5
  <2>4. k - 1 \in 1..(Len(text) - 1) /\ (k - 1) + 1 = k
    BY <2>2, <2>3
  <2> QED
    BY <1>5, <2>2, <2>4
<1>8. /\ first \in Seq(Seq(X))
      /\ \A k \in 1..Len(first) :
           first[k] # <<>> /\ first[k][1] # COLON /\ find(first[k], SP) = 0
  <2>1. CASE ws = <<>>
    BY <2>1, EmptySeq
  <2>2. CASE ws # <<>>
    <3>1. /\ Tail(ws) \in Seq(Seq(X))
          /\ Len(Tail(ws)) = Len(ws) - 1
          /\ \A k \in 1..Len(Tail(ws)) : Tail(ws)[k] = ws[k + 1]
      BY <1>6, <2>2, HeadTailProperties
    <3>2. first = Tail(ws)
      BY <2>2
    <3>3. Len(ws) \in Nat
      BY <1>6
    <3> HIDE DEF first
    <3>4. ASSUME NEW k \in 1..Len(first)
          PROVE  k + 1 \in 1..Len(ws) /\ k + 1 \in 2..Len(ws) /\ first[k] = ws[k + 1]
      BY <3>1, <3>2, <3>3
    <3> QED
      BY <1>6, <1>7, <3>1, <3>2, <3>4
  <2> QED
    BY <2>1, <2>2
<1>9. trailing \in Seq(Seq(X)) /\ Len(trailing) \in 0..1
  <2>1. CASE colons = {}
    BY <2>1, EmptySeq
  <2>2. CASE colons # {}
    <3>1. Min(colons) + 2 \in 1..(Len(message) + 1)
      <4>1. Min(colons) \in 1..(Len(message) - 1) /\ Len(message) \in Nat
        <5>1. Len(message) \in Nat
          BY <1>1
        <5>2. Min(colons) \in colons
          BY <1>4, <2>2
        <5> QED
          BY <1>3, <5>1, <5>2
      <4> QED
        BY <4>1
    <3>2. from(message, Min(colons) + 2) \in Seq(X)
      BY <1>1, <3>1, FromProperties
    <3> QED
      BY <2>2, <3>2
  <2> QED
    BY <2>1, <2>2
<1> HIDE DEF first, trailing
<1> DEFINE all == first \o trailing
<1>10. /\ all \in Seq(Seq(X))
       /\ Len(all) = Len(first) + Len(trailing)
       /\ \A k \in 1..(Len(first) + Len(trailing)) : all[k] =
            IF k <= Len(first) THEN first[k] ELSE trailing[k - Len(first)]
  BY <1>8, <1>9, ConcatProperties
<1> DEFINE p == Len(first)
           q == Len(trailing)
<1> HIDE DEF all, p, q
<1>11. ASSUME NEW k \in 1..(Len(all) - 1)
       PROVE  k \in 1..Len(first) /\ all[k] = first[k]
  <2>1. p \in Nat /\ q \in 0..1 /\ Len(all) = p + q
    BY <1>8, <1>9, <1>10 DEF p, q
  <2>2. k \in 1..(p + q) /\ k \in 1..p /\ k <= p
    BY <2>1
  <2> QED
    BY <1>10, <2>2 DEF p, q
<1>12. Fits(all)
  BY <1>8, <1>11 DEF Fits
<1>13. setCommand(Head(ws)) \in KnownCommands \cup {UNKNOWN}
  BY DEF setCommand
<1> QED
  BY <1>2, <1>10, <1>12, <1>13 DEF all

-----------------------------------------------------------------------------
(***************************************************************************)
(* Lines of a byte sequence.                                               *)
(***************************************************************************)

\* The places of the line feeds.
Ends(s) == {k \in DOMAIN s : s[k] = LF}

\* Where the line behind the first n line feeds begins.
Start(s, n) == IF n = 0 THEN 1 ELSE LineEnds(s)[n] + 1

\* LineEnds lists the line feeds in order; one is where the number of those
\* before it says.
LEMMA EndsFacts ==
  ASSUME NEW X, NEW s \in Seq(X)
  PROVE  /\ Ends(s) \in SUBSET Nat /\ Ends(s) \subseteq 1..Len(s)
         /\ IsFiniteSet(Ends(s))
         /\ Len(LineEnds(s)) \in Nat
         /\ DOMAIN LineEnds(s) = 1..Len(LineEnds(s))
         /\ LineEnds(s) = <<>> <=> Len(LineEnds(s)) = 0
         /\ Cardinality(Ends(s)) = Len(LineEnds(s))
         /\ \A n \in 1..Len(LineEnds(s)) :
              /\ LineEnds(s)[n] \in Ends(s)
              /\ LineEnds(s)[n] \in 1..Len(s)
              /\ Cardinality(Below(Ends(s), LineEnds(s)[n])) = n - 1
         /\ \A k \in Ends(s) :
              /\ Cardinality(Below(Ends(s), k)) + 1 \in 1..Len(LineEnds(s))
              /\ LineEnds(s)[Cardinality(Below(Ends(s), k)) + 1] = k
<1> DEFINE E == Ends(s)
<1>1. LineEnds(s) = ascending(E)
  BY DEF LineEnds, Ends
<1>2. E \in SUBSET (1..Len(s)) /\ Len(s) \in Nat
  BY DEF Ends
<1>3. IsFiniteSet(1..Len(s))
  BY <1>2, FS_Interval
<1>4. IsFiniteSet(E) /\ E \in SUBSET Nat
  BY <1>2, <1>3, FS_Subset
<1> HIDE DEF E
<1>5. /\ Cardinality(E) \in Nat
      /\ LineEnds(s) \in [1..Cardinality(E) -> E]
      /\ \A n \in 1..Cardinality(E) : Cardinality(Below(E, LineEnds(s)[n])) = n - 1
      /\ \A k \in E : /\ Cardinality(Below(E, k)) + 1 \in 1..Cardinality(E)
                       /\ LineEnds(s)[Cardinality(Below(E, k)) + 1] = k
  BY <1>1, <1>4, AscendingProperties
<1>6. LineEnds(s) \in Seq(E) /\ Len(LineEnds(s)) = Cardinality(E)
  BY <1>5, SeqDef, LenProperties
<1>7. LineEnds(s) = <<>> <=> Len(LineEnds(s)) = 0
  BY <1>6, EmptySeq
<1>8. \A n \in 1..Cardinality(E) : LineEnds(s)[n] \in E
  BY <1>5
<1> QED
  BY <1>2, <1>4, <1>5, <1>6, <1>7, <1>8 DEF E

\* Line feed number n is the first at or behind the start of line n.
LEMMA NextEnd ==
  ASSUME NEW X, NEW s \in Seq(X), NEW n \in 0..Len(LineEnds(s)),
         NEW k \in Ends(s), Start(s, n) <= k,
         \A j \in Start(s, n)..(k - 1) : s[j] # LF
  PROVE  n + 1 \in 1..Len(LineEnds(s)) /\ LineEnds(s)[n + 1] = k
<1> DEFINE E == Ends(s)
<1>1. /\ E \in SUBSET Nat /\ E \subseteq 1..Len(s) /\ IsFiniteSet(E)
      /\ n \in Nat /\ k \in Nat /\ Len(LineEnds(s)) \in Nat
  BY EndsFacts
<1>2. \A j \in E : j < k => j < Start(s, n)
  <2> SUFFICES ASSUME NEW j \in E, j < k, ~(j < Start(s, n)) PROVE FALSE
    OBVIOUS
  <2>1. Start(s, n) \in Nat
    BY EndsFacts DEF Start
  <2>2. j \in Start(s, n)..(k - 1)
    BY <1>1, <2>1
  <2>3. s[j] = LF
    BY DEF Ends
  <2> QED
    BY <2>2, <2>3
<1>3. Cardinality(Below(E, k)) = n
  <2>1. CASE n = 0
    <3>1. Below(E, k) = {}
      BY <1>1, <1>2, <2>1 DEF Below, Start
    <3> QED
      BY <2>1, <3>1, FS_EmptySet
  <2>2. CASE n # 0
    <3> DEFINE e == LineEnds(s)[n]
    <3>1. n \in 1..Len(LineEnds(s)) /\ Start(s, n) = e + 1
      BY <1>1, <2>2 DEF Start
    <3>2. e \in E /\ e \in Nat /\ Cardinality(Below(E, e)) = n - 1
      BY <1>1, <3>1, EndsFacts
    <3> HIDE DEF e, E
    <3>3. Below(E, k) = Below(E, e) \cup {e}
      <4>1. e < k
        BY <1>1, <3>1, <3>2
      <4>2. ASSUME NEW j \in E PROVE j < k <=> j < e \/ j = e
        BY <1>1, <1>2, <3>1, <3>2, <4>1
      <4> QED
        BY <3>2, <4>2 DEF Below
    <3>4. e \notin Below(E, e) /\ IsFiniteSet(Below(E, e))
      BY <1>1, <3>2, BelowProperties DEF Below
    <3>5. Cardinality(Below(E, k)) = Cardinality(Below(E, e)) + 1
      BY <3>3, <3>4, FS_AddElement
    <3> QED
      BY <1>1, <3>2, <3>5
  <2> QED
    BY <2>1, <2>2
<1> QED
  BY <1>3, EndsFacts

\* Where no line feed follows, there are no more lines.
LEMMA NoMoreEnds ==
  ASSUME NEW X, NEW s \in Seq(X), NEW n \in 0..Len(LineEnds(s)),
         \A j \in Start(s, n)..Len(s) : s[j] # LF
  PROVE  Len(LineEnds(s)) = n
<1>1. n \in Nat /\ Len(LineEnds(s)) \in Nat /\ Len(s) \in Nat
  BY EndsFacts
<1> SUFFICES ASSUME n + 1 \in 1..Len(LineEnds(s)) PROVE FALSE
  BY <1>1
<1> DEFINE k == LineEnds(s)[n + 1]
           E == Ends(s)
<1>2. k \in E /\ k \in 1..Len(s) /\ Cardinality(Below(E, k)) = n /\ s[k] = LF
  <2>1. k \in E /\ k \in 1..Len(s) /\ Cardinality(Below(E, k)) = (n + 1) - 1
    BY EndsFacts
  <2>2. s[k] = LF
    BY <2>1 DEF Ends
  <2> QED
    BY <1>1, <2>1, <2>2
<1>3. k < Start(s, n) /\ Start(s, n) \in Nat
  BY <1>1, <1>2, EndsFacts DEF Start
<1>4. n # 0
  BY <1>2, <1>3 DEF Start
<1> DEFINE e == LineEnds(s)[n]
<1>5. n \in 1..Len(LineEnds(s)) /\ Start(s, n) = e + 1
  BY <1>1, <1>4 DEF Start
<1>6. e \in E /\ Cardinality(Below(E, e)) = n - 1 /\ e \in Nat
  BY <1>5, EndsFacts
<1>7. k <= e
  BY <1>2, <1>3, <1>5, <1>6
<1> HIDE DEF k, e
<1>8. CASE k = e
  BY <1>1, <1>2, <1>6, <1>8
<1>9. CASE k < e
  <2>1. Cardinality(Below(E, k)) < Cardinality(Below(E, e))
    BY <1>2, <1>6, <1>9, EndsFacts, BelowProperties
  <2> QED
    BY <1>1, <1>2, <1>6, <2>1
<1> QED
  BY <1>2, <1>6, <1>7, <1>8, <1>9

\* A line without the carriage return at its end.
Chop(line) == IF line # <<>> /\ Last(line) = CR THEN Front(line) ELSE line

\* Line n lies between its start and line feed number n, and has no line feed.
LEMMA LineFacts ==
  ASSUME NEW X, NEW s \in Seq(X), NEW n \in 1..Len(LineEnds(s))
  PROVE  /\ LineEnds(s)[n] \in 1..Len(s)
         /\ Start(s, n - 1) \in 1..LineEnds(s)[n]
         /\ \A k \in Start(s, n - 1)..(LineEnds(s)[n] - 1) : s[k] # LF
         /\ Line(s, n) = Chop(SubSeq(s, Start(s, n - 1), LineEnds(s)[n] - 1))
<1> DEFINE E == Ends(s)
           e == LineEnds(s)[n]
           d == LineEnds(s)[n - 1]
<1>1. n \in Nat \ {0} /\ Len(LineEnds(s)) \in Nat /\ Len(s) \in Nat
  BY EndsFacts
<1>2. e \in E /\ e \in 1..Len(s) /\ Cardinality(Below(E, e)) = n - 1
  BY EndsFacts
<1>3. n # 1 => d \in E /\ d \in 1..Len(s) /\ Cardinality(Below(E, d)) = n - 2
  <2> SUFFICES ASSUME n # 1
               PROVE  d \in E /\ d \in 1..Len(s) /\ Cardinality(Below(E, d)) = n - 2
    OBVIOUS
  <2>1. n - 1 \in 1..Len(LineEnds(s))
    BY <1>1
  <2>2. d \in E /\ d \in 1..Len(s) /\ Cardinality(Below(E, d)) = (n - 1) - 1
    BY <2>1, EndsFacts
  <2> QED
    BY <1>1, <2>2
<1>4. Start(s, n - 1) = IF n = 1 THEN 1 ELSE d + 1
  BY <1>1 DEF Start
<1>5. Line(s, n) = Chop(SubSeq(s, Start(s, n - 1), e - 1))
  BY <1>4 DEF Line, Chop
<1>6. E \in SUBSET Nat /\ IsFiniteSet(E)
  BY EndsFacts
<1> HIDE DEF E, e, d
<1>7. n # 1 => d < e
  <2> SUFFICES ASSUME n # 1, ~(d < e) PROVE FALSE
    OBVIOUS
  <2>1. CASE d = e
    BY <1>1, <1>2, <1>3, <2>1
  <2>2. CASE e < d
    <3>1. Cardinality(Below(E, e)) < Cardinality(Below(E, d))
      BY <1>2, <1>3, <1>6, <2>2, BelowProperties
    <3> QED
      BY <1>1, <1>2, <1>3, <3>1
  <2> QED
    BY <1>2, <1>3, <2>1, <2>2
<1>8. Start(s, n - 1) \in 1..e
  BY <1>1, <1>2, <1>3, <1>4, <1>7
<1>9. ASSUME NEW k \in Start(s, n - 1)..(e - 1), s[k] = LF PROVE FALSE
  <2>1. k \in 1..Len(s) /\ k < e
    BY <1>1, <1>2, <1>8
  <2>2. k \in E
    BY <1>9, <2>1 DEF E, Ends
  <2>3. Cardinality(Below(E, k)) < n - 1 /\ Cardinality(Below(E, k)) \in Nat
    BY <1>2, <1>6, <2>1, <2>2, BelowProperties
  <2>4. CASE n = 1
    BY <2>3, <2>4
  <2>5. CASE n # 1
    <3>1. d < k
      BY <1>2, <1>3, <1>4, <1>8, <2>1, <2>5
    <3>2. Cardinality(Below(E, d)) < Cardinality(Below(E, k))
      BY <1>3, <1>6, <2>2, <2>5, <3>1, BelowProperties
    <3> QED
      BY <1>1, <1>3, <2>3, <2>5, <3>2
  <2> QED
    BY <2>4, <2>5
<1> QED
  BY <1>2, <1>5, <1>8, <1>9 DEF e

\* A line begins in the sequence or right behind it.
LEMMA StartFacts ==
  ASSUME NEW X, NEW s \in Seq(X), NEW n \in 0..Len(LineEnds(s))
  PROVE  Start(s, n) \in 1..(Len(s) + 1)
<1>1. Len(s) \in Nat /\ Len(LineEnds(s)) \in Nat
  BY EndsFacts
<1>2. CASE n = 0
  BY <1>1, <1>2 DEF Start
<1>3. CASE n # 0
  <2>1. n \in 1..Len(LineEnds(s))
    BY <1>1, <1>3
  <2>2. LineEnds(s)[n] \in 1..Len(s)
    BY <2>1, EndsFacts
  <2> QED
    BY <1>1, <1>3, <2>2 DEF Start
<1> QED
  BY <1>2, <1>3

\* What comes later does not change the lines that are there.
LEMMA AppendedLines ==
  ASSUME NEW X, NEW s \in Seq(X), NEW t \in Seq(X)
  PROVE  /\ Len(LineEnds(s)) <= Len(LineEnds(s \o t))
         /\ \A n \in 1..Len(LineEnds(s)) :
              /\ LineEnds(s \o t)[n] = LineEnds(s)[n]
              /\ Line(s \o t, n) = Line(s, n)
<1> DEFINE u == s \o t
<1>1. /\ u \in Seq(X) /\ Len(u) = Len(s) + Len(t)
      /\ \A k \in 1..(Len(s) + Len(t)) : u[k] = IF k <= Len(s) THEN s[k] ELSE t[k - Len(s)]
      /\ Len(s) \in Nat /\ Len(t) \in Nat
  BY ConcatProperties
<1> HIDE DEF u
<1>2. \A k \in 1..Len(s) : k \in 1..Len(u) /\ u[k] = s[k]
  BY <1>1
<1>3. DOMAIN s = 1..Len(s) /\ DOMAIN u = 1..Len(u)
  BY <1>1
<1>4. Ends(s) = {k \in Ends(u) : k <= Len(s)}
  BY <1>1, <1>2, <1>3 DEF Ends
<1>5. \A k \in Ends(s) : k \in Ends(u) /\ Below(Ends(u), k) = Below(Ends(s), k)
  <2> SUFFICES ASSUME NEW k \in Ends(s)
               PROVE  k \in Ends(u) /\ Below(Ends(u), k) = Below(Ends(s), k)
    OBVIOUS
  <2>1. k \in Ends(u) /\ k \in Nat /\ k <= Len(s) /\ Ends(u) \subseteq Nat
    BY <1>1, <1>4, EndsFacts
  <2>2. \A j \in Ends(u) : j < k => j \in Ends(s)
    BY <1>1, <1>4, <2>1
  <2> QED
    BY <1>4, <2>1, <2>2 DEF Below
<1>6. ASSUME NEW n \in 1..Len(LineEnds(s))
      PROVE  n \in 1..Len(LineEnds(u)) /\ LineEnds(u)[n] = LineEnds(s)[n]
  <2> DEFINE k == LineEnds(s)[n]
  <2>1. k \in Ends(s) /\ Cardinality(Below(Ends(s), k)) = n - 1
    BY EndsFacts
  <2> HIDE DEF k
  <2>2. k \in Ends(u) /\ Cardinality(Below(Ends(u), k)) = n - 1
    BY <1>5, <2>1
  <2>3. (n - 1) + 1 = n
    BY EndsFacts
  <2>4. n \in 1..Len(LineEnds(u)) /\ LineEnds(u)[n] = k
    BY <1>1, <2>2, <2>3, EndsFacts
  <2> QED
    BY <2>4 DEF k
<1>7. Len(LineEnds(s)) \in Nat /\ Len(LineEnds(u)) \in Nat
  BY <1>1, EndsFacts
<1>8. Len(LineEnds(s)) <= Len(LineEnds(u))
  <2>1. CASE Len(LineEnds(s)) = 0
    BY <1>7, <2>1
  <2>2. CASE Len(LineEnds(s)) # 0
    <3>1. Len(LineEnds(s)) \in 1..Len(LineEnds(s))
      BY <1>7, <2>2
    <3> QED
      BY <1>6, <1>7, <3>1
  <2> QED
    BY <2>1, <2>2
<1>9. ASSUME NEW n \in 1..Len(LineEnds(s))
      PROVE  Line(u, n) = Line(s, n)
  <2> DEFINE a == Start(s, n - 1)
             e == LineEnds(s)[n]
  <2>1. e \in 1..Len(s) /\ a \in 1..e /\ Line(s, n) = Chop(SubSeq(s, a, e - 1))
    BY LineFacts
  <2>2. Start(u, n - 1) = a
    <3>1. CASE n = 1
      BY <3>1 DEF Start
    <3>2. CASE n # 1
      <4>1. n - 1 \in 1..Len(LineEnds(s)) /\ n - 1 # 0
        BY <1>7, <3>2
      <4>2. LineEnds(u)[n - 1] = LineEnds(s)[n - 1]
        BY <1>6, <4>1
      <4> QED
        BY <4>1, <4>2 DEF Start
    <3> QED
      BY <3>1, <3>2
  <2>3. n \in 1..Len(LineEnds(u)) /\ LineEnds(u)[n] = e
    BY <1>6
  <2>4. Line(u, n) = Chop(SubSeq(u, a, e - 1))
    BY <1>1, <2>2, <2>3, LineFacts
  <2> HIDE DEF a, e
  <2>5. SubSeq(u, a, e - 1) = SubSeq(s, a, e - 1)
    <3>1. /\ a \in Nat \ {0} /\ e - 1 \in Int /\ e - 1 <= Len(s) /\ e - 1 <= Len(u)
      BY <1>1, <2>1
    <3> DEFINE v == SubSeq(u, a, e - 1)
               w == SubSeq(s, a, e - 1)
    <3>2. /\ v \in Seq(X) /\ Len(v) = (IF a <= e - 1 THEN e - 1 - a + 1 ELSE 0)
          /\ \A k \in 1..(e - 1 - a + 1) : v[k] = u[a + k - 1]
      BY <1>1, <3>1, SliceProperties
    <3>3. /\ w \in Seq(X) /\ Len(w) = (IF a <= e - 1 THEN e - 1 - a + 1 ELSE 0)
          /\ \A k \in 1..(e - 1 - a + 1) : w[k] = s[a + k - 1]
      BY <3>1, SliceProperties
    <3> HIDE DEF v, w
    <3>4. ASSUME NEW k \in 1..Len(v)
          PROVE  v[k] = w[k]
      <4>1. k \in 1..(e - 1 - a + 1) /\ a + k - 1 \in 1..Len(s)
        BY <1>1, <2>1, <3>1, <3>2
      <4> QED
        BY <1>2, <3>2, <3>3, <4>1
    <3>5. v = w
      BY <3>2, <3>3, <3>4, SeqEqual
    <3> QED
      BY <3>5 DEF v, w
  <2> QED
    BY <2>1, <2>4, <2>5
<1> QED
  BY <1>6, <1>8, <1>9 DEF u

\* What is appended behind a part is appended to the part.
LEMMA FromAppended ==
  ASSUME NEW X, NEW s \in Seq(X), NEW t \in Seq(X), NEW a \in 1..(Len(s) + 1)
  PROVE  from(s \o t, a) = from(s, a) \o t
<1> DEFINE u == s \o t
           v == from(u, a)
           f == from(s, a)
           w == f \o t
<1>1. /\ u \in Seq(X) /\ Len(u) = Len(s) + Len(t)
      /\ \A k \in 1..(Len(s) + Len(t)) : u[k] = IF k <= Len(s) THEN s[k] ELSE t[k - Len(s)]
  BY ConcatProperties
<1>2. Len(s) \in Nat /\ Len(t) \in Nat
  OBVIOUS
<1> HIDE DEF u
<1>3. a \in 1..(Len(u) + 1)
  BY <1>1, <1>2
<1>4. /\ v \in Seq(X) /\ Len(v) = Len(u) - a + 1
      /\ \A k \in 1..(Len(u) - a + 1) : v[k] = u[a + k - 1]
  BY <1>1, <1>3, FromProperties
<1>5. /\ f \in Seq(X) /\ Len(f) = Len(s) - a + 1
      /\ \A k \in 1..(Len(s) - a + 1) : f[k] = s[a + k - 1]
  BY FromProperties
<1> HIDE DEF f, v
<1>6. /\ w \in Seq(X) /\ Len(w) = Len(f) + Len(t)
      /\ \A k \in 1..(Len(f) + Len(t)) : w[k] = IF k <= Len(f) THEN f[k] ELSE t[k - Len(f)]
  BY <1>5, ConcatProperties
<1> HIDE DEF w
<1>7. Len(v) = Len(w)
  BY <1>1, <1>2, <1>4, <1>5, <1>6
<1>8. ASSUME NEW k \in 1..Len(v) PROVE v[k] = w[k]
  <2>1. /\ k \in 1..(Len(u) - a + 1) /\ k \in 1..(Len(f) + Len(t))
        /\ a + k - 1 \in 1..(Len(s) + Len(t))
    BY <1>1, <1>2, <1>4, <1>6, <1>7
  <2>2. v[k] = IF a + k - 1 <= Len(s) THEN s[a + k - 1] ELSE t[a + k - 1 - Len(s)]
    <3> DEFINE x == a + k - 1
    <3>1. x \in 1..(Len(s) + Len(t)) /\ v[k] = u[x]
      BY <1>4, <2>1
    <3> HIDE DEF x
    <3>2. v[k] = IF x <= Len(s) THEN s[x] ELSE t[x - Len(s)]
      BY <1>1, <3>1
    <3> QED
      BY <3>2 DEF x
  <2>3. w[k] = IF k <= Len(f) THEN f[k] ELSE t[k - Len(f)]
    BY <1>6, <2>1
  <2>4. CASE k <= Len(f)
    <3>1. k \in 1..(Len(s) - a + 1) /\ a + k - 1 <= Len(s)
      BY <1>2, <1>5, <2>1, <2>4
    <3> QED
      BY <1>5, <2>2, <2>3, <2>4, <3>1
  <2>5. CASE ~(k <= Len(f))
    <3>1. ~(a + k - 1 <= Len(s)) /\ a + k - 1 - Len(s) = k - Len(f)
      BY <1>2, <1>5, <2>1, <2>5
    <3> QED
      BY <2>2, <2>3, <2>5, <3>1
  <2> QED
    BY <2>4, <2>5
<1>9. v = w
  BY <1>4, <1>6, <1>7, <1>8, SeqEqual
<1> QED
  BY <1>9 DEF u, v, w, f

\* A part of a part.
LEMMA FromFrom ==
  ASSUME NEW X, NEW s \in Seq(X), NEW a \in 1..(Len(s) + 1),
         NEW p \in 1..Len(from(s, a))
  PROVE  from(from(s, a), p + 1) = from(s, a + p)
<1> DEFINE f == from(s, a)
           v == from(f, p + 1)
           w == from(s, a + p)
<1>1. Len(s) \in Nat /\ a \in Nat /\ p \in Nat
  OBVIOUS
<1>2. /\ f \in Seq(X) /\ Len(f) = Len(s) - a + 1
      /\ \A k \in 1..(Len(s) - a + 1) : f[k] = s[a + k - 1]
  BY FromProperties
<1>3. p \in 1..Len(f)
  OBVIOUS
<1> HIDE DEF f
<1>4. p + 1 \in 1..(Len(f) + 1) /\ a + p \in 1..(Len(s) + 1)
  BY <1>1, <1>2, <1>3
<1>5. /\ v \in Seq(X) /\ Len(v) = Len(f) - (p + 1) + 1
      /\ \A k \in 1..(Len(f) - (p + 1) + 1) : v[k] = f[(p + 1) + k - 1]
  BY <1>2, <1>4, FromProperties
<1>6. /\ w \in Seq(X) /\ Len(w) = Len(s) - (a + p) + 1
      /\ \A k \in 1..(Len(s) - (a + p) + 1) : w[k] = s[(a + p) + k - 1]
  BY <1>4, FromProperties
<1> HIDE DEF v, w
<1>7. Len(v) = Len(w)
  BY <1>1, <1>2, <1>5, <1>6
<1>8. ASSUME NEW k \in 1..Len(v) PROVE v[k] = w[k]
  <2>1. /\ k \in 1..(Len(f) - (p + 1) + 1) /\ k \in 1..(Len(s) - (a + p) + 1)
        /\ (p + 1) + k - 1 \in 1..(Len(s) - a + 1)
        /\ a + ((p + 1) + k - 1) - 1 = (a + p) + k - 1
    <3>1. Len(v) = Len(s) - a + 1 - p /\ Len(v) \in Nat
      BY <1>1, <1>2, <1>5
    <3>2. k \in Nat /\ 1 <= k /\ k <= Len(s) - a + 1 - p
      BY <1>1, <3>1
    <3> QED
      BY <1>1, <1>2, <3>2
  <2> QED
    BY <1>2, <1>5, <1>6, <2>1
<1>9. v = w
  BY <1>5, <1>6, <1>7, <1>8, SeqEqual
<1> QED
  BY <1>9 DEF f, v, w

-----------------------------------------------------------------------------
(***************************************************************************)
(* The read buffer.                                                        *)
(***************************************************************************)

\* The first line feed of the buffer ends the next line of the stream, if the
\* buffer is the stream from the start of that line on.
LEMMA FirstLine ==
  ASSUME NEW X, NEW s \in Seq(X), NEW n \in 0..Len(LineEnds(s)),
         readBuffer = from(s, Start(s, n)), hasCompleteCommand
  PROVE  /\ n + 1 \in 1..Len(LineEnds(s))
         /\ firstCommand = Line(s, n + 1)
         /\ afterFirstCommand = from(s, Start(s, n + 1))
<1> DEFINE a == Start(s, n)
           p == find(readBuffer, LF)
           k == a + p - 1
<1>1. Len(s) \in Nat /\ a \in 1..(Len(s) + 1) /\ n \in Nat
  BY StartFacts, EndsFacts
<1> HIDE DEF a
<1>2. readBuffer = from(s, a)
  BY DEF a
<1>3. /\ readBuffer \in Seq(X) /\ Len(readBuffer) = Len(s) - a + 1
      /\ \A j \in 1..(Len(s) - a + 1) : readBuffer[j] = s[a + j - 1]
  BY <1>1, <1>2, FromProperties
<1>4. /\ p \in 1..Len(readBuffer) /\ readBuffer[p] = LF
      /\ \A j \in 1..(p - 1) : readBuffer[j] # LF
  BY <1>3, FindProperties DEF hasCompleteCommand
<1> HIDE DEF p
<1>5. k \in 1..Len(s) /\ a <= k /\ s[k] = LF
  BY <1>1, <1>3, <1>4
<1>6. \A j \in a..(k - 1) : s[j] # LF
  <2> SUFFICES ASSUME NEW j \in a..(k - 1) PROVE s[j] # LF
    OBVIOUS
  <2>1. j - a + 1 \in 1..(p - 1) /\ j - a + 1 \in 1..(Len(s) - a + 1)
        /\ a + (j - a + 1) - 1 = j
    BY <1>1, <1>3, <1>4, <1>5
  <2> QED
    BY <1>3, <1>4, <2>1
<1>7. k \in Ends(s)
  BY <1>5 DEF Ends
<1>8. n + 1 \in 1..Len(LineEnds(s)) /\ LineEnds(s)[n + 1] = k
  <2> HIDE DEF k
  <2> QED
    BY <1>5, <1>6, <1>7, NextEnd DEF a
<1>9. Start(s, n + 1) = k + 1
  BY <1>1, <1>8 DEF Start
<1>10. afterFirstCommand = from(s, Start(s, n + 1))
  <2>1. k + 1 = a + p
    BY <1>1, <1>4, <1>3
  <2>2. afterFirstCommand = from(from(s, a), p + 1)
    BY <1>2 DEF afterFirstCommand, p
  <2> QED
    BY <1>1, <1>2, <1>4, <1>9, <2>1, <2>2, FromFrom
<1> DEFINE raw == SubSeq(s, a, k - 1)
<1>11. Line(s, n + 1) = Chop(raw)
  <2>1. (n + 1) - 1 = n
    BY <1>1
  <2> QED
    BY <1>8, <2>1, LineFacts DEF a
<1>12. /\ raw \in Seq(X) /\ Len(raw) = p - 1
       /\ \A j \in 1..(p - 1) : raw[j] = s[a + j - 1] /\ raw[j] = readBuffer[j]
  <2>1. a \in Nat \ {0} /\ k - 1 \in Int /\ k - 1 <= Len(s)
    BY <1>1, <1>5
  <2>2. /\ raw \in Seq(X) /\ Len(raw) = (IF a <= k - 1 THEN k - 1 - a + 1 ELSE 0)
        /\ \A j \in 1..(k - 1 - a + 1) : raw[j] = s[a + j - 1]
    BY <2>1, SliceProperties
  <2> HIDE DEF raw
  <2>3. Len(raw) = p - 1 /\ k - 1 - a + 1 = p - 1
    BY <1>1, <1>4, <1>3, <2>2
  <2>4. \A j \in 1..(p - 1) : readBuffer[j] = s[a + j - 1]
    BY <1>1, <1>3, <1>4
  <2> QED
    BY <2>2, <2>3, <2>4
<1> HIDE DEF raw, k
<1>13. p \in Nat /\ Len(readBuffer) \in Nat /\ p <= Len(readBuffer) /\ p >= 1
  BY <1>3, <1>4
<1>14. \A m \in 0..(p - 1) : SubSeq(readBuffer, 1, m) = SubSeq(raw, 1, m)
  <2> SUFFICES ASSUME NEW m \in 0..(p - 1)
               PROVE  SubSeq(readBuffer, 1, m) = SubSeq(raw, 1, m)
    OBVIOUS
  <2> DEFINE v == SubSeq(readBuffer, 1, m)
             w == SubSeq(raw, 1, m)
  <2>1. m \in Int /\ m <= Len(readBuffer) /\ m <= Len(raw) /\ 1 \in Nat \ {0}
    BY <1>12, <1>13
  <2>2. /\ v \in Seq(X) /\ Len(v) = (IF 1 <= m THEN m - 1 + 1 ELSE 0)
        /\ \A j \in 1..(m - 1 + 1) : v[j] = readBuffer[1 + j - 1]
    BY <1>3, <2>1, SliceProperties
  <2>3. /\ w \in Seq(X) /\ Len(w) = (IF 1 <= m THEN m - 1 + 1 ELSE 0)
        /\ \A j \in 1..(m - 1 + 1) : w[j] = raw[1 + j - 1]
    BY <1>12, <2>1, SliceProperties
  <2> HIDE DEF v, w
  <2>4. ASSUME NEW j \in 1..Len(v) PROVE v[j] = w[j]
    <3>1. j \in 1..(m - 1 + 1) /\ j \in 1..(p - 1) /\ 1 + j - 1 = j
      BY <1>13, <2>2
    <3> QED
      BY <1>12, <2>2, <2>3, <3>1
  <2>5. v = w
    BY <2>2, <2>3, <2>4, SeqEqual
  <2> QED
    BY <2>5 DEF v, w
<1>15. SubSeq(raw, 1, p - 1) = raw
  BY <1>12, SubSeqFull
<1>16. raw # <<>> <=> p > 1
  BY <1>12, <1>13, EmptySeq
<1>17. firstCommand = IF p > 1 /\ readBuffer[p - 1] = CR THEN SubSeq(readBuffer, 1, p - 2)
                      ELSE SubSeq(readBuffer, 1, p - 1)
  BY DEF firstCommand, p
<1>18. CASE p > 1
  <2>1. Last(raw) = readBuffer[p - 1] /\ Front(raw) = SubSeq(raw, 1, p - 2)
    <3>1. p - 1 \in 1..(p - 1) /\ (p - 1) - 1 = p - 2
      BY <1>13, <1>18
    <3> QED
      BY <1>12, <3>1 DEF Last, Front
  <2>2. p - 2 \in 0..(p - 1) /\ p - 1 \in 0..(p - 1)
    BY <1>13, <1>18
  <2>3. firstCommand = Chop(raw)
    BY <1>14, <1>15, <1>16, <1>17, <1>18, <2>1, <2>2 DEF Chop
  <2> QED
    BY <1>8, <1>10, <1>11, <2>3
<1>19. CASE ~(p > 1)
  <2>1. p - 1 \in 0..(p - 1)
    BY <1>13
  <2>2. firstCommand = Chop(raw)
    BY <1>14, <1>15, <1>16, <1>17, <1>19, <2>1 DEF Chop
  <2> QED
    BY <1>8, <1>10, <1>11, <2>2
<1> QED
  BY <1>18, <1>19

\* A sequence of elements of Y.
LEMMA Narrowed ==
  ASSUME NEW X, NEW Y, NEW s \in Seq(X), \A k \in 1..Len(s) : s[k] \in Y
  PROVE  s \in Seq(Y)
<1>1. Len(s) \in Nat /\ s \in [1..Len(s) -> X]
  BY LenProperties
<1>2. s \in [1..Len(s) -> Y]
  BY <1>1
<1> QED
  BY <1>1, <1>2, SeqDef

\* What the read buffer holds, and what a line does.
BufferBytes == Bytes \ {NUL}
LineBytes == Bytes \ {LF, NUL}

\* A line of the stream has no line feed.
LEMMA LineType ==
  ASSUME NEW s \in Seq(BufferBytes), NEW n \in 1..Len(LineEnds(s))
  PROVE  Line(s, n) \in Seq(LineBytes)
<1> DEFINE a == Start(s, n - 1)
           e == LineEnds(s)[n]
           raw == SubSeq(s, a, e - 1)
<1>1. e \in 1..Len(s) /\ a \in 1..e /\ Line(s, n) = Chop(raw)
      /\ \A k \in a..(e - 1) : s[k] # LF
  BY LineFacts
<1> HIDE DEF a, e
<1>2. Len(s) \in Nat
  OBVIOUS
<1>3. a \in Nat \ {0} /\ e - 1 \in Int /\ e - 1 <= Len(s)
  BY <1>1, <1>2
<1>4. /\ raw \in Seq(BufferBytes)
      /\ Len(raw) = (IF a <= e - 1 THEN e - 1 - a + 1 ELSE 0)
      /\ \A k \in 1..(e - 1 - a + 1) : raw[k] = s[a + k - 1]
  BY <1>3, SliceProperties
<1> HIDE DEF raw
<1>5. ASSUME NEW k \in 1..Len(raw) PROVE raw[k] \in LineBytes
  <2>1. k \in 1..(e - 1 - a + 1) /\ a + k - 1 \in a..(e - 1)
    BY <1>1, <1>2, <1>3, <1>4
  <2>2. raw[k] # LF
    BY <1>1, <1>4, <2>1
  <2>3. raw[k] \in BufferBytes
    BY <1>4, ElementOfSeq
  <2> QED
    BY <2>2, <2>3 DEF BufferBytes, LineBytes
<1>6. raw \in Seq(LineBytes)
  BY <1>4, <1>5, Narrowed
<1>7. Len(raw) \in Nat
  BY <1>4
<1>8. Front(raw) \in Seq(LineBytes)
  BY <1>6, <1>7, SliceProperties DEF Front
<1> QED
  BY <1>1, <1>6, <1>8 DEF Chop

\* What reaches the buffer has no NUL.
LEMMA CStringType ==
  ASSUME NEW chunk \in Chunks
  PROVE  asCString(chunk) \in Seq(BufferBytes)
<1> DEFINE p == find(chunk, NUL)
<1>1. chunk \in Seq(Bytes) /\ Len(chunk) \in Nat
  <2>1. PICK n \in 1..MaxChunk : chunk \in [1..n -> Bytes]
    BY DEF Chunks
  <2>2. n \in Nat
    BY ReadPathAssumption
  <2> QED
    BY <2>1, <2>2, SeqDef
<1>2. /\ p \in 0..Len(chunk)
      /\ p = 0 => \A k \in 1..Len(chunk) : chunk[k] # NUL
      /\ \A k \in 1..(p - 1) : chunk[k] # NUL
  BY <1>1, FindProperties
<1> HIDE DEF p
<1>3. CASE p = 0
  <2>1. \A k \in 1..Len(chunk) : chunk[k] \in BufferBytes
    BY <1>1, <1>2, <1>3, ElementOfSeq DEF BufferBytes
  <2>2. chunk \in Seq(BufferBytes)
    BY <1>1, <2>1, Narrowed
  <2> QED
    BY <1>3, <2>2 DEF asCString, p
<1>4. CASE p # 0
  <2> DEFINE cut == SubSeq(chunk, 1, p - 1)
  <2>1. p - 1 \in Int /\ p - 1 <= Len(chunk) /\ 1 \in Nat \ {0}
    BY <1>1, <1>2
  <2>2. /\ cut \in Seq(Bytes)
        /\ Len(cut) = (IF 1 <= p - 1 THEN p - 1 - 1 + 1 ELSE 0)
        /\ \A k \in 1..(p - 1 - 1 + 1) : cut[k] = chunk[1 + k - 1]
    BY <1>1, <2>1, SliceProperties
  <2>3. asCString(chunk) = cut
    BY <1>4 DEF asCString, p
  <2> HIDE DEF cut
  <2>4. ASSUME NEW k \in 1..Len(cut) PROVE cut[k] \in BufferBytes
    <3>1. k \in 1..(p - 1) /\ k \in 1..(p - 1 - 1 + 1) /\ 1 + k - 1 = k
      BY <1>1, <1>2, <2>2
    <3>2. cut[k] # NUL /\ cut[k] \in Bytes
      BY <1>2, <2>2, <3>1, ElementOfSeq
    <3> QED
      BY <3>2 DEF BufferBytes
  <2>5. cut \in Seq(BufferBytes)
    BY <2>2, <2>4, Narrowed
  <2> QED
    BY <2>3, <2>5
<1> QED
  BY <1>3, <1>4

-----------------------------------------------------------------------------
(***************************************************************************)
(* The invariant.                                                          *)
(***************************************************************************)

\* The parsed commands that can have run.
Executed == [command : KnownCommands \cup {UNKNOWN, <<>>}, params : Seq(Seq(LineBytes))]

\* The commands run so far are the first lines of the stream, and the buffer is
\* the stream behind them; outside the while it has no line feed.
ReadInv ==
  /\ readBuffer \in Seq(BufferBytes)
  /\ stream \in Seq(BufferBytes)
  /\ pc \in {"recv", "commands"}
  /\ executed \in Seq(Executed)
  /\ \A n \in 1..Len(executed) : Fits(executed[n].params)
  /\ Len(executed) <= Len(LineEnds(stream))
  /\ \A n \in 1..Len(executed) : executed[n] = Parser(Line(stream, n))
  /\ readBuffer = from(stream, Start(stream, Len(executed)))
  /\ pc = "recv" => ~hasCompleteCommand

\* An empty stream has no lines and leaves nothing.
LEMMA NoLines ==
  /\ Len(LineEnds(<<>>)) = 0
  /\ LineEnds(<<>>) = <<>>
  /\ from(<<>>, 1) = <<>>
  /\ find(<<>>, LF) = 0
<1>1. <<>> \in Seq(Bytes) /\ Len(<<>>) = 0
  BY EmptySeq
<1>2. Ends(<<>>) = {}
  BY DEF Ends
<1>3. Len(LineEnds(<<>>)) = 0 /\ LineEnds(<<>>) = <<>>
  BY <1>1, <1>2, EndsFacts, FS_EmptySet
<1>4. from(<<>>, 1) = <<>>
  BY <1>1, SubSeqEmpty DEF from
<1>5. find(<<>>, LF) = 0
  <2>1. find(<<>>, LF) \in 0..Len(<<>>)
    BY <1>1, FindProperties
  <2>2. 0..Len(<<>>) = {0}
    BY <1>1
  <2> QED
    BY <2>1, <2>2
<1> QED
  BY <1>3, <1>4, <1>5

\* The invariant holds of a fresh connection.
LEMMA ReadInit == Init => ReadInv
<1> SUFFICES ASSUME Init PROVE ReadInv
  OBVIOUS
<1>1. <<>> \in Seq(BufferBytes) /\ <<>> \in Seq(Executed) /\ Len(<<>>) = 0 /\ 1..0 = {}
  BY EmptySeq
<1>2. ~hasCompleteCommand
  BY NoLines DEF Init, hasCompleteCommand
<1>3. readBuffer = from(stream, Start(stream, Len(executed)))
  BY <1>1, NoLines DEF Init, Start
<1> QED
  BY <1>1, <1>2, <1>3, NoLines DEF Init, ReadInv

\* A chunk, however cut, adds lines only behind those that have run.
LEMMA RecvData ==
  ASSUME ReadInv, NEW chunk \in Chunks, recvData(chunk)
  PROVE  ReadInv'
<1> DEFINE c == asCString(chunk)
           n == Len(executed)
<1>1. c \in Seq(BufferBytes)
  BY CStringType
<1>2. /\ stream' = stream \o c /\ readBuffer' = readBuffer \o c
      /\ executed' = executed /\ pc' = "commands"
  BY DEF recvData
<1> HIDE DEF c
<1>3. stream' \in Seq(BufferBytes) /\ readBuffer' \in Seq(BufferBytes)
  BY <1>1, <1>2, ConcatProperties DEF ReadInv
<1>4. n \in Nat /\ Len(LineEnds(stream)) \in Nat /\ n <= Len(LineEnds(stream))
      /\ Len(LineEnds(stream')) \in Nat
  BY <1>3, EndsFacts DEF ReadInv
<1>5. /\ Len(LineEnds(stream)) <= Len(LineEnds(stream'))
      /\ \A m \in 1..Len(LineEnds(stream)) :
           LineEnds(stream')[m] = LineEnds(stream)[m] /\ Line(stream', m) = Line(stream, m)
  BY <1>1, <1>2, AppendedLines DEF ReadInv
<1>6. \A m \in 1..n : m \in 1..Len(LineEnds(stream))
  BY <1>4
<1>7. Start(stream', n) = Start(stream, n)
  <2>1. CASE n = 0
    BY <2>1 DEF Start
  <2>2. CASE n # 0
    <3>1. n \in 1..Len(LineEnds(stream))
      BY <1>4, <2>2
    <3> QED
      BY <1>5, <2>2, <3>1 DEF Start
  <2> QED
    BY <2>1, <2>2
<1>8. readBuffer' = from(stream', Start(stream', n))
  <2>1. n \in 0..Len(LineEnds(stream))
    BY <1>4
  <2>2. Start(stream, n) \in 1..(Len(stream) + 1)
    BY <2>1, StartFacts DEF ReadInv
  <2>3. from(stream \o c, Start(stream, n)) = from(stream, Start(stream, n)) \o c
    BY <1>1, <2>2, FromAppended DEF ReadInv
  <2> QED
    BY <1>2, <1>7, <2>3 DEF ReadInv
<1>9. \A m \in 1..n : executed[m] = Parser(Line(stream', m))
  BY <1>5, <1>6 DEF ReadInv
<1>10. n <= Len(LineEnds(stream'))
  BY <1>4, <1>5
<1> QED
  BY <1>2, <1>3, <1>8, <1>9, <1>10 DEF ReadInv

\* The first line of the buffer is the next line of the stream.
LEMMA ExtractCommand ==
  ASSUME ReadInv, extractCommandFromBuffer
  PROVE  ReadInv'
<1> DEFINE n == Len(executed)
           cmd == Parser(firstCommand)
<1>1. /\ pc = "commands" /\ hasCompleteCommand
      /\ executed' = Append(executed, cmd)
      /\ readBuffer' = afterFirstCommand
      /\ stream' = stream /\ pc' = pc
  BY DEF extractCommandFromBuffer
<1>2. n \in Nat /\ Len(LineEnds(stream)) \in Nat /\ n \in 0..Len(LineEnds(stream))
  BY EndsFacts DEF ReadInv
<1>3. /\ n + 1 \in 1..Len(LineEnds(stream))
      /\ firstCommand = Line(stream, n + 1)
      /\ afterFirstCommand = from(stream, Start(stream, n + 1))
  BY <1>1, <1>2, FirstLine DEF ReadInv
<1>4. Line(stream, n + 1) \in Seq(LineBytes)
  BY <1>3, LineType DEF ReadInv
<1>5. cmd \in Executed /\ Fits(cmd.params)
  <2>1. /\ cmd.command \in KnownCommands \cup {UNKNOWN, <<>>}
        /\ cmd.params \in Seq(Seq(LineBytes))
        /\ Fits(cmd.params)
    BY <1>3, <1>4, ParserProperties
  <2>2. cmd = [command |-> cmd.command, params |-> cmd.params]
    BY DEF Parser
  <2> HIDE DEF cmd
  <2> QED
    BY <2>1, <2>2 DEF Executed
<1>6. cmd = Parser(Line(stream, n + 1))
  BY <1>3
<1> HIDE DEF cmd
<1>7. /\ executed' \in Seq(Executed)
      /\ Len(executed') = n + 1
      /\ \A m \in 1..n : executed'[m] = executed[m]
      /\ executed'[n + 1] = cmd
  BY <1>1, <1>5, AppendProperties DEF ReadInv
<1>8. \A m \in 1..(n + 1) : m \in 1..n \/ m = n + 1
  BY <1>2
<1>9. \A m \in 1..Len(executed') : Fits(executed'[m].params)
                               /\ executed'[m] = Parser(Line(stream, m))
  BY <1>5, <1>6, <1>7, <1>8 DEF ReadInv
<1>10. readBuffer' \in Seq(BufferBytes)
  <2>1. Start(stream, n + 1) \in 1..(Len(stream) + 1)
    <3>1. n + 1 \in 0..Len(LineEnds(stream))
      BY <1>2, <1>3
    <3> QED
      BY <3>1, StartFacts DEF ReadInv
  <2> QED
    BY <1>1, <1>3, <2>1, FromProperties DEF ReadInv
<1>11. Len(executed') <= Len(LineEnds(stream))
  BY <1>2, <1>3, <1>7
<1> QED
  BY <1>1, <1>3, <1>7, <1>9, <1>10, <1>11 DEF ReadInv

\* The loop is left when the buffer has no line feed.
LEMMA CommandsDone ==
  ASSUME ReadInv, commandsDone
  PROVE  ReadInv'
  BY DEF ReadInv, commandsDone, hasCompleteCommand

\* Every step of receiveData keeps the invariant.
LEMMA ReadNext == ReadInv /\ [Next]_vars => ReadInv'
<1>1. CASE UNCHANGED vars
  BY <1>1 DEF vars, ReadInv, hasCompleteCommand
<1> QED
  BY <1>1, RecvData, ExtractCommand, CommandsDone DEF Next

\* The inductive invariant holds in every reachable state of a connection.
THEOREM ReadInvariance == Spec => []ReadInv
  BY ReadInit, ReadNext, PTL DEF Spec

\* The types of the buffer and of the parsed commands, for any bytes that
\* arrive in any chunks.
THEOREM ReadTypeCorrect == Spec => []TypeOK
<1>1. ReadInv => TypeOK
  <2> SUFFICES ASSUME ReadInv PROVE TypeOK
    OBVIOUS
  <2>1. \A k \in DOMAIN executed : executed[k] \in Executed
    BY DEF ReadInv
  <2> QED
    BY <2>1 DEF ReadInv, TypeOK, Executed, BufferBytes, LineBytes
<1> QED
  BY <1>1, ReadInvariance, PTL

\* Every command run has the shape the handlers rely on.
THEOREM CommandsFit == Spec => []ParserFits
<1>1. ReadInv => ParserFits
  BY LenProperties DEF ReadInv, ParserFits, Fits
<1> QED
  BY <1>1, ReadInvariance, PTL

\* The commands run are the lines of the stream, each once and in order,
\* however recv cuts it; the unfinished line stays in the buffer.
THEOREM LinesAreRun == Spec => []ChunksDoNotMatter
<1>1. ReadInv => ChunksDoNotMatter
  <2> SUFFICES ASSUME ReadInv PROVE ChunksDoNotMatter
    OBVIOUS
  <2> DEFINE n == Len(executed)
             a == Start(stream, n)
  <2>1. /\ n \in Nat /\ Len(LineEnds(stream)) \in Nat /\ n \in 0..Len(LineEnds(stream))
        /\ Len(stream) \in Nat /\ DOMAIN executed = 1..n
    BY EndsFacts DEF ReadInv
  <2>2. a \in 1..(Len(stream) + 1)
    BY <2>1, StartFacts DEF ReadInv
  <2>3. ASSUME pc = "recv"
        PROVE  Len(executed) = Len(LineEnds(stream)) /\ readBuffer = Rest(stream)
    <3>1. \A k \in 1..Len(readBuffer) : readBuffer[k] # LF
      BY <2>3, FindProperties DEF ReadInv, hasCompleteCommand
    <3>2. /\ Len(readBuffer) = Len(stream) - a + 1
          /\ \A k \in 1..(Len(stream) - a + 1) : readBuffer[k] = stream[a + k - 1]
      BY <2>2, FromProperties DEF ReadInv
    <3>3. ASSUME NEW j \in a..Len(stream) PROVE stream[j] # LF
      <4> HIDE DEF a, n
      <4>1. j - a + 1 \in 1..(Len(stream) - a + 1) /\ a + (j - a + 1) - 1 = j
        BY <2>1, <2>2
      <4> QED
        BY <3>1, <3>2, <4>1
    <3>4. Len(LineEnds(stream)) = n
      BY <2>1, <3>3, NoMoreEnds DEF ReadInv
    <3>5. readBuffer = Rest(stream)
      <4>1. CASE n = 0
        <5>1. Rest(stream) = stream
          BY <3>4, <4>1, EndsFacts DEF Rest, ReadInv
        <5>2. from(stream, 1) = stream
          BY SubSeqFull DEF from, ReadInv
        <5> QED
          BY <4>1, <5>1, <5>2 DEF ReadInv, Start
      <4>2. CASE n # 0
        <5>1. LineEnds(stream) # <<>>
          BY <3>4, <4>2, EndsFacts DEF ReadInv
        <5> QED
          BY <3>4, <4>2, <5>1 DEF ReadInv, Start, Rest, Last, from
      <4> QED
        BY <4>1, <4>2
    <3> QED
      BY <3>4, <3>5
  <2> QED
    BY <2>1, <2>3 DEF ReadInv, ChunksDoNotMatter
<1> QED
  BY <1>1, ReadInvariance, PTL

-----------------------------------------------------------------------------
(***************************************************************************)
(* The bytes implement Inbox.                                              *)
(***************************************************************************)

\* Numbers moved by p are as many.
LEMMA Moved ==
  ASSUME NEW A \in SUBSET Nat, IsFiniteSet(A), NEW p \in Nat
  PROVE  /\ IsFiniteSet({x + p : x \in A})
         /\ Cardinality({x + p : x \in A}) = Cardinality(A)
<1> DEFINE B == {x + p : x \in A}
           f == [x \in A |-> x + p]
<1>1. f \in Injection(A, B)
  <2>1. f \in [A -> B] /\ \A x \in A : f[x] = x + p
    OBVIOUS
  <2>2. ASSUME NEW x \in A, NEW y \in A, x + p = y + p PROVE x = y
    <3>1. x \in Nat /\ y \in Nat
      OBVIOUS
    <3> QED
      BY <2>2, <3>1
  <2> HIDE DEF f, B
  <2>3. \A x, y \in A : f[x] = f[y] => x = y
    BY <2>1, <2>2
  <2> QED
    BY <2>1, <2>3 DEF Injection, IsInjective
<1>2. f \in Surjection(A, B)
  BY DEF Surjection
<1>3. f \in Bijection(A, B)
  BY <1>1, <1>2 DEF Bijection
<1>4. ExistsBijection(A, B)
  BY <1>3 DEF ExistsBijection
<1> HIDE DEF B
<1>5. IsFiniteSet(B) /\ Cardinality(B) = Cardinality(A)
  BY <1>4, FS_Bijection
<1> QED
  BY <1>5 DEF B

\* t is what remains of s without its first p elements.
Without(t, s, p) ==
  /\ Len(s) = Len(t) + p
  /\ \A k \in 1..Len(t) : t[k] = s[k + p]

\* A slice of t is the slice of s that lies p elements further.
SameSlices(t, s, p) ==
  \A b \in Nat \ {0}, e \in Int :
    e <= Len(t) => SubSeq(t, b, e) = SubSeq(s, b + p, e + p)

\* A slice of what remains is a slice of the whole.
LEMMA SliceShift ==
  ASSUME NEW X, NEW s \in Seq(X), NEW t \in Seq(X), NEW p \in Nat,
         Without(t, s, p)
  PROVE  SameSlices(t, s, p)
<1> SUFFICES ASSUME NEW b \in Nat \ {0}, NEW e \in Int, e <= Len(t)
             PROVE  SubSeq(t, b, e) = SubSeq(s, b + p, e + p)
  BY DEF SameSlices
<1> DEFINE v == SubSeq(t, b, e)
           w == SubSeq(s, b + p, e + p)
<1>1. Len(t) \in Nat /\ Len(s) = Len(t) + p /\ \A k \in 1..Len(t) : t[k] = s[k + p]
  BY DEF Without
<1>2. b + p \in Nat \ {0}
  OBVIOUS
<1>3. e + p \in Int /\ e + p <= Len(s)
  BY <1>1
<1>4. (e + p) - (b + p) + 1 = e - b + 1 /\ (b + p <= e + p <=> b <= e)
  OBVIOUS
<1>5. /\ v \in Seq(X) /\ Len(v) = (IF b <= e THEN e - b + 1 ELSE 0)
      /\ \A k \in 1..(e - b + 1) : v[k] = t[b + k - 1]
  BY SliceProperties
<1>6. /\ w \in Seq(X)
      /\ Len(w) = (IF b + p <= e + p THEN (e + p) - (b + p) + 1 ELSE 0)
      /\ \A k \in 1..((e + p) - (b + p) + 1) : w[k] = s[(b + p) + k - 1]
  BY <1>2, <1>3, SliceProperties
<1> HIDE DEF v, w
<1>7. Len(w) = Len(v) /\ \A k \in 1..(e - b + 1) : w[k] = s[(b + p) + k - 1]
  BY <1>4, <1>5, <1>6
<1>8. ASSUME NEW k \in 1..Len(v) PROVE v[k] = w[k]
  <2>1. k \in 1..(e - b + 1)
    BY <1>5
  <2>2. b + k - 1 \in 1..Len(t)
    BY <1>1, <2>1
  <2>3. (b + k - 1) + p = (b + p) + k - 1
    BY <2>1
  <2>4. t[b + k - 1] = s[(b + k - 1) + p]
    BY <1>1, <2>2
  <2> QED
    BY <1>5, <1>7, <2>1, <2>3, <2>4
<1>9. v = w
  BY <1>5, <1>6, <1>7, <1>8, SeqEqual
<1> QED
  BY <1>9 DEF v, w

\* Behind the first line feed the lines are the others.
LEMMA LaterLines ==
  ASSUME NEW X, NEW s \in Seq(X), NEW p, Len(LineEnds(s)) # 0, p = LineEnds(s)[1]
  PROVE  /\ Len(LineEnds(from(s, p + 1))) = Len(LineEnds(s)) - 1
         /\ \A m \in 1..(Len(LineEnds(s)) - 1) :
              Line(from(s, p + 1), m) = Line(s, m + 1)
<1> DEFINE t == from(s, p + 1)
           E == Ends(s)
           F == Ends(t)
<1>1. Len(s) \in Nat /\ Len(LineEnds(s)) \in Nat \ {0} /\ 1 \in 1..Len(LineEnds(s))
  BY EndsFacts
<1>2. p \in E /\ p \in 1..Len(s) /\ Cardinality(Below(E, p)) = 0 /\ IsFiniteSet(E)
      /\ E \in SUBSET Nat /\ E \subseteq 1..Len(s)
  <2>1. Cardinality(Below(E, p)) = 1 - 1
    BY <1>1, EndsFacts
  <2> QED
    BY <1>1, <2>1, EndsFacts
<1>3. Below(E, p) = {}
  BY <1>2, BelowProperties, FS_EmptySet
<1>4. \A k \in E : k = p \/ k > p
  BY <1>2, <1>3 DEF Below
<1>5. /\ t \in Seq(X) /\ Len(t) = Len(s) - p
      /\ \A k \in 1..(Len(s) - p) : t[k] = s[k + p]
  <2>1. p + 1 \in 1..(Len(s) + 1)
    BY <1>1, <1>2
  <2>2. /\ t \in Seq(X) /\ Len(t) = Len(s) - (p + 1) + 1
        /\ \A k \in 1..(Len(s) - (p + 1) + 1) : t[k] = s[(p + 1) + k - 1]
    BY <2>1, FromProperties
  <2> HIDE DEF t
  <2>3. Len(t) = Len(s) - p
    BY <1>1, <1>2, <2>2
  <2>4. \A k \in 1..(Len(s) - p) : t[k] = s[(p + 1) + k - 1]
    BY <2>2, <2>3
  <2>5. ASSUME NEW k \in 1..(Len(s) - p) PROVE (p + 1) + k - 1 = k + p
    BY <1>2
  <2> QED
    BY <2>2, <2>3, <2>4, <2>5
<1> HIDE DEF t
<1>6. F \in SUBSET Nat /\ F \subseteq 1..Len(t) /\ IsFiniteSet(F)
  BY <1>5, EndsFacts
<1>7. \A k \in 1..(Len(s) - p) : k \in F <=> k + p \in E
  <2> SUFFICES ASSUME NEW k \in 1..(Len(s) - p) PROVE k \in F <=> k + p \in E
    OBVIOUS
  <2>1. k + p \in 1..Len(s) /\ k \in 1..Len(t) /\ t[k] = s[k + p]
    BY <1>1, <1>2, <1>5
  <2>2. DOMAIN s = 1..Len(s) /\ DOMAIN t = 1..Len(t)
    BY <1>5
  <2> QED
    BY <2>1, <2>2 DEF Ends
<1> HIDE DEF E, F
<1>8. \A k \in F : k \in 1..(Len(s) - p) /\ k + p \in E
  BY <1>5, <1>6, <1>7
<1>9. \A j \in E : j # p => j - p \in F /\ (j - p) + p = j
  <2> SUFFICES ASSUME NEW j \in E, j # p PROVE j - p \in F /\ (j - p) + p = j
    OBVIOUS
  <2>1. j - p \in 1..(Len(s) - p) /\ (j - p) + p = j
    BY <1>1, <1>2, <1>4
  <2> QED
    BY <1>7, <2>1
<1>10. E \ {p} = {x + p : x \in F}
  <2>1. ASSUME NEW x \in F PROVE x + p \in E /\ x + p # p
    BY <1>2, <1>8
  <2> QED
    BY <1>9, <2>1
<1>11. Cardinality(E) = Cardinality(F) + 1
  <2>1. Cardinality(E \ {p}) = Cardinality(F)
    BY <1>2, <1>6, <1>10, Moved
  <2>2. Cardinality(E \ {p}) = Cardinality(E) - 1
    BY <1>2, FS_RemoveElement
  <2> QED
    BY <1>2, <2>1, <2>2, FS_CardinalityType
<1>12. Len(LineEnds(t)) = Len(LineEnds(s)) - 1
  <2>1. Cardinality(E) = Len(LineEnds(s)) /\ Cardinality(F) = Len(LineEnds(t))
        /\ Len(LineEnds(t)) \in Nat
    BY <1>5, EndsFacts DEF E, F
  <2> QED
    BY <1>1, <1>11, <2>1
<1>13. ASSUME NEW k \in F
       PROVE  Cardinality(Below(E, k + p)) = Cardinality(Below(F, k)) + 1
  <2>1. Below(F, k) \in SUBSET Nat /\ IsFiniteSet(Below(F, k))
    BY <1>6, BelowProperties DEF Below
  <2>2. k + p \in E /\ k \in Nat \ {0} /\ p \in Nat
    BY <1>2, <1>8
  <2>3. Below(E, k + p) \ {p} = {x + p : x \in Below(F, k)}
    <3>1. ASSUME NEW x \in Below(F, k) PROVE x + p \in Below(E, k + p) /\ x + p # p
      <4>1. x \in F /\ x < k
        BY DEF Below
      <4>2. x \in 1..(Len(s) - p) /\ x + p \in E
        BY <1>8, <4>1
      <4>3. x + p < k + p /\ x + p # p
        BY <2>2, <4>1, <4>2
      <4> QED
        BY <4>2, <4>3 DEF Below
    <3>2. ASSUME NEW j \in Below(E, k + p), j # p
          PROVE  j - p \in Below(F, k) /\ (j - p) + p = j
      <4>1. j \in E /\ j < k + p /\ j \in Nat
        BY <1>2 DEF Below
      <4>2. j - p \in F /\ (j - p) + p = j
        BY <1>9, <3>2, <4>1
      <4>3. j - p < k
        BY <2>2, <4>1
      <4> QED
        BY <4>2, <4>3 DEF Below
    <3> QED
      BY <3>1, <3>2
  <2>4. Cardinality(Below(E, k + p) \ {p}) = Cardinality(Below(F, k))
    BY <2>1, <2>2, <2>3, Moved
  <2>5. p \in Below(E, k + p) /\ IsFiniteSet(Below(E, k + p))
    <3>1. p < k + p
      BY <2>2
    <3> QED
      BY <1>2, <2>2, <3>1, BelowProperties DEF Below
  <2>6. Cardinality(Below(E, k + p) \ {p}) = Cardinality(Below(E, k + p)) - 1
    BY <2>5, FS_RemoveElement
  <2>7. Cardinality(Below(E, k + p)) \in Nat
    BY <2>5, FS_CardinalityType
  <2> QED
    BY <2>4, <2>6, <2>7
<1>14. ASSUME NEW m \in 1..Len(LineEnds(t))
       PROVE  /\ m + 1 \in 1..Len(LineEnds(s))
              /\ LineEnds(s)[m + 1] = LineEnds(t)[m] + p
  <2> DEFINE k == LineEnds(t)[m]
  <2>1. k \in F /\ Cardinality(Below(F, k)) = m - 1
    BY <1>5, EndsFacts DEF F
  <2> HIDE DEF k
  <2>2. k + p \in E /\ Cardinality(Below(E, k + p)) = m
    <3>1. Cardinality(Below(E, k + p)) = (m - 1) + 1
      BY <1>13, <2>1
    <3>2. (m - 1) + 1 = m
      BY <1>1, <1>12
    <3> QED
      BY <1>8, <2>1, <3>1, <3>2
  <2>3. m + 1 \in 1..Len(LineEnds(s)) /\ LineEnds(s)[m + 1] = k + p
    BY <2>2, EndsFacts DEF E
  <2> QED
    BY <2>3 DEF k
<1>15. ASSUME NEW m \in 1..Len(LineEnds(t))
       PROVE  Line(t, m) = Line(s, m + 1)
  <2> DEFINE b == Start(t, m - 1)
             e == LineEnds(t)[m]
  <2>1. /\ e \in 1..Len(t) /\ b \in 1..e
        /\ Line(t, m) = Chop(SubSeq(t, b, e - 1))
    BY <1>5, LineFacts
  <2>2. m \in Nat \ {0} /\ (m + 1) - 1 = m
    BY <1>1, <1>12
  <2>3. Start(s, m) = b + p
    <3>1. CASE m = 1
      BY <1>2, <3>1 DEF Start
    <3>2. CASE m # 1
      <4>1. m - 1 \in 1..Len(LineEnds(t)) /\ (m - 1) + 1 = m /\ m # 0 /\ m - 1 # 0
        BY <1>1, <1>12, <2>2, <3>2
      <4>2. LineEnds(s)[m] = LineEnds(t)[m - 1] + p
        BY <1>14, <4>1
      <4>3. LineEnds(t)[m - 1] \in Nat
        BY <1>5, <4>1, EndsFacts
      <4>4. (LineEnds(t)[m - 1] + p) + 1 = (LineEnds(t)[m - 1] + 1) + p
        BY <1>2, <4>3
      <4> QED
        BY <4>1, <4>2, <4>4 DEF Start
    <3> QED
      BY <3>1, <3>2
  <2>4. Line(s, m + 1) = Chop(SubSeq(s, b + p, (e + p) - 1))
    BY <1>14, <2>2, <2>3, LineFacts
  <2> HIDE DEF b, e
  <2>5. SubSeq(t, b, e - 1) = SubSeq(s, b + p, (e + p) - 1)
    <3>1. /\ b \in Nat \ {0} /\ e \in Nat /\ p \in Nat /\ Len(t) \in Nat /\ e <= Len(t)
      BY <1>1, <1>2, <1>5, <2>1
    <3>2. Len(s) = Len(t) + p
      BY <1>1, <1>2, <1>5
    <3>3. e - 1 \in Int /\ e - 1 <= Len(t) /\ (e - 1) + p = (e + p) - 1
      BY <3>1
    <3>4. \A k \in 1..Len(t) : t[k] = s[k + p]
      BY <1>5
    <3>5. SubSeq(t, b, e - 1) = SubSeq(s, b + p, (e - 1) + p)
      <4> DEFINE g == e - 1
      <4>1. g \in Int /\ g <= Len(t)
        BY <3>3
      <4> HIDE DEF g
      <4>2. t \in Seq(X) /\ s \in Seq(X)
        BY <1>5
      <4>3. p \in Nat /\ b \in Nat \ {0}
        BY <3>1
      <4>4. Without(t, s, p)
        BY <3>2, <3>4 DEF Without
      <4>5. SameSlices(t, s, p)
        BY <4>2, <4>3, <4>4, SliceShift
      <4>6. SubSeq(t, b, g) = SubSeq(s, b + p, g + p)
        BY <4>1, <4>3, <4>5 DEF SameSlices
      <4> QED
        BY <4>6 DEF g
    <3> QED
      BY <3>3, <3>5
  <2> QED
    BY <2>1, <2>4, <2>5
<1> QED
  BY <1>12, <1>15 DEF t

\* A command waits for each line feed in the buffer.
LEMMA PendingFacts ==
  ASSUME readBuffer \in Seq(BufferBytes)
  PROVE  /\ Pending \in Seq(Seq(LineBytes))
         /\ Len(Pending) = Len(LineEnds(readBuffer))
         /\ \A n \in 1..Len(LineEnds(readBuffer)) : Pending[n] = Line(readBuffer, n)
<1> DEFINE m == Len(LineEnds(readBuffer))
<1>1. m \in Nat /\ DOMAIN LineEnds(readBuffer) = 1..m
  BY EndsFacts
<1>2. Pending = [n \in 1..m |-> Line(readBuffer, n)]
  BY <1>1 DEF Pending
<1>3. \A n \in 1..m : Line(readBuffer, n) \in Seq(LineBytes)
  BY LineType
<1> HIDE DEF m
<1>4. Pending \in [1..m -> Seq(LineBytes)]
  BY <1>2, <1>3
<1>5. Pending \in Seq(Seq(LineBytes)) /\ Len(Pending) = m
  BY <1>1, <1>4, SeqDef, LenProperties
<1> QED
  BY <1>2, <1>5 DEF m

\* The same of the buffer that a step leaves.
LEMMA PendingNext ==
  ASSUME ReadInv'
  PROVE  /\ Pending' \in Seq(Seq(LineBytes))
         /\ Len(Pending') = Len(LineEnds(readBuffer'))
         /\ \A n \in 1..Len(LineEnds(readBuffer')) : Pending'[n] = Line(readBuffer', n)
<1>1. readBuffer' \in Seq(BufferBytes)
  BY DEF ReadInv
<1>2. (readBuffer \in Seq(BufferBytes) =>
         /\ Pending \in Seq(Seq(LineBytes))
         /\ Len(Pending) = Len(LineEnds(readBuffer))
         /\ \A n \in 1..Len(LineEnds(readBuffer)) : Pending[n] = Line(readBuffer, n))'
  BY PendingFacts, PTL
<1> QED
  BY <1>1, <1>2

\* Without a line feed in the buffer no command waits.
LEMMA NothingPending ==
  ASSUME ReadInv, ~hasCompleteCommand
  PROVE  Pending = <<>>
<1>1. /\ readBuffer \in Seq(BufferBytes)
      /\ \A k \in 1..Len(readBuffer) : readBuffer[k] # LF
  BY FindProperties DEF ReadInv, hasCompleteCommand
<1>2. 0 \in 0..Len(LineEnds(readBuffer))
  BY <1>1, EndsFacts
<1>3. Len(LineEnds(readBuffer)) = 0
  BY <1>1, <1>2, NoMoreEnds DEF Start
<1>4. Pending \in Seq(Seq(LineBytes)) /\ Len(Pending) = 0
  BY <1>1, <1>3, PendingFacts
<1> QED
  BY <1>4, EmptySeq

\* Extracting a command takes the first of those that wait.
LEMMA ExtractPending ==
  ASSUME ReadInv, ReadInv', extractCommandFromBuffer
  PROVE  Pending # <<>> /\ Pending' = Tail(Pending)
<1> DEFINE p == find(readBuffer, LF)
           m == Len(LineEnds(readBuffer))
<1>1. readBuffer \in Seq(BufferBytes) /\ Len(readBuffer) \in Nat /\ m \in Nat
  BY EndsFacts DEF ReadInv
<1>2. /\ p \in 1..Len(readBuffer) /\ readBuffer[p] = LF
      /\ \A k \in 1..(p - 1) : readBuffer[k] # LF
  BY <1>1, FindProperties DEF extractCommandFromBuffer, hasCompleteCommand
<1> HIDE DEF p
<1>3. 1 \in 1..m /\ LineEnds(readBuffer)[1] = p
  <2>1. p \in Ends(readBuffer) /\ 1 <= p /\ 0 \in 0..m /\ 0 + 1 = 1
    BY <1>1, <1>2 DEF Ends
  <2>2. 0 + 1 \in 1..m /\ LineEnds(readBuffer)[0 + 1] = p
    BY <1>1, <1>2, <2>1, NextEnd DEF Start
  <2> QED
    BY <2>1, <2>2
<1>4. readBuffer' = from(readBuffer, p + 1)
  BY DEF extractCommandFromBuffer, afterFirstCommand, p
<1>5. /\ Len(LineEnds(readBuffer')) = m - 1
      /\ \A k \in 1..(m - 1) : Line(readBuffer', k) = Line(readBuffer, k + 1)
  BY <1>1, <1>3, <1>4, LaterLines
<1>6. /\ Pending \in Seq(Seq(LineBytes)) /\ Len(Pending) = m
      /\ \A k \in 1..m : Pending[k] = Line(readBuffer, k)
  BY <1>1, PendingFacts
<1>7. /\ Pending' \in Seq(Seq(LineBytes)) /\ Len(Pending') = Len(LineEnds(readBuffer'))
      /\ \A k \in 1..Len(LineEnds(readBuffer')) : Pending'[k] = Line(readBuffer', k)
  BY PendingNext
<1> HIDE DEF m
<1>8. Pending # <<>>
  BY <1>3, <1>6, EmptySeq
<1>9. /\ Tail(Pending) \in Seq(Seq(LineBytes)) /\ Len(Tail(Pending)) = m - 1
      /\ \A k \in 1..(m - 1) : Tail(Pending)[k] = Pending[k + 1]
  BY <1>6, <1>8, HeadTailProperties
<1>10. ASSUME NEW k \in 1..Len(Pending') PROVE Pending'[k] = Tail(Pending)[k]
  <2>1. k \in 1..(m - 1) /\ k + 1 \in 1..m
    BY <1>5, <1>7, <1>1, <1>3 DEF m
  <2> QED
    BY <1>5, <1>6, <1>7, <1>9, <2>1
<1>11. Pending' = Tail(Pending)
  BY <1>5, <1>7, <1>9, <1>10, SeqEqual
<1> QED
  BY <1>8, <1>11

-----------------------------------------------------------------------------
\* The bytes keep the promise of Inbox: a chunk arrives only when no command
\* waits, and running a command takes the first and leaves the others as they
\* were (receiveData and Client::extractCommandFromBuffer).
THEOREM BytesKeepInbox == Spec => InboxSpec
<1>1. LineBytes = Bytes \ {LF, NUL}
  BY DEF LineBytes
<1>2. Init => Inbox!Init
  <2> SUFFICES ASSUME Init PROVE Pending = <<>>
    BY DEF Inbox!Init
  <2>1. ReadInv /\ ~hasCompleteCommand
    BY ReadInit DEF Init, ReadInv
  <2> QED
    BY <2>1, NothingPending
<1>3. ReadInv /\ ReadInv' /\ [Next]_vars => [Inbox!Next]_Pending
  <2> SUFFICES ASSUME ReadInv, ReadInv', [Next]_vars
               PROVE  Inbox!Next \/ Pending' = Pending
    OBVIOUS
  <2>1. ASSUME NEW chunk \in Chunks, recvData(chunk)
        PROVE  Inbox!Next
    <3>1. Pending = <<>>
      BY <2>1, NothingPending DEF recvData, ReadInv
    <3>2. Pending' \in Seq(Seq(LineBytes))
      BY PendingNext
    <3> QED
      BY <1>1, <3>1, <3>2 DEF Inbox!Next, Inbox!receiveData
  <2>2. CASE extractCommandFromBuffer
    BY <2>2, ExtractPending DEF Inbox!Next, Inbox!processCommand
  <2>3. CASE commandsDone \/ UNCHANGED vars
    <3>1. readBuffer' = readBuffer
      BY <2>3 DEF commandsDone, vars
    <3> QED
      BY <3>1 DEF Pending, LineEnds, Line
  <2> QED
    BY <2>1, <2>2, <2>3 DEF Next
<1> QED
  BY <1>2, <1>3, ReadInvariance, PTL DEF Spec, InboxSpec, Inbox!Spec
=============================================================================
