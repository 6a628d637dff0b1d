---------------------------- MODULE ConsoleProofs ----------------------------
(***************************************************************************)
(* Proofs about Console, for lines of any length and any set of commands:  *)
(* that a line is cut into its words, that a command is executed if and    *)
(* only if it was given what it takes, and that its request carries what   *)
(* was typed.                                                              *)
(*                                                                         *)
(* ArgIterator::Next has no memory but the view it cuts.  The invariant    *)
(* says where in the line that view begins (CutInv): at the end of a word, *)
(* with as many words before it as have been taken.                        *)
(***************************************************************************)
EXTENDS Console, FiniteSetTheorems, SequenceTheorems, WellFoundedInduction, TLAPS

(* The words that begin in the first p characters of the line; p is not in *)
(* the middle of one; how many have been taken.                            *)
StartsUpTo(p) == {j \in WordStarts : j <= p}
Boundary(p) == p = 0 \/ p = Len(line) \/ line[p + 1] \in Spaces

Parsed == place \in {"arguments", "executed"}
Taken == IF Parsed THEN Len(args) + 1 ELSE 0

(* The invariant.                                                          *)
PlaceInv ==
    /\ place \in {"read", "command", "arguments", "executed", "exit"}
    /\ line \in Seq(Character)
    /\ ~Parsed => command = <<>> /\ args = <<>>
    /\ place = "command" => view = line

CutInv ==
    \E p \in 0..Len(line) :
        /\ view = SubSeq(line, p + 1, Len(line))
        /\ Boundary(p)
        /\ Cardinality(StartsUpTo(p)) = Taken

ArgumentsInv ==
    Parsed =>
        /\ command \in CommandNames /\ command = Words[1]
        /\ args \in Seq(Nat \cup Seq(Character))
        /\ Len(args) <= Len(CommandSet[command])
        /\ \A n \in DOMAIN args :
              /\ args[n] = Meant(CommandSet[command][n], Words[n + 1])
              /\ CommandSet[command][n] = "string" => args[n] \in Seq(Character)
              /\ CommandSet[command][n] = "port" =>
                    \A i \in DOMAIN Words[n + 1] : Words[n + 1][i] \in DOMAIN Digit

SentInv ==
    /\ sent = IF place = "executed" THEN OnTheWire(Request) ELSE Nothing
    /\ place = "executed" => Len(args) = Len(CommandSet[command])

ConsoleInv == PlaceInv /\ CutInv /\ ArgumentsInv /\ SentInv

-----------------------------------------------------------------------------
(* A set of natural numbers has a least one.                               *)
LEMMA LeastNat ==
    ASSUME NEW T \in SUBSET Nat, T # {}
    PROVE  \E n \in T : \A m \in T : n <= m
<1> DEFINE R == OpToRel(<, Nat)
<1>1. IsWellFoundedOn(R, Nat)
  BY NatLessThanWellFounded
<1>2. \A m, n \in Nat : m < n => <<m, n>> \in R
  BY DEF OpToRel
<1> HIDE DEF R
<1>3. PICK n \in T : \A m \in T : ~ (<<m, n>> \in R)
  BY <1>1, WFMin
<1>4. \A m \in T : ~(m < n)
  BY <1>2, <1>3
<1> QED
  BY <1>4

(* Induction over the natural numbers, for a set.                          *)
LEMMA NatSetInduction ==
    ASSUME NEW T, 0 \in T, \A n \in Nat : n \in T => n + 1 \in T
    PROVE  \A n \in Nat : n \in T
<1> DEFINE Rest0 == Nat \ T
<1> SUFFICES ASSUME Rest0 # {} PROVE FALSE
  OBVIOUS
<1>1. Rest0 \in SUBSET Nat /\ \A n \in Nat : n \in Rest0 <=> n \notin T
  OBVIOUS
<1> HIDE DEF Rest0
<1>2. PICK n \in Rest0 : \A m \in Rest0 : n <= m
  BY <1>1, LeastNat
<1>3. n \in Nat /\ n # 0 /\ n - 1 \in Nat
  BY <1>1
<1>4. n - 1 \in T
  BY <1>1, <1>2, <1>3
<1> QED
  BY <1>1, <1>3, <1>4

(* The loops of ArgIterator::Next stop at the first of the places they     *)
(* look for, or behind the last character.                                 *)
LEMMA FirstAtLemma ==
    ASSUME NEW s, Len(s) \in Nat, NEW from \in 1..(Len(s) + 1), NEW places
    PROVE  /\ FirstAt(s, from, places) \in from..(Len(s) + 1)
           /\ FirstAt(s, from, places) <= Len(s) => FirstAt(s, from, places) \in places
           /\ \A j \in from..(FirstAt(s, from, places) - 1) : j \notin places
<1> DEFINE T == {i \in from..(Len(s) + 1) : i <= Len(s) => i \in places}
           Is(i) == /\ i <= Len(s) => i \in places
                    /\ \A j \in from..(i - 1) : j \notin places
<1>1. T \in SUBSET Nat /\ T # {}
  <2>1. T \in SUBSET Nat
    OBVIOUS
  <2>2. Len(s) + 1 \in T
    OBVIOUS
  <2> QED
    BY <2>1, <2>2
<1>2. PICK n \in T : \A m \in T : n <= m
  <2> HIDE DEF T
  <2> QED
    BY <1>1, LeastNat
<1>3. n \in from..(Len(s) + 1) /\ (n <= Len(s) => n \in places)
  OBVIOUS
<1>4. \A j \in from..(n - 1) : j \notin places
  <2> SUFFICES ASSUME NEW j \in from..(n - 1), j \in places PROVE FALSE
    OBVIOUS
  <2>1. j \in T /\ j < n
    BY <1>3
  <2> QED
    BY <1>2, <1>3, <2>1
<1>5. \E i \in from..(Len(s) + 1) : Is(i)
  BY <1>3, <1>4
<1>6. FirstAt(s, from, places) = CHOOSE i \in from..(Len(s) + 1) : Is(i)
  BY DEF FirstAt
<1> HIDE DEF Is
<1>7. FirstAt(s, from, places) \in from..(Len(s) + 1) /\ Is(FirstAt(s, from, places))
  BY <1>5, <1>6
<1> QED
  BY <1>7 DEF Is

(* What from_chars has after each of n digits.                             *)
Adds(v, D, n) ==
    /\ v \in [0..n -> Nat]
    /\ v[0] = 0
    /\ \A i \in 1..n : v[i] = 10 * v[i - 1] + D[i]

LEMMA AddsLemma ==
    ASSUME NEW L \in Nat, NEW D \in [1..L -> Nat]
    PROVE  \E v : Adds(v, D, L)
<1> DEFINE T == {n \in Nat : n <= L => \E v : Adds(v, D, n)}
<1>1. 0 \in T
  <2>1. Adds([i \in 0..0 |-> 0], D, 0)
    BY DEF Adds
  <2> QED
    BY <2>1
<1>2. ASSUME NEW n \in Nat, n \in T PROVE n + 1 \in T
  <2> SUFFICES ASSUME n + 1 <= L PROVE \E v : Adds(v, D, n + 1)
    OBVIOUS
  <2>1. PICK v : Adds(v, D, n)
    BY <1>2
  <2> DEFINE w == [i \in 0..(n + 1) |-> IF i = n + 1 THEN 10 * v[n] + D[n + 1] ELSE v[i]]
  <2>2. v[n] \in Nat /\ D[n + 1] \in Nat /\ \A i \in 0..n : v[i] \in Nat
    BY <2>1 DEF Adds
  <2>3. w \in [0..(n + 1) -> Nat] /\ w[0] = 0
    BY <2>1, <2>2 DEF Adds
  <2>4. ASSUME NEW i \in 1..(n + 1) PROVE w[i] = 10 * w[i - 1] + D[i]
    <3>1. w[i - 1] = v[i - 1]
      OBVIOUS
    <3>2. CASE i = n + 1
      BY <3>1, <3>2
    <3>3. CASE i # n + 1
      <4>1. i \in 1..n /\ w[i] = v[i]
        BY <3>3
      <4> QED
        BY <2>1, <3>1, <4>1 DEF Adds
    <3> QED
      BY <3>2, <3>3
  <2>5. Adds(w, D, n + 1)
    <3> HIDE DEF w
    <3> QED
      BY <2>3, <2>4 DEF Adds
  <2> QED
    BY <2>5
<1>3. L \in T
  <2> HIDE DEF T
  <2> QED
    BY <1>1, <1>2, NatSetInduction
<1> QED
  BY <1>3

(* The number that digits write is a natural number.                       *)
LEMMA ValueLemma ==
    ASSUME NEW digits \in Seq(DOMAIN Digit)
    PROVE  Value(digits) \in Nat
<1> DEFINE L == Len(digits)
           D == [i \in 1..L |-> Digit[digits[i]]]
<1>1. L \in Nat /\ D \in [1..L -> Nat]
  <2>1. \A i \in 1..L : digits[i] \in DOMAIN Digit
    OBVIOUS
  <2>2. \A ch \in DOMAIN Digit : Digit[ch] \in 0..9
    BY ConsoleAssumption
  <2>3. \A i \in 1..L : Digit[digits[i]] \in Nat
    BY <2>1, <2>2
  <2> QED
    BY <2>3
<1>2. PICK v : Adds(v, D, L)
  <2> HIDE DEF D, L
  <2> QED
    BY <1>1, AddsLemma
<1> DEFINE Rec(f) == [n \in 0..L |-> IF n = 0 THEN 0 ELSE 10 * f[n - 1] + Digit[digits[n]]]
           value == CHOOSE f : f = Rec(f)
<1>3. v = Rec(v)
  <2>1. v \in [0..L -> Nat]
    BY <1>2 DEF Adds
  <2>2. \A n \in 0..L : v[n] = Rec(v)[n]
    BY <1>1, <1>2 DEF Adds
  <2> HIDE DEF L
  <2> QED
    BY <2>1, <2>2
<1>4. value = Rec(value)
  <2> HIDE DEF Rec
  <2> QED
    BY <1>3
<1>5. Value(digits) = value[L]
  BY DEF Value
<1> DEFINE Same == {n \in Nat : n <= L => value[n] = v[n]}
<1> HIDE DEF value
<1>6. 0 \in Same
  BY <1>1, <1>2, <1>4 DEF Adds
<1>7. ASSUME NEW n \in Nat, n \in Same PROVE n + 1 \in Same
  <2> SUFFICES ASSUME n + 1 <= L PROVE value[n + 1] = v[n + 1]
    OBVIOUS
  <2>1. value[n + 1] = 10 * value[n] + Digit[digits[n + 1]]
    BY <1>1, <1>4
  <2>2. v[n + 1] = 10 * v[n] + D[n + 1]
    BY <1>1, <1>2 DEF Adds
  <2> QED
    BY <1>1, <1>7, <2>1, <2>2
<1>8. L \in Same
  <2> HIDE DEF Same, L
  <2> QED
    BY <1>1, <1>6, <1>7, NatSetInduction
<1> QED
  BY <1>1, <1>2, <1>5, <1>8 DEF Adds

-----------------------------------------------------------------------------
(* Lines and their words.                                                  *)

(* The places where words begin are places of the line: there are          *)
(* finitely many.                                                          *)
LEMMA WordStartsLemma ==
    ASSUME line \in Seq(Character)
    PROVE  /\ WordStarts \subseteq 1..Len(line)
           /\ IsFiniteSet(WordStarts)
           /\ \A S \in SUBSET WordStarts : IsFiniteSet(S) /\ Cardinality(S) \in Nat
<1>1. WordStarts \subseteq 1..Len(line) /\ Len(line) \in Nat
  BY DEF WordStarts
<1>2. IsFiniteSet(WordStarts)
  <2>1. IsFiniteSet(1..Len(line))
    BY <1>1, FS_Interval
  <2> QED
    BY <1>1, <2>1, FS_Subset
<1> QED
  BY <1>1, <1>2, FS_Subset, FS_CardinalityType

(* A word is known by how many begin before it.                            *)
LEMMA StartOfLemma ==
    ASSUME line \in Seq(Character), NEW b \in WordStarts, NEW k \in Nat,
           Cardinality({j \in WordStarts : j < b}) = k
    PROVE  StartOf(k + 1) = b
<1>1. \A i, j \in WordStarts : i < j => Cardinality({h \in WordStarts : h < i})
                                       < Cardinality({h \in WordStarts : h < j})
  <2> SUFFICES ASSUME NEW i \in WordStarts, NEW j \in WordStarts, i < j
               PROVE  Cardinality({h \in WordStarts : h < i})
                      < Cardinality({h \in WordStarts : h < j})
    OBVIOUS
  <2> DEFINE I == {h \in WordStarts : h < i}
             J == {h \in WordStarts : h < j}
  <2>1. WordStarts \subseteq Nat
    BY WordStartsLemma
  <2>2. I \subseteq J /\ i \in J /\ i \notin I /\ J \subseteq WordStarts
    <3>1. i \in Nat /\ j \in Nat
      BY <2>1
    <3>2. \A h \in WordStarts : h < i => h < j
      BY <2>1, <3>1
    <3>3. I \subseteq J /\ J \subseteq WordStarts
      BY <3>2
    <3>4. i \in J
      OBVIOUS
    <3>5. i \notin I
      BY <3>1
    <3> QED
      BY <3>3, <3>4, <3>5
  <2> HIDE DEF I, J
  <2>3. IsFiniteSet(J) /\ Cardinality(J) \in Nat /\ Cardinality(I) \in Nat
    BY <2>2, WordStartsLemma
  <2>4. Cardinality(I) <= Cardinality(J) /\ Cardinality(I) # Cardinality(J)
    BY <2>2, <2>3, FS_Subset
  <2>5. Cardinality(I) < Cardinality(J)
    BY <2>3, <2>4
  <2> QED
    BY <2>5 DEF I, J
<1>2. \A i \in WordStarts : Cardinality({j \in WordStarts : j < i}) = k => i = b
  <2> SUFFICES ASSUME NEW i \in WordStarts, Cardinality({j \in WordStarts : j < i}) = k, i # b
               PROVE  FALSE
    OBVIOUS
  <2>1. i \in Nat /\ b \in Nat
    BY WordStartsLemma
  <2>2. i < b \/ b < i
    BY <2>1
  <2> QED
    BY <1>1, <2>2
<1>3. (k + 1) - 1 = k
  OBVIOUS
<1> DEFINE P(i) == Cardinality({j \in WordStarts : j < i}) = k
<1>4. StartOf(k + 1) = CHOOSE i \in WordStarts : P(i)
  BY <1>3 DEF StartOf
<1>5. P(b) /\ \A i \in WordStarts : P(i) => i = b
  BY <1>2
<1> HIDE DEF P
<1> QED
  BY <1>4, <1>5

(* A view of the line has the characters of the line.                      *)
LEMMA ViewLemma ==
    ASSUME line \in Seq(Character), NEW p \in 0..Len(line),
           view = SubSeq(line, p + 1, Len(line))
    PROVE  /\ view \in Seq(Character) /\ Len(view) = Len(line) - p /\ Len(view) \in Nat
           /\ \A i \in 1..Len(view) : view[i] = line[p + i]
           /\ \A i, j \in 1..Len(view) : SubSeq(view, i, j) = SubSeq(line, p + i, p + j)
           /\ \A i \in 1..(Len(view) + 1) :
                 SubSeq(view, i, Len(view)) = SubSeq(line, p + i, Len(line))
<1>1. view \in Seq(Character) /\ Len(view) = Len(line) - p /\ Len(view) \in Nat
      /\ \A i \in 1..Len(view) : view[i] = line[p + i]
  OBVIOUS
<1>2. ASSUME NEW i \in 1..(Len(view) + 1), NEW j \in 0..Len(view)
      PROVE  SubSeq(view, i, j) = SubSeq(line, p + i, p + j)
  <2>1. SubSeq(view, i, j) = [h \in 1..(j - i + 1) |-> view[h + i - 1]]
    BY <1>1
  <2>2. SubSeq(line, p + i, p + j) = [h \in 1..((p + j) - (p + i) + 1) |-> line[h + (p + i) - 1]]
    OBVIOUS
  <2>3. (p + j) - (p + i) + 1 = j - i + 1
    BY <1>1
  <2>4. \A h \in 1..(j - i + 1) : view[h + i - 1] = line[h + (p + i) - 1]
    <3> SUFFICES ASSUME NEW h \in 1..(j - i + 1) PROVE view[h + i - 1] = line[h + (p + i) - 1]
      OBVIOUS
    <3>1. h + i - 1 \in 1..Len(view) /\ p + (h + i - 1) = h + (p + i) - 1
      BY <1>1
    <3> QED
      BY <1>1, <3>1
  <2> QED
    BY <2>1, <2>2, <2>3, <2>4
<1>3. p + Len(view) = Len(line)
  BY <1>1
<1>4. \A i \in 1..(Len(view) + 1) : SubSeq(view, i, Len(view)) = SubSeq(line, p + i, Len(line))
  BY <1>1, <1>2, <1>3
<1> QED
  BY <1>1, <1>2, <1>4

(* What Next returns is the next word of the line, and it leaves the view  *)
(* at the end of that word; or there is no next word.                      *)
LEMMA NextLemma ==
    ASSUME line \in Seq(Character), NEW p \in 0..Len(line),
           view = SubSeq(line, p + 1, Len(line)), Boundary(p)
    PROVE  \/ Word = <<>> /\ StartsUpTo(p) = WordStarts
           \/ \E b \in WordStarts, e \in 1..Len(line) :
                 /\ Word # <<>> /\ Word = WordFrom(b) /\ Word \in Seq(Character)
                 /\ Rest = SubSeq(line, e + 1, Len(line))
                 /\ Boundary(e)
                 /\ {j \in WordStarts : j < b} = StartsUpTo(p)
                 /\ StartsUpTo(e) = StartsUpTo(p) \cup {b} /\ b \notin StartsUpTo(p)
<1> DEFINE V == Len(view)
           b == p + Begin
           e == p + End - 1
<1>1. /\ V = Len(line) - p /\ V \in Nat /\ Len(line) \in Nat
      /\ \A i \in 1..V : view[i] = line[p + i]
  BY ViewLemma
<1>0. V = Len(view)
  OBVIOUS
<1> HIDE DEF V
<1>2. /\ Begin \in 1..(V + 1)
      /\ Begin <= V => view[Begin] \notin Spaces
      /\ \A j \in 1..(Begin - 1) : view[j] \in Spaces
  <2>1. 1 \in 1..(Len(view) + 1) /\ Len(view) \in Nat
    BY <1>0, <1>1
  <2> DEFINE P == (1..Len(view)) \ SpacesIn(view)
  <2>2. \A j \in 1..V : j \in P <=> view[j] \notin Spaces
    BY <1>0 DEF SpacesIn
  <2>3. Begin = FirstAt(view, 1, P)
    BY DEF Begin
  <2> HIDE DEF P
  <2>4. /\ Begin \in 1..(V + 1)
        /\ Begin <= V => Begin \in P
        /\ \A j \in 1..(Begin - 1) : j \notin P
    BY <1>0, <2>1, <2>3, FirstAtLemma
  <2>5. Begin <= V => view[Begin] \notin Spaces
    BY <1>1, <2>2, <2>4
  <2>6. \A j \in 1..(Begin - 1) : view[j] \in Spaces
    <3> SUFFICES ASSUME NEW j \in 1..(Begin - 1) PROVE view[j] \in Spaces
      OBVIOUS
    <3>1. j \in 1..V
      BY <1>1, <2>4
    <3> QED
      BY <2>2, <2>4, <3>1
  <2> QED
    BY <2>4, <2>5, <2>6
<1>3. /\ End \in Begin..(V + 1)
      /\ End <= V => view[End] \in Spaces
      /\ \A j \in Begin..(End - 1) : view[j] \notin Spaces
  <2>1. \A j \in 1..V : j \in SpacesIn(view) <=> view[j] \in Spaces
    BY <1>0 DEF SpacesIn
  <2>2. /\ End \in Begin..(V + 1)
        /\ End <= V => End \in SpacesIn(view)
        /\ \A j \in Begin..(End - 1) : j \notin SpacesIn(view)
    <3>1. Len(view) \in Nat /\ Begin \in 1..(Len(view) + 1)
      BY <1>0, <1>1, <1>2
    <3> QED
      BY <1>0, <3>1, FirstAtLemma DEF End
  <2>3. End <= V => view[End] \in Spaces
    BY <1>1, <1>2, <2>1, <2>2
  <2>4. \A j \in Begin..(End - 1) : view[j] \notin Spaces
    BY <1>1, <1>2, <2>1, <2>2
  <2> QED
    BY <2>2, <2>3, <2>4
<1>4. \A j \in (p + 1)..(b - 1) : line[j] \in Spaces
  <2> SUFFICES ASSUME NEW j \in (p + 1)..(b - 1) PROVE line[j] \in Spaces
    OBVIOUS
  <2>1. j - p \in 1..(Begin - 1) /\ j - p \in 1..V /\ p + (j - p) = j
    BY <1>1, <1>2
  <2> QED
    BY <1>1, <1>2, <2>1
<1>5. CASE Begin > V
  <2>1. Begin = V + 1 /\ End = V + 1
    <3>1. V \in Nat /\ Begin \in 1..(V + 1) /\ End \in Begin..(V + 1)
      BY <1>1, <1>2, <1>3
    <3> QED
      BY <1>5, <3>1
  <2>2. Word = <<>>
    BY <1>0, <1>1, <2>1, ViewLemma DEF Word
  <2>3. \A j \in WordStarts : j <= p
    <3> SUFFICES ASSUME NEW j \in WordStarts, j > p PROVE FALSE
      BY <1>1, WordStartsLemma
    <3>1. j \in (p + 1)..(b - 1) /\ line[j] \notin Spaces
      BY <1>1, <2>1 DEF WordStarts
    <3> QED
      BY <1>4, <3>1
  <2> QED
    BY <2>2, <2>3 DEF StartsUpTo
<1>6. CASE Begin <= V
  <2>1. Begin < End
    BY <1>1, <1>2, <1>3, <1>6
  <2>2. b \in (p + 1)..e /\ e \in 1..Len(line) /\ b \in 1..Len(line)
    <3>1. /\ V \in Nat /\ Begin \in 1..V /\ End \in (Begin + 1)..(V + 1)
          /\ p \in Nat /\ Len(line) \in Nat /\ V = Len(line) - p
      BY <1>1, <1>2, <1>3, <1>6, <2>1
    <3> QED
      BY <3>1
  <2>3. \A j \in b..e : line[j] \notin Spaces
    <3> SUFFICES ASSUME NEW j \in b..e PROVE line[j] \notin Spaces
      OBVIOUS
    <3>1. j - p \in Begin..(End - 1) /\ j - p \in 1..V /\ p + (j - p) = j
      BY <1>1, <1>2, <1>3
    <3> QED
      BY <1>1, <1>3, <3>1
  <2>4. e = Len(line) \/ line[e + 1] \in Spaces
    <3>1. CASE End = V + 1
      BY <1>1, <3>1
    <3>2. CASE End <= V
      <4>1. End \in 1..V /\ e + 1 = p + End
        BY <1>1, <1>2, <1>3, <3>2
      <4> QED
        BY <1>1, <1>3, <3>2, <4>1
    <3> QED
      BY <1>1, <1>3, <3>1, <3>2
  <2>5. b = 1 \/ line[b - 1] \in Spaces
    <3>1. CASE Begin = 1
      <4>1. b = p + 1 /\ p # Len(line)
        BY <1>1, <1>6, <3>1
      <4>2. line[b] \notin Spaces
        BY <2>2, <2>3
      <4> QED
        BY <4>1, <4>2 DEF Boundary
    <3>2. CASE Begin > 1
      <4>1. b - 1 \in (p + 1)..(b - 1)
        BY <1>1, <1>2, <3>2
      <4> QED
        BY <1>4, <4>1
    <3> QED
      BY <1>2, <3>1, <3>2
  <2> HIDE DEF b, e
  <2>6. b \in WordStarts
    BY <2>2, <2>3, <2>5 DEF WordStarts
  <2>7. WordFrom(b) = SubSeq(line, b, e)
    <3> DEFINE ends == {j \in b..Len(line) : (j = Len(line) \/ line[j + 1] \in Spaces)}
    <3>1. e \in ends
      BY <2>2, <2>4
    <3>2. \A j \in ends : e <= j
      <4> SUFFICES ASSUME NEW j \in ends, j < e PROVE FALSE
        BY <2>2
      <4>1. j + 1 \in b..e /\ j # Len(line)
        BY <2>2
      <4> QED
        BY <2>3, <4>1
    <3>3. \A j \in ends : j \in Nat
      BY <2>2
    <3>4. WordFrom(b) = SubSeq(line, b, CHOOSE j \in ends : \A k \in ends : j <= k)
      BY DEF WordFrom
    <3> HIDE DEF ends
    <3>5. \A j \in ends : (\A k \in ends : j <= k) => j = e
      BY <2>2, <3>1, <3>2, <3>3
    <3>6. (CHOOSE j \in ends : \A k \in ends : j <= k) = e
      BY <3>1, <3>2, <3>5
    <3> QED
      BY <3>4, <3>6
  <2>8. Word = SubSeq(line, b, e) /\ Rest = SubSeq(line, e + 1, Len(line))
    <3>1. Begin \in 1..V /\ End - 1 \in 1..V /\ End \in 1..(V + 1)
      BY <1>1, <1>2, <1>3, <1>6, <2>1
    <3>2. p + Begin = b /\ p + (End - 1) = e /\ p + End = e + 1
      BY <1>1, <1>2, <1>3 DEF b, e
    <3> QED
      BY <1>0, <3>1, <3>2, ViewLemma DEF Word, Rest
  <2>9. Word \in Seq(Character) /\ Len(Word) = e - b + 1 /\ Word # <<>>
    <3>1. SubSeq(line, b, e) \in Seq(Character) /\ Len(SubSeq(line, b, e)) = e - b + 1
      BY <1>1, <2>2
    <3>2. e - b + 1 > 0
      BY <1>1, <2>2
    <3>3. \A w \in Seq(Character) : Len(w) > 0 => w # <<>>
      OBVIOUS
    <3> QED
      BY <2>8, <3>1, <3>2, <3>3
  <2>10. Boundary(e)
    BY <2>4 DEF Boundary
  <2>11. \A j \in WordStarts : (j < b => j <= p) /\ (j <= e => j <= p \/ j = b)
    <3> SUFFICES ASSUME NEW j \in WordStarts, j > p, j # b, j <= e PROVE FALSE
      BY <1>1, <2>2, WordStartsLemma
    <3>1. j \in Nat /\ line[j] \notin Spaces /\ (j = 1 \/ line[j - 1] \in Spaces)
      BY DEF WordStarts
    <3>2. CASE j < b
      BY <1>1, <1>4, <2>2, <3>1, <3>2
    <3>3. CASE j > b
      <4>1. j - 1 \in b..e /\ j # 1
        BY <2>2, <3>1, <3>3
      <4> QED
        BY <2>3, <3>1, <4>1
    <3> QED
      BY <2>2, <3>1, <3>2, <3>3
  <2>12. {j \in WordStarts : j < b} = StartsUpTo(p)
    BY <1>1, <2>2, <2>11, WordStartsLemma DEF StartsUpTo
  <2>13. StartsUpTo(e) = StartsUpTo(p) \cup {b} /\ b \notin StartsUpTo(p)
    <3>1. \A j \in WordStarts : j \in Nat
      BY WordStartsLemma
    <3>2. \A j \in WordStarts : j <= e <=> j <= p \/ j = b
      BY <1>1, <2>2, <2>11, <3>1
    <3>3. ~(b <= p)
      BY <1>1, <2>2
    <3> QED
      BY <2>6, <3>2, <3>3 DEF StartsUpTo
  <2> QED
    BY <2>2, <2>6, <2>7, <2>8, <2>9, <2>10, <2>12, <2>13
<1>7. Begin > V \/ Begin <= V
  BY <1>1, <1>2
<1> HIDE DEF b, e
<1> QED
  BY <1>5, <1>6, <1>7

(* So the word taken after k others is word k + 1.                         *)
LEMMA NextWordLemma ==
    ASSUME line \in Seq(Character), NEW k \in Nat, NEW p \in 0..Len(line),
           view = SubSeq(line, p + 1, Len(line)), Boundary(p), Cardinality(StartsUpTo(p)) = k
    PROVE  /\ Word = <<>> => Len(Words) = k
           /\ Word # <<>> =>
                 /\ Word \in Seq(Character) /\ k + 1 <= Len(Words) /\ Words[k + 1] = Word
                 /\ \E e \in 0..Len(line) :
                       /\ Rest = SubSeq(line, e + 1, Len(line))
                       /\ Boundary(e)
                       /\ Cardinality(StartsUpTo(e)) = k + 1
<1>1. Cardinality(WordStarts) \in Nat /\ IsFiniteSet(WordStarts)
  BY WordStartsLemma
<1>2. Len(Words) = Cardinality(WordStarts)
      /\ \A n \in 1..Cardinality(WordStarts) : Words[n] = WordFrom(StartOf(n))
  BY <1>1 DEF Words
<1>3. CASE Word = <<>> /\ StartsUpTo(p) = WordStarts
  BY <1>2, <1>3
<1>4. ASSUME NEW b \in WordStarts, NEW e \in 1..Len(line),
             Word # <<>>, Word = WordFrom(b), Word \in Seq(Character),
             Rest = SubSeq(line, e + 1, Len(line)), Boundary(e),
             {j \in WordStarts : j < b} = StartsUpTo(p),
             StartsUpTo(e) = StartsUpTo(p) \cup {b}, b \notin StartsUpTo(p)
      PROVE  /\ Word \in Seq(Character) /\ k + 1 <= Len(Words) /\ Words[k + 1] = Word
             /\ \E q \in 0..Len(line) :
                   /\ Rest = SubSeq(line, q + 1, Len(line))
                   /\ Boundary(q)
                   /\ Cardinality(StartsUpTo(q)) = k + 1
  <2>1. StartsUpTo(p) \subseteq WordStarts /\ StartsUpTo(e) \subseteq WordStarts
    BY DEF StartsUpTo
  <2>2. IsFiniteSet(StartsUpTo(p))
    BY <2>1, WordStartsLemma
  <2>3. Cardinality(StartsUpTo(e)) = k + 1
    BY <1>4, <2>2, FS_AddElement
  <2>4. k + 1 <= Cardinality(WordStarts)
    BY <1>1, <2>1, <2>3, FS_Subset
  <2>5. StartOf(k + 1) = b
    BY <1>4, StartOfLemma
  <2>6. k + 1 <= Len(Words) /\ Words[k + 1] = Word
    BY <1>1, <1>2, <1>4, <2>4, <2>5
  <2>7. e \in 0..Len(line)
    OBVIOUS
  <2> QED
    BY <1>4, <2>3, <2>6, <2>7
<1>5. \/ Word = <<>> /\ StartsUpTo(p) = WordStarts
      \/ \E b \in WordStarts, e \in 1..Len(line) :
            /\ Word # <<>> /\ Word = WordFrom(b) /\ Word \in Seq(Character)
            /\ Rest = SubSeq(line, e + 1, Len(line))
            /\ Boundary(e)
            /\ {j \in WordStarts : j < b} = StartsUpTo(p)
            /\ StartsUpTo(e) = StartsUpTo(p) \cup {b} /\ b \notin StartsUpTo(p)
  BY NextLemma
<1> QED
  BY <1>3, <1>4, <1>5

(* from_chars takes the whole of a word if and only if all of it is        *)
(* digits, and then yields the number they write, or 0.                    *)
LEMMA NumberLemma ==
    ASSUME NEW word \in Seq(Character)
    PROVE  /\ IsNumber(word) <=> \A i \in DOMAIN word : word[i] \in DOMAIN Digit
           /\ IsNumber(word) => FromChars(word) = Meant("port", word) /\ FromChars(word) \in Nat
<1> DEFINE stop == FirstAt(word, 1, NoDigits(word))
<1>1. Len(word) \in Nat /\ 1 \in 1..(Len(word) + 1) /\ DOMAIN word = 1..Len(word)
  OBVIOUS
<1>2. \A i \in 1..Len(word) : i \in NoDigits(word) <=> word[i] \notin DOMAIN Digit
  BY DEF NoDigits
<1>3. /\ stop \in 1..(Len(word) + 1)
      /\ stop <= Len(word) => stop \in NoDigits(word)
      /\ \A j \in 1..(stop - 1) : j \notin NoDigits(word)
  BY <1>1, FirstAtLemma
<1>4. Digits(word) = SubSeq(word, 1, stop - 1)
  BY DEF Digits
<1> HIDE DEF stop
<1>5. CASE stop = Len(word) + 1
  <2>1. Digits(word) = word
    BY <1>1, <1>4, <1>5
  <2>2. \A i \in 1..Len(word) : word[i] \in DOMAIN Digit
    BY <1>1, <1>2, <1>3, <1>5
  <2>3. word \in Seq(DOMAIN Digit)
    BY <1>1, <2>2
  <2>4. Value(word) \in Nat
    BY <2>3, ValueLemma
  <2>5. FromChars(word) = Meant("port", word) /\ FromChars(word) \in Nat
    BY <2>1, <2>4, ConsoleAssumption DEF FromChars, Meant
  <2> QED
    BY <1>1, <2>1, <2>2, <2>5 DEF IsNumber
<1>6. CASE stop <= Len(word)
  <2>1. Len(Digits(word)) = stop - 1
    BY <1>1, <1>3, <1>4, <1>6
  <2>2. Digits(word) # word
    BY <1>1, <1>3, <1>6, <2>1
  <2>3. stop \in 1..Len(word) /\ word[stop] \notin DOMAIN Digit
    BY <1>1, <1>2, <1>3, <1>6
  <2> QED
    BY <1>1, <2>2, <2>3 DEF IsNumber
<1> QED
  BY <1>1, <1>3, <1>5, <1>6

-----------------------------------------------------------------------------
(* The steps.                                                              *)

(* Before the first word nothing has been taken.                           *)
LEMMA FreshCut ==
    ASSUME line' \in Seq(Character), view' = line', ~Parsed'
    PROVE  CutInv'
<1>1. 0 \in 0..Len(line') /\ view' = SubSeq(line', 0 + 1, Len(line'))
  OBVIOUS
<1>2. StartsUpTo(0)' = {}
  BY DEF StartsUpTo, WordStarts
<1>3. Cardinality(StartsUpTo(0)') = 0
  BY <1>2, FS_EmptySet
<1>4. Taken' = 0 /\ Boundary(0)'
  BY DEF Taken, Boundary
<1> QED
  BY <1>1, <1>3, <1>4 DEF CutInv

(* HandleCommand returns: the loop of main will read another line.         *)
LEMMA ReturnStep == ASSUME Return PROVE ConsoleInv'
<1>1. line' \in Seq(Character) /\ view' = line' /\ ~Parsed' /\ place' = "read"
      /\ command' = <<>> /\ args' = <<>> /\ sent' = Nothing
  BY DEF Return, Goto, Parsed
<1>2. CutInv'
  BY <1>1, FreshCut
<1>3. Nothing' = Nothing
  BY DEF Nothing, Bare, Complete, Build, UInt16
<1> QED
  BY <1>1, <1>2, <1>3 DEF ConsoleInv, PlaceInv, ArgumentsInv, SentInv

(* A line is read, and none of it taken.                                   *)
LEMMA ReadLineStep == ASSUME ConsoleInv, ReadLine PROVE ConsoleInv'
<1>1. line' \in Seq(Character) /\ view' = line' /\ ~Parsed' /\ place' = "command"
      /\ place = "read" /\ UNCHANGED <<command, args, sent>>
  BY ConsoleAssumption DEF ReadLine, Goto, Parsed
<1>2. CutInv'
  BY <1>1, FreshCut
<1>3. Nothing' = Nothing
  BY DEF Nothing, Bare, Complete, Build, UInt16
<1> QED
  BY <1>1, <1>2, <1>3 DEF ConsoleInv, PlaceInv, Parsed, ArgumentsInv, SentInv

(* exit and quit leave the rest of the line alone.                         *)
LEMMA ExitStep == ASSUME ConsoleInv, Exit PROVE ConsoleInv'
<1>1. place = "command" /\ place' = "exit" /\ UNCHANGED <<line, view, command, args, sent>>
  BY DEF Exit, Goto
<1>2. Nothing' = Nothing
  BY DEF Nothing, Bare, Complete, Build, UInt16
<1>3. PlaceInv' /\ ArgumentsInv' /\ SentInv'
  BY <1>1, <1>2 DEF ConsoleInv, PlaceInv, Parsed, ArgumentsInv, SentInv
<1>4. view' = line' /\ line' \in Seq(Character) /\ ~Parsed'
  BY <1>1 DEF ConsoleInv, PlaceInv, Parsed
<1> QED
  BY <1>3, <1>4, FreshCut DEF ConsoleInv

(* The first word is taken, as the command.                                *)
LEMMA FindCommandStep == ASSUME ConsoleInv, FindCommand PROVE ConsoleInv'
<1>1. /\ place = "command" /\ place' = "arguments" /\ ~Parsed /\ Parsed'
      /\ Word # <<>> /\ command' = Word /\ Word \in CommandNames
      /\ view' = Rest /\ UNCHANGED <<line, args, sent>>
  BY DEF FindCommand, Goto, Parsed
<1>2. line \in Seq(Character) /\ args = <<>> /\ sent = Nothing
  BY <1>1 DEF ConsoleInv, PlaceInv, SentInv
<1>3. PICK p \in 0..Len(line) :
         view = SubSeq(line, p + 1, Len(line)) /\ Boundary(p) /\ Cardinality(StartsUpTo(p)) = 0
  BY <1>1 DEF ConsoleInv, CutInv, Taken
<1> PICK k \in Nat : k = 0
  OBVIOUS
<1>4. /\ Words[k + 1] = Word
      /\ \E e \in 0..Len(line) :
            Rest = SubSeq(line, e + 1, Len(line)) /\ Boundary(e) /\ Cardinality(StartsUpTo(e)) = k + 1
  <2>1. Cardinality(StartsUpTo(p)) = k
    BY <1>3
  <2> QED
    BY <1>1, <1>2, <1>3, <2>1, NextWordLemma
<1>5. PICK e \in 0..Len(line) :
         Rest = SubSeq(line, e + 1, Len(line)) /\ Boundary(e) /\ Cardinality(StartsUpTo(e)) = k + 1
  BY <1>4
<1>6. Taken' = 1 /\ Boundary(e)' /\ StartsUpTo(e)' = StartsUpTo(e) /\ Words' = Words
  BY <1>1, <1>2, <1>5
     DEF Taken, Boundary, StartsUpTo, WordStarts, Words, WordFrom, StartOf
<1>7. CutInv'
  BY <1>1, <1>5, <1>6 DEF CutInv
<1>8. PlaceInv'
  BY <1>1, <1>2 DEF PlaceInv, Parsed
<1>9. ArgumentsInv'
  <2>1. Len(CommandSet[Word]) \in Nat
    BY <1>1, ConsoleAssumption
  <2>2. args' \in Seq(Nat \cup Seq(Character)) /\ Len(args') = 0 /\ DOMAIN args' = {}
    BY <1>1, <1>2
  <2> QED
    BY <1>1, <1>4, <1>6, <2>1, <2>2 DEF ArgumentsInv
<1>10. SentInv'
  <2>1. Nothing' = Nothing
    BY DEF Nothing, Bare, Complete, Build, UInt16
  <2> QED
    BY <1>1, <1>2, <2>1 DEF SentInv
<1> QED
  BY <1>7, <1>8, <1>9, <1>10 DEF ConsoleInv

(* Where the words of the line stand while its arguments are parsed.       *)
LEMMA ParsingLemma ==
    ASSUME ConsoleInv, Parsing
    PROVE  /\ line \in Seq(Character) /\ command \in CommandNames
           /\ CommandSet[command] \in Seq({"string", "port"})
           /\ args \in Seq(Nat \cup Seq(Character)) /\ Len(args) \in Nat
           /\ Len(args) + 1 \in 1..Len(CommandSet[command]) /\ Kind \in {"string", "port"}
           /\ Word = <<>> => Len(Words) = Len(args) + 1
           /\ Word # <<>> =>
                 /\ Word \in Seq(Character) /\ Words[Len(args) + 2] = Word
                 /\ \E e \in 0..Len(line) :
                       /\ Rest = SubSeq(line, e + 1, Len(line))
                       /\ Boundary(e)
                       /\ Cardinality(StartsUpTo(e)) = Len(args) + 2
<1>1. Parsed /\ Taken = Len(args) + 1
  BY DEF Parsing, Parsed, Taken
<1>2. line \in Seq(Character) /\ command \in CommandNames
      /\ args \in Seq(Nat \cup Seq(Character)) /\ Len(args) \in Nat
  BY <1>1 DEF ConsoleInv, PlaceInv, ArgumentsInv
<1>3. CommandSet[command] \in Seq({"string", "port"})
  BY <1>2, ConsoleAssumption
<1>4. Len(args) + 1 \in 1..Len(CommandSet[command]) /\ Kind \in {"string", "port"}
  BY <1>2, <1>3 DEF Parsing, Kind
<1>5. PICK p \in 0..Len(line) :
         /\ view = SubSeq(line, p + 1, Len(line)) /\ Boundary(p)
         /\ Cardinality(StartsUpTo(p)) = Len(args) + 1
  BY <1>1 DEF ConsoleInv, CutInv
<1>6. Len(args) + 1 \in Nat /\ (Len(args) + 1) + 1 = Len(args) + 2
  BY <1>2
<1>7. /\ Word = <<>> => Len(Words) = Len(args) + 1
      /\ Word # <<>> =>
            /\ Word \in Seq(Character) /\ Words[(Len(args) + 1) + 1] = Word
            /\ \E e \in 0..Len(line) :
                  /\ Rest = SubSeq(line, e + 1, Len(line))
                  /\ Boundary(e)
                  /\ Cardinality(StartsUpTo(e)) = (Len(args) + 1) + 1
  BY <1>2, <1>5, <1>6, NextWordLemma
<1> QED
  BY <1>2, <1>3, <1>4, <1>6, <1>7

(* One more word is taken, as the argument it is meant to be.              *)
LEMMA ParseArgStep == ASSUME ConsoleInv, ParseArg PROVE ConsoleInv'
<1>1. /\ Parsing /\ Word # <<>> /\ view' = Rest
      /\ UNCHANGED <<place, line, command, sent>>
      /\ place = "arguments" /\ Parsed /\ Parsed'
  BY DEF ParseArg, Parsing, Parsed
<1> DEFINE n == Len(args) + 1
           kinds == CommandSet[command]
<1>2. /\ line \in Seq(Character) /\ command \in CommandNames
      /\ args \in Seq(Nat \cup Seq(Character)) /\ Len(args) \in Nat
      /\ n \in 1..Len(kinds) /\ kinds[n] \in {"string", "port"} /\ Kind = kinds[n]
      /\ Word \in Seq(Character) /\ Words[n + 1] = Word
  <2>1. n + 1 = Len(args) + 2
    BY <1>1, ParsingLemma
  <2> QED
    BY <1>1, <2>1, ParsingLemma DEF Kind
<1>3. PICK e \in 0..Len(line) :
         /\ Rest = SubSeq(line, e + 1, Len(line)) /\ Boundary(e)
         /\ Cardinality(StartsUpTo(e)) = n + 1
  <2>1. n + 1 = Len(args) + 2
    BY <1>2
  <2> QED
    BY <1>1, <2>1, ParsingLemma
<1>4. PICK x \in Nat \cup Seq(Character) :
         /\ args' = Append(args, x) /\ x = Meant(kinds[n], Words[n + 1])
         /\ kinds[n] = "string" => x \in Seq(Character)
         /\ kinds[n] = "port" => \A i \in DOMAIN Words[n + 1] : Words[n + 1][i] \in DOMAIN Digit
  <2>1. CASE Kind = "string" /\ args' = Append(args, Word)
    BY <1>2, <2>1 DEF Meant
  <2>2. CASE Kind = "port" /\ IsNumber(Word) /\ args' = Append(args, FromChars(Word))
    BY <1>2, <2>2, NumberLemma
  <2> QED
    BY <1>1, <2>1, <2>2 DEF ParseArg
<1>5. /\ args' \in Seq(Nat \cup Seq(Character)) /\ Len(args') = n /\ args'[n] = x
      /\ \A m \in DOMAIN args' : (m \in DOMAIN args /\ args'[m] = args[m]) \/ m = n
  BY <1>2, <1>4
<1>6. Taken' = n + 1 /\ Boundary(e)' /\ StartsUpTo(e)' = StartsUpTo(e) /\ Words' = Words
  BY <1>1, <1>3, <1>5
     DEF Taken, Boundary, StartsUpTo, WordStarts, Words, WordFrom, StartOf
<1>7. CutInv'
  BY <1>1, <1>3, <1>6 DEF CutInv
<1>8. PlaceInv'
  BY <1>1, <1>2 DEF PlaceInv, Parsed
<1>9. ArgumentsInv'
  <2>1. \A m \in DOMAIN args :
           /\ args[m] = Meant(kinds[m], Words[m + 1])
           /\ kinds[m] = "string" => args[m] \in Seq(Character)
           /\ kinds[m] = "port" => \A i \in DOMAIN Words[m + 1] : Words[m + 1][i] \in DOMAIN Digit
    BY <1>1 DEF ConsoleInv, ArgumentsInv
  <2>2. \A m \in DOMAIN args' :
           /\ args'[m] = Meant(kinds[m], Words[m + 1])
           /\ kinds[m] = "string" => args'[m] \in Seq(Character)
           /\ kinds[m] = "port" => \A i \in DOMAIN Words[m + 1] : Words[m + 1][i] \in DOMAIN Digit
    BY <1>4, <1>5, <2>1
  <2>3. \A m : Meant(kinds[m], Words[m + 1])' = Meant(kinds[m], Words[m + 1])
    BY <1>1, <1>6 DEF Meant, Value
  <2>4. command = Words[1]
    BY <1>1 DEF ConsoleInv, ArgumentsInv
  <2> QED
    BY <1>1, <1>2, <1>5, <1>6, <2>2, <2>3, <2>4 DEF ArgumentsInv, Meant
<1>10. SentInv'
  <2>1. Nothing' = Nothing
    BY DEF Nothing, Bare, Complete, Build, UInt16
  <2> QED
    BY <1>1, <2>1 DEF ConsoleInv, SentInv
<1> QED
  BY <1>7, <1>8, <1>9, <1>10 DEF ConsoleInv

(* The handler is called with all its arguments, and sends its request.    *)
LEMMA ExecuteStep == ASSUME ConsoleInv, Execute PROVE ConsoleInv'
<1>1. /\ place = "arguments" /\ place' = "executed" /\ Parsed /\ Parsed'
      /\ Len(args) = Len(CommandSet[command]) /\ sent' = OnTheWire(Request)
      /\ UNCHANGED <<line, view, command, args>>
  BY DEF Execute, Goto, Parsed
<1>2. Request' = Request /\ OnTheWire(Request)' = OnTheWire(Request)
  BY <1>1 DEF Request, After, OnTheWire
<1>3. PlaceInv'
  BY <1>1 DEF ConsoleInv, PlaceInv, Parsed
<1>4. CutInv'
  BY <1>1 DEF ConsoleInv, CutInv, Taken, Boundary, StartsUpTo, WordStarts
<1>5. Words' = Words
  BY <1>1 DEF WordStarts, Words, WordFrom, StartOf
<1>6. ArgumentsInv'
  BY <1>1, <1>5 DEF ConsoleInv, ArgumentsInv, Meant
<1>7. SentInv'
  BY <1>1, <1>2 DEF SentInv
<1> QED
  BY <1>3, <1>4, <1>6, <1>7 DEF ConsoleInv

(* Every step preserves the invariant.                                     *)
LEMMA ConsoleStep == ASSUME ConsoleInv, [ConsoleNext]_consoleVars PROVE ConsoleInv'
<1>1. CASE ReadLine
  BY <1>1, ReadLineStep
<1>2. CASE NoCommand \/ TooFewArguments \/ InvalidArgument \/ Executed
  BY <1>2, ReturnStep DEF NoCommand, TooFewArguments, InvalidArgument, Executed
<1>3. CASE Exit
  BY <1>3, ExitStep
<1>4. CASE FindCommand
  BY <1>4, FindCommandStep
<1>5. CASE ParseArg
  BY <1>5, ParseArgStep
<1>6. CASE Execute
  BY <1>6, ExecuteStep
<1>7. CASE UNCHANGED consoleVars
  <2>1. UNCHANGED <<place, line, view, command, args, sent>>
    BY <1>7 DEF consoleVars
  <2>2. Parsed' = Parsed /\ Taken' = Taken /\ Words' = Words
        /\ \A p : StartsUpTo(p)' = StartsUpTo(p) /\ Boundary(p)' = Boundary(p)
    BY <2>1 DEF Parsed, Taken, StartsUpTo, Boundary, WordStarts, Words, WordFrom, StartOf
  <2>3. PlaceInv'
    BY <2>1, <2>2 DEF ConsoleInv, PlaceInv
  <2>4. CutInv'
    BY <2>1, <2>2 DEF ConsoleInv, CutInv
  <2>5. ArgumentsInv'
    BY <2>1, <2>2 DEF ConsoleInv, ArgumentsInv, Meant
  <2>6. OnTheWire(Request)' = OnTheWire(Request) /\ Nothing' = Nothing
    BY <2>1 DEF Request, After, OnTheWire, Nothing, Bare, Complete, Build, UInt16
  <2>7. SentInv'
    BY <2>1, <2>6 DEF ConsoleInv, SentInv
  <2> QED
    BY <2>3, <2>4, <2>5, <2>7 DEF ConsoleInv
<1> QED
  BY <1>1, <1>2, <1>3, <1>4, <1>5, <1>6, <1>7 DEF ConsoleNext

(* At every step of the console its view stands at the end of a word of    *)
(* the line, with the command and the arguments it has before it, and the  *)
(* request that it sends is built from them.                               *)
THEOREM ConsoleInvariant == ConsoleSpec => []ConsoleInv
<1>1. ConsoleInit => ConsoleInv
  <2> SUFFICES ASSUME ConsoleInit PROVE ConsoleInv
    OBVIOUS
  <2>1. line = <<>> /\ view = <<>> /\ line \in Seq(Character) /\ ~Parsed
    BY DEF ConsoleInit, Parsed
  <2>2. 0 \in 0..Len(line) /\ view = SubSeq(line, 0 + 1, Len(line))
    BY <2>1
  <2>3. StartsUpTo(0) = {}
    BY <2>1 DEF StartsUpTo, WordStarts
  <2>4. Cardinality(StartsUpTo(0)) = 0
    BY <2>3, FS_EmptySet
  <2>5. CutInv
    BY <2>1, <2>2, <2>4 DEF CutInv, Taken, Boundary
  <2> QED
    BY <2>1, <2>5 DEF ConsoleInit, ConsoleInv, PlaceInv, ArgumentsInv, SentInv
<1> QED
  BY <1>1, ConsoleStep, PTL DEF ConsoleSpec

(* The handler found is that of the first word of the line, its arguments  *)
(* are the next words, in order, and a number that is no port is 0.        *)
THEOREM ConsoleParsesAsTyped == ConsoleSpec => []ParsedAsTyped
<1>1. ASSUME ConsoleInv PROVE ParsedAsTyped
  <2> SUFFICES ASSUME place \in {"arguments", "executed"}
               PROVE  /\ Len(args) < Len(Words)
                      /\ command = Words[1]
                      /\ \A n \in DOMAIN args :
                            args[n] = Meant(CommandSet[command][n], Words[n + 1])
    BY DEF ParsedAsTyped
  <2>1. Parsed /\ Taken = Len(args) + 1
    BY DEF Parsed, Taken
  <2>2. args \in Seq(Nat \cup Seq(Character)) /\ line \in Seq(Character)
    BY <1>1, <2>1 DEF ConsoleInv, PlaceInv, ArgumentsInv
  <2>3. PICK p \in 0..Len(line) : Cardinality(StartsUpTo(p)) = Len(args) + 1
    BY <1>1, <2>1 DEF ConsoleInv, CutInv
  <2>4. StartsUpTo(p) \subseteq WordStarts
    BY DEF StartsUpTo
  <2>5. Len(args) + 1 <= Cardinality(WordStarts) /\ Cardinality(WordStarts) \in Nat
    BY <2>2, <2>3, <2>4, WordStartsLemma, FS_Subset
  <2>6. Len(Words) = Cardinality(WordStarts)
    BY <2>5 DEF Words
  <2> QED
    BY <1>1, <2>1, <2>2, <2>5, <2>6 DEF ConsoleInv, ArgumentsInv
<1> QED
  BY <1>1, ConsoleInvariant, PTL

(* A command is executed if and only if the line has enough words, and a   *)
(* number wherever the command takes one.                                  *)
THEOREM ConsoleRefusesRightly == ConsoleSpec => RefusedRightly
<1> DEFINE kinds == CommandSet[command]
<1>1. ASSUME ConsoleInv, ParsedAsTyped, ConsoleNext, place = "arguments", place' = "executed"
      PROVE  Acceptable(kinds)
  <2>1. Len(args) = Len(kinds) /\ Parsed
    BY <1>1 DEF ConsoleNext, ReadLine, NoCommand, Exit, FindCommand, ParseArg, TooFewArguments,
                InvalidArgument, Execute, Executed, Return, Goto, Parsing, Parsed
  <2>2. command \in CommandNames /\ args \in Seq(Nat \cup Seq(Character))
    BY <1>1, <2>1 DEF ConsoleInv, ArgumentsInv
  <2>3. kinds \in Seq({"string", "port"})
    BY <2>2, ConsoleAssumption
  <2>4. DOMAIN kinds = DOMAIN args
    BY <2>1, <2>2, <2>3
  <2>5. Len(Words) > Len(kinds)
    <3>1. Len(args) < Len(Words) /\ Len(args) = Len(kinds)
      BY <1>1, <2>1 DEF ParsedAsTyped
    <3> QED
      BY <3>1
  <2> QED
    BY <1>1, <2>1, <2>4, <2>5 DEF ConsoleInv, ArgumentsInv, Acceptable
<1>2. ASSUME ConsoleInv, ConsoleNext, place = "arguments", place' = "read"
      PROVE  ~Acceptable(kinds)
  <2>1. TooFewArguments \/ InvalidArgument
    BY <1>2 DEF ConsoleNext, ReadLine, NoCommand, Exit, FindCommand, ParseArg, Execute, Executed,
                Goto
  <2>2. Parsing
    BY <2>1 DEF TooFewArguments, InvalidArgument
  <2>3. CASE Word = <<>>
    BY <1>2, <2>2, <2>3, ParsingLemma DEF Acceptable
  <2>4. CASE Word # <<>> /\ Kind = "port" /\ ~IsNumber(Word)
    <3>1. /\ Word \in Seq(Character) /\ Words[Len(args) + 2] = Word
          /\ Len(args) + 1 \in DOMAIN kinds /\ Len(args) \in Nat
      BY <1>2, <2>2, <2>4, ParsingLemma
    <3>2. PICK i \in DOMAIN Word : Word[i] \notin DOMAIN Digit
      BY <2>4, <3>1, NumberLemma
    <3>3. (Len(args) + 1) + 1 = Len(args) + 2 /\ kinds[Len(args) + 1] = "port"
      BY <2>4, <3>1 DEF Kind
    <3> QED
      BY <3>1, <3>2, <3>3 DEF Acceptable
  <2> QED
    BY <2>1, <2>3, <2>4 DEF TooFewArguments, InvalidArgument
<1>3. ConsoleInv /\ ParsedAsTyped /\ [ConsoleNext]_consoleVars
      => [place = "arguments" =>
            /\ place' = "executed" => Acceptable(CommandSet[command])
            /\ place' = "read" => ~Acceptable(CommandSet[command])]_consoleVars
  BY <1>1, <1>2
<1> QED
  BY <1>3, ConsoleInvariant, ConsoleParsesAsTyped, PTL DEF ConsoleSpec, RefusedRightly

-----------------------------------------------------------------------------
(* The request.                                                            *)

LEMMA UInt16Lemma ==
    ASSUME NEW n \in Nat
    PROVE  /\ UInt16(n) \in 0..(SizeLimit - 1) /\ UInt16(n) <= n
           /\ n < SizeLimit => UInt16(n) = n
<1>1. SizeLimit \in Nat /\ SizeLimit > 0
  BY PacketAssumption
<1>2. n % SizeLimit \in 0..(SizeLimit - 1)
  BY <1>1
<1>3. n < SizeLimit => n % SizeLimit = n
  BY <1>1
<1> QED
  BY <1>1, <1>2, <1>3 DEF UInt16

(* The packet that is sent announces what it carries, and carries all of   *)
(* it that has a size of 16 bits.                                          *)
LEMMA WireLemma ==
    ASSUME NEW S, NEW data \in Seq(S), NEW op
    PROVE  \E size \in 0..(SizeLimit - 1) :
              /\ OnTheWire(Complete([opcode |-> op, dataSize |-> 0, data |-> data]))
                 = [opcode |-> op, dataSize |-> size, data |-> SubSeq(data, 1, size)]
              /\ Len(data) < SizeLimit => size = Len(data) /\ SubSeq(data, 1, size) = data
<1> DEFINE size == UInt16(Len(data))
<1>1. Len(data) \in Nat /\ size \in 0..(SizeLimit - 1) /\ (Len(data) < SizeLimit => size = Len(data))
  BY UInt16Lemma
<1>2. SubSeq(data, 1, Len(data)) = data
  OBVIOUS
<1>3. OnTheWire(Complete([opcode |-> op, dataSize |-> 0, data |-> data]))
      = [opcode |-> op, dataSize |-> size, data |-> SubSeq(data, 1, size)]
  BY DEF OnTheWire, Complete
<1> HIDE DEF size
<1> QED
  BY <1>1, <1>2, <1>3

(* Every request is built in that way, of bytes and a number.              *)
Byte == Character \cup {NUL} \cup Nat
Holds(packet, op, data) ==
    data \in Seq(Byte) /\ packet = [opcode |-> op, dataSize |-> 0, data |-> data]

(* What was appended to `data' to make d, when it fits 16 bits.            *)
Extends(d, data, bytes, n) == n < SizeLimit => d = data \o SubSeq(bytes, 1, n)

LEMMA BuildLemma == ASSUME NEW op PROVE Holds(Build(op), op, <<>>)
BY DEF Holds, Build

LEMMA AppendBytesLemma ==
    ASSUME NEW packet, NEW op, NEW data, Holds(packet, op, data),
           NEW bytes \in Seq(Byte), NEW n \in Nat, n <= Len(bytes)
    PROVE  \E d : /\ Holds(AppendBytes(packet, bytes, n), op, d)
                  /\ Extends(d, data, bytes, n)
<1> DEFINE cut == SubSeq(bytes, 1, UInt16(n))
<1>1. cut \in Seq(Byte) /\ data \o cut \in Seq(Byte)
  <2>1. UInt16(n) \in Nat /\ UInt16(n) <= Len(bytes) /\ data \in Seq(Byte)
    BY UInt16Lemma, PacketAssumption DEF Holds
  <2> QED
    BY <2>1
<1>2. n < SizeLimit => cut = SubSeq(bytes, 1, n)
  BY UInt16Lemma
<1>3. AppendBytes(packet, bytes, n) = [opcode |-> op, dataSize |-> 0, data |-> data \o cut]
  <2>1. \A x : [packet EXCEPT !.data = x] = [opcode |-> op, dataSize |-> 0, data |-> x]
    BY DEF Holds
  <2>2. packet.data = data
    BY DEF Holds
  <2> QED
    BY <2>1, <2>2 DEF AppendBytes
<1> HIDE DEF cut
<1>4. Holds(AppendBytes(packet, bytes, n), op, data \o cut)
  BY <1>1, <1>3 DEF Holds
<1>5. Extends(data \o cut, data, bytes, n)
  BY <1>2 DEF Extends
<1> QED
  BY <1>4, <1>5

LEMMA AppendObjectLemma ==
    ASSUME NEW packet, NEW op, NEW data, Holds(packet, op, data), NEW object \in Byte
    PROVE  Holds(AppendObject(packet, object), op, Append(data, object))
<1>1. data \in Seq(Byte) /\ Append(data, object) \in Seq(Byte)
  BY DEF Holds
<1>2. packet.data = data
  BY DEF Holds
<1>3. \A x : [packet EXCEPT !.data = x] = [opcode |-> op, dataSize |-> 0, data |-> x]
  BY DEF Holds
<1>4. AppendObject(packet, object)
      = [opcode |-> op, dataSize |-> 0, data |-> Append(data, object)]
  BY <1>2, <1>3 DEF AppendObject
<1> QED
  BY <1>1, <1>4 DEF Holds

(* A packet on its way.                                                    *)
Carries(packet, op, data) ==
    /\ packet.opcode = op
    /\ packet.dataSize \in 0..(SizeLimit - 1)
    /\ Len(data) < SizeLimit => packet.dataSize = Len(data) /\ packet.data = data

LEMMA CarriesLemma ==
    ASSUME NEW packet, NEW op, NEW data, Holds(packet, op, data)
    PROVE  Carries(OnTheWire(Complete(packet)), op, data)
<1>1. data \in Seq(Byte) /\ packet = [opcode |-> op, dataSize |-> 0, data |-> data]
  BY DEF Holds
<1>2. PICK size \in 0..(SizeLimit - 1) :
         /\ OnTheWire(Complete(packet))
            = [opcode |-> op, dataSize |-> size, data |-> SubSeq(data, 1, size)]
         /\ Len(data) < SizeLimit => size = Len(data) /\ SubSeq(data, 1, size) = data
  BY <1>1, WireLemma
<1> QED
  BY <1>2 DEF Carries

LEMMA EchoLemma ==
    ASSUME NEW message \in Seq(Character), NEW next \in Byte
    PROVE  \E data : /\ Carries(OnTheWire(Echo(message, next)), "Echo", data)
                     /\ Len(message) + 1 < SizeLimit => data = Append(message, next)
<1> DEFINE n == Len(message) + 1
           bytes == Append(message, next)
<1>1. /\ bytes \in Seq(Byte) /\ Len(bytes) = n /\ n \in Nat /\ n <= Len(bytes)
      /\ <<>> \o SubSeq(bytes, 1, n) = bytes
  <2>1. message \in Seq(Byte) /\ bytes \in Seq(Byte) /\ Len(bytes) = n /\ n \in Nat
    BY DEF Byte
  <2>2. SubSeq(bytes, 1, Len(bytes)) = bytes /\ <<>> \o bytes = bytes
    <3> HIDE DEF bytes
    <3> QED
      BY <2>1
  <2> QED
    BY <2>1, <2>2
<1> HIDE DEF n, bytes
<1>2. PICK d : /\ Holds(AppendBytes(Build("Echo"), bytes, n), "Echo", d)
               /\ Extends(d, <<>>, bytes, n)
  <2>1. ASSUME NEW p, NEW op, NEW e, Holds(p, op, e)
        PROVE  \E d : /\ Holds(AppendBytes(p, bytes, n), op, d)
                      /\ Extends(d, e, bytes, n)
    BY <1>1, <2>1, AppendBytesLemma
  <2>2. Holds(Build("Echo"), "Echo", <<>>)
    BY BuildLemma
  <2> QED
    BY <2>1, <2>2
<1>3. Carries(OnTheWire(Echo(message, next)), "Echo", d)
  BY <1>2, CarriesLemma DEF Echo, n, bytes
<1> QED
  BY <1>1, <1>2, <1>3 DEF n, bytes, Extends

LEMMA DownloadLemma ==
    ASSUME NEW name \in Seq(Character), NEW position \in Nat
    PROVE  \E data : /\ Carries(OnTheWire(Download(name, position)), "Download", data)
                     /\ Len(name) + 2 < SizeLimit =>
                          data = Append(Append(<<>>, position) \o name, NUL)
<1> DEFINE head == Append(<<>>, position)
<1>1. name \in Seq(Byte) /\ Len(name) \in Nat /\ SubSeq(name, 1, Len(name)) = name
  BY DEF Byte
<1>2. position \in Byte /\ NUL \in Byte
  BY DEF Byte
<1>3. Holds(AppendObject(Build("Download"), position), "Download", head)
  BY <1>2, BuildLemma, AppendObjectLemma
<1> HIDE DEF head
<1>4. Len(name) <= Len(name)
  BY <1>1
<1>5. PICK d : /\ Holds(AppendBytes(AppendObject(Build("Download"), position), name, Len(name)),
                        "Download", d)
               /\ Extends(d, head, name, Len(name))
  <2>1. ASSUME NEW p, NEW op, NEW e, Holds(p, op, e)
        PROVE  \E d : /\ Holds(AppendBytes(p, name, Len(name)), op, d)
                      /\ Extends(d, e, name, Len(name))
    BY <1>1, <1>4, <2>1, AppendBytesLemma
  <2>2. Holds(AppendObject(Build("Download"), position), "Download", head)
    BY <1>3
  <2> QED
    BY <2>1, <2>2
<1>6. Holds(AppendView(AppendObject(Build("Download"), position), name), "Download",
            Append(d, NUL))
  BY <1>2, <1>5, AppendObjectLemma DEF AppendView
<1>7. Carries(OnTheWire(Download(name, position)), "Download", Append(d, NUL))
  BY <1>6, CarriesLemma DEF Download
<1>8. Len(name) + 2 < SizeLimit => d = head \o name
  <2>1. Len(name) + 2 < SizeLimit => Len(name) < SizeLimit
    BY <1>1, PacketAssumption
  <2> QED
    BY <1>1, <1>5, <2>1 DEF Extends
<1> QED
  BY <1>7, <1>8 DEF head

LEMMA UploadLemma ==
    ASSUME NEW name \in Seq(Character), NEW size \in Nat
    PROVE  \E data : /\ Carries(OnTheWire(Upload(name, size)), "Upload", data)
                     /\ Len(name) + 2 < SizeLimit =>
                          data = Append(Append(<<>>, size) \o name, NUL)
<1> DEFINE head == Append(<<>>, size)
           bytes == Append(name, NUL)
           n == Len(name) + 1
<1>1. /\ bytes \in Seq(Byte) /\ Len(bytes) = n /\ n \in Nat
      /\ n <= Len(bytes) /\ SubSeq(bytes, 1, n) = bytes
  <2>1. name \in Seq(Byte) /\ bytes \in Seq(Byte) /\ Len(bytes) = n /\ n \in Nat
    BY DEF Byte
  <2>2. SubSeq(bytes, 1, Len(bytes)) = bytes
    <3> HIDE DEF bytes
    <3> QED
      BY <2>1
  <2> QED
    BY <2>1, <2>2
<1>2. size \in Byte
  BY DEF Byte
<1>3. Holds(AppendObject(Build("Upload"), size), "Upload", head)
  BY <1>2, BuildLemma, AppendObjectLemma
<1>4. n = Len(name) + 1 /\ (Len(name) + 2 < SizeLimit => n < SizeLimit)
  BY PacketAssumption
<1>5. head \o bytes = Append(head \o name, NUL)
  <2>1. head \in Seq(Byte) /\ name \in Seq(Byte) /\ NUL \in Byte
    BY <1>2 DEF Byte
  <2> HIDE DEF head
  <2> QED
    BY <2>1
<1> HIDE DEF head, bytes, n
<1>6. PICK d : /\ Holds(AppendBytes(AppendObject(Build("Upload"), size), bytes, n), "Upload", d)
               /\ Extends(d, head, bytes, n)
  <2>1. ASSUME NEW p, NEW op, NEW e, Holds(p, op, e)
        PROVE  \E d : /\ Holds(AppendBytes(p, bytes, n), op, d)
                      /\ Extends(d, e, bytes, n)
    BY <1>1, <2>1, AppendBytesLemma
  <2>2. Holds(AppendObject(Build("Upload"), size), "Upload", head)
    BY <1>3
  <2> QED
    BY <2>1, <2>2
<1>7. Carries(OnTheWire(Upload(name, size)), "Upload", d)
  BY <1>4, <1>6, CarriesLemma DEF Upload, AppendString, bytes
<1>8. Len(name) + 2 < SizeLimit => d = Append(head \o name, NUL)
  BY <1>1, <1>4, <1>5, <1>6 DEF Extends
<1> QED
  BY <1>7, <1>8 DEF head

(* The server finds the name that a request carries, whatever else is in   *)
(* its buffer.                                                             *)
LEMMA FileNameLemma ==
    ASSUME NEW name \in Seq(Character), NEW number \in Nat
    PROVE  FileNameIn(Append(Append(<<>>, number) \o name, NUL), Stale) = name
<1> DEFINE data == Append(Append(<<>>, number) \o name, NUL)
           L == Len(name)
           buffer == Append(name, NUL) \o Stale
           IsEnd(i) == buffer[i] = NUL /\ \A j \in 1..(i - 1) : buffer[j] # NUL
<1>1. Stale \in Seq(Byte) /\ name \in Seq(Byte) /\ NUL \in Byte /\ number \in Byte
      /\ L \in Nat /\ Len(Stale) \in Nat
  BY ConsoleAssumption DEF Byte
<1>2. SubSeq(data, 2, Len(data)) = Append(name, NUL)
  <2>1. Append(<<>>, number) \o name \in Seq(Byte) /\ Len(Append(<<>>, number) \o name) = L + 1
        /\ \A i \in 1..L : (Append(<<>>, number) \o name)[i + 1] = name[i]
    BY <1>1
  <2>2. data \in Seq(Byte) /\ Len(data) = L + 2 /\ data[L + 2] = NUL
        /\ \A i \in 1..L : data[i + 1] = name[i]
    BY <1>1, <2>1
  <2> HIDE DEF data
  <2>3. SubSeq(data, 2, Len(data)) = [i \in 1..(L + 1) |-> data[i + 1]]
    BY <1>1, <2>2
  <2>4. \A i \in 1..(L + 1) : data[i + 1] = Append(name, NUL)[i]
    BY <1>1, <2>2
  <2>5. Append(name, NUL) = [i \in 1..(L + 1) |-> Append(name, NUL)[i]]
    <3>1. Append(name, NUL) \in Seq(Byte) /\ Len(Append(name, NUL)) = L + 1
      BY <1>1
    <3> DEFINE w == Append(name, NUL)
    <3> HIDE DEF w
    <3>2. w \in Seq(Byte) /\ Len(w) = L + 1 => w = [i \in 1..(L + 1) |-> w[i]]
      OBVIOUS
    <3> QED
      BY <3>1, <3>2 DEF w
  <2> QED
    BY <2>3, <2>4, <2>5
<1>3. /\ Len(buffer) = L + 1 + Len(Stale) /\ buffer[L + 1] = NUL
      /\ \A j \in 1..L : buffer[j] = name[j]
  BY <1>1
<1>4. \A j \in 1..L : buffer[j] # NUL
  BY <1>3, ConsoleAssumption
<1>5. SubSeq(buffer, 1, L) = name
  <2>1. buffer \in Seq(Byte)
    BY <1>1
  <2> HIDE DEF buffer
  <2> QED
    BY <1>1, <1>3, <2>1
<1>6. FileNameIn(data, Stale) = SubSeq(buffer, 1, (CHOOSE i \in 1..Len(buffer) : IsEnd(i)) - 1)
  BY <1>2 DEF FileNameIn
<1> HIDE DEF data, buffer
<1>7. L + 1 \in 1..Len(buffer) /\ IsEnd(L + 1)
  BY <1>1, <1>3, <1>4
<1>8. \A i \in 1..Len(buffer) : IsEnd(i) => i = L + 1
  <2> SUFFICES ASSUME NEW i \in 1..Len(buffer), IsEnd(i), i # L + 1 PROVE FALSE
    OBVIOUS
  <2>1. i \in Nat /\ i >= 1
    BY <1>1, <1>3
  <2>2. i < L + 1 \/ L + 1 \in 1..(i - 1)
    BY <1>1, <2>1
  <2> QED
    BY <1>1, <1>3, <1>4, <2>1, <2>2
<1>9. (CHOOSE i \in 1..Len(buffer) : IsEnd(i)) = L + 1
  <2> HIDE DEF IsEnd
  <2> QED
    BY <1>7, <1>8
<1>10. FileNameIn(data, Stale) = SubSeq(buffer, 1, L)
  <2>1. (L + 1) - 1 = L
    BY <1>1
  <2> QED
    BY <1>6, <1>9, <2>1
<1> QED
  BY <1>5, <1>10 DEF data

(* What is on its way once a command is executed.                          *)
LEMMA RequestLemma ==
    ASSUME ConsoleInv, place = "executed"
    PROVE  /\ command \in CommandNames /\ command = Words[1]
           /\ Opcode[command] \in {"Echo", "Download", "Upload"} => Words[2] \in Seq(Character)
           /\ \E data :
                 /\ Carries(sent, Opcode[command], data)
                 /\ Opcode[command] = "Echo" =>
                       \E next : Len(Words[2]) + 1 < SizeLimit => data = Append(Words[2], next)
                 /\ Opcode[command] \in {"Download", "Upload"} =>
                       \E n \in Nat : Len(Words[2]) + 2 < SizeLimit =>
                             data = Append(Append(<<>>, n) \o Words[2], NUL)
<1> DEFINE op == Opcode[command]
<1>1. /\ Parsed /\ sent = OnTheWire(Request) /\ command \in CommandNames /\ command = Words[1]
      /\ Len(args) = Len(CommandSet[command]) /\ args \in Seq(Nat \cup Seq(Character))
      /\ \A n \in DOMAIN args :
            /\ args[n] = Meant(CommandSet[command][n], Words[n + 1])
            /\ CommandSet[command][n] = "string" => args[n] \in Seq(Character)
  BY DEF ConsoleInv, SentInv, ArgumentsInv, Parsed
<1>2. op \in {"None", "Echo", "Time", "Download", "Upload", "Close"}
  BY <1>1, ConsoleAssumption
<1>3. After \in Byte
  <2>1. view \in Seq(Character)
    BY ViewLemma DEF ConsoleInv, PlaceInv, CutInv
  <2>2. view # <<>> => view[1] \in Character
    BY <2>1
  <2> QED
    BY <2>2 DEF After, Byte
<1>4. op \in {"Echo", "Download", "Upload"} => args[1] = Words[2] /\ Words[2] \in Seq(Character)
  <2> SUFFICES ASSUME op \in {"Echo", "Download", "Upload"}
               PROVE  args[1] = Words[2] /\ args[1] \in Seq(Character)
    OBVIOUS
  <2>1. CommandSet[command] = <<"string">>
    BY <1>1, ConsoleAssumption
  <2>2. Len(args) = 1 /\ CommandSet[command][1] = "string"
    BY <1>1, <2>1
  <2>3. 1 \in DOMAIN args /\ 1 + 1 = 2
    BY <1>1, <2>2
  <2> QED
    BY <1>1, <2>2, <2>3 DEF Meant
<1>5. CASE op = "Echo"
  <2>1. Request = Echo(Words[2], After)
    BY <1>4, <1>5 DEF Request
  <2>2. PICK data : /\ Carries(OnTheWire(Echo(Words[2], After)), "Echo", data)
                    /\ Len(Words[2]) + 1 < SizeLimit => data = Append(Words[2], After)
    BY <1>3, <1>4, <1>5, EchoLemma
  <2> QED
    BY <1>1, <1>4, <1>5, <2>1, <2>2
<1>6. CASE op = "Download"
  <2>1. Request = Download(Words[2], 0)
    BY <1>4, <1>6 DEF Request
  <2>2. PICK data : /\ Carries(OnTheWire(Download(Words[2], 0)), "Download", data)
                    /\ Len(Words[2]) + 2 < SizeLimit =>
                          data = Append(Append(<<>>, 0) \o Words[2], NUL)
    BY <1>4, <1>6, DownloadLemma
  <2> QED
    BY <1>1, <1>4, <1>6, <2>1, <2>2
<1>7. CASE op = "Upload"
  <2>1. Request = Upload(Words[2], 1)
    BY <1>4, <1>7 DEF Request
  <2>2. PICK data : /\ Carries(OnTheWire(Upload(Words[2], 1)), "Upload", data)
                    /\ Len(Words[2]) + 2 < SizeLimit =>
                          data = Append(Append(<<>>, 1) \o Words[2], NUL)
    BY <1>4, <1>7, UploadLemma
  <2> QED
    BY <1>1, <1>4, <1>7, <2>1, <2>2
<1>8. CASE op \notin {"Echo", "Download", "Upload"}
  <2>1. Request = Bare(op)
    BY <1>8 DEF Request
  <2>2. Carries(OnTheWire(Bare(op)), op, <<>>)
    BY BuildLemma, CarriesLemma DEF Bare
  <2> QED
    BY <1>1, <1>8, <2>1, <2>2
<1> QED
  BY <1>5, <1>6, <1>7, <1>8

(* Types, and that a port has no more than its bits.                       *)
THEOREM ConsoleTypes == ConsoleSpec => []ConsoleTypeOK
<1>1. ASSUME ConsoleInv PROVE ConsoleTypeOK
  <2>1. place \in {"read", "command", "arguments", "executed", "exit"}
    BY <1>1 DEF ConsoleInv, PlaceInv
  <2>2. \E n \in 0..Len(line) : view = SubSeq(line, n + 1, Len(line))
    BY <1>1 DEF ConsoleInv, CutInv
  <2>3. command \in CommandNames \cup {<<>>}
    BY <1>1 DEF ConsoleInv, PlaceInv, ArgumentsInv
  <2>4. ASSUME place \in {"arguments", "executed"}
        PROVE  /\ Len(args) <= Len(CommandSet[command])
               /\ \A n \in DOMAIN args :
                     CommandSet[command][n] = "port" => args[n] \in 0..(PortLimit - 1)
    <3>1. Parsed
      BY <2>4 DEF Parsed
    <3>2. \A word : Meant("port", word) \in 0..(PortLimit - 1)
      BY ConsoleAssumption DEF Meant
    <3> QED
      BY <1>1, <3>1, <3>2 DEF ConsoleInv, ArgumentsInv
  <2>5. sent.opcode \in {Opcode[c] : c \in CommandNames} \cup {"None"}
        /\ sent.dataSize \in 0..(SizeLimit - 1)
    <3>1. CASE place = "executed"
      BY <1>1, <3>1, RequestLemma DEF Carries
    <3>2. CASE place # "executed"
      <4>1. sent = Complete(Build("None"))
        BY <1>1, <3>2 DEF ConsoleInv, SentInv, Nothing, Bare
      <4>2. UInt16(Len(<<>>)) \in 0..(SizeLimit - 1)
        BY UInt16Lemma
      <4>3. Complete(Build("None")).opcode = "None"
            /\ Complete(Build("None")).dataSize = UInt16(Len(<<>>))
        BY DEF Complete, Build
      <4> QED
        BY <4>1, <4>2, <4>3
    <3> QED
      BY <3>1, <3>2
  <2> QED
    BY <2>1, <2>2, <2>3, <2>4, <2>5 DEF ConsoleTypeOK
<1> QED
  BY <1>1, ConsoleInvariant, PTL

(* What the server reads out of a request is what the user typed: of an    *)
(* echo the message, and as many bytes as the client then waits for; of a  *)
(* download or an upload the name, whatever a former packet left behind.   *)
THEOREM ConsoleRequestsAsTyped == ConsoleSpec => []RequestAsTyped
<1>1. ASSUME ConsoleInv PROVE RequestAsTyped
  <2> SUFFICES ASSUME place = "executed"
               PROVE  /\ sent.opcode = Opcode[Words[1]]
                      /\ (sent.opcode = "Echo" /\ Len(Words[2]) + 1 < SizeLimit) =>
                            /\ sent.dataSize = Len(Words[2]) + 1
                            /\ SubSeq(sent.data, 1, Len(Words[2])) = Words[2]
                      /\ (/\ sent.opcode \in {"Download", "Upload"}
                          /\ Len(Words[2]) + 2 < SizeLimit) =>
                            FileNameIn(sent.data, Stale) = Words[2]
    BY DEF RequestAsTyped
  <2>1. PICK data :
           /\ Carries(sent, Opcode[command], data)
           /\ Opcode[command] = "Echo" =>
                 \E next : Len(Words[2]) + 1 < SizeLimit => data = Append(Words[2], next)
           /\ Opcode[command] \in {"Download", "Upload"} =>
                 \E n \in Nat : Len(Words[2]) + 2 < SizeLimit =>
                       data = Append(Append(<<>>, n) \o Words[2], NUL)
    BY <1>1, RequestLemma
  <2>2. sent.opcode = Opcode[command] /\ command = Words[1]
        /\ (sent.opcode \in {"Echo", "Download", "Upload"} => Words[2] \in Seq(Character))
    BY <1>1, <2>1, RequestLemma DEF Carries
  <2>3. ASSUME sent.opcode = "Echo", Len(Words[2]) + 1 < SizeLimit
        PROVE  sent.dataSize = Len(Words[2]) + 1 /\ SubSeq(sent.data, 1, Len(Words[2])) = Words[2]
    <3>1. PICK next : data = Append(Words[2], next)
      BY <2>1, <2>2, <2>3
    <3>2. \A w \in Seq(Character) : /\ Len(Append(w, next)) = Len(w) + 1
                                    /\ SubSeq(Append(w, next), 1, Len(w)) = w
      OBVIOUS
    <3>3. Len(data) = Len(Words[2]) + 1 /\ SubSeq(data, 1, Len(Words[2])) = Words[2]
      BY <2>2, <2>3, <3>1, <3>2
    <3>4. Len(data) < SizeLimit
      BY <2>3, <3>3
    <3> QED
      BY <2>1, <3>3, <3>4 DEF Carries
  <2>4. ASSUME sent.opcode \in {"Download", "Upload"}, Len(Words[2]) + 2 < SizeLimit
        PROVE  FileNameIn(sent.data, Stale) = Words[2]
    <3>1. PICK n \in Nat : data = Append(Append(<<>>, n) \o Words[2], NUL)
      BY <2>1, <2>2, <2>4
    <3>2. Words[2] \in Seq(Character)
      BY <2>2, <2>4
    <3>3. \A w \in Seq(Character) : Len(Append(Append(<<>>, n) \o w, NUL)) = Len(w) + 2
      <4> SUFFICES ASSUME NEW w \in Seq(Character)
                   PROVE  Len(Append(Append(<<>>, n) \o w, NUL)) = Len(w) + 2
        OBVIOUS
      <4>1. w \in Seq(Byte) /\ Append(<<>>, n) \in Seq(Byte) /\ Len(Append(<<>>, n)) = 1
        BY DEF Byte
      <4>2. Append(<<>>, n) \o w \in Seq(Byte) /\ Len(Append(<<>>, n) \o w) = Len(w) + 1
        BY <4>1
      <4> QED
        BY <4>1, <4>2
    <3>4. sent.data = data
      BY <2>1, <2>4, <3>1, <3>2, <3>3 DEF Carries
    <3> QED
      BY <3>1, <3>2, <3>4, FileNameLemma
  <2> QED
    BY <2>2, <2>3, <2>4
<1> QED
  BY <1>1, ConsoleInvariant, PTL
==============================================================================
