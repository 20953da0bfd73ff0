---------------------------- MODULE SequenceLemmas ----------------------------
(***************************************************************************)
(* Lemmas about naturals and sequences that the proofs of several modules  *)
(* rest on: minima, appending, FlattenSeq, which puts the signals of all   *)
(* verdicts into one sequence, and recursion up to a bound.                *)
(*                                                                         *)
(* Every inductive argument takes the smallest counterexample (Minimum);   *)
(* where the formula says that a number is in a set, InductionUpTo and     *)
(* InductionDown do so once and for all.                                   *)
(***************************************************************************)
EXTENDS Integers, SequencesExt, SequenceTheorems, FiniteSetTheorems,
        WellFoundedInduction, TLAPS

\* Every nonempty set of naturals has a least element.
LEMMA Minimum ==
    ASSUME NEW T, T \subseteq Nat, T # {}
    PROVE  \E x \in T : \A y \in T : x <= y
<1>1. \E x \in T : \A y \in T : ~ (<<y, x>> \in OpToRel(<, Nat))
  BY NatLessThanWellFounded, WFMin, Zenon
<1>2. \A x, y \in Nat : y < x => <<y, x>> \in OpToRel(<, Nat)
  BY DEF OpToRel
<1>3. \E x \in T : \A y \in T : ~ (y < x)
  BY <1>1, <1>2, Zenon
<1>4. QED
  BY <1>3

LEMMA RangeOfEmpty == Range(<<>>) = {}
BY DEF Range

\* A function on an interval is a sequence.
LEMMA FunctionIsSeq ==
    ASSUME NEW S, NEW n \in Nat, NEW f \in [1..n -> S]
    PROVE  f \in Seq(S) /\ Len(f) = n
<1>1. f \in Seq(S)
  BY SeqDef
<1>2. DOMAIN f = 1..n /\ DOMAIN f = 1..Len(f) /\ Len(f) \in Nat
  BY <1>1, LenProperties
<1>3. QED
  BY <1>1, <1>2

LEMMA AppendRange ==
    ASSUME NEW S, NEW s \in Seq(S), NEW e \in S
    PROVE  Range(Append(s, e)) = Range(s) \cup {e}
<1>1. /\ Append(s, e) \in Seq(S) /\ Len(Append(s, e)) = Len(s) + 1
      /\ \A i \in 1..Len(s) : Append(s, e)[i] = s[i]
      /\ Append(s, e)[Len(s) + 1] = e
  BY AppendProperties
<1>2. /\ Range(s) = {s[i] : i \in 1..Len(s)} /\ Len(s) \in Nat
      /\ Range(Append(s, e)) = {Append(s, e)[i] : i \in 1..(Len(s) + 1)}
  BY <1>1, RangeEquality, LenProperties
<1>3. 1..(Len(s) + 1) = 1..Len(s) \cup {Len(s) + 1}
  BY <1>2
<1>4. QED
  BY <1>1, <1>2, <1>3

-----------------------------------------------------------------------------
(* FlattenSeq                                                               *)

\* The step of the recursion of FlattenSeq at i, for a function g.
Joined(s, g, i) == IF i = 1 THEN s[i] ELSE g[i - 1] \o s[i]

\* g follows the recursion up to n.
Follows(s, g, n) == \A i \in 1..n : g[i] = Joined(s, g, i)

\* g is the recursive function by which FlattenSeq(s) is defined.
Flattens(s, g) == g = [i \in 1..Len(s) |-> Joined(s, g, i)]

\* There is such a function, and its values are sequences.
LEMMA FlattenExists ==
    ASSUME NEW S, NEW s \in Seq(Seq(S))
    PROVE  \E g \in [1..Len(s) -> Seq(S)] : Flattens(s, g)
<1> DEFINE Upto(n) == \E g \in [1..n -> Seq(S)] : \A i \in 1..n : g[i] = Joined(s, g, i)
           Missing == {n \in 0..Len(s) : ~ Upto(n)}
<1>1. Len(s) \in Nat /\ \A i \in 1..Len(s) : s[i] \in Seq(S)
  BY LenProperties, ElementOfSeq
<1>2. Missing = {}
  <2> SUFFICES ASSUME Missing # {} PROVE FALSE
    OBVIOUS
  <2>1. PICK m \in Missing : \A k \in Missing : m <= k
    <3>1. Missing \subseteq Nat
      BY <1>1
    <3> HIDE DEF Missing
    <3>2. QED
      BY <3>1, Minimum
  <2>2. m \in 0..Len(s) /\ ~ Upto(m)
    BY <2>1
  <2>3. m # 0
    <3> SUFFICES ASSUME m = 0 PROVE Upto(m)
      BY <2>2
    <3>1. [i \in 1..0 |-> <<>>] \in [1..0 -> Seq(S)] /\ \A i \in 1..0 : FALSE
      OBVIOUS
    <3>2. QED
      BY <3>1
  <2>4. m - 1 \in 0..Len(s) /\ m - 1 \notin Missing
    <3> HIDE DEF Missing
    <3>1. QED
      BY <1>1, <2>1, <2>2, <2>3
  <2>5. PICK g \in [1..(m - 1) -> Seq(S)] : \A i \in 1..(m - 1) : g[i] = Joined(s, g, i)
    BY <2>4
  <2> DEFINE new == IF m = 1 THEN s[m] ELSE g[m - 1] \o s[m]
             h == [i \in 1..m |-> IF i = m THEN new ELSE g[i]]
  <2>6. new \in Seq(S)
    <3>1. s[m] \in Seq(S)
      BY <1>1, <2>2, <2>3
    <3>2. CASE m # 1
      <4>1. g[m - 1] \in Seq(S)
        BY <2>2, <2>3, <2>5, <3>2
      <4>2. QED
        BY <3>1, <3>2, <4>1, ConcatProperties
    <3>3. QED
      BY <3>1, <3>2
  <2>7. h \in [1..m -> Seq(S)]
    <3> HIDE DEF new
    <3>1. QED
      BY <2>2, <2>6
  <2>8. \A i \in 1..m : h[i] = Joined(s, h, i)
    <3> SUFFICES ASSUME NEW i \in 1..m PROVE h[i] = Joined(s, h, i)
      OBVIOUS
    <3>1. CASE i = m
      BY <2>2, <2>3, <3>1 DEF Joined
    <3>2. CASE i # m
      <4>1. i \in 1..(m - 1) /\ (i # 1 => i - 1 \in 1..m /\ i - 1 # m)
        BY <2>2, <3>2
      <4>2. h[i] = g[i] /\ (i # 1 => h[i - 1] = g[i - 1])
        <5> HIDE DEF new
        <5>1. QED
          BY <3>2, <4>1
      <4>3. QED
        BY <2>5, <4>1, <4>2 DEF Joined
    <3>3. QED
      BY <3>1, <3>2
  <2>9. QED
    BY <2>2, <2>7, <2>8
<1>3. Upto(Len(s))
  <2>1. Len(s) \notin Missing /\ Len(s) \in 0..Len(s)
    <3> HIDE DEF Missing
    <3>1. QED
      BY <1>1, <1>2
  <2>2. QED
    BY <2>1
<1>4. PICK g \in [1..Len(s) -> Seq(S)] : \A i \in 1..Len(s) : g[i] = Joined(s, g, i)
  BY <1>3
<1>5. Flattens(s, g)
  BY <1>4 DEF Flattens
<1>6. QED
  BY <1>5

\* The recursion determines its values.
LEMMA JoinedAgrees ==
    ASSUME NEW s, NEW f, NEW g, NEW n \in Nat,
           Follows(s, f, n), Follows(s, g, n)
    PROVE  \A i \in 1..n : f[i] = g[i]
<1> DEFINE Apart == {i \in 1..n : f[i] # g[i]}
<1>1. SUFFICES ASSUME Apart # {} PROVE FALSE
  OBVIOUS
<1>2. PICK m \in Apart : \A k \in Apart : m <= k
  <2>1. Apart \subseteq Nat
    OBVIOUS
  <2> HIDE DEF Apart
  <2>2. QED
    BY <1>1, <2>1, Minimum
<1>3. m # 1 => m - 1 \in 1..n /\ m - 1 \notin Apart
  BY <1>2
<1>4. f[m] = g[m]
  BY <1>2, <1>3 DEF Joined, Follows
<1>5. QED
  BY <1>2, <1>4

LEMMA FlattensFollows ==
    ASSUME NEW s, NEW g, Flattens(s, g)
    PROVE  Follows(s, g, Len(s))
BY Zenon DEF Flattens, Follows

\* The recursion for a longer sequence starts like that for the shorter one.
LEMMA FlattensExtends ==
    ASSUME NEW s, NEW t, NEW f, NEW g, NEW n \in Nat \ {0},
           Flattens(s, f), Flattens(t, g), Len(s) = n, Len(t) = n + 1,
           \A i \in 1..n : t[i] = s[i]
    PROVE  f[n] = g[n]
<1>1. Follows(s, f, n)
  BY FlattensFollows
<1>2. Follows(t, g, Len(t))
  BY FlattensFollows
<1>3. \A i \in 1..n : i \in 1..Len(t)
  OBVIOUS
<1>4. Follows(s, g, n)
  BY <1>2, <1>3 DEF Follows, Joined
<1>5. n \in Nat /\ n \in 1..n
  OBVIOUS
<1>6. \A i \in 1..n : f[i] = g[i]
  BY <1>1, <1>4, <1>5, JoinedAgrees
<1>7. QED
  BY <1>5, <1>6

LEMMA FlattenIs ==
    ASSUME NEW s, Len(s) \in Nat \ {0}, NEW g, Flattens(s, g)
    PROVE  FlattenSeq(s) = g[Len(s)]
<1> DEFINE f == CHOOSE f : f = [i \in 1..Len(s) |-> IF i = 1 THEN s[i] ELSE f[i - 1] \o s[i]]
<1>1. FlattenSeq(s) = f[Len(s)]
  BY DEF FlattenSeq
<1>2. Flattens(s, f)
  BY DEF Flattens, Joined
<1> HIDE DEF f
<1>3. f[Len(s)] = g[Len(s)]
  <2>1. Follows(s, f, Len(s)) /\ Follows(s, g, Len(s))
    BY <1>2, FlattensFollows
  <2>2. \A i \in 1..Len(s) : f[i] = g[i]
    BY <2>1, JoinedAgrees
  <2>3. QED
    BY <2>2
<1>4. QED
  BY <1>1, <1>3

\* FlattenSeq of sequences over S is a sequence over S.
LEMMA FlattenType ==
    ASSUME NEW S, NEW s \in Seq(Seq(S))
    PROVE  FlattenSeq(s) \in Seq(S)
<1>1. CASE Len(s) = 0
  <2>1. s = <<>>
    BY <1>1, EmptySeq
  <2>2. QED
    BY <1>1, <2>1, EmptySeq DEF FlattenSeq
<1>2. CASE Len(s) # 0
  <2>1. PICK g \in [1..Len(s) -> Seq(S)] : Flattens(s, g)
    BY FlattenExists
  <2>2. Len(s) \in Nat \ {0} /\ Len(s) \in 1..Len(s)
    BY <1>2, LenProperties
  <2>3. QED
    <3>1. FlattenSeq(s) = g[Len(s)]
      BY <2>1, <2>2, FlattenIs, Zenon
    <3>2. QED
      BY <2>1, <2>2, <3>1
<1>3. QED
  BY <1>1, <1>2

\* One more sequence to flatten is appended to the result.
LEMMA FlattenLonger ==
    ASSUME NEW s, NEW t, NEW n \in Nat \ {0}, Len(s) = n, Len(t) = n + 1,
           \A i \in 1..n : t[i] = s[i],
           \E f : Flattens(s, f), \E g : Flattens(t, g)
    PROVE  FlattenSeq(t) = FlattenSeq(s) \o t[n + 1]
<1>1. PICK f : Flattens(s, f)
  OBVIOUS
<1>2. PICK g : Flattens(t, g)
  OBVIOUS
<1>3. f[n] = g[n]
  BY <1>1, <1>2, FlattensExtends
<1>4. FlattenSeq(s) = f[n]
  BY <1>1, FlattenIs
<1>5. FlattenSeq(t) = g[n + 1]
  BY <1>2, FlattenIs
<1>6. g[n + 1] = Joined(t, g, n + 1)
  BY <1>2, FlattensFollows DEF Follows
<1>7. (n + 1) - 1 = n /\ n + 1 # 1
  OBVIOUS
<1>8. QED
  BY <1>3, <1>4, <1>5, <1>6, <1>7 DEF Joined

LEMMA FlattenAppend ==
    ASSUME NEW S, NEW s \in Seq(Seq(S)), NEW x \in Seq(S)
    PROVE  FlattenSeq(Append(s, x)) = FlattenSeq(s) \o x
<1>1. /\ Len(s) \in Nat /\ Append(s, x) \in Seq(Seq(S))
      /\ Len(Append(s, x)) = Len(s) + 1 /\ Append(s, x)[Len(s) + 1] = x
      /\ \A i \in 1..Len(s) : Append(s, x)[i] = s[i]
  BY LenProperties, AppendProperties
<1>2. CASE Len(s) = 0
  <2>1. s = <<>> /\ FlattenSeq(s) = s
    BY <1>2, EmptySeq DEF FlattenSeq
  <2>2. PICK g : Flattens(Append(s, x), g)
    BY <1>1, FlattenExists
  <2>3. FlattenSeq(Append(s, x)) = g[1]
    BY <1>1, <1>2, <2>2, FlattenIs
  <2>4. g[1] = x
    BY <1>1, <1>2, <2>2, FlattensFollows DEF Follows, Joined
  <2>5. QED
    BY <2>1, <2>3, <2>4, ConcatEmptySeq
<1>3. CASE Len(s) # 0
  <2>1. (\E f : Flattens(s, f)) /\ (\E g : Flattens(Append(s, x), g))
    BY <1>1, FlattenExists
  <2>2. Len(s) \in Nat \ {0}
    BY <1>1, <1>3
  <2>3. FlattenSeq(Append(s, x)) = FlattenSeq(s) \o Append(s, x)[Len(s) + 1]
    BY <1>1, <2>1, <2>2, FlattenLonger, Zenon
  <2>4. QED
    BY <1>1, <2>3
<1>4. QED
  BY <1>2, <1>3

-----------------------------------------------------------------------------
(* Concatenations: ranges, prefixes, and sequences without repetition.      *)

LEMMA ConcatIs ==
    ASSUME NEW S, NEW s \in Seq(S), NEW t \in Seq(S)
    PROVE  /\ s \o t \in Seq(S) /\ Len(s) \in Nat /\ Len(t) \in Nat
           /\ DOMAIN s = 1..Len(s) /\ DOMAIN t = 1..Len(t)
           /\ DOMAIN (s \o t) = 1..(Len(s) + Len(t)) /\ Len(s \o t) = Len(s) + Len(t)
           /\ \A i \in 1..Len(s) : (s \o t)[i] = s[i]
           /\ \A i \in 1..Len(t) : (s \o t)[Len(s) + i] = t[i]
<1>1. /\ s \o t \in Seq(S) /\ Len(s) \in Nat /\ Len(t) \in Nat
      /\ DOMAIN s = 1..Len(s) /\ DOMAIN t = 1..Len(t)
      /\ Len(s \o t) = Len(s) + Len(t)
      /\ \A i \in 1..(Len(s) + Len(t)) :
            (s \o t)[i] = IF i <= Len(s) THEN s[i] ELSE t[i - Len(s)]
  BY ConcatProperties, LenProperties
<1>2. DOMAIN (s \o t) = 1..(Len(s) + Len(t))
  BY <1>1, LenProperties
<1>3. ASSUME NEW i \in 1..Len(s) PROVE (s \o t)[i] = s[i]
  BY <1>1
<1>4. ASSUME NEW i \in 1..Len(t) PROVE (s \o t)[Len(s) + i] = t[i]
  <2>1. /\ Len(s) + i \in 1..(Len(s) + Len(t)) /\ ~ (Len(s) + i <= Len(s))
        /\ (Len(s) + i) - Len(s) = i
    BY <1>1
  <2>2. QED
    BY <1>1, <2>1
<1>5. QED
  BY <1>1, <1>2, <1>3, <1>4

LEMMA InjectiveParts ==
    ASSUME NEW S, NEW s \in Seq(S), NEW t \in Seq(S), IsInjective(s \o t)
    PROVE  /\ IsInjective(s)
           /\ Range(s) \cap Range(t) = {}
<1>1. /\ Len(s) \in Nat /\ Len(t) \in Nat /\ DOMAIN s = 1..Len(s)
      /\ DOMAIN (s \o t) = 1..(Len(s) + Len(t))
      /\ \A i \in 1..Len(s) : (s \o t)[i] = s[i]
      /\ \A i \in 1..Len(t) : (s \o t)[Len(s) + i] = t[i]
      /\ Range(s) = {s[i] : i \in 1..Len(s)} /\ Range(t) = {t[i] : i \in 1..Len(t)}
  BY ConcatIs, RangeEquality
<1>2. \A i, j \in 1..(Len(s) + Len(t)) : (s \o t)[i] = (s \o t)[j] => i = j
  BY <1>1 DEF IsInjective
<1>3. \A i \in 1..Len(s) : i \in 1..(Len(s) + Len(t))
  BY <1>1
<1>4. ASSUME NEW i \in 1..Len(s), NEW j \in 1..Len(t), s[i] = t[j] PROVE FALSE
  <2>1. Len(s) + j \in 1..(Len(s) + Len(t)) /\ Len(s) + j # i
    BY <1>1
  <2>2. (s \o t)[i] = (s \o t)[Len(s) + j]
    BY <1>1, <1>4
  <2>3. QED
    BY <1>2, <1>3, <2>1, <2>2
<1>5. IsInjective(s)
  BY <1>1, <1>2, <1>3 DEF IsInjective
<1>6. QED
  BY <1>1, <1>4, <1>5

LEMMA InjectiveConcat ==
    ASSUME NEW S, NEW s \in Seq(S), NEW t \in Seq(S),
           IsInjective(s), IsInjective(t), Range(s) \cap Range(t) = {}
    PROVE  IsInjective(s \o t)
<1>1. /\ Len(s) \in Nat /\ Len(t) \in Nat
      /\ DOMAIN s = 1..Len(s) /\ DOMAIN t = 1..Len(t)
      /\ DOMAIN (s \o t) = 1..(Len(s) + Len(t))
      /\ \A i \in 1..Len(s) : (s \o t)[i] = s[i]
      /\ \A i \in 1..Len(t) : (s \o t)[Len(s) + i] = t[i]
      /\ Range(s) = {s[i] : i \in 1..Len(s)} /\ Range(t) = {t[i] : i \in 1..Len(t)}
  BY ConcatIs, RangeEquality
<1>2. /\ \A i, j \in 1..Len(s) : s[i] = s[j] => i = j
      /\ \A i, j \in 1..Len(t) : t[i] = t[j] => i = j
  BY <1>1 DEF IsInjective
<1>3. \A i \in 1..Len(s), j \in 1..Len(t) : s[i] # t[j]
  BY <1>1
<1>4. SUFFICES ASSUME NEW i \in 1..(Len(s) + Len(t)), NEW j \in 1..(Len(s) + Len(t)),
                      (s \o t)[i] = (s \o t)[j]
               PROVE  i = j
  BY <1>1 DEF IsInjective
<1>5. \A k \in 1..(Len(s) + Len(t)) :
         k \in 1..Len(s) \/ (k - Len(s) \in 1..Len(t) /\ k = Len(s) + (k - Len(s)))
  BY <1>1
<1>6. CASE i \in 1..Len(s)
  <2>1. j \in 1..Len(s)
    BY <1>1, <1>3, <1>4, <1>5, <1>6
  <2>2. QED
    BY <1>1, <1>2, <1>4, <1>6, <2>1
<1>7. CASE i - Len(s) \in 1..Len(t) /\ i = Len(s) + (i - Len(s))
  <2>1. j - Len(s) \in 1..Len(t) /\ j = Len(s) + (j - Len(s))
    BY <1>1, <1>3, <1>4, <1>5, <1>7
  <2>2. t[i - Len(s)] = t[j - Len(s)]
    BY <1>1, <1>4, <1>7, <2>1
  <2>3. i - Len(s) = j - Len(s)
    BY <1>2, <1>7, <2>1, <2>2
  <2>4. QED
    BY <1>1, <2>3
<1>8. QED
  BY <1>5, <1>6, <1>7

\* Moving the head of t to the end of s.
LEMMA HeadMoves ==
    ASSUME NEW S, NEW s \in Seq(S), NEW t \in Seq(S), t # <<>>
    PROVE  /\ Append(s, Head(t)) \in Seq(S) /\ Tail(t) \in Seq(S)
           /\ Append(s, Head(t)) \o Tail(t) = s \o t
<1>1. /\ Head(t) \in S /\ Tail(t) \in Seq(S) /\ Append(s, Head(t)) \in Seq(S)
  BY HeadTailProperties, AppendProperties
<1>2. <<Head(t)>> \in Seq(S) /\ Append(s, Head(t)) = s \o <<Head(t)>>
  BY <1>1, AppendIsConcat
<1>3. <<Head(t)>> \o Tail(t) = t
  <2>1. Len(t) \in Nat /\ Len(t) # 0
    BY EmptySeq, LenProperties
  <2>2. /\ Len(<<Head(t)>>) = 1 /\ <<Head(t)>>[1] = t[1] /\ Len(Tail(t)) = Len(t) - 1
        /\ \A i \in 1..Len(Tail(t)) : Tail(t)[i] = t[i + 1]
    BY HeadTailProperties
  <2>3. <<Head(t)>> \o Tail(t) \in Seq(S) /\ Len(<<Head(t)>> \o Tail(t)) = Len(t)
        /\ \A i \in 1..Len(t) :
             (<<Head(t)>> \o Tail(t))[i] = IF i <= 1 THEN t[1] ELSE Tail(t)[i - 1]
    BY <1>1, <1>2, <2>1, <2>2, ConcatProperties
  <2>4. \A i \in 1..Len(t) : (<<Head(t)>> \o Tail(t))[i] = t[i]
    BY <2>1, <2>2, <2>3
  <2>5. QED
    BY <2>3, <2>4, SeqEqual
<1>4. (s \o <<Head(t)>>) \o Tail(t) = s \o (<<Head(t)>> \o Tail(t))
  BY <1>1, <1>2, ConcatAssociative
<1>5. Append(s, Head(t)) \o Tail(t) = s \o t
  BY <1>2, <1>3, <1>4, Zenon
<1>6. QED
  BY <1>1, <1>5

LEMMA ConcatPrefix ==
    ASSUME NEW S, NEW s \in Seq(S), NEW t \in Seq(S)
    PROVE  /\ SubSeq(s \o t, 1, Len(s)) = s
           /\ t # <<>> => IsStrictPrefix(s, s \o t)
<1>1. /\ s \o t \in Seq(S) /\ Len(s) \in Nat /\ Len(t) \in Nat
      /\ Len(s \o t) = Len(s) + Len(t)
      /\ \A i \in 1..Len(s) : (s \o t)[i] = s[i]
  BY ConcatIs
<1>2. SubSeq(s \o t, 1, Len(s)) = s
  <2>1. \A i \in 1..Len(s) : (s \o t)[i] \in S
    BY <1>1, ElementOfSeq
  <2>2. /\ SubSeq(s \o t, 1, Len(s)) \in Seq(S) /\ Len(SubSeq(s \o t, 1, Len(s))) = Len(s)
        /\ \A i \in 1..Len(s) : SubSeq(s \o t, 1, Len(s))[i] = (s \o t)[i]
    BY <1>1, <2>1, SubSeqProperties
  <2>3. QED
    BY <1>1, <2>2, SeqEqual
<1>3. SubSeq(s, 1, Len(s)) = s
  BY SubSeqFull
<1>4. ASSUME t # <<>> PROVE s # s \o t
  BY <1>4, ConcatEqualIffEmpty
<1>5. Len(s) <= Len(s \o t)
  BY <1>1
<1>6. IsPrefix(s, s \o t)
  BY <1>2, <1>3, <1>5, Zenon DEF IsPrefix
<1>7. QED
  BY <1>2, <1>4, <1>6, Zenon DEF IsStrictPrefix
-----------------------------------------------------------------------------
(* Taking an element out of a sequence.                                     *)

LEMMA RemoveAtIs ==
    ASSUME NEW S, NEW s \in Seq(S), NEW p \in 1..Len(s)
    PROVE  /\ RemoveAt(s, p) \in Seq(S)
           /\ Len(s) \in Nat /\ Len(RemoveAt(s, p)) = Len(s) - 1
           /\ \A i \in 1..(Len(s) - 1) :
                 RemoveAt(s, p)[i] = IF i < p THEN s[i] ELSE s[i + 1]
<1> DEFINE a == SubSeq(s, 1, p - 1)
           b == SubSeq(s, p + 1, Len(s))
<1>1. Len(s) \in Nat /\ p \in 1..Len(s) /\ \A i \in 1..Len(s) : s[i] \in S
  BY LenProperties, ElementOfSeq
<1>2. /\ a \in Seq(S) /\ Len(a) = p - 1
      /\ \A i \in 1..(p - 1) : a[i] = s[i]
  <2>1. \A i \in 1..(p - 1) : s[i] \in S
    BY <1>1
  <2>2. /\ a \in Seq(S) /\ Len(a) = (IF 1 <= p - 1 THEN p - 1 - 1 + 1 ELSE 0)
        /\ \A i \in 1..(p - 1 - 1 + 1) : a[i] = s[1 + i - 1]
    BY <1>1, <2>1, SubSeqProperties
  <2> HIDE DEF a
  <2>3. QED
    BY <1>1, <2>2
<1>3. /\ b \in Seq(S) /\ Len(b) = Len(s) - p
      /\ \A i \in 1..(Len(s) - p) : b[i] = s[p + i]
  <2>1. \A i \in (p + 1)..Len(s) : s[i] \in S
    BY <1>1
  <2>2. /\ b \in Seq(S)
        /\ Len(b) = (IF p + 1 <= Len(s) THEN Len(s) - (p + 1) + 1 ELSE 0)
        /\ \A i \in 1..(Len(s) - (p + 1) + 1) : b[i] = s[(p + 1) + i - 1]
    BY <1>1, <2>1, SubSeqProperties
  <2> HIDE DEF b
  <2>3. QED
    BY <1>1, <2>2
<1>4. RemoveAt(s, p) = a \o b
  BY DEF RemoveAt
<1> HIDE DEF a, b
<1>5. /\ a \o b \in Seq(S) /\ Len(a \o b) = Len(a) + Len(b)
      /\ \A i \in 1..(Len(a) + Len(b)) :
            (a \o b)[i] = IF i <= Len(a) THEN a[i] ELSE b[i - Len(a)]
  BY <1>2, <1>3, ConcatProperties
<1>6. ASSUME NEW i \in 1..(Len(s) - 1)
      PROVE  (a \o b)[i] = IF i < p THEN s[i] ELSE s[i + 1]
  <2>1. i \in 1..(Len(a) + Len(b))
    BY <1>1, <1>2, <1>3
  <2>2. CASE i < p
    <3>1. i <= Len(a) /\ i \in 1..(p - 1)
      BY <1>1, <1>2, <2>2
    <3>2. QED
      BY <1>2, <1>5, <2>1, <2>2, <3>1
  <2>3. CASE ~ (i < p)
    <3>1. ~ (i <= Len(a)) /\ i - Len(a) \in 1..(Len(s) - p) /\ p + (i - Len(a)) = i + 1
      BY <1>1, <1>2, <2>3
    <3>2. QED
      BY <1>3, <1>5, <2>1, <2>3, <3>1
  <2>4. QED
    BY <2>2, <2>3
<1>7. QED
  BY <1>1, <1>2, <1>3, <1>4, <1>5, <1>6

\* Putting an element at the end in place of the one at p.
LEMMA MovedToEnd ==
    ASSUME NEW S, NEW s \in Seq(S), NEW p \in 1..Len(s), NEW e \in S
    PROVE  /\ Append(RemoveAt(s, p), e) \in Seq(S)
           /\ Len(s) \in Nat /\ Len(Append(RemoveAt(s, p), e)) = Len(s)
           /\ \A i \in 1..(Len(s) - 1) :
                 Append(RemoveAt(s, p), e)[i] = IF i < p THEN s[i] ELSE s[i + 1]
           /\ Append(RemoveAt(s, p), e)[Len(s)] = e
<1> DEFINE r == RemoveAt(s, p)
           t == Append(r, e)
<1>1. /\ r \in Seq(S) /\ Len(s) \in Nat /\ Len(r) = Len(s) - 1
      /\ \A i \in 1..(Len(s) - 1) : r[i] = IF i < p THEN s[i] ELSE s[i + 1]
  BY RemoveAtIs
<1> HIDE DEF r
<1>2. /\ t \in Seq(S) /\ Len(t) = Len(r) + 1 /\ t[Len(r) + 1] = e
      /\ \A i \in 1..Len(r) : t[i] = r[i]
  BY <1>1, AppendProperties
<1> HIDE DEF t
<1>3. /\ t \in Seq(S) /\ Len(s) \in Nat /\ Len(t) = Len(s)
      /\ \A i \in 1..(Len(s) - 1) : t[i] = IF i < p THEN s[i] ELSE s[i + 1]
      /\ t[Len(s)] = e
  BY <1>1, <1>2
<1>4. QED
  BY <1>3 DEF t, r

\* The items of a sequence are its head and those of its tail.
LEMMA HeadRange ==
    ASSUME NEW S, NEW s \in Seq(S), s # <<>>
    PROVE  Range(s) = {Head(s)} \cup Range(Tail(s)) /\ Head(s) \in S /\ Tail(s) \in Seq(S)
<1>1. Tail(s) \in Seq(S) /\ Head(s) \in S /\ <<Head(s)>> \in Seq(S) /\ s = <<Head(s)>> \o Tail(s)
  <2>1. Head(s) \in S /\ Tail(s) \in Seq(S)
    BY HeadTailProperties
  <2>2. <<>> \in Seq(S) /\ Append(<<>>, Head(s)) = <<Head(s)>>
    BY EmptySeq
  <2>3. Append(<<>>, Head(s)) \o Tail(s) = <<>> \o s
    BY <2>2, HeadMoves
  <2>4. <<>> \o s = s
    BY ConcatEmptySeq
  <2>5. <<Head(s)>> \in Seq(S)
    BY <2>1
  <2>6. QED
    BY <2>1, <2>2, <2>3, <2>4, <2>5
<1>2. Range(s) = Range(<<Head(s)>>) \cup Range(Tail(s))
  BY <1>1, RangeConcatenation
<1>3. Range(<<Head(s)>>) = {Head(s)}
  <2>1. <<>> \in Seq(S) /\ Append(<<>>, Head(s)) = <<Head(s)>>
    BY EmptySeq
  <2>2. Range(Append(<<>>, Head(s))) = Range(<<>>) \cup {Head(s)}
    <3> DEFINE e == <<>>
    <3>1. e \in Seq(S)
      BY <2>1
    <3> HIDE DEF e
    <3>2. Range(Append(e, Head(s))) = Range(e) \cup {Head(s)}
      BY <1>1, <3>1, AppendRange
    <3>3. QED
      BY <3>2 DEF e
  <2>3. QED
    BY <2>1, <2>2, RangeOfEmpty
<1>4. QED
  BY <1>1, <1>2, <1>3

LEMMA EmptyIsInjective == IsInjective(<<>>)
BY DEF IsInjective

\* A new item keeps the items of a sequence distinct.
LEMMA InjectiveAppend ==
    ASSUME NEW S, NEW s \in Seq(S), NEW e \in S, IsInjective(s), e \notin Range(s)
    PROVE  IsInjective(Append(s, e))
<1>1. /\ Append(s, e) \in Seq(S) /\ Len(Append(s, e)) = Len(s) + 1
      /\ \A i \in 1..Len(s) : Append(s, e)[i] = s[i]
      /\ Append(s, e)[Len(s) + 1] = e
      /\ DOMAIN s = 1..Len(s) /\ Len(s) \in Nat
      /\ Range(s) = {s[i] : i \in 1..Len(s)}
  BY AppendProperties, LenProperties, RangeEquality
<1>2. DOMAIN Append(s, e) = 1..Len(Append(s, e))
  BY <1>1, LenProperties
<1>3. DOMAIN Append(s, e) = 1..(Len(s) + 1)
  BY <1>1, <1>2
<1>4. \A i \in 1..Len(s) : s[i] # e
  BY <1>1
<1>5. \A i, j \in 1..Len(s) : s[i] = s[j] => i = j
  BY <1>1 DEF IsInjective
<1>6. SUFFICES ASSUME NEW i \in 1..(Len(s) + 1), NEW j \in 1..(Len(s) + 1),
                      Append(s, e)[i] = Append(s, e)[j]
               PROVE  i = j
  BY <1>3 DEF IsInjective
<1>7. (i \in 1..Len(s) \/ i = Len(s) + 1) /\ (j \in 1..Len(s) \/ j = Len(s) + 1)
  BY <1>1
<1>8. QED
  BY <1>1, <1>4, <1>5, <1>6, <1>7

\* The head of a sequence of distinct items does not occur in its tail.
LEMMA InjectiveTail ==
    ASSUME NEW S, NEW s \in Seq(S), s # <<>>, IsInjective(s)
    PROVE  IsInjective(Tail(s)) /\ Head(s) \notin Range(Tail(s))
<1>1. /\ Tail(s) \in Seq(S) /\ Len(Tail(s)) = Len(s) - 1
      /\ \A i \in 1..Len(Tail(s)) : Tail(s)[i] = s[i + 1]
      /\ Head(s) = s[1] /\ DOMAIN s = 1..Len(s) /\ Len(s) \in Nat /\ Len(s) >= 1
  BY HeadTailProperties, LenProperties, EmptySeq
<1>2. DOMAIN Tail(s) = 1..Len(Tail(s)) /\ Range(Tail(s)) = {Tail(s)[i] : i \in 1..Len(Tail(s))}
  BY <1>1, LenProperties, RangeEquality
<1>3. \A i \in 1..Len(Tail(s)) : i + 1 \in 1..Len(s) /\ i + 1 # 1 /\ 1 \in 1..Len(s)
  BY <1>1
<1>4. \A i, j \in 1..Len(s) : s[i] = s[j] => i = j
  BY <1>1 DEF IsInjective
<1>5. IsInjective(Tail(s))
  <2> SUFFICES ASSUME NEW i \in 1..Len(Tail(s)), NEW j \in 1..Len(Tail(s)),
                      Tail(s)[i] = Tail(s)[j]
               PROVE  i = j
    BY <1>2 DEF IsInjective
  <2>1. s[i + 1] = s[j + 1]
    BY <1>1
  <2>2. i + 1 = j + 1
    BY <1>3, <1>4, <2>1
  <2>3. i \in Int /\ j \in Int
    OBVIOUS
  <2>4. QED
    BY <2>2, <2>3
<1>6. Head(s) \notin Range(Tail(s))
  BY <1>1, <1>2, <1>3, <1>4
<1>7. QED
  BY <1>5, <1>6

\* What a sequence keeps when it is cut after its first k items.
LEMMA PrefixIs ==
    ASSUME NEW S, NEW s \in Seq(S), NEW k \in 0..Len(s)
    PROVE  /\ SubSeq(s, 1, k) \in Seq(S) /\ Len(SubSeq(s, 1, k)) = k
           /\ \A i \in 1..k : SubSeq(s, 1, k)[i] = s[i]
           /\ Range(SubSeq(s, 1, k)) \subseteq Range(s)
           /\ IsInjective(s) => IsInjective(SubSeq(s, 1, k))
<1> DEFINE t == SubSeq(s, 1, k)
<1>1. Len(s) \in Nat /\ DOMAIN s = 1..Len(s) /\ Range(s) = {s[i] : i \in 1..Len(s)}
  BY LenProperties, RangeEquality
<1>2. \A i \in 1..k : s[i] \in S
  BY <1>1, ElementOfSeq
<1>3. t \in Seq(S) /\ Len(t) = (IF 1 <= k THEN (k - 1) + 1 ELSE 0)
      /\ \A i \in 1..((k - 1) + 1) : t[i] = s[(1 + i) - 1]
  BY <1>1, <1>2, SubSeqProperties
<1> HIDE DEF t
<1>4. Len(t) = k /\ \A i \in 1..k : t[i] = s[i] /\ i \in 1..Len(s)
  BY <1>1, <1>3
<1>5. DOMAIN t = 1..k /\ Range(t) = {t[i] : i \in 1..k}
  BY <1>3, <1>4, LenProperties, RangeEquality
<1>6. Range(t) \subseteq Range(s)
  BY <1>1, <1>4, <1>5
<1>7. IsInjective(s) => IsInjective(t)
  BY <1>1, <1>4, <1>5 DEF IsInjective
<1>8. QED
  BY <1>3, <1>4, <1>6, <1>7 DEF t

\* A sequence has finitely many items, as many as its length when they differ.
LEMMA SizeOfRange ==
    ASSUME NEW S, NEW s \in Seq(S)
    PROVE  /\ IsFiniteSet(Range(s)) /\ Cardinality(Range(s)) \in Nat
           /\ IsInjective(s) => Cardinality(Range(s)) = Len(s)
<1>1. /\ Len(s) \in Nat /\ DOMAIN s = 1..Len(s) /\ s \in [1..Len(s) -> S]
      /\ Range(s) = {s[i] : i \in 1..Len(s)}
  BY LenProperties, RangeEquality
<1>2. IsFiniteSet(1..Len(s)) /\ Cardinality(1..Len(s)) = Len(s)
  <2>1. Len(s) \in Int /\ 1 \in Int
    BY <1>1
  <2>2. /\ IsFiniteSet(1..Len(s))
        /\ Cardinality(1..Len(s)) = IF 1 > Len(s) THEN 0 ELSE (Len(s) - 1) + 1
    BY <2>1, FS_Interval
  <2>3. QED
    BY <1>1, <2>2
<1>3. s \in [1..Len(s) -> Range(s)]
  BY <1>1
<1>4. s \in Surjection(1..Len(s), Range(s))
  BY <1>1, <1>3 DEF Surjection
<1>5. IsFiniteSet(Range(s))
  BY <1>2, <1>4, FS_Surjection
<1>6. ASSUME IsInjective(s) PROVE Cardinality(Range(s)) = Len(s)
  <2>1. s \in Bijection(1..Len(s), Range(s))
    BY <1>1, <1>3, <1>4, <1>6 DEF Bijection, Injection, IsInjective
  <2>2. ExistsBijection(1..Len(s), Range(s))
    BY <2>1 DEF ExistsBijection
  <2>3. QED
    BY <1>2, <2>2, FS_Bijection
<1>7. QED
  BY <1>5, <1>6, FS_CardinalityType

-----------------------------------------------------------------------------
(* Induction and recursion up to a bound.                                  *)

\* Induction up to a bound, for a set of numbers.
LEMMA InductionUpTo ==
    ASSUME NEW n \in Nat, NEW G, 0 \in G, \A i \in 1..n : i - 1 \in G => i \in G
    PROVE  \A i \in 0..n : i \in G
<1> DEFINE Missing == {i \in 0..n : i \notin G}
<1> SUFFICES ASSUME Missing # {} PROVE FALSE
  OBVIOUS
<1>1. Missing \subseteq Nat
  OBVIOUS
<1> HIDE DEF Missing
<1>2. PICK m \in Missing : \A k \in Missing : m <= k
  BY <1>1, Minimum
<1>3. m \in 0..n /\ m \notin G /\ m # 0
  BY <1>2 DEF Missing
<1>4. m - 1 \in 0..n /\ m - 1 \notin Missing /\ m \in 1..n
  BY <1>2, <1>3
<1>5. QED
  BY <1>3, <1>4 DEF Missing

\* h is the recursion over 0..n from b whose step at i is the function g[i].
Recurs(T, b, n, g, h) ==
    /\ h \in [0..n -> T]
    /\ h[0] = b /\ \A i \in 1..n : h[i] = g[i][h[i - 1]]

\* A recursion over 0..n whose step at i is the function g[i] has a solution.
LEMMA RecursionExists ==
    ASSUME NEW T, NEW b \in T, NEW n \in Nat, NEW g \in [1..n -> [T -> T]]
    PROVE  \E h : Recurs(T, b, n, g, h)
<1> DEFINE Upto(k) == \E h \in [0..k -> T] : h[0] = b /\ \A i \in 1..k : h[i] = g[i][h[i - 1]]
           G == {k \in 0..n : Upto(k)}
<1>1. Upto(0)
  <2> DEFINE h == [i \in 0..0 |-> b]
  <2>1. h \in [0..0 -> T] /\ h[0] = b /\ \A i \in 1..0 : FALSE
    OBVIOUS
  <2>2. QED
    BY <2>1
<1>2. ASSUME NEW k \in 1..n, Upto(k - 1) PROVE Upto(k)
  <2>1. PICK f \in [0..(k - 1) -> T] : f[0] = b /\ \A i \in 1..(k - 1) : f[i] = g[i][f[i - 1]]
    BY <1>2
  <2> DEFINE h == [i \in 0..k |-> IF i = k THEN g[k][f[k - 1]] ELSE f[i]]
  <2>2. g[k][f[k - 1]] \in T
    <3>1. f[k - 1] \in T
      BY <2>1
    <3>2. QED
      BY <3>1
  <2>3. h \in [0..k -> T]
    <3>1. \A i \in 0..k : i = k \/ i \in 0..(k - 1)
      OBVIOUS
    <3>2. \A i \in 0..(k - 1) : f[i] \in T
      BY <2>1
    <3>3. QED
      BY <2>2, <3>1, <3>2
  <2>4. h[0] = b
    BY <2>1
  <2>5. ASSUME NEW i \in 1..k PROVE h[i] = g[i][h[i - 1]]
    <3>1. i - 1 \in 0..k /\ i - 1 # k /\ h[i - 1] = f[i - 1]
      OBVIOUS
    <3>2. CASE i = k
      BY <3>1, <3>2
    <3>3. CASE i # k
      <4>1. i \in 1..(k - 1) /\ h[i] = f[i]
        BY <3>3
      <4>2. QED
        BY <2>1, <3>1, <4>1
    <3>4. QED
      BY <3>2, <3>3
  <2> HIDE DEF h
  <2>6. QED
    BY <2>3, <2>4, <2>5
<1>3. 0 \in G /\ \A k \in 1..n : k - 1 \in G => k \in G
  <2>1. 0 \in 0..n /\ \A k \in 1..n : k \in 0..n
    OBVIOUS
  <2>2. 0 \in G
    BY <1>1, <2>1
  <2>3. ASSUME NEW k \in 1..n, k - 1 \in G PROVE k \in G
    <3>1. Upto(k - 1)
      BY <2>3
    <3>2. Upto(k)
      BY <1>2, <3>1
    <3>3. QED
      BY <2>1, <3>2
  <2>4. QED
    BY <2>2, <2>3
<1> HIDE DEF G
<1>4. n \in G
  <2>1. \A k \in 0..n : k \in G
    BY <1>3, InductionUpTo
  <2>2. QED
    BY <2>1
<1>5. QED
  BY <1>4 DEF G, Recurs

\* Induction from a bound down to 1, whatever smaller steps the argument takes.
LEMMA InductionDown ==
    ASSUME NEW n \in Nat, NEW G, n + 1 \in G,
           \A i \in 1..n : (\A j \in (i + 1)..(n + 1) : j \in G) => i \in G
    PROVE  \A i \in 1..(n + 1) : i \in G
<1> DEFINE H == {k \in 0..n : \A j \in (n + 1 - k)..(n + 1) : j \in G}
<1>1. 0 \in H
  <2>1. \A j \in (n + 1 - 0)..(n + 1) : j = n + 1
    OBVIOUS
  <2>2. QED
    BY <2>1
<1>2. ASSUME NEW k \in 1..n, k - 1 \in H PROVE k \in H
  <2> DEFINE i == n + 1 - k
  <2>1. i \in 1..n /\ n + 1 - (k - 1) = i + 1
    OBVIOUS
  <2>2. \A j \in (i + 1)..(n + 1) : j \in G
    BY <1>2, <2>1
  <2>3. i \in G
    BY <2>1, <2>2
  <2>4. \A j \in i..(n + 1) : j = i \/ j \in (i + 1)..(n + 1)
    OBVIOUS
  <2>5. \A j \in i..(n + 1) : j \in G
    BY <2>2, <2>3, <2>4
  <2>6. QED
    BY <2>5
<1> HIDE DEF H
<1>3. n \in H
  <2>1. \A k \in 0..n : k \in H
    BY <1>1, <1>2, InductionUpTo
  <2>2. QED
    BY <2>1
<1>4. n + 1 - n = 1
  OBVIOUS
<1>5. QED
  BY <1>3, <1>4 DEF H

\* Where each step of a recursion over 1..n takes what it continues from.
Jumps(n, next) == next \in [1..n -> 1..(n + 1)] /\ \A i \in 1..n : i < next[i]

\* h is the recursion from n + 1 down, whose step at i starts from next[i].
Solves(T, b, n, next, g, h) ==
    /\ h \in [1..(n + 1) -> T]
    /\ h[n + 1] = b /\ \A i \in 1..n : h[i] = g[i][h[next[i]]]

\* Such a recursion has a solution.
LEMMA JumpsExist ==
    ASSUME NEW T, NEW b \in T, NEW n \in Nat, NEW next, Jumps(n, next),
           NEW g \in [1..n -> [T -> T]]
    PROVE  \E h : Solves(T, b, n, next, g, h)
<1> USE DEF Jumps
<1> DEFINE From(k) == \E h \in [(n + 1 - k)..(n + 1) -> T] :
                         h[n + 1] = b /\ \A i \in (n + 1 - k)..n : h[i] = g[i][h[next[i]]]
           G == {k \in 0..n : From(k)}
<1>1. From(0)
  <2> DEFINE h == [i \in (n + 1 - 0)..(n + 1) |-> b]
  <2>1. h \in [(n + 1 - 0)..(n + 1) -> T] /\ h[n + 1] = b /\ \A i \in (n + 1 - 0)..n : FALSE
    OBVIOUS
  <2> HIDE DEF h
  <2>2. QED
    BY <2>1
<1>2. ASSUME NEW k \in 1..n, From(k - 1) PROVE From(k)
  <2> DEFINE m == n + 1 - k
  <2>1. m \in 1..n /\ n + 1 - (k - 1) = m + 1 /\ next[m] \in (m + 1)..(n + 1)
    <3>1. m \in 1..n
      OBVIOUS
    <3>2. next[m] \in 1..(n + 1) /\ m < next[m]
      BY <3>1
    <3>3. QED
      BY <3>1, <3>2
  <2>2. PICK f \in [(m + 1)..(n + 1) -> T] :
           f[n + 1] = b /\ \A i \in (m + 1)..n : f[i] = g[i][f[next[i]]]
    BY <1>2, <2>1
  <2> HIDE DEF m
  <2> DEFINE h == [i \in m..(n + 1) |-> IF i = m THEN g[m][f[next[m]]] ELSE f[i]]
  <2>3. g[m][f[next[m]]] \in T
    <3>1. f[next[m]] \in T
      BY <2>1, <2>2
    <3>2. QED
      BY <2>1, <3>1
  <2>4. \A i \in m..(n + 1) : i = m \/ i \in (m + 1)..(n + 1)
    BY <2>1
  <2>5. h \in [m..(n + 1) -> T]
    <3>1. \A i \in (m + 1)..(n + 1) : f[i] \in T
      BY <2>2
    <3>2. QED
      BY <2>3, <2>4, <3>1
  <2>6. \A i \in (m + 1)..(n + 1) : h[i] = f[i]
    BY <2>1
  <2>7. h[m] = g[m][f[next[m]]]
    BY <2>1
  <2> HIDE DEF h
  <2>8. h[n + 1] = b
    <3>1. n + 1 \in (m + 1)..(n + 1)
      BY <2>1
    <3>2. QED
      BY <2>2, <2>6, <3>1
  <2>9. ASSUME NEW i \in m..n PROVE h[i] = g[i][h[next[i]]]
    <3>1. i \in 1..n /\ next[i] \in (i + 1)..(n + 1) /\ next[i] \in (m + 1)..(n + 1)
      <4>1. i \in 1..n
        BY <2>1
      <4>2. next[i] \in 1..(n + 1) /\ i < next[i]
        BY <4>1
      <4>3. QED
        BY <2>1, <4>1, <4>2
    <3>2. h[next[i]] = f[next[i]]
      BY <2>6, <3>1
    <3>3. CASE i = m
      BY <2>7, <3>2, <3>3
    <3>4. CASE i # m
      <4>1. i \in (m + 1)..n /\ i \in (m + 1)..(n + 1)
        BY <2>1, <3>4
      <4>2. QED
        BY <2>2, <2>6, <3>2, <4>1
    <3>5. QED
      BY <3>3, <3>4
  <2>10. QED
    BY <2>5, <2>8, <2>9 DEF m
<1>3. 0 \in G /\ \A k \in 1..n : k - 1 \in G => k \in G
  <2>1. 0 \in 0..n /\ \A k \in 1..n : k \in 0..n
    OBVIOUS
  <2>2. 0 \in G
    BY <1>1, <2>1
  <2>3. ASSUME NEW k \in 1..n, k - 1 \in G PROVE k \in G
    <3>1. From(k - 1)
      BY <2>3
    <3>2. From(k)
      BY <1>2, <3>1
    <3>3. QED
      BY <2>1, <3>2
  <2>4. QED
    BY <2>2, <2>3
<1> HIDE DEF G
<1>4. n \in G
  <2>1. \A k \in 0..n : k \in G
    BY <1>3, InductionUpTo
  <2>2. QED
    BY <2>1
<1>5. From(n) /\ n + 1 - n = 1
  BY <1>4 DEF G
<1>6. QED
  BY <1>5 DEF Solves
===============================================================================
