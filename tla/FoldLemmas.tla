------------------------------- MODULE FoldLemmas -------------------------------
(***************************************************************************)
(* Lemmas about sequences and folds that know nothing of easy_http.        *)
(*                                                                         *)
(* Induction is used as a fact about sets: a set of naturals, or of        *)
(* sequences, with the first element and with the successor of each of its *)
(* elements is all of them.  FoldLeft, which the community modules define  *)
(* by a recursive function on sets of positions, and FlattenSeq, a         *)
(* FoldRight, are shown to be what one step per element gives.             *)
(***************************************************************************)
EXTENDS SequencesExt, SequenceTheorems, WellFoundedInduction, TLAPS

\* Induction over the natural numbers, as a fact about a set.
LEMMA NatSetInduction ==
  ASSUME NEW T, 0 \in T, \A n \in Nat : n \in T => n + 1 \in T
  PROVE  Nat \subseteq T
<1> DEFINE Less == OpToRel(<, Nat)
           Others == Nat \ T
<1>1. SUFFICES ASSUME Others # {} PROVE FALSE
  OBVIOUS
<1>2. IsWellFoundedOn(Less, Nat)
  BY NatLessThanWellFounded
<1> HIDE DEF Less
<1>3. PICK n \in Others : \A m \in Others : ~ <<m, n>> \in Less
  BY <1>1, <1>2, WFMin
<1>4. \A m \in Nat : m < n => <<m, n>> \in Less
  BY <1>3 DEF Less, OpToRel
<1>5. n - 1 \in Nat /\ n - 1 < n
  BY <1>3
<1>6. n - 1 \in T
  BY <1>3, <1>4, <1>5
<1>7. QED
  BY <1>3, <1>5, <1>6

\* A set of positions has a greatest one ...
LEMMA MaxOfRange ==
  ASSUME NEW n \in Nat, NEW s \in SUBSET (1..n), s # {}
  PROVE  Max(s) \in s /\ \A i \in s : i <= Max(s)
<1> DEFINE T == {k \in Nat : \A r \in SUBSET (1..k) : r # {} => \E m \in r : \A i \in r : m >= i}
<1>1. 0 \in T
  <2>1. 1..0 = {}
    OBVIOUS
  <2>2. QED
    BY <2>1
<1>2. ASSUME NEW k \in Nat, k \in T PROVE k + 1 \in T
  <2> SUFFICES ASSUME NEW r \in SUBSET (1..(k + 1)), r # {}
               PROVE  \E m \in r : \A i \in r : m >= i
    OBVIOUS
  <2>1. CASE k + 1 \in r
    BY <2>1
  <2>2. CASE k + 1 \notin r
    <3>1. r \in SUBSET (1..k)
      BY <2>2
    <3>2. QED
      BY <1>2, <3>1
  <2>3. QED
    BY <2>1, <2>2
<1> HIDE DEF T
<1>3. n \in T
  BY <1>1, <1>2, NatSetInduction
<1>4. \E m \in s : \A i \in s : m >= i
  BY <1>3 DEF T
<1>5. QED
  BY <1>4 DEF Max

\* ... and a least one.
LEMMA MinOfRange ==
  ASSUME NEW n \in Nat, NEW s \in SUBSET (1..n), s # {}
  PROVE  Min(s) \in s /\ \A i \in s : Min(s) <= i
<1> DEFINE t == {i \in 1..n : n + 1 - i \in s}
<1>1. t \in SUBSET (1..n) /\ t # {}
  <2>1. PICK i \in s : TRUE
    OBVIOUS
  <2>2. n + 1 - i \in 1..n /\ n + 1 - (n + 1 - i) = i
    OBVIOUS
  <2>3. QED
    BY <2>1, <2>2
<1>2. \A i \in s : n + 1 - i \in t
  <2>1. \A i \in s : n + 1 - i \in 1..n /\ n + 1 - (n + 1 - i) = i
    OBVIOUS
  <2>2. QED
    BY <2>1
<1>3. \A i \in t : i \in 1..n /\ n + 1 - i \in s
  OBVIOUS
<1> HIDE DEF t
<1>4. Max(t) \in t /\ \A i \in t : i <= Max(t)
  BY <1>1, MaxOfRange
<1> DEFINE m == n + 1 - Max(t)
<1>5. m \in s /\ \A i \in s : m <= i
  BY <1>2, <1>3, <1>4
<1> HIDE DEF m
<1>6. QED
  BY <1>5 DEF Min

\* Of some positions the greatest is one, and its element is one of the sequence's.
LEMMA MaxOfPositions ==
  ASSUME NEW X, NEW seq \in Seq(X), NEW s \in SUBSET DOMAIN seq, s # {}
  PROVE  Max(s) \in s /\ seq[Max(s)] \in X
<1>1. Len(seq) \in Nat /\ DOMAIN seq = 1..Len(seq)
  OBVIOUS
<1>2. Max(s) \in s
  BY <1>1, MaxOfRange
<1>3. QED
  BY <1>2

-----------------------------------------------------------------------------
\* Sequences.  The provers compare Append and \o position by position; under names of
\* their own they stay the terms that the lemmas are about.
Nil        == << >>
Add(s, x)  == Append(s, x)
Cat(s, t)  == s \o t
One(x)      == <<x>>

LEMMA NilProperties ==
  ASSUME NEW X
  PROVE  /\ Nil \in Seq(X) /\ DOMAIN Nil = {}
         /\ \A s \in Seq(X) : Cat(s, Nil) = s /\ Cat(Nil, s) = s
  BY EmptySeq, ConcatEmptySeq DEF Nil, Cat

\* t is s and x after it.
Extends(t, s, x) ==
    /\ Len(s) \in Nat /\ Len(t) = Len(s) + 1
    /\ DOMAIN s = 1..Len(s) /\ DOMAIN t = 1..Len(t)
    /\ \A i \in 1..Len(s) : t[i] = s[i]
    /\ t[Len(t)] = x

\* Add is known by its positions, and is what extends a sequence by one.
LEMMA AddExtends ==
  ASSUME NEW X, NEW s \in Seq(X), NEW x \in X
  PROVE  Add(s, x) \in Seq(X) /\ Add(s, x) # Nil /\ Extends(Add(s, x), s, x)
<1> DEFINE t == Append(s, x)
<1>1. /\ t \in Seq(X) /\ t # << >> /\ Len(t) = Len(s) + 1
      /\ \A i \in 1..Len(s) : t[i] = s[i]
      /\ t[Len(s) + 1] = x
  BY AppendProperties
<1> HIDE DEF t
<1>2. Len(s) \in Nat /\ DOMAIN s = 1..Len(s) /\ DOMAIN t = 1..Len(t)
  BY <1>1, LenProperties
<1>3. Add(s, x) = t
  BY Zenon DEF Add, t
<1>4. QED
  BY <1>1, <1>2, <1>3 DEF Nil, Extends

LEMMA AddProperties ==
  ASSUME NEW X, NEW s \in Seq(X), NEW x \in X
  PROVE  /\ Add(s, x) \in Seq(X) /\ Add(s, x) # Nil
         /\ Len(s) \in Nat /\ Len(Add(s, x)) = Len(s) + 1
         /\ DOMAIN s = 1..Len(s) /\ DOMAIN Add(s, x) = 1..(Len(s) + 1)
         /\ \A i \in 1..Len(s) : Add(s, x)[i] = s[i]
         /\ Add(s, x)[Len(s) + 1] = x
<1> DEFINE t == Add(s, x)
<1>1. t \in Seq(X) /\ t # Nil /\ Extends(t, s, x)
  BY AddExtends, Zenon
<1> HIDE DEF t
<1>2. QED
  BY <1>1 DEF Extends, t

LEMMA ExtendsIsAdd ==
  ASSUME NEW X, NEW t \in Seq(X), NEW s \in Seq(X), NEW x \in X, Extends(t, s, x)
  PROVE  t = Add(s, x)
<1> DEFINE w == Add(s, x)
<1>1. w \in Seq(X) /\ Extends(w, s, x)
  BY AddExtends, Zenon
<1> HIDE DEF w
<1>2. Len(t) = Len(w) /\ Len(t) \in Nat
  BY <1>1 DEF Extends
<1>3. \A i \in 1..Len(t) : t[i] = w[i]
  <2> SUFFICES ASSUME NEW i \in 1..Len(t) PROVE t[i] = w[i]
    OBVIOUS
  <2>1. CASE i = Len(t)
    BY <1>1, <2>1 DEF Extends
  <2>2. CASE i # Len(t)
    <3>1. i \in 1..Len(s)
      BY <2>2 DEF Extends
    <3>2. QED
      BY <1>1, <3>1 DEF Extends
  <2>3. QED
    BY <2>1, <2>2
<1>4. QED
  BY <1>1, <1>2, <1>3, SeqEqual DEF w

LEMMA LastOfAdd ==
  ASSUME NEW X, NEW s \in Seq(X), NEW x \in X
  PROVE  Add(s, x)[Len(Add(s, x))] = x
<1>1. Extends(Add(s, x), s, x)
  BY AddExtends, Zenon
<1>2. QED
  BY <1>1, Zenon DEF Extends

\* What was added can be told from the sum.
LEMMA AddInjective ==
  ASSUME NEW X, NEW s \in Seq(X), NEW x \in X, NEW t \in Seq(X), NEW y \in X,
         Add(s, x) = Add(t, y)
  PROVE  s = t /\ x = y
  BY AppendInjective DEF Add

LEMMA CatType ==
  ASSUME NEW X, NEW s \in Seq(X), NEW t \in Seq(X)
  PROVE  Cat(s, t) \in Seq(X)
  BY ConcatProperties DEF Cat

LEMMA CatAssociative ==
  ASSUME NEW X, NEW s \in Seq(X), NEW t \in Seq(X), NEW u \in Seq(X)
  PROVE  Cat(Cat(s, t), u) = Cat(s, Cat(t, u))
  BY ConcatAssociative DEF Cat

LEMMA CatAdd ==
  ASSUME NEW X, NEW s \in Seq(X), NEW t \in Seq(X), NEW x \in X
  PROVE  /\ Cat(s, Add(t, x)) = Add(Cat(s, t), x)
         /\ Cat(s, One(x)) = Add(s, x)
         /\ One(x) \in Seq(X) /\ One(x) = Add(Nil, x)
<1>1. One(x) \in Seq(X)
  BY DEF One
<1>2. \A u \in Seq(X) : Add(u, x) = Cat(u, One(x))
  BY AppendIsConcat, Zenon DEF Add, Cat, One
<1>3. /\ Add(Cat(s, t), x) = Cat(Cat(s, t), One(x))
      /\ Add(t, x) = Cat(t, One(x)) /\ Add(s, x) = Cat(s, One(x))
      /\ Add(Nil, x) = Cat(Nil, One(x))
  BY <1>2, CatType, NilProperties
<1>4. Cat(s, Add(t, x)) = Add(Cat(s, t), x)
  BY <1>1, <1>3, CatAssociative
<1>5. Cat(Nil, One(x)) = One(x)
  BY <1>1, NilProperties
<1>6. QED
  BY <1>1, <1>3, <1>4, <1>5

\* u is s and t after it.
Joins(u, s, t) ==
    /\ Len(s) \in Nat /\ Len(t) \in Nat /\ Len(u) = Len(s) + Len(t)
    /\ DOMAIN s = 1..Len(s) /\ DOMAIN t = 1..Len(t) /\ DOMAIN u = 1..(Len(s) + Len(t))
    /\ \A i \in 1..Len(s) : u[i] = s[i]
    /\ \A i \in 1..Len(t) : u[Len(s) + i] = t[i]

LEMMA CatJoins ==
  ASSUME NEW X, NEW s \in Seq(X), NEW t \in Seq(X)
  PROVE  Cat(s, t) \in Seq(X) /\ Joins(Cat(s, t), s, t)
  BY DEF Cat, Joins

\* A sequence is empty or has a last element.
LEMMA NilOrAdd ==
  ASSUME NEW X, NEW s \in Seq(X), s # Nil
  PROVE  \E t \in Seq(X), x \in X : s = Add(t, x)
<1>1. PICK t \in Seq(X), x \in X : s = Append(t, x)
  BY SequenceEmptyOrAppend DEF Nil
<1>2. QED
  BY <1>1, Zenon DEF Add

\* Induction over sequences, by their last elements.
LEMMA SeqSetInduction ==
  ASSUME NEW X, NEW T, Nil \in T,
         \A s \in Seq(X) : s \in T => \A x \in X : Add(s, x) \in T
  PROVE  Seq(X) \subseteq T
<1> DEFINE Lens == {n \in Nat : \A s \in Seq(X) : Len(s) = n => s \in T}
<1>1. 0 \in Lens
  <2>1. ASSUME NEW s \in Seq(X), Len(s) = 0 PROVE s \in T
    BY <2>1, EmptySeq DEF Nil
  <2>2. QED
    BY <2>1
<1>2. ASSUME NEW n \in Nat, n \in Lens PROVE n + 1 \in Lens
  <2>1. ASSUME NEW s \in Seq(X), Len(s) = n + 1 PROVE s \in T
    <3>1. s # Nil
      BY <2>1, EmptySeq DEF Nil
    <3>2. PICK t \in Seq(X), x \in X : s = Add(t, x)
      BY <3>1, NilOrAdd
    <3>3. Len(t) = n
      BY <2>1, <3>2, AddProperties
    <3>4. QED
      BY <1>2, <3>2, <3>3
  <2>2. QED
    BY <2>1
<1> HIDE DEF Lens
<1>3. Nat \subseteq Lens
  BY <1>1, <1>2, NatSetInduction
<1>4. QED
  BY <1>3, LenProperties DEF Lens

SetLast(t, g) == [t EXCEPT ![Len(t)] = g]

LEMMA SetLastOfAdd ==
  ASSUME NEW S, NEW s \in Seq(S), NEW e \in S, NEW g \in S
  PROVE  SetLast(Add(s, e), g) = Add(s, g)
<1> DEFINE n == Len(s) + 1
           t == Add(s, e)
           u == Add(s, g)
           v == [t EXCEPT ![n] = g]
<1>0. /\ t \in Seq(S) /\ Len(t) = n
      /\ u \in Seq(S) /\ Len(u) = n
      /\ \A i \in 1..Len(s) : t[i] = s[i] /\ u[i] = s[i]
      /\ u[n] = g
  BY AddProperties
<1> HIDE DEF t
<1> HIDE DEF u
<1>1. /\ Len(s) \in Nat /\ n \in Nat /\ n = Len(s) + 1 /\ Len(t) = n
      /\ t \in [1..n -> S] /\ u \in [1..n -> S]
      /\ \A i \in 1..Len(s) : t[i] = u[i]
      /\ u[n] = g
  BY <1>0, LenProperties
<1> HIDE DEF n
<1>2. v \in [1..n -> S]
  BY <1>1
<1>3. ASSUME NEW j \in 1..n PROVE v[j] = u[j]
  <2>1. CASE j = n
    BY <1>1, <2>1
  <2>2. CASE j # n
    <3>1. j \in 1..Len(s)
      BY <1>1, <2>2
    <3>2. v[j] = t[j]
      BY <1>1, <2>2
    <3>3. QED
      BY <1>1, <3>1, <3>2
  <2>3. QED
    BY <2>1, <2>2
<1> HIDE DEF v
<1>4. v = u
  BY <1>1, <1>2, <1>3
<1>5. QED
  BY <1>1, <1>4 DEF t, u, v, SetLast

-----------------------------------------------------------------------------
\* F, a step of a fold, stays in St.
Closed(F, St, X) == \A a \in St, x \in X : F[<<a, x>>] \in St

\* What FoldLeft computes, one element after the other.
IsRun(F, base, seq, n, st) ==
    st[0] = base /\ \A k \in 1..n : st[k] = F[<<st[k - 1], seq[k]>>]

Folded(F, St, base, seq) ==
    (CHOOSE st \in [0..Len(seq) -> St] : IsRun(F, base, seq, Len(seq), st))[Len(seq)]

\* Two runs agree ...
LEMMA RunUnique ==
  ASSUME NEW F, NEW base, NEW seq, NEW n \in Nat, NEW st, NEW tt,
         IsRun(F, base, seq, n, st), IsRun(F, base, seq, n, tt)
  PROVE  st[n] = tt[n]
<1> DEFINE T == {k \in Nat : k <= n => st[k] = tt[k]}
<1>1. 0 \in T
  BY DEF IsRun
<1>2. ASSUME NEW k \in Nat, k \in T PROVE k + 1 \in T
  <2> SUFFICES ASSUME k + 1 <= n PROVE st[k + 1] = tt[k + 1]
    OBVIOUS
  <2>1. st[k] = tt[k]
    BY <1>2
  <2>2. k + 1 \in 1..n /\ (k + 1) - 1 = k
    OBVIOUS
  <2>3. QED
    BY <2>1, <2>2 DEF IsRun
<1> HIDE DEF T
<1>3. n \in T
  BY <1>1, <1>2, NatSetInduction
<1>4. QED
  BY <1>3 DEF T

\* ... and there is one.
LEMMA RunExists ==
  ASSUME NEW St, NEW X, NEW F, Closed(F, St, X),
         NEW base \in St, NEW seq \in Seq(X)
  PROVE  \E st \in [0..Len(seq) -> St] : IsRun(F, base, seq, Len(seq), st)
<1> DEFINE Run(k, st) == st[0] = base /\ \A i \in 1..k : st[i] = F[<<st[i - 1], seq[i]>>]
           T == {k \in Nat : k <= Len(seq) => \E st \in [0..k -> St] : Run(k, st)}
<1>0. Len(seq) \in Nat /\ \A i \in 1..Len(seq) : seq[i] \in X
  OBVIOUS
<1>1. 0 \in T
  <2> DEFINE st == [i \in 0..0 |-> base]
  <2>1. st \in [0..0 -> St] /\ Run(0, st)
    OBVIOUS
  <2>2. QED
    BY <2>1
<1>2. ASSUME NEW k \in Nat, k \in T PROVE k + 1 \in T
  <2> SUFFICES ASSUME k + 1 <= Len(seq)
               PROVE  \E st \in [0..(k + 1) -> St] : Run(k + 1, st)
    OBVIOUS
  <2>1. PICK st \in [0..k -> St] : Run(k, st)
    BY <1>0, <1>2
  <2> DEFINE tt == [i \in 0..(k + 1) |-> IF i <= k THEN st[i] ELSE F[<<st[k], seq[k + 1]>>]]
  <2>2. seq[k + 1] \in X
    BY <1>0
  <2>3. F[<<st[k], seq[k + 1]>>] \in St
    BY <2>2
  <2>4. tt \in [0..(k + 1) -> St]
    BY <2>3
  <2>5. Run(k + 1, tt)
    <3>1. tt[0] = base
      BY <2>1
    <3>2. ASSUME NEW i \in 1..(k + 1) PROVE tt[i] = F[<<tt[i - 1], seq[i]>>]
      <4>1. CASE i <= k
        <5>1. i \in 1..k /\ tt[i] = st[i] /\ tt[i - 1] = st[i - 1]
          BY <4>1
        <5>2. QED
          BY <5>1, <2>1
      <4>2. CASE i = k + 1
        <5>1. tt[i] = F[<<st[k], seq[k + 1]>>] /\ i - 1 = k /\ tt[k] = st[k]
          BY <4>2
        <5>2. QED
          BY <5>1, <4>2
      <4>3. QED
        BY <4>1, <4>2
    <3>3. QED
      BY <3>1, <3>2
  <2>6. QED
    BY <2>4, <2>5
<1> HIDE DEF T
<1>3. Len(seq) \in T
  BY <1>0, <1>1, <1>2, NatSetInduction
<1>4. QED
  BY <1>3, <1>0 DEF T, IsRun

\* Without elements it is the base, and the last element comes last.
LEMMA FoldedProperties ==
  ASSUME NEW St, NEW X, NEW F, Closed(F, St, X),
         NEW base \in St
  PROVE  /\ Folded(F, St, base, Nil) = base
         /\ \A seq \in Seq(X) : Folded(F, St, base, seq) \in St
         /\ \A seq \in Seq(X), x \in X :
               Folded(F, St, base, Add(seq, x)) = F[<<Folded(F, St, base, seq), x>>]
<1> DEFINE R(seq) == CHOOSE st \in [0..Len(seq) -> St] : IsRun(F, base, seq, Len(seq), st)
<1>1. ASSUME NEW seq \in Seq(X)
      PROVE  R(seq) \in [0..Len(seq) -> St] /\ IsRun(F, base, seq, Len(seq), R(seq))
  BY RunExists
<1>2. Folded(F, St, base, Nil) = base
  <2>1. Nil \in Seq(X) /\ Len(Nil) = 0
    BY NilProperties DEF Nil
  <2>2. QED
    BY <1>1, <2>1 DEF Folded, IsRun
<1>3. ASSUME NEW seq \in Seq(X)
      PROVE  Folded(F, St, base, seq) \in St
  BY <1>1 DEF Folded
<1>4. ASSUME NEW seq \in Seq(X), NEW x \in X
      PROVE  Folded(F, St, base, Add(seq, x)) = F[<<Folded(F, St, base, seq), x>>]
  <2> DEFINE n == Len(seq)
             tt == R(Add(seq, x))
             st == R(seq)
  <2>1. /\ n \in Nat
        /\ Add(seq, x) \in Seq(X)
        /\ Len(Add(seq, x)) = n + 1
        /\ \A i \in 1..n : Add(seq, x)[i] = seq[i]
        /\ Add(seq, x)[n + 1] = x
    BY AddProperties
  <2>2. /\ tt[0] = base
        /\ \A k \in 1..(n + 1) : tt[k] = F[<<tt[k - 1], Add(seq, x)[k]>>]
    BY <1>1, <2>1 DEF IsRun
  <2>3. st[0] = base /\ \A k \in 1..n : st[k] = F[<<st[k - 1], seq[k]>>]
    BY <1>1 DEF IsRun
  <2>4. Folded(F, St, base, Add(seq, x)) = tt[n + 1] /\ Folded(F, St, base, seq) = st[n]
    BY <2>1 DEF Folded
  <2> HIDE DEF tt, st, n
  <2>5. \A k \in 1..n : tt[k] = F[<<tt[k - 1], seq[k]>>]
    BY <2>1, <2>2
  <2>6. st[n] = tt[n]
    <3>1. n \in Nat /\ IsRun(F, base, seq, n, tt) /\ IsRun(F, base, seq, n, st)
      BY <2>1, <2>2, <2>3, <2>5 DEF IsRun
    <3>2. QED
      BY <3>1, RunUnique
  <2>7. tt[n + 1] = F[<<tt[n], x>>]
    <3>1. n + 1 \in 1..(n + 1) /\ (n + 1) - 1 = n
      BY <2>1
    <3>2. QED
      BY <3>1, <2>1, <2>2
  <2>8. QED
    BY <2>4, <2>6, <2>7
<1>5. QED
  BY <1>2, <1>3, <1>4

-----------------------------------------------------------------------------
\* The function on sets of positions with which FoldLeft is defined: it takes the
\* elements from the greatest position down.
IsIteration(F, base, seq, n, h) ==
    /\ h[{}] = base
    /\ \A s \in SUBSET (1..n) : s # {} => h[s] = F[<<h[s \ {Max(s)}], seq[Max(s)]>>]

LEMMA IterationExists ==
  ASSUME NEW St, NEW X, NEW F, Closed(F, St, X),
         NEW base \in St, NEW seq \in Seq(X)
  PROVE  \E h \in [SUBSET DOMAIN seq -> St] : IsIteration(F, base, seq, Len(seq), h)
<1> DEFINE Q(k) == \E h \in [SUBSET (1..k) -> St] : IsIteration(F, base, seq, k, h)
           T == {k \in Nat : k <= Len(seq) => Q(k)}
<1>0. Len(seq) \in Nat /\ DOMAIN seq = 1..Len(seq) /\ \A i \in 1..Len(seq) : seq[i] \in X
  OBVIOUS
<1>1. 0 \in T
  <2> DEFINE h == [s \in {{}} |-> base]
  <2>1. 1..0 = {} /\ SUBSET {} = {{}}
    OBVIOUS
  <2>2. h \in [SUBSET (1..0) -> St] /\ h[{}] = base
    BY <2>1
  <2>3. IsIteration(F, base, seq, 0, h)
    BY <2>1, <2>2 DEF IsIteration
  <2>4. QED
    BY <2>2, <2>3
<1>2. ASSUME NEW k \in Nat, k \in T PROVE k + 1 \in T
  <2> SUFFICES ASSUME k + 1 <= Len(seq) PROVE Q(k + 1)
    <3> HIDE DEF Q
    <3> QED
      OBVIOUS
  <2>0. Q(k)
    <3> HIDE DEF Q
    <3> QED
      BY <1>0, <1>2
  <2>1. PICK g \in [SUBSET (1..k) -> St] : IsIteration(F, base, seq, k, g)
    BY <2>0
  <2> DEFINE h == [s \in SUBSET (1..(k + 1)) |->
                      IF k + 1 \in s THEN F[<<g[s \ {k + 1}], seq[k + 1]>>] ELSE g[s]]
  <2>2. seq[k + 1] \in X
    BY <1>0
  <2>3. \A s \in SUBSET (1..(k + 1)) : s \ {k + 1} \in SUBSET (1..k)
    OBVIOUS
  <2>4. \A s \in SUBSET (1..(k + 1)) : k + 1 \notin s => s \in SUBSET (1..k)
    OBVIOUS
  <2>5. h \in [SUBSET (1..(k + 1)) -> St]
    <3> SUFFICES ASSUME NEW s \in SUBSET (1..(k + 1)) PROVE h[s] \in St
      OBVIOUS
    <3>1. CASE k + 1 \in s
      <4>1. g[s \ {k + 1}] \in St
        BY <2>3
      <4>2. QED
        BY <4>1, <2>2, <3>1 DEF Closed
    <3>2. CASE k + 1 \notin s
      BY <2>4, <3>2
    <3>3. QED
      BY <3>1, <3>2
  <2>6. h[{}] = base
    BY <2>1 DEF IsIteration
  <2>7. ASSUME NEW s \in SUBSET (1..(k + 1)), s # {}
        PROVE  h[s] = F[<<h[s \ {Max(s)}], seq[Max(s)]>>]
    <3>0. s \ {Max(s)} \in SUBSET (1..(k + 1))
      OBVIOUS
    <3>1. CASE k + 1 \in s
      <4>1. k + 1 \in Nat
        OBVIOUS
      <4>2. Max(s) \in s /\ \A i \in s : i <= Max(s)
        BY <2>7, <4>1, MaxOfRange, Zenon
      <4>3. Max(s) \in 1..(k + 1) /\ k + 1 <= Max(s)
        BY <4>2, <3>1
      <4>4. Max(s) = k + 1
        BY <4>3
      <4>5. h[s \ {k + 1}] = g[s \ {k + 1}]
        BY <3>0, <4>4
      <4>6. QED
        BY <3>1, <4>4, <4>5
    <3>2. CASE k + 1 \notin s
      <4>1. s \in SUBSET (1..k)
        BY <2>4, <3>2
      <4>2. g[s] = F[<<g[s \ {Max(s)}], seq[Max(s)]>>]
        BY <4>1, <2>1, <2>7 DEF IsIteration
      <4>3. h[s] = g[s] /\ h[s \ {Max(s)}] = g[s \ {Max(s)}]
        BY <3>0, <3>2
      <4>4. QED
        BY <4>2, <4>3
    <3>3. QED
      BY <3>1, <3>2
  <2> HIDE DEF h
  <2>8. QED
    BY <2>5, <2>6, <2>7 DEF IsIteration
<1>3. Q(Len(seq))
  <2> HIDE DEF Q
  <2>1. T \subseteq Nat /\ Nat \subseteq T
    <3> HIDE DEF T
    <3>1. Nat \subseteq T
      BY <1>1, <1>2, NatSetInduction
    <3>2. QED
      BY <3>1 DEF T
  <2>2. QED
    BY <1>0, <2>1
<1>4. QED
  BY <1>3, <1>0

\* The same of a function that may leave St.
Iterates(F, St, base, seq, h) ==
    /\ h[{}] = base
    /\ \A s \in SUBSET DOMAIN seq :
          s # {} /\ h[s \ {Max(s)}] \in St => h[s] = F[<<h[s \ {Max(s)}], seq[Max(s)]>>]

\* FoldLeft is the function that Folded describes.
LEMMA IterationFolds ==
  ASSUME NEW St, NEW X, NEW F, Closed(F, St, X),
         NEW base \in St, NEW seq \in Seq(X), NEW h, Iterates(F, St, base, seq, h)
  PROVE  h[DOMAIN seq] = Folded(F, St, base, seq)
<1> DEFINE n == Len(seq)
           T == {k \in Nat : k <= n =>
                    /\ h[1..k] \in St
                    /\ k > 0 => h[1..k] = F[<<h[1..(k - 1)], seq[k]>>]}
<1>0. n \in Nat /\ DOMAIN seq = 1..n /\ \A i \in 1..n : seq[i] \in X
  OBVIOUS
<1>1. 0 \in T
  <2>1. 1..0 = {}
    OBVIOUS
  <2>2. QED
    BY <2>1 DEF Iterates
<1>2. ASSUME NEW k \in Nat, k \in T PROVE k + 1 \in T
  <2> SUFFICES ASSUME k + 1 <= n
               PROVE  /\ h[1..(k + 1)] \in St
                      /\ h[1..(k + 1)] = F[<<h[1..k], seq[k + 1]>>]
    OBVIOUS
  <2>1. h[1..k] \in St
    BY <1>0, <1>2
  <2> DEFINE s == 1..(k + 1)
  <2>2. s \in SUBSET (1..(k + 1)) /\ s # {} /\ k + 1 \in s
    <3>1. k + 1 \in s
      OBVIOUS
    <3>2. QED
      BY <3>1
  <2>3. Max(s) \in s /\ \A i \in s : i <= Max(s)
    <3>1. k + 1 \in Nat
      OBVIOUS
    <3> HIDE DEF s
    <3>2. QED
      BY <2>2, <3>1, MaxOfRange, Zenon
  <2>4. Max(s) = k + 1
    BY <2>2, <2>3
  <2>5. s \ {k + 1} = 1..k /\ s \in SUBSET DOMAIN seq
    BY <1>0
  <2> HIDE DEF s
  <2>6. h[s] = F[<<h[1..k], seq[k + 1]>>]
    BY <2>1, <2>2, <2>4, <2>5 DEF Iterates
  <2>7. seq[k + 1] \in X
    BY <1>0
  <2>8. QED
    BY <2>1, <2>6, <2>7 DEF s, Closed
<1> DEFINE st == [k \in 0..n |-> h[1..k]]
<1>3. \A k \in 0..n : k \in T
  <2> HIDE DEF T
  <2>1. Nat \subseteq T
    BY <1>1, <1>2, NatSetInduction
  <2>2. QED
    BY <1>0, <2>1
<1>4. st \in [0..n -> St]
  <2>1. ASSUME NEW k \in 0..n PROVE h[1..k] \in St
    <3>1. k \in T /\ k <= n
      BY <1>0, <1>3
    <3>2. QED
      BY <3>1
  <2>2. QED
    BY <2>1
<1>5. st[0] = base
  <2>1. 1..0 = {} /\ 0 \in 0..n
    BY <1>0
  <2>2. QED
    BY <2>1 DEF Iterates
<1>6. \A k \in 1..n : st[k] = F[<<st[k - 1], seq[k]>>]
  <2> SUFFICES ASSUME NEW k \in 1..n PROVE st[k] = F[<<st[k - 1], seq[k]>>]
    OBVIOUS
  <2>1. k \in 0..n /\ k - 1 \in 0..n /\ k > 0 /\ k <= n
    BY <1>0
  <2>2. h[1..k] = F[<<h[1..(k - 1)], seq[k]>>]
    BY <1>3, <2>1
  <2>3. QED
    BY <2>1, <2>2
<1>7. st[n] = h[DOMAIN seq]
  BY <1>0
<1> HIDE DEF st
<1>8. IsRun(F, base, seq, n, st)
  BY <1>5, <1>6 DEF IsRun
<1> DEFINE tt == CHOOSE r \in [0..n -> St] : IsRun(F, base, seq, n, r)
<1>9. IsRun(F, base, seq, n, tt)
  BY <1>4, <1>8
<1>10. Folded(F, St, base, seq) = tt[n]
  BY DEF Folded
<1> HIDE DEF tt, n
<1>11. QED
  BY <1>0, <1>7, <1>8, <1>9, <1>10, RunUnique

-----------------------------------------------------------------------------
Concat(X) == [a \in Seq(X) \X Seq(X) |-> Cat(a[1], a[2])]

LEMMA ConcatStep ==
  ASSUME NEW X
  PROVE  /\ \A a, b \in Seq(X) : Concat(X)[<<a, b>>] = Cat(a, b)
         /\ Closed(Concat(X), Seq(X), Seq(X))
         /\ Nil \in Seq(X)
<1>1. ASSUME NEW a \in Seq(X), NEW b \in Seq(X)
      PROVE  Concat(X)[<<a, b>>] = Cat(a, b) /\ Cat(a, b) \in Seq(X)
  <2>1. <<a, b>> \in Seq(X) \X Seq(X) /\ <<a, b>>[1] = a /\ <<a, b>>[2] = b
    OBVIOUS
  <2>2. Concat(X)[<<a, b>>] = Cat(a, b)
    BY <2>1, Zenon DEF Concat
  <2>3. QED
    BY <2>2, CatType
<1>2. Nil \in Seq(X)
  BY NilProperties
<1>3. QED
  BY <1>1, <1>2, Zenon DEF Closed

\* FlattenSeq puts its sequences together, the last one last.
LEMMA FlattenFolds ==
  ASSUME NEW X, NEW s \in Seq(Seq(X))
  PROVE  FlattenSeq(s) = Folded(Concat(X), Seq(X), Nil, s)
<1> DEFINE n == Len(s)
           F == Concat(X)
<1> HIDE DEF F
<1>0. n \in Nat /\ DOMAIN s = 1..n /\ \A i \in 1..n : s[i] \in Seq(X)
  BY LenProperties, ElementOfSeq
<1>1. \A a, b \in Seq(X) : F[<<a, b>>] = Cat(a, b) /\ F[<<a, b>>] \in Seq(X)
  BY ConcatStep, CatType DEF F
<1>2. Closed(F, Seq(X), Seq(X)) /\ Nil \in Seq(X)
  BY ConcatStep DEF F
<1>3. CASE s = Nil
  <2>1. FlattenSeq(s) = Nil
    BY <1>3 DEF FlattenSeq, Nil
  <2>2. QED
    <3>1. Folded(F, Seq(X), Nil, Nil) = Nil
      BY <1>2, FoldedProperties
    <3>2. QED
      BY <1>3, <2>1, <3>1, Zenon DEF F
<1>4. CASE s # Nil
  <2>0. n \in Nat \ {0}
    BY <1>4, EmptySeq DEF Nil
  <2> DEFINE Eq(h) == h = [i \in 1..n |-> IF i = 1 THEN s[i] ELSE Cat(h[i - 1], s[i])]
             flat == CHOOSE h : Eq(h)
  <2>1. FlattenSeq(s) = flat[n]
    BY <2>0 DEF FlattenSeq, Cat
  <2>2. Eq(flat)
    <3>1. PICK st \in [0..n -> Seq(X)] : IsRun(F, Nil, s, n, st)
      BY <1>2, RunExists
    <3> DEFINE h == [i \in 1..n |-> st[i]]
    <3>2. ASSUME NEW i \in 1..n
          PROVE  h[i] = IF i = 1 THEN s[i] ELSE Cat(h[i - 1], s[i])
      <4>0. i - 1 \in 0..n
        BY <1>0
      <4>1. i - 1 \in 0..n /\ st[i - 1] \in Seq(X) /\ s[i] \in Seq(X)
        BY <1>0, <4>0
      <4>2. st[i] = Cat(st[i - 1], s[i])
        BY <1>1, <3>1, <4>1 DEF IsRun
      <4>3. CASE i = 1
        <5>1. st[i - 1] = Nil
          BY <3>1, <4>3 DEF IsRun
        <5>2. st[i] = s[i]
          BY <4>1, <4>2, <5>1, NilProperties
        <5>3. QED
          BY <4>3, <5>2
      <4>4. CASE i # 1
        <5>1. i - 1 \in 1..n
          BY <1>0, <4>4
        <5>2. h[i] = st[i] /\ h[i - 1] = st[i - 1]
          BY <5>1
        <5>3. QED
          BY <4>2, <4>4, <5>2
      <4>5. QED
        BY <4>3, <4>4
    <3>3. Eq(h)
      BY <3>2
    <3> HIDE DEF Eq, h
    <3>4. QED
      BY <3>3
  <2>3. \A i \in 1..n : flat[i] = IF i = 1 THEN s[i] ELSE Cat(flat[i - 1], s[i])
    <3> DEFINE f == flat
    <3>1. Eq(f)
      BY <2>2
    <3> HIDE DEF flat, f
    <3>2. QED
      BY <3>1 DEF f
  <2> HIDE DEF flat, Eq
  <2> DEFINE st == [k \in 0..n |-> IF k = 0 THEN Nil ELSE flat[k]]
             T == {k \in Nat : k + 1 <= n =>
                      flat[k + 1] \in Seq(X) /\ st[k + 1] = F[<<st[k], s[k + 1]>>]}
  <2>4. 0 \in T
    <3>1. 1 \in 1..n /\ flat[1] = s[1] /\ s[1] \in Seq(X)
      BY <1>0, <2>0, <2>3
    <3>2. Cat(Nil, s[1]) = s[1]
      BY <3>1, NilProperties
    <3>3. st[1] = s[1] /\ st[0] = Nil
      BY <3>1
    <3>4. F[<<Nil, s[1]>>] = s[1]
      BY <1>1, <1>2, <3>1, <3>2
    <3>5. 0 + 1 = 1
      OBVIOUS
    <3> HIDE DEF st
    <3>6. QED
      BY <3>1, <3>3, <3>4, <3>5
  <2>5. ASSUME NEW k \in Nat, k \in T PROVE k + 1 \in T
    <3> SUFFICES ASSUME (k + 1) + 1 <= n
                 PROVE  /\ flat[(k + 1) + 1] \in Seq(X)
                        /\ st[(k + 1) + 1] = F[<<st[k + 1], s[(k + 1) + 1]>>]
      OBVIOUS
    <3> DEFINE j == (k + 1) + 1
    <3>1. j \in 1..n /\ j # 1 /\ j - 1 = k + 1 /\ k + 1 \in 1..n
      BY <1>0
    <3>2. flat[k + 1] \in Seq(X) /\ s[j] \in Seq(X)
      BY <1>0, <2>5, <3>1
    <3>3. flat[j] = Cat(flat[k + 1], s[j])
      BY <2>3, <3>1
    <3>4. st[j] = flat[j] /\ st[k + 1] = flat[k + 1]
      BY <3>1
    <3> HIDE DEF j, st
    <3>5. F[<<flat[k + 1], s[j]>>] = flat[j] /\ flat[j] \in Seq(X)
      BY <1>1, <3>2, <3>3
    <3>6. QED
      BY <3>4, <3>5 DEF j
  <2>6. ASSUME NEW k \in 1..n
        PROVE  flat[k] \in Seq(X) /\ st[k] = F[<<st[k - 1], s[k]>>]
    <3>1. Nat \subseteq T
      <4> HIDE DEF T
      <4>1. QED
        BY <2>4, <2>5, NatSetInduction
    <3>2. k - 1 \in Nat /\ (k - 1) + 1 = k /\ k <= n
      BY <1>0
    <3>3. k - 1 \in T
      BY <3>1, <3>2
    <3> HIDE DEF st
    <3>4. QED
      BY <3>2, <3>3
  <2>7. st[0] = Nil /\ st[n] = flat[n]
    BY <2>0
  <2>8. IsRun(F, Nil, s, n, st)
    <3> HIDE DEF st
    <3>1. QED
      BY <2>6, <2>7 DEF IsRun
  <2> DEFINE tt == CHOOSE r \in [0..n -> Seq(X)] : IsRun(F, Nil, s, n, r)
  <2>9. IsRun(F, Nil, s, n, tt)
    BY <1>2, RunExists
  <2>10. Folded(F, Seq(X), Nil, s) = tt[n]
    BY DEF Folded
  <2> HIDE DEF st, tt, n
  <2>11. QED
    BY <1>0, <2>1, <2>7, <2>8, <2>9, <2>10, RunUnique DEF F
<1>5. QED
  BY <1>3, <1>4

\* FlattenSeq puts one sequence behind the other.
LEMMA FlattenProperties ==
  ASSUME NEW X
  PROVE  /\ FlattenSeq(Nil) = Nil
         /\ \A s \in Seq(Seq(X)) : FlattenSeq(s) \in Seq(X)
         /\ \A s \in Seq(Seq(X)), x \in Seq(X) : FlattenSeq(Add(s, x)) = Cat(FlattenSeq(s), x)
<1> DEFINE Flat(s) == Folded(Concat(X), Seq(X), Nil, s)
<1>1. \A s \in Seq(Seq(X)) : FlattenSeq(s) = Flat(s)
  BY FlattenFolds
<1>2. Nil \in Seq(Seq(X)) /\ \A s \in Seq(Seq(X)), x \in Seq(X) : Add(s, x) \in Seq(Seq(X))
  BY NilProperties, AddProperties
<1>3. /\ Flat(Nil) = Nil
      /\ \A s \in Seq(Seq(X)) : Flat(s) \in Seq(X)
      /\ \A s \in Seq(Seq(X)), x \in Seq(X) : Flat(Add(s, x)) = Concat(X)[<<Flat(s), x>>]
  BY ConcatStep, FoldedProperties
<1> HIDE DEF Flat
<1>4. ASSUME NEW s \in Seq(Seq(X)), NEW x \in Seq(X)
      PROVE  FlattenSeq(Add(s, x)) = Cat(FlattenSeq(s), x)
  <2>1. Concat(X)[<<Flat(s), x>>] = Cat(Flat(s), x)
    BY <1>3, ConcatStep, Zenon
  <2>2. QED
    BY <1>1, <1>2, <1>3, <2>1, Zenon
<1>5. QED
  BY <1>1, <1>2, <1>3, <1>4, Zenon

-----------------------------------------------------------------------------
\* The sequence of what a function makes of the elements.
Through(g, s) == [i \in DOMAIN s |-> g[s[i]]]

GoesThrough(g, X, Y) ==
    /\ Through(g, Nil) = Nil
    /\ \A s \in Seq(X) : Through(g, s) \in Seq(Y)
    /\ \A s \in Seq(X), x \in X : Through(g, Add(s, x)) = Add(Through(g, s), g[x])

\* Through goes element by element.
LEMMA ThroughProperties ==
  ASSUME NEW X, NEW Y, NEW g \in [X -> Y]
  PROVE  GoesThrough(g, X, Y)
<1>1. ASSUME NEW s \in Seq(X)
      PROVE  /\ Through(g, s) \in Seq(Y) /\ Len(Through(g, s)) = Len(s)
             /\ \A i \in 1..Len(s) : Through(g, s)[i] = g[s[i]]
  <2>1. Len(s) \in Nat /\ DOMAIN s = 1..Len(s) /\ \A i \in 1..Len(s) : s[i] \in X
    OBVIOUS
  <2>2. Through(g, s) \in [1..Len(s) -> Y]
    BY <2>1 DEF Through
  <2>3. QED
    BY <2>1, <2>2 DEF Through
<1>2. Through(g, Nil) = Nil
  <2>1. Nil \in Seq(X) /\ Len(Nil) = 0
    BY NilProperties DEF Nil
  <2>2. Len(Through(g, Nil)) = 0 /\ Through(g, Nil) \in Seq(Y)
    BY <1>1, <2>1
  <2>3. QED
    BY <2>2, EmptySeq DEF Nil
<1>3. ASSUME NEW s \in Seq(X), NEW x \in X
      PROVE  Through(g, Add(s, x)) = Add(Through(g, s), g[x])
  <2> DEFINE t == Add(s, x)
             u == Through(g, s)
             v == Through(g, t)
  <2>1. t \in Seq(X) /\ Extends(t, s, x)
    BY AddExtends, Zenon
  <2>2. /\ u \in Seq(Y) /\ Len(u) = Len(s)
        /\ \A i \in 1..Len(s) : u[i] = g[s[i]]
    BY <1>1
  <2> HIDE DEF t
  <2>3. /\ v \in Seq(Y) /\ Len(v) = Len(t)
        /\ \A i \in 1..Len(t) : v[i] = g[t[i]]
    BY <1>1, <2>1
  <2> HIDE DEF u, v
  <2>4. Extends(v, u, g[x])
    BY <2>1, <2>2, <2>3 DEF Extends
  <2>5. v = Add(u, g[x])
    BY <2>2, <2>3, <2>4, ExtendsIsAdd
  <2>6. QED
    BY <2>5 DEF t, u, v
<1>4. QED
  BY <1>1, <1>2, <1>3 DEF GoesThrough

\* The same, put together.
Gathers(g, X, Y) ==
    /\ FlattenSeq(Through(g, Nil)) = Nil
    /\ \A s \in Seq(X) : FlattenSeq(Through(g, s)) \in Seq(Y)
    /\ \A s \in Seq(X), x \in X :
          FlattenSeq(Through(g, Add(s, x))) = Cat(FlattenSeq(Through(g, s)), g[x])

\* So does FlattenSeq of a Through.
LEMMA GatherProperties ==
  ASSUME NEW X, NEW Y, NEW g \in [X -> Seq(Y)]
  PROVE  Gathers(g, X, Y)
<1>1. /\ Through(g, Nil) = Nil
      /\ \A s \in Seq(X) : Through(g, s) \in Seq(Seq(Y))
      /\ \A s \in Seq(X), x \in X : Through(g, Add(s, x)) = Add(Through(g, s), g[x])
  BY ThroughProperties DEF GoesThrough
<1>2. \A x \in X : g[x] \in Seq(Y)
  OBVIOUS
<1>3. QED
  BY <1>1, <1>2, FlattenProperties, Zenon DEF Gathers

\* A sequence of empty sequences comes to nothing.
LEMMA FlattenNils ==
  ASSUME NEW X, NEW s \in Seq({Nil})
  PROVE  FlattenSeq(s) = Nil
<1> DEFINE T == {t \in Seq({Nil}) : FlattenSeq(t) = Nil}
<1>1. Nil \in T
  BY NilProperties, FlattenProperties
<1>2. ASSUME NEW t \in Seq({Nil}), t \in T, NEW x \in {Nil} PROVE Add(t, x) \in T
  <2>1. Seq({Nil}) \subseteq Seq(Seq({}))
    BY NilProperties, SeqMonotonic
  <2>2. x \in Seq({}) /\ x = Nil
    BY NilProperties
  <2>3. FlattenSeq(Add(t, x)) = Cat(FlattenSeq(t), x)
    BY <2>1, <2>2, FlattenProperties
  <2>4. Cat(Nil, Nil) = Nil
    BY NilProperties
  <2>5. Add(t, x) \in Seq({Nil})
    BY AddExtends, Zenon
  <2>6. QED
    BY <1>2, <2>2, <2>3, <2>4, <2>5
<1> HIDE DEF T
<1>3. s \in T
  BY <1>1, <1>2, SeqSetInduction
<1>4. QED
  BY <1>3 DEF T
=============================================================================
