----------------------------- MODULE DataFacts -----------------------------
(***************************************************************************)
(* Induction over data, for the proofs about Reports and Initialization.   *)
(* The provers cannot instantiate an induction theorem that takes an       *)
(* operator, but they can one about a set: that strict inclusion of finite *)
(* sets is well-founded, here of the sets 1 .. n, gives induction over the *)
(* naturals, and with it recursive functions and runs along a sequence.    *)
(***************************************************************************)
EXTENDS Integers, Sequences, SequencesExt, FiniteSetTheorems, SequenceTheorems,
        WellFoundedInduction, TLAPS

-----------------------------------------------------------------------------
(* Induction and recursion.                                                *)

\* A set that has 0, and with each number the next, has every number.
LEMMA NatSetInduction ==
  ASSUME NEW A, 0 \in A, \A n \in Nat : n \in A => n + 1 \in A
  PROVE  \A n \in Nat : n \in A
  <1> DEFINE T == {1 .. n : n \in Nat \ A}
             R == StrictSubsetOrdering(Nat)
  <1>1. SUFFICES ASSUME T # {} PROVE FALSE
    OBVIOUS
  <1>2. IsWellFoundedOn(R, FiniteSubsetsOf(Nat))
    BY FS_StrictSubsetOrderingWellFounded
  <1>3. T \subseteq FiniteSubsetsOf(Nat)
    <2>1. \A n \in Nat : IsFiniteSet(1 .. n)
      BY FS_Interval
    <2>2. \A n \in Nat : 1 .. n \in SUBSET Nat
      OBVIOUS
    <2> QED
      BY <2>1, <2>2 DEF FiniteSubsetsOf
  <1>4. PICK x \in T : \A y \in T : <<y, x>> \notin R
    <2> HIDE DEF R, T
    <2> QED
      BY <1>1, <1>2, <1>3, WFMin, Zenon
  <1>5. PICK n \in Nat \ A : x = 1 .. n
    OBVIOUS
  <1>6. n # 0 /\ n - 1 \in Nat
    OBVIOUS
  <1>7. n - 1 \notin A
    BY <1>6
  <1>8. 1 .. n - 1 \in T
    BY <1>6, <1>7
  <1>9. <<1 .. n - 1, x>> \in R
    <2>1. 1 .. n - 1 \subseteq x /\ 1 .. n - 1 # x /\ x \subseteq Nat
      BY <1>5, <1>6
    <2> QED
      BY <2>1 DEF StrictSubsetOrdering
  <1> QED
    BY <1>4, <1>8, <1>9

\* What the elements do to a state.
StepFunctions(Elements, States) == [Elements -> [States -> States]]

\* h runs along q: it starts somewhere, and each element of q makes its step.
IsRun(h, q, step, States) ==
  /\ h \in [0 .. Len(q) -> States]
  /\ \A i \in 1 .. Len(q) : h[i] = step[q[i]][h[i - 1]]

\* Along the empty sequence nothing happens.
LEMMA RunOfEmpty ==
  ASSUME NEW step, NEW States, NEW s \in States
  PROVE  \E h : IsRun(h, <<>>, step, States) /\ h[0] = s
  <1> DEFINE h == [i \in 0 .. 0 |-> s]
  <1>1. IsRun(h, <<>>, step, States) /\ h[0] = s
    BY DEF IsRun
  <1> QED
    BY <1>1

\* An element more is a step more.
Extended(h, n, s) == [i \in 0 .. n + 1 |-> IF i = n + 1 THEN s ELSE h[i]]

\* It takes the step of that element.
LEMMA RunOfAppend ==
  ASSUME NEW Elements, NEW States, NEW step \in StepFunctions(Elements, States),
         NEW q \in Seq(Elements), NEW e \in Elements, NEW h, IsRun(h, q, step, States)
  PROVE  IsRun(Extended(h, Len(q), step[e][h[Len(q)]]), Append(q, e), step, States)
  <1> DEFINE g == Extended(h, Len(q), step[e][h[Len(q)]])
  <1>1. /\ Len(q) \in Nat /\ Len(Append(q, e)) = Len(q) + 1 /\ Append(q, e)[Len(q) + 1] = e
        /\ \A i \in 1 .. Len(q) : Append(q, e)[i] = q[i] /\ q[i] \in Elements
    OBVIOUS
  <1>2. h \in [0 .. Len(q) -> States] /\ \A i \in 1 .. Len(q) : h[i] = step[q[i]][h[i - 1]]
    BY DEF IsRun
  <1>3. step[e][h[Len(q)]] \in States
    BY <1>1, <1>2 DEF StepFunctions
  <1>4. g \in [0 .. Len(q) + 1 -> States]
    BY <1>1, <1>2, <1>3 DEF Extended
  <1>5. ASSUME NEW i \in 1 .. Len(q) + 1 PROVE g[i] = step[Append(q, e)[i]][g[i - 1]]
    BY <1>1, <1>2, SMTT(60) DEF Extended
  <1> QED
    BY <1>1, <1>4, <1>5 DEF IsRun

\* Without the head it starts a step later.
Shifted(h, n) == [i \in 0 .. n - 1 |-> h[i + 1]]

\* The first step is the head's, the others run along the tail.
LEMMA RunOfTail ==
  ASSUME NEW Elements, NEW States, NEW step,
         NEW q \in Seq(Elements), q # <<>>, NEW h, IsRun(h, q, step, States)
  PROVE  /\ h[0] \in States /\ h[1] = step[Head(q)][h[0]]
         /\ IsRun(Shifted(h, Len(q)), Tail(q), step, States)
  <1> DEFINE g == Shifted(h, Len(q))
  <1>1. /\ Len(q) \in Nat \ {0} /\ Len(Tail(q)) = Len(q) - 1 /\ Head(q) = q[1]
        /\ \A i \in 1 .. Len(q) - 1 : Tail(q)[i] = q[i + 1]
    OBVIOUS
  <1>2. h \in [0 .. Len(q) -> States] /\ \A i \in 1 .. Len(q) : h[i] = step[q[i]][h[i - 1]]
    BY DEF IsRun
  <1>3. g \in [0 .. Len(q) - 1 -> States]
    BY <1>1, <1>2 DEF Shifted
  <1>4. ASSUME NEW i \in 1 .. Len(q) - 1 PROVE g[i] = step[Tail(q)[i]][g[i - 1]]
    <2>1. i + 1 \in 1 .. Len(q) /\ i - 1 \in 0 .. Len(q) - 1 /\ i \in 0 .. Len(q) - 1
      BY <1>1
    <2>2. h[i + 1] = step[q[i + 1]][h[i]]
      BY <1>2, <2>1
    <2> QED
      BY <1>1, <2>1, <2>2 DEF Shifted
  <1> QED
    BY <1>1, <1>2, <1>3, <1>4 DEF IsRun

\* From any state there is a run along a sequence.
LEMMA RunExists ==
  ASSUME NEW Elements, NEW States, NEW step \in StepFunctions(Elements, States),
         NEW q \in Seq(Elements), NEW s \in States
  PROVE  \E h : IsRun(h, q, step, States) /\ h[0] = s
  <1> DEFINE A == {n \in Nat : \A p \in Seq(Elements) :
                     Len(p) = n => \E h : IsRun(h, p, step, States) /\ h[0] = s}
  <1>1. 0 \in A
    <2> SUFFICES ASSUME NEW p \in Seq(Elements), Len(p) = 0
                 PROVE  \E h : IsRun(h, p, step, States) /\ h[0] = s
      OBVIOUS
    <2>1. p = <<>>
      OBVIOUS
    <2>2. \E h : IsRun(h, <<>>, step, States) /\ h[0] = s
      <3> HIDE DEF A
      <3> QED
        BY RunOfEmpty, Zenon
    <2> QED
      BY <2>1, <2>2
  <1>2. ASSUME NEW n \in Nat, n \in A PROVE n + 1 \in A
    <2> SUFFICES ASSUME NEW p \in Seq(Elements), Len(p) = n + 1
                 PROVE  \E h : IsRun(h, p, step, States) /\ h[0] = s
      OBVIOUS
    <2>9. p # <<>>
      OBVIOUS
    <2>1. PICK p1 \in Seq(Elements), e \in Elements : p = Append(p1, e) /\ Len(p1) = n
      <3>1. PICK p1 \in Seq(Elements), e \in Elements : p = Append(p1, e)
        <4> HIDE DEF A
        <4> QED
          BY <2>9, SequenceEmptyOrAppend
      <3> QED
        BY <3>1, AppendProperties
    <2>2. PICK h : IsRun(h, p1, step, States) /\ h[0] = s
      BY <1>2, <2>1
    <2>3. IsRun(Extended(h, Len(p1), step[e][h[Len(p1)]]), Append(p1, e), step, States)
      <3> HIDE DEF A
      <3> QED
        BY <2>2, RunOfAppend
    <2>4. Extended(h, Len(p1), step[e][h[Len(p1)]])[0] = h[0]
      BY DEF Extended
    <2> QED
      BY <2>1, <2>2, <2>3, <2>4
  <1> HIDE DEF A
  <1>3. \A n \in Nat : n \in A
    BY <1>1, <1>2, NatSetInduction
  <1> QED
    BY <1>3 DEF A

\* And only one.
LEMMA RunUnique ==
  ASSUME NEW step, NEW States, NEW q, Len(q) \in Nat, NEW g, NEW h, NEW n \in 0 .. Len(q),
         IsRun(g, q, step, States), IsRun(h, q, step, States), g[0] = h[0]
  PROVE  g[n] = h[n]
  <1> DEFINE A == {k \in Nat : k <= Len(q) => g[k] = h[k]}
  <1>1. 0 \in A
    OBVIOUS
  <1>2. ASSUME NEW k \in Nat, k \in A PROVE k + 1 \in A
    BY <1>2, SMTT(60) DEF IsRun
  <1> HIDE DEF A
  <1>3. \A k \in Nat : k \in A
    BY <1>1, <1>2, NatSetInduction
  <1> QED
    BY <1>3 DEF A

\* StepFunctions that change nothing change nothing together.
LEMMA RunOfNeutral ==
  ASSUME NEW Elements, NEW States, NEW step, NEW q, q \in Seq(Elements),
         NEW h, IsRun(h, q, step, States), \A i \in 1 .. Len(q), s \in States : step[q[i]][s] = s
  PROVE  h[Len(q)] = h[0]
  <1> DEFINE A == {n \in Nat : n <= Len(q) => h[n] = h[0]}
  <1>1. Len(q) \in Nat
    OBVIOUS
  <1>2. 0 \in A
    OBVIOUS
  <1>3. ASSUME NEW n \in Nat, n \in A PROVE n + 1 \in A
    <2>1. ASSUME n + 1 <= Len(q) PROVE h[n + 1] = h[0]
      <3>1. n + 1 \in 1 .. Len(q) /\ n \in 0 .. Len(q) /\ n + 1 - 1 = n
        BY <1>1, <2>1
      <3>2. h[n] = h[0] /\ h[n] \in States
        BY <1>3, <3>1 DEF IsRun
      <3>3. h[n + 1] = step[q[n + 1]][h[n]]
        BY <3>1 DEF IsRun
      <3> QED
        BY <3>1, <3>2, <3>3
    <2> QED
      BY <2>1
  <1>4. Len(q) \in A
    <2> HIDE DEF A
    <2> QED
      BY <1>1, <1>2, <1>3, NatSetInduction
  <1> QED
    BY <1>1, <1>4

-----------------------------------------------------------------------------
(* Sets as sequences.                                                      *)

\* SetToSeq lists each element of a finite set once.
LEMMA SetToSeqFacts ==
  ASSUME NEW D, IsFiniteSet(D)
  PROVE  /\ SetToSeq(D) \in Seq(D)
         /\ Len(SetToSeq(D)) = Cardinality(D)
         /\ ToSet(SetToSeq(D)) = D
         /\ \A i, j \in 1 .. Len(SetToSeq(D)) : SetToSeq(D)[i] = SetToSeq(D)[j] => i = j
  <1> DEFINE n == Cardinality(D)
             f == SetToSeq(D)
  <1>1. n \in Nat /\ ExistsBijection(1 .. n, D)
    BY FS_CardinalityType
  <1>2. \E g : g \in [1 .. n -> D] /\ IsInjective(g)
    BY <1>1 DEF ExistsBijection, Bijection, Injection
  <1>3. f \in [1 .. n -> D] /\ IsInjective(f)
    BY <1>2 DEF SetToSeq
  <1>4. f \in Seq(D) /\ Len(f) = n /\ DOMAIN f = 1 .. n
    BY <1>1, <1>3
  <1>5. f \in Injection(1 .. n, D)
    BY <1>3 DEF Injection
  <1>6. IsFiniteSet(1 .. n) /\ Cardinality(1 .. n) = n
    BY <1>1, FS_Interval
  <1>7. f \in Surjection(1 .. n, D)
    BY <1>5, <1>6, FS_Injection
  <1>8. ToSet(f) = D
    BY <1>3, <1>4, <1>7 DEF Surjection, ToSet
  <1>9. \A i, j \in 1 .. n : f[i] = f[j] => i = j
    BY <1>3, <1>4 DEF IsInjective
  <1> QED
    BY <1>4, <1>8, <1>9

-----------------------------------------------------------------------------
(* Sequences, element by element.                                          *)

\* A function applied to each element.
Mapped(f, a) == [i \in 1 .. Len(a) |-> f[a[i]]]

IsMapped(m, f, a, B) ==
  m \in Seq(B) /\ Len(m) = Len(a) /\ \A i \in 1 .. Len(a) : m[i] = f[a[i]]

\* The result is as long, and has the images in the same order.
LEMMA MappedFacts ==
  ASSUME NEW A, NEW B, NEW f, f \in [A -> B], NEW a, a \in Seq(A)
  PROVE  IsMapped(Mapped(f, a), f, a, B)
  <1>1. Len(a) \in Nat /\ \A i \in 1 .. Len(a) : a[i] \in A
    OBVIOUS
  <1>2. \A i \in 1 .. Len(a) : f[a[i]] \in B
    BY <1>1
  <1> QED
    BY <1>1, <1>2 DEF Mapped, IsMapped

\* An element more is an image more.
GrowsWith(f, a, e) == Mapped(f, Append(a, e)) = Append(Mapped(f, a), f[e])

\* Mapped grows with its sequence.
LEMMA MappedAppend ==
  ASSUME NEW A, NEW B, NEW f, f \in [A -> B], NEW a, a \in Seq(A), NEW e, e \in A
  PROVE  GrowsWith(f, a, e)
  <1> DEFINE b == Append(a, e)
             n == Len(a)
             m == Mapped(f, b)
             q == Append(Mapped(f, a), f[e])
  <1>1. b \in Seq(A) /\ Len(b) = n + 1 /\ b[n + 1] = e /\ \A i \in 1 .. n : b[i] = a[i]
    OBVIOUS
  <1>2. n \in Nat /\ f[e] \in B
    OBVIOUS
  <1>3. /\ m \in Seq(B) /\ Len(m) = Len(b) /\ \A i \in 1 .. Len(b) : m[i] = f[b[i]]
    <2> HIDE DEF b
    <2>1. IsMapped(Mapped(f, b), f, b, B)
      BY <1>1, MappedFacts, Zenon
    <2> QED
      BY <2>1 DEF IsMapped
  <1>4. /\ Mapped(f, a) \in Seq(B) /\ Len(Mapped(f, a)) = n
        /\ \A i \in 1 .. n : Mapped(f, a)[i] = f[a[i]]
    <2>1. IsMapped(Mapped(f, a), f, a, B)
      BY MappedFacts, Zenon
    <2> QED
      BY <2>1 DEF IsMapped
  <1>5. /\ q \in Seq(B) /\ Len(q) = n + 1 /\ q[n + 1] = f[e]
        /\ \A i \in 1 .. n : q[i] = Mapped(f, a)[i]
    <2> DEFINE p == Mapped(f, a)
    <2>1. p \in Seq(B) /\ Len(p) = n
      BY <1>4
    <2> HIDE DEF p
    <2>2. Append(p, f[e]) \in Seq(B) /\ Len(Append(p, f[e])) = Len(p) + 1
          /\ Append(p, f[e])[Len(p) + 1] = f[e] /\ \A i \in 1 .. Len(p) : Append(p, f[e])[i] = p[i]
      BY <1>2, <2>1
    <2> QED
      BY <2>1, <2>2 DEF p
  <1> HIDE DEF b, n, m, q
  <1>6. ASSUME NEW i \in 1 .. n + 1 PROVE m[i] = q[i]
    <2>1. CASE i = n + 1
      <3>1. m[n + 1] = f[b[n + 1]]
        BY <1>1, <1>2, <1>3
      <3> QED
        BY <1>1, <1>5, <2>1, <3>1
    <2>2. CASE i # n + 1
      <3>1. i \in 1 .. n
        BY <1>2, <2>2
      <3>2. m[i] = f[b[i]] /\ b[i] = a[i]
        BY <1>1, <1>2, <1>3, <3>1
      <3>3. q[i] = f[a[i]]
        BY <1>4, <1>5, <3>1
      <3> QED
        BY <3>2, <3>3
    <2> QED
      BY <2>1, <2>2
  <1>7. Len(m) = n + 1 /\ Len(q) = n + 1
    BY <1>1, <1>3, <1>5
  <1>8. m = q
    BY <1>3, <1>5, <1>6, <1>7, SeqEqual
  <1> QED
    BY <1>8 DEF m, q, b, GrowsWith

\* Without the head it is without the image of the head.
ShrinksWith(f, a) ==
  /\ Mapped(f, Tail(a)) = Tail(Mapped(f, a)) /\ Mapped(f, a) # <<>>
  /\ Mapped(f, a)[1] = f[Head(a)]

\* And shrinks with it.
LEMMA MappedTail ==
  ASSUME NEW A, NEW B, NEW f, f \in [A -> B], NEW a, a \in Seq(A), a # <<>>
  PROVE  ShrinksWith(f, a)
  <1> DEFINE b == Tail(a)
             n == Len(b)
             p == Mapped(f, a)
             m == Mapped(f, b)
             q == Tail(p)
  <1>1. /\ b \in Seq(A) /\ Len(a) = n + 1 /\ Head(a) = a[1] /\ n \in Nat
        /\ \A i \in 1 .. n : b[i] = a[i + 1]
    OBVIOUS
  <1> HIDE DEF b
  <1>2. m \in Seq(B) /\ Len(m) = n /\ \A i \in 1 .. n : m[i] = f[b[i]]
    <2>1. IsMapped(Mapped(f, b), f, b, B)
      BY <1>1, MappedFacts, Zenon
    <2> QED
      BY <2>1 DEF IsMapped
  <1>3. p \in Seq(B) /\ Len(p) = n + 1 /\ \A i \in 1 .. n + 1 : p[i] = f[a[i]]
    <2>1. p \in Seq(B) /\ Len(p) = Len(a) /\ \A i \in 1 .. Len(a) : p[i] = f[a[i]]
      <3>1. IsMapped(Mapped(f, a), f, a, B)
        BY MappedFacts, Zenon
      <3> QED
        BY <3>1 DEF IsMapped
    <2> HIDE DEF p, n
    <2> QED
      BY <1>1, <2>1
  <1> HIDE DEF n, m, p
  <1>4. q \in Seq(B) /\ Len(q) = n /\ p # <<>> /\ \A i \in 1 .. n : q[i] = p[i + 1]
    BY <1>1, <1>3
  <1> HIDE DEF q
  <1>5. ASSUME NEW i \in 1 .. n PROVE m[i] = q[i]
    <2>1. i + 1 \in 1 .. n + 1
      BY <1>1
    <2>2. m[i] = f[a[i + 1]]
      BY <1>1, <1>2
    <2>3. q[i] = f[a[i + 1]]
      BY <1>3, <1>4, <2>1
    <2> QED
      BY <2>2, <2>3
  <1>6. m = q
    BY <1>2, <1>4, <1>5, SeqEqual
  <1>7. p[1] = f[Head(a)]
    BY <1>1, <1>3
  <1> QED
    BY <1>4, <1>6, <1>7 DEF m, q, p, b, ShrinksWith
=============================================================================
