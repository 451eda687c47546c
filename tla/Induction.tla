----------------------------- MODULE Induction -----------------------------
(***************************************************************************)
(* Induction and recursion with sets and functions in the place of         *)
(* predicates, which is the form the provers here can use: a set of        *)
(* numbers has a least member, a family of finite sets a minimal one, and  *)
(* a recursion that looks at smaller arguments only has a solution.  From  *)
(* these: sums over finite sets, and sequences put together from           *)
(* sequences.                                                              *)
(***************************************************************************)
EXTENDS Integers, SequencesExt, FiniteSetTheorems, SequenceTheorems, TLAPS

(* A family of finite sets that is not empty has a member no other member   *)
(* is a proper part of.                                                     *)
LEMMA MinimalSet ==
  ASSUME NEW T, T # {}, \A s \in T : IsFiniteSet(s)
  PROVE  \E m \in T : \A s \in T : s \subseteq m => s = m
<1> DEFINE S == UNION T
<1>1. T \subseteq FiniteSubsetsOf(S)
  BY DEF FiniteSubsetsOf
<1>2. IsWellFoundedOn(StrictSubsetOrdering(S), FiniteSubsetsOf(S))
  BY FS_StrictSubsetOrderingWellFounded
<1>3. PICK m \in T : \A s \in T : ~(<<s, m>> \in StrictSubsetOrdering(S))
  BY <1>1, <1>2, WFMin
<1>4. ASSUME NEW s \in T, s \subseteq m, s # m PROVE FALSE
  <2>1. <<s, m>> \in (SUBSET S) \X (SUBSET S)
    OBVIOUS
  <2>2. <<s, m>> \in StrictSubsetOrdering(S)
    BY <1>4, <2>1 DEF StrictSubsetOrdering
  <2> QED BY <1>3, <2>2
<1> QED BY <1>4

(* A set of numbers that is not empty has a least member. *)
LEMMA LeastNumber ==
  ASSUME NEW T \in SUBSET Nat, T # {}
  PROVE  \E m \in T : \A n \in T : m <= n
<1> DEFINE Below == {0 .. n : n \in T}
<1>1. ASSUME NEW s \in Below PROVE IsFiniteSet(s)
  <2>1. PICK n \in T : s = 0 .. n
    OBVIOUS
  <2>2. 0 \in Int /\ n \in Int
    OBVIOUS
  <2> QED BY <2>1, <2>2, FS_Interval
<1>2. Below # {}
  OBVIOUS
<1>3. PICK b \in Below : \A s \in Below : s \subseteq b => s = b
  <2> HIDE DEF Below
  <2> QED BY <1>1, <1>2, MinimalSet
<1>4. PICK m \in T : b = 0 .. m
  OBVIOUS
<1>5. ASSUME NEW n \in T PROVE m <= n
  <2> SUFFICES ASSUME n < m PROVE FALSE
    OBVIOUS
  <2>1. 0 .. n \in Below /\ 0 .. n \subseteq b
    BY <1>4
  <2>2. 0 .. n = 0 .. m
    BY <1>3, <1>4, <2>1
  <2>3. m \in 0 .. m /\ m \notin 0 .. n
    OBVIOUS
  <2> QED BY <2>2, <2>3
<1> QED BY <1>5

(* If every number whose smaller ones are all in T is in T, all are. *)
LEMMA AllNumbers ==
  ASSUME NEW T, \A n \in Nat : (\A m \in Nat : m < n => m \in T) => n \in T
  PROVE  Nat \subseteq T
<1> SUFFICES ASSUME Nat \ T # {} PROVE FALSE
  OBVIOUS
<1>1. PICK n \in Nat \ T : \A m \in Nat \ T : n <= m
  BY LeastNumber
<1>2. \A m \in Nat : m < n => m \in T
  BY <1>1
<1> QED BY <1>1, <1>2

(* E makes a function out of a function, and what it makes at x comes from  *)
(* the values at arguments of a smaller rank.                               *)
LooksDown(E, rank, S, V) ==
  /\ rank \in [S -> Nat]
  /\ E \in [[S -> V] -> [S -> V]]
  /\ \A g, h \in [S -> V], x \in S :
       (\A y \in S : rank[y] < rank[x] => g[y] = h[y]) => E[g][x] = E[h][x]

(* g solves the recursion up to rank n. *)
Solves(g, E, rank, S, n) == \A x \in S : rank[x] < n => g[x] = E[g][x]

(* Two solutions agree as far as both go. *)
LEMMA OneSolution ==
  ASSUME NEW S, NEW V, NEW rank, NEW E, LooksDown(E, rank, S, V),
         NEW n \in Nat
  PROVE  \A g, h \in [S -> V] :
           Solves(g, E, rank, S, n) /\ Solves(h, E, rank, S, n)
             => \A x \in S : rank[x] < n => g[x] = h[x]
<1>1. rank \in [S -> Nat] /\ E \in [[S -> V] -> [S -> V]]
  BY DEF LooksDown
<1> USE <1>1
<1> SUFFICES ASSUME NEW g \in [S -> V], NEW h \in [S -> V],
                    Solves(g, E, rank, S, n), Solves(h, E, rank, S, n)
             PROVE  \A x \in S : rank[x] < n => g[x] = h[x]
  OBVIOUS
<1> DEFINE T == {r \in Nat : \A x \in S : rank[x] = r /\ r < n => g[x] = h[x]}
<1>2. ASSUME NEW r \in Nat, \A q \in Nat : q < r => q \in T PROVE r \in T
  <2> SUFFICES ASSUME NEW x \in S, rank[x] = r, r < n PROVE g[x] = h[x]
    OBVIOUS
  <2>1. \A y \in S : rank[y] < rank[x] => g[y] = h[y]
    <3> SUFFICES ASSUME NEW y \in S, rank[y] < rank[x] PROVE g[y] = h[y]
      OBVIOUS
    <3>1. rank[y] \in Nat /\ rank[y] < r /\ rank[y] < n
      OBVIOUS
    <3>2. rank[y] \in T
      BY <1>2, <3>1
    <3> QED BY <3>1, <3>2
  <2>2. E[g][x] = E[h][x]
    BY <2>1 DEF LooksDown
  <2> QED BY <2>2 DEF Solves
<1>3. Nat \subseteq T
  <2> HIDE DEF T
  <2> QED BY <1>2, AllNumbers
<1> QED BY <1>3

(* There is a solution up to any rank. *)
LEMMA SomeSolution ==
  ASSUME NEW S, NEW V, V # {}, NEW rank, NEW E, LooksDown(E, rank, S, V)
  PROVE  \A n \in Nat : \E g \in [S -> V] : Solves(g, E, rank, S, n)
<1>1. rank \in [S -> Nat] /\ E \in [[S -> V] -> [S -> V]]
  BY DEF LooksDown
<1> USE <1>1
<1> DEFINE T == {n \in Nat : \E g \in [S -> V] : Solves(g, E, rank, S, n)}
<1>2. ASSUME NEW n \in Nat, \A m \in Nat : m < n => m \in T PROVE n \in T
  <2>1. CASE n = 0
    <3>1. PICK v \in V : TRUE
      OBVIOUS
    <3>2. [x \in S |-> v] \in [S -> V] /\ Solves([x \in S |-> v], E, rank, S, n)
      BY <2>1 DEF Solves
    <3> QED BY <3>2
  <2>2. CASE n > 0
    <3>1. n - 1 \in Nat /\ n - 1 < n
      BY <2>2
    <3>2. n - 1 \in T
      BY <1>2, <3>1
    <3>3. PICK g \in [S -> V] : Solves(g, E, rank, S, n - 1)
      BY <3>2
    <3>4. E[g] \in [S -> V]
      OBVIOUS
    <3>5. ASSUME NEW x \in S, rank[x] < n PROVE E[g][x] = E[E[g]][x]
      <4>1. \A y \in S : rank[y] < rank[x] => g[y] = E[g][y]
        BY <3>3, <3>5 DEF Solves
      <4> QED BY <3>4, <4>1 DEF LooksDown
    <3>6. Solves(E[g], E, rank, S, n)
      BY <3>5 DEF Solves
    <3> QED BY <3>4, <3>6
  <2> QED BY <2>1, <2>2
<1>3. Nat \subseteq T
  <2> HIDE DEF T
  <2> QED BY <1>2, AllNumbers
<1> QED BY <1>3

(* A recursion that looks down has a solution. *)
LEMMA Recursion ==
  ASSUME NEW S, NEW V, V # {}, NEW rank, NEW E, LooksDown(E, rank, S, V)
  PROVE  \E f \in [S -> V] : f = E[f]
<1>1. rank \in [S -> Nat] /\ E \in [[S -> V] -> [S -> V]]
  BY DEF LooksDown
<1> USE <1>1
<1> DEFINE part(n) == CHOOSE g \in [S -> V] : Solves(g, E, rank, S, n)
           f == [x \in S |-> part(rank[x] + 1)[x]]
<1> HIDE DEF part, f
<1>2. \A n \in Nat : \A p, q \in [S -> V] :
        Solves(p, E, rank, S, n) /\ Solves(q, E, rank, S, n)
          => \A x \in S : rank[x] < n => p[x] = q[x]
  BY OneSolution
<1> USE DEF part, f
<1>3. \A n \in Nat : part(n) \in [S -> V] /\ Solves(part(n), E, rank, S, n)
  BY SomeSolution
<1>4. f \in [S -> V]
  BY <1>3
<1>5. ASSUME NEW x \in S PROVE f[x] = E[f][x]
  <2> DEFINE g == part(rank[x] + 1)
  <2>1. g \in [S -> V] /\ Solves(g, E, rank, S, rank[x] + 1) /\ f[x] = g[x]
    BY <1>3
  <2>2. ASSUME NEW y \in S, rank[y] < rank[x] PROVE g[y] = f[y]
    <3> DEFINE n == rank[y] + 1
               h == part(n)
    <3>1. n \in Nat /\ rank[y] < n
      OBVIOUS
    <3>2. h \in [S -> V] /\ Solves(h, E, rank, S, n) /\ f[y] = h[y]
      BY <1>3, <3>1
    <3>3. Solves(g, E, rank, S, n)
      BY <2>1, <2>2 DEF Solves
    <3> HIDE DEF part, n, g, h, f
    <3>4. \A z \in S : rank[z] < n => g[z] = h[z]
      BY <2>1, <3>1, <3>2, <3>3, <1>2
    <3> QED BY <3>1, <3>2, <3>4
  <2> HIDE DEF part, g, f
  <2>3. E[g][x] = E[f][x]
    BY <1>4, <2>1, <2>2 DEF LooksDown
  <2> QED BY <2>1, <2>3 DEF Solves
<1> HIDE DEF f
<1>6. E[f] \in [S -> V]
  BY <1>4
<1> QED BY <1>4, <1>5, <1>6

(***************************************************************************)
(* Sums over a finite set, which MapThenSumSet of FiniteSetsExt adds up    *)
(* one member at a time.                                                   *)
(***************************************************************************)
Pick(s) == CHOOSE x \in s : TRUE

SumsUp(f, w, S) ==
  f = [s \in SUBSET S |-> IF s = {} THEN 0 ELSE w[Pick(s)] + f[s \ {Pick(s)}]]

(* What is left of a finite set without one member is smaller. *)
LEMMA PickLess ==
  ASSUME NEW S, IsFiniteSet(S), NEW s \in SUBSET S, s # {}
  PROVE  /\ Pick(s) \in s
         /\ s \ {Pick(s)} \in SUBSET S
         /\ Cardinality(s) \in Nat
         /\ Cardinality(s \ {Pick(s)}) < Cardinality(s)
<1>1. IsFiniteSet(s)
  BY FS_Subset
<1>2. Pick(s) \in s
  BY DEF Pick
<1>3. Cardinality(s) \in Nat
  BY <1>1, FS_CardinalityType
<1>4. Cardinality(s \ {Pick(s)}) = Cardinality(s) - 1
  BY <1>1, <1>2, FS_RemoveElement
<1> QED BY <1>2, <1>3, <1>4

(* There is a sum. *)
LEMMA SumExists ==
  ASSUME NEW S, IsFiniteSet(S), NEW w \in [S -> Int]
  PROVE  \E f \in [SUBSET S -> Int] : SumsUp(f, w, S)
<1> DEFINE rank == [s \in SUBSET S |-> Cardinality(s)]
           at(f, s) == IF s = {} THEN 0 ELSE w[Pick(s)] + f[s \ {Pick(s)}]
           E == [f \in [SUBSET S -> Int] |-> [s \in SUBSET S |-> at(f, s)]]
<1>1. rank \in [SUBSET S -> Nat]
  <2>1. ASSUME NEW s \in SUBSET S PROVE Cardinality(s) \in Nat
    BY FS_Subset, FS_CardinalityType
  <2> QED BY <2>1
<1>2. ASSUME NEW f \in [SUBSET S -> Int], NEW s \in SUBSET S PROVE at(f, s) \in Int
  <2>1. CASE s # {}
    <3>1. Pick(s) \in S /\ s \ {Pick(s)} \in SUBSET S
      BY <2>1, PickLess
    <3> QED BY <2>1, <3>1
  <2> QED BY <2>1
<1>3. E \in [[SUBSET S -> Int] -> [SUBSET S -> Int]]
  <2> HIDE DEF at
  <2> QED BY <1>2
<1>4. ASSUME NEW g \in [SUBSET S -> Int], NEW h \in [SUBSET S -> Int], NEW s \in SUBSET S,
             \A r \in SUBSET S : rank[r] < rank[s] => g[r] = h[r]
      PROVE  E[g][s] = E[h][s]
  <2>1. at(g, s) = at(h, s)
    BY <1>4, PickLess
  <2> HIDE DEF at
  <2> QED BY <2>1
<1>5. LooksDown(E, rank, SUBSET S, Int)
  <2> HIDE DEF rank, E
  <2> QED BY <1>1, <1>3, <1>4 DEF LooksDown
<1>6. PICK f \in [SUBSET S -> Int] : f = E[f]
  <2>1. Int # {}
    OBVIOUS
  <2> HIDE DEF rank, E
  <2> QED BY <1>5, <2>1, Recursion
<1>7. f = [s \in SUBSET S |-> at(f, s)]
  <2> HIDE DEF at
  <2> QED BY <1>6
<1> QED BY <1>7 DEF SumsUp

(* The sum over a part does not depend on the whole it is taken from. *)
LEMMA SumOfPart ==
  ASSUME NEW U, IsFiniteSet(U), NEW w, NEW S \in SUBSET U,
         NEW f, SumsUp(f, w, S), NEW g, SumsUp(g, w, U)
  PROVE  f[S] = g[S]
<1> DEFINE T == {s \in SUBSET S : f[s] # g[s]}
<1> SUFFICES ASSUME T # {} PROVE FALSE
  OBVIOUS
<1>1. \A s \in T : IsFiniteSet(s)
  BY FS_Subset
<1>2. PICK m \in T : \A s \in T : s \subseteq m => s = m
  <2> HIDE DEF T
  <2> QED BY <1>1, MinimalSet
<1>3. m \in SUBSET S /\ m \in SUBSET U /\ f[m] # g[m]
  OBVIOUS
<1>4. m # {}
  BY <1>3 DEF SumsUp
<1>5. Pick(m) \in m
  BY <1>4 DEF Pick
<1>6. m \ {Pick(m)} \in SUBSET S /\ m \ {Pick(m)} # m
  BY <1>3, <1>5
<1>7. f[m \ {Pick(m)}] = g[m \ {Pick(m)}]
  BY <1>2, <1>6
<1>8. f[m] = w[Pick(m)] + f[m \ {Pick(m)}] /\ g[m] = w[Pick(m)] + g[m \ {Pick(m)}]
  BY <1>3, <1>4 DEF SumsUp
<1> QED BY <1>3, <1>7, <1>8

(* A sum of numbers is a number. *)
LEMMA SumType ==
  ASSUME NEW U, IsFiniteSet(U), NEW w \in [U -> Int], NEW f, SumsUp(f, w, U)
  PROVE  \A s \in SUBSET U : f[s] \in Int
<1> DEFINE T == {s \in SUBSET U : f[s] \notin Int}
<1> SUFFICES ASSUME T # {} PROVE FALSE
  OBVIOUS
<1>1. \A s \in T : IsFiniteSet(s)
  BY FS_Subset
<1>2. PICK m \in T : \A s \in T : s \subseteq m => s = m
  <2> HIDE DEF T
  <2> QED BY <1>1, MinimalSet
<1>3. m \in SUBSET U /\ f[m] \notin Int
  OBVIOUS
<1>4. m # {}
  BY <1>3 DEF SumsUp
<1>5. Pick(m) \in m /\ Pick(m) \in U
  BY <1>3, <1>4 DEF Pick
<1>6. f[m \ {Pick(m)}] \in Int
  BY <1>2, <1>3, <1>5
<1>7. f[m] = w[Pick(m)] + f[m \ {Pick(m)}]
  BY <1>3, <1>4 DEF SumsUp
<1> QED BY <1>3, <1>5, <1>6, <1>7

(* The members can be added in any order. *)
LEMMA SumAnyOrder ==
  ASSUME NEW U, IsFiniteSet(U), NEW w \in [U -> Int], NEW f, SumsUp(f, w, U)
  PROVE  \A s \in SUBSET U : \A x \in s : f[s] = w[x] + f[s \ {x}]
<1> DEFINE T == {s \in SUBSET U : \E x \in s : f[s] # w[x] + f[s \ {x}]}
<1> SUFFICES ASSUME T # {} PROVE FALSE
  OBVIOUS
<1>1. \A s \in T : IsFiniteSet(s)
  BY FS_Subset
<1>2. PICK m \in T : \A s \in T : s \subseteq m => s = m
  <2> HIDE DEF T
  <2> QED BY <1>1, MinimalSet
<1>3. m \in SUBSET U
  OBVIOUS
<1>4. PICK x \in m : f[m] # w[x] + f[m \ {x}]
  OBVIOUS
<1> DEFINE c == Pick(m)
<1>5. c \in m /\ f[m] = w[c] + f[m \ {c}]
  BY <1>3, <1>4 DEF SumsUp, Pick
<1> HIDE DEF c
<1>6. c # x
  BY <1>4, <1>5
<1> DEFINE rest == (m \ {x}) \ {c}
<1>7. f[m \ {c}] = w[x] + f[rest]
  <2>1. f[m \ {c}] = w[x] + f[(m \ {c}) \ {x}]
    <3> DEFINE p == m \ {c}
    <3>1. p \in SUBSET U /\ p \subseteq m /\ p # m /\ x \in p
      BY <1>3, <1>5, <1>6
    <3>2. p \notin T
      <4> HIDE DEF p, T
      <4> QED BY <1>2, <3>1
    <3> HIDE DEF p
    <3>3. f[p] = w[x] + f[p \ {x}]
      BY <3>1, <3>2
    <3> QED BY <3>3 DEF p
  <2>2. (m \ {c}) \ {x} = rest
    OBVIOUS
  <2> QED BY <2>1, <2>2
<1>8. f[m \ {x}] = w[c] + f[rest]
  <2> DEFINE p == m \ {x}
  <2>1. p \in SUBSET U /\ p \subseteq m /\ p # m /\ c \in p
    BY <1>3, <1>4, <1>5, <1>6
  <2>2. p \notin T
    <3> HIDE DEF p, T
    <3> QED BY <1>2, <2>1
  <2> HIDE DEF p
  <2>3. f[p] = w[c] + f[p \ {c}]
    BY <2>1, <2>2
  <2> QED BY <2>3 DEF p
<1>9. f[rest] \in Int /\ w[x] \in Int /\ w[c] \in Int
  BY <1>3, <1>5, SumType
<1> HIDE DEF rest, T
<1> QED BY <1>4, <1>5, <1>7, <1>8, <1>9
-----------------------------------------------------------------------------
(* Sequences of whatever values. *)

IsSeq(s) == \E S : s \in Seq(S)

LEMMA OneSet ==
  ASSUME NEW s, NEW t, NEW x, IsSeq(s), IsSeq(t)
  PROVE  \E T : s \in Seq(T) /\ t \in Seq(T) /\ x \in T
<1>1. PICK S1 : s \in Seq(S1)
  BY DEF IsSeq
<1>2. PICK S2 : t \in Seq(S2)
  BY DEF IsSeq
<1> DEFINE T == S1 \union S2 \union {x}
<1>3. S1 \subseteq T /\ S2 \subseteq T /\ x \in T
  OBVIOUS
<1> HIDE DEF T
<1>4. s \in Seq(T) /\ t \in Seq(T)
  BY <1>1, <1>2, <1>3, SeqMonotonic
<1> QED BY <1>3, <1>4

LEMMA EmptyIsSeq == IsSeq(<<>>)
BY EmptySeq DEF IsSeq

LEMMA SingleIsSeq == \A x : IsSeq(<<x>>) /\ <<x>> # <<>>
<1> TAKE x
<1>1. <<x>> \in Seq({x}) /\ <<x>> # <<>>
  OBVIOUS
<1> QED BY <1>1 DEF IsSeq

(* What is put behind a sequence continues it. *)
LEMMA ConcatIsSeq ==
  ASSUME NEW s, NEW t, IsSeq(s), IsSeq(t)
  PROVE  /\ IsSeq(s \o t) /\ IsPrefix(s, s \o t)
         /\ s \o <<>> = s /\ <<>> \o s = s
         /\ t # <<>> => IsStrictPrefix(s, s \o t)
<1>1. PICK T : s \in Seq(T) /\ t \in Seq(T)
  BY OneSet
<1>2. s \o t \in Seq(T) /\ Len(s \o t) = Len(s) + Len(t)
  BY <1>1, ConcatProperties
<1>3. Len(s) \in Nat /\ Len(t) \in Nat
  BY <1>1, LenProperties
<1>4. SubSeq(s, 1, Len(s)) = SubSeq(s \o t, 1, Len(s))
  <2>1. CASE Len(s) = 0
    BY <2>1, SubSeqEmpty
  <2>2. CASE Len(s) # 0
    BY <1>1, <1>3, <2>2, SubSeqOfConcat1
  <2> QED BY <2>1, <2>2
<1>5. s \o <<>> = s /\ <<>> \o s = s
  BY <1>1, ConcatEmptySeq
<1>6. t # <<>> => s # s \o t
  BY <1>1, ConcatEqualIffEmpty
<1> QED BY <1>2, <1>3, <1>4, <1>5, <1>6 DEF IsSeq, IsPrefix, IsStrictPrefix

LEMMA ConcatAssoc ==
  ASSUME NEW s, NEW t, NEW u, IsSeq(s), IsSeq(t), IsSeq(u)
  PROVE  (s \o t) \o u = s \o (t \o u)
<1>1. IsSeq(s \o t)
  BY ConcatIsSeq
<1>2. PICK T1 : s \in Seq(T1) /\ t \in Seq(T1)
  BY OneSet
<1>3. PICK T2 : u \in Seq(T2)
  BY DEF IsSeq
<1> DEFINE T == T1 \union T2
<1>4. T1 \subseteq T /\ T2 \subseteq T
  OBVIOUS
<1> HIDE DEF T
<1>5. s \in Seq(T) /\ t \in Seq(T) /\ u \in Seq(T)
  BY <1>2, <1>3, <1>4, SeqMonotonic
<1> QED BY <1>5, ConcatAssociative

LEMMA AppendIsSeq ==
  ASSUME NEW s, NEW x, IsSeq(s)
  PROVE  /\ Append(s, x) = s \o <<x>>
         /\ IsSeq(Append(s, x)) /\ IsStrictPrefix(s, Append(s, x))
<1>1. PICK T : s \in Seq(T) /\ x \in T
  BY OneSet, EmptyIsSeq
<1>2. Append(s, x) = s \o <<x>>
  BY <1>1, AppendIsConcat
<1> QED BY <1>2, ConcatIsSeq, SingleIsSeq

LEMMA HeadTail ==
  ASSUME NEW s, IsSeq(s), s # <<>>
  PROVE  IsSeq(Tail(s)) /\ s = <<Head(s)>> \o Tail(s)
<1>1. PICK T : s \in Seq(T)
  BY DEF IsSeq
<1>2. Head(s) \in T /\ Tail(s) \in Seq(T)
  BY <1>1, HeadTailProperties
<1>3. s = <<Head(s)>> \o Tail(s)
  BY <1>1, <1>2
<1> QED BY <1>2, <1>3 DEF IsSeq

(* The length of a sequence, one longer, and one shorter. *)
LEMMA LengthOf ==
  ASSUME NEW s, IsSeq(s)
  PROVE  /\ Len(s) \in Nat
         /\ \A x : Len(Append(s, x)) = Len(s) + 1
         /\ s # <<>> => Len(Tail(s)) = Len(s) - 1
<1>1. PICK T : s \in Seq(T)
  BY DEF IsSeq
<1>2. Len(s) \in Nat
  BY <1>1, LenProperties
<1>3. ASSUME NEW x PROVE Len(Append(s, x)) = Len(s) + 1
  <2>1. PICK T2 : s \in Seq(T2) /\ x \in T2
    BY OneSet, EmptyIsSeq
  <2> QED BY <2>1, AppendProperties
<1>4. s # <<>> => Len(Tail(s)) = Len(s) - 1
  BY <1>1, HeadTailProperties
<1> QED BY <1>2, <1>3, <1>4

(* A sequence is a function on its indexes. *)
LEMMA SeqIs ==
  ASSUME NEW s, IsSeq(s)
  PROVE  Len(s) \in Nat /\ DOMAIN s = 1 .. Len(s) /\ s = [k \in 1 .. Len(s) |-> s[k]]
<1>1. PICK T : s \in Seq(T)
  BY DEF IsSeq
<1>2. Len(s) \in Nat /\ s \in [1 .. Len(s) -> T] /\ DOMAIN s = 1 .. Len(s)
  BY <1>1, LenProperties
<1> QED BY <1>2

LEMMA SeqMade ==
  ASSUME NEW N \in Nat, NEW s, s = [k \in 1 .. N |-> s[k]]
  PROVE  IsSeq(s) /\ Len(s) = N
<1> DEFINE T == {s[k] : k \in 1 .. N}
<1>1. s \in [1 .. N -> T]
  OBVIOUS
<1> HIDE DEF T
<1>2. s \in Seq(T) /\ DOMAIN s = 1 .. N
  BY <1>1
<1>3. Len(s) = N
  BY <1>2, LenProperties
<1> QED BY <1>2, <1>3 DEF IsSeq

LEMMA SeqSame ==
  ASSUME NEW s, NEW t, IsSeq(s), IsSeq(t), Len(s) = Len(t),
         \A k \in 1 .. Len(s) : s[k] = t[k]
  PROVE  s = t
<1>1. s = [k \in 1 .. Len(s) |-> s[k]] /\ t = [k \in 1 .. Len(s) |-> t[k]]
  BY SeqIs
<1>2. [k \in 1 .. Len(s) |-> s[k]] = [k \in 1 .. Len(s) |-> t[k]]
  OBVIOUS
<1> QED BY <1>1, <1>2

LEMMA ConcatAfter ==
  ASSUME NEW s, NEW t, IsSeq(s), IsSeq(t), NEW k \in 1 .. Len(t)
  PROVE  (s \o t)[Len(s) + k] = t[k]
<1>1. PICK T : s \in Seq(T) /\ t \in Seq(T)
  BY OneSet
<1>2. \A i \in 1 .. Len(s) + Len(t) :
        (s \o t)[i] = IF i <= Len(s) THEN s[i] ELSE t[i - Len(s)]
  BY <1>1, ConcatProperties
<1>3. Len(s) \in Nat /\ Len(t) \in Nat
  BY SeqIs
<1>4. Len(s) + k \in 1 .. Len(s) + Len(t) /\ ~(Len(s) + k <= Len(s)) /\ Len(s) + k - Len(s) = k
  BY <1>3
<1> QED BY <1>2, <1>4

LEMMA ConcatAt ==
  ASSUME NEW s, NEW t, IsSeq(s), IsSeq(t)
  PROVE  /\ Len(s \o t) = Len(s) + Len(t)
         /\ \A k \in 1 .. Len(s) : (s \o t)[k] = s[k]
         /\ \A k \in 1 .. Len(t) : (s \o t)[Len(s) + k] = t[k]
<1>1. PICK T : s \in Seq(T) /\ t \in Seq(T)
  BY OneSet
<1>2. /\ Len(s \o t) = Len(s) + Len(t)
      /\ \A i \in 1 .. Len(s) + Len(t) :
           (s \o t)[i] = IF i <= Len(s) THEN s[i] ELSE t[i - Len(s)]
  BY <1>1, ConcatProperties
<1>3. Len(s) \in Nat /\ Len(t) \in Nat
  BY SeqIs
<1>4. ASSUME NEW k \in 1 .. Len(t) PROVE (s \o t)[Len(s) + k] = t[k]
  BY ConcatAfter
<1>5. ASSUME NEW k \in 1 .. Len(s) PROVE (s \o t)[k] = s[k]
  <2>1. k \in 1 .. Len(s) + Len(t) /\ k <= Len(s)
    BY <1>3
  <2> QED BY <1>2, <2>1
<1> QED BY <1>2, <1>4, <1>5

LEMMA SingleAt == \A x : IsSeq(<<x>>) /\ Len(<<x>>) = 1 /\ <<x>>[1] = x
<1> TAKE x
<1>1. Len(<<x>>) = 1 /\ <<x>>[1] = x
  OBVIOUS
<1> QED BY <1>1, SingleIsSeq

LEMMA EmptyLen ==
  /\ Len(<<>>) = 0
  /\ \A s : IsSeq(s) /\ Len(s) = 0 => s = <<>>
<1>1. Len(<<>>) = 0
  OBVIOUS
<1>2. ASSUME NEW s, IsSeq(s), Len(s) = 0 PROVE s = <<>>
  BY <1>1, <1>2, SeqSame, EmptyIsSeq
<1> QED BY <1>1, <1>2

(* FlattenSeq, from the front: a sequence of sequences that gets one more.  *)
FirstOf(S, n) == [k \in 1 .. n |-> S[k]]

Flattens(f, S, N) ==
  f = [k \in 1 .. N |-> IF k = 1 THEN S[k] ELSE f[k - 1] \o S[k]]

LEMMA FlattenExists ==
  ASSUME NEW S, NEW N \in Nat, \A k \in 1 .. N : IsSeq(S[k])
  PROVE  \E f : Flattens(f, S, N) /\ \A k \in 1 .. N : IsSeq(f[k])
<1> DEFINE kind(k) == CHOOSE T : S[k] \in Seq(T)
           D == UNION {kind(k) : k \in 1 .. N}
           V == Seq(D)
           rank == [k \in 1 .. N |-> k]
           at(f, k) == IF k = 1 THEN S[k] ELSE f[k - 1] \o S[k]
           E == [f \in [1 .. N -> V] |-> [k \in 1 .. N |-> at(f, k)]]
<1>1. ASSUME NEW k \in 1 .. N PROVE S[k] \in V
  <2>1. S[k] \in Seq(kind(k))
    BY DEF IsSeq
  <2>2. kind(k) \subseteq D
    OBVIOUS
  <2> HIDE DEF D, kind
  <2> QED BY <2>1, <2>2, SeqMonotonic
<1>2. V # {}
  <2> HIDE DEF D
  <2> QED BY EmptySeq
<1>3. rank \in [1 .. N -> Nat]
  OBVIOUS
<1>4. ASSUME NEW f \in [1 .. N -> V], NEW k \in 1 .. N PROVE at(f, k) \in V
  <2> HIDE DEF D
  <2>1. CASE k # 1
    <3>1. f[k - 1] \in V
      BY <2>1
    <3> QED BY <1>1, <2>1, <3>1, ConcatProperties
  <2> QED BY <1>1, <2>1
<1> HIDE DEF D, V
<1>5. E \in [[1 .. N -> V] -> [1 .. N -> V]]
  <2> HIDE DEF at
  <2> QED BY <1>4
<1>6. ASSUME NEW g \in [1 .. N -> V], NEW h \in [1 .. N -> V], NEW k \in 1 .. N,
             \A y \in 1 .. N : rank[y] < rank[k] => g[y] = h[y]
      PROVE  E[g][k] = E[h][k]
  <2>1. k # 1 => g[k - 1] = h[k - 1]
    <3> SUFFICES ASSUME k # 1 PROVE g[k - 1] = h[k - 1]
      OBVIOUS
    <3>1. k - 1 \in 1 .. N /\ rank[k - 1] < rank[k]
      OBVIOUS
    <3> QED BY <1>6, <3>1
  <2>2. at(g, k) = at(h, k)
    BY <2>1
  <2> HIDE DEF at
  <2> QED BY <2>2
<1>7. LooksDown(E, rank, 1 .. N, V)
  <2> HIDE DEF E, rank
  <2> QED BY <1>3, <1>5, <1>6 DEF LooksDown
<1>8. PICK f \in [1 .. N -> V] : f = E[f]
  <2> DEFINE I == 1 .. N
  <2>1. LooksDown(E, rank, I, V) /\ V # {}
    BY <1>2, <1>7
  <2> HIDE DEF E, rank, I
  <2>2. \E f \in [I -> V] : f = E[f]
    BY <2>1, Recursion
  <2> QED BY <2>2 DEF I
<1>9. f = [k \in 1 .. N |-> at(f, k)]
  BY <1>8
<1>10. Flattens(f, S, N)
  BY <1>9 DEF Flattens
<1>11. ASSUME NEW k \in 1 .. N PROVE IsSeq(f[k])
  BY DEF V, IsSeq
<1> QED BY <1>10, <1>11

(* What is flattened up to an index depends on what is there up to it. *)
LEMMA FlattenAgree ==
  ASSUME NEW S, NEW R, NEW f, NEW g, NEW N \in Nat, NEW M \in Nat,
         Flattens(f, S, N), Flattens(g, R, M),
         NEW n \in Nat, n <= N, n <= M, \A k \in 1 .. n : S[k] = R[k]
  PROVE  \A k \in 1 .. n : f[k] = g[k]
<1> DEFINE T == {k \in Nat : k \in 1 .. n => f[k] = g[k]}
<1>1. ASSUME NEW k \in Nat, \A m \in Nat : m < k => m \in T PROVE k \in T
  <2> SUFFICES ASSUME k \in 1 .. n PROVE f[k] = g[k]
    OBVIOUS
  <2>1. k \in 1 .. N /\ k \in 1 .. M /\ S[k] = R[k]
    OBVIOUS
  <2>2. /\ f[k] = IF k = 1 THEN S[k] ELSE f[k - 1] \o S[k]
        /\ g[k] = IF k = 1 THEN R[k] ELSE g[k - 1] \o R[k]
    BY <2>1 DEF Flattens
  <2>3. k # 1 => f[k - 1] = g[k - 1]
    <3> SUFFICES ASSUME k # 1 PROVE f[k - 1] = g[k - 1]
      OBVIOUS
    <3>1. k - 1 \in Nat /\ k - 1 < k /\ k - 1 \in 1 .. n
      OBVIOUS
    <3> QED BY <1>1, <3>1
  <2> QED BY <2>1, <2>2, <2>3
<1>2. Nat \subseteq T
  <2> HIDE DEF T
  <2> QED BY <1>1, AllNumbers
<1> QED BY <1>2

LEMMA FlattenIs ==
  ASSUME NEW S, NEW N \in Nat, N > 0, Len(S) = N, NEW f, Flattens(f, S, N)
  PROVE  FlattenSeq(S) = f[N]
<1> DEFINE g == CHOOSE g : Flattens(g, S, N)
<1>1. Flattens(g, S, N)
  OBVIOUS
<1>2. FlattenSeq(S) = g[N]
  BY DEF FlattenSeq, Flattens
<1> HIDE DEF g
<1>3. N <= N /\ N \in 1 .. N /\ \A k \in 1 .. N : S[k] = S[k]
  OBVIOUS
<1>4. \A k \in 1 .. N : g[k] = f[k]
  BY <1>1, <1>3, FlattenAgree
<1> QED BY <1>2, <1>3, <1>4

LEMMA FlattenNone ==
  ASSUME NEW S
  PROVE  FlattenSeq(FirstOf(S, 0)) = <<>>
<1>1. FirstOf(S, 0) = [k \in 1 .. 0 |-> FirstOf(S, 0)[k]]
  BY DEF FirstOf
<1>2. IsSeq(FirstOf(S, 0)) /\ Len(FirstOf(S, 0)) = 0
  BY <1>1, SeqMade
<1>3. FirstOf(S, 0) = <<>>
  BY <1>2, EmptyLen
<1> QED BY <1>2, <1>3 DEF FlattenSeq

LEMMA FlattenMore ==
  ASSUME NEW S, NEW n \in Nat, \A k \in 1 .. n + 1 : IsSeq(S[k])
  PROVE  /\ FlattenSeq(FirstOf(S, n + 1)) = FlattenSeq(FirstOf(S, n)) \o S[n + 1]
         /\ IsSeq(FlattenSeq(FirstOf(S, n)))
<1> DEFINE A == FirstOf(S, n)
           B == FirstOf(S, n + 1)
<1>1. Len(A) = n /\ \A k \in 1 .. n : A[k] = S[k]
  <2>1. A = [k \in 1 .. n |-> A[k]]
    BY DEF FirstOf
  <2>2. \A k \in 1 .. n : A[k] = S[k]
    BY DEF FirstOf
  <2> HIDE DEF A
  <2> QED BY <2>1, <2>2, SeqMade
<1>2. Len(B) = n + 1 /\ \A k \in 1 .. n + 1 : B[k] = S[k]
  <2>1. B = [k \in 1 .. n + 1 |-> B[k]]
    BY DEF FirstOf
  <2>2. \A k \in 1 .. n + 1 : B[k] = S[k]
    BY DEF FirstOf
  <2>3. n + 1 \in Nat
    OBVIOUS
  <2> HIDE DEF B
  <2> QED BY <2>1, <2>2, <2>3, SeqMade
<1>3. (FlattenSeq(A) = <<>> /\ n = 0) \/ n > 0
  <2>1. CASE n = 0
    BY <2>1, FlattenNone
  <2> QED BY <2>1
<1> HIDE DEF A, B
<1>4. n + 1 \in Nat /\ \A k \in 1 .. n + 1 : IsSeq(B[k])
  BY <1>2
<1>5. PICK g : Flattens(g, B, n + 1) /\ \A k \in 1 .. n + 1 : IsSeq(g[k])
  BY <1>4, FlattenExists
<1>6. FlattenSeq(B) = g[n + 1]
  BY <1>2, <1>4, <1>5, FlattenIs
<1>7. g[n + 1] = IF n + 1 = 1 THEN B[n + 1] ELSE g[n + 1 - 1] \o B[n + 1]
  <2> DEFINE m == n + 1
  <2>1. g = [k \in 1 .. m |-> IF k = 1 THEN B[k] ELSE g[k - 1] \o B[k]]
    BY <1>5 DEF Flattens
  <2>2. m \in 1 .. m
    OBVIOUS
  <2> HIDE DEF m
  <2>3. g[m] = IF m = 1 THEN B[m] ELSE g[m - 1] \o B[m]
    BY <2>1, <2>2
  <2> QED BY <2>3 DEF m
<1>8. CASE n = 0
  <2>1. FlattenSeq(A) = <<>> /\ FlattenSeq(B) = S[1] /\ S[n + 1] = S[1]
    BY <1>2, <1>3, <1>6, <1>7, <1>8
  <2>2. <<>> \o S[1] = S[1]
    BY <1>8, EmptyIsSeq, ConcatIsSeq
  <2> QED BY <2>1, <2>2, EmptyIsSeq DEF A, B
<1>9. CASE n > 0
  <2>1. \A k \in 1 .. n : IsSeq(A[k])
    BY <1>1
  <2>2. PICK f : Flattens(f, A, n) /\ \A k \in 1 .. n : IsSeq(f[k])
    BY <2>1, FlattenExists
  <2>3. FlattenSeq(A) = f[n]
    BY <1>1, <1>9, <2>2, FlattenIs
  <2>4. n <= n /\ n <= n + 1 /\ n \in 1 .. n /\ \A k \in 1 .. n : A[k] = B[k]
    BY <1>1, <1>2, <1>9
  <2>5. \A k \in 1 .. n : f[k] = g[k]
    BY <1>4, <1>5, <2>2, <2>4, FlattenAgree
  <2>6. g[n + 1] = g[n] \o B[n + 1]
    <3>1. n + 1 - 1 = n /\ n + 1 # 1
      BY <1>9
    <3> QED BY <1>7, <3>1
  <2>7. g[n] = f[n] /\ B[n + 1] = S[n + 1] /\ IsSeq(f[n])
    BY <1>2, <2>2, <2>4, <2>5
  <2> QED BY <1>6, <2>3, <2>6, <2>7 DEF A, B
<1> QED BY <1>8, <1>9

LEMMA AppendAt ==
  ASSUME NEW s, NEW x, IsSeq(s)
  PROVE  /\ IsSeq(Append(s, x)) /\ Len(Append(s, x)) = Len(s) + 1
         /\ \A k \in 1 .. Len(s) : Append(s, x)[k] = s[k]
         /\ Append(s, x)[Len(s) + 1] = x
<1>1. PICK T : s \in Seq(T) /\ x \in T
  BY OneSet, EmptyIsSeq
<1>2. /\ Append(s, x) \in Seq(T) /\ Len(Append(s, x)) = Len(s) + 1
      /\ \A k \in 1 .. Len(s) : Append(s, x)[k] = s[k]
      /\ Append(s, x)[Len(s) + 1] = x
  BY <1>1, AppendProperties
<1> QED BY <1>2 DEF IsSeq

LEMMA AppendSame ==
  ASSUME NEW s, NEW t, NEW x, IsSeq(s), IsSeq(t), Len(t) = Len(s) + 1,
         \A k \in 1 .. Len(s) : t[k] = s[k], t[Len(s) + 1] = x
  PROVE  t = Append(s, x)
<1> DEFINE a == Append(s, x)
<1>1. /\ IsSeq(a) /\ Len(a) = Len(s) + 1 /\ a[Len(s) + 1] = x
      /\ \A k \in 1 .. Len(s) : a[k] = s[k]
  BY AppendAt
<1> HIDE DEF a
<1>2. Len(s) \in Nat
  BY SeqIs
<1>3. \A k \in 1 .. Len(t) : t[k] = a[k]
  <2> TAKE k \in 1 .. Len(t)
  <2>1. k \in 1 .. Len(s) \/ k = Len(s) + 1
    BY <1>2
  <2> QED BY <1>1, <2>1
<1>4. t = a
  BY <1>1, <1>3, SeqSame
<1> QED BY <1>4 DEF a
=============================================================================
