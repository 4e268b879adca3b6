---------------------------- MODULE SumTheorems -----------------------------
(***************************************************************************)
(* What MapThenSumSet does to a finite set: the sum of nothing is 0, and   *)
(* an element more adds its value, whichever order CHOOSE takes.           *)
(*                                                                         *)
(* MapThenSumSet is a recursive function picked with CHOOSE.  That there   *)
(* is one, that it is the only one and that the order does not matter are  *)
(* inductions over the subsets of a finite set; each is a proof that there *)
(* is no smallest counterexample, with WFMin for the relation of strict    *)
(* inclusion.                                                              *)
(***************************************************************************)
EXTENDS Integers, FiniteSetsExt, FiniteSetTheorems, WellFoundedInduction, TLAPS

Pick(s) == CHOOSE x \in s : TRUE

(* The recursion of MapThenSumSet, for the values F of the elements. *)
Sums(h, F, S) ==
    h = [s \in SUBSET S |-> IF s = {} THEN 0 ELSE F[Pick(s)] + h[s \ {Pick(s)}]]

(* The sum of F[x] over the x in S. *)
SumOf(F, S) == MapThenSumSet(LAMBDA x : F[x], S)

(* Of sets of subsets one is smallest.                                     *)
LEMMA Smallest ==
    ASSUME NEW S, IsFiniteSet(S), NEW T \in SUBSET SUBSET S, T # {}
    PROVE  \E s \in T : \A t \in T : t \subseteq s => t = s
  <1>1. IsWellFoundedOn(StrictSubsetOrdering(S), SUBSET S)
    BY FS_StrictSubsetOrderingWellFounded, FS_FiniteSubsetsOfFinite
  <1>2. PICK s \in T : \A t \in T : ~(<<t, s>> \in StrictSubsetOrdering(S))
    BY <1>1, WFMin
  <1> QED
    BY <1>2 DEF StrictSubsetOrdering

(* The recursion has one solution at most ...                              *)
LEMMA SumsAgree ==
    ASSUME NEW S, IsFiniteSet(S), NEW A, NEW B, S \subseteq A, S \subseteq B,
           NEW F, NEW G, \A x \in S : F[x] = G[x],
           NEW h, NEW g, Sums(h, F, A), Sums(g, G, B)
    PROVE  h[S] = g[S]
  <1> DEFINE T == {s \in SUBSET S : h[s] # g[s]}
  <1>1. SUFFICES ASSUME T # {} PROVE FALSE
    OBVIOUS
  <1>2. \E s \in T : \A t \in T : t \subseteq s => t = s
    <2>1. T \in SUBSET SUBSET S
      OBVIOUS
    <2> HIDE DEF T
    <2> QED
      BY <1>1, <2>1, Smallest
  <1>2a. PICK s \in T : \A t \in T : t \subseteq s => t = s
    BY <1>2
  <1>3. s \in SUBSET S /\ s \in SUBSET A /\ s \in SUBSET B /\ h[s] # g[s]
    BY <1>2a
  <1>4. CASE s = {}
    BY <1>3, <1>4 DEF Sums
  <1>5. CASE s # {}
    <2>1. Pick(s) \in s
      BY <1>5 DEF Pick
    <2>2. h[s \ {Pick(s)}] = g[s \ {Pick(s)}]
      BY <1>2a, <2>1
    <2>3. h[s] = F[Pick(s)] + h[s \ {Pick(s)}] /\ g[s] = G[Pick(s)] + g[s \ {Pick(s)}]
      BY <1>3, <1>5 DEF Sums
    <2> QED
      BY <1>3, <2>1, <2>2, <2>3
  <1> QED
    BY <1>4, <1>5

(* ... and has one.                                                        *)
LEMMA SumsExist ==
    ASSUME NEW S, IsFiniteSet(S), NEW F
    PROVE  \E h : Sums(h, F, S)
  <1> DEFINE T == {s \in SUBSET S : ~\E h : Sums(h, F, s)}
  <1>1. SUFFICES ASSUME T # {} PROVE FALSE
    OBVIOUS
  <1>2. \E s \in T : \A t \in T : t \subseteq s => t = s
    <2>1. T \in SUBSET SUBSET S
      OBVIOUS
    <2> HIDE DEF T
    <2> QED
      BY <1>1, <2>1, Smallest
  <1>2a. PICK s \in T : \A t \in T : t \subseteq s => t = s
    BY <1>2
  <1> DEFINE sol(t) == CHOOSE h : Sums(h, F, t)
             rest(t) == t \ {Pick(t)}
             value(t) == IF t = {} THEN 0 ELSE F[Pick(t)] + sol(rest(t))[rest(t)]
             h == [t \in SUBSET s |-> value(t)]
  <1>3. ASSUME NEW t \in SUBSET s, t # s PROVE Sums(sol(t), F, t)
    <2>1. \E k : Sums(k, F, t)
      BY <1>2a, <1>3
    <2> QED
      BY <2>1
  <1>4. ASSUME NEW t \in SUBSET s, t # {} PROVE rest(t) \in SUBSET s /\ rest(t) # s /\ rest(t) # t
    BY <1>4 DEF Pick
  <1>5. ASSUME NEW t \in SUBSET s, t # s PROVE sol(t)[t] = value(t)
    <2>1. Sums(sol(t), F, t)
      BY <1>3, <1>5
    <2> HIDE DEF sol
    <2>2. CASE t = {}
      BY <2>1, <2>2 DEF Sums
    <2>3. CASE t # {}
      <3>1. sol(t)[t] = F[Pick(t)] + sol(t)[rest(t)]
        BY <2>1, <2>3 DEF Sums
      <3>2. Sums(sol(rest(t)), F, rest(t))
        BY <1>3, <1>4, <2>3
      <3>3. IsFiniteSet(rest(t))
        BY FS_Subset
      <3>4. sol(t)[rest(t)] = sol(rest(t))[rest(t)]
        BY <2>1, <3>2, <3>3, SumsAgree
      <3> QED
        BY <2>3, <3>1, <3>4
    <2> QED
      BY <2>2, <2>3
  <1>6. Sums(h, F, s)
    <2>1. ASSUME NEW t \in SUBSET s, t # {} PROVE h[t] = F[Pick(t)] + h[rest(t)]
      <3>1. h[rest(t)] = value(rest(t))
        BY <1>4, <2>1
      <3>2. sol(rest(t))[rest(t)] = value(rest(t))
        BY <1>4, <1>5, <2>1
      <3> QED
        BY <2>1, <3>1, <3>2
    <2>2. h[{}] = 0
      OBVIOUS
    <2>3. h = [t \in SUBSET s |-> h[t]]
      OBVIOUS
    <2> HIDE DEF h
    <2> QED
      BY <2>1, <2>2, <2>3 DEF Sums
  <1> QED
    BY <1>2a, <1>6

(* A sum is the value at S of the recursion over any set around S.         *)
LEMMA SumIs ==
    ASSUME NEW S, IsFiniteSet(S), NEW A, S \subseteq A, NEW F, NEW h, Sums(h, F, A)
    PROVE  SumOf(F, S) = h[S]
  <1>1. PICK g : Sums(g, F, S) /\ SumOf(F, S) = g[S]
    <2>1. \E g : Sums(g, F, S)
      BY SumsExist
    <2> QED
      BY <2>1 DEF Sums, SumOf, MapThenSumSet, MapThenFoldSet, Pick
  <1> QED
    BY <1>1, SumsAgree

(* The sum of nothing is 0.                                                *)
LEMMA SumEmpty ==
    ASSUME NEW F
    PROVE  SumOf(F, {}) = 0
  <1>1. IsFiniteSet({})
    BY FS_EmptySet
  <1>2. PICK h : Sums(h, F, {})
    BY <1>1, SumsExist
  <1>3. h[{}] = 0
    BY <1>2 DEF Sums
  <1>4. SumOf(F, {}) = h[{}]
    BY <1>1, <1>2, SumIs
  <1> QED
    BY <1>3, <1>4

(* Any other takes a chosen element out.                                   *)
LEMMA SumPick ==
    ASSUME NEW S, IsFiniteSet(S), NEW F, S # {}
    PROVE  /\ Pick(S) \in S
           /\ SumOf(F, S) = F[Pick(S)] + SumOf(F, S \ {Pick(S)})
  <1>1. Pick(S) \in S
    BY DEF Pick
  <1>2. PICK h : Sums(h, F, S)
    BY SumsExist
  <1>3. h[S] = F[Pick(S)] + h[S \ {Pick(S)}]
    BY <1>2 DEF Sums
  <1>4. SumOf(F, S) = h[S]
    BY <1>2, SumIs
  <1>5. IsFiniteSet(S \ {Pick(S)})
    BY FS_Subset
  <1>6. SumOf(F, S \ {Pick(S)}) = h[S \ {Pick(S)}]
    BY <1>2, <1>5, SumIs
  <1> QED
    BY <1>1, <1>3, <1>4, <1>6

(* The sum depends on the values of the elements only.                     *)
LEMMA SumSame ==
    ASSUME NEW S, IsFiniteSet(S), NEW F, NEW G, \A x \in S : F[x] = G[x]
    PROVE  SumOf(F, S) = SumOf(G, S)
  <1>1. PICK h : Sums(h, F, S)
    BY SumsExist
  <1>2. PICK g : Sums(g, G, S)
    BY SumsExist
  <1>3. h[S] = g[S]
    BY <1>1, <1>2, SumsAgree
  <1> QED
    BY <1>1, <1>2, <1>3, SumIs

(* A sum of integers is an integer.                                        *)
LEMMA SumInt ==
    ASSUME NEW S, IsFiniteSet(S), NEW F, \A x \in S : F[x] \in Int
    PROVE  SumOf(F, S) \in Int
  <1> DEFINE T == {s \in SUBSET S : SumOf(F, s) \notin Int}
  <1>1. SUFFICES ASSUME T # {} PROVE FALSE
    OBVIOUS
  <1>2. \E s \in T : \A t \in T : t \subseteq s => t = s
    <2>1. T \in SUBSET SUBSET S
      OBVIOUS
    <2> HIDE DEF T
    <2> QED
      BY <1>1, <2>1, Smallest
  <1>3. PICK s \in T : \A t \in T : t \subseteq s => t = s
    BY <1>2
  <1>4. s \in SUBSET S /\ IsFiniteSet(s) /\ SumOf(F, s) \notin Int
    BY <1>3, FS_Subset
  <1>5. s # {}
    <2>1. SUFFICES ASSUME s = {} PROVE SumOf(F, s) \in Int
      BY <1>4
    <2>2. SumOf(F, {}) = 0
      BY SumEmpty
    <2> QED
      BY <2>1, <2>2
  <1>6. Pick(s) \in s /\ SumOf(F, s) = F[Pick(s)] + SumOf(F, s \ {Pick(s)})
    BY <1>4, <1>5, SumPick
  <1>7. SumOf(F, s \ {Pick(s)}) \in Int
    BY <1>3, <1>6
  <1>8. F[Pick(s)] \in Int
    BY <1>4, <1>6
  <1> QED
    BY <1>3, <1>6, <1>7, <1>8

(* A sum of natural numbers is one.                                        *)
LEMMA SumNat ==
    ASSUME NEW S, IsFiniteSet(S), NEW F, \A x \in S : F[x] \in Nat
    PROVE  SumOf(F, S) \in Nat
  <1> DEFINE T == {s \in SUBSET S : SumOf(F, s) \notin Nat}
  <1>1. SUFFICES ASSUME T # {} PROVE FALSE
    OBVIOUS
  <1>2. \E s \in T : \A t \in T : t \subseteq s => t = s
    <2>1. T \in SUBSET SUBSET S
      OBVIOUS
    <2> HIDE DEF T
    <2> QED
      BY <1>1, <2>1, Smallest
  <1>3. PICK s \in T : \A t \in T : t \subseteq s => t = s
    BY <1>2
  <1>4. s \in SUBSET S /\ IsFiniteSet(s) /\ SumOf(F, s) \notin Nat
    BY <1>3, FS_Subset
  <1>5. s # {}
    <2>1. SUFFICES ASSUME s = {} PROVE SumOf(F, s) \in Nat
      BY <1>4
    <2>2. SumOf(F, {}) = 0
      BY SumEmpty
    <2> QED
      BY <2>1, <2>2
  <1>6. Pick(s) \in s /\ SumOf(F, s) = F[Pick(s)] + SumOf(F, s \ {Pick(s)})
    BY <1>4, <1>5, SumPick
  <1>7. SumOf(F, s \ {Pick(s)}) \in Nat
    BY <1>3, <1>6
  <1>8. F[Pick(s)] \in Nat
    BY <1>4, <1>6
  <1> QED
    BY <1>3, <1>6, <1>7, <1>8

(* A sum of zeros is 0.                                                    *)
LEMMA SumZero ==
    ASSUME NEW S, IsFiniteSet(S), NEW F, \A x \in S : F[x] = 0
    PROVE  SumOf(F, S) = 0
  <1> DEFINE T == {s \in SUBSET S : SumOf(F, s) # 0}
  <1>1. SUFFICES ASSUME T # {} PROVE FALSE
    <2>1. S \in SUBSET S
      OBVIOUS
    <2> QED
      BY <2>1
  <1>2. \E s \in T : \A t \in T : t \subseteq s => t = s
    <2>1. T \in SUBSET SUBSET S
      OBVIOUS
    <2> HIDE DEF T
    <2> QED
      BY <1>1, <2>1, Smallest
  <1>3. PICK s \in T : \A t \in T : t \subseteq s => t = s
    BY <1>2
  <1>4. s \in SUBSET S /\ IsFiniteSet(s) /\ SumOf(F, s) # 0
    BY <1>3, FS_Subset
  <1>5. s # {}
    <2>1. SUFFICES ASSUME s = {} PROVE SumOf(F, s) = 0
      BY <1>4
    <2>2. SumOf(F, {}) = 0
      BY SumEmpty
    <2> QED
      BY <2>1, <2>2
  <1>6. Pick(s) \in s /\ SumOf(F, s) = F[Pick(s)] + SumOf(F, s \ {Pick(s)})
    BY <1>4, <1>5, SumPick
  <1>7. SumOf(F, s \ {Pick(s)}) = 0
    BY <1>3, <1>6
  <1>8. F[Pick(s)] = 0
    BY <1>4, <1>6
  <1> QED
    BY <1>4, <1>6, <1>7, <1>8

(* Whichever element is taken out, its value goes: the order of the sum    *)
(* does not matter.                                                        *)
LEMMA SumRemove ==
    ASSUME NEW S, IsFiniteSet(S), NEW F, \A x \in S : F[x] \in Int, NEW e \in S
    PROVE  SumOf(F, S) = F[e] + SumOf(F, S \ {e})
  <1> DEFINE Good(s) == \A x \in s : SumOf(F, s) = F[x] + SumOf(F, s \ {x})
             T == {s \in SUBSET S : ~Good(s)}
  <1>1. SUFFICES ASSUME T # {} PROVE FALSE
    <2>1. S \in SUBSET S
      OBVIOUS
    <2> QED
      BY <2>1
  <1>2. \E s \in T : \A t \in T : t \subseteq s => t = s
    <2>1. T \in SUBSET SUBSET S
      OBVIOUS
    <2> HIDE DEF T
    <2> QED
      BY <1>1, <2>1, Smallest
  <1>3. PICK s \in T : \A t \in T : t \subseteq s => t = s
    BY <1>2
  <1>4. s \in SUBSET S /\ ~Good(s)
    BY <1>3
  <1>5. ASSUME NEW t, t \subseteq s, t # s PROVE Good(t)
    BY <1>3, <1>4, <1>5
  <1>6. PICK x \in s : SumOf(F, s) # F[x] + SumOf(F, s \ {x})
    BY <1>4
  <1> DEFINE p == Pick(s)
  <1>7. p \in s /\ SumOf(F, s) = F[p] + SumOf(F, s \ {p})
    <2>1. IsFiniteSet(s) /\ s # {}
      BY <1>4, <1>6, FS_Subset
    <2> QED
      BY <2>1, SumPick
  <1> HIDE DEF p, T
  <1>8. p # x
    BY <1>6, <1>7
  <1>9. SumOf(F, s \ {p}) = F[x] + SumOf(F, (s \ {p}) \ {x})
    <2>1. Good(s \ {p})
      BY <1>5, <1>7
    <2> QED
      BY <1>6, <1>8, <2>1
  <1>10. SumOf(F, s \ {x}) = F[p] + SumOf(F, (s \ {p}) \ {x})
    <2>1. Good(s \ {x})
      BY <1>5, <1>6
    <2>2. (s \ {p}) \ {x} = (s \ {x}) \ {p}
      OBVIOUS
    <2> QED
      BY <1>7, <1>8, <2>1, <2>2
  <1>11. F[p] \in Int /\ F[x] \in Int
    BY <1>4, <1>6, <1>7
  <1>12. SumOf(F, (s \ {p}) \ {x}) \in Int
    <2> DEFINE r == (s \ {p}) \ {x}
    <2>1. IsFiniteSet(r) /\ \A y \in r : F[y] \in Int
      BY <1>4, FS_Subset
    <2> QED
      BY <2>1, SumInt
  <1> QED
    BY <1>6, <1>7, <1>9, <1>10, <1>11, <1>12

(* An element more adds its value.                                         *)
LEMMA SumAdd ==
    ASSUME NEW S, IsFiniteSet(S), NEW e, e \notin S,
           NEW F, \A x \in S \cup {e} : F[x] \in Int
    PROVE  SumOf(F, S \cup {e}) = F[e] + SumOf(F, S)
  <1>1. IsFiniteSet(S \cup {e})
    BY FS_AddElement
  <1>2. (S \cup {e}) \ {e} = S
    OBVIOUS
  <1>3. SumOf(F, S \cup {e}) = F[e] + SumOf(F, (S \cup {e}) \ {e})
    BY <1>1, SumRemove
  <1> QED
    BY <1>2, <1>3

(* A changed value changes the sum by the difference.                      *)
LEMMA SumChange ==
    ASSUME NEW S, IsFiniteSet(S), NEW e \in S, NEW F, NEW G,
           \A x \in S : F[x] \in Int /\ G[x] \in Int /\ (x # e => F[x] = G[x])
    PROVE  SumOf(G, S) = SumOf(F, S) - F[e] + G[e]
  <1> DEFINE r == S \ {e}
  <1>1. IsFiniteSet(r) /\ \A x \in r : F[x] \in Int /\ F[x] = G[x]
    BY FS_Subset
  <1>2. SumOf(F, S) = F[e] + SumOf(F, r) /\ SumOf(G, S) = G[e] + SumOf(G, r)
    BY SumRemove
  <1> HIDE DEF r
  <1>3. SumOf(F, r) = SumOf(G, r) /\ SumOf(F, r) \in Int
    BY <1>1, SumSame, SumInt
  <1>4. F[e] \in Int /\ G[e] \in Int
    OBVIOUS
  <1> QED
    BY <1>2, <1>3, <1>4

(* A part sums to no more than the whole, when every value is natural.     *)
LEMMA SumPart ==
    ASSUME NEW S, IsFiniteSet(S), NEW F, \A x \in S : F[x] \in Nat, NEW P \in SUBSET S
    PROVE  SumOf(F, P) <= SumOf(F, S)
  <1> DEFINE T == {s \in SUBSET S : P \subseteq s /\ ~(SumOf(F, P) <= SumOf(F, s))}
  <1>1. SUFFICES ASSUME T # {} PROVE FALSE
    <2>1. S \in SUBSET S
      OBVIOUS
    <2> QED
      BY <2>1
  <1>2. \E s \in T : \A t \in T : t \subseteq s => t = s
    <2>1. T \in SUBSET SUBSET S
      OBVIOUS
    <2> HIDE DEF T
    <2> QED
      BY <1>1, <2>1, Smallest
  <1>3. PICK s \in T : \A t \in T : t \subseteq s => t = s
    BY <1>2
  <1>4. s \in SUBSET S /\ P \subseteq s /\ IsFiniteSet(s) /\ IsFiniteSet(P)
    BY <1>3, FS_Subset
  <1>5. SumOf(F, P) \in Nat /\ SumOf(F, s) \in Nat
    BY <1>4, SumNat
  <1>6. P # s
    BY <1>3, <1>5
  <1>7. PICK e \in s : e \notin P
    BY <1>4, <1>6
  <1>8. SumOf(F, s) = F[e] + SumOf(F, s \ {e})
    BY <1>4, <1>7, SumRemove
  <1>9. SumOf(F, P) <= SumOf(F, s \ {e})
    BY <1>3, <1>4, <1>7
  <1>10. F[e] \in Nat
    BY <1>4, <1>7
  <1>11. SumOf(F, s \ {e}) \in Nat
    <2> DEFINE r == s \ {e}
    <2>1. IsFiniteSet(r) /\ \A y \in r : F[y] \in Nat
      BY <1>4, FS_Subset
    <2> QED
      BY <2>1, SumNat
  <1>12. ~(SumOf(F, P) <= SumOf(F, s))
    BY <1>3
  <1> HIDE DEF T
  <1> QED
    BY <1>5, <1>8, <1>9, <1>10, <1>11, <1>12

(* The sums of two disjoint sets add up.                                   *)
LEMMA SumUnion ==
    ASSUME NEW A, NEW B, IsFiniteSet(A), IsFiniteSet(B), A \cap B = {},
           NEW F, \A x \in A \cup B : F[x] \in Int
    PROVE  SumOf(F, A \cup B) = SumOf(F, A) + SumOf(F, B)
  <1> DEFINE T == {s \in SUBSET B : SumOf(F, A \cup s) # SumOf(F, A) + SumOf(F, s)}
  <1>1. SUFFICES ASSUME T # {} PROVE FALSE
    <2>1. B \in SUBSET B
      OBVIOUS
    <2> QED
      BY <2>1
  <1>2. \E s \in T : \A t \in T : t \subseteq s => t = s
    <2>1. T \in SUBSET SUBSET B
      OBVIOUS
    <2> HIDE DEF T
    <2> QED
      BY <1>1, <2>1, Smallest
  <1>3. PICK s \in T : \A t \in T : t \subseteq s => t = s
    BY <1>2
  <1>4. s \in SUBSET B /\ IsFiniteSet(s) /\ SumOf(F, A \cup s) # SumOf(F, A) + SumOf(F, s)
    BY <1>3, FS_Subset
  <1>5. SumOf(F, A) \in Int
    BY SumInt
  <1>6. s # {}
    <2>1. A \cup {} = A
      OBVIOUS
    <2> QED
      BY <1>4, <1>5, <2>1, SumEmpty
  <1>7. PICK e : e \in s
    BY <1>6
  <1> DEFINE r == s \ {e}
  <1>8. IsFiniteSet(r) /\ IsFiniteSet(A \cup r)
    BY <1>4, FS_Subset, FS_Union
  <1>9. SumOf(F, A \cup r) = SumOf(F, A) + SumOf(F, r)
    BY <1>3, <1>4, <1>7
  <1>10. SumOf(F, s) = F[e] + SumOf(F, r)
    BY <1>4, <1>7, SumRemove
  <1>11. SumOf(F, A \cup s) = F[e] + SumOf(F, A \cup r)
    <2>1. e \notin A \cup r /\ A \cup s = (A \cup r) \cup {e}
      BY <1>4, <1>7
    <2>2. \A x \in (A \cup r) \cup {e} : F[x] \in Int
      BY <1>4, <1>7
    <2> HIDE DEF r
    <2> QED
      BY <1>8, <2>1, <2>2, SumAdd
  <1>12. SumOf(F, r) \in Int /\ F[e] \in Int
    <2>1. \A x \in r : F[x] \in Int
      BY <1>4
    <2> HIDE DEF r
    <2> QED
      BY <1>4, <1>7, <1>8, <2>1, SumInt
  <1> HIDE DEF T, r
  <1> QED
    BY <1>4, <1>5, <1>9, <1>10, <1>11, <1>12

(* The sum of the opposite values is the opposite of the sum.              *)
LEMMA SumNegated ==
    ASSUME NEW S, IsFiniteSet(S), NEW F, NEW G,
           \A x \in S : F[x] \in Int /\ G[x] = -F[x]
    PROVE  SumOf(G, S) = -SumOf(F, S)
  <1> DEFINE T == {s \in SUBSET S : SumOf(G, s) # -SumOf(F, s)}
  <1>1. SUFFICES ASSUME T # {} PROVE FALSE
    <2>1. S \in SUBSET S
      OBVIOUS
    <2> QED
      BY <2>1
  <1>2. \E s \in T : \A t \in T : t \subseteq s => t = s
    <2>1. T \in SUBSET SUBSET S
      OBVIOUS
    <2> HIDE DEF T
    <2> QED
      BY <1>1, <2>1, Smallest
  <1>3. PICK s \in T : \A t \in T : t \subseteq s => t = s
    BY <1>2
  <1>4. s \in SUBSET S /\ IsFiniteSet(s) /\ SumOf(G, s) # -SumOf(F, s)
    BY <1>3, FS_Subset
  <1>5. s # {}
    <2>1. SUFFICES ASSUME s = {} PROVE SumOf(G, s) = -SumOf(F, s)
      BY <1>4
    <2>2. SumOf(F, {}) = 0 /\ SumOf(G, {}) = 0
      BY SumEmpty
    <2> QED
      BY <2>1, <2>2
  <1>6. PICK e : e \in s
    BY <1>5
  <1> DEFINE r == s \ {e}
  <1>7. /\ \A x \in s : F[x] \in Int /\ G[x] \in Int
        /\ G[e] = -F[e]
    BY <1>4, <1>6
  <1>8. /\ SumOf(F, s) = F[e] + SumOf(F, r)
        /\ SumOf(G, s) = G[e] + SumOf(G, r)
    BY <1>4, <1>6, <1>7, SumRemove
  <1>9. SumOf(G, r) = -SumOf(F, r)
    BY <1>3, <1>4, <1>6
  <1>10. IsFiniteSet(r)
    BY <1>4, FS_Subset
  <1>11. SumOf(F, r) \in Int
    <2>1. \A x \in r : F[x] \in Int
      BY <1>7
    <2> HIDE DEF r
    <2> QED
      BY <1>10, <2>1, SumInt
  <1> HIDE DEF T, r
  <1> QED
    BY <1>4, <1>6, <1>7, <1>8, <1>9, <1>11

-----------------------------------------------------------------------------
(* Sums over the transactions of a ledger *)

(* wallet_balance's sum, and the sum of what left a wallet.                *)
TotalAmount(S) == MapThenSumSet(LAMBDA t : t.amount, S)
TotalSpent(S) == MapThenSumSet(LAMBDA t : -t.amount, S)

(* Both are sums of the values of a function.                              *)
LEMMA TotalIs ==
    ASSUME NEW S, IsFiniteSet(S)
    PROVE  /\ TotalAmount(S) = SumOf([t \in S |-> t.amount], S)
           /\ TotalSpent(S) = SumOf([t \in S |-> -t.amount], S)
  <1> DEFINE F == [t \in S |-> t.amount]
             G == [t \in S |-> -t.amount]
  <1>1. TotalAmount(S) = SumOf(F, S)
    <2>1. PICK h : Sums(h, F, S)
      BY SumsExist
    <2> DEFINE Rec(g) == g = [s \in SUBSET S |-> IF s = {} THEN 0
                              ELSE Pick(s).amount + g[s \ {Pick(s)}]]
    <2>2. ASSUME NEW g PROVE Rec(g) <=> Sums(g, F, S)
      <3>1. \A s \in SUBSET S : s # {} => Pick(s) \in S
        BY DEF Pick
      <3>2. \A s \in SUBSET S : s # {} => F[Pick(s)] = Pick(s).amount
        BY <3>1
      <3> HIDE DEF F
      <3> QED
        BY <3>2 DEF Sums
    <2>3. \E g : Rec(g) /\ TotalAmount(S) = g[S]
      <3>1. \E g : Rec(g)
        BY <2>1, <2>2
      <3> QED
        BY <3>1 DEF TotalAmount, MapThenSumSet, MapThenFoldSet, Pick
    <2>4. PICK g : Rec(g) /\ TotalAmount(S) = g[S]
      BY <2>3
    <2>5. Sums(g, F, S)
      BY <2>2, <2>4
    <2> HIDE DEF Rec, F
    <2> QED
      BY <2>4, <2>5, SumIs
  <1>2. TotalSpent(S) = SumOf(G, S)
    <2>1. PICK h : Sums(h, G, S)
      BY SumsExist
    <2> DEFINE Rec(g) == g = [s \in SUBSET S |-> IF s = {} THEN 0
                              ELSE -Pick(s).amount + g[s \ {Pick(s)}]]
    <2>2. ASSUME NEW g PROVE Rec(g) <=> Sums(g, G, S)
      <3>1. \A s \in SUBSET S : s # {} => Pick(s) \in S
        BY DEF Pick
      <3>2. \A s \in SUBSET S : s # {} => G[Pick(s)] = -Pick(s).amount
        BY <3>1
      <3> HIDE DEF G
      <3> QED
        BY <3>2 DEF Sums
    <2>3. \E g : Rec(g) /\ TotalSpent(S) = g[S]
      <3>1. \E g : Rec(g)
        BY <2>1, <2>2
      <3> QED
        BY <3>1 DEF TotalSpent, MapThenSumSet, MapThenFoldSet, Pick
    <2>4. PICK g : Rec(g) /\ TotalSpent(S) = g[S]
      BY <2>3
    <2>5. Sums(g, G, S)
      BY <2>2, <2>4
    <2> HIDE DEF Rec, G
    <2> QED
      BY <2>4, <2>5, SumIs
  <1> QED
    BY <1>1, <1>2

(* No transactions, no money.                                              *)
LEMMA TotalEmpty == TotalAmount({}) = 0 /\ TotalSpent({}) = 0
  BY TotalIs, SumEmpty, FS_EmptySet

(* What left is the opposite of what the wallet's entries sum to.          *)
LEMMA TotalNegated ==
    ASSUME NEW S, IsFiniteSet(S), \A t \in S : t.amount \in Int
    PROVE  /\ TotalAmount(S) \in Int /\ TotalSpent(S) \in Int
           /\ TotalSpent(S) = -TotalAmount(S)
  <1> DEFINE F == [t \in S |-> t.amount]
             G == [t \in S |-> -t.amount]
  <1>1. \A t \in S : F[t] \in Int /\ G[t] = -F[t] /\ G[t] \in Int
    OBVIOUS
  <1>2. TotalAmount(S) = SumOf(F, S) /\ TotalSpent(S) = SumOf(G, S)
    BY TotalIs
  <1> HIDE DEF F, G
  <1> QED
    BY <1>1, <1>2, SumInt, SumNegated

(* Payments out sum to a natural number.                                   *)
LEMMA TotalOut ==
    ASSUME NEW S, IsFiniteSet(S), \A t \in S : -t.amount \in Nat
    PROVE  TotalSpent(S) \in Nat
  <1> DEFINE G == [t \in S |-> -t.amount]
  <1>1. \A t \in S : G[t] \in Nat
    OBVIOUS
  <1>2. TotalSpent(S) = SumOf(G, S)
    BY TotalIs
  <1> HIDE DEF G
  <1> QED
    BY <1>1, <1>2, SumNat

(* A transaction more adds its amount.                                     *)
LEMMA TotalAdd ==
    ASSUME NEW S, IsFiniteSet(S), NEW e, e \notin S,
           \A t \in S : t.amount \in Int, e.amount \in Int
    PROVE  TotalAmount(S \cup {e}) = TotalAmount(S) + e.amount
  <1> DEFINE F == [t \in S |-> t.amount]
             G == [t \in S \cup {e} |-> t.amount]
  <1>1. /\ \A t \in S : F[t] \in Int /\ F[t] = G[t]
        /\ \A t \in S \cup {e} : G[t] \in Int
        /\ G[e] = e.amount
    OBVIOUS
  <1>2. TotalAmount(S) = SumOf(F, S) /\ TotalAmount(S \cup {e}) = SumOf(G, S \cup {e})
    BY TotalIs, FS_AddElement
  <1> HIDE DEF F, G
  <1>3. SumOf(F, S) = SumOf(G, S)
    BY <1>1, SumSame
  <1>4. SumOf(G, S \cup {e}) = G[e] + SumOf(G, S)
    BY <1>1, SumAdd
  <1>5. SumOf(F, S) \in Int
    BY <1>1, SumInt
  <1> QED
    BY <1>1, <1>2, <1>3, <1>4, <1>5

(* Disjoint sets of transactions add up.                                   *)
LEMMA TotalUnion ==
    ASSUME NEW A, NEW B, IsFiniteSet(A), IsFiniteSet(B), A \cap B = {},
           \A t \in A \cup B : t.amount \in Int
    PROVE  TotalAmount(A \cup B) = TotalAmount(A) + TotalAmount(B)
  <1> DEFINE F == [t \in A |-> t.amount]
             G == [t \in B |-> t.amount]
             H == [t \in A \cup B |-> t.amount]
  <1>1. /\ \A t \in A : F[t] = H[t]
        /\ \A t \in B : G[t] = H[t]
        /\ \A t \in A \cup B : H[t] \in Int
    OBVIOUS
  <1>2. /\ TotalAmount(A) = SumOf(F, A)
        /\ TotalAmount(B) = SumOf(G, B)
        /\ TotalAmount(A \cup B) = SumOf(H, A \cup B)
    BY TotalIs, FS_Union
  <1> HIDE DEF F, G, H
  <1>3. SumOf(F, A) = SumOf(H, A) /\ SumOf(G, B) = SumOf(H, B)
    BY <1>1, SumSame
  <1> QED
    BY <1>1, <1>2, <1>3, SumUnion

=============================================================================
