----------------------------- MODULE FiniteSums -----------------------------
(***************************************************************************)
(* Sums of natural numbers over finite sets, as MapThenSumSet computes     *)
(* them: a table over the subsets, filled by taking one element out at a   *)
(* time.  The budget of InferenceGateway adds up calls and reservations    *)
(* this way.                                                               *)
(*                                                                         *)
(* The induction is on the number of elements.  It is carried out as a     *)
(* search for the least counterexample, a set of naturals, so that no      *)
(* theorem with an operator parameter is needed.                           *)
(***************************************************************************)
EXTENDS Integers, FiniteSets, FiniteSetsExt, FiniteSetTheorems,
        WellFoundedInduction, TLAPS

\* A non-empty set of naturals has a least element.
LEMMA LeastNat ==
    ASSUME NEW B \in SUBSET Nat, B # {}
    PROVE  \E n \in B : \A m \in B : n <= m
<1>1. IsWellFoundedOn(OpToRel(<, Nat), Nat)
  BY NatLessThanWellFounded
<1>2. PICK n \in B : \A m \in B : ~(<<m, n>> \in OpToRel(<, Nat))
  BY <1>1, WFMin
<1>3. \A m \in B : ~(m < n)
  BY <1>2 DEF OpToRel
<1> QED
  BY <1>3

\* A non-empty finite set of naturals has a greatest element, and Max is it.
LEMMA MaxNat ==
    ASSUME NEW B \in SUBSET Nat, B # {}, NEW n \in Nat, \A b \in B : b <= n
    PROVE  Max(B) \in B /\ \A b \in B : b <= Max(B)
<1>1. PICK D : D = {k \in Nat : \A b \in B : b <= k}
  OBVIOUS
<1>2. D \in SUBSET Nat /\ n \in D
  BY <1>1
<1>3. PICK k \in D : \A m \in D : k <= m
  BY <1>2, LeastNat
<1>4. k \in Nat /\ \A b \in B : b <= k
  BY <1>1, <1>3
<1>5. k \in B
  <2> SUFFICES ASSUME k \notin B PROVE FALSE
    OBVIOUS
  <2>1. \A b \in B : b <= k - 1 /\ k - 1 \in Nat
    BY <1>4
  <2>2. k - 1 \in D
    BY <1>1, <2>1
  <2> QED
    BY <1>3, <1>4, <2>2
<1>6. \E x \in B : \A y \in B : x >= y
  BY <1>4, <1>5
<1>7. Max(B) \in B /\ \A y \in B : Max(B) >= y
  BY <1>6 DEF Max
<1> QED
  BY <1>7

Pick(s) == CHOOSE x \in s : TRUE

\* The table of the sums of w over the subsets of S.
Entry(F, w, s) == IF s = {} THEN 0 ELSE w[Pick(s)] + F[s \ {Pick(s)}]
Tabulates(F, w, S) == F = [s \in SUBSET S |-> Entry(F, w, s)]
SumOf(w, S) == (CHOOSE F : Tabulates(F, w, S))[S]

LEMMA PickSmaller ==
    ASSUME NEW s, IsFiniteSet(s)
    PROVE  /\ Cardinality(s) \in Nat
           /\ Cardinality(s) = 0 <=> s = {}
           /\ s # {} => /\ Pick(s) \in s
                        /\ IsFiniteSet(s \ {Pick(s)})
                        /\ Cardinality(s \ {Pick(s)}) = Cardinality(s) - 1
                        /\ Cardinality(s) - 1 \in Nat
<1>1. Cardinality(s) \in Nat
  BY FS_CardinalityType
<1>2. Cardinality(s) = 0 <=> s = {}
  BY FS_EmptySet
<1>3. ASSUME s # {} PROVE Pick(s) \in s
  BY <1>3 DEF Pick
<1>4. ASSUME s # {} PROVE /\ IsFiniteSet(s \ {Pick(s)})
                          /\ Cardinality(s \ {Pick(s)}) = Cardinality(s) - 1
  BY <1>3, <1>4, FS_RemoveElement
<1> QED
  BY <1>1, <1>2, <1>3, <1>4

\* A table that is right up to subsets of n elements.
RightUpTo(F, w, S, n) ==
    /\ F = [s \in SUBSET S |-> F[s]]
    /\ \A s \in SUBSET S : Cardinality(s) <= n => F[s] = Entry(F, w, s)

LEMMA RightUpToZero ==
    ASSUME NEW S, IsFiniteSet(S), NEW w
    PROVE  \E F : RightUpTo(F, w, S, 0)
<1>1. PICK F : F = [s \in SUBSET S |-> 0]
  OBVIOUS
<1>2. ASSUME NEW s \in SUBSET S, Cardinality(s) <= 0 PROVE F[s] = Entry(F, w, s)
  <2>1. IsFiniteSet(s)
    BY FS_Subset
  <2>2. Cardinality(s) \in Nat /\ (Cardinality(s) = 0 <=> s = {})
    BY <2>1, PickSmaller
  <2>3. s = {}
    BY <1>2, <2>2
  <2> QED
    BY <1>1, <2>3 DEF Entry
<1>3. F = [s \in SUBSET S |-> F[s]]
  BY <1>1
<1> QED
  BY <1>2, <1>3 DEF RightUpTo

LEMMA RightOneMore ==
    ASSUME NEW S, IsFiniteSet(S), NEW w, NEW n \in Nat, NEW F, RightUpTo(F, w, S, n)
    PROVE  \E G : RightUpTo(G, w, S, n + 1)
<1>1. PICK G : G = [s \in SUBSET S |-> Entry(F, w, s)]
  OBVIOUS
<1>2. ASSUME NEW s \in SUBSET S, Cardinality(s) <= n + 1 PROVE G[s] = Entry(G, w, s)
  <2>1. G[s] = Entry(F, w, s)
    BY <1>1
  <2>2. CASE s = {}
    BY <2>1, <2>2 DEF Entry
  <2>3. CASE s # {}
    <3>1. IsFiniteSet(s)
      BY FS_Subset
    <3>2. PICK r : r = s \ {Pick(s)}
      OBVIOUS
    <3>3. r \in SUBSET S
      BY <3>2
    <3>4. Cardinality(r) = Cardinality(s) - 1 /\ Cardinality(s) \in Nat
      BY <2>3, <3>1, <3>2, PickSmaller
    <3>5. Cardinality(r) <= n
      BY <1>2, <3>4
    <3>6. F[r] = Entry(F, w, r)
      BY <3>3, <3>5 DEF RightUpTo
    <3>7. G[r] = F[r]
      BY <1>1, <3>3, <3>6
    <3> QED
      BY <2>1, <2>3, <3>2, <3>7 DEF Entry
  <2> QED
    BY <2>2, <2>3
<1>3. G = [s \in SUBSET S |-> G[s]]
  BY <1>1
<1> QED
  BY <1>2, <1>3 DEF RightUpTo

\* The recursion has a solution: the CHOOSE of a sum chooses a table.
LEMMA TableExists ==
    ASSUME NEW S, IsFiniteSet(S), NEW w
    PROVE  \E F : Tabulates(F, w, S)
<1>1. PICK B : B = {n \in Nat : ~\E F : RightUpTo(F, w, S, n)}
  OBVIOUS
<1>2. B = {}
  <2> SUFFICES ASSUME B # {} PROVE FALSE
    OBVIOUS
  <2>1. B \in SUBSET Nat
    BY <1>1
  <2>2. PICK n \in B : \A m \in B : n <= m
    BY <2>1, LeastNat
  <2>3. n \in Nat /\ ~\E F : RightUpTo(F, w, S, n)
    BY <1>1, <2>2
  <2>4. n # 0
    BY <2>3, RightUpToZero
  <2>5. n - 1 \in Nat /\ n - 1 \notin B
    BY <2>2, <2>3, <2>4
  <2>6. PICK F : RightUpTo(F, w, S, n - 1)
    BY <1>1, <2>5
  <2>7. \E G : RightUpTo(G, w, S, (n - 1) + 1)
    BY <2>5, <2>6, RightOneMore
  <2>8. (n - 1) + 1 = n
    BY <2>3
  <2> QED
    BY <2>3, <2>7, <2>8
<1>3. Cardinality(S) \in Nat
  BY PickSmaller
<1>4. PICK F : RightUpTo(F, w, S, Cardinality(S))
  BY <1>1, <1>2, <1>3
<1>5. ASSUME NEW s \in SUBSET S PROVE F[s] = Entry(F, w, s)
  <2>1. Cardinality(s) <= Cardinality(S)
    BY FS_Subset
  <2> QED
    BY <1>4, <2>1 DEF RightUpTo
<1>6. F = [s \in SUBSET S |-> F[s]]
  BY <1>4 DEF RightUpTo
<1>7. F = [s \in SUBSET S |-> Entry(F, w, s)]
  BY <1>5, <1>6
<1> QED
  BY <1>7 DEF Tabulates

\* Two tables agree on the subsets they share, if the weights do.
LEMMA TablesAgree ==
    ASSUME NEW S, NEW T, NEW w, NEW v, NEW F, NEW G,
           Tabulates(F, w, S), Tabulates(G, v, T),
           NEW R, IsFiniteSet(R), R \subseteq S, R \subseteq T,
           \A x \in R : w[x] = v[x]
    PROVE  F[R] = G[R]
<1>1. PICK B : B = {n \in Nat : \E s \in SUBSET R : Cardinality(s) = n /\ F[s] # G[s]}
  OBVIOUS
<1>2. ASSUME NEW s \in SUBSET R
      PROVE  F[s] = Entry(F, w, s) /\ G[s] = Entry(G, v, s) /\ IsFiniteSet(s)
  <2>1. s \in SUBSET S /\ s \in SUBSET T
    OBVIOUS
  <2>2. IsFiniteSet(s)
    BY FS_Subset
  <2> QED
    BY <2>1, <2>2 DEF Tabulates
<1>3. B = {}
  <2> SUFFICES ASSUME B # {} PROVE FALSE
    OBVIOUS
  <2>1. B \in SUBSET Nat
    BY <1>1
  <2>2. PICK n \in B : \A m \in B : n <= m
    BY <2>1, LeastNat
  <2>3. PICK s \in SUBSET R : Cardinality(s) = n /\ F[s] # G[s]
    BY <1>1, <2>2
  <2>4. s # {}
    BY <1>2, <2>3 DEF Entry
  <2>5. PICK r : r = s \ {Pick(s)}
    OBVIOUS
  <2>6. Pick(s) \in s /\ Cardinality(r) = n - 1 /\ n - 1 \in Nat /\ n \in Nat
    BY <1>2, <2>3, <2>4, <2>5, PickSmaller
  <2>7. r \in SUBSET R /\ n - 1 \notin B
    BY <2>2, <2>5, <2>6
  <2>8. F[r] = G[r]
    BY <1>1, <2>6, <2>7
  <2>9. w[Pick(s)] = v[Pick(s)]
    BY <2>6
  <2>10. Entry(F, w, s) = w[Pick(s)] + F[r] /\ Entry(G, v, s) = v[Pick(s)] + G[r]
    BY <2>4, <2>5 DEF Entry
  <2> QED
    BY <1>2, <2>3, <2>8, <2>9, <2>10
<1>4. Cardinality(R) \in Nat
  BY PickSmaller
<1> QED
  BY <1>1, <1>3, <1>4

LEMMA SumTable ==
    ASSUME NEW S, IsFiniteSet(S), NEW w
    PROVE  \E F : Tabulates(F, w, S) /\ SumOf(w, S) = F[S]
<1>1. PICK F : F = CHOOSE G : Tabulates(G, w, S)
  OBVIOUS
<1>2. Tabulates(F, w, S)
  BY <1>1, TableExists
<1> QED
  BY <1>1, <1>2 DEF SumOf

\* A sum depends only on the weights of the elements.
LEMMA SumSame ==
    ASSUME NEW S, IsFiniteSet(S), NEW w, NEW v, \A x \in S : w[x] = v[x]
    PROVE  SumOf(w, S) = SumOf(v, S)
<1>1. PICK F : Tabulates(F, w, S) /\ SumOf(w, S) = F[S]
  BY SumTable
<1>2. PICK G : Tabulates(G, v, S) /\ SumOf(v, S) = G[S]
  BY SumTable
<1>3. F[S] = G[S]
  BY <1>1, <1>2, TablesAgree
<1> QED
  BY <1>1, <1>2, <1>3

LEMMA SumEmpty ==
    ASSUME NEW w
    PROVE  SumOf(w, {}) = 0
<1>1. IsFiniteSet({})
  BY FS_EmptySet
<1>2. PICK F : Tabulates(F, w, {}) /\ SumOf(w, {}) = F[{}]
  BY <1>1, SumTable
<1>3. F[{}] = Entry(F, w, {})
  BY <1>2 DEF Tabulates
<1> QED
  BY <1>2, <1>3 DEF Entry

LEMMA SumPick ==
    ASSUME NEW S, IsFiniteSet(S), NEW w, S # {}
    PROVE  SumOf(w, S) = w[Pick(S)] + SumOf(w, S \ {Pick(S)})
<1>1. PICK F : Tabulates(F, w, S) /\ SumOf(w, S) = F[S]
  BY SumTable
<1>2. PICK R : R = S \ {Pick(S)}
  OBVIOUS
<1>3. IsFiniteSet(R) /\ R \subseteq S
  BY <1>2, PickSmaller
<1>4. PICK G : Tabulates(G, w, R) /\ SumOf(w, R) = G[R]
  BY <1>3, SumTable
<1>5. F[R] = G[R]
  BY <1>1, <1>3, <1>4, TablesAgree
<1>6. F[S] = Entry(F, w, S)
  BY <1>1 DEF Tabulates
<1>7. Entry(F, w, S) = w[Pick(S)] + F[R]
  BY <1>2 DEF Entry
<1> QED
  BY <1>1, <1>2, <1>4, <1>5, <1>6, <1>7

LEMMA SumNat ==
    ASSUME NEW S, IsFiniteSet(S), NEW w, \A x \in S : w[x] \in Nat
    PROVE  SumOf(w, S) \in Nat
<1>1. PICK B : B = {n \in Nat : \E s \in SUBSET S : Cardinality(s) = n /\ SumOf(w, s) \notin Nat}
  OBVIOUS
<1>2. B = {}
  <2> SUFFICES ASSUME B # {} PROVE FALSE
    OBVIOUS
  <2>1. B \in SUBSET Nat
    BY <1>1
  <2>2. PICK n \in B : \A m \in B : n <= m
    BY <2>1, LeastNat
  <2>3. PICK s \in SUBSET S : Cardinality(s) = n /\ SumOf(w, s) \notin Nat
    BY <1>1, <2>2
  <2>4. IsFiniteSet(s)
    BY FS_Subset
  <2>5. s # {}
    BY <2>3, SumEmpty
  <2>6. PICK r : r = s \ {Pick(s)}
    OBVIOUS
  <2>7. Pick(s) \in s /\ Cardinality(r) = n - 1 /\ n - 1 \in Nat /\ n \in Nat
    BY <2>3, <2>4, <2>5, <2>6, PickSmaller
  <2>8. r \in SUBSET S /\ n - 1 \notin B
    BY <2>2, <2>6, <2>7
  <2>9. SumOf(w, r) \in Nat
    BY <1>1, <2>7, <2>8
  <2>10. SumOf(w, s) = w[Pick(s)] + SumOf(w, r)
    BY <2>4, <2>5, <2>6, SumPick
  <2>11. w[Pick(s)] \in Nat
    BY <2>7
  <2> QED
    BY <2>3, <2>9, <2>10, <2>11
<1>3. Cardinality(S) \in Nat
  BY PickSmaller
<1> QED
  BY <1>1, <1>2, <1>3

\* Any element may be taken out first.
LEMMA SumRemove ==
    ASSUME NEW S, IsFiniteSet(S), NEW w, \A x \in S : w[x] \in Nat, NEW e \in S
    PROVE  SumOf(w, S) = w[e] + SumOf(w, S \ {e})
<1>1. PICK B : B = {n \in Nat : \E s \in SUBSET S : Cardinality(s) = n
                       /\ \E x \in s : SumOf(w, s) # w[x] + SumOf(w, s \ {x})}
  OBVIOUS
<1>2. B = {}
  <2> SUFFICES ASSUME B # {} PROVE FALSE
    OBVIOUS
  <2>1. B \in SUBSET Nat
    BY <1>1
  <2>2. PICK n \in B : \A m \in B : n <= m
    BY <2>1, LeastNat
  <2>3. PICK s \in SUBSET S : /\ Cardinality(s) = n
                              /\ \E x \in s : SumOf(w, s) # w[x] + SumOf(w, s \ {x})
    BY <1>1, <2>2
  <2>4. PICK x \in s : SumOf(w, s) # w[x] + SumOf(w, s \ {x})
    BY <2>3
  <2>5. IsFiniteSet(s)
    BY FS_Subset
  <2>6. PICK p : p = Pick(s)
    OBVIOUS
  <2>7. p \in s /\ n \in Nat /\ n - 1 \in Nat /\ n - 1 \notin B
    <3>1. Pick(s) \in s /\ Cardinality(s) - 1 \in Nat /\ Cardinality(s) \in Nat
      BY <2>4, <2>5, PickSmaller
    <3> QED
      BY <2>2, <2>3, <2>6, <3>1
  <2>8. SumOf(w, s) = w[p] + SumOf(w, s \ {p})
    BY <2>4, <2>5, <2>6, SumPick
  <2>9. x # p
    BY <2>4, <2>8
  <2>10. ASSUME NEW a \in s, NEW b \in s, a # b
         PROVE  SumOf(w, s \ {a}) = w[b] + SumOf(w, (s \ {a}) \ {b})
    <3>1. Cardinality(s \ {a}) = n - 1
      BY <2>3, <2>5, FS_RemoveElement
    <3>2. s \ {a} \in SUBSET S /\ b \in s \ {a}
      BY <2>10
    <3> QED
      BY <1>1, <2>7, <3>1, <3>2
  <2>11. SumOf(w, s \ {p}) = w[x] + SumOf(w, (s \ {p}) \ {x})
    BY <2>7, <2>9, <2>10
  <2>12. SumOf(w, s \ {x}) = w[p] + SumOf(w, (s \ {x}) \ {p})
    BY <2>7, <2>9, <2>10
  <2>13. (s \ {p}) \ {x} = (s \ {x}) \ {p}
    OBVIOUS
  <2>14. PICK r : r = (s \ {x}) \ {p}
    OBVIOUS
  <2>15. IsFiniteSet(r) /\ r \subseteq S
    BY <2>14, FS_Subset
  <2>16. SumOf(w, r) \in Nat /\ w[p] \in Nat /\ w[x] \in Nat
    BY <2>7, <2>15, SumNat
  <2> QED
    BY <2>4, <2>8, <2>11, <2>12, <2>13, <2>14, <2>16
<1>3. Cardinality(S) \in Nat
  BY PickSmaller
<1> QED
  BY <1>1, <1>2, <1>3

\* A sum is zero only if every weight is.
LEMMA SumPositive ==
    ASSUME NEW S, IsFiniteSet(S), NEW w, \A x \in S : w[x] \in Nat, NEW e \in S
    PROVE  w[e] <= SumOf(w, S)
<1>1. SumOf(w, S) = w[e] + SumOf(w, S \ {e})
  BY SumRemove
<1>2. PICK R : R = S \ {e}
  OBVIOUS
<1>3. IsFiniteSet(R) /\ R \subseteq S
  BY <1>2, FS_Subset
<1>4. SumOf(w, R) \in Nat
  BY <1>3, SumNat
<1> QED
  BY <1>1, <1>2, <1>4

LEMMA SumZero ==
    ASSUME NEW S, IsFiniteSet(S), NEW w, \A x \in S : w[x] = 0
    PROVE  SumOf(w, S) = 0
<1>1. PICK B : B = {n \in Nat : \E s \in SUBSET S : Cardinality(s) = n /\ SumOf(w, s) # 0}
  OBVIOUS
<1>2. B = {}
  <2> SUFFICES ASSUME B # {} PROVE FALSE
    OBVIOUS
  <2>1. B \in SUBSET Nat
    BY <1>1
  <2>2. PICK n \in B : \A m \in B : n <= m
    BY <2>1, LeastNat
  <2>3. PICK s \in SUBSET S : Cardinality(s) = n /\ SumOf(w, s) # 0
    BY <1>1, <2>2
  <2>4. IsFiniteSet(s)
    BY FS_Subset
  <2>5. s # {}
    BY <2>3, SumEmpty
  <2>6. PICK r : r = s \ {Pick(s)}
    OBVIOUS
  <2>7. Pick(s) \in s /\ Cardinality(r) = n - 1 /\ n - 1 \in Nat /\ n \in Nat
    BY <2>3, <2>4, <2>5, <2>6, PickSmaller
  <2>8. r \in SUBSET S /\ n - 1 \notin B
    BY <2>2, <2>6, <2>7
  <2>9. SumOf(w, r) = 0
    BY <1>1, <2>7, <2>8
  <2>10. SumOf(w, s) = w[Pick(s)] + SumOf(w, r)
    BY <2>4, <2>5, <2>6, SumPick
  <2>11. w[Pick(s)] = 0
    BY <2>7
  <2> QED
    BY <2>3, <2>9, <2>10, <2>11
<1>3. Cardinality(S) \in Nat
  BY PickSmaller
<1> QED
  BY <1>1, <1>2, <1>3

\* A larger set, or larger weights, give a larger sum.
LEMMA SumMonotone ==
    ASSUME NEW T, IsFiniteSet(T), NEW S \in SUBSET T, NEW w, NEW v,
           \A x \in T : v[x] \in Nat,
           \A x \in S : w[x] \in Nat /\ w[x] <= v[x]
    PROVE  SumOf(w, S) <= SumOf(v, T)
<1>1. PICK B : B = {n \in Nat : \E t \in SUBSET T : Cardinality(t) = n
                       /\ ~(SumOf(w, t \cap S) <= SumOf(v, t))}
  OBVIOUS
<1>2. B = {}
  <2> SUFFICES ASSUME B # {} PROVE FALSE
    OBVIOUS
  <2>1. B \in SUBSET Nat
    BY <1>1
  <2>2. PICK n \in B : \A m \in B : n <= m
    BY <2>1, LeastNat
  <2>3. PICK t \in SUBSET T : Cardinality(t) = n /\ ~(SumOf(w, t \cap S) <= SumOf(v, t))
    BY <1>1, <2>2
  <2>4. IsFiniteSet(t)
    BY FS_Subset
  <2>5. PICK s : s = t \cap S
    OBVIOUS
  <2>6. IsFiniteSet(s) /\ s \subseteq t /\ s \subseteq S
    BY <2>4, <2>5, FS_Subset
  <2>7. t # {}
    <3> SUFFICES ASSUME t = {} PROVE FALSE
      OBVIOUS
    <3>1. s = {}
      BY <2>5
    <3>2. SumOf(w, s) = 0 /\ SumOf(v, t) = 0
      BY <3>1, SumEmpty
    <3> QED
      BY <2>3, <2>5, <3>2
  <2>8. PICK p : p = Pick(t)
    OBVIOUS
  <2>9. PICK r : r = t \ {p}
    OBVIOUS
  <2>10. p \in t /\ Cardinality(r) = n - 1 /\ n - 1 \in Nat /\ n \in Nat /\ IsFiniteSet(r)
    BY <2>3, <2>4, <2>7, <2>8, <2>9, PickSmaller
  <2>11. r \in SUBSET T /\ n - 1 \notin B
    BY <2>2, <2>9, <2>10
  <2>12. SumOf(w, r \cap S) <= SumOf(v, r)
    BY <1>1, <2>10, <2>11
  <2>13. SumOf(v, t) = v[p] + SumOf(v, r)
    BY <2>4, <2>7, <2>8, <2>9, SumPick
  <2>14. SumOf(v, r) \in Nat /\ v[p] \in Nat
    BY <2>10, <2>11, SumNat
  <2>15. PICK q : q = r \cap S
    OBVIOUS
  <2>16. IsFiniteSet(q) /\ q \subseteq S
    BY <2>10, <2>15, FS_Subset
  <2>17. SumOf(w, q) \in Nat
    BY <2>16, SumNat
  <2>18. CASE p \in S
    <3>1. p \in s /\ s \ {p} = q
      BY <2>5, <2>9, <2>10, <2>15, <2>18
    <3>2. \A x \in s : w[x] \in Nat
      BY <2>6
    <3>3. SumOf(w, s) = w[p] + SumOf(w, s \ {p})
      BY <2>6, <3>1, <3>2, SumRemove
    <3>4. w[p] <= v[p] /\ w[p] \in Nat
      BY <2>18
    <3>5. SumOf(w, s) = w[p] + SumOf(w, q) /\ SumOf(w, q) <= SumOf(v, r)
      BY <2>12, <2>15, <3>1, <3>3
    <3>6. SumOf(w, s) <= SumOf(v, t)
      BY <2>13, <2>14, <2>17, <3>4, <3>5
    <3> QED
      BY <2>3, <2>5, <3>6
  <2>19. CASE p \notin S
    <3>1. s = q
      BY <2>5, <2>9, <2>15, <2>19
    <3>2. SumOf(w, s) <= SumOf(v, r)
      BY <2>12, <2>15, <3>1
    <3>3. SumOf(w, s) <= SumOf(v, t)
      BY <2>13, <2>14, <2>17, <3>1, <3>2
    <3> QED
      BY <2>3, <2>5, <3>3
  <2> QED
    BY <2>18, <2>19
<1>3. Cardinality(T) \in Nat /\ T \cap S = S
  BY PickSmaller
<1> QED
  BY <1>1, <1>2, <1>3
=============================================================================
