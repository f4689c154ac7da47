------------------------- MODULE CreditLedger_proofs -------------------------
(***************************************************************************)
(* The laws of the sums in CreditMath, then the theorems of CreditLedger:  *)
(* its invariants and action property hold for every number of requests,   *)
(* lots, packs, limits and periods; and that it implements PrepaidWallet.  *)
(***************************************************************************)
EXTENDS CreditWallet, FiniteSetTheorems, FunctionTheorems, WellFoundedInduction, TLAPS

-----------------------------------------------------------------------------
(* Sums: the laws of Total and of OldestFirst.                             *)

(* A sum over finitely many holders is a natural number. *)
LEMMA TotalType ==
  ASSUME NEW S, IsFiniteSet(S), NEW f \in [S -> Nat]
  PROVE  IsFiniteSet(Credits(f)) /\ Total(f) \in Nat
<1> DEFINE row == [x \in S |-> {x} \X (1..f[x])]
           T   == {{x} \X (1..f[x]) : x \in S}
<1>1. row \in Surjection(S, T)
  BY DEF Surjection
<1>2. IsFiniteSet(T)
  BY <1>1, FS_Surjection
<1>3. \A R \in T : IsFiniteSet(R)
  <2> SUFFICES ASSUME NEW x \in S PROVE IsFiniteSet({x} \X (1..f[x]))
    OBVIOUS
  <2>1. IsFiniteSet({x})
    BY FS_Singleton
  <2>2. 1 \in Int /\ f[x] \in Int
    OBVIOUS
  <2>3. IsFiniteSet(1..f[x])
    BY <2>2, FS_Interval
  <2> QED BY <2>1, <2>3, FS_Product
<1>4. IsFiniteSet(UNION T)
  BY <1>2, <1>3, FS_UNION
<1>5. Credits(f) = UNION T
  BY DEF Credits
<1> QED BY <1>4, <1>5, FS_CardinalityType DEF Total

(* One holder's credits number what it holds. *)
LEMMA TotalSingle ==
  ASSUME NEW a, NEW n \in Nat
  PROVE  Total([x \in {a} |-> n]) = n
<1>1. Credits([x \in {a} |-> n]) = {a} \X (1..n)
  BY DEF Credits
<1>2. IsFiniteSet({a}) /\ Cardinality({a}) = 1
  BY FS_Singleton
<1>3. IsFiniteSet(1..n) /\ Cardinality(1..n) = n
  BY FS_Interval
<1>4. Cardinality({a} \X (1..n)) = 1 * n
  BY <1>2, <1>3, FS_Product
<1> QED BY <1>1, <1>4 DEF Total

(* A sum splits into the part over X and the rest. *)
LEMMA TotalSplit ==
  ASSUME NEW S, IsFiniteSet(S), NEW f \in [S -> Nat], NEW X \in SUBSET S
  PROVE  Total(f) = Total([x \in X |-> f[x]])
                    + Total([x \in S |-> IF x \in X THEN 0 ELSE f[x]])
<1> DEFINE g == [x \in X |-> f[x]]
           h == [x \in S |-> IF x \in X THEN 0 ELSE f[x]]
<1>1. IsFiniteSet(X)
  BY FS_Subset
<1>2. IsFiniteSet(Credits(g)) /\ Total(g) \in Nat
  BY <1>1, TotalType
<1>3. IsFiniteSet(Credits(h)) /\ Total(h) \in Nat
  BY TotalType
<1>4. Credits(f) = Credits(g) \cup Credits(h)
  <2>1. \A x \in S : f[x] \in Nat
    OBVIOUS
  <2>2. ASSUME NEW p \in Credits(f) PROVE p \in Credits(g) \cup Credits(h)
    <3>1. PICK x \in S : p \in {x} \X (1..f[x])
      BY DEF Credits
    <3>2. CASE x \in X
      <4>1. g[x] = f[x] /\ x \in DOMAIN g
        BY <3>2
      <4> HIDE DEF g
      <4> QED BY <3>1, <4>1 DEF Credits
    <3>3. CASE x \notin X
      <4>1. h[x] = f[x] /\ x \in DOMAIN h
        BY <3>3
      <4> HIDE DEF h
      <4> QED BY <3>1, <4>1 DEF Credits
    <3> QED BY <3>2, <3>3
  <2>3. ASSUME NEW p \in Credits(g) PROVE p \in Credits(f)
    BY <2>3 DEF Credits
  <2>4. ASSUME NEW p \in Credits(h) PROVE p \in Credits(f)
    <3>1. PICK x \in S : p \in {x} \X (1..h[x])
      BY <2>4 DEF Credits
    <3>2. x \notin X
      BY <3>1
    <3> QED BY <3>1, <3>2 DEF Credits
  <2> QED BY <2>2, <2>3, <2>4
<1>5. Credits(g) \cap Credits(h) = {}
  <2> SUFFICES ASSUME NEW p \in Credits(g), p \in Credits(h) PROVE FALSE
    OBVIOUS
  <2>1. PICK x \in X : p \in {x} \X (1..g[x])
    BY DEF Credits
  <2>2. PICK y \in S : p \in {y} \X (1..h[y])
    BY DEF Credits
  <2>3. x = y
    BY <2>1, <2>2
  <2> QED BY <2>1, <2>2, <2>3
<1>6. Cardinality(Credits(f))
        = Cardinality(Credits(g)) + Cardinality(Credits(h)) - Cardinality({})
  BY <1>2, <1>3, <1>4, <1>5, FS_Union
<1>7. Cardinality({}) = 0
  BY FS_EmptySet
<1> HIDE DEF g, h
<1>8. Total(f) = Total(g) + Total(h)
  BY <1>2, <1>3, <1>6, <1>7 DEF Total
<1> QED BY <1>8 DEF g, h

(* Changing what one holder holds changes the sum by the difference. *)
LEMMA TotalUpdate ==
  ASSUME NEW S, IsFiniteSet(S), NEW f \in [S -> Nat], NEW g \in [S -> Nat],
         NEW a \in S, \A x \in S \ {a} : f[x] = g[x]
  PROVE  /\ Total(g) = Total(f) - f[a] + g[a]
         /\ f[a] <= Total(f)
<1> DEFINE r(q) == [x \in S |-> IF x \in {a} THEN 0 ELSE q[x]]
<1>1. r(f) = r(g)
  OBVIOUS
<1>2. [x \in {a} |-> f[x]] = [x \in {a} |-> f[a]]
      /\ [x \in {a} |-> g[x]] = [x \in {a} |-> g[a]]
  OBVIOUS
<1> {a} \in SUBSET S /\ f[a] \in Nat /\ g[a] \in Nat
  OBVIOUS
<1>3. Total(f) = f[a] + Total(r(f))
  <2>1. Total(f) = Total([x \in {a} |-> f[x]]) + Total(r(f))
    BY TotalSplit
  <2>2. Total([x \in {a} |-> f[a]]) = f[a]
    BY TotalSingle
  <2> QED BY <1>2, <2>1, <2>2
<1>4. Total(g) = g[a] + Total(r(g))
  <2>1. Total(g) = Total([x \in {a} |-> g[x]]) + Total(r(g))
    BY TotalSplit
  <2>2. Total([x \in {a} |-> g[a]]) = g[a]
    BY TotalSingle
  <2> QED BY <1>2, <2>1, <2>2
<1>5. r(f) \in [S -> Nat]
  OBVIOUS
<1>6. Total(r(f)) \in Nat
  BY <1>5, TotalType
<1> HIDE DEF r
<1> QED BY <1>1, <1>3, <1>4, <1>6

(* A sum of zeros is zero. *)
LEMMA TotalZero ==
  ASSUME NEW S
  PROVE  Total([x \in S |-> 0]) = 0
<1>1. Credits([x \in S |-> 0]) = {}
  BY DEF Credits
<1> QED BY <1>1, FS_EmptySet DEF Total

(* The sum over a part X and the sum over the rest. *)
LEMMA TotalSubset ==
  ASSUME NEW S, IsFiniteSet(S), NEW f \in [S -> Nat], NEW X \in SUBSET S
  PROVE  /\ Total(f) = Total([x \in X |-> f[x]]) + Total([x \in S \ X |-> f[x]])
         /\ Total(f) \in Nat
         /\ Total([x \in X |-> f[x]]) \in Nat
         /\ Total([x \in S \ X |-> f[x]]) \in Nat
<1> DEFINE g == [x \in X |-> f[x]]
           h == [x \in S \ X |-> f[x]]
           z == [x \in S |-> IF x \in X THEN 0 ELSE f[x]]
<1>1. IsFiniteSet(X) /\ IsFiniteSet(S \ X)
  BY FS_Subset
<1>2. Total(f) = Total(g) + Total(z)
  BY TotalSplit
<1>3. Credits(z) = Credits(h)
  <2>1. ASSUME NEW p \in Credits(z) PROVE p \in Credits(h)
    <3>1. PICK x \in S : p \in {x} \X (1..z[x])
      BY <2>1 DEF Credits
    <3>2. x \notin X
      BY <3>1
    <3>3. x \in S \ X /\ z[x] = h[x] /\ DOMAIN h = S \ X
      BY <3>1, <3>2
    <3> HIDE DEF z, h
    <3> QED BY <3>1, <3>3 DEF Credits
  <2>2. ASSUME NEW p \in Credits(h) PROVE p \in Credits(z)
    <3>1. PICK x \in S \ X : p \in {x} \X (1..h[x])
      BY <2>2 DEF Credits
    <3>2. x \in S /\ z[x] = h[x] /\ DOMAIN z = S
      OBVIOUS
    <3> HIDE DEF h, z
    <3> QED BY <3>1, <3>2 DEF Credits
  <2> QED BY <2>1, <2>2
<1>4. Total(z) = Total(h)
  BY <1>3 DEF Total
<1>5. g \in [X -> Nat] /\ h \in [S \ X -> Nat]
  OBVIOUS
<1>6. Total(f) \in Nat /\ Total(g) \in Nat /\ Total(h) \in Nat
  <2> HIDE DEF g, h
  <2> QED BY <1>1, <1>5, TotalType
<1> QED BY <1>2, <1>4, <1>6

(* A sum is one holder's credits and those of the others. *)
LEMMA TotalMember ==
  ASSUME NEW S, IsFiniteSet(S), NEW f \in [S -> Nat], NEW a \in S
  PROVE  Total(f) = f[a] + Total([x \in S \ {a} |-> f[x]])
<1>1. {a} \in SUBSET S
  OBVIOUS
<1>2. Total(f) = Total([x \in {a} |-> f[x]]) + Total([x \in S \ {a} |-> f[x]])
  BY <1>1, TotalSubset
<1>3. [x \in {a} |-> f[x]] = [x \in {a} |-> f[a]]
  OBVIOUS
<1>4. Total([x \in {a} |-> f[a]]) = f[a]
  BY TotalSingle
<1> QED BY <1>2, <1>3, <1>4

-----------------------------------------------------------------------------
(* Induction over the subsets of a finite set, for a collection of sets.   *)

(* A non-empty set of natural numbers has a least element. *)
LEMMA LeastElement ==
  ASSUME NEW T \in SUBSET Nat, T # {}
  PROVE  \E x \in T : \A y \in T : x <= y
<1>1. PICK x \in T : \A y \in T : ~ (<<y, x>> \in OpToRel(<, Nat))
  BY NatLessThanWellFounded, WFMin
<1>2. \A y \in T : ~ (y < x)
  BY <1>1 DEF OpToRel
<1> QED BY <1>2

(* A collection that holds {} and grows by any element holds S. *)
LEMMA SubsetInduction ==
  ASSUME NEW S, IsFiniteSet(S), NEW G,
         {} \in G, \A A \in SUBSET S : \A a \in S \ A : A \in G => A \cup {a} \in G
  PROVE  S \in G
<1> SUFFICES ASSUME S \notin G PROVE FALSE
  OBVIOUS
<1> DEFINE Bad  == {A \in SUBSET S : A \notin G}
           Size == {Cardinality(A) : A \in Bad}
<1>1. \A A \in SUBSET S : IsFiniteSet(A) /\ Cardinality(A) \in Nat
  BY FS_Subset, FS_CardinalityType
<1>2. Size \in SUBSET Nat /\ Size # {}
  BY <1>1
<1>3. PICK n \in Size : \A k \in Size : n <= k
  <2> HIDE DEF Size
  <2> QED BY <1>2, LeastElement
<1>4. PICK A \in Bad : n = Cardinality(A)
  BY <1>3
<1>5. PICK a \in A : TRUE
  BY <1>4
<1>6. IsFiniteSet(A) /\ A \ {a} \in SUBSET S /\ a \in S \ (A \ {a})
  BY <1>1, <1>4, <1>5
<1>7. Cardinality(A \ {a}) = Cardinality(A) - 1
  BY <1>5, <1>6, FS_RemoveElement
<1>8. A \ {a} \notin Bad
  <2> SUFFICES ASSUME A \ {a} \in Bad PROVE FALSE
    OBVIOUS
  <2>1. Cardinality(A \ {a}) \in Size
    OBVIOUS
  <2>2. n \in Nat /\ n <= Cardinality(A \ {a})
    BY <1>2, <1>3, <2>1
  <2> HIDE DEF Size, Bad
  <2> QED BY <1>4, <1>7, <2>2
<1>9. (A \ {a}) \cup {a} = A
  BY <1>5
<1>10. A \in G
  <2>1. A \ {a} \in G
    BY <1>6, <1>8
  <2> QED BY <1>6, <1>9, <2>1
<1> QED BY <1>4, <1>10

-----------------------------------------------------------------------------
(* Sums of sums.                                                           *)

(* The sum of a pointwise sum. *)
LEMMA TotalAdd ==
  ASSUME NEW S, IsFiniteSet(S), NEW f \in [S -> Nat], NEW g \in [S -> Nat]
  PROVE  Total([x \in S |-> f[x] + g[x]]) = Total(f) + Total(g)
<1> DEFINE F(A) == Total([x \in A |-> f[x]])
           H(A) == Total([x \in A |-> g[x]])
           B(A) == Total([x \in A |-> f[x] + g[x]])
           G    == {A \in SUBSET S : B(A) = F(A) + H(A)}
<1>1. {} \in G
  <2>1. Total([x \in {} |-> 0]) = 0
    BY TotalZero
  <2>2. [x \in {} |-> f[x]] = [x \in {} |-> 0] /\ [x \in {} |-> g[x]] = [x \in {} |-> 0]
        /\ [x \in {} |-> f[x] + g[x]] = [x \in {} |-> 0]
    OBVIOUS
  <2>3. B({}) = 0 /\ F({}) = 0 /\ H({}) = 0
    BY <2>1, <2>2
  <2> HIDE DEF B, F, H
  <2> QED BY <2>3
<1>2. ASSUME NEW A \in SUBSET S, NEW a \in S \ A, A \in G
      PROVE  A \cup {a} \in G
  <2> DEFINE D == A \cup {a}
  <2>1. IsFiniteSet(D) /\ IsFiniteSet(A)
    BY FS_Subset
  <2>2. a \in D /\ D \ {a} = A /\ D \in SUBSET S
    BY <1>2
  <2>3. \A q \in [D -> Nat] : Total(q) = q[a] + Total([x \in A |-> q[x]])
    <3> SUFFICES ASSUME NEW q \in [D -> Nat]
                 PROVE  Total(q) = q[a] + Total([x \in A |-> q[x]])
      OBVIOUS
    <3> HIDE DEF D
    <3>1. a \in D /\ IsFiniteSet(D)
      BY <2>1, <2>2
    <3>2. Total(q) = q[a] + Total([x \in D \ {a} |-> q[x]])
      BY <3>1, TotalMember
    <3> QED BY <2>2, <3>2
  <2>4. /\ [x \in D |-> f[x]] \in [D -> Nat]
        /\ [x \in D |-> g[x]] \in [D -> Nat]
        /\ [x \in D |-> f[x] + g[x]] \in [D -> Nat]
    BY <2>2
  <2>5. F(D) = f[a] + F(A)
    <3> DEFINE q == [x \in D |-> f[x]]
    <3>1. q[a] = f[a] /\ [x \in A |-> q[x]] = [x \in A |-> f[x]]
      BY <2>2
    <3>2. Total(q) = q[a] + Total([x \in A |-> q[x]])
      <4> HIDE DEF q
      <4> QED BY <2>3, <2>4 DEF q
    <3> QED BY <3>1, <3>2
  <2>6. H(D) = g[a] + H(A)
    <3> DEFINE q == [x \in D |-> g[x]]
    <3>1. q[a] = g[a] /\ [x \in A |-> q[x]] = [x \in A |-> g[x]]
      BY <2>2
    <3>2. Total(q) = q[a] + Total([x \in A |-> q[x]])
      <4> HIDE DEF q
      <4> QED BY <2>3, <2>4 DEF q
    <3> QED BY <3>1, <3>2
  <2>7. B(D) = f[a] + g[a] + B(A)
    <3> DEFINE q == [x \in D |-> f[x] + g[x]]
    <3>1. q[a] = f[a] + g[a] /\ [x \in A |-> q[x]] = [x \in A |-> f[x] + g[x]]
      BY <2>2
    <3>2. Total(q) = q[a] + Total([x \in A |-> q[x]])
      <4> HIDE DEF q
      <4> QED BY <2>3, <2>4 DEF q
    <3> QED BY <3>1, <3>2
  <2>8. F(A) \in Nat /\ H(A) \in Nat
    <3>1. [x \in A |-> f[x]] \in [A -> Nat] /\ [x \in A |-> g[x]] \in [A -> Nat]
      OBVIOUS
    <3> QED BY <2>1, <3>1, TotalType
  <2>9. f[a] \in Nat /\ g[a] \in Nat
    OBVIOUS
  <2>10. B(A) = F(A) + H(A)
    BY <1>2
  <2> HIDE DEF B, F, H, D
  <2>11. B(D) = F(D) + H(D)
    BY <2>5, <2>6, <2>7, <2>8, <2>9, <2>10
  <2> QED BY <2>2, <2>11 DEF D
<1>3. S \in G
  <2> HIDE DEF G
  <2> QED BY <1>1, <1>2, SubsetInduction
<1>4. [x \in S |-> f[x]] = f /\ [x \in S |-> g[x]] = g
  OBVIOUS
<1> QED BY <1>3, <1>4

(* What each lot gives to the holders A together, and each holder its lots. *)
ByLot(L, A, f)  == [l \in L |-> Total([x \in A |-> f[x][l]])]
ByHolder(A, f) == [x \in A |-> Total(f[x])]

(* Summing by holder, then by lot, or by lot, then by holder. *)
LEMMA TotalExchange ==
  ASSUME NEW S, IsFiniteSet(S), NEW L, IsFiniteSet(L), NEW f \in [S -> [L -> Nat]]
  PROVE  Total(ByLot(L, S, f)) = Total(ByHolder(S, f))
<1> DEFINE Col(A) == [l \in L |-> Total([x \in A |-> f[x][l]])]
           Row(A) == Total([x \in A |-> Total(f[x])])
           G      == {A \in SUBSET S : Total(Col(A)) = Row(A)}
<1>1. {} \in G
  <2>1. \A l \in L : [x \in {} |-> f[x][l]] = [x \in {} |-> 0]
    OBVIOUS
  <2>2. Total([x \in {} |-> 0]) = 0
    BY TotalZero
  <2>3. Col({}) = [l \in L |-> 0]
    BY <2>1, <2>2
  <2>4. Total([l \in L |-> 0]) = 0
    BY TotalZero
  <2>5. [x \in {} |-> Total(f[x])] = [x \in {} |-> 0]
    OBVIOUS
  <2>6. Row({}) = 0
    BY <2>2, <2>5
  <2> HIDE DEF Col, Row
  <2> QED BY <2>3, <2>4, <2>6
<1>2. ASSUME NEW A \in SUBSET S, NEW a \in S \ A, A \in G
      PROVE  A \cup {a} \in G
  <2> DEFINE D == A \cup {a}
  <2>1. IsFiniteSet(A) /\ a \notin A /\ D \in SUBSET S
    BY FS_Subset
  <2>d. IsFiniteSet(D) /\ a \in D /\ D \ {a} = A
    BY <2>1, FS_Subset
  <2>i. \A q \in [D -> Nat] : Total(q) = q[a] + Total([x \in A |-> q[x]])
    <3> SUFFICES ASSUME NEW q \in [D -> Nat]
                 PROVE  Total(q) = q[a] + Total([x \in A |-> q[x]])
      OBVIOUS
    <3> HIDE DEF D
    <3>1. a \in D /\ IsFiniteSet(D)
      BY <2>d
    <3>2. Total(q) = q[a] + Total([x \in D \ {a} |-> q[x]])
      BY <3>1, TotalMember
    <3> QED BY <2>d, <3>2
  <2>2. \A l \in L : [x \in D |-> f[x][l]] \in [D -> Nat]
    OBVIOUS
  <2>3. ASSUME NEW l \in L PROVE Col(D)[l] = f[a][l] + Col(A)[l]
    <3> DEFINE q == [x \in D |-> f[x][l]]
    <3>1. q \in [D -> Nat]
      BY <2>2
    <3>2. q[a] = f[a][l] /\ [x \in A |-> q[x]] = [x \in A |-> f[x][l]]
      OBVIOUS
    <3>3. Total(q) = q[a] + Total([x \in A |-> q[x]])
      <4> HIDE DEF q, D
      <4> QED BY <2>i, <3>1
    <3> QED BY <3>2, <3>3
  <2>4. f[a] \in [L -> Nat]
    OBVIOUS
  <2>5. Col(A) \in [L -> Nat]
    <3> SUFFICES ASSUME NEW l \in L PROVE Total([x \in A |-> f[x][l]]) \in Nat
      OBVIOUS
    <3>1. [x \in A |-> f[x][l]] \in [A -> Nat]
      OBVIOUS
    <3> QED BY <2>1, <3>1, TotalType
  <2>6. Col(D) = [l \in L |-> f[a][l] + Col(A)[l]]
    <3>1. Col(D) = [l \in L |-> Col(D)[l]]
      OBVIOUS
    <3> HIDE DEF Col, D
    <3> QED BY <2>3, <3>1
  <2>7. Total(Col(D)) = Total(f[a]) + Total(Col(A))
    <3> DEFINE u == f[a]
               v == Col(A)
    <3>1. u \in [L -> Nat] /\ v \in [L -> Nat]
      BY <2>4, <2>5
    <3>2. Col(D) = [l \in L |-> u[l] + v[l]]
      BY <2>6
    <3> HIDE DEF u, v
    <3>3. Total([l \in L |-> u[l] + v[l]]) = Total(u) + Total(v)
      BY <3>1, TotalAdd
    <3> QED BY <3>2, <3>3 DEF u, v
  <2>8. Row(D) = Total(f[a]) + Row(A)
    <3> DEFINE q == [x \in D |-> Total(f[x])]
    <3>1. \A x \in S : Total(f[x]) \in Nat
      <4> SUFFICES ASSUME NEW x \in S PROVE Total(f[x]) \in Nat
        OBVIOUS
      <4>1. f[x] \in [L -> Nat]
        OBVIOUS
      <4> QED BY <4>1, TotalType
    <3>2. q \in [D -> Nat]
      BY <2>1, <3>1
    <3>3. q[a] = Total(f[a]) /\ [x \in A |-> q[x]] = [x \in A |-> Total(f[x])]
      OBVIOUS
    <3>4. Total(q) = q[a] + Total([x \in A |-> q[x]])
      <4> HIDE DEF q, D
      <4> QED BY <2>i, <3>2
    <3> QED BY <3>3, <3>4
  <2>9. Total(Col(A)) = Row(A)
    BY <1>2
  <2> HIDE DEF Col, Row, D
  <2>10. Total(Col(D)) = Row(D)
    BY <2>7, <2>8, <2>9
  <2> QED BY <2>1, <2>10 DEF D
<1>3. S \in G
  <2> HIDE DEF G
  <2> QED BY <1>1, <1>2, SubsetInduction
<1> QED BY <1>3 DEF ByLot, ByHolder

(* The sum of a pointwise difference. *)
LEMMA TotalMinus ==
  ASSUME NEW S, IsFiniteSet(S), NEW f \in [S -> Nat], NEW g \in [S -> Nat],
         \A x \in S : g[x] <= f[x]
  PROVE  /\ Total([x \in S |-> f[x] - g[x]]) = Total(f) - Total(g)
         /\ Total(g) <= Total(f)
<1> DEFINE d == [x \in S |-> f[x] - g[x]]
<1>1. d \in [S -> Nat]
  OBVIOUS
<1>2. f = [x \in S |-> d[x] + g[x]]
  OBVIOUS
<1>3. Total(f) \in Nat /\ Total(g) \in Nat /\ Total(d) \in Nat
  <2> HIDE DEF d
  <2> QED BY <1>1, TotalType
<1>4. Total(f) = Total(d) + Total(g)
  <2> HIDE DEF d
  <2>1. Total([x \in S |-> d[x] + g[x]]) = Total(d) + Total(g)
    BY <1>1, TotalAdd
  <2> QED BY <1>2, <2>1
<1> QED BY <1>3, <1>4

-----------------------------------------------------------------------------
(* Oldest-first distribution.                                              *)

(* What oldest-first takes from a lot is bounded by what the lot offers. *)
LEMMA OldestFirstType ==
  ASSUME NEW n \in Nat, NEW N \in Nat, NEW avail \in [1..N -> Nat]
  PROVE  /\ OldestFirst(n, avail) \in [1..N -> Nat]
         /\ \A l \in 1..N : OldestFirst(n, avail)[l] <= avail[l]
<1> SUFFICES ASSUME NEW l \in 1..N
             PROVE  /\ OldestFirst(n, avail)[l] \in Nat
                    /\ OldestFirst(n, avail)[l] <= avail[l]
  BY DEF OldestFirst
<1> DEFINE B == {j \in 1..N : j < l}
<1>1. IsFiniteSet(B)
  <2>1. IsFiniteSet(1..N)
    BY FS_Interval
  <2> QED BY <2>1, FS_Subset
<1>2. Total([k \in B |-> avail[k]]) \in Nat
  BY <1>1, TotalType
<1>3. OldestFirst(n, avail)[l] = Least(avail[l], Monus(n, Total([k \in B |-> avail[k]])))
  BY DEF OldestFirst
<1> QED BY <1>2, <1>3 DEF Least, Monus

(* Oldest-first takes all that is asked, or all there is. *)
LEMMA OldestFirstTotal ==
  ASSUME NEW n \in Nat, NEW N \in Nat, NEW avail \in [1..N -> Nat]
  PROVE  Total(OldestFirst(n, avail)) = Least(n, Total(avail))
<1> DEFINE take == OldestFirst(n, avail)
           A(k) == Total([j \in 1..k |-> avail[j]])
           T(k) == Total([j \in 1..k |-> take[j]])
           Bad  == {k \in 0..N : T(k) # Least(n, A(k))}
<1>1. take \in [1..N -> Nat] /\ \A l \in 1..N : take[l] <= avail[l]
  BY OldestFirstType
<1>2. ASSUME NEW k \in 0..N
      PROVE  /\ IsFiniteSet(1..k)
             /\ A(k) \in Nat /\ T(k) \in Nat
  <2>1. IsFiniteSet(1..k)
    BY FS_Interval
  <2>2. [j \in 1..k |-> avail[j]] \in [1..k -> Nat]
    OBVIOUS
  <2>3. [j \in 1..k |-> take[j]] \in [1..k -> Nat]
    BY <1>1
  <2> QED BY <2>1, <2>2, <2>3, TotalType
<1>3. ASSUME NEW k \in 1..N
      PROVE  /\ A(k) = A(k-1) + avail[k]
             /\ T(k) = T(k-1) + take[k]
             /\ take[k] = Least(avail[k], Monus(n, A(k-1)))
  <2>r. (1..k) \ {k} = 1..(k-1)
    OBVIOUS
  <2>1. k \in 1..k
    OBVIOUS
  <2>2. IsFiniteSet(1..k)
    BY FS_Interval
  <2>3. avail[k] \in Nat /\ take[k] \in Nat
    BY <1>1
  <2>4. ASSUME NEW q \in [1..k -> Nat]
        PROVE  Total(q) = q[k] + Total([j \in 1..(k-1) |-> q[j]])
    <3>1. Total(q) = q[k] + Total([j \in (1..k) \ {k} |-> q[j]])
      BY <2>1, <2>2, TotalMember
    <3> QED BY <2>r, <3>1
  <2>5. [j \in 1..k |-> avail[j]] \in [1..k -> Nat]
        /\ [j \in 1..k |-> take[j]] \in [1..k -> Nat]
    BY <1>1
  <2>6. A(k) = avail[k] + A(k-1)
    <3> DEFINE q == [j \in 1..k |-> avail[j]]
    <3>1. q[k] = avail[k]
          /\ [j \in 1..(k-1) |-> q[j]] = [j \in 1..(k-1) |-> avail[j]]
      BY <2>1
    <3>2. Total(q) = q[k] + Total([j \in 1..(k-1) |-> q[j]])
      <4> HIDE DEF q
      <4> QED BY <2>4, <2>5 DEF q
    <3> QED BY <3>1, <3>2
  <2>7. T(k) = take[k] + T(k-1)
    <3> DEFINE q == [j \in 1..k |-> take[j]]
    <3>1. q[k] = take[k]
          /\ [j \in 1..(k-1) |-> q[j]] = [j \in 1..(k-1) |-> take[j]]
      BY <1>1, <2>1
    <3>2. Total(q) = q[k] + Total([j \in 1..(k-1) |-> q[j]])
      <4> HIDE DEF q
      <4> QED BY <2>4, <2>5 DEF q
    <3> QED BY <3>1, <3>2
  <2>8. {j \in 1..N : j < k} = 1..(k-1)
    OBVIOUS
  <2>9. take[k] = Least(avail[k], Monus(n, Total([j \in {i \in 1..N : i < k} |-> avail[j]])))
    BY DEF take, OldestFirst
  <2>10. A(k-1) \in Nat /\ T(k-1) \in Nat
    <3>1. k - 1 \in 0..N
      OBVIOUS
    <3> HIDE DEF A, T
    <3> QED BY <3>1, <1>2
  <2>11. take[k] = Least(avail[k], Monus(n, A(k-1)))
    BY <2>8, <2>9
  <2> HIDE DEF A, T
  <2> QED BY <2>3, <2>6, <2>7, <2>10, <2>11
<1>4. 0 \notin Bad
  <2>1. 1..0 = {}
    OBVIOUS
  <2>2. [j \in 1..0 |-> avail[j]] = [j \in {} |-> 0] /\ [j \in 1..0 |-> take[j]] = [j \in {} |-> 0]
    BY <2>1
  <2>3. Total([j \in {} |-> 0]) = 0
    BY TotalZero
  <2>4. A(0) = 0 /\ T(0) = 0
    BY <2>2, <2>3
  <2> HIDE DEF A, T
  <2> QED BY <2>4 DEF Least
<1>5. ASSUME NEW k \in 1..N, k - 1 \notin Bad PROVE k \notin Bad
  <2>1. k - 1 \in 0..N /\ k \in 0..N
    OBVIOUS
  <2>2. T(k-1) = Least(n, A(k-1))
    BY <1>5, <2>1
  <2>3. A(k-1) \in Nat /\ T(k-1) \in Nat
    BY <1>2, <2>1
  <2>4. avail[k] \in Nat
    OBVIOUS
  <2> HIDE DEF A, T, take
  <2>5. T(k) = Least(n, A(k))
    BY <1>3, <2>2, <2>3, <2>4 DEF Least, Monus
  <2> QED BY <2>5 DEF Bad
<1>6. Bad = {}
  <2> SUFFICES ASSUME Bad # {} PROVE FALSE
    OBVIOUS
  <2>1. Bad \subseteq 0..N
    OBVIOUS
  <2> HIDE DEF Bad
  <2>2. Bad \in SUBSET Nat
    BY <2>1
  <2>3. PICK k \in Bad : \A j \in Bad : k <= j
    BY <2>2, LeastElement
  <2>4. k \in 1..N /\ k - 1 \notin Bad
    BY <1>4, <2>1, <2>3
  <2> QED BY <1>5, <2>3, <2>4
<1>7. T(N) = Least(n, A(N))
  <2>1. N \in 0..N
    OBVIOUS
  <2> HIDE DEF A, T
  <2> QED BY <1>6, <2>1
<1>8. [j \in 1..N |-> avail[j]] = avail /\ [j \in 1..N |-> take[j]] = take
  BY <1>1
<1> QED BY <1>7, <1>8
-----------------------------------------------------------------------------
(* The inductive invariant.                                                *)

(* What the checked invariants need to be inductive: a live reservation's  *)
(* allocations sum to what it holds of purchased credits, a lot without a  *)
(* grant entry is empty, and nothing is settled before the settlement.     *)
AllocationsMatchHold ==
  \A r \in Live : Total(purchase_allocations[r]) = reserved_purchased[r]
UngrantedLotsEmpty ==
  \A l \in Lots : <<"purchase_grant", l>> \notin ledger_keys
                    => credits_granted[l] = 0 /\ credits_remaining[l] = 0
NotYetSettled ==
  \A r \in Requests : status[r] \in {"none", "reserved"} => settled_purchased[r] = 0

(* What the counters, the lots and the ledger say of each other.           *)
Books ==
  /\ TypeOK
  /\ HoldsMatchReservations
  /\ LotsMatchBalance
  /\ ReservedIsCovered
  /\ LedgerExplainsBalance
  /\ IncludedNotOverdrawn
  /\ AllocationsMatchHold
  /\ UngrantedLotsEmpty
  /\ NotYetSettled

(* CreditPurchases keeps the Books too, but not this account of the lots:  *)
(* a refund that comes before the payment is counted as reversed.          *)
IInv == Books /\ PurchasedCreditsAccounted

-----------------------------------------------------------------------------
(* Sums over parts of the reservations.                                    *)

(* The sum of f over the part A of its domain. *)
Part(f, A) == Total([x \in A |-> f[x]])

(* The part of a sum over A is its part over any B in A and the rest. *)
LEMMA PartSplit ==
  ASSUME NEW S, IsFiniteSet(S), NEW f \in [S -> Nat],
         NEW A \in SUBSET S, NEW B \in SUBSET A
  PROVE  /\ Part(f, A) = Part(f, B) + Part(f, A \ B)
         /\ Part(f, A) \in Nat /\ Part(f, B) \in Nat /\ Part(f, A \ B) \in Nat
<1> DEFINE g == [x \in A |-> f[x]]
<1>1. IsFiniteSet(A)
  BY FS_Subset
<1>2. g \in [A -> Nat]
  OBVIOUS
<1>3. [x \in B |-> g[x]] = [x \in B |-> f[x]]
      /\ [x \in A \ B |-> g[x]] = [x \in A \ B |-> f[x]]
  OBVIOUS
<1>4. /\ Total(g) = Total([x \in B |-> g[x]]) + Total([x \in A \ B |-> g[x]])
      /\ Total(g) \in Nat
      /\ Total([x \in B |-> g[x]]) \in Nat
      /\ Total([x \in A \ B |-> g[x]]) \in Nat
  <2> HIDE DEF g
  <2> QED BY <1>1, <1>2, TotalSubset
<1> QED BY <1>3, <1>4 DEF Part

(* One member's share comes out of the part it is in. *)
LEMMA PartMember ==
  ASSUME NEW S, IsFiniteSet(S), NEW f \in [S -> Nat],
         NEW A \in SUBSET S, NEW a \in A
  PROVE  /\ Part(f, A) = f[a] + Part(f, A \ {a})
         /\ Part(f, A) \in Nat /\ Part(f, A \ {a}) \in Nat /\ f[a] \in Nat
<1>1. {a} \in SUBSET A
  OBVIOUS
<1>2. /\ Part(f, A) = Part(f, {a}) + Part(f, A \ {a})
      /\ Part(f, A) \in Nat /\ Part(f, A \ {a}) \in Nat
  BY <1>1, PartSplit
<1>3. f[a] \in Nat
  OBVIOUS
<1>4. [x \in {a} |-> f[x]] = [x \in {a} |-> f[a]]
  OBVIOUS
<1>5. Part(f, {a}) = f[a]
  BY <1>3, <1>4, TotalSingle DEF Part
<1> QED BY <1>2, <1>3, <1>5

(* Each holder's credits sum to what it holds: so do the lots'. *)
LEMMA LotSums ==
  ASSUME NEW S, IsFiniteSet(S), NEW L, IsFiniteSet(L),
         NEW alloc \in [S -> [L -> Nat]], NEW held \in [S -> Nat],
         NEW A \in SUBSET S, \A r \in A : Total(alloc[r]) = held[r]
  PROVE  Total(ByLot(L, A, alloc)) = Part(held, A)
<1> DEFINE f == [r \in A |-> alloc[r]]
<1>1. IsFiniteSet(A)
  BY FS_Subset
<1>2. f \in [A -> [L -> Nat]]
  OBVIOUS
<1>3. Total(ByLot(L, A, f)) = Total(ByHolder(A, f))
  <2> HIDE DEF f
  <2> QED BY <1>1, <1>2, TotalExchange
<1>4. \A l \in L : [r \in A |-> f[r][l]] = [r \in A |-> alloc[r][l]]
  OBVIOUS
<1>5. ByLot(L, A, f) = ByLot(L, A, alloc)
  <2> HIDE DEF f
  <2> QED BY <1>4 DEF ByLot
<1>6. ByHolder(A, f) = [r \in A |-> held[r]]
  BY DEF ByHolder
<1> QED BY <1>3, <1>5, <1>6 DEF Part

(* The purchase lots are finitely many. *)
LEMMA FiniteLots == IsFiniteSet(Lots)
BY LedgerAssumption, FS_Interval DEF Lots

-----------------------------------------------------------------------------
(* The effect of expiring a set X of live reservations.                    *)

AllocatedTo(l) == [r \in Requests |-> purchase_allocations[r][l]]

(* What a set of requests holds is a part of the sum over all requests. *)
LEMMA HeldIsPart ==
  ASSUME NEW A \in SUBSET Requests
  PROVE  /\ IncludedHeld(A) = Part(reserved_included, A)
         /\ PurchasedHeld(A) = Part(reserved_purchased, A)
         /\ \A l : LotHeld(A, l) = Part(AllocatedTo(l), A)
<1>1. \A l : [r \in A |-> purchase_allocations[r][l]] = [r \in A |-> AllocatedTo(l)[r]]
  BY DEF AllocatedTo
<1> QED BY <1>1 DEF IncludedHeld, PurchasedHeld, LotHeld, Part

(* Only live reservations expire, never the one the operation is about. *)
LEMMA StaleIsLive ==
  ASSUME TypeOK, NEW keep
  PROVE  Stale(keep) \in SUBSET (Live \ keep)
BY DEF Stale, Live, TypeOK

(* What A holds is what B in A holds and what the rest of A holds. *)
LEMMA HeldSplit ==
  ASSUME TypeOK, NEW A \in SUBSET Requests, NEW B \in SUBSET A
  PROVE  /\ IncludedHeld(A) = IncludedHeld(B) + IncludedHeld(A \ B)
         /\ IncludedHeld(A) \in Nat /\ IncludedHeld(B) \in Nat /\ IncludedHeld(A \ B) \in Nat
         /\ PurchasedHeld(A) = PurchasedHeld(B) + PurchasedHeld(A \ B)
         /\ PurchasedHeld(A) \in Nat /\ PurchasedHeld(B) \in Nat /\ PurchasedHeld(A \ B) \in Nat
         /\ \A l \in Lots :
              /\ LotHeld(A, l) = LotHeld(B, l) + LotHeld(A \ B, l)
              /\ LotHeld(A, l) \in Nat /\ LotHeld(B, l) \in Nat /\ LotHeld(A \ B, l) \in Nat
<1>1. IsFiniteSet(Requests)
  BY LedgerAssumption
<1>2. reserved_included \in [Requests -> Nat] /\ reserved_purchased \in [Requests -> Nat]
  BY DEF TypeOK
<1>3. \A l \in Lots : AllocatedTo(l) \in [Requests -> Nat]
  BY DEF TypeOK, AllocatedTo
<1>4. B \in SUBSET Requests /\ A \ B \in SUBSET Requests
  OBVIOUS
<1>5. /\ Part(reserved_included, A) = Part(reserved_included, B) + Part(reserved_included, A \ B)
      /\ Part(reserved_included, A) \in Nat
      /\ Part(reserved_included, B) \in Nat /\ Part(reserved_included, A \ B) \in Nat
  BY <1>1, <1>2, PartSplit
<1>6. /\ Part(reserved_purchased, A) = Part(reserved_purchased, B) + Part(reserved_purchased, A \ B)
      /\ Part(reserved_purchased, A) \in Nat
      /\ Part(reserved_purchased, B) \in Nat /\ Part(reserved_purchased, A \ B) \in Nat
  BY <1>1, <1>2, PartSplit
<1>7. ASSUME NEW l \in Lots
      PROVE  /\ Part(AllocatedTo(l), A) = Part(AllocatedTo(l), B) + Part(AllocatedTo(l), A \ B)
             /\ Part(AllocatedTo(l), A) \in Nat
             /\ Part(AllocatedTo(l), B) \in Nat /\ Part(AllocatedTo(l), A \ B) \in Nat
  <2>1. AllocatedTo(l) \in [Requests -> Nat]
    BY <1>3
  <2> QED BY <1>1, <2>1, PartSplit
<1>8. IncludedHeld(A) = Part(reserved_included, A) /\ PurchasedHeld(A) = Part(reserved_purchased, A)
      /\ \A l \in Lots : LotHeld(A, l) = Part(AllocatedTo(l), A)
  BY HeldIsPart
<1>9. IncludedHeld(B) = Part(reserved_included, B) /\ PurchasedHeld(B) = Part(reserved_purchased, B)
      /\ \A l \in Lots : LotHeld(B, l) = Part(AllocatedTo(l), B)
  BY <1>4, HeldIsPart
<1>10. IncludedHeld(A \ B) = Part(reserved_included, A \ B)
       /\ PurchasedHeld(A \ B) = Part(reserved_purchased, A \ B)
       /\ \A l \in Lots : LotHeld(A \ B, l) = Part(AllocatedTo(l), A \ B)
  BY <1>4, HeldIsPart
<1> QED BY <1>5, <1>6, <1>7, <1>8, <1>9, <1>10

(* Expiring leaves natural numbers in the reserved counters. *)
LEMMA ExpiryTypes ==
  ASSUME TypeOK, NEW X \in SUBSET Requests
  PROVE  /\ IncludedHeld(X) \in Nat /\ PurchasedHeld(X) \in Nat
         /\ IncludedReservedWithout(X) \in Nat /\ PurchasedReservedWithout(X) \in Nat
         /\ LotsReservedWithout(X) \in [Lots -> Nat]
<1>1. /\ IncludedHeld(X) \in Nat /\ PurchasedHeld(X) \in Nat
      /\ \A l \in Lots : LotHeld(X, l) \in Nat
  BY HeldSplit
<1>2. \A a, b \in Nat : Monus(a, b) \in Nat
  BY DEF Monus
<1>3. /\ included_reserved \in Nat /\ purchased_reserved \in Nat
      /\ \A l \in Lots : credits_reserved[l] \in Nat
  BY DEF TypeOK
<1> QED BY <1>1, <1>2, <1>3 DEF IncludedReservedWithout, PurchasedReservedWithout,
                                LotsReservedWithout

(* What A holds is what r in A holds and what the others hold. *)
LEMMA HeldMember ==
  ASSUME TypeOK, NEW A \in SUBSET Requests, NEW r \in A
  PROVE  /\ IncludedHeld(A) = reserved_included[r] + IncludedHeld(A \ {r})
         /\ PurchasedHeld(A) = reserved_purchased[r] + PurchasedHeld(A \ {r})
         /\ \A l \in Lots :
              LotHeld(A, l) = purchase_allocations[r][l] + LotHeld(A \ {r}, l)
<1>1. {r} \in SUBSET A /\ {r} \in SUBSET Requests /\ r \in Requests
  OBVIOUS
<1>2. [q \in {r} |-> reserved_included[q]] = [q \in {r} |-> reserved_included[r]]
      /\ [q \in {r} |-> reserved_purchased[q]] = [q \in {r} |-> reserved_purchased[r]]
      /\ \A l : [q \in {r} |-> purchase_allocations[q][l]]
                  = [q \in {r} |-> purchase_allocations[r][l]]
  OBVIOUS
<1>3. reserved_included[r] \in Nat /\ reserved_purchased[r] \in Nat
      /\ \A l \in Lots : purchase_allocations[r][l] \in Nat
  BY <1>1 DEF TypeOK
<1>4. IncludedHeld({r}) = reserved_included[r]
  BY <1>2, <1>3, TotalSingle DEF IncludedHeld
<1>5. PurchasedHeld({r}) = reserved_purchased[r]
  BY <1>2, <1>3, TotalSingle DEF PurchasedHeld
<1>6. ASSUME NEW l \in Lots PROVE LotHeld({r}, l) = purchase_allocations[r][l]
  <2>1. LotHeld({r}, l) = Total([q \in {r} |-> purchase_allocations[r][l]])
    BY <1>2 DEF LotHeld
  <2>2. purchase_allocations[r][l] \in Nat
    BY <1>3
  <2> QED BY <2>1, <2>2, TotalSingle
<1> QED BY <1>1, <1>4, <1>5, <1>6, HeldSplit

(* What the two reserved counters say, whatever the lots do.               *)
Counters ==
  /\ TypeOK
  /\ HoldsMatchReservations
  /\ purchased_reserved <= purchased_balance

(* Expiring live reservations never hits the floor of max(a - b, 0) in the  *)
(* counters.                                                               *)
LEMMA CounterExpiry ==
  ASSUME TypeOK, HoldsMatchReservations, NEW X \in SUBSET Live
  PROVE  /\ IncludedReservedWithout(X) = IncludedHeld(Live \ X)
         /\ included_reserved = IncludedReservedWithout(X) + IncludedHeld(X)
         /\ IncludedReservedWithout(X) \in Nat /\ IncludedHeld(X) \in Nat
         /\ PurchasedReservedWithout(X) = PurchasedHeld(Live \ X)
         /\ purchased_reserved = PurchasedReservedWithout(X) + PurchasedHeld(X)
         /\ PurchasedReservedWithout(X) \in Nat /\ PurchasedHeld(X) \in Nat
<1>1. /\ included_reserved = IncludedHeld(X) + IncludedHeld(Live \ X)
      /\ IncludedHeld(X) \in Nat /\ IncludedHeld(Live \ X) \in Nat
      /\ purchased_reserved = PurchasedHeld(X) + PurchasedHeld(Live \ X)
      /\ PurchasedHeld(X) \in Nat /\ PurchasedHeld(Live \ X) \in Nat
  <2>1. Live \in SUBSET Requests
    BY DEF Live
  <2> QED BY <2>1, HeldSplit DEF HoldsMatchReservations
<1>2. IncludedReservedWithout(X) = IncludedHeld(Live \ X)
      /\ PurchasedReservedWithout(X) = PurchasedHeld(Live \ X)
  BY <1>1 DEF IncludedReservedWithout, PurchasedReservedWithout, Monus
<1> QED BY <1>1, <1>2

(* Expiring live reservations never hits the floor of max(a - b, 0), and   *)
(* leaves counters and lots in agreement.                                  *)
LEMMA Expiry ==
  ASSUME Books, NEW X \in SUBSET Live
  PROVE  /\ IncludedReservedWithout(X) = IncludedHeld(Live \ X)
         /\ included_reserved = IncludedReservedWithout(X) + IncludedHeld(X)
         /\ IncludedReservedWithout(X) \in Nat /\ IncludedHeld(X) \in Nat
         /\ PurchasedReservedWithout(X) = PurchasedHeld(Live \ X)
         /\ purchased_reserved = PurchasedReservedWithout(X) + PurchasedHeld(X)
         /\ PurchasedReservedWithout(X) \in Nat /\ PurchasedHeld(X) \in Nat
         /\ LotsReservedWithout(X) = [l \in Lots |-> LotHeld(Live \ X, l)]
         /\ LotsReservedWithout(X) \in [Lots -> Nat]
         /\ \A l \in Lots : LotsReservedWithout(X)[l] <= credits_reserved[l]
         /\ Total(LotsReservedWithout(X)) = PurchasedReservedWithout(X)
<1>1. TypeOK /\ Live \in SUBSET Requests /\ Live \ X \in SUBSET Requests
  BY DEF Books, Live
<1>2. /\ IncludedReservedWithout(X) = IncludedHeld(Live \ X)
      /\ included_reserved = IncludedReservedWithout(X) + IncludedHeld(X)
      /\ IncludedReservedWithout(X) \in Nat /\ IncludedHeld(X) \in Nat
      /\ PurchasedReservedWithout(X) = PurchasedHeld(Live \ X)
      /\ purchased_reserved = PurchasedReservedWithout(X) + PurchasedHeld(X)
      /\ PurchasedReservedWithout(X) \in Nat /\ PurchasedHeld(X) \in Nat
  BY <1>1, CounterExpiry DEF Books
<1>3. \A l \in Lots :
        /\ credits_reserved[l] = LotHeld(X, l) + LotHeld(Live \ X, l)
        /\ LotHeld(X, l) \in Nat /\ LotHeld(Live \ X, l) \in Nat
  BY <1>1, HeldSplit DEF Books, LotsMatchBalance
<1>5. LotsReservedWithout(X) = [l \in Lots |-> LotHeld(Live \ X, l)]
  <2>1. ASSUME NEW l \in Lots
        PROVE  Monus(credits_reserved[l], LotHeld(X, l)) = LotHeld(Live \ X, l)
    <3>1. /\ credits_reserved[l] = LotHeld(X, l) + LotHeld(Live \ X, l)
          /\ LotHeld(X, l) \in Nat /\ LotHeld(Live \ X, l) \in Nat
      BY <1>3
    <3> QED BY <3>1 DEF Monus
  <2> QED BY <2>1 DEF LotsReservedWithout
<1>6. Total(LotsReservedWithout(X)) = PurchasedHeld(Live \ X)
  <2>1. purchase_allocations \in [Requests -> [Lots -> Nat]]
        /\ reserved_purchased \in [Requests -> Nat]
    BY <1>1 DEF TypeOK
  <2>2. IsFiniteSet(Requests) /\ IsFiniteSet(Lots)
    BY LedgerAssumption, FiniteLots
  <2>3. \A r \in Live \ X : Total(purchase_allocations[r]) = reserved_purchased[r]
    BY DEF Books, AllocationsMatchHold
  <2>4. Total(ByLot(Lots, Live \ X, purchase_allocations)) = Part(reserved_purchased, Live \ X)
    BY <1>1, <2>1, <2>2, <2>3, LotSums
  <2>5. ByLot(Lots, Live \ X, purchase_allocations) = LotsReservedWithout(X)
    BY <1>5 DEF ByLot, LotHeld
  <2> QED BY <1>1, <1>2, <2>4, <2>5, HeldIsPart
<1>7. \A l \in Lots : LotsReservedWithout(X)[l] \in Nat
                      /\ LotsReservedWithout(X)[l] <= credits_reserved[l]
  <2> SUFFICES ASSUME NEW l \in Lots
               PROVE  /\ LotsReservedWithout(X)[l] \in Nat
                      /\ LotsReservedWithout(X)[l] <= credits_reserved[l]
    OBVIOUS
  <2>1. LotsReservedWithout(X)[l] = LotHeld(Live \ X, l)
    BY <1>5
  <2>2. /\ credits_reserved[l] = LotHeld(X, l) + LotHeld(Live \ X, l)
        /\ LotHeld(X, l) \in Nat /\ LotHeld(Live \ X, l) \in Nat
    BY <1>3
  <2> QED BY <2>1, <2>2
<1> QED BY <1>2, <1>5, <1>6, <1>7

-----------------------------------------------------------------------------
(* The state after a step, in terms of the reservations still live in it.  *)

(* Expiring X leaves the other live reservations live. *)
LEMMA LiveExpired ==
  ASSUME TypeOK, NEW X \in SUBSET Live, status' = StatusExpired(X)
  PROVE  /\ Live' = Live \ X
         /\ status' \in [Requests -> Terminal \cup {"none", "reserved"}]
         /\ \A q \in Requests : status'[q] \in {"none", "reserved"} => status'[q] = status[q]
BY DEF TypeOK, Live, StatusExpired, Terminal

(* Giving r the status s while X expires: r is live if s is "reserved". *)
LEMMA LiveWith ==
  ASSUME TypeOK, NEW X \in SUBSET Live, NEW r \in Requests, NEW s,
         s \in Terminal \cup {"reserved"}, status' = StatusWith(X, r, s)
  PROVE  /\ s = "reserved" => Live' = (Live \ X) \cup {r}
         /\ s # "reserved" => Live' = Live \ (X \cup {r})
         /\ status' \in [Requests -> Terminal \cup {"none", "reserved"}]
         /\ \A q \in Requests \ {r} :
              status'[q] \in {"none", "reserved"} => status'[q] = status[q]
BY DEF TypeOK, Live, StatusWith, Terminal

(* The conjuncts about holds, when no hold is added. *)
HoldsOK ==
  /\ included_reserved \in Nat /\ purchased_reserved \in Nat
  /\ credits_reserved \in [Lots -> Nat]
  /\ HoldsMatchReservations
  /\ Total(credits_reserved) = purchased_reserved
  /\ \A l \in Lots : credits_reserved[l] = LotHeld(Live, l)
  /\ AllocationsMatchHold

(* If the live reservations become A and the reserved columns become the *)
(* sums over A, the conjuncts about holds are true again. *)
LEMMA HoldsAfter ==
  ASSUME Books, NEW A \in SUBSET Live, Live' = A, UNCHANGED holdVars,
         included_reserved' = IncludedHeld(A), purchased_reserved' = PurchasedHeld(A),
         credits_reserved' = [l \in Lots |-> LotHeld(A, l)]
  PROVE  HoldsOK'
<1>1. /\ IncludedHeld(A) \in Nat /\ PurchasedHeld(A) \in Nat
      /\ [l \in Lots |-> LotHeld(A, l)] \in [Lots -> Nat]
      /\ Total([l \in Lots |-> LotHeld(A, l)]) = PurchasedHeld(A)
  <2>1. Live \ A \in SUBSET Live /\ Live \ (Live \ A) = A
    OBVIOUS
  <2>2. /\ IncludedReservedWithout(Live \ A) = IncludedHeld(A)
        /\ IncludedReservedWithout(Live \ A) \in Nat
        /\ PurchasedReservedWithout(Live \ A) = PurchasedHeld(A)
        /\ PurchasedReservedWithout(Live \ A) \in Nat
        /\ LotsReservedWithout(Live \ A) = [l \in Lots |-> LotHeld(A, l)]
        /\ LotsReservedWithout(Live \ A) \in [Lots -> Nat]
        /\ Total(LotsReservedWithout(Live \ A)) = PurchasedReservedWithout(Live \ A)
    BY <2>1, Expiry
  <2> QED BY <2>2
<1>2. IncludedHeld(A) = IncludedHeld(Live)' /\ PurchasedHeld(A) = PurchasedHeld(Live)'
      /\ \A l \in Lots : LotHeld(A, l) = LotHeld(Live, l)'
  BY DEF IncludedHeld, PurchasedHeld, LotHeld, holdVars
<1>3. AllocationsMatchHold'
  BY DEF Books, AllocationsMatchHold, holdVars
<1> QED BY <1>1, <1>2, <1>3 DEF HoldsOK, HoldsMatchReservations

(* Operations that only expire reservations, beside what they do to the    *)
(* credits.                                                                *)
LEMMA ExpireOnlyHolds ==
  ASSUME Books, NEW X \in SUBSET Live, ExpireOnly(X), UNCHANGED holdVars
  PROVE  /\ HoldsOK'
         /\ status' \in [Requests -> Terminal \cup {"none", "reserved"}]
         /\ included_reserved' = included_reserved - IncludedHeld(X)
         /\ included_reserved' <= included_reserved
         /\ purchased_reserved' = purchased_reserved - PurchasedHeld(X)
         /\ purchased_reserved' <= purchased_reserved
         /\ \A l \in Lots : credits_reserved'[l] <= credits_reserved[l]
         /\ UNCHANGED settled_purchased => NotYetSettled'
<1>1. TypeOK
  BY DEF Books
<1>2. Live' = Live \ X /\ status' \in [Requests -> Terminal \cup {"none", "reserved"}]
      /\ \A q \in Requests : status'[q] \in {"none", "reserved"} => status'[q] = status[q]
  BY <1>1, LiveExpired DEF ExpireOnly
<1>3. /\ included_reserved' = IncludedHeld(Live \ X)
      /\ purchased_reserved' = PurchasedHeld(Live \ X)
      /\ credits_reserved' = [l \in Lots |-> LotHeld(Live \ X, l)]
      /\ \A l \in Lots : credits_reserved'[l] <= credits_reserved[l]
  BY Expiry DEF ExpireOnly
<1>4. /\ included_reserved = included_reserved' + IncludedHeld(X)
      /\ purchased_reserved = purchased_reserved' + PurchasedHeld(X)
      /\ included_reserved' \in Nat /\ purchased_reserved' \in Nat
      /\ IncludedHeld(X) \in Nat /\ PurchasedHeld(X) \in Nat
  BY Expiry DEF ExpireOnly
<1>5. HoldsOK'
  BY <1>2, <1>3, HoldsAfter
<1>6. UNCHANGED settled_purchased => NotYetSettled'
  BY <1>2 DEF Books, NotYetSettled
<1>7. /\ included_reserved' = included_reserved - IncludedHeld(X)
      /\ included_reserved' <= included_reserved
      /\ purchased_reserved' = purchased_reserved - PurchasedHeld(X)
      /\ purchased_reserved' <= purchased_reserved
  BY <1>4
<1> QED BY <1>2, <1>3, <1>5, <1>6, <1>7

(* The counters once the hold of one live reservation r goes as well. *)
LEMMA CounterOfMember ==
  ASSUME TypeOK, HoldsMatchReservations, NEW X \in SUBSET Live, NEW r \in Live \ X
  PROVE  /\ IncludedReservedWithout(X) - reserved_included[r] = IncludedHeld(Live \ (X \cup {r}))
         /\ PurchasedReservedWithout(X) - reserved_purchased[r] = PurchasedHeld(Live \ (X \cup {r}))
         /\ included_reserved = IncludedHeld(Live \ (X \cup {r})) + reserved_included[r] + IncludedHeld(X)
         /\ purchased_reserved = PurchasedHeld(Live \ (X \cup {r})) + reserved_purchased[r] + PurchasedHeld(X)
         /\ IncludedHeld(X) \in Nat /\ PurchasedHeld(X) \in Nat
         /\ reserved_included[r] \in Nat /\ reserved_purchased[r] \in Nat
         /\ IncludedHeld(Live \ (X \cup {r})) \in Nat
         /\ PurchasedHeld(Live \ (X \cup {r})) \in Nat
<1> DEFINE Y == X \cup {r}
<1>1. TypeOK /\ Live \ X \in SUBSET Requests /\ Y \in SUBSET Live
      /\ (Live \ X) \ {r} = Live \ Y
  BY DEF Live
<1>2. /\ IncludedHeld(Live \ X) = reserved_included[r] + IncludedHeld((Live \ X) \ {r})
      /\ PurchasedHeld(Live \ X) = reserved_purchased[r] + PurchasedHeld((Live \ X) \ {r})
  BY <1>1, HeldMember
<1>3. reserved_included[r] \in Nat /\ reserved_purchased[r] \in Nat
  BY <1>1 DEF TypeOK, Live
<1> HIDE DEF Y
<1>4. /\ IncludedReservedWithout(X) = IncludedHeld(Live \ X)
      /\ PurchasedReservedWithout(X) = PurchasedHeld(Live \ X)
      /\ included_reserved = IncludedReservedWithout(X) + IncludedHeld(X)
      /\ purchased_reserved = PurchasedReservedWithout(X) + PurchasedHeld(X)
      /\ IncludedHeld(X) \in Nat /\ PurchasedHeld(X) \in Nat
  BY CounterExpiry
<1>5. IncludedHeld(Live \ Y) \in Nat /\ PurchasedHeld(Live \ Y) \in Nat
  <2>1. /\ IncludedReservedWithout(Y) = IncludedHeld(Live \ Y)
        /\ IncludedReservedWithout(Y) \in Nat
        /\ PurchasedReservedWithout(Y) = PurchasedHeld(Live \ Y)
        /\ PurchasedReservedWithout(Y) \in Nat
    BY <1>1, CounterExpiry
  <2> QED BY <2>1
<1>6. /\ IncludedHeld(Live \ X) = reserved_included[r] + IncludedHeld(Live \ Y)
      /\ PurchasedHeld(Live \ X) = reserved_purchased[r] + PurchasedHeld(Live \ Y)
  BY <1>1, <1>2
<1>7. /\ IncludedReservedWithout(X) - reserved_included[r] = IncludedHeld(Live \ Y)
      /\ PurchasedReservedWithout(X) - reserved_purchased[r] = PurchasedHeld(Live \ Y)
      /\ included_reserved = IncludedHeld(Live \ Y) + reserved_included[r] + IncludedHeld(X)
      /\ purchased_reserved = PurchasedHeld(Live \ Y) + reserved_purchased[r] + PurchasedHeld(X)
  BY <1>3, <1>4, <1>5, <1>6
<1> QED BY <1>3, <1>4, <1>5, <1>7 DEF Y

(* The same for the books, which say what the counters do and more.        *)
LEMMA HoldOfMember ==
  ASSUME Books, NEW X \in SUBSET Live, NEW r \in Live \ X
  PROVE  /\ IncludedReservedWithout(X) - reserved_included[r] = IncludedHeld(Live \ (X \cup {r}))
         /\ PurchasedReservedWithout(X) - reserved_purchased[r] = PurchasedHeld(Live \ (X \cup {r}))
         /\ included_reserved = IncludedHeld(Live \ (X \cup {r})) + reserved_included[r] + IncludedHeld(X)
         /\ purchased_reserved = PurchasedHeld(Live \ (X \cup {r})) + reserved_purchased[r] + PurchasedHeld(X)
         /\ IncludedHeld(X) \in Nat /\ PurchasedHeld(X) \in Nat
         /\ reserved_included[r] \in Nat /\ reserved_purchased[r] \in Nat
         /\ IncludedHeld(Live \ (X \cup {r})) \in Nat
         /\ PurchasedHeld(Live \ (X \cup {r})) \in Nat
BY CounterOfMember DEF Books

(* The counters are still the sums of the live holds when the live          *)
(* reservations become A and the counters the sums over A.                 *)
LEMMA CountersAfter ==
  ASSUME NEW A, Live' = A, UNCHANGED <<reserved_included, reserved_purchased>>,
         included_reserved' = IncludedHeld(A), purchased_reserved' = PurchasedHeld(A)
  PROVE  HoldsMatchReservations'
BY DEF HoldsMatchReservations, IncludedHeld, PurchasedHeld

-----------------------------------------------------------------------------
(* One lemma per operation.                                                *)

(* Committing nothing but the expiry preserves the invariant. *)
LEMMA ReleaseStaleInv ==
  ASSUME Books, ReleaseStaleReservations
  PROVE  Books'
<1> DEFINE X == Stale({})
<1>1. TypeOK /\ X \in SUBSET Live /\ ExpireOnly(X) /\ UNCHANGED holdVars
  BY StaleIsLive DEF Books, ReleaseStaleReservations
<1> HIDE DEF X
<1>2. /\ HoldsOK'
      /\ status' \in [Requests -> Terminal \cup {"none", "reserved"}]
      /\ included_reserved' = included_reserved - IncludedHeld(X)
      /\ included_reserved' <= included_reserved
      /\ purchased_reserved' = purchased_reserved - PurchasedHeld(X)
      /\ purchased_reserved' <= purchased_reserved
      /\ \A l \in Lots : credits_reserved'[l] <= credits_reserved[l]
  BY <1>1, ExpireOnlyHolds
<1>3. NotYetSettled'
  BY <1>1, ExpireOnlyHolds DEF ReleaseStaleReservations, chargeVars
<1>4. IncludedHeld(X) \in Nat /\ PurchasedHeld(X) \in Nat
  BY <1>1, Expiry
<1>5. Post(X, 0, 0, 0, 0)
      /\ UNCHANGED <<monthly_period, monthly_used, purchased_balance, holdVars,
                 chargeVars, credits_granted, credits_remaining,
                 credits_reversed, ledger_keys, limit, aged>>
  BY DEF ReleaseStaleReservations, X
<1>6. LedgerExplainsBalance' /\ posted' \in [included : Int, purchased : Int,
                 included_reserved : Int, purchased_reserved : Int]
  BY <1>1, <1>2, <1>4, <1>5 DEF Books, LedgerExplainsBalance, Post, TypeOK
<1>7. TypeOK'
  BY <1>1, <1>2, <1>5, <1>6 DEF TypeOK, HoldsOK, holdVars, chargeVars
<1>8. HoldsMatchReservations' /\ LotsMatchBalance' /\ AllocationsMatchHold'
  BY <1>2, <1>5 DEF HoldsOK, Books, LotsMatchBalance
<1>9. ReservedIsCovered'
  BY <1>1, <1>2, <1>5, <1>7 DEF Books, ReservedIsCovered, TypeOK
<1>11. IncludedNotOverdrawn'
  BY <1>1, <1>2, <1>5, <1>7, LedgerAssumption DEF Books, IncludedNotOverdrawn, TypeOK
<1>12. UngrantedLotsEmpty'
  BY <1>5 DEF Books, UngrantedLotsEmpty
<1> QED BY <1>3, <1>6, <1>7, <1>8, <1>9, <1>11, <1>12 DEF Books

(* A restart of the allowance, with either key. *)
LEMMA RestartInv ==
  ASSUME Books, NEW key, NEW period \in Periods, RestartIncluded(key, period),
         \A l \in Lots : key # <<"purchase_grant", l>>
  PROVE  Books'
<1> DEFINE X == Stale({})
<1>1. TypeOK /\ X \in SUBSET Live /\ ExpireOnly(X) /\ UNCHANGED holdVars
  BY StaleIsLive DEF Books, RestartIncluded
<1> HIDE DEF X
<1>2. /\ HoldsOK'
      /\ status' \in [Requests -> Terminal \cup {"none", "reserved"}]
      /\ included_reserved' = included_reserved - IncludedHeld(X)
      /\ included_reserved' <= included_reserved
      /\ purchased_reserved' = purchased_reserved - PurchasedHeld(X)
      /\ purchased_reserved' <= purchased_reserved
      /\ \A l \in Lots : credits_reserved'[l] <= credits_reserved[l]
  BY <1>1, ExpireOnlyHolds
<1>3. NotYetSettled'
  BY <1>1, ExpireOnlyHolds DEF RestartIncluded, chargeVars
<1>4. IncludedHeld(X) \in Nat /\ PurchasedHeld(X) \in Nat
  BY <1>1, Expiry
<1>5. /\ Post(X, monthly_used, 0, 0, 0)
      /\ monthly_period' = period /\ monthly_used' = 0
      /\ ledger_keys' = ledger_keys \cup {key}
      /\ UNCHANGED <<purchased_balance, holdVars, chargeVars, credits_granted,
                     credits_remaining, credits_reversed, limit, aged>>
  BY DEF RestartIncluded, X
<1>6. LedgerExplainsBalance' /\ posted' \in [included : Int, purchased : Int,
                 included_reserved : Int, purchased_reserved : Int]
  BY <1>1, <1>2, <1>4, <1>5 DEF Books, LedgerExplainsBalance, Post, TypeOK
<1>7. TypeOK'
  BY <1>1, <1>2, <1>5, <1>6 DEF TypeOK, HoldsOK, holdVars, chargeVars
<1>8. HoldsMatchReservations' /\ LotsMatchBalance' /\ AllocationsMatchHold'
  BY <1>2, <1>5 DEF HoldsOK, Books, LotsMatchBalance
<1>9. ReservedIsCovered'
  BY <1>1, <1>2, <1>5, <1>7 DEF Books, ReservedIsCovered, TypeOK
<1>11. IncludedNotOverdrawn'
  BY <1>1, <1>2, <1>5, <1>7, LedgerAssumption DEF Books, IncludedNotOverdrawn, TypeOK
<1>12. UngrantedLotsEmpty'
  BY <1>5 DEF Books, UngrantedLotsEmpty
<1> QED BY <1>3, <1>6, <1>7, <1>8, <1>9, <1>11, <1>12 DEF Books

(* A grant preserves the invariant. *)
LEMMA AddPurchasedInv ==
  ASSUME Books, NEW l \in Lots, NEW c \in Nat, AddPurchasedCredits(l, c)
  PROVE  Books'
<1> DEFINE X == Stale({})
           grant == <<"purchase_grant", l>>
<1>1. TypeOK /\ X \in SUBSET Live /\ ExpireOnly(X) /\ UNCHANGED holdVars
  BY StaleIsLive DEF Books, AddPurchasedCredits
<1> HIDE DEF X
<1>2. /\ HoldsOK'
      /\ status' \in [Requests -> Terminal \cup {"none", "reserved"}]
      /\ included_reserved' = included_reserved - IncludedHeld(X)
      /\ included_reserved' <= included_reserved
      /\ purchased_reserved' = purchased_reserved - PurchasedHeld(X)
      /\ purchased_reserved' <= purchased_reserved
      /\ \A k \in Lots : credits_reserved'[k] <= credits_reserved[k]
  BY <1>1, ExpireOnlyHolds
<1>3. NotYetSettled'
  BY <1>1, ExpireOnlyHolds DEF AddPurchasedCredits, chargeVars
<1>4. IncludedHeld(X) \in Nat /\ PurchasedHeld(X) \in Nat /\ c \in Nat
  BY <1>1, Expiry
<1>5. /\ Post(X, 0, c, 0, 0)
      /\ grant \notin ledger_keys
      /\ purchased_balance' = purchased_balance + c
      /\ credits_granted' = [credits_granted EXCEPT ![l] = c]
      /\ credits_remaining' = [credits_remaining EXCEPT ![l] = c]
      /\ ledger_keys' = ledger_keys \cup {grant}
      /\ UNCHANGED <<monthly_period, monthly_used, holdVars, chargeVars,
                     credits_reversed, limit, aged>>
  BY DEF AddPurchasedCredits, X, NotPosted
<1>6. LedgerExplainsBalance' /\ posted' \in [included : Int, purchased : Int,
                 included_reserved : Int, purchased_reserved : Int]
  BY <1>1, <1>2, <1>4, <1>5 DEF Books, LedgerExplainsBalance, Post, TypeOK
<1>7. /\ credits_granted' \in [Lots -> Nat] /\ credits_remaining' \in [Lots -> Nat]
      /\ credits_granted[l] = 0 /\ credits_remaining[l] = 0
      /\ credits_granted'[l] = c /\ credits_remaining'[l] = c
  BY <1>1, <1>4, <1>5 DEF TypeOK, Books, UngrantedLotsEmpty
<1>8. TypeOK'
  BY <1>1, <1>2, <1>4, <1>5, <1>6, <1>7 DEF TypeOK, HoldsOK, holdVars, chargeVars
<1>9. /\ Total(credits_granted') = Total(credits_granted) - 0 + c
      /\ Total(credits_remaining') = Total(credits_remaining) - 0 + c
  <2>1. \A k \in Lots \ {l} : /\ credits_granted[k] = credits_granted'[k]
                              /\ credits_remaining[k] = credits_remaining'[k]
    BY <1>1, <1>5 DEF TypeOK
  <2>2. credits_granted \in [Lots -> Nat] /\ credits_remaining \in [Lots -> Nat]
    BY <1>1 DEF TypeOK
  <2>3. Total(credits_granted') = Total(credits_granted) - credits_granted[l] + credits_granted'[l]
    BY <1>7, <2>1, <2>2, FiniteLots, TotalUpdate
  <2>4. Total(credits_remaining') = Total(credits_remaining) - credits_remaining[l] + credits_remaining'[l]
    BY <1>7, <2>1, <2>2, FiniteLots, TotalUpdate
  <2> QED BY <1>7, <2>3, <2>4
<1>10. /\ Total(credits_granted) \in Nat /\ Total(credits_reversed) \in Nat
       /\ Total(settled_purchased) \in Nat /\ purchased_balance \in Nat
  BY <1>1, FiniteLots, LedgerAssumption, TotalType DEF TypeOK
<1>11. HoldsMatchReservations' /\ LotsMatchBalance' /\ AllocationsMatchHold'
  BY <1>2, <1>4, <1>5, <1>9, <1>10 DEF HoldsOK, Books, LotsMatchBalance
<1>12. ReservedIsCovered'
  <2>1. purchased_reserved' <= purchased_balance'
    BY <1>1, <1>2, <1>4, <1>5, <1>8 DEF Books, ReservedIsCovered, TypeOK
  <2>2. ASSUME NEW k \in Lots PROVE credits_reserved'[k] <= credits_remaining'[k]
    <3>1. /\ credits_remaining[k] <= credits_remaining'[k]
          /\ credits_remaining[k] \in Nat /\ credits_remaining'[k] \in Nat
          /\ credits_reserved[k] \in Nat /\ credits_reserved'[k] \in Nat
      BY <1>1, <1>4, <1>5, <1>7, <1>8 DEF TypeOK
    <3> QED BY <1>2, <3>1 DEF Books, ReservedIsCovered
  <2> QED BY <2>1, <2>2 DEF ReservedIsCovered
<1>14. IncludedNotOverdrawn'
  BY <1>1, <1>2, <1>5, <1>8, LedgerAssumption DEF Books, IncludedNotOverdrawn, TypeOK
<1>15. UngrantedLotsEmpty'
  <2> SUFFICES ASSUME NEW k \in Lots, <<"purchase_grant", k>> \notin ledger_keys'
               PROVE  credits_granted'[k] = 0 /\ credits_remaining'[k] = 0
    BY DEF UngrantedLotsEmpty
  <2>1. k # l /\ <<"purchase_grant", k>> \notin ledger_keys
    BY <1>5
  <2> QED BY <1>1, <1>5, <2>1 DEF Books, UngrantedLotsEmpty, TypeOK
<1> QED BY <1>3, <1>6, <1>8, <1>11, <1>12, <1>14, <1>15 DEF Books

(* Taking t credits back from a lot, of those free in it and free in the   *)
(* balance, whatever that does to the lot's count of reversed credits.     *)
LEMMA TakeBackInv ==
  ASSUME Books, NEW l \in Lots, NEW t \in Nat, NEW key, NEW X \in SUBSET Live,
         ExpireOnly(X), Post(X, 0, -t, 0, 0),
         purchased_balance' = purchased_balance - t,
         credits_remaining' = [credits_remaining EXCEPT ![l] = @ - t],
         credits_reversed' \in [Lots -> Nat],
         ledger_keys' = ledger_keys \cup {key},
         UNCHANGED <<monthly_period, monthly_used, holdVars, chargeVars,
                     credits_granted, limit, aged>>,
         t <= credits_remaining[l] - credits_reserved[l],
         t <= purchased_balance - PurchasedReservedWithout(X),
         \A k \in Lots : key # <<"purchase_grant", k>>
  PROVE  Books'
<1>1. TypeOK
  BY DEF Books
<1>2. /\ HoldsOK'
      /\ status' \in [Requests -> Terminal \cup {"none", "reserved"}]
      /\ included_reserved' = included_reserved - IncludedHeld(X)
      /\ included_reserved' <= included_reserved
      /\ purchased_reserved' = purchased_reserved - PurchasedHeld(X)
      /\ purchased_reserved' <= purchased_reserved
      /\ \A k \in Lots : credits_reserved'[k] <= credits_reserved[k]
  BY <1>1, ExpireOnlyHolds
<1>3. NotYetSettled'
  BY <1>1, ExpireOnlyHolds DEF chargeVars
<1>4. IncludedHeld(X) \in Nat /\ PurchasedHeld(X) \in Nat
  BY <1>1, Expiry
<1>e. /\ PurchasedReservedWithout(X) = purchased_reserved'
      /\ purchased_reserved' \in Nat /\ purchased_balance \in Nat
      /\ purchased_reserved' <= purchased_balance
  <2>1. purchased_reserved' = PurchasedReservedWithout(X)
    BY <1>1 DEF ExpireOnly
  <2>2. purchased_reserved' \in Nat
    BY <1>2 DEF HoldsOK
  <2>3. purchased_reserved \in Nat /\ purchased_balance \in Nat
    BY <1>1 DEF TypeOK
  <2>4. purchased_reserved <= purchased_balance
    BY DEF Books, ReservedIsCovered
  <2> QED BY <1>2, <2>1, <2>2, <2>3, <2>4
<1>r. t \in Nat /\ t <= purchased_balance - purchased_reserved'
  BY <1>e
<1>b. purchased_balance' \in Nat /\ purchased_reserved' <= purchased_balance'
  <2>1. purchased_reserved' \in Nat /\ purchased_balance \in Nat /\ t \in Nat
        /\ t <= purchased_balance - purchased_reserved'
    BY <1>e, <1>r
  <2>2. \A a, b, c \in Nat : c <= a - b => a - c \in Nat /\ b <= a - c
    OBVIOUS
  <2> QED BY <2>1, <2>2
<1>6. LedgerExplainsBalance' /\ posted' \in [included : Int, purchased : Int,
                 included_reserved : Int, purchased_reserved : Int]
  BY <1>1, <1>2, <1>4, <1>r DEF Books, LedgerExplainsBalance, Post, TypeOK
<1>7. /\ credits_remaining[l] \in Nat /\ credits_reserved[l] \in Nat
      /\ credits_remaining' \in [Lots -> Nat]
      /\ credits_remaining'[l] = credits_remaining[l] - t
  <2>1. credits_remaining[l] \in Nat /\ credits_reserved[l] \in Nat
    BY <1>1 DEF TypeOK
  <2>2. credits_remaining[l] - t \in Nat
    BY <2>1
  <2> QED BY <1>1, <2>1, <2>2 DEF TypeOK
<1>8. TypeOK'
  BY <1>1, <1>2, <1>6, <1>7, <1>b DEF TypeOK, HoldsOK, holdVars, chargeVars
<1>9. Total(credits_remaining') = Total(credits_remaining) - t
  <2>1. \A k \in Lots \ {l} : credits_remaining[k] = credits_remaining'[k]
    BY <1>1 DEF TypeOK
  <2>2. credits_remaining \in [Lots -> Nat]
    BY <1>1 DEF TypeOK
  <2>3. Total(credits_remaining') = Total(credits_remaining) - credits_remaining[l] + credits_remaining'[l]
    <3>1. credits_remaining' \in [Lots -> Nat]
      BY <1>7
    <3>2. \A f, g \in [Lots -> Nat] :
            (\A x \in Lots \ {l} : f[x] = g[x]) => Total(g) = Total(f) - f[l] + g[l]
      BY FiniteLots, TotalUpdate
    <3> QED BY <2>1, <2>2, <3>1, <3>2
  <2>4. Total(credits_remaining) \in Nat
    BY <2>2, FiniteLots, TotalType
  <2> QED BY <1>7, <2>3, <2>4
<1>10. purchased_balance \in Nat
  BY <1>1 DEF TypeOK
<1>11. HoldsMatchReservations' /\ LotsMatchBalance' /\ AllocationsMatchHold'
  BY <1>2, <1>9, <1>10, <1>r DEF HoldsOK, Books, LotsMatchBalance
<1>12. ReservedIsCovered'
  <2>1. purchased_reserved' <= purchased_balance'
    BY <1>b
  <2>2. ASSUME NEW k \in Lots PROVE credits_reserved'[k] <= credits_remaining'[k]
    <3>0. /\ credits_remaining[k] \in Nat /\ credits_remaining'[k] \in Nat
          /\ credits_reserved[k] \in Nat /\ credits_reserved'[k] \in Nat
          /\ credits_reserved'[k] <= credits_reserved[k]
          /\ credits_reserved[k] <= credits_remaining[k]
      BY <1>1, <1>2, <1>8 DEF TypeOK, Books, ReservedIsCovered
    <3>1. CASE k = l
      BY <1>r, <1>7, <3>0, <3>1
    <3>2. CASE k # l
      <4>1. credits_remaining'[k] = credits_remaining[k]
        BY <1>1, <3>2 DEF TypeOK
      <4> QED BY <3>0, <4>1
    <3> QED BY <3>1, <3>2
  <2> QED BY <2>1, <2>2 DEF ReservedIsCovered
<1>14. IncludedNotOverdrawn'
  BY <1>1, <1>2, <1>8, LedgerAssumption DEF Books, IncludedNotOverdrawn, TypeOK
<1>15. UngrantedLotsEmpty'
  <2> SUFFICES ASSUME NEW k \in Lots, <<"purchase_grant", k>> \notin ledger_keys'
               PROVE  credits_granted'[k] = 0 /\ credits_remaining'[k] = 0
    BY DEF UngrantedLotsEmpty
  <2>1. <<"purchase_grant", k>> \notin ledger_keys
    OBVIOUS
  <2>2. credits_granted[k] = 0 /\ credits_remaining[k] = 0
    BY <2>1 DEF Books, UngrantedLotsEmpty
  <2>3. CASE k = l
    BY <1>7, <1>8, <1>r, <2>2, <2>3 DEF TypeOK
  <2>4. CASE k # l
    BY <1>1, <2>2, <2>4 DEF TypeOK
  <2> QED BY <2>3, <2>4
<1> QED BY <1>3, <1>6, <1>8, <1>11, <1>12, <1>14, <1>15 DEF Books


(* A refund that asks for no more than what is free in its lot. *)
LEMMA ReversePurchasedInv ==
  ASSUME Books, NEW l \in Lots, NEW n \in Nat, NEW key,
         ReversePurchasedCredits(l, n, key),
         n <= credits_remaining[l] - credits_reserved[l],
         \A k \in Lots : key # <<"purchase_grant", k>>
  PROVE  Books'
<1>0. PICK X : X = Stale({})
  OBVIOUS
<1> DEFINE d == PurchasedAvailable(PurchasedReservedWithout(X))
<1>t. PICK t : t = Least(n, d)
  OBVIOUS
<1>1. TypeOK /\ X \in SUBSET Live
  BY <1>0, StaleIsLive DEF Books
<1>2. /\ ExpireOnly(X) /\ Post(X, 0, -t, 0, 0)
      /\ purchased_balance' = purchased_balance - t
      /\ credits_remaining' = [credits_remaining EXCEPT ![l] = @ - t]
      /\ credits_reversed' = [credits_reversed EXCEPT ![l] = @ + t]
      /\ ledger_keys' = ledger_keys \cup {key}
      /\ UNCHANGED <<monthly_period, monthly_used, holdVars, chargeVars,
                     credits_granted, limit, aged>>
  BY <1>0, <1>t DEF ReversePurchasedCredits
<1>3. d \in Nat /\ d = purchased_balance - PurchasedReservedWithout(X)
  <2>1. /\ PurchasedReservedWithout(X) \in Nat /\ PurchasedHeld(X) \in Nat
        /\ purchased_reserved = PurchasedReservedWithout(X) + PurchasedHeld(X)
    BY <1>1, Expiry
  <2>2. purchased_balance \in Nat /\ purchased_reserved <= purchased_balance
    BY <1>1 DEF Books, ReservedIsCovered, TypeOK
  <2> QED BY <2>1, <2>2 DEF PurchasedAvailable, Monus
<1> HIDE DEF d
<1>4. t \in Nat /\ t <= n /\ t <= d
  BY <1>t, <1>3 DEF Least
<1>5. /\ credits_reversed \in [Lots -> Nat]
      /\ credits_remaining[l] \in Nat /\ credits_reserved[l] \in Nat
  BY <1>1 DEF TypeOK
<1>6. credits_reversed' \in [Lots -> Nat]
  BY <1>2, <1>4, <1>5
<1>7. /\ t <= credits_remaining[l] - credits_reserved[l]
      /\ t <= purchased_balance - PurchasedReservedWithout(X)
  BY <1>3, <1>4, <1>5
<1> QED BY <1>1, <1>2, <1>4, <1>6, <1>7, TakeBackInv

(* A release preserves the invariant. *)
LEMMA ReleaseInv ==
  ASSUME Books, NEW r \in Requests, ReleaseReservation(r)
  PROVE  Books'
<1> DEFINE X == Stale({r})
           Y == X \cup {r}
<1>1. TypeOK /\ X \in SUBSET Live /\ r \in Live \ X /\ Y \in SUBSET Live
  BY StaleIsLive DEF Books, ReleaseReservation, Live
<1>5. /\ included_reserved' = IncludedReservedWithout(X) - reserved_included[r]
      /\ purchased_reserved' = PurchasedReservedWithout(X) - reserved_purchased[r]
      /\ credits_reserved' = LotsReservedWithout(Y)
      /\ status' = StatusWith(X, r, "released")
      /\ Post(X, 0, 0, -reserved_included[r], -reserved_purchased[r])
      /\ UNCHANGED <<monthly_period, monthly_used, purchased_balance, holdVars,
                     chargeVars, credits_granted, credits_remaining,
                     credits_reversed, ledger_keys, limit, aged>>
  BY DEF ReleaseReservation, ReleaseTransaction
<1> HIDE DEF X
<1>2. /\ Live' = Live \ Y
      /\ status' \in [Requests -> Terminal \cup {"none", "reserved"}]
      /\ NotYetSettled'
  <2>1. /\ "released" # "reserved" => Live' = Live \ (X \cup {r})
        /\ status' \in [Requests -> Terminal \cup {"none", "reserved"}]
        /\ \A q \in Requests \ {r} :
             status'[q] \in {"none", "reserved"} => status'[q] = status[q]
    BY <1>1, <1>5, LiveWith DEF Terminal
  <2>2. status'[r] = "released"
    BY <1>5 DEF StatusWith
  <2>3. NotYetSettled'
    BY <1>5, <2>1, <2>2 DEF Books, NotYetSettled, chargeVars
  <2> QED BY <2>1, <2>3
<1>3. /\ included_reserved' = IncludedHeld(Live \ Y)
      /\ purchased_reserved' = PurchasedHeld(Live \ Y)
      /\ included_reserved = included_reserved' + reserved_included[r] + IncludedHeld(X)
      /\ purchased_reserved = purchased_reserved' + reserved_purchased[r] + PurchasedHeld(X)
      /\ IncludedHeld(X) \in Nat /\ PurchasedHeld(X) \in Nat
      /\ reserved_included[r] \in Nat /\ reserved_purchased[r] \in Nat
      /\ IncludedHeld(Live \ Y) \in Nat /\ PurchasedHeld(Live \ Y) \in Nat
  BY <1>1, <1>5, HoldOfMember
<1>4. /\ credits_reserved' = [l \in Lots |-> LotHeld(Live \ Y, l)]
      /\ \A l \in Lots : credits_reserved'[l] <= credits_reserved[l]
  BY <1>1, <1>5, Expiry
<1> HIDE DEF Y
<1>h. HoldsOK'
  <2>1. Live \ Y \in SUBSET Live
    OBVIOUS
  <2> QED BY <1>2, <1>3, <1>4, <1>5, <2>1, HoldsAfter
<1>6. LedgerExplainsBalance' /\ posted' \in [included : Int, purchased : Int,
                 included_reserved : Int, purchased_reserved : Int]
  BY <1>1, <1>3, <1>5 DEF Books, LedgerExplainsBalance, Post, TypeOK
<1>7. TypeOK'
  BY <1>1, <1>2, <1>h, <1>5, <1>6 DEF TypeOK, HoldsOK, holdVars, chargeVars
<1>8. HoldsMatchReservations' /\ LotsMatchBalance' /\ AllocationsMatchHold'
  BY <1>h, <1>5 DEF HoldsOK, Books, LotsMatchBalance
<1>9. ReservedIsCovered'
  <2>1. purchased_reserved' <= purchased_balance'
    <3>1. purchased_reserved' <= purchased_reserved /\ purchased_reserved' \in Nat
      BY <1>3
    <3> QED BY <1>1, <1>5, <3>1 DEF Books, ReservedIsCovered, TypeOK
  <2>2. ASSUME NEW l \in Lots PROVE credits_reserved'[l] <= credits_remaining'[l]
    <3>1. credits_reserved'[l] <= credits_reserved[l]
      BY <1>4
    <3>2. /\ credits_reserved'[l] \in Nat /\ credits_reserved[l] \in Nat
          /\ credits_remaining[l] \in Nat /\ credits_remaining'[l] = credits_remaining[l]
      BY <1>1, <1>5, <1>7 DEF TypeOK
    <3>3. credits_reserved[l] <= credits_remaining[l]
      BY DEF Books, ReservedIsCovered
    <3> QED BY <3>1, <3>2, <3>3
  <2> QED BY <2>1, <2>2 DEF ReservedIsCovered
<1>11. IncludedNotOverdrawn'
  <2>1. included_reserved' <= included_reserved /\ included_reserved' \in Nat
    BY <1>3
  <2> QED BY <1>1, <1>5, <2>1, LedgerAssumption DEF Books, IncludedNotOverdrawn, TypeOK
<1>12. UngrantedLotsEmpty'
  BY <1>5 DEF Books, UngrantedLotsEmpty
<1> QED BY <1>2, <1>6, <1>7, <1>8, <1>9, <1>11, <1>12 DEF Books

-----------------------------------------------------------------------------
(* Settlement.                                                             *)

(* Oldest-first over the purchase lots takes no more than a lot offers and *)
(* all that is asked, if the lots offer it. *)
LEMMA LotsOldestFirst ==
  ASSUME NEW n \in Nat, NEW avail \in [Lots -> Nat]
  PROVE  /\ OldestFirst(n, avail) \in [Lots -> Nat]
         /\ \A l \in Lots : OldestFirst(n, avail)[l] <= avail[l]
         /\ Total(OldestFirst(n, avail)) = Least(n, Total(avail))
         /\ Total(avail) \in Nat
<1>1. NumLots \in Nat
  BY LedgerAssumption
<1>2. Total(avail) \in Nat
  BY FiniteLots, TotalType
<1> QED BY <1>1, <1>2, OldestFirstType, OldestFirstTotal DEF Lots

(* What a settlement leaves in the lots. *)
RestOfLots(remaining, alloc, resv, h, f) ==
  LET held == OldestFirst(h, alloc)
      kept == [l \in Lots |-> Monus(remaining[l], held[l])]
      free == OldestFirst(f, [l \in Lots |-> Monus(kept[l], resv[l])])
  IN [l \in Lots |-> kept[l] - free[l]]

(* After a settlement takes h credits from the request's own allocations *)
(* and f free ones, every lot covers its other reservations and the lots *)
(* lost h + f credits. *)
LEMMA SettleLots ==
  ASSUME NEW remaining \in [Lots -> Nat], NEW alloc \in [Lots -> Nat],
         NEW resv \in [Lots -> Nat],
         \A l \in Lots : alloc[l] + resv[l] <= remaining[l],
         NEW h \in Nat, h <= Total(alloc),
         NEW f \in Nat, f <= Total(remaining) - h - Total(resv)
  PROVE  /\ RestOfLots(remaining, alloc, resv, h, f) \in [Lots -> Nat]
         /\ \A l \in Lots : /\ resv[l] <= RestOfLots(remaining, alloc, resv, h, f)[l]
                            /\ RestOfLots(remaining, alloc, resv, h, f)[l] <= remaining[l]
         /\ Total(RestOfLots(remaining, alloc, resv, h, f)) = Total(remaining) - h - f
<1> DEFINE held == OldestFirst(h, alloc)
           kept == [l \in Lots |-> Monus(remaining[l], held[l])]
           avail == [l \in Lots |-> Monus(kept[l], resv[l])]
           free == OldestFirst(f, avail)
           rest == [l \in Lots |-> kept[l] - free[l]]
<1>0. RestOfLots(remaining, alloc, resv, h, f) = rest
  BY DEF RestOfLots
<1>1. Total(remaining) \in Nat /\ Total(alloc) \in Nat /\ Total(resv) \in Nat
  BY LotsOldestFirst
<1>2. held \in [Lots -> Nat] /\ (\A l \in Lots : held[l] <= alloc[l]) /\ Total(held) = h
  <2>1. /\ held \in [Lots -> Nat] /\ (\A l \in Lots : held[l] <= alloc[l])
        /\ Total(held) = Least(h, Total(alloc))
    BY LotsOldestFirst
  <2> QED BY <2>1 DEF Least
<1> HIDE DEF held
<1>3. \A l \in Lots : /\ kept[l] = remaining[l] - held[l] /\ kept[l] \in Nat
                      /\ resv[l] <= kept[l] /\ held[l] <= remaining[l]
                      /\ kept[l] <= remaining[l]
  <2> SUFFICES ASSUME NEW l \in Lots
               PROVE  /\ kept[l] = remaining[l] - held[l] /\ kept[l] \in Nat
                      /\ resv[l] <= kept[l] /\ held[l] <= remaining[l]
                      /\ kept[l] <= remaining[l]
    OBVIOUS
  <2>1. /\ remaining[l] \in Nat /\ held[l] \in Nat /\ alloc[l] \in Nat /\ resv[l] \in Nat
        /\ held[l] <= alloc[l] /\ alloc[l] + resv[l] <= remaining[l]
    BY <1>2
  <2>2. kept[l] = Monus(remaining[l], held[l])
    OBVIOUS
  <2> HIDE DEF kept
  <2> QED BY <2>1, <2>2 DEF Monus
<1>4. kept = [l \in Lots |-> remaining[l] - held[l]] /\ kept \in [Lots -> Nat]
  BY <1>3
<1>5. Total(kept) = Total(remaining) - h
  <2>1. Total([l \in Lots |-> remaining[l] - held[l]]) = Total(remaining) - Total(held)
    BY <1>2, <1>3, FiniteLots, TotalMinus
  <2> QED BY <1>2, <1>4, <2>1
<1> HIDE DEF kept
<1>6. \A l \in Lots : avail[l] = kept[l] - resv[l] /\ avail[l] \in Nat
  <2> SUFFICES ASSUME NEW l \in Lots
               PROVE  avail[l] = kept[l] - resv[l] /\ avail[l] \in Nat
    OBVIOUS
  <2>1. kept[l] \in Nat /\ resv[l] \in Nat /\ resv[l] <= kept[l]
    BY <1>3
  <2> QED BY <2>1 DEF Monus
<1>7. avail = [l \in Lots |-> kept[l] - resv[l]] /\ avail \in [Lots -> Nat]
  BY <1>6
<1>8. Total(avail) = Total(remaining) - h - Total(resv)
  <2>1. Total([l \in Lots |-> kept[l] - resv[l]]) = Total(kept) - Total(resv)
    BY <1>3, <1>4, FiniteLots, TotalMinus
  <2> QED BY <1>5, <1>7, <2>1
<1> HIDE DEF avail
<1>9. free \in [Lots -> Nat] /\ (\A l \in Lots : free[l] <= avail[l]) /\ Total(free) = f
  <2>1. /\ free \in [Lots -> Nat] /\ (\A l \in Lots : free[l] <= avail[l])
        /\ Total(free) = Least(f, Total(avail))
    BY <1>7, LotsOldestFirst
  <2> QED BY <1>8, <2>1 DEF Least
<1> HIDE DEF free
<1>10. \A l \in Lots : /\ rest[l] = kept[l] - free[l] /\ rest[l] \in Nat
                       /\ free[l] <= kept[l]
                       /\ resv[l] <= rest[l] /\ rest[l] <= remaining[l]
  <2> SUFFICES ASSUME NEW l \in Lots
               PROVE  /\ rest[l] = kept[l] - free[l] /\ rest[l] \in Nat
                      /\ free[l] <= kept[l]
                      /\ resv[l] <= rest[l] /\ rest[l] <= remaining[l]
    OBVIOUS
  <2>1. rest[l] = kept[l] - free[l]
    OBVIOUS
  <2>2. /\ kept[l] \in Nat /\ resv[l] \in Nat /\ free[l] \in Nat /\ remaining[l] \in Nat
        /\ free[l] <= avail[l] /\ avail[l] = kept[l] - resv[l] /\ kept[l] <= remaining[l]
    BY <1>3, <1>6, <1>9
  <2> HIDE DEF rest
  <2> QED BY <2>1, <2>2
<1>11. rest \in [Lots -> Nat]
  BY <1>10
<1>12. Total(rest) = Total(remaining) - h - f
  <2>1. \A l \in Lots : free[l] <= kept[l]
    BY <1>10
  <2>2. Total([l \in Lots |-> kept[l] - free[l]]) = Total(kept) - Total(free)
    BY <1>4, <1>9, <2>1, FiniteLots, TotalMinus
  <2> QED BY <1>5, <1>9, <2>2
<1> HIDE DEF rest
<1> QED BY <1>0, <1>10, <1>11, <1>12

(* A charge takes no more than is held or free. *)
LEMMA ChargeBounds ==
  ASSUME TypeOK, NEW r \in Requests, NEW actual \in Nat,
         NEW ir \in Nat, NEW pr \in Nat,
         pr + reserved_purchased[r] <= purchased_balance
  PROVE  LET c == Charge(r, actual, ir, pr)
         IN /\ c.included \in Nat /\ c.purchased \in Nat /\ c.unfunded \in Nat
            /\ c.fromHold \in Nat /\ c.fromFree \in Nat
            /\ c.purchased = c.fromHold + c.fromFree
            /\ c.fromHold <= reserved_purchased[r]
            /\ c.fromFree <= purchased_balance - pr - c.fromHold
            /\ \/ c.included <= reserved_included[r]
               \/ limit # Unlimited /\ monthly_used + ir + c.included <= limit
<1>1. /\ reserved_included[r] \in Nat /\ reserved_purchased[r] \in Nat
      /\ monthly_used \in Nat /\ purchased_balance \in Nat
      /\ limit # Unlimited => limit \in Nat
  BY LedgerAssumption DEF TypeOK
<1>2. CASE limit = Unlimited
  <2>1. PICK c : c = Charge(r, actual, ir, pr)
    OBVIOUS
  <2>2. /\ c.included = 0 /\ c.purchased = 0 /\ c.unfunded = 0
        /\ c.fromHold = 0 /\ c.fromFree = 0
    BY <1>2, <2>1 DEF Charge
  <2>3. 0 <= purchased_balance - pr - 0
    BY <1>1
  <2> QED BY <1>1, <2>1, <2>2, <2>3
<1>3. CASE limit # Unlimited
  <2> DEFINE hi == Least(actual, reserved_included[r])
             hp == Least(actual - hi, reserved_purchased[r])
             extra == actual - hi - hp
             ai == IncludedAvailable(ir + hi)
             ei == Least(extra, ai)
             ap == PurchasedAvailable(pr + hp)
             ep == Least(extra - ei, ap)
  <2>1. hi \in Nat /\ hi <= reserved_included[r] /\ hi <= actual
    BY <1>1 DEF Least
  <2>2. hp \in Nat /\ hp <= reserved_purchased[r] /\ hp <= actual - hi
    <3> HIDE DEF hi
    <3> QED BY <1>1, <2>1 DEF Least
  <2>3. extra \in Nat
    <3> HIDE DEF hi, hp
    <3> QED BY <2>1, <2>2
  <2>4. ai \in Nat /\ (ai = 0 \/ monthly_used + ir + hi + ai <= limit)
    <3> HIDE DEF hi
    <3> QED BY <1>1, <1>3, <2>1 DEF IncludedAvailable, Monus
  <2>5. ei \in Nat /\ ei <= ai /\ ei <= extra
    <3> HIDE DEF extra, ai
    <3> QED BY <2>3, <2>4 DEF Least
  <2>6. ap \in Nat /\ ap = purchased_balance - pr - hp
    <3> HIDE DEF hp
    <3> QED BY <1>1, <2>2 DEF PurchasedAvailable, Monus
  <2>7. ep \in Nat /\ ep <= ap /\ ep <= extra - ei
    <3> HIDE DEF extra, ei, ap
    <3> QED BY <2>3, <2>5, <2>6 DEF Least
  <2>8. Charge(r, actual, ir, pr) =
          [included |-> hi + ei, purchased |-> hp + ep, fromHold |-> hp, fromFree |-> ep,
           unfunded |-> extra - ei - ep]
    BY <1>3 DEF Charge
  <2> HIDE DEF hi, hp, extra, ai, ei, ap, ep
  <2>9. /\ hi + ei \in Nat /\ hp + ep \in Nat /\ extra - ei - ep \in Nat
        /\ ep <= purchased_balance - pr - hp
        /\ hi + ei <= reserved_included[r] \/ monthly_used + ir + (hi + ei) <= limit
    BY <1>1, <1>3, <2>1, <2>2, <2>3, <2>4, <2>5, <2>6, <2>7
  <2> QED BY <1>3, <2>2, <2>7, <2>8, <2>9
<1> QED BY <1>2, <1>3

(* A settlement preserves the invariant. *)
LEMMA SettleInv ==
  ASSUME Books, NEW r \in Requests, NEW actual \in Nat, SettleReservation(r, actual)
  PROVE  Books'
<1> DEFINE X == Stale({r})
           Y == X \cup {r}
           ir == IncludedReservedWithout(X) - reserved_included[r]
           pr == PurchasedReservedWithout(X) - reserved_purchased[r]
           c == Charge(r, actual, ir, pr)
           resv == LotsReservedWithout(Y)
           rest == RestOfLots(credits_remaining, purchase_allocations[r], resv,
                              c.fromHold, c.fromFree)
           after == SettledStatus(actual, c.unfunded)
<1>1. TypeOK /\ X \in SUBSET Live /\ r \in Live \ X /\ Y \in SUBSET Live
      /\ status[r] = "reserved"
  BY StaleIsLive DEF Books, SettleReservation, Live
<1>5. /\ included_reserved' = ir /\ purchased_reserved' = pr
      /\ monthly_used' = monthly_used + c.included
      /\ purchased_balance' = purchased_balance - c.purchased
      /\ credits_reserved' = resv
      /\ credits_remaining' = rest
      /\ status' = StatusWith(X, r, after)
      /\ settled_included' = [settled_included EXCEPT ![r] = c.included]
      /\ settled_purchased' = [settled_purchased EXCEPT ![r] = c.purchased]
      /\ unfunded_credits' = [unfunded_credits EXCEPT ![r] = c.unfunded]
      /\ Post(X, -c.included, -c.purchased, -reserved_included[r], -reserved_purchased[r])
      /\ UNCHANGED <<monthly_period, holdVars, credits_granted, credits_reversed,
                     ledger_keys, limit, aged>>
  BY DEF SettleReservation, SettleTransaction, RestOfLots
<1> HIDE DEF X
<1>3. /\ ir = IncludedHeld(Live \ Y) /\ pr = PurchasedHeld(Live \ Y)
      /\ included_reserved = ir + reserved_included[r] + IncludedHeld(X)
      /\ purchased_reserved = pr + reserved_purchased[r] + PurchasedHeld(X)
      /\ IncludedHeld(X) \in Nat /\ PurchasedHeld(X) \in Nat
      /\ reserved_included[r] \in Nat /\ reserved_purchased[r] \in Nat
      /\ ir \in Nat /\ pr \in Nat
  BY <1>1, HoldOfMember
<1>4. /\ resv = [l \in Lots |-> LotHeld(Live \ Y, l)]
      /\ resv \in [Lots -> Nat]
      /\ Total(resv) = pr
  <2>1. /\ resv = [l \in Lots |-> LotHeld(Live \ Y, l)]
        /\ resv \in [Lots -> Nat]
        /\ Total(resv) = PurchasedReservedWithout(Y)
        /\ PurchasedReservedWithout(Y) = PurchasedHeld(Live \ Y)
    BY <1>1, Expiry
  <2> QED BY <1>3, <2>1
<1> HIDE DEF ir, pr, resv
<1>n. /\ monthly_used \in Nat /\ purchased_balance \in Nat /\ included_reserved \in Nat
      /\ purchased_reserved \in Nat /\ purchased_reserved <= purchased_balance
      /\ Total(credits_remaining) = purchased_balance
      /\ credits_remaining \in [Lots -> Nat]
      /\ purchase_allocations[r] \in [Lots -> Nat]
      /\ Total(purchase_allocations[r]) = reserved_purchased[r]
  BY <1>1 DEF Books, TypeOK, ReservedIsCovered, LotsMatchBalance, AllocationsMatchHold
<1>c. /\ c.included \in Nat /\ c.purchased \in Nat /\ c.unfunded \in Nat
      /\ c.fromHold \in Nat /\ c.fromFree \in Nat
      /\ c.purchased = c.fromHold + c.fromFree
      /\ c.fromHold <= reserved_purchased[r]
      /\ c.fromFree <= purchased_balance - pr - c.fromHold
      /\ \/ c.included <= reserved_included[r]
         \/ limit # Unlimited /\ monthly_used + ir + c.included <= limit
  <2>1. pr + reserved_purchased[r] <= purchased_balance
    BY <1>3, <1>n
  <2> QED BY <1>1, <1>3, <2>1, ChargeBounds
<1> HIDE DEF c
<1>l. ASSUME NEW l \in Lots
      PROVE  /\ purchase_allocations[r][l] + resv[l] <= credits_remaining[l]
             /\ resv[l] <= credits_reserved[l]
  <2>1. /\ LotsReservedWithout(X) = [k \in Lots |-> LotHeld(Live \ X, k)]
        /\ LotsReservedWithout(X)[l] <= credits_reserved[l]
        /\ LotsReservedWithout(X) \in [Lots -> Nat]
    BY <1>1, Expiry
  <2>2. LotHeld(Live \ X, l) = purchase_allocations[r][l] + LotHeld((Live \ X) \ {r}, l)
    BY <1>1, HeldMember DEF Live
  <2>3. (Live \ X) \ {r} = Live \ Y
    OBVIOUS
  <2>4. resv[l] = LotHeld(Live \ Y, l) /\ resv[l] \in Nat
    BY <1>4
  <2>5. LotsReservedWithout(X)[l] = purchase_allocations[r][l] + resv[l]
    BY <2>1, <2>2, <2>3, <2>4
  <2>6. /\ credits_reserved[l] <= credits_remaining[l] /\ purchase_allocations[r][l] \in Nat
        /\ credits_reserved[l] \in Nat /\ credits_remaining[l] \in Nat
    BY <1>1, <1>n DEF Books, ReservedIsCovered, TypeOK
  <2> QED BY <2>1, <2>4, <2>5, <2>6
<1>s. /\ rest \in [Lots -> Nat]
      /\ \A l \in Lots : resv[l] <= rest[l] /\ rest[l] <= credits_remaining[l]
      /\ Total(rest) = purchased_balance - c.purchased
  <2> DEFINE alloc == purchase_allocations[r]
             h == c.fromHold
             f == c.fromFree
  <2>1. alloc \in [Lots -> Nat] /\ credits_remaining \in [Lots -> Nat]
        /\ resv \in [Lots -> Nat]
    BY <1>4, <1>n
  <2>2. \A l \in Lots : alloc[l] + resv[l] <= credits_remaining[l]
    BY <1>l
  <2>3. /\ h \in Nat /\ h <= Total(alloc)
        /\ f \in Nat /\ f <= Total(credits_remaining) - h - Total(resv)
    BY <1>3, <1>4, <1>c, <1>n
  <2>r. rest = RestOfLots(credits_remaining, alloc, resv, h, f)
    OBVIOUS
  <2> HIDE DEF alloc, h, f, rest
  <2>4. /\ rest \in [Lots -> Nat]
        /\ \A l \in Lots : resv[l] <= rest[l] /\ rest[l] <= credits_remaining[l]
        /\ Total(rest) = Total(credits_remaining) - h - f
    BY <2>1, <2>2, <2>3, <2>r, SettleLots
  <2>5. Total(rest) = purchased_balance - c.fromHold - c.fromFree
    BY <1>n, <2>4 DEF h, f
  <2> QED BY <1>c, <1>n, <2>4, <2>5
<1> HIDE DEF rest
<1>2. /\ Live' = Live \ Y
      /\ status' \in [Requests -> Terminal \cup {"none", "reserved"}]
      /\ NotYetSettled'
  <2>0. after \in Terminal /\ after \notin {"none", "reserved"}
    BY DEF SettledStatus, Terminal
  <2> HIDE DEF after
  <2>1. /\ Live' = Live \ (X \cup {r})
        /\ status' \in [Requests -> Terminal \cup {"none", "reserved"}]
        /\ \A q \in Requests \ {r} :
             status'[q] \in {"none", "reserved"} => status'[q] = status[q]
    BY <1>1, <1>5, <2>0, LiveWith
  <2>2. status'[r] = after
    BY <1>5 DEF StatusWith
  <2>3. NotYetSettled'
    BY <1>1, <1>5, <2>0, <2>1, <2>2 DEF Books, NotYetSettled, TypeOK
  <2> QED BY <2>1, <2>3
<1> HIDE DEF after
<1>h. HoldsOK'
  <2>1. Live \ Y \in SUBSET Live
    OBVIOUS
  <2>2. /\ included_reserved' = IncludedHeld(Live \ Y)
        /\ purchased_reserved' = PurchasedHeld(Live \ Y)
        /\ credits_reserved' = [l \in Lots |-> LotHeld(Live \ Y, l)]
        /\ UNCHANGED holdVars
    BY <1>3, <1>4, <1>5
  <2> HIDE DEF Y
  <2> QED BY <1>2, <2>1, <2>2, HoldsAfter
<1>6. LedgerExplainsBalance' /\ posted' \in [included : Int, purchased : Int,
                 included_reserved : Int, purchased_reserved : Int]
  <2>1. /\ posted'.included = posted.included + (-c.included)
        /\ posted'.purchased = posted.purchased + (-c.purchased)
        /\ posted'.included_reserved
             = posted.included_reserved - IncludedHeld(X) + (-reserved_included[r])
        /\ posted'.purchased_reserved
             = posted.purchased_reserved - PurchasedHeld(X) + (-reserved_purchased[r])
        /\ posted' = [included |-> posted'.included, purchased |-> posted'.purchased,
                      included_reserved |-> posted'.included_reserved,
                      purchased_reserved |-> posted'.purchased_reserved]
    BY <1>5 DEF Post
  <2>2. /\ posted.included + monthly_used = 0 /\ posted.purchased = purchased_balance
        /\ posted.included_reserved = included_reserved
        /\ posted.purchased_reserved = purchased_reserved
    BY DEF Books, LedgerExplainsBalance
  <2>3. /\ posted'.included + monthly_used' = 0 /\ posted'.included \in Int
        /\ posted'.purchased = purchased_balance' /\ posted'.purchased \in Int
    <3>1. posted.included \in Int
      BY <1>1 DEF TypeOK
    <3>2. monthly_used' = monthly_used + c.included /\ purchased_balance' = purchased_balance - c.purchased
      BY <1>5
    <3> QED BY <1>c, <1>n, <2>1, <2>2, <3>1, <3>2
  <2>4. /\ posted'.included_reserved = included_reserved' /\ posted'.included_reserved \in Int
        /\ posted'.purchased_reserved = purchased_reserved' /\ posted'.purchased_reserved \in Int
    BY <1>3, <1>5, <1>n, <2>1, <2>2
  <2> QED BY <2>1, <2>3, <2>4 DEF LedgerExplainsBalance
<1>b. /\ purchased_balance' \in Nat /\ purchased_reserved' <= purchased_balance'
      /\ monthly_used' \in Nat
      /\ Total(credits_remaining') = purchased_balance'
  <2>1. Total(rest) \in Nat
    BY <1>s, FiniteLots, TotalType
  <2> QED BY <1>3, <1>5, <1>c, <1>n, <1>s, <2>1
<1>7. TypeOK'
  <2>1. /\ settled_included' \in [Requests -> Nat] /\ settled_purchased' \in [Requests -> Nat]
        /\ unfunded_credits' \in [Requests -> Nat]
    BY <1>1, <1>5, <1>c DEF TypeOK
  <2> QED BY <1>1, <1>2, <1>5, <1>6, <1>b, <1>h, <1>s, <2>1 DEF TypeOK, HoldsOK, holdVars
<1>8. HoldsMatchReservations' /\ LotsMatchBalance' /\ AllocationsMatchHold'
  BY <1>b, <1>h DEF HoldsOK, LotsMatchBalance
<1>9. ReservedIsCovered'
  BY <1>5, <1>b, <1>s DEF ReservedIsCovered
<1>11. IncludedNotOverdrawn'
  <2>1. PICK n \in (Limits \ {Unlimited}) \cup {0} : monthly_used + included_reserved <= n
    BY DEF Books, IncludedNotOverdrawn
  <2>2. n \in Nat /\ (limit # Unlimited => limit \in Nat)
    BY <1>1, LedgerAssumption DEF TypeOK
  <2>3. CASE c.included <= reserved_included[r]
    <3>1. monthly_used' + included_reserved' <= n
      BY <1>3, <1>5, <1>c, <1>n, <2>1, <2>2, <2>3
    <3> QED BY <1>5, <3>1 DEF IncludedNotOverdrawn
  <2>4. CASE limit # Unlimited /\ monthly_used + ir + c.included <= limit
    <3>1. monthly_used' + included_reserved' <= limit
      BY <1>3, <1>5, <1>c, <1>n, <2>2, <2>4
    <3>2. limit \in Limits \ {Unlimited}
      BY <1>1, <2>4 DEF TypeOK
    <3> QED BY <3>1, <3>2 DEF IncludedNotOverdrawn
  <2> QED BY <1>c, <2>3, <2>4
<1>12. UngrantedLotsEmpty'
  <2> SUFFICES ASSUME NEW l \in Lots, <<"purchase_grant", l>> \notin ledger_keys'
               PROVE  credits_granted'[l] = 0 /\ credits_remaining'[l] = 0
    BY DEF UngrantedLotsEmpty
  <2>1. credits_granted[l] = 0 /\ credits_remaining[l] = 0
    BY <1>5 DEF Books, UngrantedLotsEmpty
  <2>2. rest[l] \in Nat /\ rest[l] <= credits_remaining[l]
    BY <1>s
  <2> QED BY <1>5, <2>1, <2>2
<1> QED BY <1>2, <1>6, <1>7, <1>8, <1>9, <1>11, <1>12 DEF Books

-----------------------------------------------------------------------------
(* Claim.                                                                  *)

(* Adding a holder to a part adds what it holds. *)
LEMMA PartInsert ==
  ASSUME NEW S, IsFiniteSet(S), NEW f \in [S -> Nat], NEW g \in [S -> Nat],
         NEW A \in SUBSET S, NEW r \in S \ A, \A x \in A : g[x] = f[x]
  PROVE  Part(g, A \cup {r}) = g[r] + Part(f, A)
<1> DEFINE B == A \cup {r}
<1>1. B \in SUBSET S /\ r \in B /\ B \ {r} = A
  OBVIOUS
<1> HIDE DEF B
<1>2. Part(g, B) = g[r] + Part(g, B \ {r})
  BY <1>1, PartMember
<1>3. [x \in A |-> g[x]] = [x \in A |-> f[x]]
  OBVIOUS
<1>4. Part(g, A) = Part(f, A)
  BY <1>3 DEF Part
<1> QED BY <1>1, <1>2, <1>4 DEF B

(* A claim holds no more than is available. *)
LEMMA HoldBounds ==
  ASSUME TypeOK, NEW X, NEW estimate \in Nat, NEW sponsored \in BOOLEAN,
         IncludedReservedWithout(X) \in Nat, PurchasedReservedWithout(X) \in Nat,
         PurchasedReservedWithout(X) <= purchased_balance,
         CanHold(X, estimate, sponsored)
  PROVE  LET h == Hold(X, estimate, sponsored)
         IN /\ h.included \in Nat /\ h.purchased \in Nat
            /\ h.purchased <= purchased_balance - PurchasedReservedWithout(X)
            /\ \/ h.included = 0
               \/ /\ limit # Unlimited
                  /\ monthly_used + IncludedReservedWithout(X) + h.included <= limit
<1>1. /\ monthly_used \in Nat /\ purchased_balance \in Nat
      /\ limit # Unlimited => limit \in Nat
  BY LedgerAssumption DEF TypeOK
<1>2. CASE limit = Unlimited \/ sponsored
  BY <1>1, <1>2 DEF Hold
<1>3. CASE ~ (limit = Unlimited \/ sponsored)
  <2> DEFINE ir == IncludedReservedWithout(X)
             pr == PurchasedReservedWithout(X)
             ia == IncludedAvailable(ir)
             pa == PurchasedAvailable(pr)
             inc == Least(estimate, ia)
  <2>0. ir \in Nat /\ pr \in Nat /\ pr <= purchased_balance
    OBVIOUS
  <2> HIDE DEF ir, pr
  <2>1. ia \in Nat /\ (ia = 0 \/ monthly_used + ir + ia <= limit)
    BY <1>1, <1>3, <2>0 DEF IncludedAvailable, Monus
  <2>2. pa \in Nat /\ pa = purchased_balance - pr
    BY <1>1, <2>0 DEF PurchasedAvailable, Monus
  <2>3. estimate <= ia + pa
    BY <1>3 DEF CanHold, ir, pr
  <2>4. Hold(X, estimate, sponsored) = [included |-> inc, purchased |-> estimate - inc]
    BY <1>3 DEF Hold, ir
  <2> HIDE DEF ia, pa
  <2>5. inc \in Nat /\ inc <= ia /\ inc <= estimate /\ (inc = estimate \/ inc = ia)
    BY <2>1 DEF Least
  <2> HIDE DEF inc
  <2>6. /\ estimate - inc \in Nat /\ estimate - inc <= purchased_balance - pr
        /\ inc = 0 \/ monthly_used + ir + inc <= limit
    BY <1>1, <1>3, <2>0, <2>1, <2>2, <2>3, <2>5
  <2> QED BY <1>3, <2>4, <2>5, <2>6 DEF ir, pr
<1> QED BY <1>2, <1>3

(* A claim keeps the counters the sums of the live holds. *)
LEMMA ClaimCounters ==
  ASSUME Counters, NEW r \in Requests, NEW estimate \in Nat, NEW sponsored \in BOOLEAN,
         ClaimCreditReservation(r, estimate, sponsored)
  PROVE  HoldsMatchReservations'
<1>0. PICK X : X = Stale({})
  OBVIOUS
<1> DEFINE hold == Hold(X, estimate, sponsored)
           A == Live \ X
<1>1. TypeOK /\ X \in SUBSET Live /\ r \notin Live /\ A \in SUBSET Requests
      /\ CanHold(X, estimate, sponsored)
  BY <1>0, StaleIsLive DEF Counters, ClaimCreditReservation, Live
<1>2. /\ included_reserved' = IncludedReservedWithout(X) + hold.included
      /\ purchased_reserved' = PurchasedReservedWithout(X) + hold.purchased
      /\ status' = StatusWith(X, r, "reserved")
      /\ reserved_included' = [reserved_included EXCEPT ![r] = hold.included]
      /\ reserved_purchased' = [reserved_purchased EXCEPT ![r] = hold.purchased]
  BY <1>0 DEF ClaimCreditReservation
<1>3. /\ IncludedReservedWithout(X) = IncludedHeld(A) /\ IncludedReservedWithout(X) \in Nat
      /\ PurchasedReservedWithout(X) = PurchasedHeld(A) /\ PurchasedReservedWithout(X) \in Nat
      /\ purchased_reserved = PurchasedReservedWithout(X) + PurchasedHeld(X)
      /\ PurchasedHeld(X) \in Nat
  BY <1>1, CounterExpiry DEF Counters
<1>4. PurchasedReservedWithout(X) <= purchased_balance
  <2>1. purchased_balance \in Nat /\ purchased_reserved <= purchased_balance
    BY DEF Counters, TypeOK
  <2> QED BY <1>3, <2>1
<1>5. hold.included \in Nat /\ hold.purchased \in Nat
  BY <1>1, <1>3, <1>4, HoldBounds
<1> HIDE DEF hold
<1>6. Live' = A \cup {r}
  BY <1>1, <1>2, LiveWith
<1>7. /\ reserved_included \in [Requests -> Nat] /\ reserved_included' \in [Requests -> Nat]
      /\ reserved_purchased \in [Requests -> Nat] /\ reserved_purchased' \in [Requests -> Nat]
      /\ reserved_included'[r] = hold.included /\ reserved_purchased'[r] = hold.purchased
      /\ \A q \in A : /\ reserved_included'[q] = reserved_included[q]
                      /\ reserved_purchased'[q] = reserved_purchased[q]
      /\ r \in Requests \ A
  BY <1>1, <1>2, <1>5 DEF TypeOK
<1>a. A \in SUBSET Requests /\ IsFiniteSet(Requests)
  BY <1>1, LedgerAssumption
<1> HIDE DEF A
<1>8. /\ Part(reserved_included', A \cup {r}) = hold.included + Part(reserved_included, A)
      /\ Part(reserved_purchased', A \cup {r}) = hold.purchased + Part(reserved_purchased, A)
  BY <1>7, <1>a, PartInsert
<1>9. /\ IncludedHeld(A) = Part(reserved_included, A)
      /\ PurchasedHeld(A) = Part(reserved_purchased, A)
      /\ IncludedHeld(Live)' = Part(reserved_included', A \cup {r})
      /\ PurchasedHeld(Live)' = Part(reserved_purchased', A \cup {r})
  BY <1>6, <1>a, HeldIsPart DEF IncludedHeld, PurchasedHeld, Part
<1>10. /\ included_reserved' = hold.included + Part(reserved_included, A)
       /\ purchased_reserved' = hold.purchased + Part(reserved_purchased, A)
  BY <1>2, <1>3, <1>5, <1>9
<1> QED BY <1>8, <1>9, <1>10 DEF HoldsMatchReservations

(* A claim preserves the invariant. *)
LEMMA ClaimInv ==
  ASSUME Books, NEW r \in Requests, NEW estimate \in Nat, NEW sponsored \in BOOLEAN,
         ClaimCreditReservation(r, estimate, sponsored)
  PROVE  Books'
<1> DEFINE X == Stale({})
           hold == Hold(X, estimate, sponsored)
           resv == LotsReservedWithout(X)
           free == [l \in Lots |-> Monus(credits_remaining[l], resv[l])]
           take == OldestFirst(hold.purchased, free)
           A == Live \ X
<1>1. TypeOK /\ X \in SUBSET Live /\ r \notin Live /\ A \in SUBSET Requests
      /\ status[r] = "none" /\ CanHold(X, estimate, sponsored)
  BY StaleIsLive DEF Books, ClaimCreditReservation, Live
<1>5. /\ included_reserved' = IncludedReservedWithout(X) + hold.included
      /\ purchased_reserved' = PurchasedReservedWithout(X) + hold.purchased
      /\ credits_reserved' = [l \in Lots |-> resv[l] + take[l]]
      /\ status' = StatusWith(X, r, "reserved")
      /\ reserved_included' = [reserved_included EXCEPT ![r] = hold.included]
      /\ reserved_purchased' = [reserved_purchased EXCEPT ![r] = hold.purchased]
      /\ purchase_allocations' = [purchase_allocations EXCEPT ![r] = take]
      /\ Post(X, 0, 0, hold.included, hold.purchased)
      /\ UNCHANGED <<monthly_period, monthly_used, purchased_balance, chargeVars,
                     credits_granted, credits_remaining, credits_reversed,
                     ledger_keys, limit, aged>>
  BY DEF ClaimCreditReservation
<1> HIDE DEF X
<1>n. /\ monthly_used \in Nat /\ purchased_balance \in Nat /\ included_reserved \in Nat
      /\ purchased_reserved \in Nat /\ purchased_reserved <= purchased_balance
      /\ Total(credits_remaining) = purchased_balance
      /\ credits_remaining \in [Lots -> Nat] /\ credits_reserved \in [Lots -> Nat]
      /\ \A l \in Lots : credits_reserved[l] <= credits_remaining[l]
  BY <1>1 DEF Books, TypeOK, ReservedIsCovered, LotsMatchBalance
<1>3. /\ IncludedReservedWithout(X) = IncludedHeld(A)
      /\ included_reserved = IncludedReservedWithout(X) + IncludedHeld(X)
      /\ IncludedReservedWithout(X) \in Nat /\ IncludedHeld(X) \in Nat
      /\ PurchasedReservedWithout(X) = PurchasedHeld(A)
      /\ purchased_reserved = PurchasedReservedWithout(X) + PurchasedHeld(X)
      /\ PurchasedReservedWithout(X) \in Nat /\ PurchasedHeld(X) \in Nat
      /\ resv = [l \in Lots |-> LotHeld(A, l)]
      /\ resv \in [Lots -> Nat]
      /\ \A l \in Lots : resv[l] <= credits_reserved[l]
      /\ Total(resv) = PurchasedReservedWithout(X)
  BY <1>1, Expiry
<1>b. PurchasedReservedWithout(X) <= purchased_balance
  BY <1>3, <1>n
<1>h. /\ hold.included \in Nat /\ hold.purchased \in Nat
      /\ hold.purchased <= purchased_balance - PurchasedReservedWithout(X)
      /\ \/ hold.included = 0
         \/ /\ limit # Unlimited
            /\ monthly_used + IncludedReservedWithout(X) + hold.included <= limit
  BY <1>1, <1>3, <1>b, HoldBounds
<1> HIDE DEF hold, resv
<1>f. /\ free = [l \in Lots |-> credits_remaining[l] - resv[l]]
      /\ free \in [Lots -> Nat]
      /\ \A l \in Lots : resv[l] <= credits_remaining[l] /\ free[l] = credits_remaining[l] - resv[l]
  <2>1. ASSUME NEW l \in Lots
        PROVE  /\ Monus(credits_remaining[l], resv[l]) = credits_remaining[l] - resv[l]
               /\ Monus(credits_remaining[l], resv[l]) \in Nat
               /\ resv[l] <= credits_remaining[l]
    <3>1. /\ credits_remaining[l] \in Nat /\ resv[l] \in Nat /\ credits_reserved[l] \in Nat
          /\ resv[l] <= credits_reserved[l] /\ credits_reserved[l] <= credits_remaining[l]
      BY <1>3, <1>n
    <3> QED BY <3>1 DEF Monus
  <2> QED BY <2>1
<1>g. Total(free) = purchased_balance - PurchasedReservedWithout(X)
  <2>1. Total([l \in Lots |-> credits_remaining[l] - resv[l]])
          = Total(credits_remaining) - Total(resv)
    <3>1. /\ credits_remaining \in [Lots -> Nat] /\ resv \in [Lots -> Nat]
          /\ \A l \in Lots : resv[l] <= credits_remaining[l]
      BY <1>3, <1>f, <1>n
    <3> QED BY <3>1, FiniteLots, TotalMinus
  <2> QED BY <1>3, <1>f, <1>n, <2>1
<1> HIDE DEF free
<1>t. /\ take \in [Lots -> Nat] /\ (\A l \in Lots : take[l] <= free[l])
      /\ Total(take) = hold.purchased
  <2> DEFINE n == hold.purchased
  <2>1. n \in Nat
    BY <1>h
  <2> HIDE DEF n
  <2>2. /\ OldestFirst(n, free) \in [Lots -> Nat]
        /\ \A l \in Lots : OldestFirst(n, free)[l] <= free[l]
        /\ Total(OldestFirst(n, free)) = Least(n, Total(free))
    BY <1>f, <2>1, LotsOldestFirst
  <2> QED BY <1>g, <1>h, <2>2 DEF Least, n
<1> HIDE DEF take
<1>2. /\ Live' = A \cup {r}
      /\ status' \in [Requests -> Terminal \cup {"none", "reserved"}]
      /\ NotYetSettled'
  <2>1. /\ Live' = (Live \ X) \cup {r}
        /\ status' \in [Requests -> Terminal \cup {"none", "reserved"}]
        /\ \A q \in Requests \ {r} :
             status'[q] \in {"none", "reserved"} => status'[q] = status[q]
    BY <1>1, <1>5, LiveWith
  <2>2. NotYetSettled'
    BY <1>1, <1>5, <2>1 DEF Books, NotYetSettled, chargeVars
  <2> QED BY <2>1, <2>2
<1>u. /\ reserved_included' \in [Requests -> Nat]
      /\ reserved_purchased' \in [Requests -> Nat]
      /\ purchase_allocations' \in [Requests -> [Lots -> Nat]]
      /\ reserved_included'[r] = hold.included /\ reserved_purchased'[r] = hold.purchased
      /\ purchase_allocations'[r] = take
      /\ \A q \in Requests \ {r} : /\ reserved_included'[q] = reserved_included[q]
                                   /\ reserved_purchased'[q] = reserved_purchased[q]
                                   /\ purchase_allocations'[q] = purchase_allocations[q]
  BY <1>1, <1>5, <1>h, <1>t DEF TypeOK
<1>r. r \in Requests \ A /\ A \in SUBSET Requests /\ \A q \in A : q \in Requests \ {r}
  BY <1>1
<1> HIDE DEF A
<1>8. HoldsMatchReservations'
  BY ClaimCounters DEF Books, Counters, ReservedIsCovered
<1>9. ASSUME NEW l \in Lots PROVE credits_reserved'[l] = LotHeld(Live, l)'
  <2> DEFINE f == [q \in Requests |-> purchase_allocations[q][l]]
             g == [q \in Requests |-> purchase_allocations'[q][l]]
  <2>1. /\ f \in [Requests -> Nat] /\ g \in [Requests -> Nat]
        /\ \A q \in A : g[q] = f[q]
        /\ g[r] = take[l] /\ take[l] \in Nat
    BY <1>1, <1>r, <1>t, <1>u DEF TypeOK
  <2>2. [q \in A |-> f[q]] = [q \in A |-> purchase_allocations[q][l]]
        /\ [q \in A \cup {r} |-> g[q]] = [q \in A \cup {r} |-> purchase_allocations'[q][l]]
    BY <1>r
  <2> HIDE DEF f, g
  <2>3. Part(g, A \cup {r}) = take[l] + Part(f, A)
    BY <1>r, <2>1, LedgerAssumption, PartInsert
  <2>4. LotHeld(A, l) = Part(f, A)
    BY <2>2 DEF LotHeld, Part
  <2>5. LotHeld(Live, l)' = Part(g, A \cup {r})
    BY <1>2, <2>2 DEF LotHeld, Part
  <2>6. resv[l] = LotHeld(A, l) /\ resv[l] \in Nat
    BY <1>3
  <2>7. credits_reserved'[l] = resv[l] + take[l]
    BY <1>5
  <2> QED BY <2>1, <2>3, <2>4, <2>5, <2>6, <2>7
<1>10. /\ credits_reserved' \in [Lots -> Nat]
       /\ Total(credits_reserved') = purchased_reserved'
  <2>1. \A l \in Lots : resv[l] \in Nat /\ take[l] \in Nat
    BY <1>3, <1>t
  <2>2. credits_reserved' \in [Lots -> Nat]
    BY <1>5, <2>1
  <2>3. resv \in [Lots -> Nat] /\ take \in [Lots -> Nat]
    BY <1>3, <1>t
  <2>4. Total([l \in Lots |-> resv[l] + take[l]]) = Total(resv) + Total(take)
    BY <2>3, FiniteLots, TotalAdd
  <2> QED BY <1>3, <1>5, <1>t, <2>2, <2>4
<1>11. LotsMatchBalance'
  BY <1>5, <1>9, <1>10, <1>n DEF LotsMatchBalance
<1>12. AllocationsMatchHold'
  <2> SUFFICES ASSUME NEW q \in Live'
               PROVE  Total(purchase_allocations'[q]) = reserved_purchased'[q]
    BY DEF AllocationsMatchHold
  <2>1. CASE q = r
    BY <1>t, <1>u, <2>1
  <2>2. CASE q # r
    <3>1. q \in A /\ q \in Live
      BY <1>2, <2>2 DEF A
    <3> QED BY <1>r, <1>u, <3>1 DEF Books, AllocationsMatchHold
  <2> QED BY <2>1, <2>2
<1>13. ReservedIsCovered'
  <2>1. purchased_reserved' <= purchased_balance'
    <3>1. purchased_balance' = purchased_balance
      BY <1>5
    <3> QED BY <1>3, <1>5, <1>h, <1>n, <3>1
  <2>2. ASSUME NEW l \in Lots PROVE credits_reserved'[l] <= credits_remaining'[l]
    <3>1. /\ credits_remaining'[l] = credits_remaining[l] /\ credits_remaining[l] \in Nat
          /\ credits_reserved'[l] = resv[l] + take[l]
          /\ resv[l] \in Nat /\ take[l] \in Nat
          /\ take[l] <= free[l] /\ free[l] = credits_remaining[l] - resv[l]
      BY <1>3, <1>5, <1>f, <1>n, <1>t
    <3> QED BY <3>1
  <2> QED BY <2>1, <2>2 DEF ReservedIsCovered
<1>6. LedgerExplainsBalance' /\ posted' \in [included : Int, purchased : Int,
                 included_reserved : Int, purchased_reserved : Int]
  <2>1. /\ posted' = [included           |-> posted.included + 0,
                      purchased          |-> posted.purchased + 0,
                      included_reserved  |-> posted.included_reserved
                                               - IncludedHeld(X) + hold.included,
                      purchased_reserved |-> posted.purchased_reserved
                                               - PurchasedHeld(X) + hold.purchased]
        /\ UNCHANGED <<monthly_used, purchased_balance>>
    BY <1>5 DEF Post
  <2>2. posted \in [included : Int, purchased : Int,
                    included_reserved : Int, purchased_reserved : Int]
    BY <1>1 DEF TypeOK
  <2>3. LedgerExplainsBalance
    BY DEF Books
  <2> QED BY <1>3, <1>5, <1>h, <1>n, <2>1, <2>2, <2>3 DEF LedgerExplainsBalance
<1>7. TypeOK'
  <2>1. included_reserved' \in Nat /\ purchased_reserved' \in Nat
    BY <1>3, <1>5, <1>h
  <2> QED BY <1>1, <1>2, <1>5, <1>6, <1>10, <1>u, <2>1 DEF TypeOK, chargeVars
<1>15. IncludedNotOverdrawn'
  <2>1. PICK n \in (Limits \ {Unlimited}) \cup {0} : monthly_used + included_reserved <= n
    BY DEF Books, IncludedNotOverdrawn
  <2>2. n \in Nat /\ (limit # Unlimited => limit \in Nat)
    BY <1>1, LedgerAssumption DEF TypeOK
  <2>n. monthly_used' = monthly_used
    BY <1>5
  <2>3. CASE hold.included = 0
    <3>1. monthly_used' + included_reserved' <= n
      BY <1>3, <1>5, <1>n, <2>1, <2>2, <2>3, <2>n
    <3> QED BY <1>5, <3>1 DEF IncludedNotOverdrawn
  <2>4. CASE limit # Unlimited /\ monthly_used + IncludedReservedWithout(X) + hold.included <= limit
    <3>1. monthly_used' + included_reserved' <= limit
      BY <1>3, <1>5, <1>h, <1>n, <2>2, <2>4, <2>n
    <3>2. limit \in Limits \ {Unlimited}
      BY <1>1, <2>4 DEF TypeOK
    <3> QED BY <3>1, <3>2 DEF IncludedNotOverdrawn
  <2> QED BY <1>h, <2>3, <2>4
<1>16. UngrantedLotsEmpty'
  BY <1>5 DEF Books, UngrantedLotsEmpty
<1> QED BY <1>2, <1>6, <1>7, <1>8, <1>11, <1>12, <1>13, <1>15, <1>16 DEF Books

-----------------------------------------------------------------------------
(* The theorems.                                                           *)

(* The empty account satisfies the invariant. *)
LEMMA InitInv == Init => IInv
<1> SUFFICES ASSUME Init PROVE IInv
  OBVIOUS
<1>1. Live = {}
  BY DEF Init, Live
<1>2. /\ \A f : Total([x \in {} |-> f[x]]) = 0
      /\ Total([l \in Lots |-> 0]) = 0
      /\ Total([r \in Requests |-> 0]) = 0
  <2>1. \A f : [x \in {} |-> f[x]] = [x \in {} |-> 0]
    OBVIOUS
  <2> QED BY <2>1, TotalZero
<1>3. TypeOK
  BY LedgerAssumption DEF Init, TypeOK, Zero
<1>4. IncludedHeld({}) = 0 /\ PurchasedHeld({}) = 0 /\ \A l \in Lots : LotHeld({}, l) = 0
  <2>1. Total([x \in {} |-> 0]) = 0
    BY TotalZero
  <2>2. /\ [r \in {} |-> reserved_included[r]] = [x \in {} |-> 0]
        /\ [r \in {} |-> reserved_purchased[r]] = [x \in {} |-> 0]
        /\ \A l : [r \in {} |-> purchase_allocations[r][l]] = [x \in {} |-> 0]
    OBVIOUS
  <2> QED BY <2>1, <2>2 DEF IncludedHeld, PurchasedHeld, LotHeld
<1>5. HoldsMatchReservations /\ LotsMatchBalance
  BY <1>1, <1>2, <1>4 DEF Init, HoldsMatchReservations, LotsMatchBalance
<1>6. PurchasedCreditsAccounted
  BY <1>2 DEF Init, PurchasedCreditsAccounted, Zero
<1>7. ReservedIsCovered /\ LedgerExplainsBalance /\ IncludedNotOverdrawn
  <2>1. ReservedIsCovered
    BY DEF Init, ReservedIsCovered
  <2>2. LedgerExplainsBalance
    <3>1. posted.included = 0 /\ monthly_used = 0
      BY DEF Init
    <3>2. posted.included + monthly_used = 0
      BY <3>1
    <3>3. /\ posted.purchased = 0 /\ posted.included_reserved = 0
          /\ posted.purchased_reserved = 0
      BY DEF Init
    <3> QED BY <3>2, <3>3 DEF Init, LedgerExplainsBalance
  <2>3. monthly_used + included_reserved <= 0
    BY DEF Init
  <2>4. IncludedNotOverdrawn
    BY <2>3 DEF IncludedNotOverdrawn
  <2> QED BY <2>1, <2>2, <2>4
<1>8. AllocationsMatchHold /\ UngrantedLotsEmpty /\ NotYetSettled
  BY <1>1 DEF Init, AllocationsMatchHold, UngrantedLotsEmpty, NotYetSettled, Zero
<1> QED BY <1>3, <1>5, <1>6, <1>7, <1>8 DEF IInv, Books

(* Only the limit changes, or time passes. *)
LEMMA SameBooks ==
  ASSUME Books, limit' \in Limits, aged' \subseteq Requests,
         UNCHANGED <<balanceVars, status, holdVars, chargeVars, lotVars, ledgerVars>>
  PROVE  Books'
<1>u. UNCHANGED <<monthly_period, monthly_used, purchased_balance, included_reserved,
                  purchased_reserved, status, reserved_included, reserved_purchased,
                  purchase_allocations, settled_included, settled_purchased,
                  unfunded_credits, credits_granted, credits_remaining,
                  credits_reserved, credits_reversed, posted, ledger_keys>>
  BY DEF balanceVars, holdVars, chargeVars, lotVars, ledgerVars
<1>0. Live' = Live
  BY <1>u DEF Live
<1>1. TypeOK'
  BY <1>u DEF Books, TypeOK
<1>2. HoldsMatchReservations' /\ LotsMatchBalance'
  BY <1>u, <1>0 DEF Books, HoldsMatchReservations, LotsMatchBalance, IncludedHeld,
                    PurchasedHeld, LotHeld
<1>3. ReservedIsCovered' /\ LedgerExplainsBalance'
      /\ IncludedNotOverdrawn'
  BY <1>u DEF Books, ReservedIsCovered, LedgerExplainsBalance,
              IncludedNotOverdrawn
<1>4. AllocationsMatchHold' /\ UngrantedLotsEmpty' /\ NotYetSettled'
  BY <1>u, <1>0 DEF Books, AllocationsMatchHold, UngrantedLotsEmpty, NotYetSettled
<1> QED BY <1>1, <1>2, <1>3, <1>4 DEF Books

(* Every step preserves the invariant: one case per operation. *)
LEMMA NextBooks == Books /\ [Next]_ledger => Books'
<1> SUFFICES ASSUME Books, [Next]_ledger PROVE Books'
  OBVIOUS
<1>0. MaxCredits \in Nat /\ PackCredits \subseteq Nat
  BY LedgerAssumption
<1>1. CASE ReleaseStaleReservations
  BY <1>1, ReleaseStaleInv
<1>2. CASE Claims
  <2>1. PICK r \in Requests, e \in 1..MaxCredits, s \in BOOLEAN : ClaimCreditReservation(r, e, s)
    BY <1>2 DEF Claims
  <2>2. e \in Nat
    BY <1>0
  <2> QED BY <2>1, <2>2, ClaimInv
<1>3. CASE \E r \in Requests : ReleaseReservation(r)
  BY <1>3, ReleaseInv
<1>4. CASE Settlements
  <2>1. PICK r \in Requests, a \in 0..MaxCredits : SettleReservation(r, a)
    BY <1>4 DEF Settlements
  <2>2. a \in Nat
    BY <1>0
  <2> QED BY <2>1, <2>2, SettleInv
<1>5. CASE Grants
  BY <1>0, <1>5, AddPurchasedInv DEF Grants
<1>6. CASE Refunds
  <2>1. PICK l \in Lots, c \in PackCredits :
          ReversePurchasedCredits(l, Least(c, Monus(credits_remaining[l], credits_reserved[l])),
                                  <<"purchase_refund", l>>)
    BY <1>6 DEF Refunds
  <2> DEFINE n == Least(c, Monus(credits_remaining[l], credits_reserved[l]))
  <2>2. /\ c \in Nat /\ credits_remaining[l] \in Nat /\ credits_reserved[l] \in Nat
        /\ credits_reserved[l] <= credits_remaining[l]
    BY <1>0 DEF Books, TypeOK, ReservedIsCovered
  <2>3. n \in Nat /\ n <= credits_remaining[l] - credits_reserved[l]
    BY <2>2 DEF Least, Monus
  <2>4. \A k \in Lots : <<"purchase_refund", l>> # <<"purchase_grant", k>>
    OBVIOUS
  <2> HIDE DEF n
  <2>5. ReversePurchasedCredits(l, n, <<"purchase_refund", l>>)
    BY <2>1 DEF n
  <2> QED BY <2>3, <2>4, <2>5, ReversePurchasedInv
<1>7. CASE \E p \in Periods : ResetCreditsForRenewal(p)
  <2>1. PICK p \in Periods : RestartIncluded(<<"renewal", p>>, p)
    BY <1>7 DEF ResetCreditsForRenewal
  <2>2. \A k \in Lots : <<"renewal", p>> # <<"purchase_grant", k>>
    OBVIOUS
  <2> QED BY <2>1, <2>2, RestartInv
<1>8. CASE \E k \in RestoreKeys : RestoreIncludedMonthlyCredits(k)
  <2>1. PICK key \in RestoreKeys : RestartIncluded(<<"restore", key>>, monthly_period)
    BY <1>8 DEF RestoreIncludedMonthlyCredits
  <2>2. \A k \in Lots : <<"restore", key>> # <<"purchase_grant", k>>
    OBVIOUS
  <2>3. monthly_period \in Periods
    BY DEF Books, TypeOK
  <2> QED BY <2>1, <2>2, <2>3, RestartInv
<1>9. CASE UNCHANGED <<balanceVars, status, holdVars, chargeVars, lotVars, ledgerVars>>
           /\ limit' \in Limits /\ aged' \subseteq Requests
  BY <1>9, SameBooks
<1>10. CASE \E n \in Limits : ChangeLimit(n)
  <2>1. UNCHANGED <<balanceVars, status, holdVars, chargeVars, lotVars, ledgerVars>>
        /\ limit' \in Limits /\ aged' \subseteq Requests
    BY <1>10 DEF ChangeLimit, Books, TypeOK
  <2> QED BY <1>9, <2>1
<1>11. CASE \E r \in Requests : TtlElapses(r)
  <2>1. UNCHANGED <<balanceVars, status, holdVars, chargeVars, lotVars, ledgerVars>>
        /\ limit' \in Limits /\ aged' \subseteq Requests
    BY <1>11 DEF TtlElapses, Books, TypeOK
  <2> QED BY <1>9, <2>1
<1>12. CASE UNCHANGED ledger
  <2>1. UNCHANGED <<balanceVars, status, holdVars, chargeVars, lotVars, ledgerVars>>
        /\ limit' \in Limits /\ aged' \subseteq Requests
    BY <1>12 DEF ledger, Books, TypeOK
  <2> QED BY <1>9, <2>1
<1> QED BY <1>1, <1>2, <1>3, <1>4, <1>5, <1>6, <1>7, <1>8, <1>10, <1>11, <1>12 DEF Next

-----------------------------------------------------------------------------
(* The account of the purchased credits.                                   *)

(* What requests do to purchased credits: those that leave the balance are *)
(* settled, and the lots' other columns stay.                              *)
Conserved ==
  /\ UNCHANGED <<credits_granted, credits_reversed>>
  /\ purchased_balance' + Total(settled_purchased')
       = purchased_balance + Total(settled_purchased)

(* A settlement moves what it charges.                                     *)
LEMMA SettleConserves ==
  ASSUME TypeOK, TypeOK', NotYetSettled, NEW r \in Requests, NEW n, SettleReservation(r, n)
  PROVE  Conserved
<1>1. PICK c : /\ purchased_balance' = purchased_balance - c
               /\ settled_purchased' = [settled_purchased EXCEPT ![r] = c]
  BY DEF SettleReservation, SettleTransaction
<1>2. /\ settled_purchased \in [Requests -> Nat] /\ settled_purchased' \in [Requests -> Nat]
      /\ settled_purchased'[r] = c /\ settled_purchased[r] = 0
      /\ \A q \in Requests \ {r} : settled_purchased[q] = settled_purchased'[q]
  BY <1>1 DEF TypeOK, NotYetSettled, SettleReservation
<1>3. Total(settled_purchased')
        = Total(settled_purchased) - settled_purchased[r] + settled_purchased'[r]
  BY <1>2, LedgerAssumption, TotalUpdate
<1>4. /\ Total(settled_purchased) \in Nat /\ purchased_balance \in Nat
      /\ settled_purchased'[r] \in Nat
  BY <1>2, LedgerAssumption, TotalType DEF TypeOK
<1>5. UNCHANGED <<credits_granted, credits_reversed>>
  BY DEF SettleReservation, SettleTransaction
<1> QED BY <1>1, <1>2, <1>3, <1>4, <1>5 DEF Conserved

(* Every operation of a request conserves them.                            *)
LEMMA UsesConserve ==
  ASSUME TypeOK, TypeOK', NotYetSettled,
         \/ ReleaseStaleReservations \/ Claims \/ Settlements
         \/ \E r \in Requests : ReleaseReservation(r) \/ TtlElapses(r)
  PROVE  Conserved
<1>1. CASE UNCHANGED <<credits_granted, credits_reversed, purchased_balance, settled_purchased>>
  BY <1>1 DEF Conserved
<1>2. CASE Settlements
  BY <1>2, SettleConserves DEF Settlements
<1>3. CASE Claims
  BY <1>1, <1>3 DEF Claims, ClaimCreditReservation, chargeVars
<1>4. CASE ReleaseStaleReservations \/ \E r \in Requests : ReleaseReservation(r) \/ TtlElapses(r)
  BY <1>1, <1>4 DEF ReleaseStaleReservations, ReleaseReservation, ReleaseTransaction,
                    TtlElapses, chargeVars, balanceVars, lotVars
<1> QED BY <1>2, <1>3, <1>4

(* So does every operation of the ledger, grants and refunds included: a   *)
(* grant finds the lot empty.                                              *)
LEMMA NextAccounts ==
  ASSUME TypeOK, TypeOK', NotYetSettled, UngrantedLotsEmpty,
         PurchasedCreditsAccounted, [Next]_ledger
  PROVE  PurchasedCreditsAccounted'
<1>0. /\ Total(credits_granted) \in Nat /\ Total(credits_reversed) \in Nat
      /\ Total(settled_purchased) \in Nat /\ purchased_balance \in Nat
      /\ Total(settled_purchased') \in Nat /\ purchased_balance' \in Nat
  BY FiniteLots, LedgerAssumption, TotalType DEF TypeOK
<1>1. CASE Conserved
  BY <1>0, <1>1 DEF Conserved, PurchasedCreditsAccounted
<1>2. CASE UNCHANGED <<credits_granted, credits_reversed, purchased_balance, settled_purchased>>
  BY <1>2 DEF PurchasedCreditsAccounted
<1>3. CASE Grants
  <2>1. PICK l \in Lots, c \in PackCredits : AddPurchasedCredits(l, c)
    BY <1>3 DEF Grants
  <2>2. /\ <<"purchase_grant", l>> \notin ledger_keys
        /\ purchased_balance' = purchased_balance + c
        /\ credits_granted' = [credits_granted EXCEPT ![l] = c]
        /\ UNCHANGED <<credits_reversed, settled_purchased>>
    BY <2>1 DEF AddPurchasedCredits, NotPosted, chargeVars
  <2>3. /\ credits_granted \in [Lots -> Nat] /\ credits_granted' \in [Lots -> Nat]
        /\ credits_granted[l] = 0 /\ credits_granted'[l] = c
        /\ \A k \in Lots \ {l} : credits_granted[k] = credits_granted'[k]
    BY <2>2 DEF TypeOK, UngrantedLotsEmpty
  <2>4. Total(credits_granted')
          = Total(credits_granted) - credits_granted[l] + credits_granted'[l]
    BY <2>3, FiniteLots, TotalUpdate
  <2>5. c \in Nat
    BY LedgerAssumption
  <2> QED BY <1>0, <2>2, <2>3, <2>4, <2>5 DEF PurchasedCreditsAccounted
<1>4. CASE Refunds
  <2>1. PICK l \in Lots, c \in PackCredits :
          ReversePurchasedCredits(l, Least(c, Monus(credits_remaining[l], credits_reserved[l])),
                                  <<"purchase_refund", l>>)
    BY <1>4 DEF Refunds
  <2>2. PICK t : /\ purchased_balance' = purchased_balance - t
                 /\ credits_reversed' = [credits_reversed EXCEPT ![l] = @ + t]
                 /\ t = Least(Least(c, Monus(credits_remaining[l], credits_reserved[l])),
                              PurchasedAvailable(PurchasedReservedWithout(Stale({}))))
    BY <2>1 DEF ReversePurchasedCredits
  <2>3. UNCHANGED <<credits_granted, settled_purchased>>
    BY <2>1 DEF ReversePurchasedCredits, chargeVars
  <2>4. t \in Int
    <3>1. /\ c \in Int /\ credits_remaining[l] \in Int /\ credits_reserved[l] \in Int
          /\ purchased_balance \in Int /\ purchased_reserved \in Int
      BY LedgerAssumption DEF TypeOK
    <3>2. \A a, b \in Int : Least(a, b) \in Int /\ Monus(a, b) \in Int
      BY DEF Least, Monus
    <3>3. PurchasedReservedWithout(Stale({})) \in Int
      <4>1. Stale({}) \in SUBSET Requests
        BY StaleIsLive DEF Live
      <4> QED BY <4>1, ExpiryTypes
    <3> QED BY <2>2, <3>1, <3>2, <3>3 DEF PurchasedAvailable
  <2>5. /\ credits_reversed \in [Lots -> Nat] /\ credits_reversed' \in [Lots -> Nat]
        /\ credits_reversed'[l] = credits_reversed[l] + t
        /\ \A k \in Lots \ {l} : credits_reversed[k] = credits_reversed'[k]
    BY <2>2 DEF TypeOK
  <2>6. Total(credits_reversed')
          = Total(credits_reversed) - credits_reversed[l] + credits_reversed'[l]
    BY <2>5, FiniteLots, TotalUpdate
  <2>7. credits_reversed[l] \in Nat
    BY <2>5
  <2> QED BY <1>0, <2>2, <2>3, <2>4, <2>5, <2>6, <2>7 DEF PurchasedCreditsAccounted
<1>5. CASE \/ \E p \in Periods : ResetCreditsForRenewal(p)
           \/ \E k \in RestoreKeys : RestoreIncludedMonthlyCredits(k)
  BY <1>2, <1>5 DEF ResetCreditsForRenewal, RestoreIncludedMonthlyCredits, RestartIncluded,
                    chargeVars
<1>6. CASE (\E n \in Limits : ChangeLimit(n)) \/ UNCHANGED ledger
  BY <1>2, <1>6 DEF ChangeLimit, ledger, balanceVars, chargeVars, lotVars
<1>7. CASE \/ ReleaseStaleReservations \/ Claims \/ Settlements
           \/ \E r \in Requests : ReleaseReservation(r) \/ TtlElapses(r)
  BY <1>1, <1>7, UsesConserve
<1> QED BY <1>3, <1>4, <1>5, <1>6, <1>7 DEF Next

(* Every step preserves the inductive invariant.                           *)
LEMMA NextInv == IInv /\ [Next]_ledger => IInv'
<1> SUFFICES ASSUME IInv, [Next]_ledger PROVE IInv'
  OBVIOUS
<1>1. Books /\ PurchasedCreditsAccounted
  BY DEF IInv
<1>2. Books'
  BY <1>1, NextBooks
<1> QED BY <1>1, <1>2, NextAccounts DEF IInv, Books

(* The inductive invariant, from which every safety theorem below follows. *)
THEOREM Invariance == Spec => []IInv
<1>1. Init => IInv
  BY InitInv
<1>2. IInv /\ [Next]_ledger => IInv'
  BY NextInv
<1> QED BY <1>1, <1>2, PTL DEF Spec

(* Every column keeps its type: no counter of the balance, of a reservation *)
(* or of a lot ever goes negative, though the code only subtracts.          *)
THEOREM TypeCorrect == Spec => []TypeOK
<1>1. IInv => TypeOK
  BY DEF IInv, Books
<1> QED BY <1>1, Invariance, PTL

(* The reserved counters of the balance are the sums over the live          *)
(* reservations, for any number of requests.                                *)
THEOREM HoldsAlwaysMatch == Spec => []HoldsMatchReservations
<1>1. IInv => HoldsMatchReservations
  BY DEF IInv, Books
<1> QED BY <1>1, Invariance, PTL

(* The purchase lots agree with the balance, for any number of lots. *)
THEOREM LotsAlwaysMatch == Spec => []LotsMatchBalance
<1>1. IInv => LotsMatchBalance
  BY DEF IInv, Books
<1> QED BY <1>1, Invariance, PTL

(* No operation can meet a CHECK constraint of the balance or of a lot, and *)
(* the included allowance is never overdrawn, whatever limits the tenant    *)
(* goes through.                                                            *)
THEOREM AlwaysCovered == Spec => []CreditsCovered
<1>1. IInv => CreditsCovered
  BY DEF IInv, Books, CreditsCovered
<1> QED BY <1>1, Invariance, PTL

(* Purchased credits are conserved. *)
THEOREM AlwaysAccounted == Spec => []PurchasedCreditsAccounted
<1>1. IInv => PurchasedCreditsAccounted
  BY DEF IInv
<1> QED BY <1>1, Invariance, PTL

(* The ledger entries sum to the balance. *)
THEOREM LedgerAlwaysExplains == Spec => []LedgerExplainsBalance
<1>1. IInv => LedgerExplainsBalance
  BY DEF IInv, Books
<1> QED BY <1>1, Invariance, PTL

(* What ChargedOnce says of one step. *)
ChargeKept ==
  \A r \in Requests : status[r] \in Terminal =>
       /\ status'[r] = status[r]
       /\ settled_included'[r] = settled_included[r]
       /\ settled_purchased'[r] = settled_purchased[r]

(* No step touches the charge or the status of an ended reservation. *)
LEMMA StepKeepsCharges == TypeOK /\ [Next]_ledger => ChargeKept
<1> SUFFICES ASSUME TypeOK, [Next]_ledger, NEW r \in Requests, status[r] \in Terminal
             PROVE  /\ status'[r] = status[r]
                    /\ settled_included'[r] = settled_included[r]
                    /\ settled_purchased'[r] = settled_purchased[r]
  BY DEF ChargeKept
<1>0. /\ status[r] # "reserved" /\ status[r] # "none"
      /\ \A keep : r \notin Stale(keep)
  BY DEF Terminal, Stale
<1>1. ASSUME NEW keep, ExpireOnly(Stale(keep)) PROVE status'[r] = status[r]
  BY <1>0, <1>1 DEF ExpireOnly, StatusExpired
<1>2. ASSUME NEW keep, NEW q \in Requests \ {r}, NEW s, status' = StatusWith(Stale(keep), q, s)
      PROVE  status'[r] = status[r]
  BY <1>0, <1>2 DEF StatusWith
<1>3. CASE ReleaseStaleReservations
  BY <1>1, <1>3 DEF ReleaseStaleReservations, chargeVars
<1>4. CASE Claims
  <2>1. PICK q \in Requests, e \in 1..MaxCredits, s \in BOOLEAN : ClaimCreditReservation(q, e, s)
    BY <1>4 DEF Claims
  <2>2. /\ q # r /\ status' = StatusWith(Stale({}), q, "reserved") /\ UNCHANGED chargeVars
    BY <1>0, <2>1 DEF ClaimCreditReservation
  <2> QED BY <1>2, <2>2 DEF chargeVars
<1>5. CASE \E q \in Requests : ReleaseReservation(q)
  <2>1. PICK q \in Requests : ReleaseReservation(q)
    BY <1>5
  <2>2. q # r /\ status' = StatusWith(Stale({q}), q, "released") /\ UNCHANGED chargeVars
    BY <1>0, <2>1 DEF ReleaseReservation, ReleaseTransaction
  <2> QED BY <1>2, <2>2 DEF chargeVars
<1>6. CASE Settlements
  <2>1. PICK q \in Requests, a \in 0..MaxCredits : SettleReservation(q, a)
    BY <1>6 DEF Settlements
  <2>2. PICK s, i, p :
          /\ q # r /\ status' = StatusWith(Stale({q}), q, s)
          /\ settled_included' = [settled_included EXCEPT ![q] = i]
          /\ settled_purchased' = [settled_purchased EXCEPT ![q] = p]
    BY <1>0, <2>1 DEF SettleReservation, SettleTransaction
  <2>3. status'[r] = status[r]
    BY <1>2, <2>2
  <2> QED BY <2>2, <2>3 DEF TypeOK
<1>7. CASE Grants
  BY <1>1, <1>7 DEF Grants, AddPurchasedCredits, chargeVars
<1>8. CASE Refunds
  BY <1>1, <1>8 DEF Refunds, ReversePurchasedCredits, chargeVars
<1>9. CASE \E p \in Periods : ResetCreditsForRenewal(p)
  BY <1>1, <1>9 DEF ResetCreditsForRenewal, RestartIncluded, chargeVars
<1>10. CASE \E k \in RestoreKeys : RestoreIncludedMonthlyCredits(k)
  BY <1>1, <1>10 DEF RestoreIncludedMonthlyCredits, RestartIncluded, chargeVars
<1>11. CASE \E n \in Limits : ChangeLimit(n)
  BY <1>11 DEF ChangeLimit, chargeVars
<1>12. CASE \E q \in Requests : TtlElapses(q)
  BY <1>12 DEF TtlElapses, chargeVars
<1>13. CASE UNCHANGED ledger
  BY <1>13 DEF ledger, chargeVars
<1> QED BY <1>3, <1>4, <1>5, <1>6, <1>7, <1>8, <1>9, <1>10, <1>11, <1>12, <1>13 DEF Next

(* A request is billed at most once, whatever retries, expiries and         *)
(* settlements it meets.                                                    *)
THEOREM AlwaysChargedOnce == Spec => ChargedOnce
<1>1. TypeOK /\ [Next]_ledger => [ChargeKept]_ledger
  BY StepKeepsCharges
<1>2. Spec => [][Next]_ledger
  BY PTL DEF Spec
<1>3. Spec => [][ChargeKept]_ledger
  BY <1>1, <1>2, TypeCorrect, PTL
<1> QED BY <1>3 DEF ChargedOnce, ChargeKept

-----------------------------------------------------------------------------
(* CreditLedger implements PrepaidWallet: the initial state maps to the     *)
(* wallet's, and every step to a step of the wallet or to a stutter.        *)

WalletPhase == [r \in Requests |-> Phase(status[r])]
WalletHeld  == [r \in Requests |-> IF status[r] = "reserved" THEN reserved_purchased[r] ELSE 0]

(* The wallet's open requests are the live reservations, and what a set of  *)
(* them holds is what the ledger says it holds.                             *)
LEMMA WalletView ==
  ASSUME TypeOK
  PROVE  /\ Wallet!Open = Live
         /\ \A A \in SUBSET Live : Wallet!HeldBy(A) = PurchasedHeld(A)
<1>1. Wallet!Open = Live
  BY DEF Wallet!Open, Live, Phase
<1>2. ASSUME NEW A \in SUBSET Live
      PROVE  Wallet!HeldBy(A) = PurchasedHeld(A)
  <2>1. \A c \in A : c \in Requests /\ status[c] = "reserved"
    BY <1>2 DEF Live
  <2>2. [c \in A |-> WalletHeld[c]] = [c \in A |-> reserved_purchased[c]]
    BY <2>1 DEF WalletHeld
  <2>3. Wallet!HeldBy(A) = Total([c \in A |-> WalletHeld[c]])
    BY Zenon DEF Wallet!HeldBy, WalletHeld
  <2> QED BY <2>2, <2>3 DEF PurchasedHeld
<1> QED BY <1>1, <1>2

(* Expiring X drops it from the wallet.                                     *)
LEMMA WalletDrop ==
  ASSUME TypeOK, NEW X \in SUBSET Live, status' = StatusExpired(X),
         UNCHANGED reserved_purchased
  PROVE  Wallet!Dropped(X)
<1>1. \A c \in Requests : Phase(status'[c]) = Wallet!PhaseAfter(X, c)
  BY DEF StatusExpired, Phase, Wallet!PhaseAfter
<1>2. \A c \in Requests :
        (IF status'[c] = "reserved" THEN reserved_purchased'[c] ELSE 0) = Wallet!HeldAfter(X, c)
  BY DEF StatusExpired, Wallet!HeldAfter
<1> QED BY <1>1, <1>2 DEF Wallet!Dropped

(* Ending r while X expires drops both.                                     *)
LEMMA WalletEnd ==
  ASSUME TypeOK, NEW X \in SUBSET Live, NEW r \in Requests, NEW s \in Terminal,
         status' = StatusWith(X, r, s), UNCHANGED reserved_purchased
  PROVE  Wallet!Dropped(X \cup {r})
<1>1. \A c \in Requests : Phase(status'[c]) = Wallet!PhaseAfter(X \cup {r}, c)
  BY DEF StatusWith, Phase, Wallet!PhaseAfter, Terminal
<1>2. \A c \in Requests :
        (IF status'[c] = "reserved" THEN reserved_purchased'[c] ELSE 0)
          = Wallet!HeldAfter(X \cup {r}, c)
  BY DEF StatusWith, Wallet!HeldAfter, Terminal
<1> QED BY <1>1, <1>2 DEF Wallet!Dropped

-----------------------------------------------------------------------------
(* The actions that only expire or end reservations.                       *)

(* Expiring and nothing else drops the expired requests.                   *)
LEMMA WalletReleaseStale ==
  ASSUME Counters, ReleaseStaleReservations
  PROVE  Wallet!Next
<1>0. PICK X : X = Stale({})
  OBVIOUS
<1>1. TypeOK /\ X \in SUBSET Live
  BY <1>0, StaleIsLive DEF Counters
<1>2. /\ status' = StatusExpired(X)
      /\ UNCHANGED <<reserved_purchased, purchased_balance, settled_purchased>>
  BY <1>0 DEF ReleaseStaleReservations, ExpireOnly, holdVars, chargeVars
<1>3. Wallet!Dropped(X)
  BY <1>1, <1>2, WalletDrop
<1>4. X \in SUBSET Wallet!Open
  BY <1>1, WalletView
<1> QED BY <1>2, <1>3, <1>4 DEF Wallet!Next, Wallet!Drop

(* A renewal or a restore does the same in the wallet.                     *)
LEMMA WalletRestart ==
  ASSUME Counters, NEW key, NEW period, RestartIncluded(key, period)
  PROVE  Wallet!Next
<1>0. PICK X : X = Stale({})
  OBVIOUS
<1>1. TypeOK /\ X \in SUBSET Live
  BY <1>0, StaleIsLive DEF Counters
<1>2. /\ status' = StatusExpired(X)
      /\ UNCHANGED <<reserved_purchased, purchased_balance, settled_purchased>>
  BY <1>0 DEF RestartIncluded, ExpireOnly, holdVars, chargeVars
<1>3. Wallet!Dropped(X)
  BY <1>1, <1>2, WalletDrop
<1>4. X \in SUBSET Wallet!Open
  BY <1>1, WalletView
<1> QED BY <1>2, <1>3, <1>4 DEF Wallet!Next, Wallet!Drop

(* A release drops the request with the expired ones.                      *)
LEMMA WalletRelease ==
  ASSUME Counters, NEW r \in Requests, ReleaseReservation(r)
  PROVE  Wallet!Next
<1>0. PICK X : X = Stale({r})
  OBVIOUS
<1>1. TypeOK /\ X \in SUBSET Live /\ r \in Live
  BY <1>0, StaleIsLive DEF Counters, ReleaseReservation, Live
<1>2. /\ status' = StatusWith(X, r, "released")
      /\ UNCHANGED <<reserved_purchased, purchased_balance, settled_purchased>>
  BY <1>0 DEF ReleaseReservation, ReleaseTransaction, holdVars, chargeVars
<1>3. "released" \in Terminal
  BY DEF Terminal
<1>4. Wallet!Dropped(X \cup {r})
  BY <1>1, <1>2, <1>3, WalletEnd
<1>5. X \cup {r} \in SUBSET Wallet!Open
  BY <1>1, WalletView
<1> QED BY <1>2, <1>4, <1>5 DEF Wallet!Next, Wallet!Drop

-----------------------------------------------------------------------------
(* The actions that move purchased credits.                                *)

(* A grant is a deposit.                                                    *)
LEMMA WalletGrant ==
  ASSUME Counters, NEW l \in Lots, NEW c \in Nat, AddPurchasedCredits(l, c)
  PROVE  Wallet!Next
<1>0. PICK X : X = Stale({})
  OBVIOUS
<1>1. TypeOK /\ X \in SUBSET Live
  BY <1>0, StaleIsLive DEF Counters
<1>2. /\ status' = StatusExpired(X)
      /\ UNCHANGED <<reserved_purchased, settled_purchased>>
      /\ purchased_balance' = purchased_balance + c
  BY <1>0 DEF AddPurchasedCredits, ExpireOnly, holdVars, chargeVars
<1>3. Wallet!Dropped(X)
  BY <1>1, <1>2, WalletDrop
<1>4. X \in SUBSET Wallet!Open
  BY <1>1, WalletView
<1>5. purchased_balance \in Nat
  BY <1>1 DEF TypeOK
<1>6. purchased_balance' \in Nat /\ purchased_balance' >= purchased_balance
  BY <1>2, <1>5
<1> QED BY <1>2, <1>3, <1>4, <1>6 DEF Wallet!Next, Wallet!Deposit

(* Taking m credits back withdraws what no live reservation holds.         *)
LEMMA WalletTake ==
  ASSUME Counters, NEW m \in Nat, NEW X, X = Stale({}), status' = StatusExpired(X),
         UNCHANGED <<reserved_purchased, settled_purchased>>,
         purchased_balance' = purchased_balance - m,
         m <= PurchasedAvailable(PurchasedReservedWithout(X))
  PROVE  Wallet!Next
<1>1. TypeOK /\ X \in SUBSET Live
  BY StaleIsLive DEF Counters
<1>2. /\ PurchasedReservedWithout(X) = PurchasedHeld(Live \ X)
      /\ PurchasedReservedWithout(X) \in Nat
      /\ purchased_reserved = PurchasedReservedWithout(X) + PurchasedHeld(X)
      /\ PurchasedHeld(X) \in Nat
  BY <1>1, CounterExpiry DEF Counters
<1>3. purchased_balance \in Nat /\ purchased_reserved <= purchased_balance
  BY DEF Counters, TypeOK
<1>4. m \in 0..purchased_balance /\ PurchasedReservedWithout(X) + m <= purchased_balance
  BY <1>2, <1>3 DEF PurchasedAvailable, Monus
<1>5. Wallet!Dropped(X)
  BY <1>1, WalletDrop
<1>6. Wallet!Open = Live /\ Wallet!HeldBy(Live \ X) = PurchasedHeld(Live \ X)
  BY <1>1, WalletView
<1>7. Wallet!Withdraw(X, m)
  BY <1>2, <1>4, <1>5, <1>6 DEF Wallet!Withdraw
<1>8. X \in SUBSET Wallet!Open
  BY <1>1, <1>6
<1> QED BY <1>4, <1>7, <1>8 DEF Wallet!Next

(* So does a refund.                                                       *)
LEMMA WalletRefund ==
  ASSUME Counters, NEW l \in Lots, NEW n \in Nat, NEW key, ReversePurchasedCredits(l, n, key)
  PROVE  Wallet!Next
<1>0. PICK X : X = Stale({})
  OBVIOUS
<1>m. PICK m : m = Least(n, PurchasedAvailable(PurchasedReservedWithout(X)))
  OBVIOUS
<1>1. /\ status' = StatusExpired(X)
      /\ UNCHANGED <<reserved_purchased, settled_purchased>>
      /\ purchased_balance' = purchased_balance - m
  BY <1>0, <1>m DEF ReversePurchasedCredits, ExpireOnly, holdVars, chargeVars
<1>2. PurchasedReservedWithout(X) \in Nat /\ purchased_balance \in Nat
  BY <1>0, StaleIsLive, CounterExpiry DEF Counters, TypeOK
<1>3. m \in Nat /\ m <= PurchasedAvailable(PurchasedReservedWithout(X))
  BY <1>2, <1>m DEF Least, PurchasedAvailable, Monus
<1> QED BY <1>0, <1>1, <1>3, WalletTake

(* A settlement closes the request and spends what it charges.             *)
LEMMA WalletSettle ==
  ASSUME Counters, NEW r \in Requests, NEW actual \in Nat, SettleReservation(r, actual)
  PROVE  Wallet!Next
<1>0. PICK X : X = Stale({r})
  OBVIOUS
<1> DEFINE ir == IncludedReservedWithout(X) - reserved_included[r]
           pr == PurchasedReservedWithout(X) - reserved_purchased[r]
           c  == Charge(r, actual, ir, pr)
           s  == SettledStatus(actual, c.unfunded)
<1>1. TypeOK /\ X \in SUBSET Live /\ r \in Live \ X
  BY <1>0, StaleIsLive DEF Counters, SettleReservation, Live
<1>2. /\ status' = StatusWith(X, r, s)
      /\ UNCHANGED reserved_purchased
      /\ purchased_balance' = purchased_balance - c.purchased
      /\ settled_purchased' = [settled_purchased EXCEPT ![r] = c.purchased]
  BY <1>0 DEF SettleReservation, SettleTransaction, holdVars
<1>3. s \in Terminal
  BY DEF SettledStatus, Terminal
<1>s. PICK after : after = s
  OBVIOUS
<1>4. /\ ir = IncludedHeld(Live \ (X \cup {r})) /\ ir \in Nat
      /\ pr = PurchasedHeld(Live \ (X \cup {r})) /\ pr \in Nat
      /\ purchased_reserved = pr + reserved_purchased[r] + PurchasedHeld(X)
      /\ PurchasedHeld(X) \in Nat /\ reserved_purchased[r] \in Nat
  BY <1>1, CounterOfMember DEF Counters
<1> HIDE DEF ir, pr
<1>5. purchased_balance \in Nat /\ purchased_reserved <= purchased_balance
  BY DEF Counters, TypeOK
<1>6. pr + reserved_purchased[r] <= purchased_balance
  BY <1>4, <1>5
<1>7. /\ c.purchased \in Nat /\ c.fromHold \in Nat /\ c.fromFree \in Nat
      /\ c.purchased = c.fromHold + c.fromFree
      /\ c.fromFree <= purchased_balance - pr - c.fromHold
  BY <1>1, <1>4, <1>6, ChargeBounds
<1>n. PICK n : n = c.purchased
  OBVIOUS
<1> HIDE DEF c, s
<1>8. n \in 0..purchased_balance /\ pr + n <= purchased_balance
  BY <1>4, <1>5, <1>7, <1>n
<1>9. Wallet!Dropped(X \cup {r})
  BY <1>1, <1>2, <1>3, <1>s, WalletEnd
<1>10. /\ Wallet!Open = Live
       /\ Wallet!HeldBy(Live \ (X \cup {r})) = PurchasedHeld(Live \ (X \cup {r}))
  BY <1>1, WalletView
<1>11. Wallet!Close(X, r, n)
  BY <1>n, <1>1, <1>2, <1>4, <1>8, <1>9, <1>10 DEF Wallet!Close
<1>12. X \in SUBSET Wallet!Open
  BY <1>1, <1>10
<1> QED BY <1>8, <1>11, <1>12 DEF Wallet!Next

(* A claim holds what it reserves of the purchased credits nobody holds.   *)
LEMMA WalletClaim ==
  ASSUME Counters, NEW r \in Requests, NEW estimate \in Nat, NEW sponsored \in BOOLEAN,
         ClaimCreditReservation(r, estimate, sponsored)
  PROVE  Wallet!Next
<1>0. PICK X : X = Stale({})
  OBVIOUS
<1>n. PICK n : n = Hold(X, estimate, sponsored).purchased
  OBVIOUS
<1>1. TypeOK /\ X \in SUBSET Live
  BY <1>0, StaleIsLive DEF Counters
<1>2. /\ status[r] = "none" /\ CanHold(X, estimate, sponsored)
      /\ status' = StatusWith(X, r, "reserved")
      /\ UNCHANGED <<purchased_balance, settled_purchased>>
      /\ reserved_purchased' = [reserved_purchased EXCEPT ![r] = n]
  BY <1>0, <1>n DEF ClaimCreditReservation, chargeVars
<1>3. /\ IncludedReservedWithout(X) \in Nat
      /\ PurchasedReservedWithout(X) = PurchasedHeld(Live \ X)
      /\ PurchasedReservedWithout(X) \in Nat
      /\ purchased_reserved = PurchasedReservedWithout(X) + PurchasedHeld(X)
      /\ PurchasedHeld(X) \in Nat
  BY <1>1, CounterExpiry DEF Counters
<1>4. purchased_balance \in Nat /\ purchased_reserved <= purchased_balance
  BY DEF Counters, TypeOK
<1>5. PurchasedReservedWithout(X) <= purchased_balance
  BY <1>3, <1>4
<1>6. n \in Nat /\ n <= purchased_balance - PurchasedReservedWithout(X)
  BY <1>1, <1>2, <1>3, <1>5, <1>n, HoldBounds
<1>7. n \in 0..purchased_balance /\ PurchasedReservedWithout(X) + n <= purchased_balance
  BY <1>3, <1>4, <1>6
<1>8. /\ Wallet!Open = Live
      /\ Wallet!HeldBy(Live \ X) = PurchasedHeld(Live \ X)
  BY <1>1, WalletView
<1>9. Wallet!Hold(X, r, n)
  <2>1. reserved_purchased \in [Requests -> Nat]
    BY <1>1 DEF TypeOK
  <2>2. \A c \in Requests :
          Phase(status'[c]) = IF c = r THEN "open" ELSE Wallet!PhaseAfter(X, c)
    BY <1>2 DEF StatusWith, Phase, Wallet!PhaseAfter
  <2>3. \A c \in Requests :
          (IF status'[c] = "reserved" THEN reserved_purchased'[c] ELSE 0)
            = IF c = r THEN n ELSE Wallet!HeldAfter(X, c)
    BY <1>2, <2>1 DEF StatusWith, Wallet!HeldAfter
  <2>4. Phase(status[r]) = "new"
    BY <1>2 DEF Phase
  <2>5. Wallet!HeldBy(Wallet!Open \ X) + n <= purchased_balance
    BY <1>3, <1>7, <1>8
  <2> QED BY <1>2, <2>2, <2>3, <2>4, <2>5 DEF Wallet!Hold
<1>10. X \in SUBSET Wallet!Open
  BY <1>1, <1>8
<1> QED BY <1>7, <1>9, <1>10 DEF Wallet!Next

-----------------------------------------------------------------------------
(* The refinement.                                                         *)

(* The initial account is an empty wallet.                                 *)
LEMMA WalletInit == Init => Wallet!Init
BY DEF Init, Wallet!Init, Zero, Phase

(* A step of the ledger is a step of the wallet or leaves it alone.        *)
LEMMA WalletStep == Books /\ [Next]_ledger => [Wallet!Next]_(Wallet!wallet)
<1> SUFFICES ASSUME Books, [Next]_ledger
             PROVE  Wallet!Next \/ UNCHANGED Wallet!wallet
  OBVIOUS
<1>0. Counters
  BY DEF Books, Counters, ReservedIsCovered
<1>1. CASE ReleaseStaleReservations
  BY <1>0, <1>1, WalletReleaseStale
<1>2. CASE Claims
  <2>1. PICK r \in Requests, e \in 1..MaxCredits, s \in BOOLEAN :
          ClaimCreditReservation(r, e, s)
    BY <1>2 DEF Claims
  <2>2. e \in Nat
    BY <2>1, LedgerAssumption
  <2> QED BY <1>0, <2>1, <2>2, WalletClaim
<1>3. CASE \E r \in Requests : ReleaseReservation(r)
  BY <1>0, <1>3, WalletRelease
<1>4. CASE Settlements
  <2>1. PICK r \in Requests, a \in 0..MaxCredits : SettleReservation(r, a)
    BY <1>4 DEF Settlements
  <2>2. a \in Nat
    BY <2>1, LedgerAssumption
  <2> QED BY <1>0, <2>1, <2>2, WalletSettle
<1>5. CASE Grants
  <2>1. PICK l \in Lots, c \in PackCredits : AddPurchasedCredits(l, c)
    BY <1>5 DEF Grants
  <2>2. c \in Nat
    BY <2>1, LedgerAssumption
  <2> QED BY <1>0, <2>1, <2>2, WalletGrant
<1>6. CASE Refunds
  <2>1. PICK l \in Lots, c \in PackCredits :
          ReversePurchasedCredits(l,
            Least(c, Monus(credits_remaining[l], credits_reserved[l])),
            <<"purchase_refund", l>>)
    BY <1>6 DEF Refunds
  <2>2. c \in Nat /\ credits_remaining[l] \in Nat /\ credits_reserved[l] \in Nat
    BY <2>1, LedgerAssumption DEF Books, TypeOK
  <2>3. Least(c, Monus(credits_remaining[l], credits_reserved[l])) \in Nat
    BY <2>2 DEF Least, Monus
  <2> QED BY <1>0, <2>1, <2>3, WalletRefund
<1>7. CASE \E p \in Periods : ResetCreditsForRenewal(p)
  BY <1>0, <1>7, WalletRestart DEF ResetCreditsForRenewal
<1>8. CASE \E k \in RestoreKeys : RestoreIncludedMonthlyCredits(k)
  BY <1>0, <1>8, WalletRestart DEF RestoreIncludedMonthlyCredits
<1>9. CASE \E n \in Limits : ChangeLimit(n)
  BY <1>9 DEF ChangeLimit, Wallet!wallet, balanceVars, holdVars, chargeVars
<1>10. CASE \E r \in Requests : TtlElapses(r)
  BY <1>10 DEF TtlElapses, Wallet!wallet, balanceVars, holdVars, chargeVars
<1>11. CASE UNCHANGED ledger
  BY <1>11 DEF ledger, Wallet!wallet, balanceVars, holdVars, chargeVars
<1> QED BY <1>1, <1>2, <1>3, <1>4, <1>5, <1>6, <1>7, <1>8, <1>9, <1>10, <1>11 DEF Next

(* The credit account implements the prepaid wallet: whatever the order of  *)
(* claims, settlements, releases, expiries, renewals, grants and refunds,   *)
(* no operation of service.py takes purchased credits another live request  *)
(* holds, and each request opens and closes once.                           *)
THEOREM LedgerImplementsWallet == Spec => ImplementsWallet
<1>1. Spec => []IInv
  BY Invariance
<1>2. Init => Wallet!Init
  BY WalletInit
<1>3. IInv /\ [Next]_ledger => [Wallet!Next]_(Wallet!wallet)
  BY WalletStep DEF IInv
<1> QED BY <1>1, <1>2, <1>3, PTL DEF Spec, ImplementsWallet, Wallet!Spec
=============================================================================
