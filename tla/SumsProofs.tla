----------------------------- MODULE SumsProofs -----------------------------
(***************************************************************************)
(* What SumOf computes.  The induction over finite sets is a minimal       *)
(* counterexample under the strict subset order, which needs no theorem    *)
(* with an operator parameter.                                             *)
(***************************************************************************)
EXTENDS Sums, FiniteSetTheorems, WellFoundedInduction, TLAPS

\* Among some subsets of a finite set there is a minimal one.
LEMMA MinimalSubset ==
  ASSUME NEW S, IsFiniteSet(S), NEW Bad, Bad \subseteq SUBSET S, Bad # {}
  PROVE  \E s \in Bad : \A r \in Bad : r \subseteq s => r = s
<1>1. Bad \subseteq FiniteSubsetsOf(S)
  BY FS_Subset DEF FiniteSubsetsOf
<1>2. PICK s \in Bad : \A r \in Bad : <<r, s>> \notin StrictSubsetOrdering(S)
  BY <1>1, WFMin, FS_StrictSubsetOrderingWellFounded
<1>3. \A r \in Bad : r \subseteq s /\ r # s => <<r, s>> \in StrictSubsetOrdering(S)
  BY DEF StrictSubsetOrdering
<1>4. \A r \in Bad : r \subseteq s => r = s
  BY <1>2, <1>3
<1>. QED  BY <1>4

\* The element the fold takes first.
Picked(s) == CHOOSE x \in s : TRUE

LEMMA PickedIn == ASSUME NEW s, s # {} PROVE Picked(s) \in s
  BY DEF Picked

\* The recursion of the fold, over the subsets of S.
Folds(w, f, S) ==
  f = [s \in SUBSET S |-> IF s = {} THEN 0 ELSE w[Picked(s)] + f[s \ {Picked(s)}]]

LEMMA FoldsAt ==
  ASSUME NEW w, NEW f, NEW S, Folds(w, f, S), NEW s, s \subseteq S
  PROVE  f[s] = IF s = {} THEN 0 ELSE w[Picked(s)] + f[s \ {Picked(s)}]
  BY DEF Folds

LEMMA SumIsFold ==
  ASSUME NEW w, NEW S
  PROVE  SumOf(w, S) = (CHOOSE f : Folds(w, f, S))[S]
  BY DEF SumOf, MapThenSumSet, MapThenFoldSet, Folds, Picked

\* Two folds agree where both are defined.
LEMMA FoldsAgree ==
  ASSUME NEW w, NEW f, NEW g, NEW S, NEW R, IsFiniteSet(S),
         Folds(w, f, S), Folds(w, g, R), NEW s, s \subseteq S, s \subseteq R
  PROVE  f[s] = g[s]
<1>. DEFINE Bad == {r \in SUBSET S : r \subseteq R /\ f[r] # g[r]}
<1>1. SUFFICES ASSUME Bad # {} PROVE FALSE
  OBVIOUS
<1>2. PICK r \in Bad : \A q \in Bad : q \subseteq r => q = r
  <2>1. Bad \subseteq SUBSET S
    OBVIOUS
  <2>. HIDE DEF Bad
  <2>. QED  BY <1>1, <2>1, MinimalSubset
<1>3. r # {}
  BY <1>2, FoldsAt
<1>4. r \ {Picked(r)} \subseteq r /\ r \ {Picked(r)} # r
  BY <1>3, PickedIn
<1>5. f[r \ {Picked(r)}] = g[r \ {Picked(r)}]
  BY <1>2, <1>4
<1>6. r \subseteq S /\ r \subseteq R
  BY <1>2
<1>7. f[r] = w[Picked(r)] + f[r \ {Picked(r)}] /\ g[r] = w[Picked(r)] + g[r \ {Picked(r)}]
  BY <1>3, <1>6, FoldsAt
<1>. QED  BY <1>2, <1>5, <1>7

\* Every finite set has its fold.
LEMMA FoldExists ==
  ASSUME NEW w, NEW S, IsFiniteSet(S)
  PROVE  \E f : Folds(w, f, S)
<1>. DEFINE Bad == {r \in SUBSET S : ~ \E f : Folds(w, f, r)}
<1>1. SUFFICES ASSUME Bad # {} PROVE FALSE
  OBVIOUS
<1>2. PICK s \in Bad : \A q \in Bad : q \subseteq s => q = s
  <2>1. Bad \subseteq SUBSET S
    OBVIOUS
  <2>. HIDE DEF Bad
  <2>. QED  BY <1>1, <2>1, MinimalSubset
<1>. DEFINE at(r) == (CHOOSE q : Folds(w, q, r))[r]
            g == [r \in SUBSET s |->
                    IF r = {} THEN 0 ELSE w[Picked(r)] + at(r \ {Picked(r)})]
<1>3. ASSUME NEW r, r \subseteq s, r # s
      PROVE  Folds(w, CHOOSE q : Folds(w, q, r), r)
  <2>1. \E q : Folds(w, q, r)
    BY <1>2, <1>3
  <2>. QED  BY <2>1
<1>4. ASSUME NEW r, r \subseteq s, r # s
      PROVE  at(r) = IF r = {} THEN 0 ELSE w[Picked(r)] + at(r \ {Picked(r)})
  <2>. DEFINE f == CHOOSE q : Folds(w, q, r)
              p == r \ {Picked(r)}
              h == CHOOSE q : Folds(w, q, p)
  <2>1. Folds(w, f, r)
    BY <1>3, <1>4
  <2>2. CASE r = {}
    BY <2>1, <2>2, FoldsAt
  <2>3. CASE r # {}
    <3>1. p \subseteq r /\ p # s
      BY <2>3, <1>4, PickedIn
    <3>2. Folds(w, h, p)
      BY <3>1, <1>3, <1>4
    <3>3. IsFiniteSet(r)
      BY <1>4, FS_Subset
    <3>4. f[p] = h[p]
      BY <2>1, <3>1, <3>2, <3>3, FoldsAgree
    <3>. QED  BY <2>1, <2>3, <3>4, FoldsAt
  <2>. QED  BY <2>2, <2>3
<1>5. ASSUME NEW r, r \subseteq s, r # {}
      PROVE  g[r \ {Picked(r)}] = at(r \ {Picked(r)})
  <2>. DEFINE p == r \ {Picked(r)}
  <2>1. p \subseteq s /\ p # s
    BY <1>5, PickedIn
  <2>2. at(p) = IF p = {} THEN 0 ELSE w[Picked(p)] + at(p \ {Picked(p)})
    BY <2>1, <1>4
  <2>3. g[p] = IF p = {} THEN 0 ELSE w[Picked(p)] + at(p \ {Picked(p)})
    <3>. HIDE DEF p, at
    <3>. QED  BY <2>1
  <2>. QED  BY <2>2, <2>3
<1>. HIDE DEF at
<1>6. Folds(w, g, s)
  <2>. DEFINE k == [r \in SUBSET s |-> IF r = {} THEN 0 ELSE w[Picked(r)] + g[r \ {Picked(r)}]]
  <2>1. ASSUME NEW r \in SUBSET s PROVE g[r] = k[r]
    <3>1. CASE r = {}
      BY <3>1
    <3>2. CASE r # {}
      <4>1. g[r] = w[Picked(r)] + at(r \ {Picked(r)})
        BY <3>2
      <4>2. k[r] = w[Picked(r)] + g[r \ {Picked(r)}]
        BY <3>2
      <4>. QED  BY <4>1, <4>2, <1>5, <3>2
    <3>. QED  BY <3>1, <3>2
  <2>2. g = k
    BY <2>1
  <2>. QED  BY <2>2 DEF Folds
<1>. HIDE DEF g
<1>. QED  BY <1>2, <1>6

LEMMA SumFolds ==
  ASSUME NEW w, NEW S, IsFiniteSet(S), NEW f, Folds(w, f, S), NEW s, s \subseteq S
  PROVE  SumOf(w, s) = f[s]
<1>1. IsFiniteSet(s)
  BY FS_Subset
<1>. DEFINE h == CHOOSE g : Folds(w, g, s)
<1>2. Folds(w, h, s)
  BY <1>1, FoldExists
<1>3. SumOf(w, s) = h[s]
  BY SumIsFold
<1>. QED  BY <1>1, <1>2, <1>3, FoldsAgree

\* The empty sum, and one step of the fold.
THEOREM SumEmpty == \A w : SumOf(w, {}) = 0
<1>. SUFFICES ASSUME NEW w PROVE SumOf(w, {}) = 0
  OBVIOUS
<1>1. PICK f : Folds(w, f, {})
  BY FoldExists, FS_EmptySet
<1>. QED  BY <1>1, SumFolds, FoldsAt, FS_EmptySet

LEMMA SumStep ==
  ASSUME NEW w, NEW S, IsFiniteSet(S), S # {}
  PROVE  SumOf(w, S) = w[Picked(S)] + SumOf(w, S \ {Picked(S)})
<1>1. PICK f : Folds(w, f, S)
  BY FoldExists
<1>2. SumOf(w, S) = f[S] /\ SumOf(w, S \ {Picked(S)}) = f[S \ {Picked(S)}]
  BY <1>1, SumFolds
<1>. QED  BY <1>1, <1>2, FoldsAt

\* A sum of integers is an integer, a sum of naturals a natural.
THEOREM SumType ==
  ASSUME NEW S, IsFiniteSet(S), NEW w, \A x \in S : w[x] \in Int
  PROVE  /\ SumOf(w, S) \in Int
         /\ (\A x \in S : w[x] >= 0) => SumOf(w, S) >= 0
<1>. DEFINE Good(r) == /\ SumOf(w, r) \in Int
                       /\ (\A x \in S : w[x] >= 0) => SumOf(w, r) >= 0
            Bad == {r \in SUBSET S : ~Good(r)}
<1>1. SUFFICES ASSUME Bad # {} PROVE FALSE
  OBVIOUS
<1>2. PICK s \in Bad : \A q \in Bad : q \subseteq s => q = s
  <2>1. Bad \subseteq SUBSET S
    OBVIOUS
  <2>. HIDE DEF Bad
  <2>. QED  BY <1>1, <2>1, MinimalSubset
<1>3. s # {}
  <2>1. Good({})
    BY SumEmpty
  <2>. QED  BY <1>2, <2>1
<1>4. s \ {Picked(s)} \subseteq s /\ s \ {Picked(s)} # s /\ Picked(s) \in S
  BY <1>3, PickedIn
<1>5. Good(s \ {Picked(s)})
  BY <1>2, <1>4
<1>6. SumOf(w, s) = w[Picked(s)] + SumOf(w, s \ {Picked(s)})
  BY <1>3, SumStep, FS_Subset
<1>7. Good(s)
  BY <1>4, <1>5, <1>6
<1>. QED  BY <1>2, <1>7

\* Any element may be taken first.
THEOREM SumTake ==
  ASSUME NEW S, IsFiniteSet(S), NEW w, \A x \in S : w[x] \in Int, NEW y \in S
  PROVE  SumOf(w, S) = w[y] + SumOf(w, S \ {y})
<1>. DEFINE Bad == {r \in SUBSET S : \E z \in r : SumOf(w, r) # w[z] + SumOf(w, r \ {z})}
<1>1. SUFFICES ASSUME Bad # {} PROVE FALSE
  OBVIOUS
<1>2. PICK s \in Bad : \A q \in Bad : q \subseteq s => q = s
  <2>1. Bad \subseteq SUBSET S
    OBVIOUS
  <2>. HIDE DEF Bad
  <2>. QED  BY <1>1, <2>1, MinimalSubset
<1>3. PICK z \in s : SumOf(w, s) # w[z] + SumOf(w, s \ {z})
  BY <1>2
<1>. DEFINE x == Picked(s)
<1>4. x \in s /\ SumOf(w, s) = w[x] + SumOf(w, s \ {x})
  BY <1>3, PickedIn, SumStep, FS_Subset
<1>5. x # z
  BY <1>3, <1>4
<1>6. SumOf(w, s \ {x}) = w[z] + SumOf(w, (s \ {x}) \ {z})
  <2>1. s \ {x} \notin Bad
    BY <1>2, <1>4
  <2>. QED  BY <2>1, <1>5, <1>3
<1>7. SumOf(w, s \ {z}) = w[x] + SumOf(w, (s \ {z}) \ {x})
  <2>1. s \ {z} \notin Bad
    BY <1>2, <1>3
  <2>. QED  BY <2>1, <1>4, <1>5
<1>8. (s \ {x}) \ {z} = (s \ {z}) \ {x}
  OBVIOUS
<1>9. IsFiniteSet((s \ {z}) \ {x}) /\ (s \ {z}) \ {x} \subseteq S
  BY FS_Subset
<1>10. SumOf(w, (s \ {z}) \ {x}) \in Int /\ w[x] \in Int /\ w[z] \in Int
  BY <1>9, <1>4, SumType
<1>. HIDE DEF x
<1>11. SumOf(w, s) = w[x] + (w[z] + SumOf(w, (s \ {z}) \ {x}))
  BY <1>4, <1>6, <1>8
<1>12. SumOf(w, s) = w[z] + (w[x] + SumOf(w, (s \ {z}) \ {x}))
  BY <1>10, <1>11
<1>. QED  BY <1>3, <1>7, <1>12

THEOREM SumAdd ==
  ASSUME NEW S, IsFiniteSet(S), NEW w, NEW y, y \notin S, \A x \in S \cup {y} : w[x] \in Int
  PROVE  SumOf(w, S \cup {y}) = SumOf(w, S) + w[y]
<1>1. IsFiniteSet(S \cup {y}) /\ (S \cup {y}) \ {y} = S
  BY FS_AddElement
<1>2. SumOf(w, S \cup {y}) = w[y] + SumOf(w, (S \cup {y}) \ {y})
  BY <1>1, SumTake
<1>3. SumOf(w, S) \in Int
  BY SumType
<1>4. SumOf(w, S \cup {y}) = w[y] + SumOf(w, S)
  BY <1>1, <1>2
<1>. QED  BY <1>3, <1>4

\* Only the weights of the elements matter.
THEOREM SumSame ==
  ASSUME NEW S, IsFiniteSet(S), NEW v, NEW w, \A x \in S : v[x] = w[x]
  PROVE  SumOf(v, S) = SumOf(w, S)
<1>. DEFINE Bad == {r \in SUBSET S : SumOf(v, r) # SumOf(w, r)}
<1>1. SUFFICES ASSUME Bad # {} PROVE FALSE
  OBVIOUS
<1>2. PICK s \in Bad : \A q \in Bad : q \subseteq s => q = s
  <2>1. Bad \subseteq SUBSET S
    OBVIOUS
  <2>. HIDE DEF Bad
  <2>. QED  BY <1>1, <2>1, MinimalSubset
<1>3. s # {}
  BY <1>2, SumEmpty
<1>4. s \ {Picked(s)} \subseteq s /\ s \ {Picked(s)} # s /\ Picked(s) \in S
  BY <1>3, PickedIn
<1>5. SumOf(v, s \ {Picked(s)}) = SumOf(w, s \ {Picked(s)})
  BY <1>2, <1>4
<1>6. /\ SumOf(v, s) = v[Picked(s)] + SumOf(v, s \ {Picked(s)})
      /\ SumOf(w, s) = w[Picked(s)] + SumOf(w, s \ {Picked(s)})
  BY <1>3, SumStep, FS_Subset
<1>. QED  BY <1>2, <1>4, <1>5, <1>6

\* More naturals, a larger sum.
THEOREM SumSubset ==
  ASSUME NEW S, IsFiniteSet(S), NEW w, \A x \in S : w[x] \in Nat, NEW R, R \subseteq S
  PROVE  SumOf(w, R) <= SumOf(w, S)
<1>. DEFINE Bad == {r \in SUBSET S : R \subseteq r /\ ~(SumOf(w, R) <= SumOf(w, r))}
<1>1. SUFFICES ASSUME Bad # {} PROVE FALSE
  OBVIOUS
<1>2. PICK s \in Bad : \A q \in Bad : q \subseteq s => q = s
  <2>1. Bad \subseteq SUBSET S
    OBVIOUS
  <2>. HIDE DEF Bad
  <2>. QED  BY <1>1, <2>1, MinimalSubset
<1>3. IsFiniteSet(R) /\ IsFiniteSet(s)
  BY FS_Subset
<1>4. SumOf(w, R) \in Int /\ \A r \in SUBSET S : SumOf(w, r) \in Int
  BY SumType, FS_Subset
<1>5. PICK y \in s : y \notin R
  <2>1. R \subseteq s /\ ~(SumOf(w, R) <= SumOf(w, s))
    BY <1>2
  <2>2. R # s
    BY <2>1, <1>4
  <2>. QED  BY <2>1, <2>2
<1>6. SumOf(w, s) = w[y] + SumOf(w, s \ {y})
  BY <1>3, SumTake
<1>7. SumOf(w, R) <= SumOf(w, s \ {y})
  <2>1. s \ {y} \notin Bad
    BY <1>2, <1>5
  <2>. QED  BY <2>1, <1>5, <1>2
<1>. QED  BY <1>2, <1>4, <1>6, <1>7

\* The sum over two sets that share nothing.
THEOREM SumUnion ==
  ASSUME NEW S, IsFiniteSet(S), NEW R, IsFiniteSet(R), S \cap R = {},
         NEW w, \A x \in S \cup R : w[x] \in Int
  PROVE  SumOf(w, S \cup R) = SumOf(w, S) + SumOf(w, R)
<1>. DEFINE Bad == {r \in SUBSET S : SumOf(w, r \cup R) # SumOf(w, r) + SumOf(w, R)}
<1>1. SUFFICES ASSUME Bad # {} PROVE FALSE
  OBVIOUS
<1>2. PICK s \in Bad : \A q \in Bad : q \subseteq s => q = s
  <2>1. Bad \subseteq SUBSET S
    OBVIOUS
  <2>. HIDE DEF Bad
  <2>. QED  BY <1>1, <2>1, MinimalSubset
<1>3. SumOf(w, R) \in Int
  BY SumType
<1>4. PICK y \in s : TRUE
  <2>1. {} \notin Bad
    <3>1. {} \cup R = R /\ SumOf(w, {}) = 0
      BY SumEmpty
    <3>. QED  BY <1>3, <3>1
  <2>. QED  BY <1>2, <2>1
<1>. DEFINE t == s \ {y}
<1>5. SumOf(w, t \cup R) = SumOf(w, t) + SumOf(w, R)
  <2>1. t \notin Bad
    BY <1>2, <1>4
  <2>. QED  BY <2>1
<1>6. IsFiniteSet(t) /\ IsFiniteSet(t \cup R) /\ y \notin t \cup R /\ y \notin t
  <2>1. IsFiniteSet(t)
    BY FS_Subset
  <2>. QED  BY <2>1, FS_Union
<1>7. t \cup {y} = s /\ (t \cup R) \cup {y} = s \cup R /\ t \cup {y} \subseteq S
  BY <1>4
<1>. HIDE DEF t
<1>8. SumOf(w, t \cup {y}) = SumOf(w, t) + w[y]
  <2>1. \A x \in t \cup {y} : w[x] \in Int
    BY <1>7
  <2>2. IsFiniteSet(t) /\ y \notin t
    BY <1>6
  <2>. QED  BY <2>1, <2>2, SumAdd
<1>9. SumOf(w, (t \cup R) \cup {y}) = SumOf(w, t \cup R) + w[y]
  <2>1. \A x \in (t \cup R) \cup {y} : w[x] \in Int
    BY <1>7
  <2>2. IsFiniteSet(t \cup R) /\ y \notin t \cup R
    BY <1>6
  <2>. QED  BY <2>1, <2>2, SumAdd
<1>10. SumOf(w, t) \in Int /\ w[y] \in Int
  <2>1. \A x \in t : w[x] \in Int
    BY <1>7
  <2>2. IsFiniteSet(t)
    BY <1>6
  <2>. QED  BY <1>7, <2>1, <2>2, SumType
<1>11. SumOf(w, s \cup R) = SumOf(w, s) + SumOf(w, R)
  <2>1. SumOf(w, s \cup R) = (SumOf(w, t) + SumOf(w, R)) + w[y]
    BY <1>5, <1>7, <1>9
  <2>2. SumOf(w, s) = SumOf(w, t) + w[y]
    BY <1>7, <1>8
  <2>. QED  BY <1>3, <1>10, <2>1, <2>2
<1>. QED  BY <1>2, <1>11

\* A sum of zeros.
THEOREM SumZero ==
  ASSUME NEW S, IsFiniteSet(S), NEW w, \A x \in S : w[x] = 0
  PROVE  SumOf(w, S) = 0
<1>. DEFINE Bad == {r \in SUBSET S : SumOf(w, r) # 0}
<1>1. SUFFICES ASSUME Bad # {} PROVE FALSE
  OBVIOUS
<1>2. PICK s \in Bad : \A q \in Bad : q \subseteq s => q = s
  <2>1. Bad \subseteq SUBSET S
    OBVIOUS
  <2>. HIDE DEF Bad
  <2>. QED  BY <1>1, <2>1, MinimalSubset
<1>3. s # {}
  BY <1>2, SumEmpty
<1>4. s \ {Picked(s)} \subseteq s /\ s \ {Picked(s)} # s /\ Picked(s) \in S
  BY <1>3, PickedIn
<1>5. SumOf(w, s \ {Picked(s)}) = 0
  BY <1>2, <1>4
<1>6. SumOf(w, s) = w[Picked(s)] + SumOf(w, s \ {Picked(s)})
  BY <1>3, SumStep, FS_Subset
<1>7. SumOf(w, s) = 0
  BY <1>4, <1>5, <1>6
<1>. QED  BY <1>2, <1>7
=============================================================================
