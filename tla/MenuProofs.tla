----------------------------- MODULE MenuProofs -----------------------------
(***************************************************************************)
(* Proofs about what the guests' page shows: the categories and products   *)
(* that are live in whatever tree, an offer as its editors leave it, and   *)
(* what the book of all offers makes an item cost.                         *)
(***************************************************************************)
EXTENDS Menu, Offers, Pricing, FiniteSetTheorems, WellFoundedInduction, TLAPS

(* Least elements, and what a walk of so many steps reaches *)

\* Naturals are well ordered, as a relation without an operator in it.
Below == {ss \in Nat \X Nat : ss[1] < ss[2]}

LEMMA BelowIsWellFounded == IsWellFoundedOn(Below, Nat)
  BY NatLessThanWellFounded DEF OpToRel, Below

LEMMA LeastExists ==
  ASSUME NEW T \in SUBSET Nat, T # {}
  PROVE  \E x \in T : \A y \in T : x <= y
<1>1. \E x \in T : \A y \in T : <<y, x>> \notin Below
  BY BelowIsWellFounded, WFMin
<1>2. \A x \in T, y \in T : <<y, x>> \notin Below => x <= y
  BY DEF Below
<1> QED
  BY <1>1, <1>2

\* Induction up to K, for a set of numbers.
LEMMA StepByStep ==
  ASSUME NEW K \in Nat, NEW G, 0 \in G, \A n \in 1 .. K : n - 1 \in G => n \in G
  PROVE  \A n \in 0 .. K : n \in G
<1> DEFINE T == {n \in 0 .. K : n \notin G}
<1> SUFFICES ASSUME T # {} PROVE FALSE
  OBVIOUS
<1>1. T \in SUBSET Nat
  OBVIOUS
<1>2. PICK m \in T : \A n \in T : m <= n
  <2> HIDE DEF T
  <2> QED
    BY <1>1, LeastExists
<1>3. m \in 1 .. K /\ m \notin G
  BY <1>2
<1>4. m - 1 \in 0 .. K /\ m - 1 \notin T
  BY <1>2, <1>3
<1> QED
  BY <1>3, <1>4

\* K steps from `base', in S.
Steps(S) == [S -> S]

Walk(f, K, S, base, step) ==
    f \in [0 .. K -> S] /\ f[0] = base /\ \A n \in 1 .. K : f[n] = step[f[n - 1]]

\* So many steps can be made from any start.
LEMMA WalkExists ==
  ASSUME NEW K \in Nat, NEW S, NEW base \in S, NEW step \in Steps(S)
  PROVE  \E f : Walk(f, K, S, base, step)
<1> USE DEF Steps
<1> DEFINE Good(n) == \E f \in [0 .. n -> S] : f[0] = base /\ \A i \in 1 .. n : f[i] = step[f[i - 1]]
           G == {n \in 0 .. K : Good(n)}
<1>1. 0 \in G
  <2> DEFINE f == [i \in 0 .. 0 |-> base]
  <2>1. f \in [0 .. 0 -> S] /\ f[0] = base /\ \A i \in 1 .. 0 : f[i] = step[f[i - 1]]
    OBVIOUS
  <2> HIDE DEF f
  <2>2. Good(0)
    BY <2>1, Zenon
  <2> QED
    BY <2>2
<1>2. ASSUME NEW n \in 1 .. K, n - 1 \in G PROVE n \in G
  <2> HIDE DEF Good
  <2>0. Good(n - 1)
    BY <1>2
  <2> USE DEF Good
  <2>1. PICK f \in [0 .. n - 1 -> S] : f[0] = base /\ \A i \in 1 .. n - 1 : f[i] = step[f[i - 1]]
    BY <2>0, Zenon
  <2> DEFINE g == [i \in 0 .. n |-> IF i = n THEN step[f[n - 1]] ELSE f[i]]
  <2>2. g \in [0 .. n -> S] /\ g[0] = base
    BY <2>1
  <2>3. ASSUME NEW i \in 1 .. n PROVE g[i] = step[g[i - 1]]
    <3>1. i - 1 \in 0 .. n - 1 /\ g[i - 1] = f[i - 1]
      OBVIOUS
    <3>2. CASE i = n
      BY <3>1, <3>2
    <3>3. CASE i # n
      <4>1. i \in 1 .. n - 1 /\ g[i] = f[i]
        BY <3>3
      <4> QED
        BY <2>1, <3>1, <4>1
    <3> QED
      BY <3>2, <3>3
  <2> HIDE DEF g
  <2>4. Good(n)
    BY <2>2, <2>3, Zenon
  <2> QED
    BY <2>4
<1> HIDE DEF G
<1>3. \A n \in 0 .. K : n \in G
  BY <1>1, <1>2, StepByStep
<1>4. K \in G
  BY <1>3
<1> QED
  BY <1>4, Zenon DEF G, Walk

\* Steps that only add to what they start from,
Grow(S, base, step) ==
    /\ \A X, Y \in S : X \subseteq Y => step[X] \subseteq step[Y]
    /\ base \subseteq step[base] /\ (base = {} => step[base] = base)

\* and the least set with that start which a step leaves alone: they are there
\* after as many steps as there are elements.
Least(S, base, step, R) ==
    /\ R \in S /\ base \subseteq R /\ step[R] = R
    /\ \A X \in S : base \subseteq X /\ step[X] \subseteq X => R \subseteq X

LEMMA WalkSaturates ==
  ASSUME NEW T, IsFiniteSet(T), NEW K \in Nat, Cardinality(T) <= K + 1, NEW base \in SUBSET T,
         NEW step \in Steps(SUBSET T), Grow(SUBSET T, base, step),
         NEW f, Walk(f, K, SUBSET T, base, step)
  PROVE  Least(SUBSET T, base, step, f[K])
<1>0. /\ step \in [SUBSET T -> SUBSET T] /\ f \in [0 .. K -> SUBSET T]
      /\ \A X, Y \in SUBSET T : X \subseteq Y => step[X] \subseteq step[Y]
      /\ \A n \in 1 .. K : f[n] = step[f[n - 1]]
      /\ base = f[0] /\ f[0] \subseteq step[f[0]] /\ (f[0] = {} => step[f[0]] = f[0])
  BY Zenon DEF Steps, Grow, Walk
<1>1. \A n \in 0 .. K : f[n] \in SUBSET T /\ IsFiniteSet(f[n]) /\ Cardinality(f[n]) \in Nat
  <2>1. \A n \in 0 .. K : f[n] \in SUBSET T
    BY <1>0
  <2>2. \A n \in 0 .. K : IsFiniteSet(f[n])
    BY <2>1, FS_Subset, Zenon
  <2>3. \A n \in 0 .. K : Cardinality(f[n]) \in Nat
    BY <2>2, FS_CardinalityType, Zenon
  <2> QED
    BY <2>1, <2>2, <2>3
<1>2. \A n \in 0 .. K : f[n] \subseteq step[f[n]] /\ f[0] \subseteq f[n]
  <2> DEFINE G == {n \in 0 .. K : f[n] \subseteq step[f[n]] /\ f[0] \subseteq f[n]}
  <2>1. 0 \in G
    BY <1>0
  <2>2. ASSUME NEW n \in 1 .. K, n - 1 \in G PROVE n \in G
    <3>1. /\ n - 1 \in 0 .. K /\ n \in 0 .. K
          /\ f[n - 1] \subseteq step[f[n - 1]] /\ f[0] \subseteq f[n - 1] /\ f[n] = step[f[n - 1]]
      BY <1>0, <2>2
    <3>2. f[n - 1] \in SUBSET T /\ f[n] \in SUBSET T /\ f[n - 1] \subseteq f[n]
      BY <1>1, <3>1
    <3>3. step[f[n - 1]] \subseteq step[f[n]]
      BY <1>0, <3>2, Zenon
    <3> QED
      BY <3>1, <3>2, <3>3
  <2> HIDE DEF G
  <2>3. \A n \in 0 .. K : n \in G
    BY <2>1, <2>2, StepByStep
  <2> QED
    BY <2>3 DEF G
<1>3. \A n \in 0 .. K : step[f[n]] = f[n] \/ Cardinality(f[n]) >= n + 1
  <2> DEFINE G == {n \in 0 .. K : step[f[n]] = f[n] \/ Cardinality(f[n]) >= n + 1}
  <2>1. 0 \in G
    <3>1. /\ 0 \in 0 .. K /\ Cardinality(f[0]) \in Nat
          /\ f[0] # {} => Cardinality(f[0]) # 0
      BY <1>1, FS_EmptySet
    <3>2. step[f[0]] = f[0] \/ Cardinality(f[0]) >= 0 + 1
      BY <1>0, <3>1
    <3> QED
      BY <3>1, <3>2
  <2>2. ASSUME NEW n \in 1 .. K, n - 1 \in G PROVE n \in G
    <3>1. n - 1 \in 0 .. K /\ n \in 0 .. K /\ f[n] = step[f[n - 1]] /\ f[n - 1] \subseteq f[n]
      BY <1>0, <1>2
    <3>2. CASE step[f[n - 1]] = f[n - 1]
      BY <3>1, <3>2
    <3>3. CASE step[f[n - 1]] # f[n - 1] /\ Cardinality(f[n - 1]) >= n
      <4>1. Cardinality(f[n - 1]) <= Cardinality(f[n])
             /\ (Cardinality(f[n - 1]) = Cardinality(f[n]) => f[n - 1] = f[n])
        BY <1>1, <3>1, FS_Subset
      <4>2. Cardinality(f[n]) >= n + 1
        BY <1>1, <3>1, <3>3, <4>1
      <4> QED
        BY <3>1, <4>2
    <3> QED
      BY <2>2, <3>2, <3>3
  <2> HIDE DEF G
  <2>3. \A n \in 0 .. K : n \in G
    BY <2>1, <2>2, StepByStep
  <2> QED
    BY <2>3 DEF G
<1>4. step[f[K]] = f[K]
  <2>1. K \in 0 .. K
    OBVIOUS
  <2>2. CASE Cardinality(f[K]) >= K + 1
    <3>1. Cardinality(T) \in Nat /\ Cardinality(f[K]) <= Cardinality(T)
           /\ (Cardinality(f[K]) = Cardinality(T) => f[K] = T)
      BY <1>1, <2>1, FS_Subset, FS_CardinalityType
    <3>2. f[K] = T
      BY <1>1, <2>1, <2>2, <3>1
    <3>3. step[f[K]] \in SUBSET T /\ f[K] \subseteq step[f[K]]
      BY <1>0, <1>1, <1>2, <2>1
    <3> QED
      BY <3>2, <3>3
  <2> QED
    BY <1>3, <2>1, <2>2
<1>5. ASSUME NEW X \in SUBSET T, f[0] \subseteq X, step[X] \subseteq X PROVE f[K] \subseteq X
  <2> DEFINE G == {n \in 0 .. K : f[n] \subseteq X}
  <2>1. 0 \in G
    BY <1>5
  <2>2. ASSUME NEW n \in 1 .. K, n - 1 \in G PROVE n \in G
    <3>1. n - 1 \in 0 .. K /\ n \in 0 .. K /\ f[n] = step[f[n - 1]] /\ f[n - 1] \subseteq X
      BY <1>0, <2>2
    <3>2. f[n - 1] \in SUBSET T
      BY <1>1, <3>1
    <3>3. step[f[n - 1]] \subseteq step[X]
      BY <1>0, <3>1, <3>2, Zenon
    <3> QED
      BY <1>5, <3>1, <3>3
  <2> HIDE DEF G
  <2>3. \A n \in 0 .. K : n \in G
    BY <2>1, <2>2, StepByStep
  <2> QED
    BY <2>3 DEF G
<1>6. f[K] \in SUBSET T /\ f[0] \subseteq f[K]
  BY <1>1, <1>2
<1> QED
  BY <1>0, <1>4, <1>5, <1>6, Zenon DEF Least

-----------------------------------------------------------------------------
(* The tree of the menu *)

CatRow == [made : BOOLEAN, parent : Cats \cup {NoCat}, active : BOOLEAN, available : BOOLEAN]

ProdRow == [cat : Cats \cup {NoCat}, active : BOOLEAN, available : BOOLEAN, special : BOOLEAN]

TreeTypes ==
    /\ cat \in [Cats -> CatRow]
    /\ prod \in [Prods -> ProdRow]
    /\ \A x \in Prods : prod[x].active => prod[x].cat # NoCat

LEMMA CatsCounted == Cardinality(Cats) \in Nat /\ IsFiniteSet(Cats)
  BY MenuAssumption, FS_CardinalityType

Levels(f, base, step) ==
    f = [n \in 0 .. Cardinality(Cats) |-> IF n = 0 THEN base ELSE step[f[n - 1]]]

LEMMA ReachedIsLeast ==
  ASSUME NEW base \in SUBSET Cats, NEW step \in Steps(SUBSET Cats), Grow(SUBSET Cats, base, step)
  PROVE  Least(SUBSET Cats, base, step, Reached(base, step))
<1> DEFINE N == Cardinality(Cats)
           S == SUBSET Cats
           G(f) == {n \in 0 .. N : f[n] \in S}
<1>1. N \in Nat /\ N <= N + 1 /\ step \in [S -> S]
  BY CatsCounted DEF Steps
<1>2. base \in S /\ step \in Steps(S)
  OBVIOUS
<1> HIDE DEF N, S
<1>3. ASSUME NEW f, Walk(f, N, S, base, step) PROVE Levels(f, base, step)
  <2>1. /\ f \in [0 .. N -> S] /\ f[0] = base /\ \A n \in 1 .. N : f[n] = step[f[n - 1]]
    BY <1>3, Zenon DEF Walk
  <2>2. \A n \in 0 .. N : f[n] = IF n = 0 THEN base ELSE step[f[n - 1]]
    BY <1>1, <2>1
  <2>3. f = [n \in 0 .. N |-> f[n]]
    BY <2>1
  <2>4. f = [n \in 0 .. N |-> IF n = 0 THEN base ELSE step[f[n - 1]]]
    BY <2>2, <2>3, Zenon
  <2> QED
    BY <2>4, Zenon DEF Levels, N
<1>4. ASSUME NEW f, Levels(f, base, step) PROVE Walk(f, N, S, base, step)
  <2>1. f = [n \in 0 .. N |-> IF n = 0 THEN base ELSE step[f[n - 1]]]
    BY <1>4, Zenon DEF Levels, N
  <2>2. 0 \in 0 .. N /\ \A n \in 1 .. N : n \in 0 .. N /\ n # 0 /\ n - 1 \in 0 .. N
    BY <1>1
  <2>3. f = [n \in 0 .. N |-> f[n]] /\ f[0] = base /\ \A n \in 1 .. N : f[n] = step[f[n - 1]]
    BY <2>1, <2>2, Zenon
  <2>4. 0 \in G(f)
    BY <1>2, <2>2, <2>3
  <2>5. ASSUME NEW n \in 1 .. N, n - 1 \in G(f) PROVE n \in G(f)
    <3>1. f[n - 1] \in S /\ f[n] = step[f[n - 1]] /\ n \in 0 .. N
      BY <2>2, <2>3, <2>5
    <3> QED
      BY <1>1, <3>1
  <2> HIDE DEF G
  <2>6. \A n \in 0 .. N : n \in G(f)
    BY <1>1, <2>4, <2>5, StepByStep
  <2>7. \A n \in 0 .. N : f[n] \in S
    BY <2>6 DEF G
  <2>8. f \in [0 .. N -> S]
    BY <2>3, <2>7
  <2> QED
    BY <2>3, <2>8, Zenon DEF Walk
<1>5. PICK f : Levels(f, base, step) /\ Reached(base, step) = f[N]
  <2>1. Reached(base, step) = (CHOOSE f : Levels(f, base, step))[N]
    BY Zenon DEF Reached, Levels, N
  <2>2. \E f : Walk(f, N, S, base, step)
    BY <1>1, <1>2, WalkExists, Zenon
  <2> QED
    BY <1>3, <2>1, <2>2, Zenon
<1>6. Walk(f, N, S, base, step)
  BY <1>4, <1>5, Zenon
<1>7. Walk(f, Cardinality(Cats), SUBSET Cats, base, step)
  BY <1>6, Zenon DEF N, S
<1>8. Cardinality(Cats) \in Nat /\ Cardinality(Cats) <= Cardinality(Cats) + 1 /\ IsFiniteSet(Cats)
  BY CatsCounted
<1>9. Least(SUBSET Cats, base, step, f[Cardinality(Cats)])
  BY <1>7, <1>8, WalkSaturates
<1> QED
  BY <1>5, <1>9, Zenon DEF N

\* With a category its parent.
ClosedUp(X) == \A d \in X : cat[d].parent # NoCat => cat[d].parent \in X

\* Above c is the least set that has c and is closed.
LEMMA AncestorsAreAbove ==
  ASSUME TreeTypes, NEW c \in Cats
  PROVE  /\ Ancestors(c) \in SUBSET Cats /\ c \in Ancestors(c) /\ ClosedUp(Ancestors(c))
         /\ \A X \in SUBSET Cats : c \in X /\ ClosedUp(X) => Ancestors(c) \subseteq X
<1> DEFINE S == SUBSET Cats
           step == [X \in S |-> X \cup ({cat[d].parent : d \in X} \ {NoCat})]
<1>1. /\ step \in Steps(S) /\ {c} \in S
      /\ \A X \in S : step[X] = X \cup ({cat[d].parent : d \in X} \ {NoCat})
  BY DEF TreeTypes, CatRow, Steps
<1>2. Ancestors(c) = Reached({c}, step)
  BY DEF Ancestors
<1> HIDE DEF step
<1>3. Grow(S, {c}, step)
  BY <1>1 DEF Grow
<1>4. Least(S, {c}, step, Ancestors(c))
  BY <1>1, <1>2, <1>3, ReachedIsLeast, Zenon
<1>5. \A X \in S : ClosedUp(X) <=> step[X] \subseteq X
  BY <1>1 DEF ClosedUp
<1> QED
  BY <1>4, <1>5 DEF Least

\* The page's nodes are the least set that has the roots and, with a category,
\* its listed children ...
ClosedDown(X) == \A c \in X : ChildrenOf(c) \subseteq X

\* ... as far as a product is in or below them.
Stocked(X) == \A c \in Cats : PublicProducts(c) # {} \/ ChildrenOf(c) \cap X # {} => c \in X

LEMMA TreeIsBuiltAndFull ==
  ASSUME TreeTypes
  PROVE  \E B, F \in SUBSET Cats :
            /\ MenuTree = B \cap F
            /\ Roots \subseteq B /\ ClosedDown(B)
            /\ \A X \in SUBSET Cats : Roots \subseteq X /\ ClosedDown(X) => B \subseteq X
            /\ Stocked(F)
            /\ \A X \in SUBSET Cats : Stocked(X) => F \subseteq X
<1> DEFINE S == SUBSET Cats
           down == [X \in S |-> X \cup UNION {ChildrenOf(c) : c \in X}]
           shelf == {c \in Cats : PublicProducts(c) # {}}
           fill == [X \in S |-> X \cup {c \in Cats : ChildrenOf(c) \cap X # {}}]
           B == Reached(Roots, down)
           F == Reached(shelf, fill)
<1>1. /\ down \in Steps(S) /\ Roots \in S
      /\ \A X \in S : down[X] = X \cup UNION {ChildrenOf(c) : c \in X}
  BY DEF Steps, ChildrenOf, Roots
<1>2. /\ fill \in Steps(S) /\ shelf \in S
      /\ \A X \in S : fill[X] = X \cup {c \in Cats : ChildrenOf(c) \cap X # {}}
  BY DEF Steps
<1>3. MenuTree = B \cap F
  BY DEF MenuTree
<1> HIDE DEF down, fill, B, F
<1>4. Grow(S, Roots, down)
  <2>1. Roots \subseteq down[Roots] /\ (Roots = {} => down[Roots] = Roots)
    BY <1>1
  <2>2. ASSUME NEW X \in S, NEW Y \in S, X \subseteq Y PROVE down[X] \subseteq down[Y]
    BY <1>1, <2>2
  <2> QED
    BY <2>1, <2>2 DEF Grow
<1>5. Least(S, Roots, down, B)
  BY <1>1, <1>4, ReachedIsLeast, Zenon DEF B
<1>6. Grow(S, shelf, fill)
  BY <1>2 DEF Grow
<1>7. Least(S, shelf, fill, F)
  BY <1>2, <1>6, ReachedIsLeast, Zenon DEF F
<1>8. \A X \in S : ClosedDown(X) <=> down[X] \subseteq X
  BY <1>1 DEF ClosedDown
<1>9. \A X \in S : Stocked(X) <=> shelf \subseteq X /\ fill[X] \subseteq X
  BY <1>2 DEF Stocked
<1>10. /\ B \in S /\ Roots \subseteq B /\ ClosedDown(B)
       /\ \A X \in S : Roots \subseteq X /\ ClosedDown(X) => B \subseteq X
  BY <1>5, <1>8 DEF Least
<1>11. F \in S /\ Stocked(F) /\ \A X \in S : Stocked(X) => F \subseteq X
  BY <1>7, <1>9 DEF Least
<1> QED
  BY <1>3, <1>10, <1>11, Zenon

\* Open: all above is listed, up to a root.
Open(c) == (\A d \in Ancestors(c) : Listed(d)) /\ \E d \in Ancestors(c) : cat[d].parent = NoCat

LEMMA RootIsOpen ==
  ASSUME TreeTypes, NEW c \in Roots
  PROVE  Open(c)
<1>1. c \in Cats /\ Listed(c) /\ cat[c].parent = NoCat
  BY DEF Roots
<1>2. Ancestors(c) \subseteq {c} /\ c \in Ancestors(c)
  BY <1>1, AncestorsAreAbove DEF ClosedUp
<1> QED
  BY <1>1, <1>2 DEF Open

LEMMA ChildIsOpen ==
  ASSUME TreeTypes, NEW c \in Cats, Open(c), NEW d \in ChildrenOf(c)
  PROVE  d \in Cats /\ Open(d)
<1>1. d \in Cats /\ Listed(d) /\ cat[d].parent = c /\ c # NoCat
  BY MenuAssumption DEF ChildrenOf
<1>2. /\ Ancestors(c) \in SUBSET Cats /\ c \in Ancestors(c) /\ ClosedUp(Ancestors(c))
      /\ Ancestors(d) \in SUBSET Cats /\ d \in Ancestors(d) /\ ClosedUp(Ancestors(d))
  BY <1>1, AncestorsAreAbove
<1>3. Ancestors(d) \subseteq {d} \cup Ancestors(c)
  <2>1. ClosedUp({d} \cup Ancestors(c))
    BY <1>1, <1>2 DEF ClosedUp
  <2>2. {d} \cup Ancestors(c) \in SUBSET Cats
    BY <1>1, <1>2
  <2> QED
    BY <1>1, <2>1, <2>2, AncestorsAreAbove
<1>4. Ancestors(c) \subseteq Ancestors(d)
  <2>1. c \in Ancestors(d)
    BY <1>1, <1>2 DEF ClosedUp
  <2> QED
    BY <1>2, <2>1, AncestorsAreAbove
<1> QED
  BY <1>1, <1>3, <1>4 DEF Open

\* What the walk down from the roots visits are the open categories.
LEMMA BuiltIsOpen ==
  ASSUME TreeTypes, NEW B \in SUBSET Cats, Roots \subseteq B, ClosedDown(B),
         \A X \in SUBSET Cats : Roots \subseteq X /\ ClosedDown(X) => B \subseteq X
  PROVE  B = {c \in Cats : Open(c)}
<1>1. B \subseteq {c \in Cats : Open(c)}
  <2> DEFINE X == {c \in Cats : Open(c)}
  <2>1. Roots \subseteq X
    BY RootIsOpen DEF Roots
  <2>2. ClosedDown(X)
    BY ChildIsOpen DEF ClosedDown
  <2>3. X \in SUBSET Cats
    OBVIOUS
  <2> HIDE DEF X
  <2>4. B \subseteq X
    BY <2>1, <2>2, <2>3
  <2> QED
    BY <2>4 DEF X
<1>2. ASSUME NEW c \in Cats, Open(c), c \notin B PROVE FALSE
  <2> DEFINE X == {d \in Ancestors(c) : d \notin B}
  <2>1. Ancestors(c) \in SUBSET Cats /\ c \in Ancestors(c) /\ ClosedUp(Ancestors(c))
    BY AncestorsAreAbove
  <2>2. ClosedUp(X)
    <3> SUFFICES ASSUME NEW d \in X, cat[d].parent # NoCat PROVE cat[d].parent \in X
      BY DEF ClosedUp
    <3>1. cat[d].parent \in Ancestors(c) /\ Listed(d) /\ d \in Cats
      BY <1>2, <2>1 DEF ClosedUp, Open
    <3>2. d \in ChildrenOf(cat[d].parent)
      BY <3>1 DEF ChildrenOf
    <3>3. cat[d].parent \notin B
      BY <3>2 DEF ClosedDown
    <3> QED
      BY <3>1, <3>3
  <2>3. c \in X /\ X \in SUBSET Cats
    BY <1>2, <2>1
  <2> HIDE DEF X
  <2>4. Ancestors(c) \subseteq X
    BY <2>2, <2>3, AncestorsAreAbove
  <2>5. PICK d \in Ancestors(c) : cat[d].parent = NoCat /\ Listed(d)
    BY <1>2 DEF Open
  <2>6. d \in Roots
    BY <2>1, <2>5 DEF Roots
  <2> QED
    BY <2>4, <2>5, <2>6 DEF X
<1> QED
  BY <1>1, <1>2

\* What is above an open category is open: the way up is a line.
LEMMA AboveOpenIsOpen ==
  ASSUME TreeTypes, NEW B \in SUBSET Cats, B = {c \in Cats : Open(c)}, Roots \subseteq B, ClosedDown(B),
         \A X \in SUBSET Cats : Roots \subseteq X /\ ClosedDown(X) => B \subseteq X
  PROVE  ClosedUp(B)
<1> DEFINE X == Roots \cup UNION {ChildrenOf(c) : c \in B}
<1>1. X \in SUBSET Cats /\ Roots \subseteq X /\ X \subseteq B
  BY DEF Roots, ChildrenOf, ClosedDown
<1>2. ClosedDown(X)
  BY <1>1 DEF ClosedDown
<1>3. B \subseteq X
  BY <1>1, <1>2
<1>4. ASSUME NEW d \in B, cat[d].parent # NoCat PROVE cat[d].parent \in B
  <2>1. d \notin Roots
    BY <1>4 DEF Roots
  <2>2. PICK c \in B : d \in ChildrenOf(c)
    BY <1>3, <2>1
  <2> QED
    BY <2>2 DEF ChildrenOf
<1> QED
  BY <1>4 DEF ClosedUp

LEMMA PageIsLive == TreeTypes => MenuShowsWhatIsLive
<1> SUFFICES ASSUME TreeTypes PROVE MenuShowsWhatIsLive
  OBVIOUS
<1> DEFINE offered == {x \in Prods : prod[x].cat # NoCat /\ prod[x].active /\ prod[x].available}
           live == {x \in offered : Open(prod[x].cat)}
<1>1. PICK B \in SUBSET Cats, F \in SUBSET Cats :
         /\ MenuTree = B \cap F
         /\ Roots \subseteq B /\ ClosedDown(B)
         /\ \A X \in SUBSET Cats : Roots \subseteq X /\ ClosedDown(X) => B \subseteq X
         /\ Stocked(F)
         /\ \A X \in SUBSET Cats : Stocked(X) => F \subseteq X
  BY TreeIsBuiltAndFull
<1>2. B = {c \in Cats : Open(c)}
  BY <1>1, BuiltIsOpen
<1>3. ClosedUp(B)
  BY <1>1, <1>2, AboveOpenIsOpen
<1>4. \A x \in live : /\ prod[x].cat \in B /\ x \in PublicProducts(prod[x].cat)
                      /\ prod[x].cat \in F
  <2>1. \A x \in live : /\ prod[x].cat \in Cats /\ Open(prod[x].cat) /\ x \in PublicProducts(prod[x].cat)
    BY DEF TreeTypes, ProdRow, PublicProducts
  <2> QED
    BY <1>1, <1>2, <2>1 DEF Stocked
<1>5. \A c \in B : \A x \in PublicProducts(c) : x \in live /\ prod[x].cat = c
  BY <1>2, MenuAssumption DEF PublicProducts
<1> DEFINE shown == UNION {Ancestors(prod[x].cat) : x \in live}
<1>6. MenuProducts = live
  BY <1>1, <1>4, <1>5 DEF MenuProducts, Stocked
<1>7. ASSUME NEW x \in live PROVE Ancestors(prod[x].cat) \subseteq B \cap F
  <2> DEFINE c == prod[x].cat
             X == B \cap F
  <2>1. c \in B /\ c \in F /\ c \in Cats
    BY <1>4
  <2>2. ClosedUp(X)
    <3> SUFFICES ASSUME NEW d \in X, cat[d].parent # NoCat PROVE cat[d].parent \in X
      BY DEF ClosedUp
    <3>1. cat[d].parent \in B
      BY <1>3 DEF ClosedUp
    <3>2. Listed(d)
      BY <1>2, AncestorsAreAbove DEF Open
    <3>3. d \in ChildrenOf(cat[d].parent)
      BY <3>2 DEF ChildrenOf
    <3>4. cat[d].parent \in F
      BY <1>1, <3>1, <3>3 DEF Stocked
    <3> QED
      BY <3>1, <3>4
  <2>3. X \in SUBSET Cats /\ c \in X
    BY <2>1
  <2> HIDE DEF X, c
  <2>4. Ancestors(c) \subseteq X
    BY <2>1, <2>2, <2>3, AncestorsAreAbove
  <2> QED
    BY <2>4 DEF X, c
<1>8. B \cap F \subseteq shown
  <2> DEFINE X == {d \in Cats : d \in B => d \in shown}
  <2>1. ASSUME NEW c \in Cats, c \in B, PublicProducts(c) # {} PROVE c \in shown
    <3>1. PICK x \in live : prod[x].cat = c
      BY <1>5, <2>1
    <3>2. c \in Ancestors(c)
      BY AncestorsAreAbove
    <3> QED
      BY <3>1, <3>2
  <2>2. ASSUME NEW c \in Cats, c \in B, NEW d \in ChildrenOf(c), d \in X PROVE c \in shown
    <3>1. d \in B /\ cat[d].parent = c /\ c # NoCat
      BY <1>1, <2>2, MenuAssumption DEF ClosedDown, ChildrenOf
    <3>2. PICK x \in live : d \in Ancestors(prod[x].cat)
      BY <2>2, <3>1
    <3>3. prod[x].cat \in Cats
      BY <1>4
    <3>4. c \in Ancestors(prod[x].cat)
      BY <3>1, <3>2, <3>3, AncestorsAreAbove DEF ClosedUp
    <3> QED
      BY <3>4
  <2> HIDE DEF shown
  <2>3. Stocked(X)
    BY <2>1, <2>2 DEF Stocked
  <2>4. X \in SUBSET Cats
    OBVIOUS
  <2> HIDE DEF X
  <2>5. F \subseteq X
    BY <1>1, <2>3, <2>4
  <2> QED
    BY <2>5 DEF X
<1>9. MenuTree = shown
  BY <1>1, <1>7, <1>8
<1>10. PageProducts = {x \in offered : prod[x].special \/ x \in live}
  <2>1. Specials = {x \in offered : prod[x].special}
    BY DEF Specials, TreeTypes
  <2> QED
    BY <1>6, <2>1 DEF PageProducts
<1> QED
  BY <1>6, <1>9, <1>10, Zenon DEF MenuShowsWhatIsLive, Open

MenuInv == TreeTypes /\ move \in [Movers -> [cat : Cats \cup {NoCat}, parent : Cats \cup {NoCat}]]

LEMMA InitMenu == MnInit => MenuInv
  BY DEF MnInit, TreeTypes, CatRow, ProdRow, MenuInv, NoMove

LEMMA StepMenu == MenuInv /\ [MnNext]_mnVars => MenuInv'
<1> SUFFICES ASSUME MenuInv, [MnNext]_mnVars PROVE MenuInv'
  OBVIOUS
<1> DEFINE MoveRow == [cat : Cats \cup {NoCat}, parent : Cats \cup {NoCat}]
           Kept == \A x \in Prods : prod'[x].active => prod'[x].cat # NoCat
<1>1. /\ cat \in [Cats -> CatRow] /\ prod \in [Prods -> ProdRow] /\ move \in [Movers -> MoveRow]
      /\ \A x \in Prods : prod[x].active => prod[x].cat # NoCat
  BY DEF MenuInv, TreeTypes
<1>2. ASSUME cat' \in [Cats -> CatRow], prod' \in [Prods -> ProdRow], move' \in [Movers -> MoveRow], Kept
      PROVE  MenuInv'
  BY <1>2 DEF MenuInv, TreeTypes
<1>3. ASSUME UNCHANGED prod, cat' \in [Cats -> CatRow], move' \in [Movers -> MoveRow] PROVE MenuInv'
  BY <1>1, <1>2, <1>3
<1>4. \A c \in Cats : /\ [cat[c] EXCEPT !.available = FALSE] \in CatRow
                      /\ [cat[c] EXCEPT !.available = TRUE] \in CatRow
                      /\ [cat[c] EXCEPT !.active = FALSE] \in CatRow
                      /\ \A p \in Cats \cup {NoCat} : [cat[c] EXCEPT !.parent = p] \in CatRow
  BY <1>1 DEF CatRow
<1>5. ASSUME NEW c \in Cats, NEW p \in Cats \cup {NoCat}, NEW available \in BOOLEAN,
             CreateCategory(c, p, available)
      PROVE  MenuInv'
  <2>1. [made |-> TRUE, parent |-> p, active |-> TRUE, available |-> available] \in CatRow
    BY DEF CatRow
  <2> QED
    BY <1>1, <1>3, <1>5, <2>1 DEF CreateCategory
<1>6. ASSUME NEW c \in Cats, NEW p \in Cats \cup {NoCat}, NEW m \in Movers, CheckMove(m, c, p)
      PROVE  MenuInv'
  BY <1>1, <1>3, <1>6 DEF CheckMove
<1>7. ASSUME NEW m \in Movers, CommitMove(m) PROVE MenuInv'
  <2>1. move[m].cat \in Cats \cup {NoCat} /\ move[m].parent \in Cats \cup {NoCat}
    BY <1>1
  <2>2. cat' \in [Cats -> CatRow]
    BY <1>1, <1>4, <1>7, <2>1 DEF CommitMove
  <2> QED
    BY <1>1, <1>3, <1>7, <2>2 DEF CommitMove, NoMove
<1>8. ASSUME NEW c \in Cats, HideCategory(c) PROVE MenuInv'
  <2>1. cat' \in [Cats -> CatRow]
    BY <1>1, <1>4, <1>8 DEF HideCategory
  <2>2. \A x \in Prods : [prod[x] EXCEPT !.available = FALSE] \in ProdRow
    BY <1>1 DEF ProdRow
  <2>3. prod' \in [Prods -> ProdRow]
    BY <1>1, <1>8, <2>2 DEF HideCategory
  <2>4. \A x \in Prods : prod'[x].active = prod[x].active /\ prod'[x].cat = prod[x].cat
    BY <1>1, <1>8 DEF HideCategory, ProdRow
  <2> QED
    BY <1>1, <1>2, <1>8, <2>1, <2>3, <2>4 DEF HideCategory
<1>9. ASSUME NEW c \in Cats, ShowCategory(c) \/ DeleteCategory(c) PROVE MenuInv'
  <2>1. cat' \in [Cats -> CatRow]
    BY <1>1, <1>4, <1>9 DEF ShowCategory, DeleteCategory
  <2> QED
    BY <1>1, <1>3, <1>9, <2>1 DEF ShowCategory, DeleteCategory
<1>10. ASSUME NEW x \in Prods, DeleteProduct(x) PROVE MenuInv'
  <2>1. prod' \in [Prods -> ProdRow] /\ Kept
    BY <1>1, <1>10 DEF DeleteProduct, ProdRow
  <2> QED
    BY <1>1, <1>2, <1>10, <2>1 DEF DeleteProduct
<1>11. ASSUME NEW x \in Prods, NEW row \in ProdRow, row.cat \in Cats, prod' = [prod EXCEPT ![x] = row],
              UNCHANGED <<cat, move>>
       PROVE  MenuInv'
  <2>1. prod' \in [Prods -> ProdRow] /\ Kept
    BY <1>1, <1>11, MenuAssumption
  <2> QED
    BY <1>1, <1>2, <1>11, <2>1
<1>12. ASSUME NEW x \in Prods, NEW c \in Cats, NEW available \in BOOLEAN, CreateProduct(x, c, available)
       PROVE  MenuInv'
  <2>1. [cat |-> c, active |-> TRUE, available |-> available, special |-> FALSE] \in ProdRow
    BY DEF ProdRow
  <2> QED
    BY <1>11, <1>12, <2>1 DEF CreateProduct
<1>13. ASSUME NEW x \in Prods, NEW c \in Cats, NEW available \in BOOLEAN, NEW special \in BOOLEAN,
              UpdateProduct(x, c, available, special)
       PROVE  MenuInv'
  <2> DEFINE row == [prod[x] EXCEPT !.cat = c, !.available = available, !.special = special]
  <2>1. prod' = [prod EXCEPT ![x] = row]
    BY <1>13 DEF UpdateProduct
  <2>2. row \in ProdRow /\ row.cat = c
    BY <1>1 DEF ProdRow
  <2> HIDE DEF row
  <2> QED
    BY <1>11, <1>13, <2>1, <2>2 DEF UpdateProduct
<1>14. CASE UNCHANGED mnVars
  BY <1>1, <1>3, <1>14 DEF mnVars
<1>15. CASE MnNext
  BY <1>5, <1>6, <1>7, <1>8, <1>9, <1>10, <1>12, <1>13, <1>15, Zenon DEF MnNext
<1> QED
  BY <1>14, <1>15

(***************************************************************************)
(* In a menu of any size and of any shape, cycles of overlapping moves     *)
(* included: the tree of the page has exactly the products that are live   *)
(* up to a root, and exactly the categories above them, and nothing else   *)
(* is on the page but specials that are offered.                           *)
(***************************************************************************)
THEOREM MenuIsWhatIsLive == MnSpec => []MenuShowsWhatIsLive
<1>1. MenuInv => MenuShowsWhatIsLive
  BY PageIsLive DEF MenuInv
<1> QED
  BY <1>1, InitMenu, StepMenu, PTL DEF MnSpec

-----------------------------------------------------------------------------
(* One offer and its editors *)

OfferRow == [to : {"CATEGORY", "PRODUCTS"}, group : Groups \cup {NoGroup}, enabled : BOOLEAN, active : BOOLEAN]

FormRow == [to : {"CATEGORY", "PRODUCTS"}, group : Groups \cup {NoGroup}, goods : SUBSET Goods, enabled : BOOLEAN]

Link == [id : Nat, good : Goods]

EditRow == [at : {"idle", "update", "switch", "delete"}, form : FormRow, seen : OfferRow, seenLinks : SUBSET Link]

OfferTypes ==
    /\ offer \in OfferRow /\ links \in SUBSET Link /\ edit \in [Editors -> EditRow]
    /\ \A e \in Editors : edit[e].at = "update" => edit[e].form \in Forms

\* The row has passed its CHECK, and so has what anybody has read of it.
RowsAreChecked ==
    /\ Checked(offer)
    /\ \A e \in Editors : edit[e].at # "idle" => Checked(edit[e].seen)

\* Some product is out of reach of every form that would delete products and
\* leave the row a PRODUCTS one: of those that have read a CATEGORY row.
ProductOutOfReach ==
    offer.to = "PRODUCTS" =>
        \E l \in links : \A e \in Editors :
            edit[e].at = "update" /\ edit[e].seen.to = "CATEGORY" => l \notin edit[e].seenLinks

OfferInv == OfferTypes /\ RowsAreChecked /\ ProductOutOfReach

LEMMA InitOffer == OfInit => OfferInv
<1> SUFFICES ASSUME OfInit PROVE OfferInv
  OBVIOUS
<1>1. PICK f \in Forms : /\ offer = Columns(f, TRUE)
                         /\ links = {[id |-> 1, good |-> g] : g \in f.goods}
  BY DEF OfInit
<1>2. f \in FormRow /\ (f.to = "CATEGORY" <=> f.group # NoGroup) /\ (f.to = "CATEGORY" <=> f.goods = {})
  BY DEF Forms, FormRow
<1>3. \A e \in Editors : edit[e] = Quiet /\ edit[e].at = "idle"
  BY DEF OfInit, Quiet
<1>4. offer \in OfferRow /\ Checked(offer) /\ offer.to = f.to
  BY <1>1, <1>2 DEF Columns, OfferRow, FormRow, Checked
<1>5. links \in SUBSET Link
  BY <1>1, <1>2 DEF Link, FormRow
<1>6. Quiet \in EditRow
  BY DEF Quiet, EditRow, FormRow, OfferRow, NoForm, Columns
<1>7. edit \in [Editors -> EditRow]
  BY <1>6 DEF OfInit
<1>8. offer.to = "PRODUCTS" => links # {}
  <2>1. f.to # "CATEGORY" => \E g \in f.goods : [id |-> 1, good |-> g] \in links
    BY <1>1, <1>2
  <2> QED
    BY <1>4, <2>1
<1> QED
  BY <1>3, <1>4, <1>5, <1>7, <1>8 DEF OfferInv, OfferTypes, RowsAreChecked, ProductOutOfReach

\* Column by column: what the UPDATE of e leaves.
LEMMA MergedColumns ==
  ASSUME OfferTypes, NEW e \in Editors, NEW wanted \in OfferRow
  PROVE  /\ Merged(e, wanted) \in OfferRow
         /\ Merged(e, wanted).to = IF wanted.to # edit[e].seen.to THEN wanted.to ELSE offer.to
         /\ Merged(e, wanted).group = IF wanted.group # edit[e].seen.group THEN wanted.group ELSE offer.group
<1>1. offer \in OfferRow /\ edit[e].seen \in OfferRow
  BY DEF OfferTypes, EditRow
<1> QED
  BY <1>1 DEF Merged, OfferRow

LEMMA FreshIsUnknown ==
  ASSUME OfferTypes, NEW g \in Goods, 1 .. Copies \ KnownIds(g) # {}
  PROVE  /\ FreshLink(g) \in Link
         /\ \A e \in Editors : FreshLink(g) \notin edit[e].seenLinks
<1> DEFINE n == CHOOSE k \in 1 .. Copies : k \notin KnownIds(g)
<1>1. n \in 1 .. Copies /\ n \notin KnownIds(g)
  OBVIOUS
<1>2. FreshLink(g) = [id |-> n, good |-> g]
  BY DEF FreshLink
<1> HIDE DEF n
<1>3. FreshLink(g) \in Link
  BY <1>1, <1>2, OffersAssumption DEF Link
<1>4. ASSUME NEW e \in Editors, FreshLink(g) \in edit[e].seenLinks PROVE FALSE
  <2>1. FreshLink(g).id = n /\ FreshLink(g).good = g
    BY <1>2
  <2>2. FreshLink(g) \in links \cup UNION {edit[d].seenLinks : d \in Editors}
    BY <1>4
  <2>3. FreshLink(g).id \in KnownIds(g)
    BY <2>1, <2>2, Zenon DEF KnownIds
  <2> QED
    BY <1>1, <2>1, <2>3
<1> QED
  BY <1>3, <1>4

\* A request that ends leaves the others what they have read.
LEMMA EndsQuiet ==
  ASSUME OfferInv, NEW e \in Editors, edit' = [edit EXCEPT ![e] = Quiet]
  PROVE  /\ edit' \in [Editors -> EditRow]
         /\ \A d \in Editors : edit'[d].at # "idle" => edit'[d] = edit[d]
         /\ \A d \in Editors : edit'[d].at = "update" => edit'[d].form \in Forms
         /\ \A d \in Editors : edit'[d].at # "idle" => Checked(edit'[d].seen)
<1>1. edit \in [Editors -> EditRow] /\ \A d \in Editors : edit[d].at = "update" => edit[d].form \in Forms
  BY DEF OfferInv, OfferTypes
<1>2. Quiet \in EditRow /\ Quiet.at = "idle"
  BY DEF Quiet, EditRow, FormRow, OfferRow, NoForm, Columns
<1>3. edit' \in [Editors -> EditRow]
  BY <1>1, <1>2
<1>4. \A d \in Editors : edit'[d].at # "idle" => edit'[d] = edit[d]
  BY <1>1, <1>2
<1>5. \A d \in Editors : edit[d].at # "idle" => Checked(edit[d].seen)
  BY DEF OfferInv, RowsAreChecked
<1>6. \A d \in Editors : edit'[d].at = "update" => edit'[d].form \in Forms
  BY <1>1, <1>4
<1>7. \A d \in Editors : edit'[d].at # "idle" => Checked(edit'[d].seen)
  BY <1>4, <1>5, Zenon
<1> QED
  BY <1>3, <1>4, <1>6, <1>7

LEMMA ReadKeeps ==
  ASSUME OfferInv, NEW e \in Editors, NEW at \in {"update", "switch", "delete"}, NEW f \in FormRow,
         at = "update" => f \in Forms, ReadOffer(e, at, f)
  PROVE  OfferInv'
<1> DEFINE row == [at |-> at, form |-> f, seen |-> offer, seenLinks |-> links]
<1>1. /\ edit \in [Editors -> EditRow] /\ offer \in OfferRow /\ links \in SUBSET Link
      /\ \A d \in Editors : edit[d].at = "update" => edit[d].form \in Forms
  BY DEF OfferInv, OfferTypes
<1>2. row \in EditRow
  BY <1>1 DEF EditRow
<1>3. edit' = [edit EXCEPT ![e] = row] /\ offer' = offer /\ links' = links
  BY DEF ReadOffer
<1>4. row.at = at /\ row.form = f /\ row.seen = offer /\ row.seenLinks = links
  OBVIOUS
<1> HIDE DEF row
<1>5. edit' \in [Editors -> EditRow] /\ edit'[e] = row /\ \A d \in Editors \ {e} : edit'[d] = edit[d]
  BY <1>1, <1>2, <1>3
<1>6. OfferTypes'
  <2>1. \A d \in Editors : edit'[d].at = "update" => edit'[d].form \in Forms
    BY <1>1, <1>4, <1>5
  <2> QED
    BY <1>1, <1>3, <1>5, <2>1 DEF OfferTypes
<1>7. RowsAreChecked'
  <2>1. Checked(offer) /\ \A d \in Editors : edit[d].at # "idle" => Checked(edit[d].seen)
    BY DEF OfferInv, RowsAreChecked
  <2>2. \A d \in Editors : edit'[d].at # "idle" => Checked(edit'[d].seen)
    BY <1>4, <1>5, <2>1, Zenon
  <2> QED
    BY <1>3, <2>1, <2>2 DEF RowsAreChecked, Checked
<1>8. ProductOutOfReach'
  <2>1. offer.to = "PRODUCTS" =>
          \E l \in links : \A d \in Editors :
             edit[d].at = "update" /\ edit[d].seen.to = "CATEGORY" => l \notin edit[d].seenLinks
    BY DEF OfferInv, ProductOutOfReach
  <2>2. offer.to = "PRODUCTS" => edit'[e].seen.to # "CATEGORY"
    BY <1>4, <1>5
  <2> QED
    BY <1>3, <1>5, <2>1, <2>2 DEF ProductOutOfReach
<1> QED
  BY <1>6, <1>7, <1>8 DEF OfferInv

LEMMA UpdateKeeps ==
  ASSUME OfferInv, NEW e \in Editors, UpdateOffer(e)
  PROVE  OfferInv'
<1> DEFINE f == edit[e].form
           wanted == Columns(f, edit[e].seen.active)
<1>1. OfferTypes /\ offer \in OfferRow /\ links \in SUBSET Link /\ edit[e] \in EditRow
  BY DEF OfferInv, OfferTypes
<1>2. /\ edit[e].at = "update" /\ edit' = [edit EXCEPT ![e] = Quiet]
      /\ \A g \in f.goods : 1 .. Copies \ KnownIds(g) # {}
      /\ \/ /\ Checked(Merged(e, wanted))
            /\ offer' = Merged(e, wanted)
            /\ links' = (links \ edit[e].seenLinks) \cup {FreshLink(g) : g \in f.goods}
         \/ UNCHANGED <<offer, links>>
  BY Zenon DEF UpdateOffer, ReplaceProducts
<1>3. f \in Forms /\ f \in FormRow /\ (f.to = "CATEGORY" <=> f.goods = {}) /\ f.goods \in SUBSET Goods
  BY <1>2 DEF OfferInv, OfferTypes, Forms, FormRow
<1>4. wanted \in OfferRow /\ wanted.to = f.to
  <2>1. edit[e].seen.active \in BOOLEAN
    BY <1>1 DEF EditRow, OfferRow
  <2> QED
    BY <1>3, <2>1 DEF Columns, OfferRow, FormRow
<1>5. \A d \in Editors : edit'[d].at # "idle" => d # e /\ edit'[d] = edit[d]
  BY <1>2, EndsQuiet DEF Quiet, OfferInv, OfferTypes
<1> HIDE DEF f, wanted
<1>6. CASE UNCHANGED <<offer, links>>
  <2>1. OfferTypes' /\ RowsAreChecked'
    BY <1>1, <1>2, <1>6, EndsQuiet DEF OfferInv, OfferTypes, RowsAreChecked, Checked
  <2>2. ProductOutOfReach'
    BY <1>5, <1>6 DEF OfferInv, ProductOutOfReach
  <2> QED
    BY <2>1, <2>2 DEF OfferInv
<1>7. CASE /\ Checked(Merged(e, wanted))
           /\ offer' = Merged(e, wanted)
           /\ links' = (links \ edit[e].seenLinks) \cup {FreshLink(g) : g \in f.goods}
  <2>1. offer' \in OfferRow /\ (offer'.to = IF f.to # edit[e].seen.to THEN f.to ELSE offer.to)
    BY <1>1, <1>4, <1>7, MergedColumns
  <2>2. \A g \in f.goods : /\ FreshLink(g) \in Link
                           /\ \A d \in Editors : FreshLink(g) \notin edit[d].seenLinks
    BY <1>1, <1>2, <1>3, FreshIsUnknown
  <2>3. links' \in SUBSET Link
    BY <1>1, <1>7, <2>2
  <2>4. OfferTypes'
    BY <1>2, <2>1, <2>3, EndsQuiet DEF OfferTypes
  <2>5. RowsAreChecked'
    BY <1>2, <1>7, EndsQuiet DEF RowsAreChecked, Checked
  <2>6. ASSUME offer'.to = "PRODUCTS"
        PROVE  \E l \in links' : \A d \in Editors :
                 edit'[d].at = "update" /\ edit'[d].seen.to = "CATEGORY" => l \notin edit'[d].seenLinks
    <3>1. CASE f.goods # {}
      <4>1. PICK g \in f.goods : TRUE
        BY <3>1
      <4>2. FreshLink(g) \in links' /\ \A d \in Editors : FreshLink(g) \notin edit[d].seenLinks
        BY <1>7, <2>2
      <4> QED
        BY <1>5, <4>2
    <3>2. CASE f.goods = {}
      <4>1. f.to = "CATEGORY" /\ edit[e].seen.to = "CATEGORY" /\ offer.to = "PRODUCTS"
        BY <1>3, <2>1, <2>6, <3>2
      <4>2. PICK l \in links : \A d \in Editors :
              edit[d].at = "update" /\ edit[d].seen.to = "CATEGORY" => l \notin edit[d].seenLinks
        BY <4>1 DEF OfferInv, ProductOutOfReach
      <4>3. l \in links'
        BY <1>2, <1>7, <4>1, <4>2
      <4> QED
        BY <1>5, <4>2, <4>3
    <3> QED
      BY <3>1, <3>2
  <2> QED
    BY <2>4, <2>5, <2>6 DEF OfferInv, ProductOutOfReach
<1> QED
  BY <1>2, <1>6, <1>7

\* The switch and the deletion ask for no other target than the one they read.
LEMMA FlagsKeep ==
  ASSUME OfferInv, NEW e \in Editors, NEW wanted \in OfferRow,
         wanted.to = edit[e].seen.to, wanted.group = edit[e].seen.group,
         offer' = Merged(e, wanted), edit' = [edit EXCEPT ![e] = Quiet], links' = links
  PROVE  OfferInv'
<1>1. offer' \in OfferRow /\ offer'.to = offer.to /\ offer'.group = offer.group
  BY MergedColumns DEF OfferInv
<1>2. OfferTypes'
  BY <1>1, EndsQuiet DEF OfferInv, OfferTypes
<1>3. RowsAreChecked'
  BY <1>1, EndsQuiet DEF OfferInv, RowsAreChecked, Checked
<1>4. \A d \in Editors : edit'[d].at = "update" => edit'[d] = edit[d]
  BY EndsQuiet
<1>5. ProductOutOfReach'
  BY <1>1, <1>4 DEF OfferInv, ProductOutOfReach
<1> QED
  BY <1>2, <1>3, <1>5 DEF OfferInv

LEMMA StepOffer == OfferInv /\ [OfNext]_ofVars => OfferInv'
<1> SUFFICES ASSUME OfferInv, [OfNext]_ofVars PROVE OfferInv'
  OBVIOUS
<1>1. NoForm \in FormRow /\ \A on \in BOOLEAN : [NoForm EXCEPT !.enabled = on] \in FormRow
  BY DEF NoForm, FormRow
<1>2. Forms \in SUBSET FormRow
  BY DEF Forms, FormRow
<1>3. ASSUME NEW e \in Editors, NEW f \in Forms, ReadOffer(e, "update", f) PROVE OfferInv'
  BY <1>2, <1>3, ReadKeeps
<1>4. ASSUME NEW e \in Editors, NEW on \in BOOLEAN,
             ReadOffer(e, "switch", [NoForm EXCEPT !.enabled = on])
      PROVE  OfferInv'
  BY <1>1, <1>4, ReadKeeps
<1>5. ASSUME NEW e \in Editors, ReadOffer(e, "delete", NoForm) PROVE OfferInv'
  BY <1>1, <1>5, ReadKeeps
<1>6. ASSUME NEW e \in Editors, SetEnabled(e) PROVE OfferInv'
  <2> DEFINE wanted == [edit[e].seen EXCEPT !.enabled = edit[e].form.enabled]
  <2>1. edit[e].seen \in OfferRow /\ edit[e].form.enabled \in BOOLEAN
    BY DEF OfferInv, OfferTypes, EditRow, FormRow
  <2>2. wanted \in OfferRow /\ wanted.to = edit[e].seen.to /\ wanted.group = edit[e].seen.group
    BY <2>1 DEF OfferRow
  <2>3. offer' = Merged(e, wanted) /\ edit' = [edit EXCEPT ![e] = Quiet] /\ links' = links
    BY <1>6 DEF SetEnabled
  <2> HIDE DEF wanted
  <2> QED
    BY <2>2, <2>3, FlagsKeep
<1>7. ASSUME NEW e \in Editors, SoftDeleteOffer(e) PROVE OfferInv'
  <2> DEFINE wanted == [edit[e].seen EXCEPT !.enabled = FALSE, !.active = FALSE]
  <2>1. edit[e].seen \in OfferRow
    BY DEF OfferInv, OfferTypes, EditRow
  <2>2. wanted \in OfferRow /\ wanted.to = edit[e].seen.to /\ wanted.group = edit[e].seen.group
    BY <2>1 DEF OfferRow
  <2>3. offer' = Merged(e, wanted) /\ edit' = [edit EXCEPT ![e] = Quiet] /\ links' = links
    BY <1>7 DEF SoftDeleteOffer
  <2> HIDE DEF wanted
  <2> QED
    BY <2>2, <2>3, FlagsKeep
<1>8. CASE UNCHANGED ofVars
  BY <1>8 DEF ofVars, OfferInv, OfferTypes, RowsAreChecked, ProductOutOfReach, Checked
<1>9. CASE OfNext
  BY <1>3, <1>4, <1>5, <1>6, <1>7, <1>9, UpdateKeeps, Zenon DEF OfNext
<1> QED
  BY <1>8, <1>9

LEMMA TargetHeld == OfferInv => OfferHasTarget
  BY DEF OfferInv, OfferTypes, OfferRow, RowsAreChecked, ProductOutOfReach, OfferHasTarget, Checked

(***************************************************************************)
(* Forms, switches and deletions of any number of editors leave an offer   *)
(* something to price, though each writes only the columns it changed and  *)
(* deletes only the product rows it read.                                  *)
(***************************************************************************)
THEOREM OffersKeepATarget == OfSpec => []OfferHasTarget
  BY InitOffer, StepOffer, TargetHeld, PTL DEF OfSpec

-----------------------------------------------------------------------------
(* The book: the lowest price exists, so it is what everybody pays *)

\* Of the indices with the lowest price there is an oldest.
LEMMA OldestOfLowest ==
  ASSUME NEW S \in SUBSET Nat, S # {}, NEW f, \A i \in S : f[i] \in Nat
  PROVE  \E i \in S : \A j \in S : f[i] < f[j] \/ (f[i] = f[j] /\ i <= j)
<1> DEFINE costs == {f[i] : i \in S}
<1>1. PICK p \in costs : \A q \in costs : p <= q
  <2>1. costs \in SUBSET Nat /\ costs # {}
    OBVIOUS
  <2> HIDE DEF costs
  <2> QED
    BY <2>1, LeastExists
<1> DEFINE lowest == {i \in S : f[i] = p}
<1>2. PICK i \in lowest : \A j \in lowest : i <= j
  <2>1. lowest \in SUBSET Nat /\ lowest # {}
    BY <1>1
  <2> HIDE DEF lowest
  <2> QED
    BY <2>1, LeastExists
<1>3. \A j \in S : f[i] <= f[j]
  BY <1>1, <1>2
<1>4. \A j \in S : f[i] < f[j] \/ (f[i] = f[j] /\ i <= j)
  BY <1>2, <1>3
<1> QED
  BY <1>2, <1>4

\* The columns of a validated offer that its price comes from.
Priceable(o) ==
    /\ o.type \in {"FIXED", "PERCENT"}
    /\ o.value \in Nat /\ o.floor \in Nat
    /\ o.type = "PERCENT" => o.value <= 100

LEMMA RoundingStaysBetween ==
  ASSUME NEW raw \in Int, NEW floor \in Nat, NEW anchor \in Nat
  PROVE  LET q == Quantized(Smaller(Larger(raw, 100 * floor), 100 * anchor))
         IN  q \in Nat /\ Smaller(floor, anchor) <= q /\ q <= anchor
  BY DEF Quantized, Smaller, Larger

LEMMA AppliedStaysBetween ==
  ASSUME NEW o, Priceable(o), NEW anchor \in Nat
  PROVE  /\ Apply(o, anchor) \in Nat
         /\ Smaller(o.floor, anchor) <= Apply(o, anchor)
         /\ Apply(o, anchor) <= anchor
<1>1. Raw(o, anchor) \in Int /\ o.floor \in Nat
  BY DEF Raw, Priceable
<1> QED
  BY <1>1, RoundingStaysBetween, Zenon DEF Apply

\* What Resolve answers, for any book of validated offers, any item and anchor.
LEMMA ResolvedIsBest ==
  ASSUME NEW b, DOMAIN b.offers \in SUBSET (Nat \ {0}),
         \A i \in DOMAIN b.offers : Priceable(b.offers[i]),
         NEW item, NEW anchor \in Nat
  PROVE  LET priced == {i \in Candidates(b, item) : Apply(b.offers[i], anchor) < anchor}
             got == Resolve(b, item, anchor)
         IN  IF priced = {} THEN got = NoOffer
             ELSE /\ got \in [final : Nat, offer : Nat \ {0}]
                  /\ got.offer \in priced
                  /\ got.final = Apply(b.offers[got.offer], anchor)
                  /\ \A j \in priced : \/ got.final < Apply(b.offers[j], anchor)
                                       \/ got.final = Apply(b.offers[j], anchor) /\ got.offer <= j
<1> DEFINE priced == {i \in Candidates(b, item) : Apply(b.offers[i], anchor) < anchor}
           f == [i \in priced |-> Apply(b.offers[i], anchor)]
           Before(i, j) == LET p == Apply(b.offers[i], anchor)
                               q == Apply(b.offers[j], anchor)
                           IN  p < q \/ (p = q /\ i <= j)
           best == CHOOSE i \in priced : \A j \in priced : Before(i, j)
<1>1. priced \in SUBSET (Nat \ {0}) /\ priced \in SUBSET (DOMAIN b.offers)
  BY DEF Candidates, Live
<1>2. \A i \in priced : f[i] = Apply(b.offers[i], anchor) /\ f[i] \in Nat
  BY <1>1, AppliedStaysBetween
<1>3. Resolve(b, item, anchor) =
        IF priced = {} THEN NoOffer ELSE [final |-> Apply(b.offers[best], anchor), offer |-> best]
  BY DEF Resolve
<1>4. ASSUME priced # {}
      PROVE  best \in priced /\ \A j \in priced : Before(best, j)
  <2>1. PICK i \in priced : \A j \in priced : f[i] < f[j] \/ (f[i] = f[j] /\ i <= j)
    <3>1. priced \in SUBSET Nat /\ \A i \in priced : f[i] \in Nat
      BY <1>1, <1>2
    <3> HIDE DEF priced, f
    <3> QED
      BY <3>1, <1>4, OldestOfLowest
  <2>2. \A j \in priced : Before(i, j)
    BY <2>1, <1>2
  <2> HIDE DEF priced, Before, f
  <2> QED
    BY <2>1, <2>2
<1>5. ASSUME priced # {}
      PROVE  Apply(b.offers[best], anchor) \in Nat /\ best \in Nat \ {0}
  BY <1>1, <1>2, <1>4, <1>5
<1>6. ASSUME priced # {}
      PROVE  \A j \in priced : \/ Apply(b.offers[best], anchor) < Apply(b.offers[j], anchor)
                               \/ Apply(b.offers[best], anchor) = Apply(b.offers[j], anchor) /\ best <= j
  BY <1>4, <1>6
<1> HIDE DEF priced, best, Before
<1> SUFFICES IF priced = {} THEN Resolve(b, item, anchor) = NoOffer
             ELSE /\ Resolve(b, item, anchor) \in [final : Nat, offer : Nat \ {0}]
                  /\ Resolve(b, item, anchor).offer \in priced
                  /\ Resolve(b, item, anchor).final = Apply(b.offers[Resolve(b, item, anchor).offer], anchor)
                  /\ \A j \in priced :
                       \/ Resolve(b, item, anchor).final < Apply(b.offers[j], anchor)
                       \/ /\ Resolve(b, item, anchor).final = Apply(b.offers[j], anchor)
                          /\ Resolve(b, item, anchor).offer <= j
  BY DEF priced
<1> QED
  BY <1>3, <1>4, <1>5, <1>6

\* The book is one of validated offers, the question one of the menu.
PriceInv ==
    /\ book \in [offers : Seq(SomeOffers), at : [day : {0}, hour : Nat]]
    /\ asked = NoOffer \/ asked \in [name : {"momo"}, category : {"food"}, base : Nat, variants : SUBSET Nat]

LEMMA InitPrices == PrInit => PriceInv
  BY DEF PrInit, PriceInv

LEMMA StepPrices == PriceInv /\ [PrNext]_prVars => PriceInv'
<1> SUFFICES ASSUME PriceInv, [PrNext]_prVars PROVE PriceInv'
  OBVIOUS
<1>1. ASSUME NEW o \in SomeOffers, CreateOffer(o) PROVE PriceInv'
  <2>1. Append(book.offers, o) \in Seq(SomeOffers)
    BY DEF PriceInv
  <2> QED
    BY <1>1, <2>1 DEF PriceInv, CreateOffer
<1>2. ASSUME NEW hour \in 0 .. LastHour, NEW base \in 0 .. MaxPrice,
             NEW variants \in SUBSET (0 .. MaxPrice), Ask(hour, base, variants)
      PROVE  PriceInv'
  <2>1. hour \in Nat /\ base \in Nat /\ variants \in SUBSET Nat
    BY PricingAssumption
  <2>2. asked' \in [name : {"momo"}, category : {"food"}, base : Nat, variants : SUBSET Nat]
    BY <1>2, <2>1 DEF Ask
  <2>3. book' \in [offers : Seq(SomeOffers), at : [day : {0}, hour : Nat]]
    BY <1>2, <2>1 DEF Ask, PriceInv
  <2> QED
    BY <2>2, <2>3 DEF PriceInv
<1>3. CASE UNCHANGED prVars
  BY <1>3 DEF PriceInv, prVars
<1>4. CASE PrNext
  <2>1. ASSUME NEW v \in 0 .. MaxPrice PROVE {v} \in SUBSET (0 .. MaxPrice)
    OBVIOUS
  <2> QED
    BY <1>1, <1>2, <1>4, <2>1, Zenon DEF PrNext
<1> QED
  BY <1>3, <1>4

LEMMA BookIsPriceable ==
  ASSUME PriceInv
  PROVE  /\ DOMAIN book.offers \in SUBSET (Nat \ {0})
         /\ \A i \in DOMAIN book.offers : Priceable(book.offers[i])
<1>1. book.offers \in Seq(SomeOffers)
  BY DEF PriceInv
<1>2. \A o \in SomeOffers : Priceable(o)
  BY DEF SomeOffers, Priceable, ValidOffer
<1>3. \A i \in DOMAIN book.offers : book.offers[i] \in SomeOffers /\ i \in Nat \ {0}
  BY <1>1
<1> QED
  BY <1>2, <1>3

LEMMA BestWins == PriceInv => BestOfferWins
<1> SUFFICES ASSUME PriceInv, asked # NoOffer, NEW anchor \in {asked.base} \cup asked.variants
             PROVE  LET got == Resolve(book, asked, anchor)
                        Covers(o) == IsLive(o, book.at) /\ (asked.name \in o.items \/ o.category = asked.category)
                        prices == {Apply(book.offers[i], anchor) :
                                     i \in {j \in DOMAIN book.offers : Covers(book.offers[j])}}
                    IN  IF \E p \in prices : p < anchor
                        THEN /\ \A p \in prices : got.final <= p
                             /\ \A j \in 1 .. got.offer - 1 :
                                  Covers(book.offers[j]) => Apply(book.offers[j], anchor) > got.final
                             /\ Smaller(book.offers[got.offer].floor, anchor) <= got.final
                             /\ got.final <= anchor
                        ELSE got = NoOffer
  BY Zenon DEF BestOfferWins
<1> DEFINE got == Resolve(book, asked, anchor)
           Covers(o) == IsLive(o, book.at) /\ (asked.name \in o.items \/ o.category = asked.category)
           prices == {Apply(book.offers[i], anchor) : i \in {j \in DOMAIN book.offers : Covers(book.offers[j])}}
           priced == {i \in Candidates(book, asked) : Apply(book.offers[i], anchor) < anchor}
<1>1. anchor \in Nat
  BY DEF PriceInv
<1>2. Candidates(book, asked) = {j \in DOMAIN book.offers : Covers(book.offers[j])}
  BY Zenon DEF Candidates, Live
<1>3. DOMAIN book.offers \in SUBSET (Nat \ {0})
  BY BookIsPriceable
<1>4. \A i \in DOMAIN book.offers :
        /\ Apply(book.offers[i], anchor) \in Nat
        /\ Smaller(book.offers[i].floor, anchor) <= Apply(book.offers[i], anchor)
        /\ Apply(book.offers[i], anchor) <= anchor
  BY <1>1, BookIsPriceable, AppliedStaysBetween
<1>5. IF priced = {} THEN got = NoOffer
      ELSE /\ got \in [final : Nat, offer : Nat \ {0}]
           /\ got.offer \in priced
           /\ got.final = Apply(book.offers[got.offer], anchor)
           /\ \A j \in priced : \/ got.final < Apply(book.offers[j], anchor)
                                \/ got.final = Apply(book.offers[j], anchor) /\ got.offer <= j
  BY <1>1, BookIsPriceable, ResolvedIsBest, Zenon
<1>6. (\E p \in prices : p < anchor) <=> priced # {}
  BY <1>2
<1>7. ASSUME priced # {}
      PROVE  /\ \A p \in prices : got.final <= p
             /\ \A j \in 1 .. got.offer - 1 :
                  Covers(book.offers[j]) => Apply(book.offers[j], anchor) > got.final
             /\ Smaller(book.offers[got.offer].floor, anchor) <= got.final
             /\ got.final <= anchor
  <2> HIDE DEF got, Covers
  <2>1. /\ got.final \in Nat /\ got.offer \in Nat \ {0} /\ got.offer \in DOMAIN book.offers
        /\ got.final = Apply(book.offers[got.offer], anchor) /\ got.final < anchor
    BY <1>2, <1>5, <1>7
  <2>2. ASSUME NEW j \in DOMAIN book.offers, Covers(book.offers[j])
        PROVE  /\ got.final <= Apply(book.offers[j], anchor)
               /\ j < got.offer => Apply(book.offers[j], anchor) > got.final
    <3>1. CASE j \in priced
      BY <1>3, <1>4, <1>5, <1>7, <2>1, <3>1
    <3>2. CASE j \notin priced
      <4>1. ~(Apply(book.offers[j], anchor) < anchor)
        BY <1>2, <2>2, <3>2
      <4> QED
        BY <1>1, <1>4, <2>1, <4>1
    <3> QED
      BY <3>1, <3>2
  <2>3. \A j \in 1 .. got.offer - 1 : j \in DOMAIN book.offers /\ j < got.offer
    <3>1. \E n \in Nat : DOMAIN book.offers = 1 .. n
      BY DEF PriceInv
    <3> QED
      BY <2>1, <3>1
  <2> QED
    BY <1>4, <2>1, <2>2, <2>3
<1> QED
  BY <1>5, <1>6, <1>7

(***************************************************************************)
(* Whatever the offers, the prices and the hour: nothing in the book is    *)
(* cheaper than what an item is sold for, an older offer wins a tie, and   *)
(* no price is below the floor of its offer or above the anchor.           *)
(***************************************************************************)
THEOREM LowestOfferWins == PrSpec => []BestOfferWins
  BY InitPrices, StepPrices, BestWins, PTL DEF PrSpec

=============================================================================
