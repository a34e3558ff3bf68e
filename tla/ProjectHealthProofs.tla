------------------------ MODULE ProjectHealthProofs ------------------------
(* The fold of the health over a forest of any size: that it exists, and     *)
(* what it returns.                                                          *)
EXTENDS ProjectHealth, FiniteSetTheorems, WellFoundedInduction, TLAPS

\* Numbers have a least one.
LEMMA SmallestNumber ==
    ASSUME NEW T, T \subseteq Nat, T # {}
    PROVE  \E x \in T : \A y \in T : x <= y
<1> DEFINE R == {ss \in Nat \X Nat : ss[1] < ss[2]}
<1>1. IsWellFoundedOn(R, Nat)
  BY NatLessThanWellFounded DEF OpToRel
<1> HIDE DEF R
<1>2. \E x \in T : \A y \in T : <<y, x>> \notin R
  BY <1>1, WFMin
<1>3. \A x, y \in Nat : <<y, x>> \notin R => x <= y
  BY DEF R
<1> QED
  BY <1>2, <1>3

\* Healths are ranked, with no two alike.
LEMMA Ranks ==
    /\ \A h \in Healths : HealthRank[h] \in 0..4
    /\ \A g, h \in Healths : HealthRank[g] = HealthRank[h] => g = h
    /\ "ok" \in Healths /\ \A h \in Healths : HealthRank[h] < HealthRank["ok"] => h = "unknown"
BY DEF Healths, HealthRank

\* Of some healths the worst is one of them, and no other is worse.
LEMMA WorstIsMember ==
    ASSUME NEW S, S \subseteq Healths, S # {}
    PROVE  Worst(S) \in S /\ \A g \in S : HealthRank[g] <= HealthRank[Worst(S)]
<1>1. \E h \in S : \A g \in S : HealthRank[g] <= HealthRank[h]
  <2> DEFINE T == {n \in Nat : \E h \in S : HealthRank[h] + n = 4}
  <2>1. T \subseteq Nat /\ T # {}
    <3>1. PICK h \in S : TRUE
      OBVIOUS
    <3>2. HealthRank[h] \in 0..4
      BY <3>1, Ranks
    <3>3. 4 - HealthRank[h] \in T
      BY <3>1, <3>2
    <3> QED
      BY <3>3
  <2>2. PICK n \in T : \A m \in T : n <= m
    <3> HIDE DEF T
    <3> QED
      BY <2>1, SmallestNumber
  <2>3. PICK h \in S : HealthRank[h] + n = 4
    BY <2>2
  <2>4. ASSUME NEW g \in S
        PROVE  HealthRank[g] <= HealthRank[h]
    <3>1. HealthRank[g] \in 0..4 /\ HealthRank[h] \in 0..4
      BY <2>3, <2>4, Ranks
    <3>2. 4 - HealthRank[g] \in T
      BY <2>4, <3>1
    <3> QED
      BY <2>2, <2>3, <3>1, <3>2
  <2> QED
    BY <2>3, <2>4
<1> QED
  BY <1>1 DEF Worst

-----------------------------------------------------------------------------
\* height shows that rows is a forest: what is below is lower.
Ascends(rows, height) ==
    \A p \in DOMAIN rows : /\ height[p] \in Nat
                           /\ \A c \in Children(rows, p) : height[c] < height[p]

\* What RolledUp says of p, if f is what it says of the children of p.
FoldOf(rows, own, f, p) ==
    LET below == {f[c] : c \in Children(rows, p)} \cup {own[p]}
    IN  [health |-> Worst({b.health : b \in below}), due |-> Nearest({b.due : b \in below})]

\* S is closed under children, and f is the fold there.
IsFoldOn(rows, own, S, f) ==
    /\ S \subseteq DOMAIN rows
    /\ \A p \in S : Children(rows, p) \subseteq S
    /\ f = [p \in S |-> FoldOf(rows, own, f, p)]

\* What the fold says of p is decided by what it says of the children.
LEMMA FoldOfChildren ==
    ASSUME NEW rows, NEW own, NEW p, NEW f, NEW g,
           \A c \in Children(rows, p) : f[c] = g[c]
    PROVE  FoldOf(rows, own, f, p) = FoldOf(rows, own, g, p)
<1>1. {f[c] : c \in Children(rows, p)} = {g[c] : c \in Children(rows, p)}
  OBVIOUS
<1> QED
  BY <1>1 DEF FoldOf

\* A fold that is not yet of all is extended by a project.
LEMMA FoldExtends ==
    ASSUME NEW rows, NEW own, NEW height, Ascends(rows, height),
           NEW S, NEW f, IsFoldOn(rows, own, S, f), S # DOMAIN rows
    PROVE  \E p, g : p \in DOMAIN rows \ S /\ IsFoldOn(rows, own, S \cup {p}, g)
<1> DEFINE H == {height[p] : p \in DOMAIN rows \ S}
<1>1. PICK p \in DOMAIN rows \ S : \A q \in DOMAIN rows \ S : height[p] <= height[q]
  <2>1. H \subseteq Nat /\ H # {}
    BY DEF Ascends, IsFoldOn
  <2>2. PICK n \in H : \A m \in H : n <= m
    <3> HIDE DEF H
    <3> QED
      BY <2>1, SmallestNumber
  <2> QED
    BY <2>2
<1>2. Children(rows, p) \subseteq S
  <2>1. ASSUME NEW c \in Children(rows, p), c \notin S
        PROVE  FALSE
    <3>1. c \in DOMAIN rows
      BY <2>1 DEF Children
    <3>2. height[c] < height[p] /\ height[p] <= height[c] /\ height[c] \in Nat /\ height[p] \in Nat
      BY <1>1, <2>1, <3>1 DEF Ascends
    <3> QED
      BY <3>2
  <2> QED
    BY <2>1
<1> DEFINE g == [q \in S \cup {p} |-> FoldOf(rows, own, f, q)]
<1>3. \A q \in S : g[q] = f[q]
  BY DEF IsFoldOn
<1>4. \A q \in S \cup {p} : Children(rows, q) \subseteq S
  BY <1>2 DEF IsFoldOn
<1> HIDE DEF g
<1>5. \A q \in S \cup {p} : FoldOf(rows, own, g, q) = FoldOf(rows, own, f, q)
  <2>1. ASSUME NEW q \in S \cup {p}
        PROVE  FoldOf(rows, own, g, q) = FoldOf(rows, own, f, q)
    <3>1. \A c \in Children(rows, q) : g[c] = f[c]
      BY <1>3, <1>4
    <3> QED
      BY <3>1, FoldOfChildren
  <2> QED
    BY <2>1
<1>6. g = [q \in S \cup {p} |-> FoldOf(rows, own, g, q)]
  BY <1>5 DEF g
<1>7. IsFoldOn(rows, own, S \cup {p}, g)
  BY <1>4, <1>6 DEF IsFoldOn
<1> QED
  BY <1>1, <1>7

\* So the fold is of all.
LEMMA FoldExists ==
    ASSUME NEW rows, NEW own, NEW height, Ascends(rows, height), IsFiniteSet(DOMAIN rows)
    PROVE  \E f : f = [p \in DOMAIN rows |-> FoldOf(rows, own, f, p)]
<1> DEFINE Left == {n \in Nat : \E S, f : IsFoldOn(rows, own, S, f) /\ Cardinality(DOMAIN rows \ S) = n}
<1>1. Left \subseteq Nat /\ Left # {}
  <2>1. IsFoldOn(rows, own, {}, [p \in {} |-> FoldOf(rows, own, <<>>, p)])
    BY DEF IsFoldOn
  <2>2. Cardinality(DOMAIN rows \ {}) \in Nat
    BY FS_CardinalityType
  <2>3. Cardinality(DOMAIN rows \ {}) \in Left
    BY <2>1, <2>2
  <2> QED
    BY <2>3
<1>2. PICK n \in Left : \A m \in Left : n <= m
  <2> HIDE DEF Left
  <2> QED
    BY <1>1, SmallestNumber
<1>3. PICK S, f : IsFoldOn(rows, own, S, f) /\ Cardinality(DOMAIN rows \ S) = n
  BY <1>2
<1>4. S = DOMAIN rows
  <2>1. SUFFICES ASSUME S # DOMAIN rows
                 PROVE  FALSE
    OBVIOUS
  <2>2. PICK p, g : p \in DOMAIN rows \ S /\ IsFoldOn(rows, own, S \cup {p}, g)
    BY <1>3, <2>1, FoldExtends
  <2>3. IsFiniteSet(DOMAIN rows \ S) /\ n \in Nat
    BY <1>2, FS_Subset
  <2>4. DOMAIN rows \ (S \cup {p}) = (DOMAIN rows \ S) \ {p}
    OBVIOUS
  <2>5. Cardinality(DOMAIN rows \ (S \cup {p})) = n - 1
    <3>1. Cardinality((DOMAIN rows \ S) \ {p}) = Cardinality(DOMAIN rows \ S) - 1
      BY <2>2, <2>3, FS_RemoveElement
    <3> QED
      BY <1>3, <2>4, <3>1
  <2>6. Cardinality(DOMAIN rows \ (S \cup {p})) \in Nat
    BY <2>3, <2>4, FS_RemoveElement, FS_CardinalityType
  <2>7. n - 1 \in Left
    BY <2>2, <2>5, <2>6
  <2> HIDE DEF Left
  <2>8. n <= n - 1
    BY <1>2, <2>7
  <2> QED
    BY <2>3, <2>8
<1> QED
  BY <1>3, <1>4 DEF IsFoldOn

\* RolledUp is what it is defined to be.
LEMMA RolledUpUnfolds ==
    ASSUME NEW rows, NEW own, NEW height, Ascends(rows, height), IsFiniteSet(DOMAIN rows)
    PROVE  /\ DOMAIN RolledUp(rows, own) = DOMAIN rows
           /\ \A p \in DOMAIN rows :
                  RolledUp(rows, own)[p] = FoldOf(rows, own, RolledUp(rows, own), p)
<1> DEFINE r == RolledUp(rows, own)
<1>1. r = CHOOSE f : f = [p \in DOMAIN rows |-> FoldOf(rows, own, f, p)]
  BY DEF RolledUp, FoldOf
<1>2. \E f : f = [p \in DOMAIN rows |-> FoldOf(rows, own, f, p)]
  BY FoldExists
<1> HIDE DEF r
<1>3. r = [p \in DOMAIN rows |-> FoldOf(rows, own, r, p)]
  BY <1>1, <1>2
<1> QED
  BY <1>3 DEF r

\* Of every project the health is that of its own facts or that of a child, and
\* that of neither is worse.
THEOREM RolledUpHealths ==
    ASSUME NEW rows, NEW own, NEW height, Ascends(rows, height), IsFiniteSet(DOMAIN rows),
           \A p \in DOMAIN rows : own[p].health \in Healths
    PROVE  \A p \in DOMAIN rows :
               LET h(q) == RolledUp(rows, own)[q].health
               IN  /\ h(p) \in Healths
                   /\ HealthRank[own[p].health] <= HealthRank[h(p)]
                   /\ \A c \in Children(rows, p) : HealthRank[h(c)] <= HealthRank[h(p)]
                   /\ h(p) = own[p].health \/ \E c \in Children(rows, p) : h(p) = h(c)
<1> DEFINE r == RolledUp(rows, own)
           h(q) == r[q].health
           hs(p) == {h(c) : c \in Children(rows, p)} \cup {own[p].health}
<1>1. \A p \in DOMAIN rows : Children(rows, p) \subseteq DOMAIN rows
  BY DEF Children
<1>2. ASSUME NEW p \in DOMAIN rows
      PROVE  h(p) = Worst(hs(p))
  <2> DEFINE below == {r[c] : c \in Children(rows, p)} \cup {own[p]}
  <2>1. r[p] = FoldOf(rows, own, r, p)
    BY RolledUpUnfolds
  <2> HIDE DEF r
  <2>2. {b.health : b \in below} = hs(p)
    OBVIOUS
  <2>3. FoldOf(rows, own, r, p).health = Worst({b.health : b \in below})
    BY DEF FoldOf
  <2> QED
    BY <2>1, <2>2, <2>3
<1> HIDE DEF r
<1>3. ASSUME NEW p \in DOMAIN rows, \A c \in Children(rows, p) : h(c) \in Healths
      PROVE  h(p) \in hs(p) /\ \A g \in hs(p) : HealthRank[g] <= HealthRank[h(p)]
  <2>1. hs(p) \subseteq Healths /\ hs(p) # {}
    BY <1>3
  <2> HIDE DEF hs
  <2> QED
    BY <1>2, <2>1, WorstIsMember
<1>4. \A p \in DOMAIN rows : h(p) \in Healths
  <2> DEFINE Bad == {p \in DOMAIN rows : h(p) \notin Healths}
             H == {height[p] : p \in Bad}
  <2>1. SUFFICES ASSUME Bad # {}
                 PROVE  FALSE
    OBVIOUS
  <2>2. PICK p \in Bad : \A q \in Bad : height[p] <= height[q]
    <3>1. H \subseteq Nat /\ H # {}
      BY <2>1 DEF Ascends
    <3>2. PICK n \in H : \A m \in H : n <= m
      <4> HIDE DEF H
      <4> QED
        BY <3>1, SmallestNumber
    <3> QED
      BY <3>2
  <2>3. ASSUME NEW c \in Children(rows, p)
        PROVE  h(c) \in Healths
    <3>1. c \in DOMAIN rows /\ height[c] < height[p] /\ height[c] \in Nat /\ height[p] \in Nat
      BY <1>1, <2>2, <2>3 DEF Ascends
    <3> QED
      BY <2>2, <3>1
  <2>4. h(p) \in hs(p)
    BY <1>3, <2>2, <2>3
  <2>5. hs(p) \subseteq Healths
    BY <2>2, <2>3
  <2> QED
    BY <2>2, <2>4, <2>5
<1>5. ASSUME NEW p \in DOMAIN rows
      PROVE  h(p) \in hs(p) /\ \A g \in hs(p) : HealthRank[g] <= HealthRank[h(p)]
  BY <1>1, <1>3, <1>4
<1>6. ASSUME NEW p \in DOMAIN rows
      PROVE  /\ h(p) \in Healths
             /\ HealthRank[own[p].health] <= HealthRank[h(p)]
             /\ \A c \in Children(rows, p) : HealthRank[h(c)] <= HealthRank[h(p)]
             /\ h(p) = own[p].health \/ \E c \in Children(rows, p) : h(p) = h(c)
  BY <1>4, <1>5
<1> QED
  BY <1>6 DEF r

\* A health has a cause: in whatever set that has the project, and with a project
\* its children, there is one that has this health by its own facts.
THEOREM HealthHasCause ==
    ASSUME NEW rows, NEW own, NEW height, Ascends(rows, height), IsFiniteSet(DOMAIN rows),
           \A p \in DOMAIN rows : own[p].health \in Healths,
           NEW T, \A q \in T : Children(rows, q) \subseteq T,
           NEW p \in T \cap DOMAIN rows
    PROVE  \E q \in T \cap DOMAIN rows : own[q].health = RolledUp(rows, own)[p].health
<1> DEFINE h(q) == RolledUp(rows, own)[q].health
           Same == {q \in T \cap DOMAIN rows : h(q) = h(p)}
           H == {height[q] : q \in Same}
<1>1. PICK q \in Same : \A s \in Same : height[q] <= height[s]
  <2>1. H \subseteq Nat /\ H # {}
    BY DEF Ascends
  <2>2. PICK n \in H : \A m \in H : n <= m
    <3> HIDE DEF H
    <3> QED
      BY <2>1, SmallestNumber
  <2> QED
    BY <2>2
<1>2. h(q) = own[q].health \/ \E c \in Children(rows, q) : h(q) = h(c)
  BY <1>1, RolledUpHealths
<1>3. ASSUME NEW c \in Children(rows, q), h(q) = h(c)
      PROVE  FALSE
  <2>1. c \in Same
    BY <1>1, <1>3 DEF Children
  <2>2. height[c] < height[q] /\ height[c] \in Nat /\ height[q] \in Nat
    BY <1>1, <1>3, <2>1 DEF Ascends
  <2> QED
    BY <1>1, <2>1, <2>2
<1> QED
  BY <1>1, <1>2, <1>3
=============================================================================
