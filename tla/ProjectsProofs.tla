--------------------------- MODULE ProjectsProofs ---------------------------
(* What the projects and their shadows keep, for any tables, patches and     *)
(* number of requests: that the projects are a forest, that no row dangles,  *)
(* that the shadows say what the facts say, that no write smuggles an        *)
(* automation onto a plain calendar, and that a loud project has a fact to   *)
(* blame.                                                                    *)
EXTENDS Projects, ProjectHealthProofs

-----------------------------------------------------------------------------
(* A walk over the tree takes in one more layer at each of its steps.  After *)
(* as many steps as there are places it has all it can reach, and no more.   *)

\* What follows the members of S.
Nexts(next, S) == UNION {next[a] : a \in S \cap DOMAIN next}

\* f[n] has what is reached from x in at most n steps, each to a member of next[a].
Layers(f, x, next, M) ==
    f = [n \in 0..M |-> IF n = 0 THEN {x} ELSE f[n - 1] \cup Nexts(next, f[n - 1])]

LEMMA LayersExist ==
    ASSUME NEW x, NEW next, NEW M \in Nat
    PROVE  \E f : Layers(f, x, next, M)
<1> DEFINE Bad == {m \in Nat : ~\E f : Layers(f, x, next, m)}
<1>1. SUFFICES Bad = {}
  OBVIOUS
<1>2. SUFFICES ASSUME Bad # {}
               PROVE  FALSE
  OBVIOUS
<1>3. PICK m \in Bad : \A k \in Bad : m <= k
  <2>1. Bad \subseteq Nat
    OBVIOUS
  <2> HIDE DEF Bad
  <2> QED
    BY <1>2, <2>1, SmallestNumber
<1>4. CASE m = 0
  <2> DEFINE f == [n \in 0..0 |-> {x}]
  <2>1. Layers(f, x, next, 0)
    BY DEF Layers
  <2> QED
    BY <1>3, <1>4, <2>1
<1>5. CASE m # 0
  <2>1. m - 1 \in Nat /\ m \in Nat
    BY <1>3, <1>5
  <2>2. m - 1 \notin Bad
    BY <1>3, <2>1
  <2>3. PICK f : Layers(f, x, next, m - 1)
    BY <2>1, <2>2
  <2> DEFINE last == f[m - 1] \cup Nexts(next, f[m - 1])
             g == [n \in 0..m |-> IF n = m THEN last ELSE f[n]]
  <2>4. \A n \in 0..(m - 1) : g[n] = f[n]
    BY <2>1
  <2>5. ASSUME NEW n \in 0..m
        PROVE  g[n] = IF n = 0 THEN {x} ELSE g[n - 1] \cup Nexts(next, g[n - 1])
    <3>1. CASE n = m
      <4>1. g[n] = last /\ g[n - 1] = f[n - 1]
        BY <2>1, <2>4, <3>1
      <4> QED
        BY <1>5, <3>1, <4>1
    <3>2. CASE n # m
      <4>1. n \in 0..(m - 1) /\ (n # 0 => n - 1 \in 0..(m - 1))
        BY <2>1, <3>2
      <4>2. g[n] = f[n] /\ (n # 0 => g[n - 1] = f[n - 1])
        BY <2>4, <4>1
      <4>3. f[n] = IF n = 0 THEN {x} ELSE f[n - 1] \cup Nexts(next, f[n - 1])
        BY <2>3, <4>1 DEF Layers
      <4> QED
        BY <4>2, <4>3
    <3> QED
      BY <3>1, <3>2
  <2>6. g = [n \in 0..m |-> g[n]]
    OBVIOUS
  <2> HIDE DEF g
  <2>7. Layers(g, x, next, m)
    BY <2>5, <2>6 DEF Layers
  <2> QED
    BY <1>3, <2>7
<1> QED
  BY <1>4, <1>5

\* S has x, and with each of its members all that follows it.
ClosedFrom(S, x, next) == x \in S /\ Nexts(next, S) \subseteq S

LEMMA LayersAreReached ==
    ASSUME NEW x, NEW next, NEW M \in Nat, NEW f, Layers(f, x, next, M),
           NEW S, ClosedFrom(S, x, next)
    PROVE  f[M] \subseteq S
<1> DEFINE Bad == {n \in 0..M : ~(f[n] \subseteq S)}
<1>1. SUFFICES ASSUME Bad # {}
               PROVE  FALSE
  OBVIOUS
<1>2. PICK n \in Bad : \A k \in Bad : n <= k
  <2>1. Bad \subseteq Nat
    OBVIOUS
  <2> HIDE DEF Bad
  <2> QED
    BY <1>1, <2>1, SmallestNumber
<1>3. f[n] = IF n = 0 THEN {x} ELSE f[n - 1] \cup Nexts(next, f[n - 1])
  BY DEF Layers
<1>4. n # 0
  BY <1>2, <1>3 DEF ClosedFrom
<1>5. n - 1 \in 0..M /\ ~(n <= n - 1)
  BY <1>2, <1>4
<1>6. f[n - 1] \subseteq S
  BY <1>2, <1>5
<1>7. Nexts(next, f[n - 1]) \subseteq S
  BY <1>6 DEF ClosedFrom, Nexts
<1> QED
  BY <1>2, <1>3, <1>4, <1>6, <1>7

LEMMA LayersGrow ==
    ASSUME NEW x, NEW next, NEW M \in Nat, NEW f, Layers(f, x, next, M),
           NEW V, ClosedFrom(V, x, next)
    PROVE  \A n \in 0..M : f[n] \subseteq V /\ x \in f[n]
<1> DEFINE Bad == {n \in 0..M : ~(f[n] \subseteq V /\ x \in f[n])}
<1>1. SUFFICES ASSUME Bad # {}
               PROVE  FALSE
  OBVIOUS
<1>2. PICK n \in Bad : \A k \in Bad : n <= k
  <2>1. Bad \subseteq Nat
    OBVIOUS
  <2> HIDE DEF Bad
  <2> QED
    BY <1>1, <2>1, SmallestNumber
<1>3. f[n] = IF n = 0 THEN {x} ELSE f[n - 1] \cup Nexts(next, f[n - 1])
  BY DEF Layers
<1>4. n # 0
  BY <1>2, <1>3 DEF ClosedFrom
<1>5. n - 1 \in 0..M /\ ~(n <= n - 1)
  BY <1>2, <1>4
<1>6. f[n - 1] \subseteq V /\ x \in f[n - 1]
  BY <1>2, <1>5
<1>7. Nexts(next, f[n - 1]) \subseteq V
  BY <1>6 DEF ClosedFrom, Nexts
<1> QED
  BY <1>2, <1>3, <1>4, <1>6, <1>7

\* As long as it is not closed, a layer has more members than the one before.
LEMMA LayersCount ==
    ASSUME NEW x, NEW next, NEW M \in Nat, NEW f, Layers(f, x, next, M),
           NEW V, IsFiniteSet(V), ClosedFrom(V, x, next)
    PROVE  \A n \in 0..M : \/ Nexts(next, f[n]) \subseteq f[n]
                           \/ Cardinality(f[n]) >= n + 1
<1> DEFINE Closed(n) == Nexts(next, f[n]) \subseteq f[n]
           Bad == {n \in 0..M : ~(Closed(n) \/ Cardinality(f[n]) >= n + 1)}
<1>1. SUFFICES ASSUME Bad # {}
               PROVE  FALSE
  OBVIOUS
<1>2. PICK n \in Bad : \A k \in Bad : n <= k
  <2>1. Bad \subseteq Nat
    OBVIOUS
  <2> HIDE DEF Bad
  <2> QED
    BY <1>1, <2>1, SmallestNumber
<1>3. f[n] = IF n = 0 THEN {x} ELSE f[n - 1] \cup Nexts(next, f[n - 1])
  BY DEF Layers
<1>4. \A k \in 0..M : f[k] \subseteq V /\ x \in f[k] /\ IsFiniteSet(f[k]) /\ Cardinality(f[k]) \in Nat
  <2>1. \A k \in 0..M : f[k] \subseteq V /\ x \in f[k]
    BY LayersGrow
  <2> QED
    BY <2>1, FS_Subset, FS_CardinalityType
<1>5. CASE n = 0
  <2>1. Cardinality({x}) = 1 /\ f[n] = {x}
    BY <1>3, <1>5, FS_Singleton
  <2>2. Cardinality(f[n]) >= n + 1
    BY <1>5, <2>1
  <2> QED
    BY <1>2, <2>2
<1>6. CASE n # 0
  <2>1. n - 1 \in 0..M /\ ~(n <= n - 1) /\ n \in Nat
    BY <1>2, <1>6
  <2>2. Closed(n - 1) \/ Cardinality(f[n - 1]) >= n
    BY <1>2, <2>1
  <2>3. CASE Closed(n - 1)
    <3>1. f[n] = f[n - 1]
      BY <1>3, <1>6, <2>3
    <3> QED
      BY <1>2, <2>3, <3>1
  <2>4. CASE Cardinality(f[n - 1]) >= n
    <3>1. f[n - 1] \subseteq f[n] /\ IsFiniteSet(f[n])
      BY <1>3, <1>4, <1>6
    <3>2. CASE f[n - 1] = f[n]
      <4>1. Closed(n)
        BY <1>3, <1>6, <3>2
      <4> QED
        BY <1>2, <4>1
    <3>3. CASE f[n - 1] # f[n]
      <4>1. Cardinality(f[n - 1]) <= Cardinality(f[n]) /\ Cardinality(f[n]) # Cardinality(f[n - 1])
        BY <3>1, <3>3, FS_Subset
      <4>2. Cardinality(f[n - 1]) \in Nat /\ Cardinality(f[n]) \in Nat
        BY <1>4, <2>1
      <4> QED
        BY <1>2, <2>1, <2>4, <4>1, <4>2
    <3> QED
      BY <3>2, <3>3
  <2> QED
    BY <2>2, <2>3, <2>4
<1> QED
  BY <1>5, <1>6

\* With steps enough, the last layer is the least closed set that has x.
LEMMA LayersReachAll ==
    ASSUME NEW x, NEW next, NEW M \in Nat, NEW f, Layers(f, x, next, M),
           NEW V, IsFiniteSet(V), ClosedFrom(V, x, next),
           Cardinality(V) <= M + 1
    PROVE  /\ f[M] \subseteq V
           /\ ClosedFrom(f[M], x, next)
           /\ \A S : ClosedFrom(S, x, next) => f[M] \subseteq S
<1>1. f[M] \subseteq V /\ x \in f[M] /\ \A n \in 0..M : f[n] \subseteq V
  <2>1. M \in 0..M
    OBVIOUS
  <2> QED
    BY <2>1, LayersGrow
<1>2. Nexts(next, f[M]) \subseteq f[M]
  <2>1. CASE f[M] = V
    BY <2>1 DEF ClosedFrom
  <2>2. CASE f[M] # V
    <3>1. /\ Cardinality(f[M]) <= Cardinality(V) /\ Cardinality(V) # Cardinality(f[M])
          /\ IsFiniteSet(f[M])
      BY <1>1, <2>2, FS_Subset
    <3>2. Cardinality(f[M]) \in Nat /\ Cardinality(V) \in Nat
      BY <3>1, FS_CardinalityType
    <3>3. ~(Cardinality(f[M]) >= M + 1)
      BY <3>1, <3>2
    <3>4. M \in 0..M
      OBVIOUS
    <3> QED
      BY <3>3, <3>4, LayersCount
  <2> QED
    BY <2>1, <2>2
<1>3. ASSUME NEW S, ClosedFrom(S, x, next)
      PROVE  f[M] \subseteq S
  BY <1>1, <1>3, LayersAreReached
<1> QED
  BY <1>1, <1>2, <1>3 DEF ClosedFrom

-----------------------------------------------------------------------------
(* The two walks of the code.                                                *)

\* Down: what a deletion cascades to, and where drivingFacts looks.
LEMMA SubtreeCloses ==
    ASSUME NEW rows, IsFiniteSet(DOMAIN rows), NEW root \in DOMAIN rows
    PROVE  /\ root \in Subtree(rows, root) /\ Subtree(rows, root) \subseteq DOMAIN rows
           /\ \A p \in Subtree(rows, root) : Children(rows, p) \subseteq Subtree(rows, root)
<1> DEFINE next == [p \in DOMAIN rows |-> Children(rows, p)]
           N == Cardinality(DOMAIN rows)
           IsLevel(f) == f = [n \in 0..N |-> IF n = 0 THEN {root}
                                             ELSE f[n - 1] \cup UNION {Children(rows, p) : p \in f[n - 1]}]
           level == CHOOSE f : IsLevel(f)
<1>1. N \in Nat
  BY FS_CardinalityType
<1>2. \A p : Children(rows, p) \subseteq DOMAIN rows /\ (p \notin DOMAIN rows => Children(rows, p) = {})
  BY DEF Children, IsRoot
<1>3. \A S : Nexts(next, S) = UNION {Children(rows, p) : p \in S}
  BY <1>2 DEF Nexts
<1> HIDE DEF next
<1>4. Subtree(rows, root) = level[N]
  BY DEF Subtree
<1> HIDE DEF N
<1>5. Layers(level, root, next, N)
  <2>1. \A f : Layers(f, root, next, N) <=> IsLevel(f)
    BY <1>3 DEF Layers
  <2>2. \E f : Layers(f, root, next, N)
    BY <1>1, LayersExist
  <2> HIDE DEF IsLevel
  <2> QED
    BY <2>1, <2>2
<1> HIDE DEF level
<1>6. ClosedFrom(DOMAIN rows, root, next)
  BY <1>2, <1>3 DEF ClosedFrom
<1>7. N <= N + 1 /\ N = Cardinality(DOMAIN rows)
  BY <1>1 DEF N
<1>8. level[N] \subseteq DOMAIN rows /\ ClosedFrom(level[N], root, next)
  BY <1>1, <1>5, <1>6, <1>7, LayersReachAll
<1> QED
  BY <1>3, <1>4, <1>8 DEF ClosedFrom

\* Every project has a parent that there is, or none.
ParentsOK(rows) ==
    /\ DOMAIN rows \subseteq 1..MaxProjects
    /\ \A p \in DOMAIN rows : rows[p].parent \in (DOMAIN rows \cup {None}) \ {p}

LEMMA ProjectsAreFinite ==
    ASSUME NEW rows, ParentsOK(rows)
    PROVE  /\ IsFiniteSet(DOMAIN rows \cup {None})
           /\ Cardinality(DOMAIN rows \cup {None}) <= MaxProjects + 1
           /\ IsFiniteSet(DOMAIN rows)
<1>1. MaxProjects \in Nat /\ IsFiniteSet(1..MaxProjects) /\ Cardinality(1..MaxProjects) = MaxProjects
  <2>1. MaxProjects \in Nat
    BY BoundsAssumption
  <2>2. IsFiniteSet(1..MaxProjects) /\ Cardinality(1..MaxProjects) = MaxProjects
    BY <2>1, FS_Interval
  <2> QED
    BY <2>1, <2>2
<1>2. /\ IsFiniteSet(DOMAIN rows) /\ Cardinality(DOMAIN rows) <= MaxProjects
      /\ Cardinality(DOMAIN rows) \in Nat
  BY <1>1, FS_Subset, FS_CardinalityType DEF ParentsOK
<1>3. None \notin DOMAIN rows
  BY DEF ParentsOK, None
<1>4. Cardinality(DOMAIN rows \cup {None}) = Cardinality(DOMAIN rows) + 1
  BY <1>2, <1>3, FS_AddElement
<1> QED
  BY <1>1, <1>2, <1>4, FS_AddElement

\* S is closed under parents.
UpClosed(S) == \A a \in S \cap DOMAIN projects : projects[a].parent \in S

\* Up: what requireParentable looks at is the least closed set there is.
LEMMA AncestorsClose ==
    ASSUME ParentsOK(projects), NEW p \in DOMAIN projects \cup {None}
    PROVE  /\ p \in Ancestors(p) /\ Ancestors(p) \subseteq DOMAIN projects \cup {None}
           /\ UpClosed(Ancestors(p))
           /\ \A S : p \in S /\ UpClosed(S) => Ancestors(p) \subseteq S
<1> DEFINE next == [a \in DOMAIN projects |-> {projects[a].parent}]
           M == MaxProjects
           above == CHOOSE f : Layers(f, p, next, M)
           V == DOMAIN projects \cup {None}
<1>1. M \in Nat
  BY BoundsAssumption
<1>2. \A S : Nexts(next, S) = {projects[a].parent : a \in S \cap DOMAIN projects}
  BY DEF Nexts
<1> HIDE DEF next
<1>3. Ancestors(p) = above[M]
  BY <1>2 DEF Ancestors, Layers
<1> HIDE DEF M
<1>4. Layers(above, p, next, M)
  BY <1>1, LayersExist
<1> HIDE DEF above
<1>5. \A S : ClosedFrom(S, p, next) <=> p \in S /\ UpClosed(S)
  BY <1>2 DEF ClosedFrom, UpClosed
<1>6. ClosedFrom(V, p, next)
  BY <1>5 DEF UpClosed, ParentsOK
<1>7. IsFiniteSet(V) /\ Cardinality(V) <= M + 1
  BY ProjectsAreFinite DEF M
<1> HIDE DEF V
<1>8. /\ above[M] \subseteq V
      /\ ClosedFrom(above[M], p, next)
      /\ \A S : ClosedFrom(S, p, next) => above[M] \subseteq S
  BY <1>1, <1>4, <1>6, <1>7, LayersReachAll
<1> QED
  BY <1>3, <1>5, <1>8 DEF V

-----------------------------------------------------------------------------
(* The forest.  As long as every parent is there and a height rises from     *)
(* each project to its parent, none is above itself; and the walk up from a  *)
(* new parent is what shows where a height can be raised.                    *)

ProjectRow(q, ids) ==
    /\ DOMAIN q = {"name", "parent", "lead", "owner"}
    /\ q.name \in ProjectNames /\ q.owner \in Bots \cup {NoBot}
    /\ q.parent \in ids \cup {None} /\ q.lead \in ProjectLeads

ForestInv ==
    /\ lastProject \in 0..MaxProjects
    /\ DOMAIN projects \subseteq 1..lastProject
    /\ \A p \in DOMAIN projects :
          ProjectRow(projects[p], DOMAIN projects) /\ projects[p].parent # p
    /\ \E height : Ascends(projects, height)

LEMMA ForestParents ==
    ASSUME ForestInv
    PROVE  ParentsOK(projects) /\ None \notin DOMAIN projects
<1>1. \A p \in DOMAIN projects : projects[p].parent \in (DOMAIN projects \cup {None}) \ {p}
  BY DEF ForestInv, ProjectRow
<1>2. DOMAIN projects \subseteq 1..MaxProjects
  BY BoundsAssumption DEF ForestInv
<1> QED
  BY <1>1, <1>2 DEF ParentsOK, None

\* Who is a child of whom.
LEMMA ParentsAndChildren ==
    ASSUME NEW rows, NEW p \in DOMAIN rows, NEW c
    PROVE  c \in Children(rows, p) <=> c \in DOMAIN rows /\ c # p /\ rows[c].parent = p
BY DEF Children, IsRoot

LEMMA ForestIsForest ==
    ASSUME ForestInv
    PROVE  IsForest
<1>1. ParentsOK(projects) /\ None \notin DOMAIN projects
  BY ForestParents
<1>2. PICK height : Ascends(projects, height)
  BY DEF ForestInv
<1>3. ASSUME NEW p \in DOMAIN projects
      PROVE  /\ projects[p].parent \in DOMAIN projects \cup {None}
             /\ p \notin Ancestors(projects[p].parent)
  <2> DEFINE S == {None} \cup {a \in DOMAIN projects : height[p] < height[a]}
  <2>1. \A a \in DOMAIN projects :
           /\ projects[a].parent \in (DOMAIN projects \cup {None}) \ {a}
           /\ height[a] \in Nat
           /\ projects[a].parent # None => height[a] < height[projects[a].parent]
    BY <1>1, <1>2, ParentsAndChildren DEF ParentsOK, Ascends
  <2>2. projects[p].parent \in S
    BY <2>1
  <2>3. UpClosed(S)
    <3>1. ASSUME NEW a \in S \cap DOMAIN projects
          PROVE  projects[a].parent \in S
      <4>1. height[p] < height[a] /\ height[p] \in Nat /\ height[a] \in Nat
        BY <1>1, <2>1, <3>1
      <4>2. projects[a].parent = None \/ height[a] < height[projects[a].parent]
        BY <2>1, <3>1
      <4>3. projects[a].parent # None => height[projects[a].parent] \in Nat
        BY <2>1, <3>1
      <4> QED
        BY <2>1, <3>1, <4>1, <4>2, <4>3
    <3> QED
      BY <3>1 DEF UpClosed
  <2>4. p \notin S
    BY <1>1, <2>1
  <2> HIDE DEF S
  <2>5. projects[p].parent \in DOMAIN projects \cup {None}
    BY <2>1
  <2> QED
    BY <1>1, <2>2, <2>3, <2>4, <2>5, AncestorsClose
<1> QED
  BY <1>3 DEF IsForest

LEMMA CreateProjectKeeps ==
    ASSUME ForestInv, NEW name \in ProjectNames, NEW parent, NEW lead \in ProjectLeads,
           NEW owner \in Bots \cup {NoBot}, CreateProject(name, parent, lead, owner)
    PROVE  ForestInv'
<1> DEFINE new == lastProject + 1
           row == [name |-> name, parent |-> parent, lead |-> lead, owner |-> owner]
<1>1. PICK height : Ascends(projects, height)
  BY DEF ForestInv
<1>2. /\ lastProject \in Nat /\ new \in 1..MaxProjects /\ lastProject' = new
      /\ new \notin DOMAIN projects
  BY BoundsAssumption DEF ForestInv, CreateProject
<1>3. /\ DOMAIN projects' = DOMAIN projects \cup {new}
      /\ \A p \in DOMAIN projects' : projects'[p] = IF p = new THEN row ELSE projects[p]
  BY DEF CreateProject, Inserted
<1>4. parent \in DOMAIN projects \cup {None} /\ new # None
  BY <1>2 DEF CreateProject, Parentable, None
<1>5. ProjectRow(row, DOMAIN projects') /\ row.parent = parent
  BY <1>3, <1>4 DEF ProjectRow
<1> HIDE DEF row
<1>6. ASSUME NEW p \in DOMAIN projects'
      PROVE  ProjectRow(projects'[p], DOMAIN projects') /\ projects'[p].parent # p
  <2>1. CASE p = new
    BY <1>2, <1>3, <1>4, <1>5, <2>1
  <2>2. CASE p # new
    BY <1>3, <2>2 DEF ForestInv, ProjectRow
  <2> QED
    BY <2>1, <2>2
<1> DEFINE higher == [p \in DOMAIN projects' |-> IF p = new THEN 0 ELSE height[p] + 1]
<1>7. Ascends(projects', higher)
  <2>1. \A p \in DOMAIN projects' : higher[p] \in Nat
    BY <1>1, <1>3 DEF Ascends
  <2>2. ASSUME NEW p \in DOMAIN projects', NEW c \in Children(projects', p)
        PROVE  higher[c] < higher[p]
    <3>1. c \in DOMAIN projects' /\ c # p /\ projects'[c].parent = p
      BY <2>2, ParentsAndChildren
    <3>2. p # new
      <4>1. projects'[c].parent \in DOMAIN projects \cup {None}
        BY <1>3, <1>4, <1>5, <3>1 DEF ForestInv, ProjectRow
      <4> QED
        BY <1>2, <1>4, <3>1, <4>1
    <3>3. p \in DOMAIN projects /\ height[p] \in Nat /\ higher[p] = height[p] + 1
      BY <1>1, <1>3, <2>2, <3>2 DEF Ascends
    <3>4. CASE c = new
      BY <3>1, <3>3, <3>4
    <3>5. CASE c # new
      <4>1. c \in Children(projects, p) /\ c \in DOMAIN projects
        BY <1>3, <3>1, <3>3, <3>5, ParentsAndChildren
      <4>2. height[c] < height[p] /\ height[c] \in Nat
        BY <1>1, <3>3, <4>1 DEF Ascends
      <4> QED
        BY <3>1, <3>3, <3>5, <4>2
    <3> QED
      BY <3>4, <3>5
  <2> QED
    BY <2>1, <2>2 DEF Ascends
<1>8. DOMAIN projects' \subseteq 1..lastProject' /\ lastProject' \in 0..MaxProjects
  BY <1>2, <1>3 DEF ForestInv
<1> HIDE DEF higher
<1> QED
  BY <1>6, <1>7, <1>8 DEF ForestInv

\* What the requests may change of a project, one at a time.
ProjectPatch(patch) ==
    /\ DOMAIN patch \subseteq {"name", "parent", "lead", "owner"}
    /\ "name" \in DOMAIN patch => patch.name \in ProjectNames
    /\ "lead" \in DOMAIN patch => patch.lead \in ProjectLeads
    /\ "owner" \in DOMAIN patch => patch.owner \in Bots \cup {NoBot}

\* A step that changes no parent leaves the heights as they are.
LEMMA SameParentsKeep ==
    ASSUME ForestInv, DOMAIN projects' = DOMAIN projects, lastProject' = lastProject,
           \A p \in DOMAIN projects :
              /\ ProjectRow(projects'[p], DOMAIN projects)
              /\ projects'[p].parent = projects[p].parent
    PROVE  ForestInv'
<1>1. PICK height : Ascends(projects, height)
  BY DEF ForestInv
<1>2. ASSUME NEW p \in DOMAIN projects, NEW c \in Children(projects', p)
      PROVE  c \in Children(projects, p)
  BY <1>2, ParentsAndChildren
<1>3. Ascends(projects', height)
  BY <1>1, <1>2 DEF Ascends
<1> QED
  BY <1>3 DEF ForestInv

LEMMA UpdateProjectKeeps ==
    ASSUME ForestInv, NEW p \in DOMAIN projects, NEW patch, ProjectPatch(patch),
           UpdateProject(p, patch)
    PROVE  ForestInv'
<1> DEFINE new == Patched(projects[p], patch)
           parent == new.parent
<1>1. ParentsOK(projects) /\ None \notin DOMAIN projects
  BY ForestParents
<1>2. PICK height : Ascends(projects, height)
  BY DEF ForestInv
<1>3. /\ Parentable(p, parent) /\ RequireOwner(new.owner)
      /\ projects' = [projects EXCEPT ![p] = new] /\ lastProject' = lastProject
  BY DEF UpdateProject
<1>4. parent = None \/ (parent \in DOMAIN projects /\ p \notin Ancestors(parent))
  BY <1>3 DEF Parentable
<1>5. ProjectRow(new, DOMAIN projects)
  <2>1. ProjectRow(projects[p], DOMAIN projects)
    BY DEF ForestInv
  <2>2. DOMAIN new = {"name", "parent", "lead", "owner"}
    BY <2>1 DEF ProjectRow, ProjectPatch, Patched
  <2>3. new.name \in ProjectNames /\ new.owner \in Bots \cup {NoBot} /\ new.lead \in ProjectLeads
    BY <2>1 DEF ProjectRow, ProjectPatch, Patched
  <2> QED
    BY <1>4, <2>2, <2>3 DEF ProjectRow
<1> HIDE DEF new
<1>6. /\ DOMAIN projects' = DOMAIN projects /\ projects'[p] = new
      /\ \A q \in DOMAIN projects \ {p} : projects'[q] = projects[q]
  BY <1>3
<1>7. parent # p
  BY <1>1, <1>4, AncestorsClose
<1>8. \A q \in DOMAIN projects : ProjectRow(projects'[q], DOMAIN projects) /\ projects'[q].parent # q
  BY <1>5, <1>6, <1>7 DEF ForestInv
\* All that is above the new parent is raised above the project.
<1> DEFINE U == IF parent = None THEN {} ELSE Ancestors(parent)
           raised == [q \in DOMAIN projects |->
                         IF q \in U THEN height[q] + height[p] + 1 ELSE height[q]]
<1>9. /\ p \notin U /\ (parent # None => parent \in U)
      /\ \A a \in U \cap DOMAIN projects : projects[a].parent # None => projects[a].parent \in U
  BY <1>1, <1>4, AncestorsClose DEF UpClosed
<1> HIDE DEF U
<1>10. \A q \in DOMAIN projects :
          height[q] \in Nat /\ raised[q] \in Nat /\ height[q] <= raised[q]
  <2>1. \A q \in DOMAIN projects : height[q] \in Nat
    BY <1>2 DEF Ascends
  <2> QED
    BY <2>1
<1>11. ASSUME NEW q \in DOMAIN projects, NEW c \in Children(projects', q)
       PROVE  raised[c] < raised[q]
  <2>1. c \in DOMAIN projects /\ c # q /\ projects'[c].parent = q /\ q # None
    BY <1>1, <1>6, <1>11, ParentsAndChildren
  <2>2. height[c] \in Nat /\ height[q] \in Nat /\ height[p] \in Nat
    BY <1>10, <2>1
  <2>3. CASE c = p
    <3>1. q \in U
      BY <1>6, <1>9, <2>1, <2>3
    <3>2. raised[q] = height[q] + height[p] + 1 /\ raised[c] = height[p]
      BY <1>9, <2>1, <2>3, <3>1
    <3> QED
      BY <2>2, <3>2
  <2>4. CASE c # p
    <3>1. projects[c].parent = q /\ c \in Children(projects, q)
      BY <1>6, <2>1, <2>4, ParentsAndChildren
    <3>2. height[c] < height[q]
      BY <1>2, <3>1 DEF Ascends
    <3>3. c \in U => q \in U
      BY <1>9, <2>1, <3>1
    <3>4. CASE c \in U
      <4>1. raised[c] = height[c] + height[p] + 1 /\ raised[q] = height[q] + height[p] + 1
        BY <2>1, <3>3, <3>4
      <4> QED
        BY <2>2, <3>2, <4>1
    <3>5. CASE c \notin U
      <4>1. raised[c] = height[c] /\ height[q] <= raised[q] /\ raised[q] \in Nat
        BY <1>10, <2>1, <3>5
      <4> QED
        BY <2>2, <3>2, <4>1
    <3> QED
      BY <3>4, <3>5
  <2> QED
    BY <2>3, <2>4
<1>12. Ascends(projects', raised)
  BY <1>6, <1>10, <1>11 DEF Ascends
<1> HIDE DEF raised
<1> QED
  BY <1>3, <1>6, <1>8, <1>12 DEF ForestInv

LEMMA DeleteProjectKeeps ==
    ASSUME ForestInv, NEW p \in DOMAIN projects, DeleteProject(p)
    PROVE  ForestInv'
<1> DEFINE gone == Subtree(projects, p)
<1>1. PICK height : Ascends(projects, height)
  BY DEF ForestInv
<1>2. IsFiniteSet(DOMAIN projects)
  BY ForestParents, ProjectsAreFinite
<1>3. \A q \in gone : Children(projects, q) \subseteq gone /\ q \in DOMAIN projects
  BY <1>2, SubtreeCloses
<1>4. projects' = Without(projects, gone) /\ lastProject' = lastProject
  BY DEF DeleteProject
<1> HIDE DEF gone
<1>5. /\ DOMAIN projects' = DOMAIN projects \ gone
      /\ \A q \in DOMAIN projects' : projects'[q] = projects[q]
  BY <1>4 DEF Without, Restrict
<1>6. ASSUME NEW q \in DOMAIN projects'
      PROVE  ProjectRow(projects'[q], DOMAIN projects') /\ projects'[q].parent # q
  <2>1. ProjectRow(projects[q], DOMAIN projects) /\ projects[q].parent # q
    BY <1>5, <1>6 DEF ForestInv
  <2>2. projects[q].parent \notin gone
    <3>1. ASSUME projects[q].parent \in gone
          PROVE  FALSE
      <4>1. q \in Children(projects, projects[q].parent)
        BY <1>3, <1>5, <1>6, <2>1, <3>1, ParentsAndChildren
      <4> QED
        BY <1>3, <1>5, <1>6, <3>1, <4>1
    <3> QED
      BY <3>1
  <2> QED
    BY <1>5, <1>6, <2>1, <2>2 DEF ProjectRow
<1>7. ASSUME NEW q \in DOMAIN projects', NEW c \in Children(projects', q)
      PROVE  c \in Children(projects, q)
  BY <1>5, <1>7, ParentsAndChildren
<1>8. Ascends(projects', height)
  BY <1>1, <1>5, <1>7 DEF Ascends
<1> QED
  BY <1>4, <1>5, <1>6, <1>8 DEF ForestInv

LEMMA ClearOwnerKeeps ==
    ASSUME ForestInv, NEW b, ClearOwner(b)
    PROVE  ForestInv'
<1>1. ASSUME NEW p \in DOMAIN projects
      PROVE  /\ ProjectRow(projects'[p], DOMAIN projects)
             /\ projects'[p].parent = projects[p].parent
  <2>1. ProjectRow(projects[p], DOMAIN projects)
    BY DEF ForestInv
  <2>2. projects'[p] = projects[p] \/ projects'[p] = [projects[p] EXCEPT !.owner = NoBot]
    BY DEF ClearOwner
  <2> QED
    BY <2>1, <2>2 DEF ProjectRow
<1>2. DOMAIN projects' = DOMAIN projects /\ lastProject' = lastProject
  BY DEF ClearOwner
<1> QED
  BY <1>1, <1>2, SameParentsKeep

-----------------------------------------------------------------------------
\* What a request is to the proofs.
CalendarRequest == EditCalendar \/ BookOrCancel \/ EditEvent

RequestCases ==
    \/ \E name \in ProjectNames, lead \in ProjectLeads, owner \in Bots \cup {NoBot} :
          \E parent : CreateProject(name, parent, lead, owner)
    \/ \E p \in DOMAIN projects : \E patch : ProjectPatch(patch) /\ UpdateProject(p, patch)
    \/ \E p \in DOMAIN projects : DeleteProject(p)
    \/ \E p \in DOMAIN projects, input \in NewFacts : CreateFact(p, input)
    \/ \E f \in DOMAIN facts : (\E patch \in FactPatches : UpdateFact(f, patch)) \/ DeleteFact(f)
    \/ \E b \in Bots : ClearOwner(b) \/ DeleteRow(b)
    \/ Crash
    \/ (EditCalendar \/ BookOrCancel) /\ UNCHANGED <<projectVars, touched>>
    \/ EditEvent /\ UNCHANGED projectVars
    \/ UNCHANGED vars

LEMMA RequestsAre ==
    ASSUME [Next]_vars
    PROVE  RequestCases
<1>1. CASE UNCHANGED vars
  BY <1>1 DEF RequestCases
<1>2. CASE Request
  <2>1. CASE ProjectRequest
    <3>1. ASSUME NEW name \in ProjectNames, NEW parent, NEW lead \in ProjectLeads,
                 NEW owner \in Bots \cup {NoBot}, CreateProject(name, parent, lead, owner)
          PROVE  RequestCases
      BY <3>1 DEF RequestCases
    <3>2. ASSUME NEW p \in DOMAIN projects, NEW patch, ProjectPatch(patch), UpdateProject(p, patch)
          PROVE  RequestCases
      BY <3>2 DEF RequestCases
    <3>3. /\ \A name \in ProjectNames : ProjectPatch([name |-> name])
          /\ \A parent : ProjectPatch([parent |-> parent])
          /\ \A lead \in ProjectLeads : ProjectPatch([lead |-> lead])
          /\ \A owner \in Bots \cup {NoBot} : ProjectPatch([owner |-> owner])
      BY DEF ProjectPatch
    <3>4. CASE \E p \in DOMAIN projects : DeleteProject(p)
      BY <3>4 DEF RequestCases
    <3> QED
      BY <2>1, <3>1, <3>2, <3>3, <3>4 DEF ProjectRequest
  <2>2. CASE FactRequest
    BY <2>2 DEF FactRequest, RequestCases
  <2> QED
    BY <1>2, <2>1, <2>2 DEF Request, RequestCases
<1> QED
  BY <1>1, <1>2 DEF Next

LEMMA ForestStep ==
    ASSUME ForestInv, RequestCases
    PROVE  ForestInv'
<1>1. CASE UNCHANGED <<projects, lastProject>>
  BY <1>1 DEF ForestInv, Ascends, Children, IsRoot
<1>2. CASE UNCHANGED vars
  BY <1>1, <1>2 DEF vars, projectVars
<1>3. CASE CalendarRequest /\ UNCHANGED projectVars
  BY <1>1, <1>3 DEF projectVars
<1>4. CASE (\E p \in DOMAIN projects, input \in NewFacts : CreateFact(p, input)) \/ Crash
  BY <1>1, <1>4 DEF CreateFact, Crash
<1>5. CASE \E f \in DOMAIN facts : (\E patch \in FactPatches : UpdateFact(f, patch)) \/ DeleteFact(f)
  BY <1>1, <1>5 DEF UpdateFact, DeleteFact
<1>6. CASE \E b \in Bots : ClearOwner(b) \/ DeleteRow(b)
  BY <1>1, <1>6, ClearOwnerKeeps DEF DeleteRow
<1> QED
  BY <1>2, <1>3, <1>4, <1>5, <1>6, CreateProjectKeeps, UpdateProjectKeeps, DeleteProjectKeeps
  DEF RequestCases, CalendarRequest, projectVars

LEMMA ForestInvariant == Spec => []ForestInv
<1>1. Init => ForestInv
  <2> SUFFICES ASSUME Init
               PROVE  ForestInv
    OBVIOUS
  <2>1. DOMAIN projects = {}
    BY DEF Init
  <2>2. Ascends(projects, <<>>)
    BY <2>1 DEF Ascends
  <2>3. lastProject \in 0..MaxProjects
    BY BoundsAssumption DEF Init
  <2> QED
    BY <2>1, <2>2, <2>3 DEF ForestInv
<1>2. ForestInv /\ [Next]_vars => ForestInv'
  BY RequestsAre, ForestStep
<1> QED
  BY <1>1, <1>2, PTL DEF Spec

\* Whatever is moved and deleted, the projects are a forest: each has its parent, and
\* none is above itself.
THEOREM ProjectsAreForest == Spec => []IsForest
BY ForestInvariant, ForestIsForest, PTL

-----------------------------------------------------------------------------
(* The tables of the calendar, and what a transaction makes of them.         *)

TableNames == {"calendars", "events", "lastCalendar", "lastEvent"}

EventRow(ev, ids) ==
    /\ DOMAIN ev = {"calendar", "title", "start", "every", "count", "automation"}
    /\ ev.calendar \in ids
    /\ ev.automation \in Automations

TablesOK(t) ==
    /\ DOMAIN t = TableNames
    /\ t.lastCalendar \in Nat /\ DOMAIN t.calendars \subseteq 1..t.lastCalendar
    /\ t.calendars \in [DOMAIN t.calendars -> [name : CalendarNames, executable : BOOLEAN]]
    /\ t.lastEvent \in Nat /\ DOMAIN t.events \subseteq 1..t.lastEvent
    /\ \A e \in DOMAIN t.events : EventRow(t.events[e], DOMAIN t.calendars)

LEMMA CreatedCalendarIs ==
    ASSUME NEW t, DOMAIN t = TableNames, NEW name, NEW executable,
           NEW s, s = CreatedCalendar(t, name, executable)
    PROVE  /\ DOMAIN s = TableNames
           /\ s.calendars = Inserted(t.calendars, t.lastCalendar + 1,
                                     [name |-> name, executable |-> executable])
           /\ s.lastCalendar = t.lastCalendar + 1
           /\ s.events = t.events /\ s.lastEvent = t.lastEvent
BY DEF CreatedCalendar, TableNames

LEMMA InsertedEventIs ==
    ASSUME NEW t, DOMAIN t = TableNames, NEW ev, NEW s, s = InsertedEvent(t, ev)
    PROVE  /\ DOMAIN s = TableNames
           /\ s.events = Inserted(t.events, t.lastEvent + 1, ev)
           /\ s.lastEvent = t.lastEvent + 1
           /\ s.calendars = t.calendars /\ s.lastCalendar = t.lastCalendar
BY DEF InsertedEvent, TableNames

LEMMA UpdatedEventIs ==
    ASSUME NEW t, DOMAIN t = TableNames, NEW e, NEW ev, NEW s, s = UpdatedEvent(t, e, ev)
    PROVE  /\ DOMAIN s = TableNames
           /\ s.events = [t.events EXCEPT ![e] = ev]
           /\ s.lastEvent = t.lastEvent
           /\ s.calendars = t.calendars /\ s.lastCalendar = t.lastCalendar
BY DEF UpdatedEvent, TableNames

\* A new calendar breaks no row.
LEMMA CreatedCalendarOK ==
    ASSUME NEW t, TablesOK(t), NEW name \in CalendarNames, NEW executable \in BOOLEAN,
           NEW s, s = CreatedCalendar(t, name, executable)
    PROVE  /\ TablesOK(s) /\ s.events = t.events /\ s.lastEvent = t.lastEvent
           /\ t.lastCalendar + 1 \in CalendarNamed(s, name)
           /\ s.lastCalendar = t.lastCalendar + 1
<1> DEFINE id == t.lastCalendar + 1
           row == [name |-> name, executable |-> executable]
<1>1. DOMAIN t = TableNames
  BY DEF TablesOK
<1>2. /\ DOMAIN s = TableNames /\ s.calendars = Inserted(t.calendars, id, row)
      /\ s.lastCalendar = id /\ s.events = t.events /\ s.lastEvent = t.lastEvent
  BY <1>1, CreatedCalendarIs
<1>3. /\ DOMAIN s.calendars = DOMAIN t.calendars \cup {id}
      /\ s.calendars[id] = row
      /\ \A c \in DOMAIN t.calendars : c # id => s.calendars[c] = t.calendars[c]
  BY <1>2 DEF Inserted
<1>4. t.lastCalendar \in Nat /\ DOMAIN t.calendars \subseteq 1..t.lastCalendar
  BY DEF TablesOK
<1>5. DOMAIN s.calendars \subseteq 1..s.lastCalendar /\ s.lastCalendar \in Nat
  BY <1>2, <1>3, <1>4
<1>6. s.calendars \in [DOMAIN s.calendars -> [name : CalendarNames, executable : BOOLEAN]]
  <2>1. row \in [name : CalendarNames, executable : BOOLEAN]
    OBVIOUS
  <2>2. \A c \in DOMAIN t.calendars : t.calendars[c] \in [name : CalendarNames, executable : BOOLEAN]
    BY DEF TablesOK
  <2> HIDE DEF row
  <2> QED
    BY <1>2, <2>1, <2>2 DEF Inserted
<1>7. id \in CalendarNamed(s, name)
  BY <1>3 DEF CalendarNamed
<1>8. \A e \in DOMAIN s.events : EventRow(s.events[e], DOMAIN s.calendars)
  BY <1>2, <1>3 DEF TablesOK, EventRow
<1>9. s.lastEvent \in Nat /\ DOMAIN s.events \subseteq 1..s.lastEvent
  BY <1>2 DEF TablesOK
<1> HIDE DEF id
<1> QED
  BY <1>2, <1>5, <1>6, <1>7, <1>8, <1>9 DEF TablesOK, id

\* ensureCalendar gives tables with a calendar of that name.
LEMMA EnsuredOK ==
    ASSUME NEW t, TablesOK(t), NEW name \in CalendarNames, NEW s, s = Ensured(t, name)
    PROVE  /\ TablesOK(s) /\ s.events = t.events /\ s.lastEvent = t.lastEvent
           /\ TheCalendar(s, name) \in DOMAIN s.calendars
           /\ t.lastCalendar <= s.lastCalendar
<1>1. /\ TablesOK(s) /\ s.events = t.events /\ s.lastEvent = t.lastEvent
      /\ CalendarNamed(s, name) # {} /\ t.lastCalendar <= s.lastCalendar
  <2>1. t.lastCalendar \in Nat
    BY DEF TablesOK
  <2>2. CASE CalendarNamed(t, name) # {}
    BY <2>1, <2>2 DEF Ensured
  <2>3. CASE CalendarNamed(t, name) = {}
    <3>1. s = CreatedCalendar(t, name, FALSE)
      BY <2>3 DEF Ensured
    <3>2. /\ TablesOK(s) /\ s.events = t.events /\ s.lastEvent = t.lastEvent
          /\ t.lastCalendar + 1 \in CalendarNamed(s, name)
          /\ s.lastCalendar = t.lastCalendar + 1
      BY <3>1, CreatedCalendarOK
    <3> QED
      BY <2>1, <3>2
  <2> QED
    BY <2>2, <2>3
<1> QED
  BY <1>1 DEF TheCalendar, CalendarNamed

\* What a request writes to the events.
LEMMA EventWrittenOK ==
    ASSUME NEW t, TablesOK(t), NEW ev, EventRow(ev, DOMAIN t.calendars)
    PROVE  /\ \A s : s = InsertedEvent(t, ev) => TablesOK(s)
           /\ \A s : \A e \in DOMAIN t.events : s = UpdatedEvent(t, e, ev) => TablesOK(s)
<1>0. DOMAIN t = TableNames /\ t.lastEvent \in Nat /\ DOMAIN t.events \subseteq 1..t.lastEvent
  BY DEF TablesOK
<1>1. ASSUME NEW s, s = InsertedEvent(t, ev)
      PROVE  TablesOK(s)
  <2>1. /\ DOMAIN s = TableNames
        /\ s.events = Inserted(t.events, t.lastEvent + 1, ev) /\ s.lastEvent = t.lastEvent + 1
        /\ s.calendars = t.calendars /\ s.lastCalendar = t.lastCalendar
    BY <1>0, <1>1, InsertedEventIs
  <2>2. /\ DOMAIN s.events = DOMAIN t.events \cup {t.lastEvent + 1}
        /\ s.events[t.lastEvent + 1] = ev
        /\ \A e \in DOMAIN t.events : e # t.lastEvent + 1 => s.events[e] = t.events[e]
    BY <2>1 DEF Inserted
  <2>3. s.lastEvent \in Nat /\ DOMAIN s.events \subseteq 1..s.lastEvent
    BY <1>0, <2>1, <2>2
  <2>4. \A e \in DOMAIN s.events : EventRow(s.events[e], DOMAIN s.calendars)
    BY <2>1, <2>2 DEF TablesOK
  <2> QED
    BY <2>1, <2>3, <2>4 DEF TablesOK
<1>2. ASSUME NEW s, NEW e \in DOMAIN t.events, s = UpdatedEvent(t, e, ev)
      PROVE  TablesOK(s)
  <2>1. /\ DOMAIN s = TableNames
        /\ s.events = [t.events EXCEPT ![e] = ev] /\ s.lastEvent = t.lastEvent
        /\ s.calendars = t.calendars /\ s.lastCalendar = t.lastCalendar
    BY <1>0, <1>2, UpdatedEventIs
  <2> QED
    BY <2>1 DEF TablesOK
<1> QED
  BY <1>1, <1>2

\* What a request takes out of them.
LEMMA EventsGoneOK ==
    ASSUME NEW t, TablesOK(t), NEW ids, NEW s, s = [t EXCEPT !.events = Without(@, ids)]
    PROVE  TablesOK(s)
<1>1. /\ DOMAIN s = TableNames /\ s.events = Without(t.events, ids)
      /\ s.lastEvent = t.lastEvent /\ s.calendars = t.calendars /\ s.lastCalendar = t.lastCalendar
  BY DEF TablesOK, TableNames
<1>2. /\ DOMAIN s.events = DOMAIN t.events \ ids
      /\ \A e \in DOMAIN t.events \ ids : s.events[e] = t.events[e]
  BY <1>1 DEF Without, Restrict
<1> QED
  BY <1>1, <1>2 DEF TablesOK

\* The tables as they are.
CalendarInv ==
    /\ lastCalendar \in Nat /\ DOMAIN calendars \subseteq 1..lastCalendar
    /\ calendars \in [DOMAIN calendars -> [name : CalendarNames, executable : BOOLEAN]]
    /\ lastEvent \in Nat /\ DOMAIN events \subseteq 1..lastEvent
    /\ \A e \in DOMAIN events : EventRow(events[e], DOMAIN calendars)
    /\ lastCalendar <= MaxCalendars /\ lastEvent <= MaxEvents
    /\ emptied \subseteq 1..lastCalendar

LEMMA TheTables ==
    ASSUME CalendarInv
    PROVE  TablesOK(Tables)
BY DEF CalendarInv, TablesOK, Tables, TableNames

\* A transaction writes what it has made.
LEMMA WriteKeeps ==
    ASSUME NEW t, TablesOK(t), Write(t), emptied \subseteq 1..lastCalendar, emptied' \subseteq emptied,
           lastCalendar \in Nat, lastCalendar <= t.lastCalendar
    PROVE  CalendarInv'
<1>1. t.lastCalendar \in Nat
  BY DEF TablesOK
<1>2. emptied' \subseteq 1..t.lastCalendar
  BY <1>1
<1> QED
  BY <1>2 DEF Write, InBounds, TablesOK, CalendarInv

\* A step brings an automation onto no calendar that is plain.
NothingSmuggled ==
    \A e \in DOMAIN events' :
       /\ events'[e].automation # NoAutomation
       /\ ~calendars'[events'[e].calendar].executable
       => /\ e \in DOMAIN events
          /\ events'[e].automation = events[e].automation
          /\ events'[e].calendar = events[e].calendar

\* The events of a step that is about other things.
EventsAsTheyWere ==
    /\ DOMAIN events' \subseteq DOMAIN events /\ lastEvent' = lastEvent
    /\ \A e \in DOMAIN events' : events'[e] = events[e]

LEMMA NothingMoves ==
    ASSUME EventsAsTheyWere
    PROVE  NothingSmuggled
BY DEF EventsAsTheyWere, NothingSmuggled

-----------------------------------------------------------------------------
(* The requests about the calendar.                                          *)

LEMMA CreateCalendarKeeps ==
    ASSUME CalendarInv, NEW name \in CalendarNames, NEW x \in BOOLEAN, CreateCalendar(name, x)
    PROVE  CalendarInv' /\ EventsAsTheyWere
<1> DEFINE t == CreatedCalendar(Tables, name, x)
<1>1. Write(t) /\ emptied' = emptied
  BY DEF CreateCalendar
<1>2. /\ TablesOK(t) /\ t.events = Tables.events /\ t.lastEvent = Tables.lastEvent
      /\ t.lastCalendar = Tables.lastCalendar + 1
  <2>1. TablesOK(Tables) /\ DOMAIN Tables = TableNames
    BY TheTables DEF TablesOK
  <2> HIDE DEF t
  <2>2. t = CreatedCalendar(Tables, name, x)
    BY DEF t
  <2> QED
    BY <2>1, <2>2, CreatedCalendarOK
<1> HIDE DEF t
<1>3. lastCalendar \in Nat /\ emptied \subseteq 1..lastCalendar /\ lastCalendar <= t.lastCalendar
  BY <1>2 DEF CalendarInv, Tables
<1>4. CalendarInv'
  BY <1>1, <1>2, <1>3, WriteKeeps
<1> QED
  BY <1>1, <1>2, <1>4 DEF Write, Tables, EventsAsTheyWere

LEMMA UpdateCalendarKeeps ==
    ASSUME CalendarInv, NEW c \in DOMAIN calendars, NEW patch \in CalendarPatches,
           UpdateCalendar(c, patch)
    PROVE  CalendarInv' /\ EventsAsTheyWere
<1> DEFINE new == Patched(calendars[c], patch)
<1>1. /\ calendars' = [calendars EXCEPT ![c] = new]
      /\ UNCHANGED <<events, lastCalendar, lastEvent, emptied>>
  BY DEF UpdateCalendar
<1>2. new \in [name : CalendarNames, executable : BOOLEAN]
  <2>1. calendars[c] \in [name : CalendarNames, executable : BOOLEAN]
    BY DEF CalendarInv
  <2>2. /\ DOMAIN patch \subseteq {"name", "executable"}
        /\ "name" \in DOMAIN patch => patch.name \in CalendarNames
        /\ "executable" \in DOMAIN patch => patch.executable \in BOOLEAN
    BY CalendarsAssumption
  <2>3. new = [name |-> IF "name" \in DOMAIN patch THEN patch.name ELSE calendars[c].name,
               executable |-> IF "executable" \in DOMAIN patch THEN patch.executable
                              ELSE calendars[c].executable]
    BY <2>1, <2>2 DEF Patched
  <2> QED
    BY <2>1, <2>2, <2>3
<1> HIDE DEF new
<1>3. CalendarInv'
  BY <1>1, <1>2 DEF CalendarInv
<1> QED
  BY <1>1, <1>3 DEF EventsAsTheyWere

\* A calendar goes, with its events.
LEMMA CalendarGone ==
    ASSUME CalendarInv, NEW c, calendars' = Without(calendars, {c}), events' = Cascaded({c}),
           UNCHANGED <<lastCalendar, lastEvent>>, emptied' \subseteq emptied
    PROVE  CalendarInv' /\ EventsAsTheyWere
<1>1. /\ DOMAIN calendars' = DOMAIN calendars \ {c}
      /\ calendars' = [i \in DOMAIN calendars' |-> calendars[i]]
  BY DEF Without, Restrict
<1>2. /\ DOMAIN events' = {e \in DOMAIN events : events[e].calendar # c}
      /\ \A e \in DOMAIN events' : events'[e] = events[e]
  BY DEF Cascaded, EventsOf, Without, Restrict
<1>3. calendars' \in [DOMAIN calendars' -> [name : CalendarNames, executable : BOOLEAN]]
  BY <1>1 DEF CalendarInv
<1>4. \A e \in DOMAIN events' : EventRow(events'[e], DOMAIN calendars')
  BY <1>1, <1>2 DEF CalendarInv, EventRow
<1> QED
  BY <1>1, <1>2, <1>3, <1>4 DEF CalendarInv, EventsAsTheyWere

LEMMA EventsGone ==
    ASSUME CalendarInv, NEW ids, events' = Without(events, ids),
           UNCHANGED <<calendars, lastCalendar, lastEvent>>, emptied' \subseteq emptied
    PROVE  CalendarInv' /\ EventsAsTheyWere
<1>1. DOMAIN events' = DOMAIN events \ ids /\ \A e \in DOMAIN events' : events'[e] = events[e]
  BY DEF Without, Restrict
<1> QED
  BY <1>1 DEF CalendarInv, EventsAsTheyWere

LEMMA CalendarStays ==
    ASSUME CalendarInv, UNCHANGED <<calendars, events, lastCalendar, lastEvent>>,
           emptied' \subseteq 1..lastCalendar
    PROVE  CalendarInv' /\ EventsAsTheyWere
BY DEF CalendarInv, EventsAsTheyWere

LEMMA EditCalendarKeeps ==
    ASSUME CalendarInv, EditCalendar
    PROVE  CalendarInv' /\ EventsAsTheyWere
<1>1. CASE \E c \in DOMAIN calendars : DeleteCalendar(c)
  BY <1>1, CalendarGone DEF DeleteCalendar
<1>2. CASE \E c \in DOMAIN calendars : CountEvents(c)
  <2>1. UNCHANGED <<calendars, events, lastCalendar, lastEvent>> /\ emptied' \subseteq 1..lastCalendar
    BY <1>2 DEF CountEvents, CalendarInv
  <2> QED
    BY <2>1, CalendarStays
<1>3. CASE \E c \in emptied : DeleteEmptyCalendar(c)
  BY <1>3, CalendarGone DEF DeleteEmptyCalendar
<1>4. CASE \E name \in CalendarNames, x \in BOOLEAN : CreateCalendar(name, x)
  BY <1>4, CreateCalendarKeeps
<1>5. CASE \E c \in DOMAIN calendars, patch \in CalendarPatches : UpdateCalendar(c, patch)
  BY <1>5, UpdateCalendarKeeps
<1> QED
  BY <1>1, <1>2, <1>3, <1>4, <1>5 DEF EditCalendar

-----------------------------------------------------------------------------
(* The requests about events, and what they make of them.                    *)

\* One event more, with a title of one part.
UserBooks ==
    \E ev : /\ events' = Inserted(events, lastEvent + 1, ev)
            /\ lastEvent' = lastEvent + 1
            /\ Len(ev.title) = 1

LEMMA CreateEventKeeps ==
    ASSUME CalendarInv, NEW c \in DOMAIN calendars \cup {NoCalendar}, NEW a \in Automations,
           CreateEvent(c, "user", 1, a)
    PROVE  CalendarInv' /\ NothingSmuggled /\ UserBooks
<1> DEFINE t  == IF c = NoCalendar THEN Ensured(Tables, Personal) ELSE Tables
           d  == IF c = NoCalendar THEN TheCalendar(t, Personal) ELSE c
           ev == [calendar |-> d, title |-> <<"user">>, start |-> 1, every |-> 1,
                  count |-> 0, automation |-> a]
           s  == InsertedEvent(t, ev)
<1>1. /\ RequireExecutable(t, ev, [automation |-> a])
      /\ Write(s) /\ emptied' = emptied
  BY DEF CreateEvent
<1>2. /\ TablesOK(t) /\ t.events = events /\ t.lastEvent = lastEvent
      /\ d \in DOMAIN t.calendars /\ lastCalendar <= t.lastCalendar
  <2>0. lastCalendar \in Nat
    BY DEF CalendarInv
  <2>1. TablesOK(Tables) /\ Personal \in CalendarNames
    BY TheTables, NamesAssumption
  <2>2. CASE c = NoCalendar
    <3>1. t = Ensured(Tables, Personal) /\ d = TheCalendar(t, Personal)
      BY <2>2
    <3> HIDE DEF t, d
    <3>2. /\ TablesOK(t) /\ t.events = Tables.events /\ t.lastEvent = Tables.lastEvent
          /\ TheCalendar(t, Personal) \in DOMAIN t.calendars
          /\ Tables.lastCalendar <= t.lastCalendar
      BY <2>1, <3>1, EnsuredOK
    <3> QED
      BY <3>1, <3>2 DEF Tables
  <2>3. CASE c # NoCalendar
    BY <2>0, <2>1, <2>3 DEF Tables
  <2> QED
    BY <2>2, <2>3
<1> HIDE DEF t, d
<1>3. EventRow(ev, DOMAIN t.calendars) /\ ev.calendar = d /\ ev.automation = a /\ Len(ev.title) = 1
  BY <1>2 DEF EventRow
<1>4. a = NoAutomation \/ t.calendars[d].executable
  BY <1>1 DEF RequireExecutable
<1> HIDE DEF ev
<1>5. /\ TablesOK(s) /\ s.events = Inserted(events, lastEvent + 1, ev)
      /\ s.lastEvent = lastEvent + 1
      /\ s.calendars = t.calendars /\ s.lastCalendar = t.lastCalendar
  <2>1. DOMAIN t = TableNames
    BY <1>2 DEF TablesOK
  <2>2. s = InsertedEvent(t, ev)
    OBVIOUS
  <2> HIDE DEF s
  <2> QED
    BY <1>2, <1>3, <2>1, <2>2, EventWrittenOK, InsertedEventIs
<1> HIDE DEF s
<1>6. /\ events' = Inserted(events, lastEvent + 1, ev) /\ lastEvent' = lastEvent + 1
      /\ calendars' = t.calendars
  BY <1>1, <1>5 DEF Write
<1>7. CalendarInv'
  <2>1. lastCalendar \in Nat /\ emptied \subseteq 1..lastCalendar
    BY DEF CalendarInv
  <2> QED
    BY <1>1, <1>2, <1>5, <2>1, WriteKeeps
<1>8. NothingSmuggled
  <2>1. /\ DOMAIN events' = DOMAIN events \cup {lastEvent + 1}
        /\ \A e \in DOMAIN events' : events'[e] = IF e = lastEvent + 1 THEN ev ELSE events[e]
    BY <1>6 DEF Inserted
  <2> QED
    BY <1>3, <1>4, <1>6, <2>1 DEF NothingSmuggled
<1> QED
  BY <1>3, <1>6, <1>7, <1>8 DEF UserBooks

\* An event is written anew, with its title as it was or of one part.
UserEdits(e) ==
    \E ev : /\ events' = [events EXCEPT ![e] = ev]
            /\ lastEvent' = lastEvent
            /\ ev.title = events[e].title \/ Len(ev.title) = 1

LEMMA UpdateEventKeeps ==
    ASSUME CalendarInv, NEW e \in DOMAIN events, NEW patch,
           \/ patch \in EventPatches
           \/ \E c : patch = [calendar |-> c],
           UpdateEvent(e, patch)
    PROVE  CalendarInv' /\ NothingSmuggled /\ UserEdits(e)
<1> DEFINE new == Patched(events[e], patch)
           s   == UpdatedEvent(Tables, e, new)
<1>1. /\ new.calendar \in DOMAIN calendars
      /\ RequireExecutable(Tables, new, patch)
      /\ Write(s) /\ emptied' = emptied
  BY DEF UpdateEvent
<1>2. EventRow(events[e], DOMAIN calendars)
  BY DEF CalendarInv
<1>3. /\ DOMAIN patch \subseteq {"calendar", "title", "start", "every", "count", "automation"}
      /\ "title" \in DOMAIN patch => Len(patch.title) = 1
      /\ "automation" \in DOMAIN patch => patch.automation \in Automations
  <2>1. CASE patch \in EventPatches
    BY <2>1, EventsAssumption
  <2>2. CASE \E c : patch = [calendar |-> c]
    BY <2>2
  <2> QED
    BY <2>1, <2>2
<1>4. /\ EventRow(new, DOMAIN calendars)
      /\ new.title = events[e].title \/ Len(new.title) = 1
  <2>1. DOMAIN new = {"calendar", "title", "start", "every", "count", "automation"}
    BY <1>2, <1>3 DEF Patched, EventRow
  <2>2. new.automation \in Automations /\ (new.title = events[e].title \/ Len(new.title) = 1)
    BY <1>2, <1>3 DEF Patched, EventRow
  <2> QED
    BY <1>1, <2>1, <2>2 DEF EventRow
<1>5. new.automation = NoAutomation \/ calendars[new.calendar].executable
  BY <1>1 DEF RequireExecutable, Tables
<1> HIDE DEF new
<1>6. /\ TablesOK(s) /\ s.events = [events EXCEPT ![e] = new] /\ s.lastEvent = lastEvent
      /\ s.calendars = calendars /\ s.lastCalendar = lastCalendar
  <2>1. /\ TablesOK(Tables) /\ DOMAIN Tables = TableNames
        /\ Tables.events = events /\ Tables.lastEvent = lastEvent
        /\ Tables.calendars = calendars /\ Tables.lastCalendar = lastCalendar
    BY TheTables DEF TablesOK, Tables
  <2>2. s = UpdatedEvent(Tables, e, new)
    OBVIOUS
  <2> HIDE DEF s
  <2> QED
    BY <1>4, <2>1, <2>2, EventWrittenOK, UpdatedEventIs
<1> HIDE DEF s
<1>7. /\ events' = [events EXCEPT ![e] = new] /\ lastEvent' = lastEvent
      /\ calendars' = calendars
  BY <1>1, <1>6 DEF Write
<1>8. CalendarInv'
  <2>1. /\ lastCalendar \in Nat /\ emptied \subseteq 1..lastCalendar
        /\ lastCalendar <= s.lastCalendar
    BY <1>6 DEF CalendarInv
  <2> QED
    BY <1>1, <1>6, <2>1, WriteKeeps
<1>9. NothingSmuggled
  BY <1>5, <1>7 DEF NothingSmuggled
<1> QED
  BY <1>4, <1>7, <1>8, <1>9 DEF UserEdits

-----------------------------------------------------------------------------
(* The requests about facts.                                                 *)

FactRow(f, ids, last) ==
    /\ DOMAIN f = FactFields \cup {"project", "event"}
    /\ ValidFact(f) /\ f.kind \in DOMAIN FactRules
    /\ f.project \in ids /\ f.event \in 0..last
    /\ FactNeedsEvent(f) <=> f.event # None
    /\ FieldsTyped(f)

FactsInv ==
    /\ lastFact \in 0..MaxFacts /\ DOMAIN facts \subseteq 1..lastFact
    /\ \A i \in DOMAIN facts : FactRow(facts[i], DOMAIN projects, lastEvent)

\* What projectFact makes of the events, and the pointer it gives.
ShadowGone(f, pointer, evs, last) ==
    /\ ~FactNeedsEvent(f) /\ pointer = None
    /\ evs = Without(events, {f.event}) /\ last = lastEvent

ShadowRewritten(project, f, pointer, evs, last) ==
    /\ FactNeedsEvent(f) /\ f.event \in DOMAIN events /\ pointer = f.event
    /\ \E c : evs = [events EXCEPT ![f.event] = Shadow(project, f, c)]
    /\ last = lastEvent

ShadowMade(project, f, pointer, evs, last) ==
    /\ FactNeedsEvent(f) /\ f.event \notin DOMAIN events /\ pointer = lastEvent + 1
    /\ \E c : evs = Inserted(events, lastEvent + 1, Shadow(project, f, c))
    /\ last = lastEvent + 1

ShadowCast(project, f, pointer, evs, last) ==
    \/ ShadowGone(f, pointer, evs, last)
    \/ ShadowRewritten(project, f, pointer, evs, last)
    \/ ShadowMade(project, f, pointer, evs, last)

LEMMA ProjectFactCasts ==
    ASSUME CalendarInv, NEW project, NEW f, NEW done, done = ProjectFact(project, f)
    PROVE  /\ TablesOK(done.tables) /\ lastCalendar <= done.tables.lastCalendar
           /\ ShadowCast(project, f, done.event, done.tables.events, done.tables.lastEvent)
<1> DEFINE t == Ensured(Tables, Shadows)
           c == TheCalendar(t, Shadows)
           ev == Shadow(project, f, c)
<1>1. /\ TablesOK(Tables) /\ DOMAIN Tables = TableNames
      /\ Tables.events = events /\ Tables.lastEvent = lastEvent
      /\ Tables.lastCalendar = lastCalendar /\ lastCalendar \in Nat
  BY TheTables DEF TablesOK, Tables, CalendarInv
<1>2. /\ TablesOK(t) /\ t.events = events /\ t.lastEvent = lastEvent
      /\ c \in DOMAIN t.calendars /\ lastCalendar <= t.lastCalendar
      /\ DOMAIN t = TableNames
  <2>1. Shadows \in CalendarNames /\ t = Ensured(Tables, Shadows)
    BY NamesAssumption
  <2> HIDE DEF t
  <2> QED
    BY <1>1, <2>1, EnsuredOK DEF TablesOK
<1>3. EventRow(ev, DOMAIN t.calendars)
  BY <1>2, EventsAssumption DEF EventRow, Shadow
<1>4. CASE ~FactNeedsEvent(f)
  <2> DEFINE s == [Tables EXCEPT !.events = Without(@, {f.event})]
  <2>1. done = [tables |-> s, event |-> None]
    BY <1>4 DEF ProjectFact
  <2>2. TablesOK(s)
    BY <1>1, EventsGoneOK
  <2>3. /\ s.events = Without(events, {f.event}) /\ s.lastEvent = lastEvent
        /\ s.lastCalendar = lastCalendar
    BY DEF Tables
  <2> HIDE DEF s
  <2>4. done.tables = s /\ done.event = None
    BY <2>1
  <2> QED
    BY <1>1, <1>4, <2>2, <2>3, <2>4 DEF ShadowCast, ShadowGone
<1>5. CASE FactNeedsEvent(f) /\ f.event \in DOMAIN events
  <2> DEFINE s == UpdatedEvent(t, f.event, ev)
  <2>1. done = [tables |-> s, event |-> f.event]
    BY <1>5 DEF ProjectFact
  <2>2. s = UpdatedEvent(t, f.event, ev)
    OBVIOUS
  <2>3. done.tables = s /\ done.event = f.event
    BY <2>1
  <2> HIDE DEF s, t, ev
  <2>4. /\ TablesOK(s) /\ s.events = [events EXCEPT ![f.event] = ev] /\ s.lastEvent = lastEvent
        /\ s.lastCalendar = t.lastCalendar
    BY <1>2, <1>3, <1>5, <2>2, EventWrittenOK, UpdatedEventIs
  <2>5. \E d : s.events = [events EXCEPT ![f.event] = Shadow(project, f, d)]
    BY <2>4 DEF ev
  <2> QED
    BY <1>2, <1>5, <2>3, <2>4, <2>5 DEF ShadowCast, ShadowRewritten
<1>6. CASE FactNeedsEvent(f) /\ f.event \notin DOMAIN events
  <2> DEFINE s == InsertedEvent(t, ev)
  <2>1. done = [tables |-> s, event |-> lastEvent + 1]
    BY <1>6 DEF ProjectFact
  <2>2. s = InsertedEvent(t, ev)
    OBVIOUS
  <2>3. done.tables = s /\ done.event = lastEvent + 1
    BY <2>1
  <2> HIDE DEF s, t, ev
  <2>4. /\ TablesOK(s) /\ s.events = Inserted(events, lastEvent + 1, ev) /\ s.lastEvent = lastEvent + 1
        /\ s.lastCalendar = t.lastCalendar
    BY <1>2, <1>3, <1>6, <2>2, EventWrittenOK, InsertedEventIs
  <2>5. \E d : s.events = Inserted(events, lastEvent + 1, Shadow(project, f, d))
    BY <2>4 DEF ev
  <2> QED
    BY <1>2, <1>6, <2>3, <2>4, <2>5 DEF ShadowCast, ShadowMade
<1> QED
  BY <1>4, <1>5, <1>6

LEMMA ShadowsSmuggleNothing ==
    ASSUME NEW project, NEW f, NEW pointer, ShadowCast(project, f, pointer, events', lastEvent')
    PROVE  NothingSmuggled
<1>1. CASE ShadowGone(f, pointer, events', lastEvent')
  <2>1. DOMAIN events' \subseteq DOMAIN events /\ \A e \in DOMAIN events' : events'[e] = events[e]
    BY <1>1 DEF ShadowGone, Without, Restrict
  <2> QED
    BY <2>1 DEF NothingSmuggled
<1>2. CASE ShadowRewritten(project, f, pointer, events', lastEvent')
  <2>1. PICK c : events' = [events EXCEPT ![f.event] = Shadow(project, f, c)]
    BY <1>2 DEF ShadowRewritten
  <2>2. Shadow(project, f, c).automation = NoAutomation
    BY DEF Shadow
  <2> QED
    BY <2>1, <2>2 DEF NothingSmuggled
<1>3. CASE ShadowMade(project, f, pointer, events', lastEvent')
  <2>1. PICK c : events' = Inserted(events, lastEvent + 1, Shadow(project, f, c))
    BY <1>3 DEF ShadowMade
  <2>2. Shadow(project, f, c).automation = NoAutomation
    BY DEF Shadow
  <2> QED
    BY <2>1, <2>2 DEF NothingSmuggled, Inserted
<1> QED
  BY <1>1, <1>2, <1>3 DEF ShadowCast

LEMMA FactWritten ==
    ASSUME CalendarInv, NEW project, NEW f, NEW done, done = ProjectFact(project, f),
           Write(done.tables), emptied' = emptied
    PROVE  /\ CalendarInv' /\ NothingSmuggled
           /\ ShadowCast(project, f, done.event, events', lastEvent')
           /\ lastEvent \in Nat /\ lastEvent' \in Nat /\ lastEvent <= lastEvent'
<1>1. /\ TablesOK(done.tables) /\ lastCalendar <= done.tables.lastCalendar
      /\ ShadowCast(project, f, done.event, done.tables.events, done.tables.lastEvent)
  BY ProjectFactCasts
<1>2. lastCalendar \in Nat /\ emptied \subseteq 1..lastCalendar /\ lastEvent \in Nat
  BY DEF CalendarInv
<1>3. CalendarInv'
  BY <1>1, <1>2, WriteKeeps
<1>4. ShadowCast(project, f, done.event, events', lastEvent')
  BY <1>1 DEF Write
<1>5. lastEvent' = lastEvent \/ lastEvent' = lastEvent + 1
  BY <1>4 DEF ShadowCast, ShadowGone, ShadowRewritten, ShadowMade
<1> QED
  BY <1>2, <1>3, <1>4, <1>5, ShadowsSmuggleNothing

\* The typed fields one by one.
LEMMA TypedFields ==
    ASSUME NEW f, FactFields \subseteq DOMAIN f
    PROVE  FieldsTyped(f) <=>
              /\ f.due \in Nat /\ f.lead \in Nat /\ f.every \in Nat /\ f.count \in Nat
              /\ f.done \in BOOLEAN /\ f.blocked \in BOOLEAN
<1>1. /\ {"due", "lead", "every", "count"} \cap DOMAIN f = {"due", "lead", "every", "count"}
      /\ {"done", "blocked"} \cap DOMAIN f = {"done", "blocked"}
  BY DEF FactFields
<1> QED
  BY <1>1 DEF FieldsTyped

\* The pointer of a fact that is written, and its row.
LEMMA PointerOK ==
    ASSUME NEW project, NEW f, NEW pointer, NEW evs, NEW last, lastEvent \in Nat, last \in Nat,
           lastEvent <= last, ShadowCast(project, f, pointer, evs, last),
           DOMAIN events \subseteq 1..lastEvent,
           NEW ids, DOMAIN f = FactFields \cup {"project", "event"}, ValidFact(f),
           f.kind \in DOMAIN FactRules, f.project \in ids, FieldsTyped(f),
           NEW row, row = [f EXCEPT !.event = pointer]
    PROVE  FactRow(row, ids, last)
<1>1. pointer \in 0..last /\ (FactNeedsEvent(f) <=> pointer # None)
  BY DEF ShadowCast, ShadowGone, ShadowRewritten, ShadowMade, None
<1>2. /\ DOMAIN row = DOMAIN f /\ row.event = pointer
      /\ row.project = f.project /\ row.kind = f.kind /\ row.due = f.due /\ row.count = f.count
      /\ row.done = f.done /\ row.blocked = f.blocked
      /\ row.lead = f.lead /\ row.every = f.every
  BY DEF FactFields
<1>3. ValidFact(row) /\ (FactNeedsEvent(row) <=> FactNeedsEvent(f))
  BY <1>2 DEF ValidFact, FieldsSet, FactNeedsEvent
<1>4. FieldsTyped(row)
  BY <1>2, TypedFields DEF FactFields
<1> QED
  BY <1>1, <1>2, <1>3, <1>4 DEF FactRow

LEMMA CreateFactKeeps ==
    ASSUME CalendarInv, FactsInv, NEW p \in DOMAIN projects, NEW input \in NewFacts,
           CreateFact(p, input)
    PROVE  CalendarInv' /\ FactsInv' /\ NothingSmuggled
<1> DEFINE f    == Patched([project |-> p, event |-> None], input)
           done == ProjectFact(projects[p], f)
           row  == [f EXCEPT !.event = done.event]
<1>1. /\ lastFact < MaxFacts /\ ValidFact(f) /\ Write(done.tables) /\ lastFact' = lastFact + 1
      /\ facts' = Inserted(facts, lastFact + 1, row)
      /\ UNCHANGED <<emptied, projects>>
  BY DEF CreateFact
<1>2. /\ DOMAIN f = FactFields \cup {"project", "event"}
      /\ f.project = p /\ f.kind \in DOMAIN FactRules /\ FieldsTyped(f)
  <2>1. DOMAIN input = FactFields /\ input.kind \in DOMAIN FactRules /\ FieldsTyped(input)
    BY FactsAssumption
  <2>2. FieldsTyped(f)
    BY <2>1 DEF FieldsTyped, Patched, FactFields
  <2> QED
    BY <2>1, <2>2 DEF Patched, FactFields
<1> HIDE DEF f
<1>3. done = ProjectFact(projects[p], f)
  OBVIOUS
<1> HIDE DEF done
<1>4. /\ CalendarInv' /\ NothingSmuggled
      /\ ShadowCast(projects[p], f, done.event, events', lastEvent')
      /\ lastEvent \in Nat /\ lastEvent' \in Nat /\ lastEvent <= lastEvent'
  BY <1>1, <1>3, FactWritten
<1>5. FactRow(row, DOMAIN projects, lastEvent')
  <2>1. DOMAIN events \subseteq 1..lastEvent
    BY DEF CalendarInv
  <2>2. row = [f EXCEPT !.event = done.event]
    OBVIOUS
  <2> HIDE DEF row
  <2> QED
    BY <1>1, <1>2, <1>4, <2>1, <2>2, PointerOK
<1> HIDE DEF row
<1>6. FactsInv'
  <2>1. /\ DOMAIN facts' = DOMAIN facts \cup {lastFact + 1}
        /\ \A i \in DOMAIN facts' : facts'[i] = IF i = lastFact + 1 THEN row ELSE facts[i]
    BY <1>1 DEF Inserted
  <2>2. \A i \in DOMAIN facts : FactRow(facts[i], DOMAIN projects, lastEvent')
    BY <1>4 DEF FactsInv, FactRow
  <2>3. \A i \in DOMAIN facts' : FactRow(facts'[i], DOMAIN projects', lastEvent')
    BY <1>1, <1>5, <2>1, <2>2
  <2>4. lastFact' \in 0..MaxFacts /\ DOMAIN facts' \subseteq 1..lastFact'
    BY <1>1, <2>1, BoundsAssumption DEF FactsInv
  <2> QED
    BY <2>3, <2>4 DEF FactsInv
<1> QED
  BY <1>4, <1>6

LEMMA UpdateFactKeeps ==
    ASSUME CalendarInv, FactsInv, NEW id \in DOMAIN facts, NEW patch \in FactPatches,
           UpdateFact(id, patch)
    PROVE  CalendarInv' /\ FactsInv' /\ NothingSmuggled
<1> DEFINE f    == Patched(facts[id], patch)
           done == ProjectFact(projects[f.project], f)
           row  == [f EXCEPT !.event = done.event]
<1>1. /\ ValidFact(f) /\ Write(done.tables)
      /\ facts' = [facts EXCEPT ![id] = row]
      /\ UNCHANGED <<emptied, projects, lastFact>>
  BY DEF UpdateFact
<1>2. /\ DOMAIN f = FactFields \cup {"project", "event"}
      /\ f.project \in DOMAIN projects /\ f.kind \in DOMAIN FactRules /\ FieldsTyped(f)
  <2>1. DOMAIN patch \subseteq FactFields \ {"kind"} /\ FieldsTyped(patch)
    BY FactsAssumption
  <2>2. /\ DOMAIN facts[id] = FactFields \cup {"project", "event"}
        /\ facts[id].project \in DOMAIN projects /\ facts[id].kind \in DOMAIN FactRules
        /\ FieldsTyped(facts[id])
    BY DEF FactsInv, FactRow
  <2>3. FieldsTyped(f)
    BY <2>1, <2>2 DEF FieldsTyped, Patched, FactFields
  <2> QED
    BY <2>1, <2>2, <2>3 DEF Patched, FactFields
<1> HIDE DEF f
<1>3. done = ProjectFact(projects[f.project], f)
  OBVIOUS
<1> HIDE DEF done
<1>4. /\ CalendarInv' /\ NothingSmuggled
      /\ ShadowCast(projects[f.project], f, done.event, events', lastEvent')
      /\ lastEvent \in Nat /\ lastEvent' \in Nat /\ lastEvent <= lastEvent'
  BY <1>1, <1>3, FactWritten
<1>5. FactRow(row, DOMAIN projects, lastEvent')
  <2>1. DOMAIN events \subseteq 1..lastEvent
    BY DEF CalendarInv
  <2>2. row = [f EXCEPT !.event = done.event]
    OBVIOUS
  <2> HIDE DEF row
  <2> QED
    BY <1>1, <1>2, <1>4, <2>1, <2>2, PointerOK
<1> HIDE DEF row
<1>6. FactsInv'
  <2>1. \A i \in DOMAIN facts' : FactRow(facts'[i], DOMAIN projects', lastEvent')
    BY <1>1, <1>4, <1>5 DEF FactsInv, FactRow
  <2> QED
    BY <1>1, <2>1 DEF FactsInv
<1> QED
  BY <1>4, <1>6

\* Facts that go.
LEMMA FactsGone ==
    ASSUME FactsInv, NEW ids, facts' = Without(facts, ids), lastFact' = lastFact,
           lastEvent' = lastEvent,
           \A i \in DOMAIN facts \ ids : facts[i].project \in DOMAIN projects'
    PROVE  FactsInv'
<1>1. DOMAIN facts' = DOMAIN facts \ ids /\ \A i \in DOMAIN facts' : facts'[i] = facts[i]
  BY DEF Without, Restrict
<1> QED
  BY <1>1 DEF FactsInv, FactRow

LEMMA FactsStay ==
    ASSUME FactsInv, UNCHANGED <<facts, lastFact>>, DOMAIN projects \subseteq DOMAIN projects',
           lastEvent \in Nat, lastEvent' \in Nat, lastEvent <= lastEvent'
    PROVE  FactsInv'
BY DEF FactsInv, FactRow

-----------------------------------------------------------------------------
(* Every request keeps the rows, and smuggles nothing.                       *)

BotsInv == leaving \subseteq bots /\ bots \subseteq Bots

RowsInv == CalendarInv /\ FactsInv /\ BotsInv

\* A rename touches titles only.
LEMMA RetitledIs ==
    ASSUME CalendarInv, NEW p, NEW project, events' = Retitled(p, project)
    PROVE  /\ DOMAIN events' = DOMAIN events
           /\ \A e \in DOMAIN events :
                 /\ DOMAIN events'[e] = DOMAIN events[e]
                 /\ events'[e].calendar = events[e].calendar
                 /\ events'[e].automation = events[e].automation
<1>1. \A e \in DOMAIN events : DOMAIN events[e] = {"calendar", "title", "start", "every", "count", "automation"}
  BY DEF CalendarInv, EventRow
<1>2. DOMAIN events' = DOMAIN events
  BY DEF Retitled
<1>3. \A e \in DOMAIN events :
         events'[e] = events[e] \/ \E title : events'[e] = [events[e] EXCEPT !.title = title]
  BY DEF Retitled
<1> QED
  BY <1>1, <1>2, <1>3

LEMMA UpdateProjectRows ==
    ASSUME CalendarInv, FactsInv, NEW p \in DOMAIN projects, NEW patch, UpdateProject(p, patch)
    PROVE  CalendarInv' /\ FactsInv' /\ NothingSmuggled
<1>1. /\ UNCHANGED <<calendars, lastCalendar, lastEvent, emptied, facts, lastFact>>
      /\ DOMAIN projects' = DOMAIN projects
  BY DEF UpdateProject
<1>2. events' = events \/ \E project : events' = Retitled(p, project)
  BY DEF UpdateProject
<1>3. /\ DOMAIN events' = DOMAIN events
      /\ \A e \in DOMAIN events :
            /\ DOMAIN events'[e] = DOMAIN events[e]
            /\ events'[e].calendar = events[e].calendar
            /\ events'[e].automation = events[e].automation
  BY <1>2, RetitledIs
<1>4. CalendarInv' /\ NothingSmuggled
  BY <1>1, <1>3 DEF CalendarInv, EventRow, NothingSmuggled
<1>5. FactsInv'
  BY <1>1, FactsStay DEF CalendarInv
<1> QED
  BY <1>4, <1>5

LEMMA DeleteProjectRows ==
    ASSUME CalendarInv, FactsInv, NEW p \in DOMAIN projects, DeleteProject(p)
    PROVE  CalendarInv' /\ FactsInv' /\ NothingSmuggled
<1> DEFINE gone == Subtree(projects, p)
<1>1. /\ events' = Without(events, ShadowsOf(gone))
      /\ facts' = Without(facts, {f \in DOMAIN facts : facts[f].project \in gone})
      /\ projects' = Without(projects, gone)
      /\ UNCHANGED <<calendars, lastCalendar, lastEvent, emptied, lastFact>>
  BY DEF DeleteProject
<1> HIDE DEF gone
<1>2. CalendarInv' /\ EventsAsTheyWere
  BY <1>1, EventsGone
<1>3. DOMAIN projects' = DOMAIN projects \ gone
  BY <1>1 DEF Without, Restrict
<1> DEFINE ids == {f \in DOMAIN facts : facts[f].project \in gone}
<1>4. \A i \in DOMAIN facts \ ids : facts[i].project \in DOMAIN projects'
  BY <1>3 DEF FactsInv, FactRow
<1>5. facts' = Without(facts, ids) /\ lastFact' = lastFact /\ lastEvent' = lastEvent
  BY <1>1
<1> HIDE DEF ids
<1>6. FactsInv'
  BY <1>4, <1>5, FactsGone
<1> QED
  BY <1>2, <1>6, NothingMoves

LEMMA DeleteFactRows ==
    ASSUME CalendarInv, FactsInv, NEW id \in DOMAIN facts, DeleteFact(id)
    PROVE  CalendarInv' /\ FactsInv' /\ NothingSmuggled
<1>1. /\ events' = Without(events, {facts[id].event})
      /\ facts' = Without(facts, {id})
      /\ UNCHANGED <<calendars, lastCalendar, lastEvent, emptied, projects, lastFact>>
  BY DEF DeleteFact
<1>2. CalendarInv' /\ EventsAsTheyWere
  BY <1>1, EventsGone
<1>3. \A i \in DOMAIN facts \ {id} : facts[i].project \in DOMAIN projects'
  BY <1>1 DEF FactsInv, FactRow
<1>4. FactsInv'
  BY <1>1, <1>3, FactsGone
<1> QED
  BY <1>2, <1>4, NothingMoves

LEMMA CalendarRequestRows ==
    ASSUME CalendarInv, FactsInv, CalendarRequest, UNCHANGED projectVars
    PROVE  CalendarInv' /\ FactsInv' /\ NothingSmuggled
<1>0. /\ UNCHANGED <<facts, lastFact>> /\ DOMAIN projects \subseteq DOMAIN projects'
      /\ lastEvent \in Nat
  BY DEF projectVars, CalendarInv
<1>1. CASE EditCalendar
  <2>1. CalendarInv' /\ EventsAsTheyWere /\ lastEvent' = lastEvent
    BY <1>1, EditCalendarKeeps DEF EventsAsTheyWere
  <2> QED
    BY <1>0, <2>1, FactsStay, NothingMoves
<1>2. ASSUME NEW c \in DOMAIN calendars \cup {NoCalendar}, NEW a \in Automations,
             CreateEvent(c, "user", 1, a)
      PROVE  CalendarInv' /\ FactsInv' /\ NothingSmuggled
  <2>1. CalendarInv' /\ NothingSmuggled /\ lastEvent' = lastEvent + 1
    BY <1>2, CreateEventKeeps DEF UserBooks
  <2> QED
    BY <1>0, <2>1, FactsStay
<1>3. ASSUME NEW e \in DOMAIN events, DeleteEvent(e)
      PROVE  CalendarInv' /\ FactsInv' /\ NothingSmuggled
  <2>1. CalendarInv' /\ EventsAsTheyWere /\ lastEvent' = lastEvent
    BY <1>3, EventsGone DEF DeleteEvent
  <2> QED
    BY <1>0, <2>1, FactsStay, NothingMoves
<1>4. ASSUME NEW e \in DOMAIN events, NEW patch,
             patch \in EventPatches \/ \E c : patch = [calendar |-> c], UpdateEvent(e, patch)
      PROVE  CalendarInv' /\ FactsInv' /\ NothingSmuggled
  <2>1. CalendarInv' /\ NothingSmuggled /\ lastEvent' = lastEvent
    BY <1>4, UpdateEventKeeps DEF UserEdits
  <2> QED
    BY <1>0, <2>1, FactsStay
<1> QED
  BY <1>1, <1>2, <1>3, <1>4 DEF CalendarRequest, BookOrCancel, EditEvent

LEMMA RowsKept ==
    ASSUME CalendarInv, FactsInv, RequestCases
    PROVE  CalendarInv' /\ FactsInv' /\ NothingSmuggled
<1>1. ASSUME UNCHANGED <<calendars, events, lastCalendar, lastEvent, facts, lastFact>>,
             emptied' \subseteq emptied, DOMAIN projects \subseteq DOMAIN projects'
      PROVE  CalendarInv' /\ FactsInv' /\ NothingSmuggled
  <2>1. CalendarInv' /\ EventsAsTheyWere
    BY <1>1, CalendarStays DEF CalendarInv
  <2>2. FactsInv'
    BY <1>1, FactsStay DEF CalendarInv
  <2> QED
    BY <2>1, <2>2, NothingMoves
<1>2. ASSUME NEW name \in ProjectNames, NEW owner \in Bots \cup {NoBot}, NEW parent, NEW lead,
             CreateProject(name, parent, lead, owner)
      PROVE  CalendarInv' /\ FactsInv' /\ NothingSmuggled
  BY <1>1, <1>2 DEF CreateProject, Inserted, calendarVars
<1>3. CASE \E b \in Bots : ClearOwner(b) \/ DeleteRow(b)
  BY <1>1, <1>3 DEF ClearOwner, DeleteRow, calendarVars
<1>4. CASE Crash
  BY <1>1, <1>4 DEF Crash
<1>5. CASE UNCHANGED vars
  BY <1>1, <1>5 DEF vars, projectVars, calendarVars
<1>6. CASE CalendarRequest /\ UNCHANGED projectVars
  BY <1>6, CalendarRequestRows
<1>7. CASE \E p \in DOMAIN projects, input \in NewFacts : CreateFact(p, input)
  BY <1>7, CreateFactKeeps
<1>8. CASE \E f \in DOMAIN facts : (\E patch \in FactPatches : UpdateFact(f, patch)) \/ DeleteFact(f)
  BY <1>8, UpdateFactKeeps, DeleteFactRows
<1> QED
  BY <1>2, <1>3, <1>4, <1>5, <1>6, <1>7, <1>8, UpdateProjectRows, DeleteProjectRows
  DEF RequestCases, CalendarRequest, projectVars

LEMMA RowsStep ==
    ASSUME RowsInv, RequestCases
    PROVE  RowsInv' /\ NothingSmuggled
<1>1. CalendarInv /\ FactsInv /\ BotsInv
  BY DEF RowsInv
<1>2. BotsInv'
  BY <1>1 DEF RequestCases, CreateProject, UpdateProject, DeleteProject, CreateFact, UpdateFact,
     DeleteFact, ClearOwner, DeleteRow, Crash, projectVars, vars, BotsInv
<1> QED
  BY <1>1, <1>2, RowsKept DEF RowsInv

LEMMA RowsInvariant == Spec => []RowsInv
<1>1. Init => RowsInv
  <2> SUFFICES ASSUME Init
               PROVE  RowsInv
    OBVIOUS
  <2>1. {MaxFacts, MaxCalendars, MaxEvents} \subseteq Nat
    BY BoundsAssumption
  <2>2. CalendarInv
    <3>1. calendars \in [DOMAIN calendars -> [name : CalendarNames, executable : BOOLEAN]]
      BY DEF Init, InitCalendars
    <3> QED
      BY <2>1, <3>1 DEF Init, InitCalendars, CalendarInv
  <2>3. FactsInv /\ BotsInv
    BY <2>1 DEF Init, FactsInv, BotsInv
  <2> QED
    BY <2>2, <2>3 DEF RowsInv
<1>2. RowsInv /\ [Next]_vars => RowsInv'
  BY RequestsAre, RowsStep
<1> QED
  BY <1>1, <1>2, PTL DEF Spec

\* The tables have their shapes, and every id was handed out.
THEOREM ProjectsTypeCorrect == Spec => []TypeOK
<1>1. ForestInv /\ RowsInv => TypeOK
  <2> SUFFICES ASSUME ForestInv, RowsInv
               PROVE  TypeOK
    OBVIOUS
  <2>1. CalendarInv /\ FactsInv /\ BotsInv
    BY DEF RowsInv
  <2>2. \A ev \in Rows(events) : ev.automation \in Automations
    BY <2>1 DEF Rows, CalendarInv, EventRow
  <2>3. \A q \in Rows(projects) : /\ q.name \in ProjectNames
                                  /\ q.parent \in 0..lastProject /\ q.lead \in ProjectLeads
                                  /\ q.owner \in Bots \cup {NoBot}
    <3>1. lastProject \in Nat /\ DOMAIN projects \subseteq 1..lastProject
      BY BoundsAssumption DEF ForestInv
    <3>2. DOMAIN projects \cup {None} \subseteq 0..lastProject
      BY <3>1 DEF None
    <3>3. \A p \in DOMAIN projects : ProjectRow(projects[p], DOMAIN projects)
      BY DEF ForestInv
    <3> QED
      BY <3>2, <3>3 DEF Rows, ProjectRow
  <2>4. \A f \in Rows(facts) : ValidFact(f) /\ FieldsTyped(f) /\ f.event \in 0..lastEvent
    BY <2>1 DEF Rows, FactsInv, FactRow
  <2>5. lastProject <= MaxProjects /\ lastFact <= MaxFacts
    BY <2>1, BoundsAssumption DEF ForestInv, FactsInv
  <2> QED
    BY <2>1, <2>2, <2>3, <2>4, <2>5 DEF CalendarInv, FactsInv, BotsInv, ForestInv, TypeOK
<1> QED
  BY <1>1, ForestInvariant, RowsInvariant, PTL

\* No fact outlives its project and no event its calendar, through every cascade and
\* every move.
THEOREM NothingEverDangles == Spec => []NothingDangles
<1>1. RowsInv => NothingDangles
  BY DEF RowsInv, CalendarInv, EventRow, FactsInv, FactRow, Rows, NothingDangles
<1> QED
  BY <1>1, RowsInvariant, PTL

\* No write of an event, and no projection of a fact, brings an automation onto a
\* calendar that is not executable.
THEOREM NoAutomationSmuggled == Spec => AutomationNeedsExecutable
<1>1. RowsInv /\ [Next]_vars => NothingSmuggled
  BY RequestsAre, RowsStep
<1> QED
  BY <1>1, RowsInvariant, PTL DEF Spec, AutomationNeedsExecutable, NothingSmuggled

-----------------------------------------------------------------------------
(* The shadows.  No two facts point at one event, and an event with a        *)
(* projected title has a fact.                                               *)

PointersDiffer ==
    \A i, j \in DOMAIN facts :
       facts[i].event = facts[j].event /\ facts[i].event # None => i = j

ShadowsExact ==
    \A i \in DOMAIN facts :
       facts[i].event \in DOMAIN events \ touched =>
          events[facts[i].event] =
             Shadow(projects[facts[i].project], facts[i], events[facts[i].event].calendar)

ShadowsOwned ==
    \A e \in DOMAIN events :
       Len(events[e].title) = 2 => \E i \in DOMAIN facts : facts[i].event = e

ShadowInv == PointersDiffer /\ ShadowsExact /\ ShadowsOwned

\* A shadow says of its project the name alone, and of its fact not the pointer.
LEMMA ShadowSays ==
    /\ \A p, q, f, c : p.name = q.name => Shadow(p, f, c) = Shadow(q, f, c)
    /\ \A p, f, g, c : /\ f.title = g.title /\ f.due = g.due
                       /\ f.every = g.every /\ f.count = g.count
                       => Shadow(p, f, c) = Shadow(p, g, c)
BY DEF Shadow, ProjectedTitle

\* A step about other things.
LEMMA ShadowsStay ==
    ASSUME FactsInv, ShadowInv, EventsAsTheyWere, UNCHANGED <<facts, touched>>,
           \A p \in DOMAIN projects : projects'[p].name = projects[p].name
    PROVE  ShadowInv'
<1>1. /\ DOMAIN events' \subseteq DOMAIN events
      /\ \A e \in DOMAIN events' : events'[e] = events[e]
  BY DEF EventsAsTheyWere
<1>2. ASSUME NEW i \in DOMAIN facts, facts[i].event \in DOMAIN events' \ touched
      PROVE  events'[facts[i].event] =
                Shadow(projects'[facts[i].project], facts[i], events'[facts[i].event].calendar)
  <2>1. facts[i].project \in DOMAIN projects
    BY DEF FactsInv, FactRow
  <2>2. events[facts[i].event] =
           Shadow(projects[facts[i].project], facts[i], events[facts[i].event].calendar)
    BY <1>1, <1>2 DEF ShadowInv, ShadowsExact
  <2> QED
    BY <1>1, <1>2, <2>1, <2>2, ShadowSays
<1>3. ShadowsExact'
  BY <1>2 DEF ShadowsExact
<1>4. PointersDiffer' /\ ShadowsOwned'
  BY <1>1 DEF ShadowInv, PointersDiffer, ShadowsOwned
<1> QED
  BY <1>3, <1>4 DEF ShadowInv

\* Facts go, and their shadows with them.
LEMMA ShadowsGo ==
    ASSUME FactsInv, ShadowInv, NEW ids, ids \subseteq DOMAIN facts,
           facts' = Without(facts, ids),
           events' = Without(events, {facts[i].event : i \in ids}), touched' = touched,
           \A i \in DOMAIN facts \ ids : projects'[facts[i].project] = projects[facts[i].project]
    PROVE  ShadowInv'
<1>1. DOMAIN facts' = DOMAIN facts \ ids /\ \A i \in DOMAIN facts' : facts'[i] = facts[i]
  BY DEF Without, Restrict
<1>2. /\ DOMAIN events' = DOMAIN events \ {facts[i].event : i \in ids}
      /\ \A e \in DOMAIN events' : events'[e] = events[e]
  BY DEF Without, Restrict
<1>3. PointersDiffer'
  BY <1>1 DEF ShadowInv, PointersDiffer
<1>4. ASSUME NEW i \in DOMAIN facts', facts'[i].event \in DOMAIN events' \ touched
      PROVE  events'[facts'[i].event] =
                Shadow(projects'[facts'[i].project], facts'[i], events'[facts'[i].event].calendar)
  <2>1. facts'[i] = facts[i] /\ i \in DOMAIN facts \ ids
    BY <1>1, <1>4
  <2>2. facts[i].event \in DOMAIN events \ touched /\ events'[facts[i].event] = events[facts[i].event]
    BY <1>2, <1>4, <2>1
  <2>3. events[facts[i].event] =
           Shadow(projects[facts[i].project], facts[i], events[facts[i].event].calendar)
    BY <2>1, <2>2 DEF ShadowInv, ShadowsExact
  <2> QED
    BY <2>1, <2>2, <2>3
<1>5. ShadowsExact'
  BY <1>4 DEF ShadowsExact
<1>6. ASSUME NEW e \in DOMAIN events', Len(events'[e].title) = 2
      PROVE  \E i \in DOMAIN facts' : facts'[i].event = e
  <2>1. PICK i \in DOMAIN facts : facts[i].event = e
    BY <1>2, <1>6 DEF ShadowInv, ShadowsOwned
  <2>2. i \notin ids
    BY <1>2, <1>6, <2>1
  <2> QED
    BY <1>1, <2>1, <2>2
<1>7. ShadowsOwned'
  BY <1>6 DEF ShadowsOwned
<1> QED
  BY <1>3, <1>5, <1>7 DEF ShadowInv

LEMMA UserBooksKeeps ==
    ASSUME CalendarInv, FactsInv, ShadowInv, UserBooks, UNCHANGED <<facts, projects, touched>>
    PROVE  ShadowInv'
<1>1. PICK ev : events' = Inserted(events, lastEvent + 1, ev) /\ Len(ev.title) = 1
  BY DEF UserBooks
<1>2. /\ DOMAIN events' = DOMAIN events \cup {lastEvent + 1}
      /\ \A e \in DOMAIN events' : events'[e] = IF e = lastEvent + 1 THEN ev ELSE events[e]
  BY <1>1 DEF Inserted
<1>3. \A i \in DOMAIN facts : facts[i].event # lastEvent + 1
  BY DEF CalendarInv, FactsInv, FactRow
<1>4. PointersDiffer'
  BY DEF ShadowInv, PointersDiffer
<1>5. ShadowsExact'
  BY <1>2, <1>3 DEF ShadowInv, ShadowsExact
<1>6. ShadowsOwned'
  BY <1>1, <1>2 DEF ShadowInv, ShadowsOwned
<1> QED
  BY <1>4, <1>5, <1>6 DEF ShadowInv

LEMMA UserEditsKeeps ==
    ASSUME ShadowInv, NEW e \in DOMAIN events, UserEdits(e), UNCHANGED <<facts, projects>>,
           touched' = touched \cup {e}
    PROVE  ShadowInv'
<1>1. PICK ev : /\ events' = [events EXCEPT ![e] = ev]
                /\ ev.title = events[e].title \/ Len(ev.title) = 1
  BY DEF UserEdits
<1>2. PointersDiffer'
  BY DEF ShadowInv, PointersDiffer
<1>3. ShadowsExact'
  BY <1>1 DEF ShadowInv, ShadowsExact
<1>4. ShadowsOwned'
  BY <1>1 DEF ShadowInv, ShadowsOwned
<1> QED
  BY <1>2, <1>3, <1>4 DEF ShadowInv

\* A rename: every shadow of the project there is gets the new name, and no other event.
LEMMA RenameKeeps ==
    ASSUME CalendarInv, FactsInv, ShadowInv, NEW p \in DOMAIN projects, NEW new,
           projects' = [projects EXCEPT ![p] = new], events' = Retitled(p, new),
           UNCHANGED <<facts, touched>>
    PROVE  ShadowInv'
<1>0. None \notin DOMAIN events
  BY DEF CalendarInv, None
<1>1. DOMAIN events' = DOMAIN events
  BY DEF Retitled
<1>2. ASSUME NEW i \in DOMAIN facts, facts[i].event \in DOMAIN events
      PROVE  events'[facts[i].event] =
                IF facts[i].project = p
                THEN [events[facts[i].event] EXCEPT !.title = ProjectedTitle(new, facts[i])]
                ELSE events[facts[i].event]
  <2> DEFINE e == facts[i].event
             shadows == {f \in DOMAIN facts : facts[f].project = p /\ facts[f].event \in DOMAIN events}
  <2>1. \A f \in shadows : facts[f].event = e => f = i
    BY <1>0, <1>2 DEF ShadowInv, PointersDiffer
  <2>2. events'[e] = IF \E f \in shadows : facts[f].event = e
                     THEN LET f == CHOOSE f \in shadows : facts[f].event = e
                          IN  [events[e] EXCEPT !.title = ProjectedTitle(new, facts[f])]
                     ELSE events[e]
    BY <1>2 DEF Retitled
  <2>3. i \in shadows <=> facts[i].project = p
    BY <1>2
  <2>4. CASE facts[i].project = p
    <3>1. (CHOOSE f \in shadows : facts[f].event = e) = i
      BY <2>1, <2>3, <2>4
    <3>2. \E f \in shadows : facts[f].event = e
      BY <2>3, <2>4
    <3> HIDE DEF shadows
    <3> QED
      BY <2>2, <2>4, <3>1, <3>2
  <2>5. CASE facts[i].project # p
    <3>1. ~\E f \in shadows : facts[f].event = e
      BY <2>1, <2>3, <2>5
    <3> HIDE DEF shadows
    <3> QED
      BY <2>2, <2>5, <3>1
  <2> QED
    BY <2>4, <2>5
<1>3. PointersDiffer'
  BY DEF ShadowInv, PointersDiffer
<1>4. ASSUME NEW i \in DOMAIN facts, facts[i].event \in DOMAIN events \ touched
      PROVE  events'[facts[i].event] =
                Shadow(projects'[facts[i].project], facts[i], events'[facts[i].event].calendar)
  <2>1. /\ events[facts[i].event] =
              Shadow(projects[facts[i].project], facts[i], events[facts[i].event].calendar)
        /\ facts[i].project \in DOMAIN projects
    BY <1>4 DEF ShadowInv, ShadowsExact, FactsInv, FactRow
  <2>2. CASE facts[i].project = p
    <3>1. events'[facts[i].event] =
             [events[facts[i].event] EXCEPT !.title = ProjectedTitle(new, facts[i])]
      BY <1>2, <1>4, <2>2
    <3>2. projects'[facts[i].project] = new
      BY <2>1, <2>2
    <3> QED
      BY <2>1, <3>1, <3>2 DEF Shadow
  <2>3. CASE facts[i].project # p
    BY <1>2, <1>4, <2>1, <2>3
  <2> QED
    BY <2>2, <2>3
<1>5. ShadowsExact'
  BY <1>1, <1>4 DEF ShadowsExact
<1>6. ASSUME NEW e \in DOMAIN events, Len(events'[e].title) = 2
      PROVE  \E i \in DOMAIN facts : facts[i].event = e
  <2>1. events'[e] = events[e] \/ \E f \in DOMAIN facts : facts[f].event = e
    BY <1>6 DEF Retitled
  <2> QED
    BY <1>6, <2>1 DEF ShadowInv, ShadowsOwned
<1>7. ShadowsOwned'
  BY <1>1, <1>6 DEF ShadowsOwned
<1> QED
  BY <1>3, <1>5, <1>7 DEF ShadowInv

\* What a projection leaves of the other events, and where it points.
LEMMA CastLeavesOthers ==
    ASSUME CalendarInv, NEW project, NEW f, NEW pointer,
           ShadowCast(project, f, pointer, events', lastEvent')
    PROVE  /\ \A e \in DOMAIN events' :
                 e = pointer \/ (e \in DOMAIN events /\ e # f.event /\ events'[e] = events[e])
           /\ pointer \in DOMAIN events' =>
                 events'[pointer] = Shadow(project, f, events'[pointer].calendar)
           /\ pointer \in {None, f.event, lastEvent + 1}
           /\ None \notin DOMAIN events'
<1>0. None \notin DOMAIN events /\ lastEvent + 1 # None
  BY DEF CalendarInv, None
<1>1. CASE ShadowGone(f, pointer, events', lastEvent')
  <2>1. /\ DOMAIN events' = DOMAIN events \ {f.event} /\ pointer = None
        /\ \A e \in DOMAIN events' : events'[e] = events[e]
    BY <1>1 DEF ShadowGone, Without, Restrict
  <2> QED
    BY <1>0, <2>1
<1>2. CASE ShadowRewritten(project, f, pointer, events', lastEvent')
  <2>1. PICK c : events' = [events EXCEPT ![f.event] = Shadow(project, f, c)]
    BY <1>2 DEF ShadowRewritten
  <2>2. pointer = f.event /\ f.event \in DOMAIN events
    BY <1>2 DEF ShadowRewritten
  <2>3. Shadow(project, f, c).calendar = c
    BY DEF Shadow
  <2> QED
    BY <1>0, <2>1, <2>2, <2>3
<1>3. CASE ShadowMade(project, f, pointer, events', lastEvent')
  <2>1. PICK c : events' = Inserted(events, lastEvent + 1, Shadow(project, f, c))
    BY <1>3 DEF ShadowMade
  <2>2. pointer = lastEvent + 1 /\ f.event \notin DOMAIN events
    BY <1>3 DEF ShadowMade
  <2>3. /\ DOMAIN events' = DOMAIN events \cup {pointer}
        /\ \A e \in DOMAIN events' :
              events'[e] = IF e = pointer THEN Shadow(project, f, c) ELSE events[e]
    BY <2>1, <2>2 DEF Inserted
  <2>4. Shadow(project, f, c).calendar = c
    BY DEF Shadow
  <2> QED
    BY <1>0, <2>2, <2>3, <2>4
<1> QED
  BY <1>1, <1>2, <1>3 DEF ShadowCast

\* A fact is written, anew or for the first time.
LEMMA FactWriteKeeps ==
    ASSUME CalendarInv, FactsInv, ShadowInv, NEW id, NEW f, NEW pointer, NEW row,
           row = [f EXCEPT !.event = pointer], DOMAIN f = FactFields \cup {"project", "event"},
           f.event = IF id \in DOMAIN facts THEN facts[id].event ELSE None,
           DOMAIN facts' = DOMAIN facts \cup {id}, facts'[id] = row,
           \A i \in DOMAIN facts \ {id} : facts'[i] = facts[i],
           projects' = projects, touched \ {pointer} \subseteq touched',
           ShadowCast(projects[f.project], f, pointer, events', lastEvent')
    PROVE  ShadowInv'
<1>1. /\ \A e \in DOMAIN events' :
            e = pointer \/ (e \in DOMAIN events /\ e # f.event /\ events'[e] = events[e])
      /\ pointer \in DOMAIN events' =>
            events'[pointer] = Shadow(projects[f.project], f, events'[pointer].calendar)
      /\ pointer \in {None, f.event, lastEvent + 1}
      /\ None \notin DOMAIN events'
  BY CastLeavesOthers
<1>2. /\ row.event = pointer /\ row.project = f.project /\ row.title = f.title
      /\ row.due = f.due /\ row.every = f.every /\ row.count = f.count
  BY DEF FactFields
<1>3. ASSUME NEW i \in DOMAIN facts \ {id}, facts[i].event = pointer, pointer # None
      PROVE  FALSE
  <2>1. facts[i].event # lastEvent + 1
    BY <1>3 DEF CalendarInv, FactsInv, FactRow
  <2>2. pointer = f.event
    BY <1>1, <1>3, <2>1
  <2>3. id \in DOMAIN facts /\ facts[id].event = pointer
    BY <1>3, <2>2
  <2> QED
    BY <1>3, <2>3 DEF ShadowInv, PointersDiffer
<1>4. ASSUME NEW i \in DOMAIN facts', NEW j \in DOMAIN facts',
             facts'[i].event = facts'[j].event, facts'[i].event # None
      PROVE  i = j
  <2>1. CASE i = id /\ j # id
    BY <1>2, <1>3, <1>4, <2>1
  <2>2. CASE j = id /\ i # id
    BY <1>2, <1>3, <1>4, <2>2
  <2>3. CASE i # id /\ j # id
    BY <1>4, <2>3 DEF ShadowInv, PointersDiffer
  <2> QED
    BY <2>1, <2>2, <2>3
<1>5. PointersDiffer'
  BY <1>4 DEF PointersDiffer
<1>6. ASSUME NEW i \in DOMAIN facts', facts'[i].event \in DOMAIN events' \ touched'
      PROVE  events'[facts'[i].event] =
                Shadow(projects'[facts'[i].project], facts'[i], events'[facts'[i].event].calendar)
  <2>1. CASE i = id
    <3>1. facts'[i] = row
      BY <2>1
    <3>2. events'[pointer] = Shadow(projects[f.project], f, events'[pointer].calendar)
      BY <1>1, <1>2, <1>6, <3>1
    <3>3. Shadow(projects[f.project], f, events'[pointer].calendar)
             = Shadow(projects[f.project], row, events'[pointer].calendar)
      BY <1>2 DEF Shadow, ProjectedTitle
    <3> QED
      BY <1>2, <3>1, <3>2, <3>3
  <2>2. CASE i # id
    <3>1. i \in DOMAIN facts /\ facts'[i] = facts[i]
      BY <2>2
    <3>2. facts[i].event # pointer
      BY <1>1, <1>3, <1>6, <2>2, <3>1
    <3>3. /\ facts[i].event \in DOMAIN events \ touched
          /\ events'[facts[i].event] = events[facts[i].event]
      BY <1>1, <1>6, <3>1, <3>2
    <3>4. events[facts[i].event] =
             Shadow(projects[facts[i].project], facts[i], events[facts[i].event].calendar)
      BY <3>1, <3>3 DEF ShadowInv, ShadowsExact
    <3> QED
      BY <3>1, <3>3, <3>4
  <2> QED
    BY <2>1, <2>2
<1>7. ShadowsExact'
  BY <1>6 DEF ShadowsExact
<1>8. ASSUME NEW e \in DOMAIN events', Len(events'[e].title) = 2
      PROVE  \E i \in DOMAIN facts' : facts'[i].event = e
  <2>1. CASE e = pointer
    BY <1>2, <2>1
  <2>2. CASE e # pointer
    <3>1. e \in DOMAIN events /\ e # f.event /\ events'[e] = events[e]
      BY <1>1, <1>8, <2>2
    <3>2. PICK i \in DOMAIN facts : facts[i].event = e
      BY <1>8, <3>1 DEF ShadowInv, ShadowsOwned
    <3> QED
      BY <3>1, <3>2
  <2> QED
    BY <2>1, <2>2
<1>9. ShadowsOwned'
  BY <1>8 DEF ShadowsOwned
<1> QED
  BY <1>5, <1>7, <1>9 DEF ShadowInv

-----------------------------------------------------------------------------
(* Every request keeps the shadows.                                          *)

LEMMA ProjectsShadows ==
    ASSUME ForestInv, CalendarInv, FactsInv, ShadowInv, NEW p \in DOMAIN projects, NEW patch,
           UpdateProject(p, patch)
    PROVE  ShadowInv'
<1> DEFINE new == Patched(projects[p], patch)
<1>1. /\ projects' = [projects EXCEPT ![p] = new]
      /\ events' = IF new.name # projects[p].name THEN Retitled(p, new) ELSE events
      /\ UNCHANGED <<facts, touched, lastEvent>>
  BY DEF UpdateProject
<1> HIDE DEF new
<1>2. CASE new.name # projects[p].name
  BY <1>1, <1>2, RenameKeeps
<1>3. CASE new.name = projects[p].name
  <2>1. \A q \in DOMAIN projects : projects'[q].name = projects[q].name
    BY <1>1, <1>3
  <2>2. EventsAsTheyWere
    BY <1>1, <1>3 DEF EventsAsTheyWere
  <2> QED
    BY <1>1, <2>1, <2>2, ShadowsStay
<1> QED
  BY <1>2, <1>3

LEMMA DeletionsShadows ==
    ASSUME ForestInv, FactsInv, ShadowInv,
           \/ \E p \in DOMAIN projects : DeleteProject(p)
           \/ \E id \in DOMAIN facts : DeleteFact(id)
    PROVE  ShadowInv'
<1>1. ASSUME NEW p \in DOMAIN projects, DeleteProject(p)
      PROVE  ShadowInv'
  <2> DEFINE gone == Subtree(projects, p)
             ids == {f \in DOMAIN facts : facts[f].project \in gone}
  <2>1. /\ events' = Without(events, {facts[i].event : i \in ids})
        /\ facts' = Without(facts, ids) /\ projects' = Without(projects, gone)
        /\ touched' = touched
    BY <1>1 DEF DeleteProject, ShadowsOf
  <2>2. ids \subseteq DOMAIN facts
    OBVIOUS
  <2>3. \A i \in DOMAIN facts \ ids : projects'[facts[i].project] = projects[facts[i].project]
    <3>1. \A i \in DOMAIN facts \ ids : facts[i].project \in DOMAIN projects \ gone
      BY DEF FactsInv, FactRow
    <3> HIDE DEF ids, gone
    <3> QED
      BY <2>1, <3>1 DEF Without, Restrict
  <2> HIDE DEF ids, gone
  <2> QED
    BY <2>1, <2>2, <2>3, ShadowsGo
<1>2. ASSUME NEW id \in DOMAIN facts, DeleteFact(id)
      PROVE  ShadowInv'
  <2> DEFINE ids == {id}
  <2>1. {facts[i].event : i \in ids} = {facts[id].event}
    OBVIOUS
  <2>2. /\ events' = Without(events, {facts[i].event : i \in ids})
        /\ facts' = Without(facts, ids) /\ projects' = projects /\ touched' = touched
    BY <1>2, <2>1 DEF DeleteFact
  <2>3. ids \subseteq DOMAIN facts
    OBVIOUS
  <2> HIDE DEF ids
  <2> QED
    BY <2>2, <2>3, ShadowsGo
<1> QED
  BY <1>1, <1>2

LEMMA FactsShadows ==
    ASSUME CalendarInv, FactsInv, ShadowInv,
           \/ \E p \in DOMAIN projects, input \in NewFacts : CreateFact(p, input)
           \/ \E id \in DOMAIN facts, patch \in FactPatches : UpdateFact(id, patch)
    PROVE  ShadowInv'
<1>1. ASSUME NEW p \in DOMAIN projects, NEW input \in NewFacts, CreateFact(p, input)
      PROVE  ShadowInv'
  <2> DEFINE f    == Patched([project |-> p, event |-> None], input)
             done == ProjectFact(projects[p], f)
             row  == [f EXCEPT !.event = done.event]
             id   == lastFact + 1
  <2>1. /\ Write(done.tables) /\ facts' = Inserted(facts, id, row)
        /\ UNCHANGED <<emptied, projects, touched>>
    BY <1>1 DEF CreateFact
  <2>2. DOMAIN f = FactFields \cup {"project", "event"} /\ f.project = p /\ f.event = None
    <3>1. DOMAIN input = FactFields
      BY FactsAssumption
    <3> QED
      BY <3>1 DEF Patched, FactFields
  <2>3. id \notin DOMAIN facts
    BY DEF FactsInv
  <2> HIDE DEF f, id
  <2>4. done = ProjectFact(projects[f.project], f)
    BY <2>2
  <2> HIDE DEF done
  <2>5. ShadowCast(projects[f.project], f, done.event, events', lastEvent')
    BY <2>1, <2>4, FactWritten
  <2>6. row = [f EXCEPT !.event = done.event]
    OBVIOUS
  <2> HIDE DEF row
  <2>7. /\ DOMAIN facts' = DOMAIN facts \cup {id} /\ facts'[id] = row
        /\ \A i \in DOMAIN facts \ {id} : facts'[i] = facts[i]
    BY <2>1 DEF Inserted
  <2>8. f.event = IF id \in DOMAIN facts THEN facts[id].event ELSE None
    BY <2>2, <2>3
  <2>9. projects' = projects /\ touched \ {done.event} \subseteq touched'
    BY <2>1
  <2> QED
    BY <2>2, <2>5, <2>6, <2>7, <2>8, <2>9, FactWriteKeeps
<1>2. ASSUME NEW id \in DOMAIN facts, NEW patch \in FactPatches, UpdateFact(id, patch)
      PROVE  ShadowInv'
  <2> DEFINE f    == Patched(facts[id], patch)
             done == ProjectFact(projects[f.project], f)
             row  == [f EXCEPT !.event = done.event]
  <2>1. /\ Write(done.tables) /\ facts' = [facts EXCEPT ![id] = row]
        /\ UNCHANGED <<emptied, projects>> /\ touched' = touched \ {done.event}
    BY <1>2 DEF UpdateFact
  <2>2. DOMAIN f = FactFields \cup {"project", "event"} /\ f.event = facts[id].event
    <3>1. DOMAIN patch \subseteq FactFields \ {"kind"}
      BY FactsAssumption
    <3>2. DOMAIN facts[id] = FactFields \cup {"project", "event"}
      BY DEF FactsInv, FactRow
    <3> QED
      BY <3>1, <3>2 DEF Patched, FactFields
  <2> HIDE DEF f
  <2>3. done = ProjectFact(projects[f.project], f)
    OBVIOUS
  <2> HIDE DEF done
  <2>4. ShadowCast(projects[f.project], f, done.event, events', lastEvent')
    BY <2>1, <2>3, FactWritten
  <2>5. row = [f EXCEPT !.event = done.event]
    OBVIOUS
  <2> HIDE DEF row
  <2>6. /\ DOMAIN facts' = DOMAIN facts \cup {id} /\ facts'[id] = row
        /\ \A i \in DOMAIN facts \ {id} : facts'[i] = facts[i]
    BY <2>1
  <2>7. f.event = IF id \in DOMAIN facts THEN facts[id].event ELSE None
    BY <2>2
  <2>8. projects' = projects /\ touched \ {done.event} \subseteq touched'
    BY <2>1
  <2> QED
    BY <2>2, <2>4, <2>5, <2>6, <2>7, <2>8, FactWriteKeeps
<1> QED
  BY <1>1, <1>2

LEMMA CalendarShadows ==
    ASSUME CalendarInv, FactsInv, ShadowInv,
           \/ (EditCalendar \/ BookOrCancel) /\ UNCHANGED <<projectVars, touched>>
           \/ EditEvent /\ UNCHANGED projectVars
    PROVE  ShadowInv'
<1>0. UNCHANGED <<facts, projects>>
  BY DEF projectVars
<1>1. CASE (EditCalendar \/ \E e \in DOMAIN events : DeleteEvent(e)) /\ touched' = touched
  <2>1. EventsAsTheyWere
    BY <1>1, EditCalendarKeeps, EventsGone DEF DeleteEvent
  <2> QED
    BY <1>0, <1>1, <2>1, ShadowsStay
<1>2. ASSUME NEW c \in DOMAIN calendars \cup {NoCalendar}, NEW a \in Automations,
             CreateEvent(c, "user", 1, a), touched' = touched
      PROVE  ShadowInv'
  BY <1>0, <1>2, CreateEventKeeps, UserBooksKeeps
<1>3. ASSUME NEW e \in DOMAIN events, NEW patch,
             patch \in EventPatches \/ \E c : patch = [calendar |-> c], UpdateEvent(e, patch),
             touched' = touched \cup {e}
      PROVE  ShadowInv'
  BY <1>0, <1>3, UpdateEventKeeps, UserEditsKeeps
<1> QED
  BY <1>1, <1>2, <1>3 DEF BookOrCancel, EditEvent

LEMMA ShadowStep ==
    ASSUME ForestInv, RowsInv, ShadowInv, RequestCases
    PROVE  ShadowInv'
<1>1. CalendarInv /\ FactsInv
  BY DEF RowsInv
<1>2. ASSUME UNCHANGED <<events, lastEvent, facts, touched>>,
             \A p \in DOMAIN projects : projects'[p].name = projects[p].name
      PROVE  ShadowInv'
  BY <1>1, <1>2, ShadowsStay DEF EventsAsTheyWere
<1>3. ASSUME NEW name \in ProjectNames, NEW owner \in Bots \cup {NoBot}, NEW parent, NEW lead,
             CreateProject(name, parent, lead, owner)
      PROVE  ShadowInv'
  <2>1. lastProject + 1 \notin DOMAIN projects
    BY BoundsAssumption DEF ForestInv
  <2>2. \A p \in DOMAIN projects : projects'[p] = projects[p]
    BY <1>3, <2>1 DEF CreateProject, Inserted
  <2> QED
    BY <1>2, <1>3, <2>2 DEF CreateProject, calendarVars
<1>4. ASSUME NEW b, ClearOwner(b) \/ DeleteRow(b)
      PROVE  ShadowInv'
  <2>1. ASSUME NEW p \in DOMAIN projects
        PROVE  projects'[p].name = projects[p].name
    <3>1. "name" \in DOMAIN projects[p]
      BY DEF ForestInv, ProjectRow
    <3> QED
      BY <1>4, <3>1 DEF ClearOwner, DeleteRow
  <2> QED
    BY <1>2, <1>4, <2>1 DEF ClearOwner, DeleteRow, calendarVars
<1>5. CASE Crash \/ UNCHANGED vars
  BY <1>2, <1>5 DEF Crash, vars, projectVars, calendarVars
<1> QED
  BY <1>1, <1>3, <1>4, <1>5, ProjectsShadows, DeletionsShadows, FactsShadows, CalendarShadows
  DEF RequestCases

\* A fact has a shadow exactly if it is dated and undone; the shadow, if the user has
\* neither edited nor deleted it, says what the fact and the name of its project say now;
\* and the calendar shows no shadow of a fact that is gone or done, and none twice.
THEOREM ShadowsStayExact == Spec => []ShadowsAreExact
<1>1. Init => ShadowInv
  BY DEF Init, InitCalendars, ShadowInv, PointersDiffer, ShadowsExact, ShadowsOwned
<1>2. ForestInv /\ RowsInv /\ ShadowInv /\ [Next]_vars => ShadowInv'
  BY RequestsAre, ShadowStep
<1>3. RowsInv /\ ShadowInv => ShadowsAreExact
  <2> SUFFICES ASSUME RowsInv, ShadowInv
               PROVE  ShadowsAreExact
    OBVIOUS
  <2>1. CalendarInv /\ FactsInv
    BY DEF RowsInv
  <2>2. ASSUME NEW f \in Rows(facts)
        PROVE  /\ FactNeedsEvent(f) <=> f.event # None
               /\ f.event \in DOMAIN events \ touched =>
                     events[f.event] = Shadow(projects[f.project], f, events[f.event].calendar)
    <3>1. PICK i \in DOMAIN facts : f = facts[i]
      BY <2>2 DEF Rows
    <3> QED
      BY <2>1, <3>1 DEF FactsInv, FactRow, ShadowInv, ShadowsExact
  <2>3. ASSUME NEW e \in DOMAIN events, Len(events[e].title) = 2
        PROVE  Cardinality({f \in DOMAIN facts : facts[f].event = e}) = 1
    <3>1. PICK i \in DOMAIN facts : facts[i].event = e
      BY <2>3 DEF ShadowInv, ShadowsOwned
    <3>2. e # None
      BY <2>1, <2>3 DEF CalendarInv, None
    <3>3. {f \in DOMAIN facts : facts[f].event = e} = {i}
      BY <3>1, <3>2 DEF ShadowInv, PointersDiffer
    <3> QED
      BY <3>3, FS_Singleton
  <2> QED
    BY <2>2, <2>3 DEF ShadowsAreExact
<1> QED
  BY <1>1, <1>2, <1>3, ForestInvariant, RowsInvariant, PTL DEF Spec

-----------------------------------------------------------------------------
(* Loud projects.                                                            *)

\* What a fact contributes is a health, and neither "unknown".
LEMMA SignalIsHealth ==
    ASSUME NEW f, f.kind \in DOMAIN FactRules, NEW lead, NEW now
    PROVE  Signal(f, lead, now).health \in Healths
<1>1. f.kind \in {"deadline", "recurring", "milestone", "note"}
  BY DEF FactRules
<1>2. CASE f.kind = "deadline"
  BY <1>2 DEF Signal, Healths
<1>3. CASE f.kind = "recurring"
  BY <1>3 DEF Signal, Healths
<1>4. CASE f.kind = "milestone"
  BY <1>4 DEF Signal, Healths
<1>5. CASE f.kind = "note"
  BY <1>5 DEF Signal, Healths
<1> QED
  BY <1>1, <1>2, <1>3, <1>4, <1>5

\* A project that is loud by its own facts has an undone one as loud.
LEMMA OwnHealthHasFact ==
    ASSUME NEW S, \A f \in S : f.kind \in DOMAIN FactRules, NEW lead, NEW now,
           NEW h, h = OwnHealth(S, lead, now).health
    PROVE  /\ h \in Healths
           /\ SeverityOf[h] # "tracked" =>
                 \E f \in S : ~f.done /\ Signal(f, LeadFor(f, lead), now).health = h
<1> DEFINE open == {g \in S : ~g.done}
           health(f) == Signal(f, LeadFor(f, lead), now).health
           hs == {"ok"} \cup {health(f) : f \in open}
<1>1. h = IF S = {} THEN "unknown" ELSE Worst(hs)
  <2>1. {s.health : s \in {Signal(f, LeadFor(f, lead), now) : f \in open}} = {health(f) : f \in open}
    OBVIOUS
  <2> QED
    BY <2>1 DEF OwnHealth
<1>2. hs \subseteq Healths /\ hs # {}
  <2>1. \A f \in open : health(f) \in Healths
    BY SignalIsHealth
  <2> QED
    BY <2>1, Ranks
<1>3. Worst(hs) \in hs
  <2> HIDE DEF hs
  <2> QED
    BY <1>2, WorstIsMember
<1>4. h \in Healths /\ (h = "unknown" \/ h \in hs)
  BY <1>1, <1>2, <1>3 DEF Healths
<1>5. SeverityOf["unknown"] = "tracked" /\ SeverityOf["ok"] = "tracked"
  BY DEF SeverityOf
<1>6. ASSUME SeverityOf[h] # "tracked"
      PROVE  \E f \in open : health(f) = h
  BY <1>3, <1>4, <1>1, <1>5, <1>6
<1> QED
  BY <1>4, <1>6

\* What the server says of a project is what has folded up from below.
LEMMA ForestUnfolds ==
    ASSUME NEW rows, NEW fs, NEW bs, NEW now, NEW own, NEW forest,
           own = [p \in DOMAIN rows |-> OwnHealth({f \in fs : f.project = p}, Leads(rows)[p], now)],
           forest = Forest(rows, fs, bs, now)
    PROVE  \A p \in DOMAIN rows :
              /\ forest[p].health = RolledUp(rows, own)[p].health
              /\ forest[p].severity = SeverityOf[forest[p].health]
              /\ forest[p].lead = Leads(rows)[p]
BY DEF Forest

LEMMA LoudHasFact ==
    ASSUME ForestInv, FactsInv, NEW now, NEW forest, forest = Forest(projects, Rows(facts), bots, now),
           NEW p \in DOMAIN projects, forest[p].severity # "tracked"
    PROVE  DrivingFacts(projects, Rows(facts), p, forest, now) # {}
<1> DEFINE leads == Leads(projects)
           own == [q \in DOMAIN projects |->
                      OwnHealth({f \in Rows(facts) : f.project = q}, leads[q], now)]
           T == Subtree(projects, p)
           h == forest[p].health
<1>1. \A q \in DOMAIN projects :
         /\ forest[q].health = RolledUp(projects, own)[q].health
         /\ forest[q].severity = SeverityOf[forest[q].health]
         /\ forest[q].lead = leads[q]
  BY ForestUnfolds
<1>2. \A f \in Rows(facts) : f.kind \in DOMAIN FactRules
  BY DEF Rows, FactsInv, FactRow
<1>3. ASSUME NEW q \in DOMAIN projects
      PROVE  /\ own[q].health \in Healths
             /\ SeverityOf[own[q].health] # "tracked" =>
                   \E f \in Rows(facts) : /\ f.project = q /\ ~f.done
                                          /\ Signal(f, LeadFor(f, leads[q]), now).health = own[q].health
  <2> DEFINE S == {f \in Rows(facts) : f.project = q}
  <2>1. own[q].health = OwnHealth(S, leads[q], now).health /\ \A f \in S : f.kind \in DOMAIN FactRules
    BY <1>2
  <2> HIDE DEF own, leads
  <2>2. /\ own[q].health \in Healths
        /\ SeverityOf[own[q].health] # "tracked" =>
              \E f \in S : ~f.done /\ Signal(f, LeadFor(f, leads[q]), now).health = own[q].health
    <3> HIDE DEF S
    <3> QED
      BY <2>1, OwnHealthHasFact
  <2> QED
    BY <2>2
<1> HIDE DEF own, leads
<1>4. IsFiniteSet(DOMAIN projects)
  BY ForestParents, ProjectsAreFinite
<1>5. p \in T /\ \A q \in T : Children(projects, q) \subseteq T
  BY <1>4, SubtreeCloses
<1>6. PICK height : Ascends(projects, height)
  BY DEF ForestInv
<1>7. PICK q \in T \cap DOMAIN projects : own[q].health = RolledUp(projects, own)[p].health
  <2> HIDE DEF T
  <2> QED
    BY <1>3, <1>4, <1>5, <1>6, HealthHasCause
<1>8. own[q].health = h /\ SeverityOf[h] # "tracked"
  BY <1>1, <1>7
<1>9. PICK f \in Rows(facts) : /\ f.project = q /\ ~f.done
                               /\ Signal(f, LeadFor(f, leads[q]), now).health = h
  BY <1>3, <1>7, <1>8
<1>10. h # "ok" /\ SeverityOf[h] = forest[p].severity /\ forest[f.project].lead = leads[q]
  BY <1>1, <1>7, <1>8, <1>9 DEF SeverityOf
<1>11. f \in DrivingFacts(projects, Rows(facts), p, forest, now)
  BY <1>7, <1>9, <1>10 DEF DrivingFacts
<1> QED
  BY <1>11

\* A project that is loud has a fact to blame, so that the nudge about it names one.
THEOREM LoudNameFacts == Spec => []LoudProjectsNameFacts
<1>1. ForestInv /\ RowsInv => LoudProjectsNameFacts
  BY LoudHasFact DEF RowsInv, LoudProjectsNameFacts
<1> QED
  BY <1>1, ForestInvariant, RowsInvariant, PTL

-----------------------------------------------------------------------------
(* What a project answers for.  The lead window that flows down to a project *)
(* is the one set nearest above it, and the health that folds up to it is    *)
(* the worst that has been earned anywhere below.                            *)

\* Above a project are itself and what is above its parent.
LEMMA AncestorsUnfold ==
    ASSUME ForestInv
    PROVE  /\ Ancestors(None) = {None}
           /\ \A p \in DOMAIN projects :
                 /\ projects[p].parent \in DOMAIN projects \cup {None}
                 /\ Ancestors(p) = {p} \cup Ancestors(projects[p].parent)
<1>1. ParentsOK(projects) /\ None \notin DOMAIN projects
  BY ForestParents
<1>2. Ancestors(None) = {None}
  <2>1. UpClosed({None})
    BY <1>1 DEF UpClosed
  <2>2. None \in Ancestors(None) /\ Ancestors(None) \subseteq {None}
    BY <1>1, <2>1, AncestorsClose
  <2> QED
    BY <2>2
<1>3. ASSUME NEW p \in DOMAIN projects
      PROVE  /\ projects[p].parent \in DOMAIN projects \cup {None}
             /\ Ancestors(p) = {p} \cup Ancestors(projects[p].parent)
  <2> DEFINE parent == projects[p].parent
  <2>1. parent \in DOMAIN projects \cup {None}
    BY <1>1 DEF ParentsOK
  <2>2. parent \in Ancestors(parent) /\ UpClosed(Ancestors(parent))
    BY <1>1, <2>1, AncestorsClose
  <2>3. p \in Ancestors(p) /\ UpClosed(Ancestors(p))
    BY <1>1, AncestorsClose
  <2>4. UpClosed({p} \cup Ancestors(parent))
    BY <2>2 DEF UpClosed
  <2>5. Ancestors(p) \subseteq {p} \cup Ancestors(parent)
    BY <1>1, <2>4, AncestorsClose
  <2>6. parent \in Ancestors(p)
    BY <2>3 DEF UpClosed
  <2>7. Ancestors(parent) \subseteq Ancestors(p)
    BY <1>1, <2>1, <2>3, <2>6, AncestorsClose
  <2> QED
    BY <2>1, <2>3, <2>5, <2>7
<1> QED
  BY <1>2, <1>3

\* So the parent has less above it than the project has.
LEMMA FewerAboveParent ==
    ASSUME ForestInv, NEW p \in DOMAIN projects
    PROVE  /\ Cardinality(Ancestors(p)) \in 1..Cardinality(DOMAIN projects) + 1
           /\ Cardinality(Ancestors(projects[p].parent)) \in Nat
           /\ Cardinality(Ancestors(projects[p].parent)) < Cardinality(Ancestors(p))
<1> DEFINE up == Ancestors(projects[p].parent)
           D  == DOMAIN projects
<1>1. ParentsOK(projects) /\ None \notin D
  BY ForestParents
<1>2. Ancestors(p) = {p} \cup up /\ projects[p].parent \in D \cup {None}
  BY AncestorsUnfold
<1>3. p \notin up
  BY ForestIsForest DEF IsForest
<1>4. Ancestors(p) \subseteq D \cup {None}
  BY <1>1, AncestorsClose
<1>5. IsFiniteSet(D) /\ IsFiniteSet(D \cup {None})
  BY <1>1, ProjectsAreFinite
<1>6. Cardinality(D \cup {None}) = Cardinality(D) + 1 /\ Cardinality(D) \in Nat
  BY <1>1, <1>5, FS_AddElement, FS_CardinalityType
<1>7. IsFiniteSet(Ancestors(p)) /\ Cardinality(Ancestors(p)) <= Cardinality(D) + 1
  BY <1>4, <1>5, <1>6, FS_Subset
<1>8. IsFiniteSet(up)
  BY <1>2, <1>7, FS_Subset
<1>9. Cardinality(up) \in Nat /\ Cardinality(Ancestors(p)) = Cardinality(up) + 1
  <2>1. Cardinality(up \cup {p}) = Cardinality(up) + 1
    BY <1>3, <1>8, FS_AddElement
  <2>2. up \cup {p} = Ancestors(p)
    BY <1>2
  <2> QED
    BY <1>8, <2>1, <2>2, FS_CardinalityType
<1> HIDE DEF up, D
<1>10. Cardinality(Ancestors(p)) \in 1..Cardinality(D) + 1 /\ Cardinality(up) < Cardinality(Ancestors(p))
  BY <1>6, <1>7, <1>9
<1> QED
  BY <1>9, <1>10 DEF up, D

\* If the value set nearest above a project is not its own, it is that of the parent.
LEMMA NearestAboveUnfolds ==
    ASSUME ForestInv, NEW own, NEW unset, NEW default, NEW p \in DOMAIN projects
    PROVE  NearestAbove(p, own, unset, default) =
               IF own[p] # unset THEN own[p]
               ELSE IF IsRoot(projects, p) THEN default
               ELSE NearestAbove(projects[p].parent, own, unset, default)
<1> DEFINE parent == projects[p].parent
           setAt(q) == {a \in Ancestors(q) \ {None} : own[a] # unset}
           first(a) == \A b \in setAt(p) : b \in Ancestors(a)
<1>1. ParentsOK(projects) /\ None \notin DOMAIN projects
  BY ForestParents
<1>2. /\ Ancestors(p) = {p} \cup Ancestors(parent) /\ parent \in DOMAIN projects \cup {None}
      /\ Ancestors(None) = {None} /\ p # None
  BY <1>1, AncestorsUnfold
<1>3. CASE own[p] # unset
  <2>1. p \in setAt(p) /\ first(p)
    BY <1>2, <1>3
  <2>2. ASSUME NEW a \in setAt(p), first(a)
        PROVE  a = p
    <3>1. a \in DOMAIN projects /\ a \in Ancestors(p) /\ p \in Ancestors(a)
      BY <1>1, <2>1, <2>2, AncestorsClose
    <3>2. SUFFICES ASSUME a # p
                   PROVE  FALSE
      OBVIOUS
    <3>3. a \in Ancestors(parent)
      BY <1>2, <3>1, <3>2
    <3>4. UpClosed(Ancestors(parent))
      BY <1>1, <1>2, AncestorsClose
    <3>5. p \in Ancestors(parent)
      BY <1>1, <3>1, <3>3, <3>4, AncestorsClose
    <3> QED
      BY <3>5, ForestIsForest DEF IsForest
  <2>3. (CHOOSE a \in setAt(p) : first(a)) = p
    <3> HIDE DEF setAt, first
    <3> QED
      BY <2>1, <2>2
  <2>4. NearestAbove(p, own, unset, default) = own[CHOOSE a \in setAt(p) : first(a)]
    BY <2>1 DEF NearestAbove
  <2> QED
    BY <1>3, <2>3, <2>4
<1>4. CASE own[p] = unset /\ parent = None
  <2>1. setAt(p) = {}
    BY <1>2, <1>4
  <2>2. IsRoot(projects, p)
    BY <1>1, <1>4 DEF IsRoot
  <2> QED
    BY <1>4, <2>1, <2>2 DEF NearestAbove
<1>5. CASE own[p] = unset /\ parent # None
  <2>1. setAt(p) = setAt(parent)
    BY <1>2, <1>5
  <2>2. ~IsRoot(projects, p)
    BY <1>1, <1>2, <1>5 DEF IsRoot, ParentsOK
  <2>3. NearestAbove(p, own, unset, default) = NearestAbove(parent, own, unset, default)
    <3> DEFINE value(S) == IF S = {} THEN default
                           ELSE own[CHOOSE a \in S : \A b \in S : b \in Ancestors(a)]
    <3>1. \A q : NearestAbove(q, own, unset, default) = value(setAt(q))
      BY DEF NearestAbove
    <3> HIDE DEF value, setAt
    <3> QED
      BY <2>1, <3>1
  <2> QED
    BY <1>5, <2>2, <2>3
<1> QED
  BY <1>3, <1>4, <1>5

\* No climb from parent to parent goes on for ever.
LEMMA ClimbsEnd ==
    ASSUME ForestInv, NEW S, S \subseteq DOMAIN projects, \A q \in S : projects[q].parent \in S
    PROVE  S = {}
<1> DEFINE sizes == {Cardinality(Ancestors(q)) : q \in S}
<1>1. SUFFICES ASSUME S # {}
               PROVE  FALSE
  OBVIOUS
<1>2. ASSUME NEW q \in S
      PROVE  /\ Cardinality(Ancestors(q)) \in Nat
             /\ Cardinality(Ancestors(projects[q].parent)) \in Nat
             /\ Cardinality(Ancestors(projects[q].parent)) < Cardinality(Ancestors(q))
  <2>1. Cardinality(DOMAIN projects) \in Nat
    BY ForestParents, ProjectsAreFinite, FS_CardinalityType
  <2> QED
    BY <1>2, <2>1, FewerAboveParent
<1>3. sizes \subseteq Nat /\ sizes # {}
  BY <1>1, <1>2
<1>4. PICK n \in sizes : \A m \in sizes : n <= m
  <2> HIDE DEF sizes
  <2> QED
    BY <1>3, SmallestNumber
<1>5. PICK q \in S : Cardinality(Ancestors(q)) = n
  BY <1>4
<1>6. Cardinality(Ancestors(projects[q].parent)) \in sizes
  BY <1>5
<1> HIDE DEF sizes
<1> QED
  BY <1>2, <1>4, <1>5, <1>6

\* What flows down to a project is the value set nearest above it.
LEMMA InheritedIsNearest ==
    ASSUME ForestInv, NEW own, NEW unset, NEW default, NEW p \in DOMAIN projects
    PROVE  Inherited(projects, own, unset, default)[p] = NearestAbove(p, own, unset, default)
<1> DEFINE D == DOMAIN projects
           g == [q \in D |-> NearestAbove(q, own, unset, default)]
           v == Inherited(projects, own, unset, default)
           at(f, q) == IF own[q] # unset THEN own[q]
                       ELSE IF IsRoot(projects, q) THEN default ELSE f[projects[q].parent]
           bad == {q \in D : v[q] # g[q]}
<1>1. v = CHOOSE f : f = [q \in D |-> at(f, q)]
  BY DEF Inherited
<1>2. \A q \in D : ~IsRoot(projects, q) => projects[q].parent \in D
  BY DEF IsRoot
<1>3. g = [q \in D |-> at(g, q)]
  <2>1. ASSUME NEW q \in D
        PROVE  NearestAbove(q, own, unset, default) = at(g, q)
    <3>1. ~IsRoot(projects, q) =>
             g[projects[q].parent] = NearestAbove(projects[q].parent, own, unset, default)
      BY <1>2
    <3> HIDE DEF g
    <3> QED
      BY <2>1, <3>1, NearestAboveUnfolds
  <2> HIDE DEF at
  <2> QED
    BY <2>1
<1> HIDE DEF g, v, at
<1>4. v = [q \in D |-> at(v, q)]
  BY <1>1, <1>3
<1>5. ASSUME NEW q \in bad
      PROVE  projects[q].parent \in bad
  <2>1. v[q] = at(v, q) /\ g[q] = at(g, q) /\ v[q] # g[q] /\ q \in D
    BY <1>3, <1>4, <1>5
  <2>2. ~IsRoot(projects, q) /\ v[projects[q].parent] # g[projects[q].parent]
    BY <2>1 DEF at
  <2> QED
    BY <1>2, <2>1, <2>2
<1>6. bad = {}
  <2>1. bad \subseteq D
    OBVIOUS
  <2> HIDE DEF bad
  <2> QED
    BY <1>5, <2>1, ClimbsEnd
<1> QED
  BY <1>6 DEF v, g

\* A project has the lead window set nearest above it.
LEMMA LeadIsNearest ==
    ASSUME ForestInv, NEW f, f.project \in DOMAIN projects
    PROVE  LeadFor(f, Leads(projects)[f.project]) = LeadAbove(f)
BY InheritedIsNearest DEF LeadFor, LeadAbove, Leads

\* The forest has a height that no chain of parents can exceed.
LEMMA ForestHasHeight ==
    ASSUME ForestInv
    PROVE  \E height \in [DOMAIN projects -> 0..Cardinality(DOMAIN projects)] :
               Ascends(projects, height)
<1> DEFINE D == DOMAIN projects
           height == [p \in D |-> Cardinality(D) + 1 - Cardinality(Ancestors(p))]
<1>1. Cardinality(D) \in Nat
  BY ForestParents, ProjectsAreFinite, FS_CardinalityType
<1>2. ASSUME NEW p \in D
      PROVE  height[p] \in 0..Cardinality(D)
  <2>1. Cardinality(Ancestors(p)) \in 1..Cardinality(D) + 1
    BY FewerAboveParent
  <2> QED
    BY <1>1, <2>1
<1>3. ASSUME NEW p \in D, NEW c \in Children(projects, p)
      PROVE  height[c] < height[p]
  <2>1. c \in D /\ projects[c].parent = p
    BY <1>3, ParentsAndChildren
  <2>2. /\ Cardinality(Ancestors(p)) < Cardinality(Ancestors(c))
        /\ Cardinality(Ancestors(p)) \in 1..Cardinality(D) + 1
        /\ Cardinality(Ancestors(c)) \in 1..Cardinality(D) + 1
    BY <2>1, FewerAboveParent
  <2> QED
    BY <1>1, <2>1, <2>2
<1>4. height \in [D -> 0..Cardinality(D)]
  BY <1>2
<1> HIDE DEF height
<1>5. \A p \in D : height[p] \in Nat
  BY <1>1, <1>4
<1> QED
  BY <1>3, <1>4, <1>5 DEF Ascends

\* The guards of the writes keep the forest that the health of it rests on (Nudges assumes one).
THEOREM ForestsHaveHeights == Spec => []HasHeights(projects)
<1>1. ForestInv => HasHeights(projects)
  BY ForestHasHeight DEF HasHeights, Ascends
<1> QED
  BY <1>1, ForestInvariant, PTL

\* Every lead window is a number.
LEMMA LeadsAreNumbers ==
    ASSUME ForestInv, NEW f, f.project \in DOMAIN projects, f.lead \in Nat
    PROVE  LeadAbove(f) \in Nat
<1> DEFINE own == [p \in DOMAIN projects |-> projects[p].lead]
           lead(p) == NearestAbove(p, own, 0, DefaultLeadDays)
           bad == {p \in DOMAIN projects : lead(p) \notin Nat}
<1>1. \A p \in DOMAIN projects : own[p] \in Nat
  BY WindowsAssumption DEF ForestInv, ProjectRow
<1>2. \A p \in DOMAIN projects : lead(p) = IF own[p] # 0 THEN own[p]
                                           ELSE IF IsRoot(projects, p) THEN DefaultLeadDays
                                           ELSE lead(projects[p].parent)
  <2> HIDE DEF own
  <2> QED
    BY NearestAboveUnfolds
<1>3. LeadAbove(f) = IF f.lead > 0 THEN f.lead ELSE lead(f.project)
  BY DEF LeadAbove
<1> HIDE DEF own, lead
<1>4. ASSUME NEW p \in bad
      PROVE  projects[p].parent \in bad
  <2>1. ~IsRoot(projects, p) /\ lead(projects[p].parent) \notin Nat
    BY <1>1, <1>2, <1>4, LeadAssumption
  <2> QED
    BY <2>1 DEF IsRoot
<1>5. bad = {}
  <2>1. bad \subseteq DOMAIN projects
    OBVIOUS
  <2> HIDE DEF bad
  <2> QED
    BY <1>4, <2>1, ClimbsEnd
<1> QED
  BY <1>3, <1>5

\* A fact as the writes store it.
StoredFact(f) ==
    /\ f.kind \in DOMAIN FactRules /\ ValidFact(f)
    /\ f.due \in Nat /\ f.every \in Nat /\ f.count \in Nat
    /\ f.done \in BOOLEAN /\ f.blocked \in BOOLEAN

Looming(f, lead, now) ==
    /\ f.kind \in {"deadline", "recurring"}
    /\ \E d \in Occurrences(f) : /\ now <= d /\ d <= now + lead
                                 /\ \A c \in Occurrences(f) : c < now \/ d <= c

\* The next occurrence is the first that is not over.
LEMMA NextIsFirst ==
    ASSUME NEW f, StoredFact(f), NEW now \in Nat \ {0}
    PROVE  /\ Occurrences(f) \subseteq Nat
           /\ LET later == {d \in Occurrences(f) : now <= d}
              IN  IF later = {} THEN NextOccurrence(f, now) = None
                  ELSE /\ NextOccurrence(f, now) \in later /\ NextOccurrence(f, now) # None
                       /\ \A d \in later : NextOccurrence(f, now) <= d
<1> DEFINE later == {d \in Occurrences(f) : now <= d}
<1>1. Occurrences(f) \subseteq Nat
  <2>1. ASSUME NEW k \in {0} \cup 0..(f.count - 1)
        PROVE  f.due + k * f.every \in Nat
    <3>1. k \in Nat /\ f.due \in Nat /\ f.every \in Nat
      BY DEF StoredFact
    <3>2. k * f.every \in Nat
      BY <3>1
    <3> QED
      BY <3>1, <3>2
  <2> QED
    BY <2>1 DEF Occurrences
<1>2. later \subseteq Nat \ {None} /\ later \ {None} = later
  BY <1>1 DEF None
<1>3. NextOccurrence(f, now) = IF later = {} THEN None ELSE Min(later)
  <2>1. {d \in Occurrences(f) : d >= now} = later
    BY <1>1
  <2> HIDE DEF later
  <2> QED
    BY <1>2, <2>1 DEF NextOccurrence, Nearest
<1> HIDE DEF later
<1>4. CASE later # {}
  <2>1. \E x \in later : \A y \in later : x <= y
    BY <1>2, <1>4, SmallestNumber
  <2>2. Min(later) \in later /\ \A y \in later : Min(later) <= y
    BY <2>1 DEF Min
  <2> QED
    BY <1>1, <1>2, <1>3, <1>4, <2>2 DEF later
<1> QED
  BY <1>1, <1>3, <1>4 DEF later

\* What a fact contributes, told without the cases of the code.
LEMMA SignalSays ==
    ASSUME NEW f, StoredFact(f), NEW lead \in Nat, NEW now \in Nat \ {0},
           NEW h, h = Signal(f, lead, now).health
    PROVE  /\ h \in {"ok", "due_soon", "blocked", "overdue"}
           /\ h = "overdue" <=> f.kind = "deadline" /\ f.due <= now
           /\ h = "blocked" <=> f.blocked
           /\ h = "due_soon" => Looming(f, lead, now)
           /\ Looming(f, lead, now) => h \in {"due_soon", "overdue"}
<1> DEFINE next == NextOccurrence(f, now)
           soon(d) == IF d - lead <= now THEN "due_soon" ELSE "ok"
<1>1. f.kind \in {"deadline", "recurring", "milestone", "note"} /\ f.due \in Nat /\ f.count \in Nat
  BY DEF StoredFact, FactRules
<1>2. f.kind # "milestone" => f.blocked = FALSE
  <2>1. f.blocked => "blocker" \in FactRules[f.kind].allowed
    BY DEF StoredFact, ValidFact, FieldsSet
  <2>2. f.kind # "milestone" => "blocker" \notin FactRules[f.kind].allowed
    BY <1>1 DEF FactRules
  <2> QED
    BY <2>1, <2>2 DEF StoredFact
<1>3. CASE f.kind = "deadline"
  <2>1. f.count = 0
    <3>1. f.count > 0 => "rrule" \in FactRules["deadline"].allowed
      BY <1>3 DEF StoredFact, ValidFact, FieldsSet
    <3>2. "rrule" \notin FactRules["deadline"].allowed
      BY DEF FactRules
    <3> QED
      BY <1>1, <3>1, <3>2
  <2>2. Occurrences(f) = {f.due}
    <3>1. {0} \cup 0..(f.count - 1) = {0}
      BY <2>1
    <3>2. f.due + 0 * f.every = f.due
      BY <1>1 DEF StoredFact
    <3> QED
      BY <3>1, <3>2 DEF Occurrences
  <2>3. h = IF f.due <= now THEN "overdue" ELSE soon(f.due)
    BY <1>3 DEF Signal
  <2>4. Looming(f, lead, now) <=> now <= f.due /\ f.due <= now + lead
    BY <1>1, <1>3, <2>2 DEF Looming
  <2> QED
    BY <1>1, <1>2, <1>3, <2>3, <2>4
<1>4. CASE f.kind = "recurring"
  <2>1. h = IF next = None THEN "ok" ELSE soon(next)
    BY <1>4 DEF Signal
  <2>2. Occurrences(f) \subseteq Nat
    BY NextIsFirst
  <2>3. next # None => /\ next \in Occurrences(f) /\ now <= next
                       /\ \A d \in Occurrences(f) : now <= d => next <= d
    BY NextIsFirst
  <2>4. next = None => \A d \in Occurrences(f) : ~(now <= d)
    BY NextIsFirst
  <2> HIDE DEF next
  <2>5. Looming(f, lead, now) <=> next # None /\ next <= now + lead
    <3>1. ASSUME next # None, next <= now + lead
          PROVE  Looming(f, lead, now)
      <4>1. \A c \in Occurrences(f) : c < now \/ next <= c
        BY <2>2, <2>3, <3>1
      <4> QED
        BY <1>4, <2>3, <3>1, <4>1 DEF Looming
    <3>2. ASSUME Looming(f, lead, now)
          PROVE  next # None /\ next <= now + lead
      <4>1. PICK d \in Occurrences(f) : now <= d /\ d <= now + lead
        BY <3>2 DEF Looming
      <4> QED
        BY <2>2, <2>3, <2>4, <4>1
    <3> QED
      BY <3>1, <3>2
  <2>6. next # None => next \in Nat
    BY <2>2, <2>3
  <2> QED
    BY <1>2, <1>4, <2>1, <2>5, <2>6
<1>5. CASE f.kind \in {"milestone", "note"}
  <2>1. h = IF f.blocked THEN "blocked" ELSE "ok"
    BY <1>2, <1>5 DEF Signal
  <2>2. ~Looming(f, lead, now)
    BY <1>5 DEF Looming
  <2> QED
    BY <1>5, <2>1, <2>2
<1> QED
  BY <1>1, <1>3, <1>4, <1>5

\* The health of a project by its own facts is the worst they have earned.
LEMMA OwnHealthIsWorst ==
    ASSUME NEW S, \A f \in S : f.kind \in DOMAIN FactRules, NEW lead, NEW now,
           NEW h, h = OwnHealth(S, lead, now).health
    PROVE  LET signal(f) == Signal(f, LeadFor(f, lead), now).health
           IN  /\ h \in Healths
               /\ h = "unknown" \/ h = "ok" \/ \E f \in S : ~f.done /\ signal(f) = h
               /\ h = "unknown" <=> S = {}
               /\ \A f \in S : ~f.done => HealthRank[signal(f)] <= HealthRank[h]
<1> DEFINE signal(f) == Signal(f, LeadFor(f, lead), now).health
           hs == {"ok"} \cup {signal(f) : f \in {g \in S : ~g.done}}
<1>1. h = IF S = {} THEN "unknown" ELSE Worst(hs)
  <2>1. {s.health : s \in {Signal(f, LeadFor(f, lead), now) : f \in {g \in S : ~g.done}}}
           = {signal(f) : f \in {g \in S : ~g.done}}
    OBVIOUS
  <2> QED
    BY <2>1 DEF OwnHealth
<1>2. \A f \in S : signal(f) \in Healths
  BY SignalIsHealth
<1> HIDE DEF signal
<1>3. hs \subseteq Healths /\ hs # {} /\ "ok" \in hs
  BY <1>2, Ranks
<1>4. Worst(hs) \in hs /\ \A g \in hs : HealthRank[g] <= HealthRank[Worst(hs)]
  <2> HIDE DEF hs
  <2> QED
    BY <1>3, WorstIsMember
<1>5. Worst(hs) # "unknown"
  <2>1. HealthRank["ok"] = 1 /\ HealthRank["unknown"] = 0
    BY DEF HealthRank
  <2>2. HealthRank["ok"] <= HealthRank[Worst(hs)]
    BY <1>3, <1>4
  <2> HIDE DEF hs
  <2> QED
    BY <2>1, <2>2
<1>6. h \in Healths /\ (h = "unknown" <=> S = {})
  BY <1>1, <1>3, <1>4, <1>5 DEF Healths
<1>7. h = "unknown" \/ h = "ok" \/ \E f \in S : ~f.done /\ signal(f) = h
  BY <1>1, <1>4
<1>8. \A f \in S : ~f.done => HealthRank[signal(f)] <= HealthRank[h]
  BY <1>1, <1>4
<1> QED
  BY <1>6, <1>7, <1>8 DEF signal

LEMMA AnswersForSubtree ==
    ASSUME ForestInv, FactsInv, NEW now \in Days,
           NEW forest, forest = Forest(projects, Rows(facts), bots, now), NEW p \in DOMAIN projects
    PROVE  forest[p].health = ReferenceHealth(p, now)
<1> DEFINE D == DOMAIN projects
           leads == Leads(projects)
           factsOf(q) == {f \in Rows(facts) : f.project = q}
           own == [q \in D |-> OwnHealth(factsOf(q), leads[q], now)]
           rolled(q) == RolledUp(projects, own)[q].health
           signal(f) == Signal(f, LeadAbove(f), now).health
<1>1. forest[p].health = rolled(p)
  BY ForestUnfolds
<1>2. ASSUME NEW f \in Rows(facts)
      PROVE  /\ StoredFact(f) /\ f.project \in D /\ f.kind \in DOMAIN FactRules
             /\ LeadAbove(f) \in Nat /\ LeadFor(f, leads[f.project]) = LeadAbove(f)
  <2>1. PICK i \in DOMAIN facts : f = facts[i]
    BY DEF Rows
  <2>2. FactRow(f, D, lastEvent)
    BY <2>1 DEF FactsInv
  <2>3. /\ f.due \in Nat /\ f.lead \in Nat /\ f.every \in Nat /\ f.count \in Nat
        /\ f.done \in BOOLEAN /\ f.blocked \in BOOLEAN
    BY <2>2, TypedFields DEF FactRow
  <2>4. StoredFact(f) /\ f.project \in D /\ f.kind \in DOMAIN FactRules
    BY <2>2, <2>3 DEF FactRow, StoredFact
  <2> QED
    BY <2>3, <2>4, LeadsAreNumbers, LeadIsNearest
<1>3. ASSUME NEW q \in D
      PROVE  LET h == own[q].health
             IN  /\ h \in Healths
                 /\ h = "unknown" \/ h = "ok" \/ \E f \in factsOf(q) : ~f.done /\ signal(f) = h
                 /\ h = "unknown" <=> factsOf(q) = {}
                 /\ \A f \in factsOf(q) : ~f.done => HealthRank[signal(f)] <= HealthRank[h]
  <2> DEFINE h == own[q].health
             F == factsOf(q)
             plain(f) == Signal(f, LeadFor(f, leads[q]), now).health
  <2>1. h = OwnHealth(F, leads[q], now).health
    OBVIOUS
  <2>2. \A f \in F : f.kind \in DOMAIN FactRules /\ plain(f) = signal(f)
    BY <1>2
  <2> HIDE DEF h, F, leads
  <2>3. /\ h \in Healths
        /\ h = "unknown" \/ h = "ok" \/ \E f \in F : ~f.done /\ plain(f) = h
        /\ h = "unknown" <=> F = {}
        /\ \A f \in F : ~f.done => HealthRank[plain(f)] <= HealthRank[h]
    BY <2>1, <2>2, OwnHealthIsWorst
  <2> HIDE DEF plain
  <2>4. /\ h \in Healths
        /\ h = "unknown" \/ h = "ok" \/ \E f \in F : ~f.done /\ signal(f) = h
        /\ h = "unknown" <=> F = {}
        /\ \A f \in F : ~f.done => HealthRank[signal(f)] <= HealthRank[h]
    BY <2>2, <2>3
  <2> QED
    BY <2>4 DEF h, F
<1> HIDE DEF own, signal, leads
<1>4. ParentsOK(projects) /\ None \notin D /\ IsFiniteSet(D)
  BY ForestParents, ProjectsAreFinite
<1>5. PICK height : Ascends(projects, height)
  BY DEF ForestInv
<1>6. \A q \in D : /\ rolled(q) \in Healths
                   /\ HealthRank[own[q].health] <= HealthRank[rolled(q)]
                   /\ \A c \in Children(projects, q) : HealthRank[rolled(c)] <= HealthRank[rolled(q)]
  BY <1>3, <1>4, <1>5, RolledUpHealths
\* No project below p is worse by its own facts.
<1>7. ASSUME NEW q \in D, p \in Ancestors(q)
      PROVE  HealthRank[own[q].health] <= HealthRank[rolled(p)]
  <2> DEFINE S == {None} \cup {a \in D : HealthRank[own[q].health] <= HealthRank[rolled(a)]}
  <2>1. \A a \in D : HealthRank[rolled(a)] \in 0..4 /\ HealthRank[own[a].health] \in 0..4
    BY <1>3, <1>6, Ranks
  <2>2. ASSUME NEW a \in S \cap D
        PROVE  projects[a].parent \in S
    <3>1. HealthRank[own[q].health] <= HealthRank[rolled(a)]
      BY <1>4, <2>2
    <3>2. CASE projects[a].parent = None
      BY <3>2
    <3>3. CASE projects[a].parent # None
      <4>1. projects[a].parent \in D /\ a \in Children(projects, projects[a].parent)
        BY <1>4, <3>3, ParentsAndChildren DEF ParentsOK
      <4>2. HealthRank[rolled(a)] <= HealthRank[rolled(projects[a].parent)]
        BY <1>6, <4>1
      <4> QED
        BY <2>1, <3>1, <4>1, <4>2
    <3> QED
      BY <3>2, <3>3
  <2>3. q \in S
    BY <1>6
  <2>4. UpClosed(S)
    BY <2>2 DEF UpClosed
  <2> HIDE DEF S
  <2>5. p \in S
    BY <1>4, <1>7, <2>3, <2>4, AncestorsClose
  <2> QED
    BY <1>4, <2>5 DEF S
\* And some project there is as bad.
<1>8. PICK q \in D : p \in Ancestors(q) /\ own[q].health = rolled(p)
  <2> DEFINE T == {q \in D : p \in Ancestors(q)}
  <2>1. p \in T
    BY AncestorsUnfold
  <2>2. \A q \in T : Children(projects, q) \subseteq T
    BY AncestorsUnfold, ParentsAndChildren
  <2>3. \E q \in T \cap D : own[q].health = rolled(p)
    <3> HIDE DEF T
    <3> QED
      BY <1>3, <1>4, <1>5, <2>1, <2>2, HealthHasCause
  <2> QED
    BY <2>3
<1> DEFINE h == rolled(p)
<1>9. \A f \in Below(p) : f \in Rows(facts) /\ f.project \in D /\ p \in Ancestors(f.project)
                          /\ f \in factsOf(f.project)
  BY <1>2 DEF Below
<1>10. h \in Healths /\ (h = "unknown" <=> Below(p) = {})
  <2>1. h = "unknown" => Below(p) = {}
    <3>1. SUFFICES ASSUME h = "unknown", NEW f \in Below(p)
                   PROVE  FALSE
      OBVIOUS
    <3>2. own[f.project].health \in Healths \ {"unknown"}
      BY <1>3, <1>9
    <3>3. HealthRank[own[f.project].health] <= HealthRank["unknown"]
      BY <1>7, <1>9, <3>1
    <3> QED
      BY <3>2, <3>3 DEF Healths, HealthRank
  <2>2. h # "unknown" => factsOf(q) # {}
    BY <1>3, <1>8
  <2>3. factsOf(q) \subseteq Below(p)
    BY <1>8 DEF Below
  <2> QED
    BY <1>6, <2>1, <2>2, <2>3
<1>11. h = "unknown" \/ h = "ok" \/ \E f \in Below(p) : ~f.done /\ signal(f) = h
  BY <1>3, <1>8 DEF Below
<1>12. ASSUME NEW f \in Below(p), ~f.done
       PROVE  HealthRank[signal(f)] <= HealthRank[h]
  <2>1. HealthRank[signal(f)] <= HealthRank[own[f.project].health]
    BY <1>3, <1>9, <1>12
  <2>2. HealthRank[own[f.project].health] <= HealthRank[h]
    BY <1>7, <1>9
  <2>3. /\ HealthRank[signal(f)] \in 0..4 /\ HealthRank[own[f.project].health] \in 0..4
        /\ HealthRank[h] \in 0..4
    <3>1. signal(f) \in Healths /\ own[f.project].health \in Healths
      BY <1>2, <1>3, <1>9, SignalIsHealth DEF signal
    <3> QED
      BY <1>10, <3>1, Ranks
  <2> QED
    BY <2>1, <2>2, <2>3
<1> HIDE DEF h, rolled
<1>13. now \in Nat \ {0}
  BY WindowsAssumption DEF None
<1>14. ASSUME NEW f \in Below(p)
       PROVE  LET s == signal(f)
              IN  /\ s \in {"ok", "due_soon", "blocked", "overdue"}
                  /\ s = "overdue" <=> f.kind = "deadline" /\ f.due <= now
                  /\ s = "blocked" <=> f.blocked
                  /\ s = "due_soon" => Looming(f, LeadAbove(f), now)
                  /\ Looming(f, LeadAbove(f), now) => s \in {"due_soon", "overdue"}
  BY <1>2, <1>9, <1>13, SignalSays DEF signal
<1> DEFINE open == {f \in Below(p) : ~f.done}
<1>15. ReferenceHealth(p, now) =
         IF \E f \in open : f.kind = "deadline" /\ f.due <= now THEN "overdue"
         ELSE IF \E f \in open : f.blocked THEN "blocked"
         ELSE IF \E f \in open : Looming(f, LeadAbove(f), now) THEN "due_soon"
         ELSE IF Below(p) # {} THEN "ok" ELSE "unknown"
  BY DEF ReferenceHealth, Looming
<1>16. h = ReferenceHealth(p, now)
  <2>1. \A f \in open : HealthRank[signal(f)] <= HealthRank[h]
    BY <1>12
  <2>2. HealthRank = [unknown |-> 0, ok |-> 1, due_soon |-> 2, blocked |-> 3, overdue |-> 4]
    BY DEF HealthRank
  <2>3. h \in {"unknown", "ok", "due_soon", "blocked", "overdue"}
    BY <1>10 DEF Healths
  <2>4. CASE \E f \in open : signal(f) = "overdue"
    BY <1>14, <1>15, <2>1, <2>2, <2>3, <2>4
  <2>5. CASE (\E f \in open : signal(f) = "blocked") /\ ~(\E f \in open : signal(f) = "overdue")
    BY <1>11, <1>14, <1>15, <2>1, <2>2, <2>3, <2>5
  <2>6. CASE ~\E f \in open : signal(f) \in {"blocked", "overdue"}
    BY <1>10, <1>11, <1>14, <1>15, <2>1, <2>2, <2>3, <2>6
  <2> QED
    BY <2>4, <2>5, <2>6
<1> QED
  BY <1>1, <1>16 DEF h, rolled

\* On every day, the health served of a project is the worst that any undone fact
\* anywhere below it has earned, with the lead windows as inherited.
THEOREM HealthIsWorstBelow == Spec => []HealthAnswersForSubtree
<1>1. ForestInv /\ RowsInv => HealthAnswersForSubtree
  BY AnswersForSubtree DEF RowsInv, HealthAnswersForSubtree
<1> QED
  BY <1>1, ForestInvariant, RowsInvariant, PTL
=============================================================================
