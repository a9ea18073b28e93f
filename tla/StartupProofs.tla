---------------------------- MODULE StartupProofs ----------------------------
(***************************************************************************)
(* For every set of projects, every page size, all sources and a GitLab    *)
(* that changes at will: the list of projects repeats none and misses none *)
(* that it had to find, all explicit entries are tracked whatever the      *)
(* wildcards give, the command line wins, and the collectors that need a   *)
(* detected tier are never registered.                                     *)
(***************************************************************************)
EXTENDS Startup, ConfigProofs, FiniteSetTheorems, SequenceTheorems

\* What the wildcard at hand must not miss is still listed; what is listed on
\* the pages read so far has been found.
PagesReadAreTracked ==
    pc = "wildcards" =>
        /\ owed \subseteq Matched
        /\ \A y \in owed : Rank(Matched, y) <= (page - 1) * PageSize => y \in Tracked

\* Without a detected tier none of the gated collectors is registered.
GatedAreOut == registered \cap {"dora", "value_stream", "code_review"} = {}

StartupInv ==
    /\ TypeOK
    /\ ProjectsOnce
    /\ WildcardsAreComplete
    /\ CommandLineWins
    /\ PagesReadAreTracked
    /\ GatedAreOut

-----------------------------------------------------------------------------
(* Listings: positions in a list that changes                              *)

\* Up to and including an item there is at least the item, and no more than
\* the list.
LEMMA RankBounds ==
  ASSUME NEW S \in SUBSET Nat, IsFiniteSet(S), NEW y \in S
  PROVE  /\ Rank(S, y) \in Nat
         /\ 1 <= Rank(S, y)
         /\ Rank(S, y) <= Cardinality(S)
         /\ Cardinality(S) \in Nat
<1>. DEFINE T == {z \in S : z >= y}
<1>1. IsFiniteSet(T) /\ Cardinality(T) <= Cardinality(S)
  BY FS_Subset, T \in SUBSET S
<1>2. Cardinality(T) \in Nat /\ Cardinality(S) \in Nat
  BY <1>1, FS_CardinalityType
<1>3. y \in T
  OBVIOUS
<1>4. Cardinality(T) # 0
  BY <1>1, <1>3, FS_EmptySet
<1>. QED  BY <1>1, <1>2, <1>4 DEF Rank

\* A further item moves no other to an earlier place.
LEMMA RankGrows ==
  ASSUME NEW S \in SUBSET Nat, IsFiniteSet(S), NEW y \in S, NEW x \in Nat
  PROVE  Rank(S, y) <= Rank(S \cup {x}, y)
<1>. DEFINE T == {z \in S : z >= y}
            U == {z \in S \cup {x} : z >= y}
<1>1. IsFiniteSet(U)
  <2>1. IsFiniteSet(S \cup {x})
    BY FS_AddElement
  <2>. QED  BY <2>1, FS_Subset, U \in SUBSET (S \cup {x})
<1>2. Cardinality(T) <= Cardinality(U)
  BY <1>1, FS_Subset, T \in SUBSET U
<1>. QED  BY <1>2 DEF Rank

\* The loss of an older item moves none.
LEMMA RankKept ==
  ASSUME NEW S \in SUBSET Nat, NEW y \in S, NEW x \in Nat, y > x
  PROVE  Rank(S \ {x}, y) = Rank(S, y)
<1>1. {z \in S \ {x} : z >= y} = {z \in S : z >= y}
  OBVIOUS
<1>. QED  BY <1>1 DEF Rank

\* A list of a set names each of its elements, and each once.
LEMMA NewestFirstShape ==
  ASSUME NEW S, IsFiniteSet(S), NEW q \in NewestFirst(S)
  PROVE  /\ q \in Seq(S)
         /\ \A a, b \in DOMAIN q : a # b => q[a] # q[b]
         /\ \A x \in S : \E a \in DOMAIN q : q[a] = x
<1>1. Cardinality(S) \in Nat
  BY FS_CardinalityType
<1>2. q \in [1..Cardinality(S) -> S]
  BY DEF NewestFirst, Orders
<1>3. q \in Seq(S)
  BY <1>1, <1>2
<1>4. DOMAIN q = 1..Cardinality(S)
  BY <1>2
<1>. QED  BY <1>3, <1>4 DEF NewestFirst, Orders

-----------------------------------------------------------------------------
(* The list of projects                                                    *)

OnceIn(list) == \A i, j \in DOMAIN list : i # j => list[i] # list[j]

\* Appending a list without repetitions of other projects leaves a list
\* without repetitions, of both.
LEMMA AppendingNew ==
  ASSUME NEW list \in Seq(Projects), NEW q \in Seq(Projects),
         OnceIn(list), OnceIn(q), Elements(list) \cap Elements(q) = {}
  PROVE  /\ list \o q \in Seq(Projects)
         /\ OnceIn(list \o q)
         /\ Elements(list \o q) = Elements(list) \cup Elements(q)
<1>. DEFINE both == list \o q
            m == Len(list)
            n == Len(q)
<1>1. /\ both \in Seq(Projects)
      /\ Len(both) = m + n
      /\ \A i \in 1..(m + n) : both[i] = IF i <= m THEN list[i] ELSE q[i - m]
  BY ConcatProperties
<1>2. /\ m \in Nat /\ n \in Nat
      /\ DOMAIN list = 1..m /\ DOMAIN q = 1..n /\ DOMAIN both = 1..(m + n)
  BY <1>1, LenProperties
<1>. HIDE DEF both, m, n
<1>3. \A i \in 1..(m + n) :
          \/ i \in 1..m /\ both[i] = list[i]
          \/ i \notin 1..m /\ i - m \in 1..n /\ both[i] = q[i - m]
  BY <1>1, <1>2
<1>4. \A i \in 1..m, j \in 1..n : list[i] # q[j]
  BY <1>2 DEF Elements
<1>5. OnceIn(both)
  <2>. SUFFICES ASSUME NEW i \in 1..(m + n), NEW j \in 1..(m + n), i # j
                PROVE  both[i] # both[j]
    BY <1>2 DEF OnceIn
  <2>1. CASE i \in 1..m /\ j \in 1..m
    BY <2>1, <1>2, <1>3 DEF OnceIn
  <2>2. CASE i \in 1..m /\ j \notin 1..m
    BY <2>2, <1>3, <1>4
  <2>3. CASE i \notin 1..m /\ j \in 1..m
    BY <2>3, <1>3, <1>4
  <2>4. CASE i \notin 1..m /\ j \notin 1..m
    <3>1. i - m # j - m
      BY <1>2
    <3>. QED  BY <2>4, <3>1, <1>2, <1>3 DEF OnceIn
  <2>. QED  BY <2>1, <2>2, <2>3, <2>4
<1>6. Elements(both) = Elements(list) \cup Elements(q)
  <2>1. ASSUME NEW i \in 1..(m + n)
        PROVE  both[i] \in Elements(list) \cup Elements(q)
    BY <1>2, <1>3 DEF Elements
  <2>2. ASSUME NEW i \in 1..m  PROVE list[i] \in Elements(both)
    BY <1>1, <1>2 DEF Elements
  <2>3. ASSUME NEW j \in 1..n  PROVE q[j] \in Elements(both)
    <3>1. m + j \in 1..(m + n) /\ ~(m + j <= m) /\ (m + j) - m = j
      BY <1>2
    <3>2. both[m + j] = q[j]
      BY <1>1, <3>1
    <3>. QED  BY <1>2, <3>1, <3>2 DEF Elements
  <2>. QED  BY <1>2, <2>1, <2>2, <2>3 DEF Elements
<1>. QED  BY <1>1, <1>5, <1>6 DEF both

\* A step that leaves the list alone leaves what is read off it alone.
LEMMA ListKept ==
  ASSUME UNCHANGED projects
  PROVE  Tracked' = Tracked /\ (ProjectsOnce => ProjectsOnce')
BY DEF Tracked, Elements, ProjectsOnce

-----------------------------------------------------------------------------
(* The parts of the discovery                                              *)

LEMMA SourceFacts ==
  ASSUME src \in Sources
  PROVE  /\ src.file \in [Settings -> Words]
         /\ src.env \in [Variables -> Words]
         /\ src.flag \in [HasFlag -> Words]
         /\ Explicit \in Seq(Projects)
<1>1. src \in SourceType
  BY StartupAssumption
<1>2. src.projects \in Seq(Projects)
  BY <1>1 DEF SourceType
<1>. QED  BY <1>1, <1>2 DEF SourceType, Explicit

\* What a wildcard matches is a set of projects, which can be ordered.
LEMMA MatchingFacts ==
  ASSUME NEW list \in SUBSET Projects, NEW w
  PROVE  /\ Matching(w, list) \subseteq list
         /\ Matching(w, list) \in SUBSET Nat
         /\ IsFiniteSet(Matching(w, list))
<1>1. Matching(w, list) \subseteq list
  BY DEF Matching
<1>2. IsFiniteSet(Matching(w, list))
  BY <1>1, StartupAssumption, FS_Subset, Matching(w, list) \in SUBSET Projects
<1>. QED  BY <1>1, <1>2, StartupAssumption

\* At the start of a wildcard no page has been read, and nothing is at a place
\* on them.
LEMMA WildcardBegins ==
  ASSUME NEW w \in Nat \ {0}, BeginWildcard(w), UNCHANGED src, visible' \in SUBSET Projects
  PROVE  /\ next' \in Nat \ {0} /\ page' \in Nat \ {0}
         /\ owed' \in SUBSET Projects
         /\ PagesReadAreTracked'
<1>1. next' = w /\ page' = 1 /\ owed' = Matching(w, visible')
  BY DEF BeginWildcard
<1>2. Matched' = owed'
  BY <1>1 DEF Matched, Matching, Wildcards
<1>3. owed' \in SUBSET Projects /\ owed' \in SUBSET Nat /\ IsFiniteSet(owed')
  BY <1>1, MatchingFacts
<1>4. ASSUME NEW y \in owed'  PROVE ~(Rank(owed', y) <= (page' - 1) * PageSize)
  <2>1. Rank(owed', y) \in Nat /\ 1 <= Rank(owed', y)
    BY <1>3, RankBounds
  <2>2. (page' - 1) * PageSize = 0
    BY <1>1, StartupAssumption
  <2>. QED  BY <2>1, <2>2
<1>5. PagesReadAreTracked'
  BY <1>2, <1>4 DEF PagesReadAreTracked
<1>. QED  BY <1>1, <1>3, <1>5

\* A page adds its projects to the list, none of them twice, and after it
\* everything owed up to its end has been found; after the last, everything.
LEMMA PageStep ==
  ASSUME StartupInv, ReadPage
  PROVE  StartupInv'
<1>. DEFINE new == Page(Matched, page, PageSize) \ Tracked
<1>. USE DEF StartupInv, TypeOK
<1>1. /\ Matched \subseteq Projects
      /\ Matched \in SUBSET Nat
      /\ IsFiniteSet(Matched)
  BY MatchingFacts DEF Matched
<1>2. new \subseteq Matched /\ IsFiniteSet(new)
  <2>1. new \subseteq Matched
    BY DEF Page
  <2>. QED  BY <2>1, <1>1, FS_Subset, new \in SUBSET Matched
<1>. HIDE DEF new
<1>3. PICK q \in NewestFirst(new) : projects' = projects \o q
  BY DEF ReadPage, AppendPage, new
<1>4. q \in Seq(Projects) /\ OnceIn(q) /\ Elements(q) = new
  <2>1. /\ q \in Seq(new)
        /\ \A a, b \in DOMAIN q : a # b => q[a] # q[b]
        /\ \A x \in new : \E a \in DOMAIN q : q[a] = x
    BY <1>2, <1>3, NewestFirstShape
  <2>2. \A a \in DOMAIN q : q[a] \in new
    BY <2>1, LenProperties
  <2>3. q \in Seq(Projects)
    BY <2>1, <1>1, <1>2, SeqMonotonic
  <2>. QED  BY <2>1, <2>2, <2>3 DEF OnceIn, Elements
<1>5. projects' \in Seq(Projects) /\ OnceIn(projects') /\ Tracked' = Tracked \cup new
  <2>1. OnceIn(projects) /\ Tracked = Elements(projects) /\ Tracked' = Elements(projects')
    BY DEF OnceIn, ProjectsOnce, Tracked, Elements
  <2>2. Elements(projects) \cap Elements(q) = {}
    BY <2>1, <1>4 DEF new
  <2>. QED  BY <2>1, <2>2, <1>3, <1>4, AppendingNew
<1>6. ASSUME NEW y \in owed, Rank(Matched, y) <= page * PageSize
      PROVE  y \in Tracked'
  <2>1. pc = "wildcards"
    BY DEF ReadPage
  <2>2. y \in Matched
    BY <2>1 DEF PagesReadAreTracked
  <2>3. Rank(Matched, y) \in Nat
    BY <1>1, <2>2, RankBounds
  <2>4. CASE Rank(Matched, y) <= (page - 1) * PageSize
    BY <2>1, <2>4, <1>5 DEF PagesReadAreTracked
  <2>5. CASE ~(Rank(Matched, y) <= (page - 1) * PageSize)
    <3>1. (page - 1) * PageSize \in Int
      BY StartupAssumption
    <3>2. (page - 1) * PageSize < Rank(Matched, y)
      BY <2>3, <2>5, <3>1
    <3>3. y \in Page(Matched, page, PageSize)
      BY <2>2, <3>2, <1>6 DEF Page
    <3>. QED  BY <3>3, <1>5 DEF new
  <2>. QED  BY <2>4, <2>5
<1>7. /\ UNCHANGED <<src, pc, cfg, store, visible, ctxDone, registered>>
      /\ pc = "wildcards"
  BY DEF ReadPage
<1>8. CASE HasNextPage(Matched, page, PageSize)
  <2>1. page' = page + 1 /\ UNCHANGED <<next, owed, due>>
    BY <1>8 DEF ReadPage, NextPage
  <2>2. Matched' = Matched
    BY <2>1, <1>7 DEF Matched, Matching, Wildcards
  <2>3. (page' - 1) * PageSize = page * PageSize
    BY <2>1
  <2>4. PagesReadAreTracked'
    BY <2>1, <2>2, <2>3, <1>6, <1>7 DEF PagesReadAreTracked
  <2>5. TypeOK'
    BY <2>1, <1>5, <1>7
  <2>6. WildcardsAreComplete' /\ ProjectsOnce'
    BY <2>1, <1>5 DEF WildcardsAreComplete, ProjectsOnce, OnceIn
  <2>. QED  BY <2>4, <2>5, <2>6, <1>7 DEF CommandLineWins, GatedAreOut
<1>9. CASE ~HasNextPage(Matched, page, PageSize)
  <2>1. BeginWildcard(next + 1) /\ due' = due \cup owed
    BY <1>9 DEF ReadPage, NextPage
  <2>2. ASSUME NEW y \in owed  PROVE y \in Tracked'
    <3>1. y \in Matched
      BY <1>7 DEF PagesReadAreTracked
    <3>2. /\ Rank(Matched, y) \in Nat /\ Cardinality(Matched) \in Nat
          /\ Rank(Matched, y) <= Cardinality(Matched)
      BY <1>1, <3>1, RankBounds
    <3>3. page * PageSize \in Nat
      BY StartupAssumption
    <3>4. Cardinality(Matched) <= page * PageSize
      BY <1>9, <3>2, <3>3 DEF HasNextPage
    <3>5. Rank(Matched, y) <= page * PageSize
      BY <3>2, <3>3, <3>4
    <3>. QED  BY <3>5, <1>6
  <2>3. /\ next' \in Nat \ {0} /\ page' \in Nat \ {0}
        /\ owed' \in SUBSET Projects
        /\ PagesReadAreTracked'
    BY <2>1, <1>7, WildcardBegins, next + 1 \in Nat \ {0}
  <2>4. TypeOK'
    BY <2>1, <2>3, <1>5, <1>7
  <2>5. WildcardsAreComplete' /\ ProjectsOnce'
    BY <2>1, <2>2, <1>5 DEF WildcardsAreComplete, ProjectsOnce, OnceIn
  <2>. QED  BY <2>3, <2>4, <2>5, <1>7 DEF CommandLineWins, GatedAreOut
<1>. QED  BY <1>8, <1>9

-----------------------------------------------------------------------------
(* The invariant                                                           *)

LEMMA StartupInitInv == Init => StartupInv
<1>. SUFFICES ASSUME Init  PROVE StartupInv
  OBVIOUS
<1>1. TypeOK
  <2>1. <<>> \in Seq(Projects)
    BY EmptySeq
  <2>2. 1 \in Nat \ {0} /\ {next, page} = {1}
    BY DEF Init
  <2>3. {next, page} \subseteq Nat \ {0}
    BY <2>2
  <2>4. cfg \in Configs
    BY BlankType DEF Init
  <2>5. pc \in Ends \cup {"main", "client", "store", "explicit", "wildcards", "register"}
    BY DEF Init
  <2>. QED  BY <2>1, <2>3, <2>4, <2>5 DEF Init, TypeOK
<1>2. ProjectsOnce /\ WildcardsAreComplete
  BY DEF Init, ProjectsOnce, WildcardsAreComplete
<1>3. CommandLineWins /\ PagesReadAreTracked /\ GatedAreOut
  BY DEF Init, CommandLineWins, PagesReadAreTracked, GatedAreOut
<1>. QED  BY <1>1, <1>2, <1>3 DEF StartupInv

\* The configuration is made at once, and nothing changes it.
LEMMA ConfigureStep ==
  ASSUME StartupInv, Configure
  PROVE  StartupInv'
<1>. USE DEF StartupInv, TypeOK, Configure
<1>1. Configured(src) \in Configs
  BY SourceFacts, ConfiguredType
<1>2. CommandLineWins'
  BY FlagDecides DEF CommandLineWins
<1>3. ProjectsOnce' /\ Tracked' = Tracked
  BY ListKept DEF discovery
<1>. QED  BY <1>1, <1>2, <1>3
     DEF WildcardsAreComplete, PagesReadAreTracked, GatedAreOut, discovery

\* An explicit entry is appended if it is not in the list.
LEMMA AddExplicitStep ==
  ASSUME StartupInv, AddExplicit
  PROVE  StartupInv'
<1>. USE DEF StartupInv, TypeOK
<1>1. /\ pc = "explicit"
      /\ UNCHANGED <<src, pc, cfg, store, visible, page, ctxDone, registered, owed, due>>
      /\ next' = next + 1
  BY DEF AddExplicit
<1>2. /\ projects' \in Seq(Projects)
      /\ ProjectsOnce'
      /\ Tracked \subseteq Tracked'
  <2>1. CASE Explicit[next] \in Tracked
    <3>1. UNCHANGED projects
      BY <2>1 DEF AddExplicit
    <3>. QED  BY <3>1, ListKept
  <2>2. CASE Explicit[next] \notin Tracked
    <3>. DEFINE p == Explicit[next]
    <3>1. p \in Projects
      BY SourceFacts, LenProperties DEF AddExplicit
    <3>2. projects' = Append(projects, p)
      BY <2>2 DEF AddExplicit
    <3>. HIDE DEF p
    <3>3. /\ projects' \in Seq(Projects)
          /\ DOMAIN projects = 1..Len(projects)
          /\ DOMAIN projects' = 1..(Len(projects) + 1)
          /\ \A i \in 1..Len(projects) : projects'[i] = projects[i]
          /\ projects'[Len(projects) + 1] = p
          /\ Len(projects) \in Nat
      BY <3>1, <3>2, LenProperties
    <3>4. \A i \in 1..Len(projects) : projects[i] # p
      BY <2>2, <3>3 DEF Tracked, Elements, p
    <3>5. ProjectsOnce'
      BY <3>3, <3>4 DEF ProjectsOnce
    <3>6. Tracked \subseteq Tracked'
      BY <3>3 DEF Tracked, Elements
    <3>. QED  BY <3>3, <3>5, <3>6
  <2>. QED  BY <2>1, <2>2
<1>3. next' \in Nat \ {0}
  BY <1>1
<1>4. TypeOK'
  BY <1>1, <1>2, <1>3
<1>. QED  BY <1>1, <1>2, <1>4
     DEF WildcardsAreComplete, PagesReadAreTracked, CommandLineWins, GatedAreOut

LEMMA ExplicitDoneStep ==
  ASSUME StartupInv, ExplicitDone
  PROVE  StartupInv'
<1>. USE DEF StartupInv, TypeOK
<1>1. /\ pc = "explicit" /\ pc' = "wildcards"
      /\ UNCHANGED <<src, cfg, store, projects, ctxDone, registered, due>>
      /\ BeginWildcard(1)
  BY DEF ExplicitDone
<1>2. visible' \in SUBSET Projects
  BY DEF ExplicitDone
<1>3. /\ next' \in Nat \ {0} /\ page' \in Nat \ {0}
      /\ owed' \in SUBSET Projects
      /\ PagesReadAreTracked'
  BY <1>1, <1>2, WildcardBegins, 1 \in Nat \ {0}
<1>4. ProjectsOnce' /\ Tracked' = Tracked
  BY <1>1, ListKept
<1>5. TypeOK'
  BY <1>1, <1>2, <1>3
<1>. QED  BY <1>1, <1>3, <1>4, <1>5 DEF WildcardsAreComplete, CommandLineWins, GatedAreOut

\* What a wildcard owed is forgiven when one of its pages fails.
LEMMA PageFailsStep ==
  ASSUME StartupInv, PageFails
  PROVE  StartupInv'
<1>. USE DEF StartupInv, TypeOK
<1>1. /\ UNCHANGED <<src, pc, cfg, store, visible, projects, ctxDone, registered, due>>
      /\ BeginWildcard(next + 1)
  BY DEF PageFails
<1>2. /\ next' \in Nat \ {0} /\ page' \in Nat \ {0}
      /\ owed' \in SUBSET Projects
      /\ PagesReadAreTracked'
  BY <1>1, WildcardBegins, next + 1 \in Nat \ {0}
<1>3. ProjectsOnce' /\ Tracked' = Tracked
  BY <1>1, ListKept
<1>4. TypeOK'
  BY <1>1, <1>2
<1>. QED  BY <1>1, <1>2, <1>3, <1>4 DEF WildcardsAreComplete, CommandLineWins, GatedAreOut

\* What appears moves what is owed to later places only, where pages still
\* have to be read.
LEMMA AppearStep ==
  ASSUME StartupInv, NEW x \in Projects, Appear(x)
  PROVE  StartupInv'
<1>. USE DEF StartupInv, TypeOK
<1>1. /\ UNCHANGED <<src, pc, cfg, store, discovery, registered>>
      /\ pc = "wildcards"
      /\ visible' = visible \cup {x}
  BY DEF Appear
<1>2. UNCHANGED <<projects, next, page, ctxDone, owed, due>>
  BY <1>1 DEF discovery
<1>3. Matched' = Matched \/ Matched' = Matched \cup {x}
  BY <1>1, <1>2 DEF Matched, Matching, Wildcards
<1>4. Matched \in SUBSET Nat /\ IsFiniteSet(Matched) /\ x \in Nat
  BY MatchingFacts, StartupAssumption DEF Matched
<1>5. \A y \in Matched : Rank(Matched, y) \in Nat /\ Rank(Matched, y) <= Rank(Matched', y)
  <2>. TAKE y \in Matched
  <2>1. Rank(Matched, y) \in Nat
    BY <1>4, RankBounds
  <2>2. Rank(Matched, y) <= Rank(Matched \cup {x}, y)
    BY <1>4, RankGrows
  <2>3. CASE Matched' = Matched
    <3>1. Rank(Matched', y) = Rank(Matched, y)
      BY <2>3, Zenon
    <3>. QED  BY <2>1, <3>1
  <2>4. CASE Matched' = Matched \cup {x}
    <3>1. Rank(Matched', y) = Rank(Matched \cup {x}, y)
      BY <2>4, Zenon
    <3>. QED  BY <2>1, <2>2, <3>1
  <2>. QED  BY <2>3, <2>4, <1>3
<1>6. Matched' \in SUBSET Nat /\ IsFiniteSet(Matched')
  <2>1. IsFiniteSet(Matched \cup {x})
    BY <1>4, FS_AddElement
  <2>2. Matched \cup {x} \in SUBSET Nat
    BY <1>4
  <2>3. Matched' = Matched \/ Matched' = Matched \cup {x}
    BY <1>3
  <2>4. CASE Matched' = Matched
    BY <2>4, <1>4
  <2>5. CASE Matched' = Matched \cup {x}
    BY <2>5, <2>1, <2>2
  <2>. QED  BY <2>3, <2>4, <2>5
<1>7. \A y \in Matched : Rank(Matched', y) \in Nat
  <2>. DEFINE M == Matched'
  <2>1. M \in SUBSET Nat /\ IsFiniteSet(M) /\ Matched \subseteq M
    BY <1>3, <1>6
  <2>. HIDE DEF M
  <2>2. \A y \in M : Rank(M, y) \in Nat
    BY <2>1, RankBounds
  <2>. QED  BY <2>1, <2>2 DEF M
<1>8. Tracked' = Tracked /\ ProjectsOnce'
  BY <1>2, ListKept
<1>9. PagesReadAreTracked'
  <2>1. owed' \subseteq Matched'
    BY <1>1, <1>2, <1>3 DEF PagesReadAreTracked
  <2>2. ASSUME NEW y \in owed, Rank(Matched', y) <= (page - 1) * PageSize  PROVE y \in Tracked
    <3>1. y \in Matched
      BY <1>1 DEF PagesReadAreTracked
    <3>2. (page - 1) * PageSize \in Int
      BY StartupAssumption
    <3>3. Rank(Matched, y) <= (page - 1) * PageSize
      BY <2>2, <3>1, <3>2, <1>5, <1>7
    <3>. QED  BY <3>3, <1>1 DEF PagesReadAreTracked
  <2>. QED  BY <2>1, <2>2, <1>2, <1>8 DEF PagesReadAreTracked
<1>10. TypeOK'
  BY <1>1, <1>2
<1>. QED  BY <1>1, <1>2, <1>8, <1>9, <1>10
     DEF WildcardsAreComplete, CommandLineWins, GatedAreOut

\* What disappears moves nothing newer.
LEMMA DisappearStep ==
  ASSUME StartupInv, NEW x \in Projects, Disappear(x)
  PROVE  StartupInv'
<1>. USE DEF StartupInv, TypeOK
<1>1. /\ UNCHANGED <<src, pc, cfg, store, projects, next, page, ctxDone, registered, due>>
      /\ pc = "wildcards"
      /\ visible' = visible \ {x}
      /\ owed' = IF x \in Matched THEN {y \in owed : y > x} ELSE owed
  BY DEF Disappear
<1>2. Matched' = Matched \ {x}
  BY <1>1 DEF Matched, Matching, Wildcards
<1>3. Matched \in SUBSET Nat /\ IsFiniteSet(Matched) /\ x \in Nat
  BY MatchingFacts, StartupAssumption DEF Matched
<1>4. Tracked' = Tracked /\ ProjectsOnce'
  BY <1>1, ListKept
<1>5. PagesReadAreTracked'
  <2>1. CASE x \in Matched
    <3>1. \A y \in owed' : y \in owed /\ y \in Matched /\ y > x
      BY <2>1, <1>1 DEF PagesReadAreTracked
    <3>2. \A y \in owed' : Rank(Matched', y) = Rank(Matched, y)
      BY <3>1, <1>2, <1>3, RankKept
    <3>3. \A y \in owed' : y \in Matched'
      BY <3>1, <1>2, <1>3
    <3>. QED  BY <3>1, <3>2, <3>3, <1>1, <1>4 DEF PagesReadAreTracked
  <2>2. CASE x \notin Matched
    <3>1. Matched' = Matched /\ owed' = owed
      BY <2>2, <1>1, <1>2
    <3>. QED  BY <3>1, <1>1, <1>4 DEF PagesReadAreTracked
  <2>. QED  BY <2>1, <2>2
<1>6. TypeOK'
  BY <1>1
<1>. QED  BY <1>1, <1>4, <1>5, <1>6 DEF WildcardsAreComplete, CommandLineWins, GatedAreOut

\* No feature is known, so that no gated collector is enabled.
LEMMA RegisterStep ==
  ASSUME StartupInv, RegisterCollectors
  PROVE  StartupInv'
<1>. USE DEF StartupInv, TypeOK
<1>1. /\ UNCHANGED <<src, cfg, store, visible, projects, next, page, ctxDone, owed, due>>
      /\ pc = "register" /\ pc' = "running"
      /\ registered' = {d \in Collectors : Enabled(d)}
  BY DEF RegisterCollectors, discovery
<1>2. \A d \in {"dora", "value_stream", "code_review"} : ~Enabled(d)
  BY DEF Enabled, Available, DetectedFeatures, Undetected
<1>3. Tracked' = Tracked /\ ProjectsOnce'
  BY <1>1, ListKept
<1>4. TypeOK'
  BY <1>1 DEF Ends
<1>5. GatedAreOut'
  BY <1>1, <1>2 DEF GatedAreOut
<1>. QED  BY <1>1, <1>3, <1>4, <1>5
     DEF WildcardsAreComplete, CommandLineWins, PagesReadAreTracked

\* The other steps move on, fail or leave all but the clock alone.
LEMMA OtherStep ==
  ASSUME StartupInv,
         \/ ConfigureFails \/ NewClient \/ NewClientFails \/ OpenStore \/ OpenStoreFails
         \/ Discovered \/ NothingDiscovered \/ Expire \/ Signal \/ UNCHANGED vars
  PROVE  StartupInv'
<1>. USE DEF StartupInv, TypeOK
<1>1. /\ UNCHANGED <<src, cfg, projects, next, page, registered, owed, due>>
      /\ ctxDone' \in BOOLEAN
      /\ store' \in {"none", "memory", "redis"}
      /\ visible' \subseteq Projects
      /\ pc' \in Ends \cup {"main", "client", "store", "explicit", "wildcards", "register"}
      /\ pc' = "wildcards" => pc = "wildcards" /\ visible' = visible
      /\ pc' \notin {"main", "failed", "killed"} => pc \notin {"main", "failed", "killed"}
  BY DEF ConfigureFails, NewClient, NewClientFails, OpenStore, OpenStoreFails,
         Discovered, NothingDiscovered, Expire, Signal, vars, discovery, Ends
<1>2. Tracked' = Tracked /\ ProjectsOnce'
  BY <1>1, ListKept
<1>3. PagesReadAreTracked'
  <2>1. pc' = "wildcards" => Matched' = Matched
    BY <1>1 DEF Matched, Matching, Wildcards
  <2>. QED  BY <2>1, <1>1, <1>2 DEF PagesReadAreTracked
<1>4. TypeOK'
  BY <1>1
<1>. QED  BY <1>1, <1>2, <1>3, <1>4 DEF WildcardsAreComplete, CommandLineWins, GatedAreOut

LEMMA StartupStepInv == StartupInv /\ [Next]_vars => StartupInv'
BY ConfigureStep, AddExplicitStep, ExplicitDoneStep, PageStep, PageFailsStep, AppearStep,
   DisappearStep, RegisterStep, OtherStep
   DEF Next, StartupStep, Ended

\* The inductive invariant of the start.
THEOREM StartupSafe == Spec => []StartupInv
BY StartupInitInv, StartupStepInv, PTL DEF Spec

\* Type correctness of Startup.
THEOREM StartupTypes == Spec => []TypeOK
<1>1. StartupInv => TypeOK
  BY DEF StartupInv
<1>. QED  BY <1>1, StartupSafe, PTL

\* However the listings shift, no project is tracked twice.
THEOREM ProjectsAreTrackedOnce == Spec => []ProjectsOnce
<1>1. StartupInv => ProjectsOnce
  BY DEF StartupInv
<1>. QED  BY <1>1, StartupSafe, PTL

\* A wildcard whose pages all arrived has found what it had to find.
THEOREM CompletedWildcardsMissNothing == Spec => []WildcardsAreComplete
<1>1. StartupInv => WildcardsAreComplete
  BY DEF StartupInv
<1>. QED  BY <1>1, StartupSafe, PTL

\* The command line wins over file, environment and defaults.
THEOREM CommandLineIsObeyed == Spec => []CommandLineWins
<1>1. StartupInv => CommandLineWins
  BY DEF StartupInv
<1>. QED  BY <1>1, StartupSafe, PTL

\* Whatever GitLab supports and the sources say, the program never registers
\* dora, value_stream or code_review.
THEOREM GatedNeverRegistered == Spec => []GatedAreOut
<1>1. StartupInv => GatedAreOut
  BY DEF StartupInv
<1>. QED  BY <1>1, StartupSafe, PTL

-----------------------------------------------------------------------------
(* What a running exporter has been started with                           *)

\* All entries that have been read are in the list, and something is when the
\* discovery is over.
ListInv ==
    /\ pc \in {"main", "client", "store"} => next = 1
    /\ pc = "explicit" => \A i \in DOMAIN Explicit : i < next => Explicit[i] \in Tracked
    /\ pc \in {"wildcards", "register", "running"} => Elements(Explicit) \subseteq Tracked
    /\ pc \in {"register", "running"} => Tracked # {}

\* The page that is read takes nothing from the list.
LEMMA PageTracked ==
  ASSUME StartupInv, ReadPage
  PROVE  Tracked \subseteq Tracked'
<1>. DEFINE new == Page(Matched, page, PageSize) \ Tracked
<1>1. /\ projects \in Seq(Projects) /\ ProjectsOnce
      /\ Matched \subseteq Projects /\ IsFiniteSet(Matched)
  BY MatchingFacts DEF StartupInv, TypeOK, Matched
<1>2. new \subseteq Matched /\ IsFiniteSet(new)
  <2>1. new \subseteq Matched
    BY DEF Page
  <2>. QED  BY <2>1, <1>1, FS_Subset, new \in SUBSET Matched
<1>. HIDE DEF new
<1>3. PICK q \in NewestFirst(new) : projects' = projects \o q
  BY DEF ReadPage, AppendPage, new
<1>4. q \in Seq(new) /\ q \in Seq(Projects) /\ Elements(q) \subseteq new
  <2>1. q \in Seq(new)
    BY <1>2, <1>3, NewestFirstShape
  <2>2. q \in Seq(Projects)
    BY <2>1, <1>1, <1>2, SeqMonotonic
  <2>. QED  BY <2>1, <2>2, LenProperties DEF Elements
<1>5. Tracked' = Tracked \cup Elements(q)
  <2>1. OnceIn(projects) /\ Tracked = Elements(projects) /\ Tracked' = Elements(projects')
    BY <1>1 DEF OnceIn, ProjectsOnce, Tracked, Elements
  <2>2. OnceIn(q)
    BY <1>2, <1>3, NewestFirstShape DEF OnceIn
  <2>3. Elements(projects) \cap Elements(q) = {}
    BY <2>1, <1>4 DEF new
  <2>. QED  BY <2>1, <2>2, <2>3, <1>1, <1>3, <1>4, AppendingNew
<1>. QED  BY <1>5

\* An entry adds itself, unless it is there.
LEMMA EntryTracked ==
  ASSUME StartupInv, AddExplicit
  PROVE  Tracked' = Tracked \cup {Explicit[next]}
<1>1. CASE Explicit[next] \in Tracked
  BY <1>1 DEF AddExplicit, Tracked
<1>2. CASE Explicit[next] \notin Tracked
  <2>. DEFINE p == Explicit[next]
  <2>1. projects \in Seq(Projects) /\ p \in Projects
    BY SourceFacts, LenProperties DEF AddExplicit, StartupInv, TypeOK
  <2>2. projects' = Append(projects, p)
    BY <1>2 DEF AddExplicit
  <2>. HIDE DEF p
  <2>3. /\ DOMAIN projects = 1..Len(projects) /\ Len(projects) \in Nat
        /\ DOMAIN projects' = 1..(Len(projects) + 1)
        /\ \A i \in 1..Len(projects) : projects'[i] = projects[i]
        /\ projects'[Len(projects) + 1] = p
    BY <2>1, <2>2, LenProperties
  <2>. QED  BY <2>3 DEF Tracked, Elements, p
<1>. QED  BY <1>1, <1>2

LEMMA ListStep == StartupInv /\ ListInv /\ [Next]_vars => ListInv'
<1>. SUFFICES ASSUME StartupInv, ListInv, [Next]_vars  PROVE ListInv'
  OBVIOUS
<1>0. /\ next \in Nat \ {0} /\ Explicit \in Seq(Projects)
      /\ DOMAIN Explicit = 1..Len(Explicit) /\ Len(Explicit) \in Nat
  BY SourceFacts, LenProperties DEF StartupInv, TypeOK
<1>1. CASE AddExplicit
  <2>1. /\ pc = "explicit" /\ pc' = pc /\ src' = src /\ next' = next + 1
        /\ next \in DOMAIN Explicit
    BY <1>1 DEF AddExplicit
  <2>2. Tracked' = Tracked \cup {Explicit[next]}
    BY <1>1, EntryTracked
  <2>3. Explicit' = Explicit
    BY <2>1 DEF Explicit
  <2>4. \A i \in DOMAIN Explicit : i < next + 1 => Explicit[i] \in Tracked'
    BY <1>0, <2>1, <2>2 DEF ListInv
  <2>. QED  BY <2>1, <2>3, <2>4 DEF ListInv
<1>2. CASE ReadPage
  <2>1. pc = "wildcards" /\ pc' = pc /\ src' = src
    BY <1>2 DEF ReadPage
  <2>2. Tracked \subseteq Tracked'
    BY <1>2, PageTracked
  <2>3. Elements(Explicit)' = Elements(Explicit)
    BY <2>1 DEF Explicit, Elements
  <2>. QED  BY <2>1, <2>2, <2>3 DEF ListInv
<1>3. CASE ~AddExplicit /\ ~ReadPage
  <2>1. UNCHANGED <<src, projects>>
    BY <1>3 DEF Next, StartupStep, Configure, ConfigureFails, NewClient, NewClientFails,
       OpenStore, OpenStoreFails, ExplicitDone, Discovered, NothingDiscovered,
       RegisterCollectors, PageFails, Expire, Signal, Appear, Disappear, Ended, vars, discovery
  <2>2. /\ Tracked' = Tracked /\ Explicit' = Explicit
        /\ Elements(Explicit)' = Elements(Explicit)
    BY <2>1 DEF Tracked, Explicit, Elements
  <2>3. CASE ExplicitDone
    <3>1. pc = "explicit" /\ pc' = "wildcards" /\ next \notin DOMAIN Explicit
      BY <2>3 DEF ExplicitDone
    <3>2. \A i \in DOMAIN Explicit : i < next
      BY <1>0, <3>1
    <3>3. Elements(Explicit) \subseteq Tracked
      BY <3>1, <3>2 DEF ListInv, Elements
    <3>. QED  BY <2>2, <3>1, <3>3 DEF ListInv
  <2>4. CASE Discovered
    <3>1. pc = "wildcards" /\ pc' = "register" /\ projects # <<>>
      BY <2>4 DEF Discovered
    <3>2. Tracked # {}
      <4>1. projects \in Seq(Projects)
        BY DEF StartupInv, TypeOK
      <4>2. Len(projects) \in Nat /\ Len(projects) # 0 /\ DOMAIN projects = 1..Len(projects)
        BY <3>1, <4>1, LenProperties, EmptySeq
      <4>3. 1 \in DOMAIN projects
        BY <4>2
      <4>4. projects[1] \in Tracked
        BY <4>3 DEF Tracked, Elements
      <4>. QED  BY <4>4
    <3>. QED  BY <2>2, <3>1, <3>2 DEF ListInv
  <2>5. CASE OpenStore
    <3>1. pc = "store" /\ pc' = "explicit" /\ next' = next
      BY <2>5 DEF OpenStore, discovery
    <3>2. \A i \in DOMAIN Explicit : ~(i < 1)
      BY <1>0
    <3>. QED  BY <2>2, <3>1, <3>2 DEF ListInv
  <2>6. CASE ~ExplicitDone /\ ~Discovered /\ ~OpenStore
    <3>1. /\ pc' \in {"main", "client", "store"} =>
                pc \in {"main", "client", "store"} /\ next' = next
          /\ pc' = "explicit" => pc = "explicit" /\ next' = next
          /\ pc' \in {"wildcards", "register", "running"} =>
                pc \in {"wildcards", "register", "running"}
          /\ pc' \in {"register", "running"} => pc \in {"register", "running"}
      BY <1>3, <2>6 DEF Next, StartupStep, Configure, ConfigureFails, NewClient, NewClientFails,
         OpenStoreFails, NothingDiscovered, RegisterCollectors, PageFails, Expire, Signal,
         Appear, Disappear, Ended, vars, discovery
    <3>. QED  BY <2>2, <3>1 DEF ListInv
  <2>. QED  BY <2>3, <2>4, <2>5, <2>6
<1>. QED  BY <1>1, <1>2, <1>3

LEMMA ListSafe == Spec => []ListInv
<1>1. Init => ListInv
  BY DEF Init, ListInv, Tracked, Elements
<1>. QED  BY <1>1, ListStep, StartupSafe, PTL DEF Spec

\* A running exporter tracks something and every explicit entry, whatever the
\* wildcards failed to give.
THEOREM EntriesAreAlwaysTracked == Spec => []EntriesAreTracked
<1>1. ListInv => EntriesAreTracked
  BY DEF ListInv, EntriesAreTracked
<1>. QED  BY <1>1, ListSafe, PTL

\* The page that is asked for is the first, or begins within the number of
\* projects that there are.
PagesAreBounded == page = 1 \/ (page - 1) * PageSize < Cardinality(Projects)

\* A wildcard costs no more requests than it takes to list every project that
\* can exist, however the listing grows, shrinks and shifts while it is read.
THEOREM WildcardsCostBounded == Spec => []PagesAreBounded
<1>1. Init => PagesAreBounded
  BY DEF Init, PagesAreBounded
<1>2. StartupInv /\ PagesAreBounded /\ [Next]_vars => PagesAreBounded'
  <2>. SUFFICES ASSUME StartupInv, PagesAreBounded, [Next]_vars  PROVE PagesAreBounded'
    OBVIOUS
  <2>1. page' \in {page, 1} \/ (page' = page + 1 /\ HasNextPage(Matched, page, PageSize))
    BY DEF Next, StartupStep, Configure, ConfigureFails, NewClient, NewClientFails, OpenStore,
       OpenStoreFails, AddExplicit, ExplicitDone, BeginWildcard, Discovered, NothingDiscovered,
       RegisterCollectors, ReadPage, NextPage, PageFails, Expire, Signal, Appear, Disappear,
       Ended, vars, discovery
  <2>2. CASE page' = page + 1 /\ HasNextPage(Matched, page, PageSize)
    <3>1. /\ Matched \in SUBSET Projects /\ IsFiniteSet(Projects)
          /\ page \in Nat /\ PageSize \in Nat
      BY MatchingFacts, StartupAssumption DEF StartupInv, TypeOK, Matched
    <3>2. /\ Cardinality(Matched) <= Cardinality(Projects)
          /\ Cardinality(Matched) \in Nat /\ Cardinality(Projects) \in Nat
      BY <3>1, FS_Subset, FS_CardinalityType
    <3>3. page * PageSize < Cardinality(Matched) /\ page * PageSize \in Nat
      BY <2>2, <3>1, <3>2 DEF HasNextPage
    <3>4. (page' - 1) * PageSize = page * PageSize
      BY <2>2, <3>1
    <3>. QED  BY <3>2, <3>3, <3>4 DEF PagesAreBounded
  <2>3. CASE page' \in {page, 1}
    BY <2>3 DEF PagesAreBounded
  <2>. QED  BY <2>1, <2>2, <2>3
<1>. QED  BY <1>1, <1>2, StartupSafe, PTL DEF Spec
=============================================================================
