----------------------------- MODULE SyncProofs -----------------------------
(***************************************************************************)
(* The promises of a directory that synchronises with a project: for any   *)
(* set of paths, any number of edits and faults, and every kind of it.     *)
(***************************************************************************)
EXTENDS Sync, FiniteSetTheorems, WellFoundedInduction, TLAPS

-----------------------------------------------------------------------------
(* Naturals and bounded sets of them *)

\* A non-empty set of naturals has a least one.
LEMMA Least ==
    ASSUME NEW S \in SUBSET Nat, S # {}
    PROVE  \E x \in S : \A y \in S : x <= y
  <1>1. PICK R : R = OpToRel(<, Nat)
    OBVIOUS
  <1>2. IsWellFoundedOn(R, Nat)
    BY <1>1, NatLessThanWellFounded
  <1>3. \A x, y \in Nat : y < x => <<y, x>> \in R
    BY <1>1 DEF OpToRel
  <1>4. PICK x \in S : \A y \in S : ~ (<<y, x>> \in R)
    BY <1>2, WFMin
  <1>5. \A y \in S : ~ (y < x)
    BY <1>3, <1>4
  <1>. QED
    BY <1>5

\* Min of a non-empty set of naturals is one of them.
LEMMA MinIn ==
    ASSUME NEW S \in SUBSET Nat, S # {}
    PROVE  Min(S) \in S
  <1>1. \E x \in S : \A y \in S : x =< y
    BY Least
  <1>. QED
    BY <1>1 DEF Min

\* Max of a non-empty set of naturals with a bound is the greatest of them.
LEMMA MaxIn ==
    ASSUME NEW n \in Nat, NEW S \in SUBSET (0..n), S # {}
    PROVE  Max(S) \in S /\ \A y \in S : y <= Max(S)
  <1> DEFINE T == {m \in Nat : \A y \in S : y <= m}
  <1>1. T \in SUBSET Nat /\ n \in T
    OBVIOUS
  <1>2. PICK m \in T : \A y \in T : m <= y
    BY <1>1, Least
  <1>3. m \in S
    <2>. SUFFICES ASSUME m \notin S PROVE FALSE
      OBVIOUS
    <2>1. \A y \in S : y <= m - 1 /\ m - 1 \in Nat
      BY <1>2
    <2>2. m - 1 \in T
      BY <2>1
    <2>. QED
      BY <1>2, <2>2
  <1>4. \E x \in S : \A y \in S : x >= y
    BY <1>2, <1>3
  <1>. QED
    BY <1>4 DEF Max

\* The later of two naturals is a natural.
LEMMA MaxOfTwo ==
    ASSUME NEW a \in Nat, NEW b \in Nat
    PROVE  Max({a, b}) \in Nat
  <1>1. \E x \in {a, b} : \A y \in {a, b} : x >= y
    OBVIOUS
  <1>. QED
    BY <1>1 DEF Max

-----------------------------------------------------------------------------
(* The chain of commits a fetch builds *)

Trees == [Paths -> Nat]
CommitRecs == [tree : Trees, label : Nat, past : SUBSET Nat]

\* A repository: what a commit reaches was made before it, and is closed.
Grown(list) ==
    /\ list \in Seq(CommitRecs)
    /\ \A c \in 1..Len(list) :
         /\ list[c].past \subseteq 1..(c - 1)
         /\ \A d \in list[c].past : list[d].past \subseteq list[c].past

Extends(a, b) == Len(a) <= Len(b) /\ \A c \in 1..Len(a) : b[c] = a[c]

\* From a commit on, or from the beginning.
After(list, a, c) == a = 0 \/ a \in Reach(list, c)

\* What a chain keeps of the repository, the tip and the paths it started with.
Chaining(chain, list, tip, known) ==
    /\ chain \in [list : Seq(CommitRecs), tip : Nat, new : Nat, known : SUBSET Paths]
    /\ Grown(chain.list)
    /\ chain.tip <= Len(chain.list)
    /\ Extends(list, chain.list)
    /\ After(chain.list, tip, chain.tip)
    /\ known \subseteq chain.known

\* A commit's place in a repository.
LEMMA InRepository ==
    ASSUME NEW list, Grown(list), NEW c \in 1..Len(list)
    PROVE  /\ list[c] \in CommitRecs /\ list[c].tree \in Trees /\ list[c].past \subseteq 1..Len(list)
           /\ Reach(list, c) = {c} \cup list[c].past
           /\ Reach(list, c) \subseteq 1..Len(list)
  <1>1. Len(list) \in Nat /\ DOMAIN list = 1..Len(list) /\ list[c] \in CommitRecs
    BY DEF Grown
  <1>2. list[c].past \subseteq 1..(c - 1)
    BY DEF Grown
  <1>3. list[c].past \subseteq 1..Len(list)
    BY <1>1, <1>2
  <1>4. list[c].tree \in Trees
    BY <1>1 DEF CommitRecs
  <1>5. Reach(list, c) = {c} \cup list[c].past
    BY DEF Reach
  <1>. QED
    BY <1>1, <1>3, <1>4, <1>5

\* Reaching is transitive.
LEMMA ReachReach ==
    ASSUME NEW list, Grown(list), NEW c \in 0..Len(list), NEW d \in Reach(list, c)
    PROVE  c # 0 /\ d \in 1..Len(list) /\ Reach(list, d) \subseteq Reach(list, c)
  <1>1. c \in 1..Len(list)
    BY DEF Reach, Grown
  <1>2. d \in {c} \cup list[c].past /\ d \in 1..Len(list)
    BY <1>1, InRepository
  <1>3. list[d].past \subseteq list[c].past
    BY <1>1, <1>2 DEF Grown
  <1>4. Reach(list, d) = {d} \cup list[d].past /\ Reach(list, c) = {c} \cup list[c].past
    BY <1>1, <1>2, InRepository
  <1>. QED
    BY <1>1, <1>2, <1>3, <1>4

\* Nothing a commit reaches changes as the repository grows.
LEMMA ExtendsReach ==
    ASSUME NEW a, NEW b, Grown(a), Grown(b), Extends(a, b), NEW c \in 0..Len(a)
    PROVE  /\ c \in 0..Len(b)
           /\ Reach(b, c) = Reach(a, c) /\ TreeOf(b, c) = TreeOf(a, c)
  <1>1. Len(a) \in Nat /\ Len(b) \in Nat /\ Len(a) <= Len(b)
    BY DEF Grown, Extends
  <1>2. c # 0 => b[c] = a[c]
    BY <1>1 DEF Extends
  <1>3. c \in 0..Len(b)
    BY <1>1
  <1>4. CASE c = 0
    BY <1>3, <1>4 DEF Reach, TreeOf
  <1>5. CASE c # 0
    BY <1>2, <1>3, <1>5 DEF Reach, TreeOf
  <1>. QED
    BY <1>4, <1>5

\* A repository extends what it extended before it grew.
LEMMA ExtendsTrans ==
    ASSUME NEW a, NEW b, NEW c, Grown(a), Grown(b), Grown(c), Extends(a, b), Extends(b, c)
    PROVE  Extends(a, c)
  <1>1. Len(a) \in Nat /\ Len(b) \in Nat /\ Len(c) \in Nat
    BY DEF Grown
  <1>. QED
    BY <1>1 DEF Extends

\* A new commit, on commits of the repository.
Made(list, parents, tree, label) ==
    [tree |-> tree, label |-> label,
     past |-> parents \cup UNION {list[c].past : c \in parents}]

\* It reaches what its parents reach, and changes nothing before it.
LEMMA AppendGrows ==
    ASSUME NEW list, Grown(list), NEW parents \in SUBSET (1..Len(list)),
           NEW tree \in Trees, NEW label \in Nat
    PROVE  /\ Made(list, parents, tree, label) \in CommitRecs
           /\ Grown(Append(list, Made(list, parents, tree, label)))
           /\ Extends(list, Append(list, Made(list, parents, tree, label)))
           /\ Len(Append(list, Made(list, parents, tree, label))) = Len(list) + 1
           /\ Append(list, Made(list, parents, tree, label))[Len(list) + 1]
                = Made(list, parents, tree, label)
           /\ Reach(Append(list, Made(list, parents, tree, label)), Len(list) + 1)
                = {Len(list) + 1} \cup UNION {Reach(list, c) : c \in parents}
  <1> DEFINE commit == [tree |-> tree, label |-> label,
                        past |-> parents \cup UNION {list[c].past : c \in parents}]
             next == Append(list, commit)
             n == Len(list) + 1
  <1>1. list \in Seq(CommitRecs) /\ Len(list) \in Nat
    BY DEF Grown
  <1>2. \A c \in parents : /\ c \in 1..Len(list) /\ list[c].past \subseteq 1..Len(list)
                           /\ Reach(list, c) = {c} \cup list[c].past
    BY InRepository
  <1>3. commit.past \subseteq 1..Len(list)
    BY <1>2
  <1>4. commit \in CommitRecs
    <2>1. commit.past \subseteq Nat
      BY <1>1, <1>3
    <2>. QED
      BY <2>1 DEF CommitRecs
  <1>5. next \in Seq(CommitRecs) /\ Len(next) = n /\ next[n] = commit
    BY <1>1, <1>4
  <1>6. \A c \in 1..Len(list) : next[c] = list[c]
    BY <1>1, <1>4
  <1>7. Extends(list, next)
    BY <1>1, <1>5, <1>6 DEF Extends
  <1>8. \A d \in commit.past : list[d].past \subseteq commit.past
    <2>. SUFFICES ASSUME NEW d \in commit.past
                  PROVE  list[d].past \subseteq commit.past
      OBVIOUS
    <2>1. CASE d \in parents
      BY <2>1
    <2>2. CASE d \notin parents
      <3>1. PICK c \in parents : d \in list[c].past
        BY <2>2
      <3>2. list[d].past \subseteq list[c].past
        BY <1>2, <3>1 DEF Grown
      <3>. QED
        BY <3>1, <3>2
    <2>. QED
      BY <2>1, <2>2
  <1>9. Grown(next)
    <2>1. ASSUME NEW c \in 1..Len(next)
          PROVE  /\ next[c].past \subseteq 1..(c - 1)
                 /\ \A d \in next[c].past : next[d].past \subseteq next[c].past
      <3>1. CASE c = n
        <4>1. n - 1 = Len(list) /\ next[c] = commit
          BY <1>1, <1>5, <3>1
        <4>2. \A d \in commit.past : next[d] = list[d]
          BY <1>3, <1>6
        <4>. QED
          BY <1>3, <1>8, <3>1, <4>1, <4>2
      <3>2. CASE c # n
        <4>1. c \in 1..Len(list)
          BY <1>1, <1>5, <3>2
        <4>2. next[c] = list[c]
          BY <1>6, <4>1
        <4>3. list[c].past \subseteq 1..(c - 1) /\ \A d \in list[c].past : list[d].past \subseteq list[c].past
          BY <4>1 DEF Grown
        <4>4. \A d \in list[c].past : next[d] = list[d]
          BY <1>1, <1>6, <4>1, <4>3
        <4>. QED
          BY <4>2, <4>3, <4>4
      <3>. QED
        BY <3>1, <3>2
    <2>. QED
      BY <1>5, <2>1 DEF Grown
  <1>10. Reach(next, n) = {n} \cup commit.past
    BY <1>1, <1>5 DEF Reach
  <1>11. commit.past = UNION {Reach(list, c) : c \in parents}
    <2>1. \A d : d \in commit.past <=> \E c \in parents : d = c \/ d \in list[c].past
      OBVIOUS
    <2>2. \A d : d \in commit.past <=> \E c \in parents : d \in Reach(list, c)
      BY <1>2, <2>1
    <2>. QED
      BY <2>2
  <1>12. Made(list, parents, tree, label) = commit
    BY DEF Made
  <1>. HIDE DEF commit
  <1>. QED
    BY <1>4, <1>5, <1>7, <1>9, <1>10, <1>11, <1>12

\* The tree of a commit, or none.
LEMMA TreeOfIn ==
    ASSUME NEW list, Grown(list), NEW c \in 0..Len(list)
    PROVE  TreeOf(list, c) \in Trees
  <1>1. CASE c = 0
    BY <1>1 DEF TreeOf, Empty, Absent, Trees
  <1>2. CASE c # 0
    <2>1. c \in 1..Len(list)
      BY <1>2 DEF Grown
    <2>. QED
      BY <1>2, <2>1, InRepository DEF TreeOf
  <1>. QED
    BY <1>1, <1>2

\* The files of a version over a tree make a tree.
LEMMA OverlayIn ==
    ASSUME NEW base \in Trees, NEW files \in Trees, NEW known
    PROVE  /\ Overlay(base, files, known) \in Trees
           /\ \A p \in Paths : files[p] # Absent \/ p \in known => Overlay(base, files, known)[p] = files[p]
  BY DEF Overlay, Trees

\* A version goes on the chain: nothing of it changes, and it reaches the tip.
LEMMA ChainedKeeps ==
    ASSUME NEW list, Grown(list), NEW first, NEW known, NEW chain, Chaining(chain, list, first, known),
           NEW files \in Trees, NEW label \in Nat, NEW own \in 0..Len(chain.list), NEW skip \in BOOLEAN
    PROVE  /\ Chaining(Chained(chain, files, label, own, skip), list, first, known)
           /\ ~skip => Chained(chain, files, label, own, skip).new = chain.new + 1
  <1> DEFINE l == chain.list
             tip == chain.tip
             onto == own = 0 \/ IsAncestor(l, own, tip)
             base == IF onto THEN tip ELSE own
             parents == (IF onto THEN {tip}
                         ELSE IF IsAncestor(l, tip, own) THEN {own} ELSE {tip, own}) \ {0}
             tree == Overlay(TreeOf(l, base), files, chain.known)
             commit == [tree |-> tree, label |-> label,
                        past |-> parents \cup UNION {l[c].past : c \in parents}]
             same == {c \in DOMAIN l : l[c] = commit}
             placed == IF parents = {own} /\ TreeOf(l, own) = tree
                       THEN [list |-> l, tip |-> own]
                       ELSE IF label # 0 /\ same # {}
                       THEN [list |-> l, tip |-> Max(same)]
                       ELSE [list |-> Append(l, commit), tip |-> Len(l) + 1]
             grown == [list |-> placed.list, tip |-> placed.tip, new |-> chain.new + 1,
                       known |-> chain.known \cup Present(files)]
  <1>1. /\ Grown(l) /\ tip \in 0..Len(l) /\ Len(l) \in Nat /\ chain.new \in Nat /\ chain.known \subseteq Paths
        /\ Extends(list, l) /\ After(l, first, tip) /\ known \subseteq chain.known
    BY DEF Chaining, Grown
  <1>2. parents \subseteq 1..Len(l) /\ base \in 0..Len(l)
    BY <1>1
  <1>3. tree \in Trees
    BY <1>1, <1>2, TreeOfIn, OverlayIn
  <1>4. \A c \in 1..Len(l) : Reach(l, c) = {c} \cup l[c].past
    BY <1>1, InRepository
  <1>5. /\ commit \in CommitRecs
        /\ Grown(Append(l, commit)) /\ Extends(l, Append(l, commit))
        /\ Len(Append(l, commit)) = Len(l) + 1
        /\ Append(l, commit)[Len(l) + 1] = commit
    <2>1. parents \in SUBSET (1..Len(l))
      BY <1>2
    <2>2. commit = Made(l, parents, tree, label)
      BY DEF Made
    <2>. HIDE DEF parents, tree, l, commit
    <2>. QED
      BY <1>1, <1>3, <2>1, <2>2, AppendGrows
  <1>6. tip = 0 \/ (tip = own /\ parents = {own}) \/ tip \in commit.past
    <2>0. CASE tip = 0
      BY <2>0
    <2>1. CASE tip \in parents
      BY <2>1
    <2>2. CASE tip # 0 /\ tip \notin parents
      <3>1. ~onto /\ IsAncestor(l, tip, own) /\ parents = {own}
        BY <1>1, <2>2
      <3>2. own \in 1..Len(l) /\ tip \in {own} \cup l[own].past
        BY <1>1, <1>4, <3>1 DEF IsAncestor
      <3>3. l[own].past \subseteq commit.past
        BY <3>1
      <3>. QED
        BY <3>1, <3>2, <3>3
    <2>. QED
      BY <2>0, <2>1, <2>2
  <1>. HIDE DEF commit, tree, base
  <1>7. /\ Grown(placed.list) /\ placed.tip \in 0..Len(placed.list) /\ Extends(l, placed.list)
        /\ After(placed.list, tip, placed.tip)
    <2>0. Extends(l, l)
      BY <1>1 DEF Extends
    <2>1. CASE parents = {own} /\ TreeOf(l, own) = tree
      <3>1. placed.list = l /\ placed.tip = own
        BY <2>1
      <3>2. own # 0 /\ own \in 1..Len(l)
        BY <1>1, <2>1
      <3>3. tip = 0 \/ tip \in Reach(l, own)
        <4>1. CASE onto
          BY <1>1, <1>4, <2>1, <3>2, <4>1
        <4>2. CASE ~onto /\ ~IsAncestor(l, tip, own)
          <5>1. tip = 0 \/ tip = own
            BY <1>1, <2>1, <4>2
          <5>2. tip = own /\ tip # 0 => IsAncestor(l, own, tip)
            BY DEF IsAncestor, Reach
          <5>. QED
            BY <4>2, <5>1, <5>2
        <4>3. CASE ~onto /\ IsAncestor(l, tip, own)
          BY <4>3 DEF IsAncestor
        <4>. QED
          BY <4>1, <4>2, <4>3
      <3>. QED
        BY <1>1, <2>0, <3>1, <3>2, <3>3 DEF After
    <2>2. CASE ~(parents = {own} /\ TreeOf(l, own) = tree) /\ label # 0 /\ same # {}
      <3>1. placed.list = l /\ placed.tip = Max(same)
        BY <2>2
      <3>. HIDE DEF placed
      <3>2. DOMAIN l = 1..Len(l)
        BY <1>1 DEF Grown
      <3>3. Max(same) \in same
        <4>1. same \in SUBSET (0..Len(l))
          BY <3>2
        <4>. QED
          BY <1>1, <2>2, <4>1, MaxIn
      <3>4. Max(same) \in 1..Len(l) /\ l[Max(same)] = commit
        BY <3>2, <3>3
      <3>5. tip = 0 \/ tip = Max(same) \/ tip \in commit.past
        <4>1. CASE tip = own /\ parents = {own} /\ tip # 0
          <5>1. own \in commit.past
            BY <4>1 DEF commit
          <5>. QED
            BY <4>1, <5>1
        <4>. QED
          BY <1>6, <4>1
      <3>6. Reach(l, Max(same)) = {Max(same)} \cup commit.past
        BY <1>4, <3>4
      <3>. QED
        BY <1>1, <2>0, <3>1, <3>4, <3>5, <3>6 DEF After
    <2>3. CASE ~(parents = {own} /\ TreeOf(l, own) = tree) /\ ~(label # 0 /\ same # {})
      <3>1. placed.list = Append(l, commit) /\ placed.tip = Len(l) + 1
        BY <2>3
      <3>. HIDE DEF placed
      <3>2. Len(l) + 1 \in 1..Len(Append(l, commit))
        BY <1>1, <1>5
      <3>3. Reach(Append(l, commit), Len(l) + 1) = {Len(l) + 1} \cup commit.past
        <4>1. Reach(Append(l, commit), Len(l) + 1)
                = {Len(l) + 1} \cup Append(l, commit)[Len(l) + 1].past
          BY <1>5, <3>2, InRepository
        <4>. QED
          BY <1>5, <4>1
      <3>4. tip = 0 \/ tip \in commit.past
        <4>1. CASE tip = own /\ parents = {own} /\ tip # 0
          BY <4>1 DEF commit
        <4>. QED
          BY <1>6, <4>1
      <3>. QED
        BY <1>5, <3>1, <3>2, <3>3, <3>4 DEF After
    <2>. QED
      BY <2>1, <2>2, <2>3
  <1>. HIDE DEF placed
  <1>8. Chaining(grown, list, first, known)
    <2>1. grown.list = placed.list /\ grown.tip = placed.tip
      OBVIOUS
    <2>2. Extends(list, placed.list)
      BY <1>1, <1>7, ExtendsTrans
    <2>3. After(placed.list, first, placed.tip)
      <3>1. CASE first = 0
        BY <3>1 DEF After
      <3>2. CASE first # 0
        <4>1. first \in Reach(l, tip)
          BY <1>1, <3>2 DEF After
        <4>2. tip # 0 /\ first \in Reach(placed.list, tip)
          BY <1>1, <1>7, <4>1, ReachReach, ExtendsReach
        <4>3. tip \in Reach(placed.list, placed.tip)
          BY <1>7, <4>2 DEF After
        <4>4. first \in Reach(placed.list, placed.tip)
          BY <1>7, <4>2, <4>3, ReachReach
        <4>. QED
          BY <4>4 DEF After
      <3>. QED
        BY <3>1, <3>2
    <2>4. grown \in [list : Seq(CommitRecs), tip : Nat, new : Nat, known : SUBSET Paths]
      <3>1. placed.list \in Seq(CommitRecs) /\ placed.tip \in Nat /\ chain.new + 1 \in Nat
        BY <1>1, <1>7 DEF Grown
      <3>2. chain.known \cup Present(files) \subseteq Paths
        BY <1>1 DEF Present
      <3>. QED
        BY <3>1, <3>2
    <2>5. placed.tip <= Len(placed.list)
      BY <1>7 DEF Grown
    <2>6. known \subseteq grown.known
      BY <1>1
    <2>. HIDE DEF grown
    <2>. QED
      BY <1>7, <2>1, <2>2, <2>3, <2>4, <2>5, <2>6 DEF Chaining
  <1>9. grown.new = chain.new + 1
    OBVIOUS
  <1>10. Chained(chain, files, label, own, skip)
           = IF skip /\ tip # 0 /\ TreeOf(l, tip) = tree THEN chain ELSE grown
    BY DEF Chained, placed, commit, tree, base
  <1>. HIDE DEF grown
  <1>. QED
    BY <1>8, <1>9, <1>10

\* A named version always goes on.
NamedOn(chain, files, label, own) == Chained(chain, files, label, own, FALSE)

\* A named version makes one commit, and the chain stays well formed.
LEMMA ChainedNamed ==
    ASSUME NEW list, Grown(list), NEW first, NEW known, NEW chain, Chaining(chain, list, first, known),
           NEW files \in Trees, NEW label \in Nat, NEW own \in 0..Len(chain.list)
    PROVE  /\ Chaining(NamedOn(chain, files, label, own), list, first, known)
           /\ NamedOn(chain, files, label, own).new = chain.new + 1
  <1>1. \A skip \in BOOLEAN :
          /\ Chaining(Chained(chain, files, label, own, skip), list, first, known)
          /\ ~skip => Chained(chain, files, label, own, skip).new = chain.new + 1
    BY ChainedKeeps
  <1>. QED
    BY <1>1 DEF NamedOn

\* The history as the project keeps it, and as a fetch holds it.
LabelRecs == [key : Nat, tree : Trees, named : BOOLEAN]
Numbers == {s \in SUBSET (Nat \ {0}) : \E n \in Nat : s \subseteq 0..n}
Histories == UNION {[s -> LabelRecs] : s \in Numbers}

\* The table a walk is read from.
IsTable(f, last, start, versions, st) ==
    f = [n \in 0..last |-> IF n = 0 THEN start ELSE Walked(f[n - 1], n, versions, st)]

\* A walk is defined: the table exists, line after line.
LEMMA WalkTable ==
    ASSUME NEW start, NEW versions, NEW st, NEW last \in Nat
    PROVE  \E f : IsTable(f, last, start, versions, st)
  <1> DEFINE Table(f, m) == f = [n \in 0..m |-> IF n = 0 THEN start ELSE Walked(f[n - 1], n, versions, st)]
             Bad == {m \in Nat : ~\E f : Table(f, m)}
  <1>0. \A f : IsTable(f, last, start, versions, st) = Table(f, last)
    BY DEF IsTable
  <1>. SUFFICES ASSUME Bad # {} PROVE FALSE
    <2>. HIDE DEF Table
    <2>. QED
      BY <1>0
  <1>1. PICK m \in Bad : \A k \in Bad : m <= k
    <2>. HIDE DEF Table
    <2>1. Bad \in SUBSET Nat
      OBVIOUS
    <2>. HIDE DEF Bad
    <2>. QED
      BY <2>1, Least
  <1>2. m # 0
    <2>1. Table([n \in 0..0 |-> start], 0)
      OBVIOUS
    <2>. HIDE DEF Table
    <2>. QED
      BY <2>1
  <1>3. m - 1 \in Nat /\ m - 1 \notin Bad
    <2>. HIDE DEF Table
    <2>. QED
      BY <1>1, <1>2
  <1>4. PICK f : Table(f, m - 1)
    <2>. HIDE DEF Table
    <2>. QED
      BY <1>3
  <1> DEFINE g == [n \in 0..m |-> IF n = 0 THEN start ELSE Walked(f[n - 1], n, versions, st)]
  <1>5. \A n \in 0..(m - 1) : g[n] = f[n]
    BY <1>3, <1>4
  <1>6. Table(g, m)
    <2>1. \A n \in 0..m : n # 0 => g[n - 1] = f[n - 1]
      <3>. HIDE DEF g
      <3>1. \A n \in 0..m : n # 0 => n - 1 \in 0..(m - 1)
        OBVIOUS
      <3>. QED
        BY <1>5, <3>1
    <2>2. g = [n \in 0..m |-> IF n = 0 THEN start ELSE Walked(g[n - 1], n, versions, st)]
      <3>. HIDE DEF g
      <3>1. g = [n \in 0..m |-> IF n = 0 THEN start ELSE Walked(f[n - 1], n, versions, st)]
        BY DEF g
      <3>. QED
        BY <2>1, <3>1
    <2>. QED
      BY <2>2
  <1>. QED
    <2>. HIDE DEF Table, g
    <2>. QED
      BY <1>1, <1>6

\* A walk, version by version.
LEMMA WalkSteps ==
    ASSUME NEW start, NEW versions, NEW st,
           Max({0} \cup DOMAIN versions) \in Nat
    PROVE  \E f : /\ f[0] = start
                  /\ \A n \in 1..Max({0} \cup DOMAIN versions) : f[n] = Walked(f[n - 1], n, versions, st)
                  /\ Walk(start, versions, st) = f[Max({0} \cup DOMAIN versions)]
  <1> DEFINE last == Max({0} \cup DOMAIN versions)
             f == CHOOSE g : g = [n \in 0..last |-> IF n = 0 THEN start ELSE Walked(g[n - 1], n, versions, st)]
  <1>1. Walk(start, versions, st) = f[last]
    BY DEF Walk
  <1>. HIDE DEF last
  <1>2. f = [n \in 0..last |-> IF n = 0 THEN start ELSE Walked(f[n - 1], n, versions, st)]
    <2>1. last \in Nat
      BY DEF last
    <2>2. \E g : g = [n \in 0..last |-> IF n = 0 THEN start ELSE Walked(g[n - 1], n, versions, st)]
      <3>1. \E g : IsTable(g, last, start, versions, st)
        BY <2>1, WalkTable
      <3>. QED
        BY <3>1, Zenon DEF IsTable
    <2>. QED
      BY <2>2, Zenon
  <1>. HIDE DEF f
  <1>3. f[0] = start /\ \A n \in 1..last : f[n] = Walked(f[n - 1], n, versions, st)
    <2>1. last \in Nat
      BY DEF last
    <2>. QED
      BY <1>2, <2>1
  <1>. QED
    BY <1>1, <1>3 DEF last

\* The last number of a history, which its walk goes to.
LEMMA LastNumber ==
    ASSUME NEW versions \in Histories
    PROVE  /\ Max({0} \cup DOMAIN versions) \in Nat
           /\ DOMAIN versions \subseteq 1..Max({0} \cup DOMAIN versions)
           /\ \A n \in DOMAIN versions : versions[n] \in LabelRecs
  <1>1. PICK s \in Numbers : versions \in [s -> LabelRecs]
    BY DEF Histories
  <1>2. PICK n \in Nat : s \subseteq 0..n
    BY DEF Numbers
  <1>3. DOMAIN versions = s /\ \A m \in s : m \in Nat \ {0}
    BY <1>1 DEF Numbers
  <1>4. {0} \cup s \in SUBSET (0..n) /\ {0} \cup s # {}
    BY <1>2
  <1>5. Max({0} \cup s) \in {0} \cup s /\ \A m \in {0} \cup s : m <= Max({0} \cup s)
    BY <1>4, MaxIn
  <1>6. Max({0} \cup s) \in Nat
    BY <1>3, <1>5
  <1>7. \A m \in s : m \in 1..Max({0} \cup s)
    BY <1>3, <1>5, <1>6
  <1>. QED
    BY <1>1, <1>3, <1>6, <1>7

\* A commit this directory pushed a version from is one of its commits.
LEMMA OwnIn ==
    ASSUME NEW st, NEW n \in Nat, \A r \in st.pushed : r.commit \in 0..n, NEW label
    PROVE  OwnCommit(st, label) \in 0..n
  <1> DEFINE own == {r.commit : r \in {q \in st.pushed : q.key = label.key}}
  <1>1. own \in SUBSET (0..n)
    OBVIOUS
  <1>2. OwnCommit(st, label) = IF label.key = NoKey \/ own = {} THEN 0 ELSE Max(own)
    BY DEF OwnCommit
  <1>. HIDE DEF own
  <1>3. own # {} => Max(own) \in 0..n
    BY <1>1, MaxIn
  <1>. QED
    BY <1>2, <1>3

\* A walk keeps the chain; one that takes no version changes nothing.
LEMMA WalkKeeps ==
    ASSUME NEW start, NEW versions \in Histories, NEW st,
           NEW list, Grown(list), NEW first, NEW known, Chaining(start, list, first, known),
           \A r \in st.pushed : r.commit \in 0..Len(list),
           start.new = 0
    PROVE  /\ Chaining(Walk(start, versions, st), list, first, known)
           /\ Walk(start, versions, st).new = 0 => Walk(start, versions, st) = start /\ DOMAIN versions = {}
  <1> DEFINE last == Max({0} \cup DOMAIN versions)
  <1>1. /\ last \in Nat /\ DOMAIN versions \subseteq 1..last
        /\ \A n \in DOMAIN versions : versions[n] \in LabelRecs
    BY LastNumber
  <1>2. PICK f : /\ f[0] = start
                 /\ \A n \in 1..last : f[n] = Walked(f[n - 1], n, versions, st)
                 /\ Walk(start, versions, st) = f[last]
    BY <1>1, WalkSteps
  <1>. HIDE DEF last
  <1> DEFINE Fine(n) == /\ Chaining(f[n], list, first, known)
                        /\ \/ f[n].new = 0 /\ f[n] = start /\ \A k \in 1..n : k \notin DOMAIN versions
                           \/ f[n].new > 0
             Bad == {n \in Nat : n \in 0..last /\ ~Fine(n)}
  <1>3. Fine(0)
    BY <1>2
  <1>4. ASSUME NEW n \in 1..last, Fine(n - 1)
        PROVE  Fine(n)
    <2>1. n \in Nat /\ n - 1 \in Nat /\ n # 0
      BY <1>1
    <2>2. f[n] = Walked(f[n - 1], n, versions, st)
      BY <1>2
    <2>3. Chaining(f[n - 1], list, first, known) /\ f[n - 1].new \in Nat /\ Grown(f[n - 1].list)
      BY <1>4 DEF Chaining
    <2>4. CASE n \notin DOMAIN versions
      <3>1. f[n] = f[n - 1]
        BY <2>2, <2>4 DEF Walked
      <3>2. \A k \in 1..n : k = n \/ k \in 1..(n - 1)
        BY <2>1
      <3>. QED
        BY <1>4, <2>4, <3>1, <3>2
    <2>5. CASE n \in DOMAIN versions
      <3> DEFINE own == OwnCommit(st, versions[n])
      <3>1. f[n] = NamedOn(f[n - 1], versions[n].tree, n, own)
        BY <2>2, <2>5 DEF Walked, NamedOn
      <3>2. versions[n].tree \in Trees
        BY <1>1, <2>5 DEF LabelRecs
      <3>3. own \in 0..Len(f[n - 1].list)
        <4>1. Len(list) \in Nat /\ Len(f[n - 1].list) \in Nat /\ Len(list) <= Len(f[n - 1].list)
          BY <2>3 DEF Chaining, Extends, Grown
        <4>2. own \in 0..Len(list)
          BY <4>1, OwnIn
        <4>. QED
          BY <4>1, <4>2
      <3>. HIDE DEF own
      <3>4. /\ Chaining(f[n], list, first, known)
            /\ f[n].new = f[n - 1].new + 1
        BY <2>1, <2>3, <3>1, <3>2, <3>3, ChainedNamed
      <3>5. f[n].new > 0
        BY <2>3, <3>4
      <3>. QED
        BY <3>4, <3>5
    <2>. QED
      BY <2>4, <2>5
  <1>. HIDE DEF Fine
  <1>5. Bad = {}
    <2>. SUFFICES ASSUME Bad # {} PROVE FALSE
      OBVIOUS
    <2>1. Bad \in SUBSET Nat
      OBVIOUS
    <2>2. PICK m \in Bad : \A k \in Bad : m <= k
      BY <2>1, Least
    <2>3. m # 0 /\ m \in 1..last /\ m - 1 \in Nat /\ m - 1 \in 0..last
      BY <1>1, <1>3, <2>2
    <2>4. m - 1 \notin Bad
      BY <2>2, <2>3
    <2>5. Fine(m)
      BY <1>4, <2>3, <2>4
    <2>. QED
      BY <2>2, <2>5
  <1>6. Fine(last)
    BY <1>1, <1>5
  <1>7. \A n \in DOMAIN versions : n \in 1..last
    BY <1>1
  <1>8. f[last].new = 0 => f[last] = start /\ DOMAIN versions = {}
    BY <1>6, <1>7 DEF Fine
  <1>. QED
    BY <1>2, <1>6, <1>8 DEF Fine

\* The project as it stands goes on last, unless the tip shows it already.
StandsOn(chain, files) == Chained(chain, files, 0, 0, TRUE)

\* After the project as it stands, the tip holds the project's files.
LEMMA ChainedHead ==
    ASSUME NEW list, Grown(list), NEW first, NEW known, NEW chain, Chaining(chain, list, first, known),
           NEW files \in Trees
    PROVE  /\ Chaining(StandsOn(chain, files), list, first, known)
           /\ StandsOn(chain, files).tip # 0
           /\ StandsOn(chain, files).new = 0 => StandsOn(chain, files) = chain
           /\ \A p \in Paths : files[p] # Absent \/ p \in chain.known =>
                TreeOf(StandsOn(chain, files).list, StandsOn(chain, files).tip)[p] = files[p]
  <1> DEFINE l == chain.list
             tip == chain.tip
             tree == Overlay(TreeOf(l, tip), files, chain.known)
             commit == [tree |-> tree, label |-> 0,
                        past |-> ({tip} \ {0}) \cup UNION {l[c].past : c \in {tip} \ {0}}]
             grown == [list |-> Append(l, commit), tip |-> Len(l) + 1, new |-> chain.new + 1,
                       known |-> chain.known \cup Present(files)]
  <1>1. Grown(l) /\ tip \in 0..Len(l) /\ Len(l) \in Nat /\ chain.new \in Nat
    BY DEF Chaining, Grown
  <1>2. tree \in Trees /\ \A p \in Paths : files[p] # Absent \/ p \in chain.known => tree[p] = files[p]
    BY <1>1, TreeOfIn, OverlayIn
  <1>3. Chaining(StandsOn(chain, files), list, first, known)
    <2>1. \A skip \in BOOLEAN : Chaining(Chained(chain, files, 0, 0, skip), list, first, known)
      <3>1. 0 \in Nat /\ 0 \in 0..Len(l)
        BY <1>1
      <3>. QED
        BY <3>1, ChainedKeeps
    <2>. QED
      BY <2>1 DEF StandsOn
  <1>4. StandsOn(chain, files) = IF tip # 0 /\ TreeOf(l, tip) = tree THEN chain ELSE grown
    <2>1. ({tip} \ {0}) # {0}
      OBVIOUS
    <2>. HIDE DEF tree
    <2>. QED
      BY <2>1 DEF StandsOn, Chained, tree
  <1>5. CASE tip # 0 /\ TreeOf(l, tip) = tree
    <2>. HIDE DEF tree, grown
    <2>. QED
      BY <1>2, <1>3, <1>4, <1>5
  <1>6. CASE ~(tip # 0 /\ TreeOf(l, tip) = tree)
    <2>1. StandsOn(chain, files) = grown
      BY <1>4, <1>6
    <2>2. grown.new # 0 /\ grown.tip # 0 /\ grown.tip = Len(l) + 1 /\ grown.list = Append(l, commit)
      BY <1>1
    <2>3. Append(l, commit)[Len(l) + 1] = commit /\ commit.tree = tree
      <3>1. l \in Seq(CommitRecs)
        BY <1>1 DEF Grown
      <3>. HIDE DEF tree
      <3>. QED
        BY <1>1, <3>1
    <2>. HIDE DEF tree, grown, commit
    <2>4. TreeOf(grown.list, grown.tip) = tree
      BY <2>2, <2>3 DEF TreeOf
    <2>. QED
      BY <1>2, <1>3, <2>1, <2>2, <2>4
  <1>. QED
    BY <1>5, <1>6

-----------------------------------------------------------------------------
(* The shapes of the state *)

Kinds == {"folder", "repository", "connection"}
Sides == {"none", "mine", "theirs"}
Sending == {"post", "accepted", "refused"}
Fetching == {"fetch", "save", "merge", "promote"}

Partials == UNION {[s -> Nat] : s \in SUBSET Paths}
Requests == [key : Nat \ {0}, expect : Partials, put : Partials, commit : Nat]
Fetches == [commit : Nat, files : Trees]
StateRecs ==
    [pulled : Nat, files : Trees, head : Nat, fetched : SUBSET Fetches, web : Int,
     synced : SUBSET Paths, pushed : SUBSET [key : Nat, commit : Nat], pending : SUBSET Requests]
Founds(V) == [versions : V, fromHead : BOOLEAN, head : Nat]

\* Every State in existence: on disk, of the transfer, of the status request.
Notes == {saved} \cup (IF op.pc = "idle" THEN {} ELSE {op.st})
                 \cup (IF seen.pc = "idle" THEN {} ELSE {seen.st})

\* A State fits the repository: it names commits that are there, and what it
\* fetched is on refs/librepaper/main.
Fits(st) ==
    /\ st \in StateRecs
    /\ st.head <= Len(commits)
    /\ \A f \in st.fetched : f.commit \in Reach(commits, main)
    /\ \A r \in st.pushed : r.commit <= Len(commits)
    /\ \A r \in st.pending : r.commit <= Len(commits)
    /\ \A a, b \in st.fetched : a = b
    /\ \A a, b \in st.pending : a = b

ProjectShape == web \in Trees /\ head \in Nat /\ made \in Nat /\ labels \in Seq(LabelRecs)

RepoShape ==
    /\ kind \in Kinds /\ local \in Trees /\ Grown(commits)
    /\ HEAD \in 0..Len(commits) /\ main \in 0..Len(commits) /\ merging \in 0..Len(commits)
    /\ kind = "folder" => commits = <<>>
    /\ kind # "folder" => HEAD # 0

NotesShape == \A st \in Notes : Fits(st)

StrayShape ==
    /\ stray \subseteq Requests /\ \A r \in stray : r.commit <= Len(commits)
    /\ IsFiniteSet(stray)
    /\ told \subseteq Nat /\ IsFiniteSet(told)

SeenShape ==
    /\ seen.pc \in {"idle", "save"}
    /\ seen.pc = "save" => seen \in [pc : {"save"}, st : StateRecs, head : Nat]
    /\ kind # "connection" => seen.pc = "idle"

OpShape ==
    /\ op.pc \in {"idle", "scan", "read", "write"} \cup Sending \cup Fetching
    /\ op.pc = "scan" => op \in [pc : {"scan"}, st : StateRecs]
    /\ op.pc \in Sending =>
         op \in [pc : Sending, st : StateRecs, again : BOOLEAN, request : Requests]
    /\ op.pc = "read" =>
         op \in [pc : {"read"}, st : StateRecs, found : Founds(Numbers), side : Sides]
    /\ op.pc = "write" =>
         op \in [pc : {"write"}, st : StateRecs, found : Founds(Numbers), side : Sides,
                 snap : Trees, scan : Trees, todo : SUBSET Paths]
    /\ op.pc \in Fetching =>
         op \in [pc : Fetching, st : StateRecs, merge : BOOLEAN, found : Founds(Histories)]

\* What a transfer is sure of as it goes: the request it saved is the one it
\* sends, a folder fetches nothing and a repository reads no files.
Course ==
    /\ op.pc \in Sending => op.st.pending = {op.request}
    /\ op.pc \notin Sending \cup {"idle"} => op.st.pending = {}
    /\ op.pc \in {"save", "merge", "promote"} => op.st.fetched # {}
    /\ op.pc \in {"read", "write"} => kind = "folder"
    /\ op.pc \in Fetching => kind # "folder"
    /\ op.pc \in {"scan"} \cup Sending => merging = 0

Shape ==
    ProjectShape /\ RepoShape /\ NotesShape /\ StrayShape /\ SeenShape /\ OpShape /\ Course

\* The notes, one by one.
LEMMA InNotes ==
    /\ saved \in Notes
    /\ op.pc # "idle" => op.st \in Notes
    /\ seen.pc # "idle" => seen.st \in Notes
    /\ \A st \in Notes : st = saved \/ (op.pc # "idle" /\ st = op.st) \/ (seen.pc # "idle" /\ st = seen.st)
  BY DEF Notes

\* The one version a State may have fetched.
LEMMA OneFetched ==
    ASSUME NEW st, Fits(st), NEW f \in st.fetched
    PROVE  (CHOOSE g \in st.fetched : TRUE) = f
  <1>1. (CHOOSE g \in st.fetched : TRUE) \in st.fetched
    OBVIOUS
  <1>. QED
    BY <1>1 DEF Fits

\* What a directory records, before a fetch is merged.
LEMMA RecordedIs ==
    ASSUME NEW st, Fits(st)
    PROVE  /\ st.fetched = {} => Recorded(st) = st.files
           /\ \A f \in st.fetched : Recorded(st) = f.files
           /\ Recorded(st) \in Trees
  <1>1. \A f \in st.fetched : Recorded(st) = f.files
    BY OneFetched DEF Recorded
  <1>2. st.fetched = {} => Recorded(st) = st.files
    BY DEF Recorded
  <1>3. st.files \in Trees /\ \A f \in st.fetched : f.files \in Trees
    BY DEF Fits, StateRecs, Fetches
  <1>. QED
    BY <1>1, <1>2, <1>3

\* Promoting what was fetched.
LEMMA Promoted ==
    ASSUME RepoShape, NEW st, Fits(st), NEW f \in st.fetched
    PROVE  /\ Fits(Promote(commits, st))
           /\ Promote(commits, st).fetched = {} /\ Promote(commits, st).files = f.files
           /\ Promote(commits, st).pending = st.pending /\ Promote(commits, st).synced = st.synced
           /\ Promote(commits, st).web = st.web
           /\ Promote(commits, st).pulled = st.pulled
           /\ main # 0
  <1>1. f \in Fetches /\ f.commit \in Reach(commits, main)
    BY DEF Fits, StateRecs
  <1>2. main # 0 /\ f.commit \in 1..Len(commits)
    BY <1>1, ReachReach DEF RepoShape
  <1> DEFINE h == IF st.head = 0 \/ IsAncestor(commits, st.head, f.commit) THEN f.commit ELSE st.head
             next == [st EXCEPT !.fetched = {}, !.files = f.files, !.head = h]
  <1>3. Promote(commits, st) = next
    BY OneFetched DEF Promote
  <1>4. h \in Nat /\ h <= Len(commits)
    BY <1>2 DEF Fits, StateRecs, RepoShape, Grown
  <1>. HIDE DEF h
  <1>5. st \in StateRecs /\ f.files \in Trees
    BY <1>1 DEF Fits, Fetches
  <1>6. /\ next.fetched = {} /\ next.files = f.files /\ next.head = h /\ next.pending = st.pending
        /\ next.synced = st.synced /\ next.web = st.web /\ next.pushed = st.pushed /\ next.pulled = st.pulled
    BY <1>5 DEF StateRecs
  <1>7. next \in StateRecs
    BY <1>4, <1>5 DEF StateRecs
  <1>. HIDE DEF next
  <1>8. Fits(next)
    BY <1>4, <1>6, <1>7 DEF Fits
  <1>. QED
    BY <1>2, <1>3, <1>6, <1>8

\* Settling promotes a fetch that the branch holds, and else changes nothing.
LEMMA SettledIs ==
    ASSUME RepoShape, NEW st, Fits(st)
    PROVE  /\ Fits(Settle(st))
           /\ Settle(st).pending = st.pending /\ Settle(st).synced = st.synced
           /\ Settle(st).web = st.web
           /\ \/ Settle(st) = st
              \/ \E f \in st.fetched : /\ f.commit \in Reach(commits, HEAD) /\ main # 0
                                       /\ Settle(st).fetched = {} /\ Settle(st).files = f.files
  <1>1. CASE ~Settled(st)
    BY <1>1 DEF Settle
  <1>2. CASE Settled(st)
    <2>1. PICK f \in st.fetched : f.commit \in Reach(commits, HEAD)
      BY <1>2 DEF Settled, IsAncestor
    <2>2. Settle(st) = Promote(commits, st)
      BY <1>2 DEF Settle
    <2>. QED
      BY <2>1, <2>2, Promoted
  <1>. QED
    BY <1>1, <1>2

\* What a pull discovers: numbers of the history, and its head.
LEMMA DiscoverIs ==
    ASSUME ProjectShape, NEW pulled
    PROVE  /\ Discover(pulled) \in Founds(Numbers)
           /\ Discover(pulled).versions \subseteq 1..Len(labels)
           /\ Discover(pulled).head = head
  <1> DEFINE newer == {s \in DOMAIN labels : labels[s].named /\ s > pulled}
             trimmed == pulled # 0 /\ ~\E s \in DOMAIN labels : s <= pulled
             take == IF trimmed /\ newer # {} THEN {Max(newer)} ELSE newer
             fromHead == take = {} /\ (pulled = 0 \/ trimmed)
  <1>1. Len(labels) \in Nat /\ DOMAIN labels = 1..Len(labels) /\ head \in Nat
    BY DEF ProjectShape
  <1>2. newer \subseteq 1..Len(labels)
    BY <1>1
  <1>3. Discover(pulled) = [versions |-> take, fromHead |-> fromHead, head |-> head]
    BY DEF Discover
  <1>4. take \subseteq 1..Len(labels)
    <2>. HIDE DEF newer, trimmed
    <2>1. newer # {} => Max(newer) \in newer
      <3>1. newer \in SUBSET (0..Len(labels))
        BY <1>1, <1>2
      <3>. QED
        BY <1>1, <3>1, MaxIn
    <2>. QED
      BY <1>2, <2>1
  <1>. HIDE DEF take
  <1>5. take \in Numbers
    <2>1. take \subseteq Nat \ {0} /\ take \subseteq 0..Len(labels)
      BY <1>1, <1>4
    <2>. QED
      BY <1>1, <2>1 DEF Numbers
  <1>6. fromHead \in BOOLEAN
    OBVIOUS
  <1>. HIDE DEF fromHead
  <1>. QED
    BY <1>1, <1>3, <1>4, <1>5, <1>6 DEF Founds

\* The version a pull ends at.
LEMMA PulledByIn ==
    ASSUME NEW found, found.versions \in Numbers, NEW st \in StateRecs
    PROVE  PulledBy(found, st) \in Nat
  <1>1. PICK n \in Nat : found.versions \subseteq 0..n
    BY DEF Numbers
  <1>2. found.versions \in SUBSET (0..n)
    BY <1>1
  <1>3. found.versions # {} => Max(found.versions) \in found.versions
    BY <1>2, MaxIn
  <1>4. found.versions # {} => Max(found.versions) \in Nat
    BY <1>2, <1>3
  <1>5. st.pulled \in Nat
    BY DEF StateRecs
  <1>. QED
    BY <1>4, <1>5 DEF PulledBy

\* A partial tree over a tree.
LEMMA PartialOver ==
    ASSUME NEW put \in Partials, NEW files \in Trees
    PROVE  /\ DOMAIN put \subseteq Paths
           /\ [p \in Paths |-> IF p \in DOMAIN put THEN put[p] ELSE files[p]] \in Trees
  <1>1. PICK s \in SUBSET Paths : put \in [s -> Nat]
    BY DEF Partials
  <1>2. DOMAIN put = s /\ \A p \in s : put[p] \in Nat
    BY <1>1
  <1>3. \A p \in Paths : (IF p \in DOMAIN put THEN put[p] ELSE files[p]) \in Nat
    BY <1>2 DEF Trees
  <1>. QED
    BY <1>2, <1>3 DEF Trees

\* The State an accepted request leaves.
LEMMA AcceptedIs ==
    ASSUME NEW st, Fits(st), NEW r \in Requests, r.commit <= Len(commits)
    PROVE  /\ Fits(Accept(st, r))
           /\ Accept(st, r).pending = {} /\ Accept(st, r).web = NoHead
           /\ Accept(st, r).fetched = st.fetched
           /\ Accept(st, r).files = [p \in Paths |-> IF p \in DOMAIN r.put THEN r.put[p] ELSE st.files[p]]
           /\ Accept(st, r).synced = st.synced \cup DOMAIN r.put
  <1> DEFINE files == [p \in Paths |-> IF p \in DOMAIN r.put THEN r.put[p] ELSE st.files[p]]
             synced == st.synced \cup DOMAIN r.put
             pushed == st.pushed \cup {[key |-> r.key, commit |-> r.commit]}
             h == IF r.commit # 0 THEN r.commit ELSE st.head
             next == [st EXCEPT !.files = files, !.synced = synced, !.pushed = pushed, !.head = h,
                                !.web = NoHead, !.pending = {}]
  <1>1. st \in StateRecs /\ r.put \in Partials /\ r.commit \in Nat /\ r.key \in Nat /\ st.files \in Trees
    BY DEF Fits, Requests, StateRecs
  <1>2. Accept(st, r) = next
    BY <1>1 DEF Accept, StateRecs
  <1>3. files \in Trees /\ DOMAIN r.put \subseteq Paths
    BY <1>1, PartialOver
  <1>4. synced \subseteq Paths /\ h \in Nat /\ h <= Len(commits) /\ NoHead \in Int
    BY <1>1, <1>3 DEF StateRecs, Fits, NoHead
  <1>5. pushed \subseteq [key : Nat, commit : Nat] /\ \A x \in pushed : x.commit <= Len(commits)
    BY <1>1 DEF StateRecs, Fits
  <1>. HIDE DEF files, synced, pushed, h
  <1>6. next \in StateRecs
    BY <1>1, <1>3, <1>4, <1>5 DEF StateRecs
  <1>7. /\ next.files = files /\ next.synced = synced /\ next.pushed = pushed /\ next.head = h
        /\ next.web = NoHead /\ next.pending = {} /\ next.fetched = st.fetched
    BY <1>1 DEF StateRecs
  <1>. HIDE DEF next
  <1>8. Fits(next)
    BY <1>4, <1>5, <1>6, <1>7 DEF Fits
  <1>. QED
    BY <1>2, <1>7, <1>8 DEF files, synced

\* The keys of finitely many requests, or labels, are finitely many.
LEMMA FiniteKeys ==
    ASSUME NEW S, IsFiniteSet(S), NEW f
    PROVE  IsFiniteSet({f[x] : x \in S})
  <1> DEFINE T == {f[x] : x \in S}
             g == [x \in S |-> f[x]]
  <1>1. g \in Surjection(S, T)
    BY DEF Surjection
  <1>. HIDE DEF T, g
  <1>2. IsFiniteSet(T)
    BY <1>1, FS_Surjection
  <1>. QED
    BY <1>2 DEF T

\* A set with no two elements is finite.
LEMMA FiniteOne ==
    ASSUME NEW S, \A a, b \in S : a = b
    PROVE  IsFiniteSet(S)
  <1>1. CASE S = {}
    BY <1>1, FS_EmptySet
  <1>2. CASE S # {}
    <2>1. PICK a \in S : TRUE
      BY <1>2
    <2>2. S = {a}
      BY <2>1
    <2>. QED
      BY <2>2, FS_Singleton
  <1>. QED
    BY <1>1, <1>2

\* A fresh key is one that no request and no answer about has.
LEMMA FreshKeyIs ==
    ASSUME ProjectShape, NotesShape, StrayShape
    PROVE  /\ FreshKey \in Nat \ {0} /\ FreshKey \notin told \cup Abroad
           /\ \A r \in Copies : r.key # FreshKey
  <1> DEFINE keys == {r.key : r \in stray}
             given == {labels[s].key : s \in DOMAIN labels}
             copies == {r.key : r \in Copies}
             used == told \cup Abroad \cup copies
             n == Cardinality(used)
             room == (1..(n + 2)) \ used
  <1>1. IsFiniteSet(keys)
    <2> DEFINE k == [r \in stray |-> r.key]
    <2>1. IsFiniteSet({k[r] : r \in stray})
      <3>. HIDE DEF k
      <3>. QED
        BY FiniteKeys DEF StrayShape
    <2>2. {k[r] : r \in stray} = keys
      OBVIOUS
    <2>. QED
      BY <2>1, <2>2
  <1>2. IsFiniteSet(given)
    <2> DEFINE k == [s \in DOMAIN labels |-> labels[s].key]
    <2>1. Len(labels) \in Nat /\ DOMAIN labels = 1..Len(labels)
      BY DEF ProjectShape
    <2>2. IsFiniteSet(DOMAIN labels)
      BY <2>1, FS_Interval
    <2>3. IsFiniteSet({k[s] : s \in DOMAIN labels})
      <3>. HIDE DEF k
      <3>. QED
        BY <2>2, FiniteKeys
    <2>4. {k[s] : s \in DOMAIN labels} = given
      OBVIOUS
    <2>. QED
      BY <2>3, <2>4
  <1>3. IsFiniteSet(copies)
    <2> DEFINE k == [r \in Copies |-> r.key]
    <2>1. IsFiniteSet(saved.pending)
      BY InNotes, FiniteOne DEF NotesShape, Fits
    <2>2. seen.pc # "idle" => IsFiniteSet(seen.st.pending)
      BY InNotes, FiniteOne DEF NotesShape, Fits
    <2>3. IsFiniteSet(Copies)
      <3>1. CASE seen.pc = "idle"
        <4>1. Copies = saved.pending
          BY <3>1 DEF Copies
        <4>. QED
          BY <2>1, <4>1
      <3>2. CASE seen.pc # "idle"
        <4>1. Copies = saved.pending \cup seen.st.pending
          BY <3>2 DEF Copies
        <4>2. IsFiniteSet(saved.pending \cup seen.st.pending)
          BY <2>1, <2>2, <3>2, FS_Union
        <4>. QED
          BY <4>1, <4>2
      <3>. QED
        BY <3>1, <3>2
    <2>4. IsFiniteSet({k[r] : r \in Copies})
      <3>. HIDE DEF k
      <3>. QED
        BY <2>3, FiniteKeys
    <2>5. {k[r] : r \in Copies} = copies
      OBVIOUS
    <2>. QED
      BY <2>4, <2>5
  <1>4. Abroad = keys \cup given
    BY DEF Abroad
  <1>. HIDE DEF keys, given, copies
  <1>5. IsFiniteSet(used)
    <2>1. IsFiniteSet(keys \cup given)
      BY <1>1, <1>2, FS_Union
    <2>2. IsFiniteSet(told \cup Abroad)
      BY <1>4, <2>1, FS_Union DEF StrayShape
    <2>. QED
      BY <1>3, <2>2, FS_Union
  <1>6. FreshKey = Min(room)
    BY DEF FreshKey, copies
  <1>. HIDE DEF used
  <1>7. n \in Nat
    BY <1>5, FS_CardinalityType
  <1>8. room # {}
    <2>. SUFFICES ASSUME room = {} PROVE FALSE
      OBVIOUS
    <2>1. (1..(n + 2)) \in SUBSET used
      OBVIOUS
    <2>2. Cardinality(1..(n + 2)) <= n
      BY <1>5, <2>1, FS_Subset
    <2>3. Cardinality(1..(n + 2)) = n + 2
      <3>1. 1 \in Int /\ n + 2 \in Int /\ ~(1 > n + 2) /\ n + 2 - 1 + 1 = n + 2
        BY <1>7
      <3>. HIDE DEF n
      <3>. QED
        BY <3>1, FS_Interval
    <2>. QED
      BY <1>7, <2>2, <2>3
  <1>9. Min(room) \in room
    <2>1. room \in SUBSET Nat
      BY <1>7
    <2>. HIDE DEF room
    <2>. QED
      BY <1>8, <2>1, MinIn
  <1>10. FreshKey \in Nat \ {0} /\ FreshKey \notin used
    BY <1>6, <1>7, <1>9
  <1>. QED
    BY <1>10 DEF used, copies

-----------------------------------------------------------------------------
(* Every step keeps the shapes *)

\* What a step leaves alone keeps its shape.
LEMMA Frames ==
    ASSUME Shape
    PROVE  /\ UNCHANGED <<web, head, made, labels>> => ProjectShape'
           /\ UNCHANGED <<kind, here>> => RepoShape'
           /\ UNCHANGED <<commits, stray, told>> => StrayShape'
           /\ UNCHANGED <<kind, seen>> => SeenShape'
           /\ UNCHANGED op => OpShape'
           /\ UNCHANGED <<op, kind, merging>> => Course'
  <1>1. UNCHANGED <<web, head, made, labels>> => ProjectShape'
    BY DEF Shape, ProjectShape
  <1>2. UNCHANGED <<kind, here>> => RepoShape'
    BY DEF Shape, RepoShape, here
  <1>3. UNCHANGED <<commits, stray, told>> => StrayShape'
    BY DEF Shape, StrayShape
  <1>4. UNCHANGED <<kind, seen>> => SeenShape'
    BY DEF Shape, SeenShape
  <1>5. UNCHANGED op => OpShape'
    BY DEF Shape, OpShape
  <1>6. UNCHANGED <<op, kind, merging>> => Course'
    BY DEF Shape, Course
  <1>. QED
    BY <1>1, <1>2, <1>3, <1>4, <1>5, <1>6

\* Where the repository stays, the notes that were there fit.
LEMMA NotesHere ==
    ASSUME NotesShape, UNCHANGED <<commits, main>>,
           \A st \in Notes' : st \in Notes \/ Fits(st)
    PROVE  NotesShape'
  <1>. SUFFICES ASSUME NEW st \in Notes'
                PROVE  Fits(st)'
    BY DEF NotesShape
  <1>1. Fits(st)
    BY DEF NotesShape
  <1>. QED
    BY <1>1 DEF Fits, Reach

\* Where it grows, and refs/librepaper/main moves on, so do they.
LEMMA FitsGrows ==
    ASSUME NEW st, Fits(st), Grown(commits), Grown(commits'), Extends(commits, commits'),
           main \in 0..Len(commits), main' \in 0..Len(commits'),
           After(commits', main, main')
    PROVE  Fits(st)'
  <1>1. Len(commits) \in Nat /\ Len(commits') \in Nat /\ Len(commits) <= Len(commits')
    BY DEF Grown, Extends
  <1>2. Reach(commits, main) \subseteq Reach(commits', main')
    <2>1. CASE main = 0
      BY <2>1 DEF Reach
    <2>2. CASE main # 0
      <3>1. main \in Reach(commits', main')
        BY <2>2 DEF After
      <3>2. Reach(commits', main) \subseteq Reach(commits', main')
        BY <3>1, ReachReach
      <3>. QED
        BY <3>2, ExtendsReach
    <2>. QED
      BY <2>1, <2>2
  <1>3. \A n \in Nat : n <= Len(commits) => n <= Len(commits')
    BY <1>1
  <1>4. /\ st.head \in Nat /\ \A r \in st.pushed : r.commit \in Nat
        /\ \A r \in st.pending : r.commit \in Nat
    BY DEF Fits, StateRecs, Requests
  <1>. QED
    BY <1>2, <1>3, <1>4 DEF Fits

\* An edit of a file, on either side.
LEMMA RewrittenIn ==
    ASSUME made \in Nat, NEW tree \in Trees, NEW p \in Paths, NEW content \in Rewritten(tree[p])
    PROVE  /\ [tree EXCEPT ![p] = content] \in Trees
           /\ Max({made, content}) \in Nat
  <1>1. content \in Nat
    BY DEF Rewritten, Absent
  <1>. QED
    BY <1>1, MaxOfTwo DEF Trees

\* What the browser does leaves the directory alone.
LEMMA ShapeWeb ==
    ASSUME Shape, Quietly, (\E p \in Paths : WebEdit(p)) \/ WebName \/ WebTrim
    PROVE  Shape'
  <1>1. web \in Trees /\ made \in Nat /\ head \in Nat /\ labels \in Seq(LabelRecs)
    BY DEF Shape, ProjectShape
  <1>2. ProjectShape'
    <2>1. CASE \E p \in Paths : WebEdit(p)
      <3>1. PICK p \in Paths : WebEdit(p)
        BY <2>1
      <3>2. PICK content \in Rewritten(web[p]) :
                web' = [web EXCEPT ![p] = content] /\ made' = Max({made, content})
        BY <3>1 DEF WebEdit
      <3>3. web' \in Trees /\ made' \in Nat
        BY <1>1, <3>2, RewrittenIn
      <3>. QED
        BY <1>1, <3>1, <3>3 DEF ProjectShape, WebEdit
    <2>2. CASE WebName
      <3>1. PICK label : label = [key |-> 0, tree |-> web, named |-> TRUE]
        OBVIOUS
      <3>2. label \in LabelRecs
        BY <1>1, <3>1 DEF LabelRecs
      <3>3. labels' = Append(labels, label) /\ UNCHANGED <<web, head, made>>
        BY <2>2, <3>1 DEF WebName, Label, NoKey
      <3>. QED
        BY <1>1, <3>2, <3>3 DEF ProjectShape
    <2>3. CASE WebTrim
      BY <1>1, <2>3 DEF WebTrim, ProjectShape
    <2>. QED
      BY <2>1, <2>2, <2>3
  <1>3. NotesShape'
    BY NotesHere DEF Shape, Quietly, Notes, here
  <1>. QED
    BY <1>2, <1>3, Frames DEF Shape, Quietly, here, ghosts

\* The person edits a file.
LEMMA ShapeEdit ==
    ASSUME Shape, NEW p \in Paths, Edit(p)
    PROVE  Shape'
  <1>1. PICK content \in Rewritten(local[p]) :
            local' = [local EXCEPT ![p] = content] /\ made' = Max({made, content})
    BY DEF Edit
  <1>2. made \in Nat /\ local \in Trees
    BY DEF Shape, ProjectShape, RepoShape
  <1>3. local' \in Trees /\ made' \in Nat
    BY <1>1, <1>2, RewrittenIn
  <1>4. ProjectShape' /\ RepoShape'
    BY <1>3 DEF Edit, Shape, ProjectShape, RepoShape
  <1>5. NotesShape'
    BY NotesHere DEF Shape, Edit, Notes
  <1>. QED
    BY <1>4, <1>5, Frames DEF Shape, Edit

\* Where the repository grows and main stays, all the notes still fit.
LEMMA NotesGrow ==
    ASSUME Shape, Grown(commits'), Extends(commits, commits'), UNCHANGED main,
           \A st \in Notes' : st \in Notes \/ Fits(st)
    PROVE  NotesShape'
  <1>. SUFFICES ASSUME NEW st \in Notes'
                PROVE  Fits(st)'
    BY DEF NotesShape
  <1>1. Fits(st) /\ Grown(commits) /\ main \in 0..Len(commits)
    BY DEF Shape, NotesShape, RepoShape
  <1>2. main' \in 0..Len(commits') /\ After(commits', main, main')
    <2>1. main' \in 0..Len(commits')
      BY <1>1, ExtendsReach
    <2>. QED
      BY <2>1 DEF After, Reach
  <1>. QED
    BY <1>1, <1>2, FitsGrows

\* Requests on their way name commits that stay.
LEMMA StrayGrows ==
    ASSUME StrayShape, Grown(commits), Grown(commits'), Extends(commits, commits'), UNCHANGED <<stray, told>>
    PROVE  StrayShape'
  <1>1. Len(commits) \in Nat /\ Len(commits') \in Nat /\ Len(commits) <= Len(commits')
    BY DEF Grown, Extends
  <1>2. \A r \in stray : r.commit \in Nat /\ r.commit <= Len(commits)
    BY DEF StrayShape, Requests
  <1>3. \A r \in stray : r.commit <= Len(commits')
    BY <1>1, <1>2
  <1>. QED
    BY <1>3 DEF StrayShape

\* The person commits.
LEMMA ShapeCommitWork ==
    ASSUME Shape, CommitWork
    PROVE  /\ Shape' /\ Extends(commits, commits')
           /\ commits'[HEAD'].tree = local' /\ HEAD' = Len(commits') /\ HEAD' # 0
           /\ HEAD # 0 => Reach(commits, HEAD) \subseteq Reach(commits', HEAD')
  <1> DEFINE parents == {HEAD, merging} \ {0}
  <1>1. /\ Grown(commits) /\ local \in Trees /\ HEAD \in 0..Len(commits) /\ merging \in 0..Len(commits)
        /\ main \in 0..Len(commits) /\ kind # "folder" /\ kind \in Kinds /\ Len(commits) \in Nat
    BY DEF Shape, RepoShape, CommitWork, Grown
  <1>2. local' \in Trees
    <2>1. TreeOf(commits, merging) \in Trees
      BY <1>1, TreeOfIn
    <2>2. \E keep : local' = [p \in Paths |-> IF p \in keep THEN TreeOf(commits, merging)[p] ELSE local[p]]
      BY DEF CommitWork
    <2>. QED
      BY <1>1, <2>1, <2>2 DEF Trees
  <1>3. commits' = Append(commits, Made(commits, parents, local', 0))
    BY DEF CommitWork, Commit, Made
  <1>4. parents \in SUBSET (1..Len(commits))
    BY <1>1
  <1>5. /\ Grown(commits') /\ Extends(commits, commits') /\ Len(commits') = Len(commits) + 1
        /\ commits'[Len(commits) + 1] = Made(commits, parents, local', 0)
        /\ Reach(commits', Len(commits) + 1) = {Len(commits) + 1} \cup UNION {Reach(commits, c) : c \in parents}
    <2>. HIDE DEF parents
    <2>. QED
      BY <1>1, <1>2, <1>3, <1>4, AppendGrows
  <1>6. HEAD' = Len(commits') /\ merging' = 0 /\ UNCHANGED <<project, kind, main, saved, op, seen, stray, told>>
    BY DEF CommitWork
  <1>7. RepoShape'
    BY <1>1, <1>2, <1>5, <1>6 DEF RepoShape
  <1>8. NotesShape' /\ StrayShape'
    <2>1. \A st \in Notes' : st \in Notes
      BY <1>6 DEF Notes
    <2>. QED
      BY <1>1, <1>5, <1>6, <2>1, NotesGrow, StrayGrows DEF Shape
  <1>9. ProjectShape' /\ SeenShape' /\ OpShape'
    BY <1>6, Frames DEF project, standing
  <1>10. Course'
    BY <1>6 DEF Shape, Course
  <1>11. commits'[HEAD'].tree = local' /\ HEAD' # 0
    BY <1>1, <1>5, <1>6 DEF Made
  <1>12. HEAD # 0 => Reach(commits, HEAD) \subseteq Reach(commits', HEAD')
    <2>1. HEAD # 0 => HEAD \in parents
      OBVIOUS
    <2>. HIDE DEF parents
    <2>. QED
      BY <1>5, <1>6, <2>1
  <1>. QED
    BY <1>5, <1>6, <1>7, <1>8, <1>9, <1>10, <1>11, <1>12 DEF Shape

\* The person gives a merge up.
LEMMA ShapeAbortMerge ==
    ASSUME Shape, AbortMerge
    PROVE  Shape'
  <1>1. TreeOf(commits, HEAD) \in Trees
    BY TreeOfIn DEF Shape, RepoShape
  <1>2. RepoShape'
    BY <1>1 DEF Shape, RepoShape, AbortMerge, Grown
  <1>3. NotesShape'
    BY NotesHere DEF Shape, AbortMerge, Notes
  <1>4. Course'
    BY DEF Shape, Course, AbortMerge
  <1>. QED
    BY <1>2, <1>3, <1>4, Frames DEF Shape, AbortMerge, standing, ghosts

\* A push starts: with what is saved.
LEMMA PushStartIs ==
    ASSUME Shape, PushStart
    PROVE  /\ \/ op' = [pc |-> "scan", st |-> saved] /\ saved.pending = {}
              \/ \E r \in Requests : /\ saved.pending = {r}
                                     /\ op' = [pc |-> "post", st |-> saved, again |-> TRUE, request |-> r]
           /\ UNCHANGED <<web, head, made, labels, kind, here, saved, seen, stray, ghosts>>
           /\ merging = 0
  <1>1. UNCHANGED <<web, head, made, labels, kind, here, saved, seen, stray, ghosts>> /\ merging = 0
    BY DEF PushStart, project, standing
  <1>2. CASE saved.pending = {}
    BY <1>1, <1>2 DEF PushStart
  <1>3. CASE saved.pending # {}
    <2>1. PICK r : r = CHOOSE x \in saved.pending : TRUE
      OBVIOUS
    <2>2. r \in saved.pending
      BY <1>3, <2>1
    <2>3. Fits(saved)
      BY InNotes DEF Shape, NotesShape
    <2>4. r \in Requests /\ saved.pending = {r}
      BY <2>2, <2>3 DEF Fits, StateRecs
    <2>5. op' = [pc |-> "post", st |-> saved, again |-> TRUE, request |-> r]
      BY <1>3, <2>1 DEF PushStart
    <2>. QED
      BY <1>1, <2>4, <2>5
  <1>. QED
    BY <1>2, <1>3

\* A push that begins, or takes its saved request up again, keeps the shape.
LEMMA ShapePushStart ==
    ASSUME Shape, PushStart
    PROVE  Shape'
  <1>1. saved \in StateRecs
    BY InNotes DEF Shape, NotesShape, Fits
  <1>2. OpShape'
    <2>1. CASE op' = [pc |-> "scan", st |-> saved]
      BY <1>1, <2>1 DEF OpShape, Sending, Fetching
    <2>2. CASE \E r \in Requests : op' = [pc |-> "post", st |-> saved, again |-> TRUE, request |-> r]
      BY <1>1, <2>2 DEF OpShape, Sending, Fetching
    <2>. QED
      BY <2>1, <2>2, PushStartIs
  <1>3. Course'
    <2>0. merging' = 0
      BY PushStartIs DEF here
    <2>1. CASE op' = [pc |-> "scan", st |-> saved] /\ saved.pending = {}
      BY <2>0, <2>1 DEF Course, Sending, Fetching
    <2>2. CASE \E r \in Requests : /\ saved.pending = {r}
                                   /\ op' = [pc |-> "post", st |-> saved, again |-> TRUE, request |-> r]
      BY <2>0, <2>2 DEF Course, Sending, Fetching
    <2>. QED
      BY <2>1, <2>2, PushStartIs
  <1>4. NotesShape'
    <2>1. \A st \in Notes' : st \in Notes
      <3>1. op'.st = saved
        BY PushStartIs
      <3>. QED
        BY <3>1, PushStartIs DEF Notes
    <2>. QED
      BY <2>1, PushStartIs, NotesHere DEF Shape, here
  <1>. QED
    BY <1>2, <1>3, <1>4, PushStartIs, Frames DEF Shape, here, ghosts

\* A plan: nothing to send, or a request saved before it is sent.
Plan(request) ==
    LET st == Settle(op.st)
    IN  /\ saved' = [st EXCEPT !.pending = {request}]
        /\ op' = [pc |-> "post", st |-> saved', again |-> FALSE, request |-> request]
        /\ DOMAIN request.put = DOMAIN request.expect
        /\ \E scan \in {TreeOf(commits, HEAD), local} :
             \A p \in DOMAIN request.put : request.put[p] = scan[p] /\ request.expect[p] = st.files[p]
        /\ request.key = FreshKey
        /\ request.commit = HEAD

\* A plan ends with nothing to send, or saves the request it will send.
LEMMA PushPlanIs ==
    ASSUME Shape, PushPlan
    PROVE  /\ \/ op' = Idle /\ saved' \in {saved, Settle(op.st)}
              \/ \E request \in Requests : Plan(request)
           /\ UNCHANGED <<web, head, made, labels, kind, here, seen, stray, ghosts>>
           /\ op.pc = "scan" /\ Fits(op.st) /\ op.st.pending = {}
  <1> DEFINE st == Settle(op.st)
             scan == IF kind = "connection" THEN TreeOf(commits, HEAD) ELSE local
             changes == {p \in Paths : scan[p] # st.files[p]}
             request == [key |-> FreshKey,
                         expect |-> [p \in changes |-> st.files[p]],
                         put |-> [p \in changes |-> scan[p]],
                         commit |-> HEAD]
  <1>1. UNCHANGED <<web, head, made, labels, kind, here, seen, stray, ghosts>> /\ op.pc = "scan"
    BY DEF PushPlan, project, standing
  <1>2. Fits(op.st) /\ op.st.pending = {}
    BY <1>1, InNotes DEF Shape, NotesShape, Course, Sending
  <1>3. Fits(st)
    BY <1>2, SettledIs DEF Shape
  <1>4. scan \in Trees
    BY TreeOfIn DEF Shape, RepoShape
  <1>5. request \in Requests
    <2>1. FreshKey \in Nat \ {0}
      BY FreshKeyIs DEF Shape
    <2>2. st.files \in Trees
      BY <1>3 DEF Fits, StateRecs
    <2>3. HEAD \in Nat
      BY DEF Shape, RepoShape, Grown
    <2>. HIDE DEF st, scan
    <2>4. changes \in SUBSET Paths
      OBVIOUS
    <2>. HIDE DEF changes
    <2>5. [p \in changes |-> st.files[p]] \in Partials /\ [p \in changes |-> scan[p]] \in Partials
      <3>1. [p \in changes |-> st.files[p]] \in [changes -> Nat] /\ [p \in changes |-> scan[p]] \in [changes -> Nat]
        BY <1>4, <2>2, <2>4 DEF Trees
      <3>. QED
        BY <2>4, <3>1 DEF Partials
    <2>. QED
      BY <2>1, <2>3, <2>5 DEF Requests
  <1>6. \/ op' = Idle /\ saved' \in {saved, st}
        \/ /\ saved' = [st EXCEPT !.pending = {request}]
           /\ op' = [pc |-> "post", st |-> saved', again |-> FALSE, request |-> request]
    BY DEF PushPlan
  <1>7. CASE op' = Idle /\ saved' \in {saved, st}
    BY <1>1, <1>2, <1>7
  <1>8. CASE /\ saved' = [st EXCEPT !.pending = {request}]
             /\ op' = [pc |-> "post", st |-> saved', again |-> FALSE, request |-> request]
    <2>1. /\ DOMAIN request.put = changes /\ DOMAIN request.expect = changes
          /\ \A p \in changes : request.put[p] = scan[p] /\ request.expect[p] = st.files[p]
          /\ request.key = FreshKey /\ request.commit = HEAD
      OBVIOUS
    <2>2. scan \in {TreeOf(commits, HEAD), local}
      OBVIOUS
    <2>. HIDE DEF request, scan, changes
    <2>3. Plan(request)
      BY <1>8, <2>1, <2>2 DEF Plan
    <2>. QED
      BY <1>1, <1>2, <1>5, <2>3
  <1>. QED
    BY <1>6, <1>7, <1>8

\* A State with another request pending, or none.
LEMMA PendingIs ==
    ASSUME NEW st, Fits(st), NEW P \in SUBSET Requests,
           \A r \in P : r.commit <= Len(commits), \A a, b \in P : a = b
    PROVE  /\ Fits([st EXCEPT !.pending = P])
           /\ [st EXCEPT !.pending = P].pending = P
           /\ [st EXCEPT !.pending = P].files = st.files
           /\ [st EXCEPT !.pending = P].fetched = st.fetched
           /\ [st EXCEPT !.pending = P].synced = st.synced
           /\ [st EXCEPT !.pending = P].web = st.web
           /\ [st EXCEPT !.pending = P].head = st.head
  <1> DEFINE next == [st EXCEPT !.pending = P]
  <1>1. st \in StateRecs
    BY DEF Fits
  <1>2. /\ next.pending = P /\ next.files = st.files /\ next.fetched = st.fetched
        /\ next.synced = st.synced /\ next.web = st.web /\ next.head = st.head /\ next.pushed = st.pushed
    BY <1>1 DEF StateRecs
  <1>3. next \in StateRecs
    BY <1>1 DEF StateRecs
  <1>. HIDE DEF next
  <1>4. Fits(next)
    BY <1>2, <1>3 DEF Fits
  <1>. QED
    BY <1>2, <1>4 DEF next

\* The State a plan saves.
LEMMA PlanIs ==
    ASSUME Shape, op.pc = "scan", NEW request \in Requests, Plan(request)
    PROVE  /\ Fits(saved') /\ saved'.pending = {request} /\ saved'.files = Settle(op.st).files
           /\ saved'.fetched = Settle(op.st).fetched /\ saved'.synced = op.st.synced
           /\ saved'.web = op.st.web /\ saved'.head = Settle(op.st).head
           /\ op'.pc = "post" /\ op'.st = saved' /\ op'.request = request
           /\ op' \in [pc : Sending, st : StateRecs, again : BOOLEAN, request : Requests]
  <1>1. Fits(op.st)
    BY InNotes DEF Shape, NotesShape
  <1>2. Fits(Settle(op.st)) /\ Settle(op.st).synced = op.st.synced /\ Settle(op.st).web = op.st.web
    BY <1>1, SettledIs DEF Shape
  <1>3. request.commit <= Len(commits)
    BY DEF Plan, Shape, RepoShape, Grown
  <1>4. saved' = [Settle(op.st) EXCEPT !.pending = {request}]
    BY DEF Plan
  <1> DEFINE P == {request}
  <1>5. P \in SUBSET Requests /\ (\A r \in P : r.commit <= Len(commits)) /\ \A a, b \in P : a = b
    BY <1>3
  <1>. HIDE DEF P
  <1>6. /\ Fits(saved') /\ saved'.pending = P /\ saved'.files = Settle(op.st).files
        /\ saved'.fetched = Settle(op.st).fetched /\ saved'.synced = Settle(op.st).synced
        /\ saved'.web = Settle(op.st).web /\ saved'.head = Settle(op.st).head
    <2>1. saved' = [Settle(op.st) EXCEPT !.pending = P]
      BY <1>4 DEF P
    <2>. QED
      BY <1>2, <1>5, <2>1, PendingIs
  <1>7. op' = [pc |-> "post", st |-> saved', again |-> FALSE, request |-> request]
    BY DEF Plan
  <1>8. saved' \in StateRecs
    BY <1>6 DEF Fits
  <1>9. op' \in [pc : Sending, st : StateRecs, again : BOOLEAN, request : Requests]
    BY <1>7, <1>8 DEF Sending
  <1>. QED
    BY <1>2, <1>6, <1>7, <1>9 DEF P

\* The scan that plans a push keeps the shape.
LEMMA ShapePushPlan ==
    ASSUME Shape, PushPlan
    PROVE  Shape'
  <1>1. Fits(Settle(op.st))
    BY PushPlanIs, SettledIs DEF Shape
  <1>2. CASE op' = Idle /\ saved' \in {saved, Settle(op.st)}
    <2>1. OpShape' /\ Course'
      BY <1>2 DEF Idle, OpShape, Course, Sending, Fetching
    <2>2. NotesShape'
      <3>1. \A st \in Notes' : st \in Notes \/ Fits(st)
        BY <1>1, <1>2, PushPlanIs DEF Notes, Idle
      <3>. QED
        BY <3>1, PushPlanIs, NotesHere DEF Shape, here
    <2>. QED
      BY <2>1, <2>2, PushPlanIs, Frames DEF Shape, here, ghosts
  <1>3. CASE \E request \in Requests : Plan(request)
    <2>1. PICK request \in Requests : Plan(request)
      BY <1>3
    <2>2. /\ Fits(saved') /\ saved'.pending = {request}
          /\ op'.pc = "post" /\ op'.st = saved' /\ op'.request = request
          /\ op' \in [pc : Sending, st : StateRecs, again : BOOLEAN, request : Requests]
      BY <2>1, PushPlanIs, PlanIs
    <2>0. merging' = 0
      BY PushPlanIs DEF Shape, Course, here
    <2>3. OpShape' /\ Course'
      BY <2>0, <2>2 DEF OpShape, Course, Sending, Fetching
    <2>4. NotesShape'
      <3>1. \A st \in Notes' : st \in Notes \/ Fits(st)
        BY <2>2, PushPlanIs DEF Notes
      <3>. QED
        BY <3>1, PushPlanIs, NotesHere DEF Shape, here
    <2>. QED
      BY <2>3, <2>4, PushPlanIs, Frames DEF Shape, here, ghosts
  <1>. QED
    BY <1>2, <1>3, PushPlanIs

\* What landing a request does to the project.
LEMMA AppliedIs ==
    ASSUME ProjectShape, NEW r \in Requests, Applied(r)
    PROVE  ProjectShape'
  <1>1. web' = [p \in Paths |-> IF p \in DOMAIN r.put THEN r.put[p] ELSE web[p]]
    BY DEF Applied
  <1>2. r.put \in Partials /\ r.key \in Nat
    BY DEF Requests
  <1>3. web' \in Trees
    BY <1>1, <1>2, PartialOver DEF ProjectShape
  <1>4. PICK label : label = [key |-> r.key, tree |-> web', named |-> TRUE]
    OBVIOUS
  <1>5. label \in LabelRecs
    BY <1>2, <1>3, <1>4 DEF LabelRecs
  <1>6. labels' = Append(labels, label) /\ head' = head + 1 /\ made' = made
    BY <1>4 DEF Applied, Label
  <1>. QED
    BY <1>3, <1>5, <1>6 DEF ProjectShape

\* A request that reaches the project and is answered keeps the shape.
LEMMA ShapePostLands ==
    ASSUME Shape, PostLands
    PROVE  Shape'
  <1>1. /\ op \in [pc : Sending, st : StateRecs, again : BOOLEAN, request : Requests]
        /\ op.pc = "post" /\ op.st.pending = {op.request}
    BY DEF PostLands, Shape, OpShape, Course, Sending
  <1>0. merging' = 0
    BY DEF PostLands, Shape, Course, Sending, here
  <1>2. ProjectShape'
    <2>1. CASE Applied(op.request)
      BY <1>1, <2>1, AppliedIs DEF Shape
    <2>2. CASE UNCHANGED project
      BY <2>2, Frames DEF project, standing
    <2>. QED
      BY <2>1, <2>2 DEF PostLands, Replayed, Refused
  <1>3. op' \in {[op EXCEPT !.pc = "accepted"], [op EXCEPT !.pc = "refused"]}
    BY DEF PostLands
  <1>4. /\ op' \in [pc : Sending, st : StateRecs, again : BOOLEAN, request : Requests]
        /\ op'.pc \in {"accepted", "refused"} /\ op'.st = op.st /\ op'.request = op.request
    BY <1>1, <1>3 DEF Sending
  <1>5. OpShape' /\ Course'
    BY <1>0, <1>1, <1>4 DEF OpShape, Course, Sending, Fetching
  <1>6. UNCHANGED <<kind, here, saved, seen, stray, told>>
    BY DEF PostLands
  <1>7. NotesShape'
    <2>1. \A st \in Notes' : st \in Notes
      BY <1>1, <1>4, <1>6 DEF Notes
    <2>. QED
      BY <1>6, <2>1, NotesHere DEF Shape, here
  <1>. QED
    BY <1>2, <1>5, <1>6, <1>7, Frames DEF Shape, here

\* A transfer that ends, or goes on sending the same request.
LEMMA OpGoesOn ==
    ASSUME Shape, UNCHANGED <<kind, here, saved, seen>>,
           \/ op' = Idle
           \/ /\ op.pc \in Sending
              /\ op' \in {[op EXCEPT !.pc = "post"], [op EXCEPT !.pc = "refused"]}
    PROVE  OpShape' /\ Course' /\ NotesShape' /\ \A st \in Notes' : st \in Notes
  <1>1. CASE op' = Idle
    <2>1. OpShape' /\ Course'
      BY <1>1 DEF Idle, OpShape, Course, Sending, Fetching
    <2>2. \A st \in Notes' : st \in Notes
      BY <1>1 DEF Notes, Idle
    <2>. QED
      BY <2>1, <2>2, NotesHere DEF Shape, here
  <1>2. CASE /\ op.pc \in Sending
             /\ op' \in {[op EXCEPT !.pc = "post"], [op EXCEPT !.pc = "refused"]}
    <2>1. /\ op \in [pc : Sending, st : StateRecs, again : BOOLEAN, request : Requests]
          /\ op.st.pending = {op.request} /\ merging' = 0
      BY <1>2 DEF Shape, OpShape, Course, here
    <2>2. /\ op' \in [pc : Sending, st : StateRecs, again : BOOLEAN, request : Requests]
          /\ op'.pc \in Sending /\ op'.st = op.st /\ op'.request = op.request
      BY <1>2, <2>1 DEF Sending
    <2>3. OpShape' /\ Course'
      BY <2>1, <2>2 DEF OpShape, Course, Sending, Fetching
    <2>4. \A st \in Notes' : st \in Notes
      BY <1>2, <2>2 DEF Notes, Sending
    <2>. QED
      BY <2>3, <2>4, NotesHere DEF Shape, here
  <1>. QED
    BY <1>1, <1>2

\* A request refused over a suggestion, lost on its way or stopped keeps the shape.
LEMMA ShapePostEnds ==
    ASSUME Shape, PostSuggestion \/ PostFails \/ Stop
    PROVE  Shape'
  <1>1. UNCHANGED <<web, head, made, labels, kind, here, saved, seen, told>>
    BY DEF PostSuggestion, PostFails, Stop, standing, ghosts
  <1>2. \/ op' = Idle
        \/ /\ op.pc \in Sending
           /\ op' \in {[op EXCEPT !.pc = "post"], [op EXCEPT !.pc = "refused"]}
    BY DEF PostSuggestion, PostFails, Stop, Sending
  <1>3. OpShape' /\ Course' /\ NotesShape'
    BY <1>1, <1>2, OpGoesOn
  <1>4. StrayShape'
    <2>1. CASE stray' = stray
      BY <1>1, <2>1, Frames DEF here
    <2>2. CASE op.pc = "post" /\ stray' = stray \cup {op.request}
      <3>1. op.request \in Requests /\ op.st.pending = {op.request} /\ Fits(op.st)
        BY <2>2, InNotes DEF Shape, OpShape, Course, NotesShape, Sending
      <3>2. op.request.commit <= Len(commits)
        BY <3>1 DEF Fits
      <3>3. IsFiniteSet(stray')
        BY <2>2, FS_AddElement DEF Shape, StrayShape
      <3>. QED
        BY <1>1, <2>2, <3>1, <3>2, <3>3 DEF Shape, StrayShape, here
    <2>. QED
      BY <2>1, <2>2 DEF PostSuggestion, PostFails, Stop
  <1>. QED
    BY <1>1, <1>3, <1>4, Frames DEF Shape, here

\* A late request that reaches the project keeps the shape.
LEMMA ShapeStrayLands ==
    ASSUME Shape, StrayLands
    PROVE  Shape'
  <1>1. PICK r \in stray : /\ Applied(r) \/ Replayed(r) \/ Refused(r)
                           /\ stray' = stray \ {r}
    BY DEF StrayLands
  <1>2. UNCHANGED <<kind, here, saved, op, seen, told>>
    BY DEF StrayLands
  <1>3. ProjectShape'
    <2>1. CASE Applied(r)
      BY <2>1, AppliedIs DEF Shape, StrayShape
    <2>2. CASE UNCHANGED project
      BY <2>2, Frames DEF project, standing
    <2>. QED
      BY <1>1, <2>1, <2>2 DEF Replayed, Refused
  <1>4. StrayShape'
    <2>1. IsFiniteSet(stray')
      BY <1>1, FS_RemoveElement DEF Shape, StrayShape
    <2>. QED
      BY <1>1, <1>2, <2>1 DEF Shape, StrayShape, here
  <1>5. NotesShape'
    BY <1>2, NotesHere DEF Shape, Notes, here
  <1>. QED
    BY <1>2, <1>3, <1>4, <1>5, Frames DEF Shape, here

\* The answer is in: the State that is saved, and the key that was answered.
LEMMA AnsweredIs ==
    ASSUME Shape, PushAccepted \/ PushRefused
    PROVE  /\ Fits(op.st) /\ op.request \in Requests /\ op.request.commit <= Len(commits)
           /\ op.st.pending = {op.request} /\ op \in [pc : Sending, st : StateRecs, again : BOOLEAN, request : Requests]
           /\ Fits(saved') /\ saved'.pending = {}
           /\ UNCHANGED <<web, head, made, labels, kind, here, seen, stray>>
           /\ \/ op' = [pc |-> "scan", st |-> saved']
              \/ op' = Idle
           /\ told' \subseteq told \cup {op.request.key} /\ told \subseteq told'
  <1>1. /\ Fits(op.st) /\ op.st.pending = {op.request} /\ op \in [pc : Sending, st : StateRecs, again : BOOLEAN, request : Requests]
    BY InNotes DEF PushAccepted, PushRefused, Shape, OpShape, Course, NotesShape, Sending
  <1>2. op.request \in Requests /\ op.request.commit <= Len(commits)
    BY <1>1 DEF Fits
  <1>3. Fits(saved') /\ saved'.pending = {}
    <2>1. CASE PushAccepted
      BY <1>1, <1>2, <2>1, AcceptedIs DEF PushAccepted
    <2>2. CASE PushRefused
      <3>1. saved' = [op.st EXCEPT !.pending = {}]
        BY <2>2 DEF PushRefused
      <3>2. PICK P \in SUBSET Requests : P = {}
        OBVIOUS
      <3>3. (\A r \in P : r.commit <= Len(commits)) /\ (\A a, b \in P : a = b)
        BY <3>2
      <3>4. PICK st : st = op.st
        OBVIOUS
      <3>5. Fits([st EXCEPT !.pending = P]) /\ [st EXCEPT !.pending = P].pending = P
        BY <1>1, <3>3, <3>4, PendingIs
      <3>6. saved' = [st EXCEPT !.pending = P]
        BY <3>1, <3>2, <3>4
      <3>. QED
        BY <3>2, <3>5, <3>6
    <2>. QED
      BY <2>1, <2>2
  <1>4. UNCHANGED <<web, head, made, labels, kind, here, seen, stray>>
    BY DEF PushAccepted, PushRefused, project, standing
  <1>5. /\ op' = [pc |-> "scan", st |-> saved'] \/ op' = Idle
        /\ told' \subseteq told \cup {op.request.key} /\ told \subseteq told'
    BY DEF PushAccepted, PushRefused
  <1>. QED
    BY <1>1, <1>2, <1>3, <1>4, <1>5

\* An answer taken in, accepted or refused, keeps the shape.
LEMMA ShapeAnswered ==
    ASSUME Shape, PushAccepted \/ PushRefused
    PROVE  Shape'
  <1>1. saved' \in StateRecs
    BY AnsweredIs DEF Fits
  <1>2. OpShape' /\ Course'
    <2>1. CASE op' = Idle
      BY <2>1 DEF Idle, OpShape, Course, Sending, Fetching
    <2>2. CASE op' = [pc |-> "scan", st |-> saved']
      <3>1. merging' = 0
        BY AnsweredIs DEF here, Shape, Course, PushAccepted, PushRefused, Sending
      <3>. QED
        BY <1>1, <2>2, <3>1, AnsweredIs DEF OpShape, Course, Sending, Fetching
    <2>. QED
      BY <2>1, <2>2, AnsweredIs
  <1>3. NotesShape'
    <2>1. \A st \in Notes' : st \in Notes \/ Fits(st)
      BY AnsweredIs DEF Notes, Idle
    <2>. QED
      BY <2>1, AnsweredIs, NotesHere DEF Shape, here
  <1>4. StrayShape'
    <2>1. op.request.key \in Nat
      BY AnsweredIs DEF Requests
    <2>2. told' \subseteq Nat
      BY <2>1, AnsweredIs DEF Shape, StrayShape
    <2>3. IsFiniteSet(told')
      <3>1. IsFiniteSet(told \cup {op.request.key})
        BY FS_AddElement DEF Shape, StrayShape
      <3>. QED
        BY <3>1, AnsweredIs, FS_Subset
    <2>. QED
      BY <2>2, <2>3, AnsweredIs DEF Shape, StrayShape, here
  <1>. QED
    BY <1>2, <1>3, <1>4, AnsweredIs, Frames DEF Shape, here

\* A folder that finds versions to pull keeps the shape.
LEMMA ShapePullFolder ==
    ASSUME Shape, NEW side \in Sides, PullFolder(side)
    PROVE  Shape'
  <1>1. PICK found : found = Discover(saved.pulled)
    OBVIOUS
  <1>2. found \in Founds(Numbers)
    BY <1>1, DiscoverIs DEF Shape
  <1>3. Fits(saved) /\ saved.pending = {} /\ kind = "folder"
    BY InNotes DEF Shape, NotesShape, PullFolder
  <1>4. op' = [pc |-> "read", st |-> saved, found |-> found, side |-> side]
    BY <1>1 DEF PullFolder
  <1>5. UNCHANGED <<web, head, made, labels, kind, here, saved, seen, stray, ghosts>>
    BY DEF PullFolder, project, standing
  <1>6. OpShape' /\ Course'
    BY <1>2, <1>3, <1>4, <1>5 DEF OpShape, Course, Fits, Sending, Fetching
  <1>7. NotesShape'
    <2>1. \A st \in Notes' : st \in Notes
      BY <1>4, <1>5 DEF Notes
    <2>. QED
      BY <1>5, <2>1, NotesHere DEF Shape, here
  <1>. QED
    BY <1>5, <1>6, <1>7, Frames DEF Shape, here, ghosts

\* A folder that scans its files for a pull keeps the shape.
LEMMA ShapePullRead ==
    ASSUME Shape, PullRead
    PROVE  Shape'
  <1>1. /\ op.pc = "read" /\ kind = "folder" /\ op.st.pending = {}
        /\ op \in [pc : {"read"}, st : StateRecs, found : Founds(Numbers), side : Sides]
    BY DEF PullRead, Shape, OpShape, Course, Sending
  <1>2. PICK todo : todo = Apply(op.st.files, local, web, op.side)
    OBVIOUS
  <1>3. todo \in SUBSET Paths /\ web \in Trees /\ local \in Trees
    BY <1>2 DEF Apply, Shape, ProjectShape, RepoShape
  <1>4. op' = [pc |-> "write", st |-> op.st, found |-> op.found, side |-> op.side,
               snap |-> web, scan |-> local, todo |-> todo]
    BY <1>2 DEF PullRead
  <1>5. UNCHANGED <<web, head, made, labels, kind, here, saved, seen, stray, told>>
    BY DEF PullRead, project, standing
  <1>6. OpShape'
    BY <1>1, <1>3, <1>4 DEF OpShape, Sending, Fetching
  <1>7. Course'
    BY <1>1, <1>4, <1>5 DEF Course, Sending, Fetching
  <1>8. NotesShape'
    <2>1. \A st \in Notes' : st \in Notes
      BY <1>1, <1>4, <1>5 DEF Notes
    <2>. QED
      BY <1>5, <2>1, NotesHere DEF Shape, here
  <1>. QED
    BY <1>5, <1>6, <1>7, <1>8, Frames DEF Shape, here

\* What is known of a pull that writes, and of the file it writes.
LEMMA WritingIs ==
    ASSUME Shape, op.pc = "write"
    PROVE  /\ kind = "folder" /\ op.st.pending = {} /\ Fits(op.st)
           /\ op \in [pc : {"write"}, st : StateRecs, found : Founds(Numbers), side : Sides,
                      snap : Trees, scan : Trees, todo : SUBSET Paths]
           /\ op.st.files \in Trees
  BY InNotes DEF Shape, OpShape, Course, NotesShape, Fits, StateRecs, Sending

\* A pull that writes one file changes nothing else of the transfer.
LEMMA ShapePullWrite ==
    ASSUME Shape, NEW p \in Paths, PullWrite(p)
    PROVE  /\ Shape'
           /\ op'.pc = "write" /\ op'.st = op.st /\ op'.found = op.found /\ op'.side = op.side
           /\ op'.snap = op.snap /\ op'.scan = op.scan /\ op'.todo = op.todo \ {p}
  <1>1. op.pc = "write"
    BY DEF PullWrite
  <1>2. op' = [op EXCEPT !.todo = op.todo \ {p}]
    BY <1>1, WritingIs DEF PullWrite
  <1>3. /\ op'.pc = "write" /\ op'.st = op.st /\ op'.found = op.found /\ op'.side = op.side
        /\ op'.snap = op.snap /\ op'.scan = op.scan /\ op'.todo = op.todo \ {p}
        /\ op' \in [pc : {"write"}, st : StateRecs, found : Founds(Numbers), side : Sides,
                    snap : Trees, scan : Trees, todo : SUBSET Paths]
    BY <1>1, <1>2, WritingIs
  <1>4. local' = [local EXCEPT ![p] = op.snap[p]] /\ op.snap \in Trees
    BY <1>1, WritingIs DEF PullWrite
  <1>5. UNCHANGED <<web, head, made, labels, kind, commits, HEAD, main, merging, saved, seen, stray, told>>
    BY DEF PullWrite, project, standing
  <1>6. RepoShape'
    <2>1. local' \in Trees
      BY <1>4 DEF Shape, RepoShape, Trees
    <2>. QED
      BY <1>5, <2>1 DEF Shape, RepoShape
  <1>7. OpShape' /\ Course'
    BY <1>1, <1>3, <1>5, WritingIs DEF OpShape, Course, Sending, Fetching
  <1>8. NotesShape'
    <2>1. \A st \in Notes' : st \in Notes
      BY <1>1, <1>3, <1>5 DEF Notes
    <2>. QED
      BY <1>5, <2>1, NotesHere DEF Shape
  <1>. QED
    BY <1>3, <1>5, <1>6, <1>7, <1>8, Frames DEF Shape

\* The State a pull of a folder saves.
LEMMA PullSaveIs ==
    ASSUME Shape, PullSave
    PROVE  /\ op.pc = "write" /\ op.todo = {} /\ op' = Idle
           /\ Fits(saved') /\ saved'.pending = {} /\ saved'.fetched = op.st.fetched
           /\ saved'.files = Records(op.st.files, op.scan, op.snap, op.side)
           /\ saved'.synced = op.st.synced \cup Present(saved'.files)
           /\ saved'.head = op.st.head
           /\ saved'.web = IF Unsettled(op.st.files, op.scan, op.snap, op.side) = {}
                           THEN op.found.head ELSE op.st.web
           /\ UNCHANGED <<web, head, made, labels, onWeb, kind, here, seen, stray, told, lostHere, lostThere>>
  <1> DEFINE records == Records(op.st.files, op.scan, op.snap, op.side)
             synced == op.st.synced \cup Present(records)
             done == Unsettled(op.st.files, op.scan, op.snap, op.side) = {}
             pulled == IF done THEN PulledBy(op.found, op.st) ELSE op.st.pulled
             w == IF done THEN op.found.head ELSE op.st.web
             next == [op.st EXCEPT !.files = records, !.synced = synced, !.pulled = pulled, !.web = w]
  <1>0. op.pc = "write"
    BY DEF PullSave
  <1>1. /\ op.st \in StateRecs /\ Fits(op.st) /\ op.st.files \in Trees /\ op.scan \in Trees /\ op.snap \in Trees
        /\ op.found \in Founds(Numbers) /\ op.st.pending = {}
    BY <1>0, WritingIs DEF Fits
  <1>2. saved' = next
    BY <1>1 DEF PullSave, StateRecs
  <1>3. records \in Trees
    BY <1>1 DEF Records, Trees
  <1>4. synced \subseteq Paths
    BY <1>1 DEF Present, StateRecs
  <1>5. pulled \in Nat /\ w \in Int
    <2>1. op.st.pulled \in Nat /\ op.st.web \in Int /\ op.found.head \in Nat /\ op.found.versions \in Numbers
      BY <1>1 DEF StateRecs, Founds
    <2>2. PulledBy(op.found, op.st) \in Nat
      BY <1>1, <2>1, PulledByIn
    <2>. QED
      BY <2>1, <2>2
  <1>. HIDE DEF records, done, pulled
  <1>. HIDE DEF synced, w
  <1>6. next \in StateRecs
    BY <1>1, <1>3, <1>4, <1>5 DEF StateRecs
  <1>7. /\ next.files = records /\ next.synced = synced /\ next.pulled = pulled /\ next.web = w
        /\ next.fetched = op.st.fetched /\ next.head = op.st.head /\ next.pending = op.st.pending
        /\ next.pushed = op.st.pushed
    BY <1>1 DEF StateRecs
  <1>. HIDE DEF next
  <1>8. Fits(next)
    BY <1>1, <1>6, <1>7 DEF Fits
  <1>9. /\ op.todo = {} /\ op' = Idle
        /\ UNCHANGED <<web, head, made, labels, onWeb, kind, here, seen, stray, told, lostHere, lostThere>>
    BY DEF PullSave, project, standing
  <1>. QED
    BY <1>0, <1>1, <1>2, <1>7, <1>8, <1>9 DEF records, synced, w, done

\* The save that ends a folder's pull keeps the shape.
LEMMA ShapePullSave ==
    ASSUME Shape, PullSave
    PROVE  Shape'
  <1>1. OpShape' /\ Course'
    BY PullSaveIs DEF Idle, OpShape, Course, Sending, Fetching
  <1>2. NotesShape'
    <2>1. \A st \in Notes' : st \in Notes \/ Fits(st)
      BY PullSaveIs DEF Notes, Idle
    <2>. QED
      BY <2>1, PullSaveIs, NotesHere DEF Shape, here
  <1>. QED
    BY <1>1, <1>2, PullSaveIs, Frames DEF Shape, here

\* A pull of a repository stops with what was settled, or goes on with it.
LEMMA PullRepositoryIs ==
    ASSUME Shape, NEW merge \in BOOLEAN, PullRepository(merge)
    PROVE  /\ op.pc = "idle" /\ saved.pending = {} /\ kind # "folder"
           /\ Fits(saved) /\ Fits(Settle(saved))
           /\ \/ saved' = Settle(saved) /\ op' = op
              \/ /\ saved' = saved
                 /\ op' \in [pc : Fetching, st : StateRecs, merge : BOOLEAN, found : Founds(Histories)]
                 /\ op'.pc \in {"save", "fetch"} /\ op'.st = Settle(saved) /\ op'.found.head = head
                 /\ op'.pc = "save" => Settle(saved).fetched # {}
           /\ UNCHANGED <<web, head, made, labels, onWeb, kind, here, seen, stray, ghosts>>
  <1>1. /\ op.pc = "idle" /\ saved.pending = {} /\ kind # "folder"
        /\ UNCHANGED <<web, head, made, labels, onWeb, kind, here, seen, stray, ghosts>>
    BY DEF PullRepository, Free, project, standing
  <1>2. Fits(saved)
    BY InNotes DEF Shape, NotesShape
  <1>3. Fits(Settle(saved))
    BY <1>2, SettledIs DEF Shape
  <1> DEFINE st == Settle(saved)
             found == Discover(st.pulled)
             quiet == Quiet(found, st)
             stop == \/ quiet /\ ~(st.fetched # {} /\ merge)
                     \/ merge /\ (Dirty # {} \/ merging # 0)
             history == [s \in found.versions |-> labels[s]]
             full == [found EXCEPT !.versions = history]
             pc == IF quiet THEN "save" ELSE "fetch"
  <1>4. found \in Founds(Numbers) /\ found.versions \subseteq 1..Len(labels) /\ found.head = head
    BY DiscoverIs DEF Shape
  <1>5. IF stop THEN saved' = st /\ UNCHANGED op
        ELSE op' = [pc |-> pc, st |-> st, merge |-> merge, found |-> full] /\ UNCHANGED saved
    <2>. HIDE DEF st
    <2>1. [found EXCEPT !.versions = [s \in @ |-> labels[s]]] = full
      <3>. HIDE DEF found
      <3>. QED
        BY <1>4 DEF Founds
    <2>. HIDE DEF found, full, quiet
    <2>. QED
      BY <2>1 DEF PullRepository, found, quiet, st
  <1>6. CASE stop
    BY <1>1, <1>2, <1>3, <1>5, <1>6
  <1>7. CASE ~stop
    <2>1. op' = [pc |-> pc, st |-> st, merge |-> merge, found |-> full] /\ saved' = saved
      <3>. HIDE DEF full, pc, st
      <3>. QED
        BY <1>5, <1>7 DEF st
    <2>2. pc = "save" => st.fetched # {}
      <3>. HIDE DEF st, quiet
      <3>. QED
        BY <1>7
    <2>. HIDE DEF found, quiet, st
    <2>3. history \in Histories
      <3>1. history \in [found.versions -> LabelRecs]
        <4>1. \A s \in found.versions : labels[s] \in LabelRecs
          BY <1>4 DEF Shape, ProjectShape
        <4>. QED
          BY <4>1
      <3>2. found.versions \in Numbers
        BY <1>4 DEF Founds
      <3>. HIDE DEF history
      <3>. QED
        BY <3>1, <3>2 DEF Histories
    <2>. HIDE DEF history
    <2>4. full \in Founds(Histories) /\ full.head = head
      BY <1>4, <2>3 DEF Founds
    <2>. HIDE DEF full
    <2>5. pc \in {"save", "fetch"}
      OBVIOUS
    <2>. HIDE DEF pc
    <2>6. st \in StateRecs
      BY <1>3 DEF st, Fits
    <2>7. op' \in [pc : Fetching, st : StateRecs, merge : BOOLEAN, found : Founds(Histories)]
      BY <2>1, <2>4, <2>5, <2>6 DEF Fetching
    <2>8. op'.pc = pc /\ op'.st = st /\ op'.found = full
      BY <2>1
    <2>. QED
      BY <1>1, <1>2, <1>3, <2>1, <2>2, <2>4, <2>5, <2>7, <2>8 DEF st
  <1>. QED
    BY <1>6, <1>7

\* A repository that finds versions to fetch keeps the shape.
LEMMA ShapePullRepository ==
    ASSUME Shape, NEW merge \in BOOLEAN, PullRepository(merge)
    PROVE  Shape'
  <1>1. NotesShape'
    <2>1. \A st \in Notes' : st \in Notes \/ Fits(st)
      BY PullRepositoryIs DEF Notes
    <2>. QED
      BY <2>1, PullRepositoryIs, NotesHere DEF Shape, here
  <1>2. CASE op' = op
    BY <1>1, <1>2, PullRepositoryIs, Frames DEF Shape, here, ghosts
  <1>3. CASE /\ op' \in [pc : Fetching, st : StateRecs, merge : BOOLEAN, found : Founds(Histories)]
             /\ op'.pc \in {"save", "fetch"} /\ op'.st = Settle(saved)
             /\ op'.pc = "save" => Settle(saved).fetched # {}
    <2>1. op'.st.pending = {} /\ kind' # "folder"
      BY <1>3, PullRepositoryIs, SettledIs DEF Shape
    <2>2. OpShape'
      BY <1>3 DEF OpShape, Sending, Fetching
    <2>3. Course'
      BY <1>3, <2>1 DEF Course, Sending, Fetching
    <2>. QED
      BY <1>1, <2>2, <2>3, PullRepositoryIs, Frames DEF Shape, here, ghosts
  <1>. QED
    BY <1>2, <1>3, PullRepositoryIs

\* What a fetch does: a new State, and a branch that shows the project.
Fetched(note) ==
    /\ Fits(note)'
    /\ note.files = op.st.files /\ note.pending = op.st.pending /\ note.head = op.st.head
    /\ note.web = op.found.head /\ op.st.synced \subseteq note.synced
    /\ \/ /\ UNCHANGED <<commits, main>>
          /\ note.fetched = op.st.fetched /\ note.synced = op.st.synced \cup Present(web)
          /\ \A p \in Paths : web[p] # Absent \/ p \in op.st.synced => Branch(op.st)[p] = web[p]
          /\ \/ op.st.fetched = {} /\ saved' = note /\ op' = Idle
             \/ op.st.fetched # {} /\ saved' = saved /\ op' = [op EXCEPT !.pc = "save", !.st = note]
       \/ /\ main' # 0 /\ note.fetched = {[commit |-> main', files |-> web]}
          /\ \A p \in Paths : web[p] # Absent \/ p \in op.st.synced => TreeOf(commits', main')[p] = web[p]
          /\ saved' = saved /\ op' = [op EXCEPT !.pc = "save", !.st = note]

\* A fetch grows the history, moves its branch forward and notes what it read.
LEMMA FetchIs ==
    ASSUME Shape, Fetch
    PROVE  /\ op.pc = "fetch" /\ Fits(op.st) /\ op.st.pending = {} /\ kind # "folder"
           /\ op \in [pc : Fetching, st : StateRecs, merge : BOOLEAN, found : Founds(Histories)]
           /\ Grown(commits') /\ Extends(commits, commits')
           /\ main' \in 0..Len(commits') /\ After(commits', main, main')
           /\ UNCHANGED <<web, head, made, labels, onWeb, kind, local, HEAD, merging, seen, stray, ghosts>>
           /\ \E note : Fetched(note)
  <1> DEFINE st == op.st
             versions == op.found.versions
             first == IF main # 0 THEN main ELSE st.head
             known == st.synced \cup Present(st.files) \cup Present(Recorded(st))
             start == [list |-> commits, tip |-> first, new |-> 0, known |-> known]
             walked == Walk(start, versions, st)
             chain == StandsOn(walked, web)
             synced == st.synced \cup Present(web)
                         \cup UNION {Present(versions[n].tree) : n \in DOMAIN versions}
             read == [st EXCEPT !.web = op.found.head, !.synced = synced]
             numbers == [op.found EXCEPT !.versions = DOMAIN versions]
             pulled == PulledBy(numbers, st)
             pushed == {r \in st.pushed : r.key \notin {versions[n].key : n \in DOMAIN versions}}
             fetched == {[commit |-> chain.tip, files |-> web]}
             full == [read EXCEPT !.pulled = pulled, !.fetched = fetched, !.pushed = pushed]
  <1>1. /\ op.pc = "fetch" /\ op.st.pending = {} /\ kind # "folder"
        /\ op \in [pc : Fetching, st : StateRecs, merge : BOOLEAN, found : Founds(Histories)]
        /\ UNCHANGED <<web, head, made, labels, onWeb, kind, local, HEAD, merging, seen, stray, ghosts>>
    BY DEF Fetch, Shape, Course, OpShape, Sending, Fetching, project, standing
  <1>2. Fits(st)
    BY <1>1, InNotes DEF Shape, NotesShape
  <1>3. /\ Grown(commits) /\ main \in 0..Len(commits) /\ Len(commits) \in Nat /\ web \in Trees
        /\ st \in StateRecs /\ op.found \in Founds(Histories) /\ versions \in Histories
        /\ op.found.head \in Nat /\ st.files \in Trees
    BY <1>1, <1>2 DEF Shape, RepoShape, ProjectShape, Fits, Founds, Grown, StateRecs
  <1>4. /\ st.head \in 0..Len(commits) /\ \A r \in st.pushed : r.commit \in 0..Len(commits)
    BY <1>2, <1>3 DEF Fits, StateRecs
  <1>5. first \in 0..Len(commits) /\ (main # 0 => first = main)
    BY <1>3, <1>4
  <1>6. Chaining(start, commits, first, known) /\ start.new = 0 /\ start.tip = first /\ start.list = commits
    <2>1. Extends(commits, commits) /\ commits \in Seq(CommitRecs)
      BY <1>3 DEF Extends, Grown
    <2>2. After(commits, first, first)
      BY DEF After, Reach
    <2>3. known \subseteq Paths
      BY <1>3 DEF Present, StateRecs
    <2>. HIDE DEF first, known
    <2>. QED
      BY <1>3, <1>5, <2>1, <2>2, <2>3 DEF Chaining
  <1>7. st.synced \subseteq known
    OBVIOUS
  <1>. HIDE DEF start, versions
  <1>8. /\ Chaining(walked, commits, first, known)
        /\ walked.new = 0 => walked = start /\ DOMAIN versions = {}
    <2>. HIDE DEF first, known, st
    <2>. QED
      BY <1>3, <1>4, <1>6, WalkKeeps
  <1>. HIDE DEF walked, first, known
  <1>9. /\ Chaining(chain, commits, first, known) /\ chain.tip # 0
        /\ chain.new = 0 => chain = walked
        /\ \A p \in Paths : web[p] # Absent \/ p \in walked.known =>
             TreeOf(chain.list, chain.tip)[p] = web[p]
    BY <1>3, <1>8, ChainedHead
  <1>10. st.synced \subseteq walked.known
    BY <1>7, <1>8 DEF Chaining
  <1>. HIDE DEF chain
  <1>11. /\ Grown(chain.list) /\ Extends(commits, chain.list) /\ chain.tip \in 0..Len(chain.list)
         /\ After(chain.list, first, chain.tip) /\ chain.tip \in Nat
    BY <1>9 DEF Chaining, Grown
  <1>12. \A p \in Paths : web[p] # Absent \/ p \in st.synced => TreeOf(chain.list, chain.tip)[p] = web[p]
    BY <1>9, <1>10
  <1>14. /\ read \in StateRecs /\ read.files = st.files /\ read.pending = st.pending /\ read.head = st.head
         /\ read.web = op.found.head /\ read.synced = synced /\ read.fetched = st.fetched
         /\ read.pushed = st.pushed
    <2>1. synced \in SUBSET Paths
      BY <1>3 DEF StateRecs, Present
    <2>2. op.found.head \in Int /\ st \in StateRecs
      BY <1>3
    <2>3. PICK h : h = op.found.head
      OBVIOUS
    <2>. HIDE DEF synced, st
    <2>4. read = [st EXCEPT !.web = h, !.synced = synced]
      BY <2>3
    <2>5. h \in Int
      BY <2>2, <2>3
    <2>. HIDE DEF read
    <2>6. read \in StateRecs
      BY <2>1, <2>2, <2>4, <2>5 DEF StateRecs
    <2>. QED
      BY <2>2, <2>3, <2>4, <2>6 DEF StateRecs
  <1>13. /\ commits' = chain.list
         /\ IF chain.new = 0
            THEN /\ main' = main
                 /\ IF st.fetched = {}
                    THEN saved' = read /\ op' = Idle
                    ELSE saved' = saved /\ op' = [op EXCEPT !.pc = "save", !.st = read]
            ELSE /\ main' = chain.tip
                 /\ saved' = saved
                 /\ op' = [op EXCEPT !.pc = "save", !.st = full]
    <2>1. read = [st EXCEPT !.web = op.found.head,
                            !.synced = @ \cup Present(web)
                                         \cup UNION {Present(versions[n].tree) : n \in DOMAIN versions}]
      <3>. HIDE DEF st
      <3>. QED
        BY <1>3 DEF StateRecs
    <2>2. numbers = [op.found EXCEPT !.versions = DOMAIN @]
      BY <1>3 DEF Founds, versions
    <2>3. read \in StateRecs /\ read.pushed = st.pushed
      BY <1>14
    <2>. HIDE DEF read
    <2>4. full = [read EXCEPT !.pulled = pulled, !.fetched = fetched,
                    !.pushed = {r \in @ : r.key \notin {versions[n].key : n \in DOMAIN versions}}]
      <3>1. pushed = {r \in read.pushed : r.key \notin {versions[n].key : n \in DOMAIN versions}}
        BY <2>3
      <3>. HIDE DEF pushed, pulled, fetched
      <3>2. full = [read EXCEPT !.pulled = pulled, !.fetched = fetched,
                      !.pushed = {r \in read.pushed : r.key \notin {versions[n].key : n \in DOMAIN versions}}]
        BY <3>1
      <3>. QED
        BY <2>3, <3>2 DEF StateRecs
    <2>. HIDE DEF full, numbers
    <2>. QED
      BY <2>1, <2>2, <2>4 DEF Fetch, chain, walked, start, known, first, versions, StandsOn
  <1>15. pulled \in Nat
    <2>1. DOMAIN versions \in Numbers
      BY <1>3 DEF Histories
    <2>2. numbers.versions = DOMAIN versions
      BY <1>3 DEF Founds
    <2>3. st \in StateRecs
      BY <1>3
    <2>. HIDE DEF numbers, st
    <2>. QED
      BY <2>1, <2>2, <2>3, PulledByIn
  <1>16. fetched \subseteq Fetches
    BY <1>3, <1>11 DEF Fetches
  <1>17. pushed \subseteq st.pushed
    OBVIOUS
  <1>18. st.synced \subseteq synced
    OBVIOUS
  <1>. HIDE DEF read, pulled, pushed, fetched
  <1>19. /\ full \in StateRecs /\ full.files = st.files /\ full.pending = st.pending /\ full.head = st.head
         /\ full.web = op.found.head /\ full.synced = synced /\ full.fetched = fetched
         /\ full.pushed = pushed
    <2>. HIDE DEF st, synced
    <2>. QED
      BY <1>14, <1>15, <1>16, <1>17 DEF StateRecs
  <1>. HIDE DEF full
  <1>20. Grown(commits') /\ Extends(commits, commits') /\ Len(commits') \in Nat /\ Len(commits) <= Len(commits')
    BY <1>11, <1>13 DEF Extends, Grown
  <1>21. st.head <= Len(commits') /\ \A r \in st.pushed : r.commit <= Len(commits')
    BY <1>3, <1>4, <1>20
  <1>22. CASE chain.new = 0
    <2>1. chain = walked /\ walked = start /\ DOMAIN versions = {}
      BY <1>8, <1>9, <1>22
    <2>2. chain.list = commits /\ chain.tip = first
      BY <1>6, <2>1
    <2>3. commits' = commits /\ main' = main
      BY <1>13, <1>22, <2>2
    <2>4. synced = st.synced \cup Present(web)
      BY <2>1
    <2>0. PICK note : note = read
      OBVIOUS
    <2>5. Fits(note)
      BY <1>2, <1>14, <2>0 DEF Fits
    <2>6. Fits(note)'
      BY <2>3, <2>5 DEF Fits
    <2>7. TreeOf(chain.list, chain.tip) = Branch(st)
      BY <2>2 DEF Branch, first
    <2>8. Fetched(note)
      <3>1. \/ st.fetched = {} /\ saved' = note /\ op' = Idle
            \/ st.fetched # {} /\ saved' = saved /\ op' = [op EXCEPT !.pc = "save", !.st = note]
        BY <1>13, <1>22, <2>0
      <3>. HIDE DEF synced
      <3>. QED
        BY <1>12, <1>14, <1>18, <2>0, <2>3, <2>4, <2>6, <2>7, <3>1 DEF Fetched
    <2>9. After(commits', main, main') /\ main' \in 0..Len(commits')
      BY <1>3, <2>3 DEF After, Reach
    <2>. QED
      BY <1>1, <1>2, <1>20, <2>8, <2>9
  <1>23. CASE chain.new # 0
    <2>0. PICK note : note = full
      OBVIOUS
    <2>1. main' = chain.tip /\ commits' = chain.list /\ saved' = saved /\ op' = [op EXCEPT !.pc = "save", !.st = note]
      BY <1>13, <1>23, <2>0
    <2>2. main' \in 0..Len(commits') /\ main' # 0
      BY <1>9, <1>11, <2>1
    <2>3. After(commits', main, main')
      BY <1>5, <1>11, <2>1 DEF After
    <2>4. fetched = {[commit |-> main', files |-> web]}
      BY <2>1 DEF fetched
    <2>5. \A f \in fetched : f.commit \in Reach(commits', main')
      BY <2>2, <2>4 DEF Reach
    <2>6. Fits(note)'
      <3>1. \A a, b \in fetched : a = b
        BY <2>4
      <3>2. /\ note \in StateRecs /\ note.pending = {} /\ note.head = st.head /\ note.fetched = fetched
            /\ note.pushed \subseteq st.pushed
        BY <1>1, <1>17, <1>19, <2>0
      <3>3. note.head <= Len(commits') /\ \A r \in note.pushed : r.commit <= Len(commits')
        BY <1>21, <3>2
      <3>4. \A f \in note.fetched : f.commit \in Reach(commits', main')
        BY <2>5, <3>2
      <3>5. (\A a, b \in note.fetched : a = b) /\ \A r \in note.pending : FALSE
        BY <3>1, <3>2
      <3>. QED
        BY <3>2, <3>3, <3>4, <3>5 DEF Fits
    <2>7. Fetched(note)
      <3>. HIDE DEF synced
      <3>. QED
        BY <1>12, <1>18, <1>19, <2>0, <2>1, <2>2, <2>4, <2>6 DEF Fetched
    <2>. QED
      BY <1>1, <1>2, <1>20, <2>2, <2>3, <2>7
  <1>. QED
    BY <1>22, <1>23

\* A fetch keeps the shapes, and what the notes say stays on the branch.
LEMMA ShapeFetch ==
    ASSUME Shape, Fetch
    PROVE  Shape'
  <1>1. PICK note : Fetched(note)
    BY FetchIs
  <1>2. /\ op.st.pending = {} /\ kind # "folder" /\ Grown(commits') /\ Extends(commits, commits')
        /\ main' \in 0..Len(commits') /\ After(commits', main, main')
        /\ UNCHANGED <<web, head, made, labels, kind, local, HEAD, merging, seen, stray, ghosts>>
        /\ op \in [pc : Fetching, st : StateRecs, merge : BOOLEAN, found : Founds(Histories)]
    BY FetchIs
  <1>3. /\ Grown(commits) /\ main \in 0..Len(commits) /\ HEAD \in 0..Len(commits)
        /\ merging \in 0..Len(commits) /\ local \in Trees /\ kind \in Kinds /\ HEAD # 0
    BY <1>2 DEF Shape, RepoShape
  <1>4. RepoShape'
    <2>1. HEAD \in 0..Len(commits') /\ merging \in 0..Len(commits')
      BY <1>2, <1>3, ExtendsReach
    <2>. QED
      BY <1>2, <1>3, <2>1 DEF RepoShape
  <1>5. ASSUME NEW st \in Notes
        PROVE  Fits(st)'
    BY <1>2, <1>3, FitsGrows DEF Shape, NotesShape
  <1>6. Fits(note)' /\ note \in StateRecs /\ note.pending = {}
    BY <1>1, <1>2 DEF Fetched, Fits
  <1>7. \/ saved' = note /\ op' = Idle
        \/ saved' = saved /\ op' = [op EXCEPT !.pc = "save", !.st = note] /\ note.fetched # {}
    BY <1>1 DEF Fetched
  <1>8. /\ OpShape' /\ Course'
        /\ \A st \in Notes' : st \in Notes \/ st = note
    <2>1. CASE saved' = note /\ op' = Idle
      <3>1. OpShape' /\ Course'
        BY <2>1 DEF OpShape, Course, Idle, Sending, Fetching
      <3>2. \A st \in Notes' : st \in Notes \/ st = note
        BY <1>2, <2>1 DEF Notes, Idle
      <3>. QED
        BY <3>1, <3>2
    <2>2. CASE saved' = saved /\ op' = [op EXCEPT !.pc = "save", !.st = note] /\ note.fetched # {}
      <3>1. /\ op' \in [pc : Fetching, st : StateRecs, merge : BOOLEAN, found : Founds(Histories)]
            /\ op'.pc = "save" /\ op'.st = note
        BY <1>2, <1>6, <2>2 DEF Fetching
      <3>2. OpShape' /\ Course'
        BY <1>2, <1>6, <2>2, <3>1 DEF OpShape, Course, Sending, Fetching
      <3>3. \A st \in Notes' : st \in Notes \/ st = note
        BY <1>2, <2>2, <3>1 DEF Notes
      <3>. QED
        BY <3>2, <3>3
    <2>. QED
      BY <1>7, <2>1, <2>2
  <1>9. NotesShape'
    BY <1>5, <1>6, <1>8 DEF NotesShape
  <1>10. StrayShape'
    BY <1>2, <1>3, StrayGrows DEF Shape, ghosts
  <1>. QED
    BY <1>2, <1>4, <1>8, <1>9, <1>10, Frames DEF Shape

\* What was fetched is saved, before git merges it.
LEMMA PullSaveFetchedIs ==
    ASSUME Shape, PullSaveFetched
    PROVE  /\ op.pc = "save" /\ saved' = op.st /\ op.st.pending = {} /\ op.st.fetched # {} /\ kind # "folder"
           /\ \/ op' = Idle
              \/ /\ op'.pc = "merge" /\ op'.st = op.st
                 /\ op' \in [pc : Fetching, st : StateRecs, merge : BOOLEAN, found : Founds(Histories)]
           /\ UNCHANGED <<web, head, made, labels, onWeb, kind, here, seen, stray, ghosts>>
           /\ Notes' \subseteq Notes
           /\ Shape'
  <1>1. /\ op.pc = "save" /\ saved' = op.st
        /\ op' = IF op.merge THEN [op EXCEPT !.pc = "merge"] ELSE Idle
        /\ UNCHANGED <<web, head, made, labels, onWeb, kind, here, seen, stray, ghosts>>
    BY DEF PullSaveFetched, project, standing
  <1>2. /\ op.st.pending = {} /\ op.st.fetched # {} /\ kind # "folder"
        /\ op \in [pc : Fetching, st : StateRecs, merge : BOOLEAN, found : Founds(Histories)]
    BY <1>1 DEF Shape, Course, OpShape, Sending, Fetching
  <1>3. \/ op' = Idle
        \/ /\ op'.pc = "merge" /\ op'.st = op.st
           /\ op' \in [pc : Fetching, st : StateRecs, merge : BOOLEAN, found : Founds(Histories)]
    BY <1>1, <1>2 DEF Fetching
  <1>4. OpShape' /\ Course'
    <2>1. CASE op' = Idle
      BY <2>1 DEF OpShape, Course, Idle, Sending, Fetching
    <2>2. CASE /\ op'.pc = "merge" /\ op'.st = op.st
               /\ op' \in [pc : Fetching, st : StateRecs, merge : BOOLEAN, found : Founds(Histories)]
      BY <1>1, <1>2, <2>2 DEF OpShape, Course, Sending, Fetching
    <2>. QED
      BY <1>3, <2>1, <2>2
  <1>5. Notes' \subseteq Notes
    BY <1>1, <1>3 DEF Notes, Idle
  <1>6. NotesShape'
    BY <1>1, <1>5, NotesHere DEF Shape, here
  <1>. QED
    BY <1>1, <1>2, <1>3, <1>4, <1>5, <1>6, Frames DEF Shape, here, ghosts

\* git stops: the tree was not clean, or both sides changed a file.
MergeStops ==
    /\ UNCHANGED <<commits, HEAD, taken>>
    /\ \/ op' = Idle /\ UNCHANGED <<local, merging>>
       \/ op' = Idle /\ merging' = main /\ local' \in Trees
       \/ /\ op' = [op EXCEPT !.pc = "promote"] /\ main \in Reach(commits, HEAD)
          /\ UNCHANGED <<local, merging>>

\* git merges: forward, or with a commit whose files are each from a side.
MergeEnds ==
    /\ op' = [op EXCEPT !.pc = "promote"] /\ merging = 0 /\ merging' = 0
    /\ main \in Reach(commits', HEAD')
    /\ HEAD' \in 1..Len(commits')
    /\ taken' = taken \cup UNION {Held(commits[c].tree) : c \in Reach(commits, main)}
    /\ local' \in Trees
    /\ \A p \in Paths : local'[p] \in {local[p], commits[HEAD].tree[p], commits[main].tree[p]}
    /\ \A c \in Reach(commits', HEAD') :
         \/ c \in Reach(commits, HEAD) \cup Reach(commits, main)
         \/ \A p \in Paths : commits'[c].tree[p] \in {commits[HEAD].tree[p], commits[main].tree[p]}

\* A merge, whichever way it goes, is of commits of the repository.
LEMMA MergeFetchedIs ==
    ASSUME Shape, MergeFetched
    PROVE  /\ op.pc = "merge" /\ op.st.pending = {} /\ op.st.fetched # {} /\ kind # "folder"
           /\ op \in [pc : Fetching, st : StateRecs, merge : BOOLEAN, found : Founds(Histories)]
           /\ main \in 1..Len(commits) /\ HEAD \in 1..Len(commits)
           /\ Grown(commits') /\ Extends(commits, commits')
           /\ UNCHANGED <<web, head, made, labels, onWeb, kind, main, saved, seen, stray, told, lostHere, lostThere>>
           /\ MergeStops \/ MergeEnds
  <1>1. /\ op.pc = "merge"
        /\ UNCHANGED <<web, head, made, labels, onWeb, kind, main, saved, seen, stray, told, lostHere, lostThere>>
    BY DEF MergeFetched, project, standing
  <1>2. /\ op.st.pending = {} /\ op.st.fetched # {} /\ kind # "folder"
        /\ op \in [pc : Fetching, st : StateRecs, merge : BOOLEAN, found : Founds(Histories)]
    BY <1>1 DEF Shape, Course, OpShape, Sending, Fetching
  <1>3. Fits(op.st)
    BY <1>1, InNotes DEF Shape, NotesShape
  <1>4. Grown(commits) /\ local \in Trees /\ Len(commits) \in Nat /\ main \in 0..Len(commits)
        /\ merging \in 0..Len(commits)
    BY DEF Shape, RepoShape, Grown
  <1>5. main \in 1..Len(commits)
    <2>1. PICK f \in op.st.fetched : TRUE
      BY <1>2
    <2>2. main # 0
      BY <1>3, <2>1, Promoted DEF Shape
    <2>. QED
      BY <1>4, <2>2
  <1>6. HEAD \in 1..Len(commits)
    BY <1>2, <1>4 DEF Shape, RepoShape
  <1> DEFINE ours == TreeOf(commits, HEAD)
             theirs == TreeOf(commits, main)
             base == MergeBase(HEAD, main)
             forward == IsAncestor(commits, HEAD, main)
             both == IF forward THEN theirs ELSE Merged(ours, theirs, base)
             torn == IF forward THEN {} ELSE Conflicts(ours, theirs, base)
             work == [p \in Paths |-> IF p \in Dirty THEN local[p] ELSE both[p]]
             parents == {HEAD, main}
  <1>7. ours = commits[HEAD].tree /\ theirs = commits[main].tree /\ ours \in Trees /\ theirs \in Trees
    BY <1>4, <1>5, <1>6, InRepository DEF TreeOf
  <1>8. both \in Trees /\ \A p \in Paths : both[p] \in {ours[p], theirs[p]}
    <2>. HIDE DEF ours, theirs, base, forward
    <2>. QED
      BY <1>7 DEF Merged, Trees
  <1>. HIDE DEF ours, theirs, base, both
  <1>9. work \in Trees /\ \A p \in Paths : work[p] \in {local[p], ours[p], theirs[p]}
    BY <1>4, <1>8 DEF Trees
  <1>. HIDE DEF work
  <1>10. \/ /\ IsAncestor(commits, main, HEAD) /\ op' = [op EXCEPT !.pc = "promote"]
            /\ UNCHANGED <<local, commits, HEAD, merging, taken>>
         \/ op' = Idle /\ UNCHANGED <<local, commits, HEAD, merging, taken>>
         \/ local' = work /\ merging' = main /\ op' = Idle /\ UNCHANGED <<commits, HEAD, taken>>
         \/ /\ local' = work /\ merging = 0
            /\ commits' = IF forward THEN commits ELSE Append(commits, Commit(both, {HEAD, main}, 0))
            /\ HEAD' = IF forward THEN main ELSE Len(commits')
            /\ taken' = taken \cup UNION {Held(commits[c].tree) : c \in Reach(commits, main)}
            /\ op' = [op EXCEPT !.pc = "promote"]
            /\ UNCHANGED merging
    <2>. QED
      BY DEF MergeFetched, ours, theirs, base, both, work
  <1>11. Extends(commits, commits)
    BY <1>4 DEF Extends
  <1>12. CASE /\ IsAncestor(commits, main, HEAD) /\ op' = [op EXCEPT !.pc = "promote"]
              /\ UNCHANGED <<local, commits, HEAD, merging, taken>>
    <2>1. MergeStops
      BY <1>12 DEF MergeStops, IsAncestor
    <2>. QED
      BY <1>1, <1>2, <1>4, <1>5, <1>6, <1>11, <1>12, <2>1
  <1>13. CASE op' = Idle /\ UNCHANGED <<local, commits, HEAD, merging, taken>>
    <2>1. MergeStops
      BY <1>13 DEF MergeStops
    <2>. QED
      BY <1>1, <1>2, <1>4, <1>5, <1>6, <1>11, <1>13, <2>1
  <1>14. CASE local' = work /\ merging' = main /\ op' = Idle /\ UNCHANGED <<commits, HEAD, taken>>
    <2>1. MergeStops
      BY <1>9, <1>14 DEF MergeStops
    <2>. QED
      BY <1>1, <1>2, <1>4, <1>5, <1>6, <1>11, <1>14, <2>1
  <1>15. CASE /\ local' = work /\ merging = 0
              /\ commits' = IF forward THEN commits ELSE Append(commits, Commit(both, {HEAD, main}, 0))
              /\ HEAD' = IF forward THEN main ELSE Len(commits')
              /\ taken' = taken \cup UNION {Held(commits[c].tree) : c \in Reach(commits, main)}
              /\ op' = [op EXCEPT !.pc = "promote"]
              /\ UNCHANGED merging
    <2>1. local' \in Trees /\ \A p \in Paths : local'[p] \in {local[p], commits[HEAD].tree[p], commits[main].tree[p]}
      BY <1>7, <1>9, <1>15
    <2>2. CASE forward
      <3>1. commits' = commits /\ HEAD' = main
        BY <1>15, <2>2
      <3>2. main \in Reach(commits', HEAD') /\ HEAD' \in 1..Len(commits')
        BY <1>5, <3>1 DEF Reach
      <3>3. MergeEnds
        BY <1>15, <2>1, <3>1, <3>2 DEF MergeEnds
      <3>. QED
        BY <1>1, <1>2, <1>4, <1>5, <1>6, <1>11, <3>1, <3>3
    <2>3. CASE ~forward
      <3>1. commits' = Append(commits, Made(commits, parents, both, 0)) /\ HEAD' = Len(commits')
        BY <1>15, <2>3 DEF Commit, Made
      <3>2. parents \in SUBSET (1..Len(commits))
        BY <1>5, <1>6
      <3>3. /\ Grown(commits') /\ Extends(commits, commits') /\ Len(commits') = Len(commits) + 1
            /\ commits'[Len(commits) + 1] = Made(commits, parents, both, 0)
            /\ Reach(commits', Len(commits) + 1) = {Len(commits) + 1} \cup UNION {Reach(commits, c) : c \in parents}
        <4>. HIDE DEF parents
        <4>. QED
          BY <1>4, <1>8, <3>1, <3>2, AppendGrows
      <3>4. HEAD' = Len(commits) + 1 /\ HEAD' \in 1..Len(commits')
        BY <1>4, <3>1, <3>3
      <3>5. main \in Reach(commits, main)
        BY <1>5 DEF Reach
      <3>6. main \in Reach(commits', HEAD')
        BY <3>3, <3>4, <3>5
      <3>7. ASSUME NEW c \in Reach(commits', HEAD')
            PROVE  \/ c \in Reach(commits, HEAD) \cup Reach(commits, main)
                   \/ \A p \in Paths : commits'[c].tree[p] \in {commits[HEAD].tree[p], commits[main].tree[p]}
        <4>1. c = HEAD' \/ c \in Reach(commits, HEAD) \cup Reach(commits, main)
          BY <3>3, <3>4
        <4>2. commits'[HEAD'].tree = both
          BY <3>3, <3>4 DEF Made
        <4>. QED
          BY <1>7, <1>8, <4>1, <4>2
      <3>8. MergeEnds
        BY <1>15, <2>1, <3>4, <3>6, <3>7 DEF MergeEnds
      <3>. QED
        BY <1>1, <1>2, <1>5, <1>6, <3>3, <3>8
    <2>. QED
      BY <2>2, <2>3
  <1>. HIDE DEF forward, torn
  <1>. QED
    BY <1>10, <1>12, <1>13, <1>14, <1>15

\* A merge keeps the shapes.
LEMMA ShapeMergeFetched ==
    ASSUME Shape, MergeFetched
    PROVE  Shape' /\ Notes' \subseteq Notes
  <1>1. /\ op.pc = "merge" /\ op.st.pending = {} /\ op.st.fetched # {} /\ kind # "folder"
        /\ op \in [pc : Fetching, st : StateRecs, merge : BOOLEAN, found : Founds(Histories)]
        /\ main \in 1..Len(commits) /\ HEAD \in 1..Len(commits)
        /\ Grown(commits') /\ Extends(commits, commits')
        /\ UNCHANGED <<web, head, made, labels, onWeb, kind, main, saved, seen, stray, told, lostHere, lostThere>>
    BY MergeFetchedIs
  <1>2. /\ op' = Idle \/ op' = [op EXCEPT !.pc = "promote"]
        /\ local' \in Trees /\ merging' \in {main, merging, 0} /\ HEAD' \in 1..Len(commits')
    <2>1. HEAD \in 1..Len(commits') /\ local \in Trees
      <3>1. Len(commits) \in Nat /\ Len(commits') \in Nat /\ Len(commits) <= Len(commits')
        BY <1>1 DEF Extends, Shape, RepoShape, Grown
      <3>. QED
        BY <1>1, <3>1 DEF Shape, RepoShape
    <2>2. CASE MergeStops
      BY <2>1, <2>2 DEF MergeStops
    <2>3. CASE MergeEnds
      BY <2>1, <2>3 DEF MergeEnds
    <2>. QED
      BY <2>2, <2>3, MergeFetchedIs
  <1>3. /\ Grown(commits) /\ merging \in 0..Len(commits) /\ main \in 0..Len(commits) /\ kind \in Kinds
    BY DEF Shape, RepoShape
  <1>4. RepoShape'
    <2>1. merging \in 0..Len(commits') /\ main \in 0..Len(commits')
      BY <1>1, <1>3, ExtendsReach
    <2>2. Len(commits') \in Nat
      BY <1>1 DEF Grown
    <2>. QED
      BY <1>1, <1>2, <1>3, <2>1, <2>2 DEF RepoShape
  <1>5. /\ OpShape' /\ Course' /\ Notes' \subseteq Notes
    <2>1. CASE op' = Idle
      <3>1. OpShape' /\ Course'
        BY <2>1 DEF OpShape, Course, Idle, Sending, Fetching
      <3>2. Notes' \subseteq Notes
        BY <1>1, <2>1 DEF Notes, Idle
      <3>. QED
        BY <3>1, <3>2
    <2>2. CASE op' = [op EXCEPT !.pc = "promote"]
      <3>1. /\ op' \in [pc : Fetching, st : StateRecs, merge : BOOLEAN, found : Founds(Histories)]
            /\ op'.pc = "promote" /\ op'.st = op.st
        BY <1>1, <2>2 DEF Fetching
      <3>2. OpShape' /\ Course'
        BY <1>1, <3>1 DEF OpShape, Course, Sending, Fetching
      <3>3. Notes' \subseteq Notes
        BY <1>1, <3>1 DEF Notes
      <3>. QED
        BY <3>2, <3>3
    <2>. QED
      BY <1>2, <2>1, <2>2
  <1>6. NotesShape'
    BY <1>1, <1>5, NotesGrow
  <1>7. StrayShape'
    BY <1>1, <1>3, StrayGrows DEF Shape
  <1>. QED
    BY <1>1, <1>4, <1>5, <1>6, <1>7, Frames DEF Shape

\* What was merged is promoted.
LEMMA PullPromoteIs ==
    ASSUME Shape, PullPromote
    PROVE  /\ op.pc = "promote" /\ op' = Idle /\ op.st.pending = {} /\ op.st.fetched # {}
           /\ Fits(op.st) /\ saved' = Promote(commits, op.st)
           /\ UNCHANGED <<web, head, made, labels, onWeb, kind, here, seen, stray, ghosts>>
           /\ Shape'
  <1>1. /\ op.pc = "promote" /\ op' = Idle
        /\ UNCHANGED <<web, head, made, labels, onWeb, kind, here, seen, stray, ghosts>>
    BY DEF PullPromote, project, standing
  <1>2. op.st.pending = {} /\ op.st.fetched # {}
    BY <1>1 DEF Shape, Course, Sending, Fetching
  <1>3. Fits(op.st)
    BY <1>1, InNotes DEF Shape, NotesShape
  <1>4. saved' = Promote(commits, op.st)
    BY <1>2 DEF PullPromote
  <1>5. Fits(saved')
    <2>1. PICK f \in op.st.fetched : TRUE
      BY <1>2
    <2>. QED
      BY <1>3, <1>4, <2>1, Promoted DEF Shape
  <1>6. OpShape' /\ Course'
    BY <1>1 DEF OpShape, Course, Idle, Sending, Fetching
  <1>7. NotesShape'
    <2>1. \A st \in Notes' : st \in Notes \/ Fits(st)
      BY <1>1, <1>5 DEF Notes, Idle
    <2>. QED
      BY <1>1, <2>1, NotesHere DEF Shape, here
  <1>. QED
    BY <1>1, <1>2, <1>3, <1>4, <1>6, <1>7, Frames DEF Shape, here, ghosts

\* A status request reads what is saved.
LEMMA StatusReadIs ==
    ASSUME Shape, StatusRead
    PROVE  /\ kind = "connection" /\ seen'.pc = "save" /\ seen'.st = saved /\ seen'.head = head
           /\ UNCHANGED <<web, head, made, labels, onWeb, kind, here, saved, op, stray, ghosts>>
           /\ Notes' \subseteq Notes
           /\ Shape'
  <1>1. /\ kind = "connection" /\ seen' = [pc |-> "save", st |-> saved, head |-> head]
        /\ UNCHANGED <<web, head, made, labels, onWeb, kind, here, saved, op, stray, ghosts>>
    BY DEF StatusRead, project, standing
  <1>2. saved \in StateRecs /\ head \in Nat
    BY InNotes DEF Shape, NotesShape, ProjectShape, Fits
  <1>3. SeenShape'
    BY <1>1, <1>2 DEF SeenShape
  <1>4. Notes' \subseteq Notes
    BY <1>1 DEF Notes
  <1>5. NotesShape'
    BY <1>1, <1>4, NotesHere DEF Shape, here
  <1>. QED
    BY <1>1, <1>3, <1>4, <1>5, Frames DEF Shape, here, ghosts

\* It saves what it read, with the head it saw.
LEMMA StatusSaveIs ==
    ASSUME Shape, StatusSave
    PROVE  /\ kind = "connection" /\ seen.pc = "save" /\ seen' = Idle /\ Fits(seen.st) /\ Fits(saved')
           /\ saved'.files = seen.st.files /\ saved'.fetched = seen.st.fetched
           /\ saved'.pending = seen.st.pending
           /\ UNCHANGED <<web, head, made, labels, onWeb, kind, here, op, stray, ghosts>>
           /\ Shape'
  <1>1. /\ seen.pc = "save" /\ seen' = Idle /\ saved' = [seen.st EXCEPT !.web = seen.head]
        /\ UNCHANGED <<web, head, made, labels, onWeb, kind, here, op, stray, ghosts>>
    BY DEF StatusSave, project, standing
  <1>2. kind = "connection" /\ seen.head \in Nat
    BY <1>1 DEF Shape, SeenShape
  <1>3. Fits(seen.st)
    BY <1>1, InNotes DEF Shape, NotesShape
  <1>4. /\ saved' \in StateRecs /\ saved'.files = seen.st.files /\ saved'.fetched = seen.st.fetched
        /\ saved'.pending = seen.st.pending /\ saved'.head = seen.st.head /\ saved'.pushed = seen.st.pushed
    BY <1>1, <1>2, <1>3 DEF Fits, StateRecs
  <1>5. Fits(saved')
    BY <1>3, <1>4 DEF Fits
  <1>6. SeenShape'
    BY <1>1 DEF SeenShape, Idle
  <1>7. NotesShape'
    <2>1. \A st \in Notes' : st \in Notes \/ Fits(st)
      BY <1>1, <1>5 DEF Notes, Idle
    <2>. QED
      BY <1>1, <2>1, NotesHere DEF Shape, here
  <1>. QED
    BY <1>1, <1>2, <1>3, <1>4, <1>5, <1>6, <1>7, Frames DEF Shape, here, ghosts

\* A directory as it starts: what it holds, and the commits it begins with.
LEMMA InitIs ==
    ASSUME Init
    PROVE  /\ op = Idle /\ seen = Idle /\ stray = {} /\ main = 0 /\ merging = 0
           /\ told = {} /\ lostHere = {} /\ lostThere = {}
           /\ kind \in Kinds /\ web \in Trees /\ head \in Nat /\ made \in Nat
           /\ labels \in Seq(LabelRecs) /\ \A s \in DOMAIN labels : labels[s].key = NoKey
           /\ \E first \in Trees : /\ onWeb = Held(first) \cup Held(web)
                                   /\ saved.files \in {first, Empty}
                                   /\ \/ taken = Held(first) \cup Held(local) \cup Held(Empty)
                                      \/ taken = Held(local) \cup Held(Empty) /\ saved.files = Empty
                                   /\ \/ commits = <<>> /\ kind = "folder"
                                      \/ kind # "folder" /\ commits = <<Root(local)>>
                                      \/ /\ kind # "folder" /\ saved.files = first
                                         /\ commits = <<Root(first), [Root(local) EXCEPT !.past = {1}]>>
           /\ local \in Trees
           /\ saved \in StateRecs /\ saved.head \in {0, 1} /\ (kind = "folder" => saved.head = 0)
           /\ (saved.head = 1 => kind # "folder")
           /\ saved.fetched = {} /\ saved.web = NoHead /\ saved.pushed = {} /\ saved.pending = {}
           /\ HEAD = Len(commits)
  <1> DEFINE first == [p \in Paths |-> 1]
             linked == [p \in Paths |-> IF p \in Assets THEN Absent ELSE 3]
             edited(c) == {first} \cup {[first EXCEPT ![p] = c] : p \in Paths \ Assets}
             published == [NewState EXCEPT !.pulled = 1, !.files = first, !.synced = Paths,
                                           !.head = IF kind = "folder" THEN 0 ELSE 1]
  <1>1. first \in Trees /\ linked \in Trees /\ Empty \in Trees
    BY DEF Trees, Absent, Empty
  <1>2. \A c \in Nat : edited(c) \subseteq Trees
    BY DEF Trees
  <1>3. web \in edited(2) /\ head \in {0, 1} /\ labels = <<Label(NoKey, first, FALSE)>>
        /\ onWeb = Held(first) \cup Held(web)
    BY DEF Init
  <1>4. /\ op = Idle /\ seen = Idle /\ stray = {} /\ main = 0 /\ merging = 0
        /\ told = {} /\ lostHere = {} /\ lostThere = {}
        /\ kind \in Kinds /\ made \in Nat /\ HEAD = Len(commits)
    BY DEF Init, Kinds
  <1>5. \/ /\ local \in edited(3)
           /\ commits = IF kind = "folder" THEN <<>>
                        ELSE IF local = first THEN <<Root(first)>>
                        ELSE <<Root(first), [Root(local) EXCEPT !.past = {1}]>>
           /\ saved = published
           /\ taken = Held(first) \cup Held(local) \cup Held(Empty)
        \/ /\ local = linked
           /\ commits = IF kind = "folder" THEN <<>> ELSE <<Root(local)>>
           /\ saved = NewState
           /\ taken = Held(local) \cup Held(Empty)
    BY DEF Init
  <1>6. web \in Trees /\ local \in Trees
    BY <1>1, <1>2, <1>3, <1>5
  <1>7. NewState \in StateRecs
    BY <1>1 DEF NewState, StateRecs, NoHead
  <1>. HIDE DEF first, linked, edited
  <1>8. published \in StateRecs
    BY <1>1, <1>7 DEF StateRecs
  <1>9. /\ NewState.files = Empty /\ NewState.head = 0 /\ NewState.fetched = {} /\ NewState.web = NoHead
        /\ NewState.pushed = {} /\ NewState.pending = {}
    BY DEF NewState
  <1>10. /\ published.files = first /\ published.head = (IF kind = "folder" THEN 0 ELSE 1)
         /\ published.fetched = {} /\ published.web = NoHead
         /\ published.pushed = {} /\ published.pending = {}
    BY DEF NewState
  <1>. HIDE DEF published
  <1>11. /\ saved \in StateRecs /\ saved.head \in {0, 1} /\ (kind = "folder" => saved.head = 0)
         /\ (saved.head = 1 => kind # "folder")
         /\ saved.fetched = {} /\ saved.web = NoHead /\ saved.pushed = {} /\ saved.pending = {}
    BY <1>5, <1>7, <1>8, <1>9, <1>10
  <1>12. saved.files \in {first, Empty}
    BY <1>5, <1>9, <1>10
  <1>13. \/ taken = Held(first) \cup Held(local) \cup Held(Empty)
         \/ taken = Held(local) \cup Held(Empty) /\ saved.files = Empty
    BY <1>5, <1>9
  <1>14. \/ commits = <<>> /\ kind = "folder"
         \/ kind # "folder" /\ commits = <<Root(local)>>
         \/ /\ kind # "folder" /\ saved.files = first
            /\ commits = <<Root(first), [Root(local) EXCEPT !.past = {1}]>>
    BY <1>5, <1>10
  <1>15. labels \in Seq(LabelRecs) /\ \A s \in DOMAIN labels : labels[s].key = NoKey
    <2>1. PICK label : label = [key |-> NoKey, tree |-> first, named |-> FALSE]
      OBVIOUS
    <2>2. label \in LabelRecs /\ label.key = NoKey
      BY <1>1, <2>1 DEF LabelRecs, NoKey
    <2>3. labels = <<label>>
      BY <1>3, <2>1 DEF Label
    <2>. QED
      BY <2>2, <2>3
  <1>16. onWeb = Held(first) \cup Held(web) /\ head \in Nat /\ first \in Trees
    BY <1>1, <1>3
  <1>17. \E f \in Trees : /\ onWeb = Held(f) \cup Held(web)
                          /\ saved.files \in {f, Empty}
                          /\ \/ taken = Held(f) \cup Held(local) \cup Held(Empty)
                             \/ taken = Held(local) \cup Held(Empty) /\ saved.files = Empty
                          /\ \/ commits = <<>> /\ kind = "folder"
                             \/ kind # "folder" /\ commits = <<Root(local)>>
                             \/ /\ kind # "folder" /\ saved.files = f
                                /\ commits = <<Root(f), [Root(local) EXCEPT !.past = {1}]>>
    BY <1>12, <1>13, <1>14, <1>16
  <1>. QED
    BY <1>4, <1>6, <1>11, <1>15, <1>16, <1>17

\* The shapes hold to begin with.
LEMMA ShapeInit ==
    ASSUME Init
    PROVE  Shape
  <1>1. PICK first \in Trees : \/ commits = <<>> /\ kind = "folder"
                               \/ kind # "folder" /\ commits = <<Root(local)>>
                               \/ /\ kind # "folder" /\ saved.files = first
                                  /\ commits = <<Root(first), [Root(local) EXCEPT !.past = {1}]>>
    BY InitIs
  <1>2. local \in Trees /\ kind \in Kinds /\ main = 0 /\ merging = 0 /\ HEAD = Len(commits)
    BY InitIs
  <1>3. \A tree \in Trees : /\ Root(tree) \in CommitRecs /\ Root(tree).past = {}
                            /\ [Root(tree) EXCEPT !.past = {1}] \in CommitRecs
                            /\ [Root(tree) EXCEPT !.past = {1}].past = {1}
    BY DEF Root, CommitRecs
  <1>4. Grown(commits) /\ Len(commits) \in Nat /\ (kind # "folder" => Len(commits) > 0)
    <2>1. CASE commits = <<>> /\ kind = "folder"
      BY <2>1 DEF Grown
    <2>2. CASE kind # "folder" /\ commits = <<Root(local)>>
      <3>1. PICK a : a = Root(local)
        OBVIOUS
      <3>2. commits = <<a>> /\ a \in CommitRecs /\ a.past = {}
        BY <1>2, <1>3, <2>2, <3>1
      <3>3. commits \in Seq(CommitRecs) /\ Len(commits) = 1 /\ commits[1] = a
        BY <3>2
      <3>. QED
        BY <3>2, <3>3 DEF Grown
    <2>3. CASE commits = <<Root(first), [Root(local) EXCEPT !.past = {1}]>>
      <3>1. PICK a, b : a = Root(first) /\ b = [Root(local) EXCEPT !.past = {1}]
        OBVIOUS
      <3>2. commits = <<a, b>> /\ a \in CommitRecs /\ a.past = {} /\ b \in CommitRecs /\ b.past = {1}
        BY <1>2, <1>3, <2>3, <3>1
      <3>3. commits \in Seq(CommitRecs) /\ Len(commits) = 2 /\ commits[1] = a /\ commits[2] = b
        BY <3>2
      <3>4. \A c \in 1..Len(commits) : /\ commits[c].past \subseteq 1..(c - 1)
                                       /\ \A d \in commits[c].past : commits[d].past \subseteq commits[c].past
        BY <3>2, <3>3
      <3>. QED
        BY <3>3, <3>4 DEF Grown
    <2>. QED
      BY <1>1, <2>1, <2>2, <2>3
  <1>5. RepoShape
    BY <1>1, <1>2, <1>4 DEF RepoShape, Kinds
  <1>6. ProjectShape
    BY InitIs DEF ProjectShape
  <1>7. NotesShape
    <2>1. Notes = {saved}
      BY InitIs DEF Notes, Idle
    <2>2. saved.head <= Len(commits)
      BY <1>2, <1>4, InitIs
    <2>3. Fits(saved)
      BY <2>2, InitIs DEF Fits
    <2>. QED
      BY <2>1, <2>3 DEF NotesShape
  <1>8. StrayShape
    BY InitIs, FS_EmptySet DEF StrayShape
  <1>9. SeenShape /\ OpShape /\ Course
    BY InitIs DEF SeenShape, OpShape, Course, Idle, Sending, Fetching
  <1>. QED
    BY <1>5, <1>6, <1>7, <1>8, <1>9 DEF Shape

\* Every step of anybody keeps them.
LEMMA ShapeNext ==
    ASSUME Shape, [Next]_vars
    PROVE  Shape'
  <1>1. CASE UNCHANGED vars
    <2>1. UNCHANGED <<web, head, made, labels, kind, here, saved, op, seen, stray, told>>
      BY <1>1 DEF vars, project, standing, ghosts
    <2>2. NotesShape'
      BY <2>1, NotesHere DEF Shape, Notes, here
    <2>. QED
      BY <2>1, <2>2, Frames DEF Shape, here
  <1>2. CASE \/ \E p \in Paths : WebEdit(p) /\ Quietly
             \/ WebName /\ Quietly
             \/ WebTrim /\ Quietly
    BY <1>2, ShapeWeb
  <1>3. CASE \E p \in Paths : Edit(p)
    BY <1>3, ShapeEdit
  <1>4. CASE CommitWork \/ AbortMerge
    BY <1>4, ShapeCommitWork, ShapeAbortMerge
  <1>5. CASE PushStart \/ PushPlan \/ PostLands \/ StrayLands
    BY <1>5, ShapePushStart, ShapePushPlan, ShapePostLands, ShapeStrayLands
  <1>6. CASE PostSuggestion \/ PostFails \/ Stop
    BY <1>6, ShapePostEnds
  <1>7. CASE PushAccepted \/ PushRefused
    BY <1>7, ShapeAnswered
  <1>8. CASE \E side \in {"none", "mine", "theirs"} : PullFolder(side)
    BY <1>8, ShapePullFolder DEF Sides
  <1>9. CASE PullRead \/ PullSave \/ \E p \in Paths : PullWrite(p)
    BY <1>9, ShapePullRead, ShapePullSave, ShapePullWrite
  <1>10. CASE \E merge \in BOOLEAN : PullRepository(merge)
    BY <1>10, ShapePullRepository
  <1>11. CASE Fetch \/ PullSaveFetched \/ MergeFetched \/ PullPromote
    BY <1>11, ShapeFetch, PullSaveFetchedIs, ShapeMergeFetched, PullPromoteIs
  <1>12. CASE StatusRead \/ StatusSave
    BY <1>12, StatusReadIs, StatusSaveIs
  <1>. QED
    BY <1>1, <1>2, <1>3, <1>4, <1>5, <1>6, <1>7, <1>8, <1>9, <1>10, <1>11, <1>12 DEF Next

\* The history of a repository only grows, what a State names is in it, and a
\* transfer sends the request it saved: for every kind of directory.
THEOREM ShapeAlways == Spec => []Shape
  <1>1. Init => Shape
    BY ShapeInit
  <1>2. Shape /\ [Next]_vars => Shape'
    BY ShapeNext
  <1>. QED
    BY <1>1, <1>2, PTL DEF Spec

-----------------------------------------------------------------------------
(* A push is remembered until it is answered *)

\* A request lands: it is applied, answered again, or refused.
LEMMA PostLandsIs ==
    ASSUME Shape, PostLands
    PROVE  /\ op.pc = "post" /\ op.request \in Requests /\ op.st.pending = {op.request}
           /\ op'.pc \in {"accepted", "refused"} /\ op'.st = op.st /\ op'.request = op.request
           /\ UNCHANGED <<kind, here, saved, seen, stray, taken, told, lostHere>>
           /\ \/ /\ Applied(op.request) /\ lostThere' = lostThere \cup Overwritten(op.request)
                 /\ op'.pc = "accepted"
              \/ /\ UNCHANGED <<web, head, labels, made, onWeb, lostThere>>
                 /\ op'.pc = "accepted" => LabelForRequest(op.request.key) # {}
           /\ Notes' \subseteq Notes
  <1>1. /\ op \in [pc : Sending, st : StateRecs, again : BOOLEAN, request : Requests]
        /\ op.pc = "post" /\ op.st.pending = {op.request}
    BY DEF PostLands, Shape, OpShape, Course, Sending
  <1>2. UNCHANGED <<kind, here, saved, seen, stray, taken, told, lostHere>>
    BY DEF PostLands
  <1>3. \/ /\ Applied(op.request) /\ lostThere' = lostThere \cup Overwritten(op.request)
           /\ op' = [op EXCEPT !.pc = "accepted"]
        \/ /\ UNCHANGED <<web, head, labels, made, onWeb, lostThere>>
           /\ op' = [op EXCEPT !.pc = "accepted"] /\ LabelForRequest(op.request.key) # {}
        \/ /\ UNCHANGED <<web, head, labels, made, onWeb, lostThere>>
           /\ op' = [op EXCEPT !.pc = "refused"]
    BY DEF PostLands, Replayed, Refused, project, standing
  <1>4. /\ op'.pc \in {"accepted", "refused"} /\ op'.st = op.st /\ op'.request = op.request
        /\ \/ /\ Applied(op.request) /\ lostThere' = lostThere \cup Overwritten(op.request)
              /\ op'.pc = "accepted"
           \/ /\ UNCHANGED <<web, head, labels, made, onWeb, lostThere>>
              /\ op'.pc = "accepted" => LabelForRequest(op.request.key) # {}
    BY <1>1, <1>3 DEF Sending
  <1>5. Notes' \subseteq Notes
    BY <1>1, <1>2, <1>4 DEF Notes
  <1>. QED
    BY <1>1, <1>2, <1>4, <1>5

\* A transfer that ends, or sends again: the request may be on its way still.
LEMMA PostEndsIs ==
    ASSUME Shape, PostSuggestion \/ PostFails \/ Stop
    PROVE  /\ UNCHANGED <<web, head, labels, made, onWeb, kind, here, saved, seen, ghosts>>
           /\ \/ op' = Idle
              \/ /\ op.pc \in Sending /\ op'.pc \in {"post", "refused"} /\ op'.st = op.st
                 /\ op'.request = op.request
           /\ \/ stray' = stray
              \/ /\ op.pc = "post" /\ stray' = stray \cup {op.request} /\ op.request \in Requests
                 /\ op.st.pending = {op.request}
           /\ Notes' \subseteq Notes
  <1>1. UNCHANGED <<web, head, labels, made, onWeb, kind, here, saved, seen, ghosts>>
    BY DEF PostSuggestion, PostFails, Stop, standing
  <1>2. \/ op' = Idle
        \/ /\ op.pc \in Sending
           /\ op' \in {[op EXCEPT !.pc = "post"], [op EXCEPT !.pc = "refused"]}
    BY DEF PostSuggestion, PostFails, Stop, Sending
  <1>3. op.pc \in Sending =>
            /\ op \in [pc : Sending, st : StateRecs, again : BOOLEAN, request : Requests]
            /\ op.st.pending = {op.request}
    BY DEF Shape, OpShape, Course
  <1>4. \/ op' = Idle
        \/ /\ op.pc \in Sending /\ op'.pc \in {"post", "refused"} /\ op'.st = op.st
           /\ op'.request = op.request
    BY <1>2, <1>3
  <1>5. \/ stray' = stray
        \/ /\ op.pc = "post" /\ stray' = stray \cup {op.request} /\ op.request \in Requests
           /\ op.st.pending = {op.request}
    BY <1>3 DEF PostSuggestion, PostFails, Stop, Sending
  <1>6. Notes' \subseteq Notes
    BY <1>1, <1>2, OpGoesOn
  <1>. QED
    BY <1>1, <1>4, <1>5, <1>6

\* A late request lands.
LEMMA StrayLandsIs ==
    ASSUME Shape, StrayLands
    PROVE  \E r \in stray :
             /\ r \in Requests /\ stray' = stray \ {r}
             /\ \/ Applied(r) /\ lostThere' = lostThere \cup Overwritten(r)
                \/ UNCHANGED <<web, head, labels, made, onWeb, lostThere>>
             /\ UNCHANGED <<kind, here, saved, op, seen, taken, told, lostHere>>
  <1>1. PICK r \in stray : /\ \/ Applied(r) /\ lostThere' = lostThere \cup Overwritten(r)
                              \/ Replayed(r) /\ UNCHANGED lostThere
                              \/ Refused(r) /\ UNCHANGED lostThere
                           /\ stray' = stray \ {r}
    BY DEF StrayLands
  <1>2. UNCHANGED <<kind, here, saved, op, seen, taken, told, lostHere>>
    BY DEF StrayLands
  <1>3. r \in Requests
    BY DEF Shape, StrayShape
  <1>. QED
    BY <1>1, <1>2, <1>3 DEF Replayed, Refused, project, standing

\* The keys the project's history holds, after a label is added to it.
LEMMA KeysGrow ==
    ASSUME ProjectShape, NEW label \in LabelRecs, labels' = Append(labels, label)
    PROVE  /\ \A s \in DOMAIN labels : s \in DOMAIN labels' /\ labels'[s] = labels[s]
           /\ \A s \in DOMAIN labels' : (s \in DOMAIN labels /\ labels'[s] = labels[s]) \/ labels'[s] = label
  <1>1. labels \in Seq(LabelRecs) /\ DOMAIN labels = 1..Len(labels) /\ Len(labels) \in Nat
    BY DEF ProjectShape
  <1>2. DOMAIN labels' = 1..(Len(labels) + 1) /\ labels'[Len(labels) + 1] = label
    BY <1>1
  <1>3. \A s \in 1..Len(labels) : labels'[s] = labels[s]
    BY <1>1
  <1>. QED
    BY <1>1, <1>2, <1>3

\* A change that is applied: the head moves on, and its key is in the history.
LEMMA AppliedShows ==
    ASSUME ProjectShape, NEW r \in Requests, Applied(r)
    PROVE  /\ head' = head + 1 /\ Unchanged(r) /\ LabelForRequest(r.key) = {}
           /\ web' = [p \in Paths |-> IF p \in DOMAIN r.put THEN r.put[p] ELSE web[p]]
           /\ onWeb' = onWeb \cup Held(web')
           /\ \A s \in DOMAIN labels : s \in DOMAIN labels' /\ labels'[s] = labels[s]
           /\ \A s \in DOMAIN labels' : \/ s \in DOMAIN labels /\ labels'[s].key = labels[s].key
                                        \/ labels'[s].key = r.key
  <1>1. PICK label : label = [key |-> r.key, tree |-> web', named |-> TRUE]
    OBVIOUS
  <1>2. labels' = Append(labels, label)
    BY <1>1 DEF Applied, Label
  <1>3. web' \in Trees /\ r.key \in Nat
    BY AppliedIs DEF ProjectShape, Requests
  <1>4. label \in LabelRecs /\ label.key = r.key
    BY <1>1, <1>3 DEF LabelRecs
  <1>5. /\ \A s \in DOMAIN labels : s \in DOMAIN labels' /\ labels'[s] = labels[s]
        /\ \A s \in DOMAIN labels' : (s \in DOMAIN labels /\ labels'[s] = labels[s]) \/ labels'[s] = label
    BY <1>2, <1>4, KeysGrow
  <1>6. /\ head' = head + 1 /\ Unchanged(r) /\ LabelForRequest(r.key) = {}
        /\ web' = [p \in Paths |-> IF p \in DOMAIN r.put THEN r.put[p] ELSE web[p]]
        /\ onWeb' = onWeb \cup Held(web')
    BY DEF Applied
  <1>. QED
    BY <1>4, <1>5, <1>6

\* What the browser does to the project.
LEMMA WebIs ==
    ASSUME Shape, (\E p \in Paths : WebEdit(p)) \/ WebName \/ WebTrim
    PROVE  /\ \A s \in DOMAIN labels' : \/ s \in DOMAIN labels /\ labels'[s].key = labels[s].key
                                        \/ labels'[s].key = NoKey
           /\ \/ UNCHANGED <<web, head, onWeb>>
              \/ head' = head + 1 /\ onWeb' = onWeb \cup Held(web')
  <1>1. CASE \E p \in Paths : WebEdit(p)
    BY <1>1 DEF WebEdit
  <1>2. CASE WebName
    <2>1. PICK label : label = [key |-> NoKey, tree |-> web, named |-> TRUE]
      OBVIOUS
    <2>2. label \in LabelRecs /\ label.key = NoKey
      BY <2>1 DEF LabelRecs, Shape, ProjectShape, NoKey
    <2>3. labels' = Append(labels, label) /\ UNCHANGED <<web, head, onWeb>>
      BY <1>2, <2>1 DEF WebName, Label
    <2>4. \A s \in DOMAIN labels' : (s \in DOMAIN labels /\ labels'[s] = labels[s]) \/ labels'[s] = label
      BY <2>2, <2>3, KeysGrow DEF Shape
    <2>. QED
      BY <2>2, <2>3, <2>4
  <1>3. CASE WebTrim
    BY <1>3 DEF WebTrim
  <1>. QED
    BY <1>1, <1>2, <1>3

\* The keys of the requests a State holds as pending.
PendingKeys(st) == {r.key : r \in st.pending}

\* Whatever is on its way, or was applied, was answered for or is still saved
\* as pending; and what a transfer is sending is what is saved.
Remembers ==
    /\ op.pc \in Sending => saved.pending = op.st.pending
    /\ op.pc \notin Sending \cup {"idle"} => saved.pending = {}
    /\ Abroad \subseteq {NoKey} \cup told \cup PendingKeys(saved)

\* Where no request is sent or answered, only what the transfer holds matters.
LEMMA RemembersStill ==
    ASSUME Remembers, UNCHANGED <<labels, stray, told>>, saved'.pending = saved.pending,
           \/ op' = Idle
           \/ op' = op
           \/ op'.pc \in Sending /\ op'.st.pending = saved.pending
           \/ op'.pc \notin Sending \cup {"idle"} /\ saved.pending = {}
    PROVE  Remembers'
  <1>1. Abroad' = Abroad /\ PendingKeys(saved)' = PendingKeys(saved)
    BY DEF Abroad, PendingKeys
  <1>. QED
    BY <1>1 DEF Remembers, Idle, Sending

\* Sending: a request that lands, late or not, was saved or is known.
LEMMA RemembersSending ==
    ASSUME Shape, Remembers, PostLands \/ PostSuggestion \/ PostFails \/ Stop \/ StrayLands
    PROVE  Remembers'
  <1>1. CASE PostLands
    <2>1. saved.pending = {op.request} /\ saved' = saved /\ op'.pc \in Sending /\ op'.st.pending = saved.pending
          /\ UNCHANGED <<stray, told>>
      BY <1>1, PostLandsIs DEF Remembers, Sending
    <2>2. op.request.key \in PendingKeys(saved)
      BY <2>1 DEF PendingKeys
    <2>3. Abroad' \subseteq Abroad \cup {op.request.key}
      <3>1. CASE Applied(op.request)
        BY <1>1, <2>1, <3>1, PostLandsIs, AppliedShows DEF Shape, Abroad
      <3>2. CASE labels' = labels
        BY <2>1, <3>2 DEF Abroad
      <3>. QED
        BY <1>1, <3>1, <3>2, PostLandsIs
    <2>. QED
      BY <2>1, <2>2, <2>3 DEF Remembers, PendingKeys, Sending
  <1>2. CASE PostSuggestion \/ PostFails \/ Stop
    <2>1. UNCHANGED <<labels, saved, told>>
      BY <1>2, PostEndsIs DEF ghosts
    <2>2. op'.pc \in Sending => op'.st.pending = saved.pending
      BY <1>2, PostEndsIs DEF Remembers, Idle, Sending
    <2>3. op'.pc \in Sending \cup {"idle"}
      BY <1>2, PostEndsIs DEF Idle, Sending
    <2>4. Abroad' \subseteq Abroad \cup PendingKeys(saved)
      <3>1. CASE stray' = stray
        BY <2>1, <3>1 DEF Abroad
      <3>2. CASE op.pc = "post" /\ stray' = stray \cup {op.request} /\ op.st.pending = {op.request}
        <4>1. op.request.key \in PendingKeys(saved)
          BY <3>2 DEF Remembers, PendingKeys, Sending
        <4>. QED
          BY <2>1, <3>2, <4>1 DEF Abroad
      <3>. QED
        BY <1>2, <3>1, <3>2, PostEndsIs
    <2>. QED
      BY <2>1, <2>2, <2>3, <2>4 DEF Remembers, PendingKeys
  <1>3. CASE StrayLands
    <2>1. PICK r \in stray :
             /\ r \in Requests /\ stray' = stray \ {r}
             /\ Applied(r) \/ UNCHANGED labels
             /\ UNCHANGED <<saved, op, told>>
      BY <1>3, StrayLandsIs
    <2>2. r.key \in Abroad
      BY DEF Abroad
    <2>3. Abroad' \subseteq Abroad
      <3>1. CASE Applied(r)
        BY <2>1, <2>2, <3>1, AppliedShows DEF Shape, Abroad
      <3>2. CASE labels' = labels
        BY <2>1, <3>2 DEF Abroad
      <3>. QED
        BY <2>1, <3>1, <3>2
    <2>. QED
      BY <2>1, <2>3 DEF Remembers, PendingKeys
  <1>. QED
    BY <1>1, <1>2, <1>3

\* Planned and answered: the request is saved before it is sent, and its key
\* is known before it is forgotten.
LEMMA RemembersAnswer ==
    ASSUME Shape, Remembers, PushStart \/ PushPlan \/ PushAccepted \/ PushRefused
    PROVE  Remembers'
  <1>1. CASE PushStart
    <2>1. UNCHANGED <<labels, stray, told, saved>>
      BY <1>1, PushStartIs DEF ghosts
    <2>2. \/ op'.pc \in Sending /\ op'.st.pending = saved.pending
          \/ op'.pc \notin Sending \cup {"idle"} /\ saved.pending = {}
      BY <1>1, PushStartIs DEF Sending
    <2>. QED
      BY <2>1, <2>2, RemembersStill
  <1>2. CASE PushPlan
    <2>1. UNCHANGED <<labels, stray, told>> /\ saved.pending = {} /\ op.st.pending = {} /\ Fits(op.st)
      BY <1>2, PushPlanIs DEF Remembers, Sending, ghosts
    <2>2. CASE op' = Idle /\ saved' \in {saved, Settle(op.st)}
      <3>1. saved'.pending = saved.pending
        BY <2>1, <2>2, SettledIs DEF Shape
      <3>. QED
        BY <2>1, <2>2, <3>1, RemembersStill
    <2>3. CASE \E request \in Requests : Plan(request)
      <3>1. PICK request \in Requests : Plan(request)
        BY <2>3
      <3>2. saved'.pending = {request} /\ op'.pc = "post" /\ op'.st = saved'
        BY <1>2, <3>1, PlanIs, PushPlanIs
      <3>3. Abroad' = Abroad /\ PendingKeys(saved) = {}
        BY <2>1 DEF Abroad, PendingKeys
      <3>. QED
        BY <2>1, <3>2, <3>3 DEF Remembers, PendingKeys, Sending
    <2>. QED
      BY <1>2, <2>2, <2>3, PushPlanIs
  <1>3. CASE PushAccepted \/ PushRefused
    <2>1. /\ saved.pending = {op.request} /\ saved'.pending = {} /\ UNCHANGED <<labels, stray>>
          /\ told \subseteq told'
          /\ \/ op' = [pc |-> "scan", st |-> saved']
             \/ op' = Idle
      BY <1>3, AnsweredIs DEF Remembers, PushAccepted, PushRefused, Sending
    <2>2. Abroad' = Abroad
      BY <2>1 DEF Abroad
    <2>3. PendingKeys(saved) = {op.request.key}
      BY <2>1 DEF PendingKeys
    <2>4. op.request.key \in Abroad => op.request.key \in told'
      BY <1>3 DEF PushAccepted, PushRefused
    <2>5. Abroad' \subseteq {NoKey} \cup told'
      BY <2>1, <2>2, <2>3, <2>4 DEF Remembers
    <2>. QED
      BY <2>1, <2>5 DEF Remembers, Idle, Sending
  <1>. QED
    BY <1>1, <1>2, <1>3

\* A pull starts with no push pending, and leaves none.
LEMMA RemembersPull ==
    ASSUME Shape, Remembers,
           \/ \E side \in Sides : PullFolder(side)
           \/ PullRead \/ PullSave
           \/ \E p \in Paths : PullWrite(p)
           \/ \E merge \in BOOLEAN : PullRepository(merge)
           \/ Fetch \/ PullSaveFetched \/ MergeFetched \/ PullPromote
    PROVE  Remembers'
  <1>1. CASE \E side \in Sides : PullFolder(side)
    <2>1. UNCHANGED <<labels, stray, told, saved>> /\ saved.pending = {} /\ op'.pc = "read"
      BY <1>1 DEF PullFolder, project, standing, ghosts
    <2>. QED
      BY <2>1, RemembersStill DEF Sending
  <1>2. CASE PullRead
    <2>1. UNCHANGED <<labels, stray, told, saved>> /\ saved.pending = {} /\ op'.pc = "write"
      BY <1>2 DEF PullRead, project, standing, Remembers, Sending
    <2>. QED
      BY <2>1, RemembersStill DEF Sending
  <1>3. CASE PullSave
    <2>1. UNCHANGED <<labels, stray, told>> /\ saved'.pending = saved.pending /\ op' = Idle
      BY <1>3, PullSaveIs DEF Remembers, Sending
    <2>. QED
      BY <2>1, RemembersStill
  <1>4. CASE \E p \in Paths : PullWrite(p)
    <2>1. UNCHANGED <<labels, stray, told, saved>> /\ saved.pending = {} /\ op'.pc = "write"
      BY <1>4, ShapePullWrite DEF PullWrite, project, standing, Remembers, Sending
    <2>. QED
      BY <2>1, RemembersStill DEF Sending
  <1>5. CASE \E merge \in BOOLEAN : PullRepository(merge)
    <2>1. PICK merge \in BOOLEAN : PullRepository(merge)
      BY <1>5
    <2>2. UNCHANGED <<labels, stray, told>> /\ saved.pending = {} /\ Settle(saved).pending = {}
      BY <2>1, PullRepositoryIs, SettledIs DEF ghosts, Shape
    <2>3. \/ saved' = Settle(saved) /\ op' = op
          \/ saved' = saved /\ op'.pc \in {"save", "fetch"}
      BY <2>1, PullRepositoryIs
    <2>. QED
      BY <2>2, <2>3, RemembersStill DEF Sending
  <1>6. CASE Fetch
    <2>1. PICK note : Fetched(note)
      BY <1>6, FetchIs
    <2>2. /\ UNCHANGED <<labels, stray, told>> /\ saved.pending = {} /\ op.st.pending = {}
          /\ op \in [pc : Fetching, st : StateRecs, merge : BOOLEAN, found : Founds(Histories)]
      BY <1>6, FetchIs DEF ghosts, Remembers, Sending
    <2>3. \/ saved' = note /\ op' = Idle /\ note.pending = {}
          \/ saved' = saved /\ op' = [op EXCEPT !.pc = "save", !.st = note]
      BY <2>1, <2>2 DEF Fetched
    <2>4. \/ saved' = note /\ op' = Idle /\ note.pending = {}
          \/ saved' = saved /\ op'.pc = "save"
      BY <2>2, <2>3
    <2>. QED
      BY <2>2, <2>4, RemembersStill DEF Sending
  <1>7. CASE PullSaveFetched
    <2>1. UNCHANGED <<labels, stray, told>> /\ saved.pending = {} /\ saved'.pending = {}
      BY <1>7, PullSaveFetchedIs DEF ghosts, Remembers, Sending
    <2>2. op' = Idle \/ op'.pc = "merge"
      BY <1>7, PullSaveFetchedIs
    <2>. QED
      BY <2>1, <2>2, RemembersStill DEF Sending
  <1>8. CASE MergeFetched
    <2>1. UNCHANGED <<labels, stray, told, saved>> /\ saved.pending = {}
      BY <1>8, MergeFetchedIs DEF Remembers, Sending
    <2>2. op' = Idle \/ op' = [op EXCEPT !.pc = "promote"]
      BY <1>8, MergeFetchedIs DEF MergeStops, MergeEnds
    <2>3. op' = Idle \/ op'.pc = "promote"
      BY <1>8, <2>2, MergeFetchedIs
    <2>. QED
      BY <2>1, <2>3, RemembersStill DEF Sending
  <1>9. CASE PullPromote
    <2>1. /\ UNCHANGED <<labels, stray, told>> /\ saved.pending = {} /\ op' = Idle
          /\ saved' = Promote(commits, op.st) /\ op.st.pending = {} /\ Fits(op.st) /\ op.st.fetched # {}
      BY <1>9, PullPromoteIs DEF ghosts, Remembers, Sending
    <2>2. saved'.pending = {}
      BY <2>1, Promoted DEF Shape
    <2>. QED
      BY <2>1, <2>2, RemembersStill
  <1>. QED
    BY <1>1, <1>2, <1>3, <1>4, <1>5, <1>6, <1>7, <1>8, <1>9

\* A directory stays of its kind.
LEMMA KindStays ==
    ASSUME [Next]_vars
    PROVE  kind' = kind
  BY DEF Next, vars, Quietly, Edit, CommitWork, AbortMerge, PushStart, PushPlan, PostLands, PostSuggestion,
         PostFails, StrayLands, PushAccepted, PushRefused, PullFolder, PullRead, PullWrite, PullSave,
         PullRepository, Fetch, PullSaveFetched, MergeFetched, PullPromote, StatusRead, StatusSave, Stop

\* A push the project took is remembered by a directory with one process: what
\* it saved before sending stays until the answer is in.
LEMMA RemembersNext ==
    ASSUME Shape, kind # "connection" => Remembers, [Next]_vars
    PROVE  (kind # "connection" => Remembers)'
  <1>0. kind' = kind
    BY KindStays
  <1>. SUFFICES ASSUME kind # "connection", Remembers
                PROVE  Remembers'
    BY <1>0
  <1>1. CASE \/ UNCHANGED vars
             \/ \E p \in Paths : Edit(p)
             \/ CommitWork
             \/ AbortMerge
    <2>1. UNCHANGED <<labels, stray, told, saved, op>>
      BY <1>1 DEF vars, project, standing, ghosts, Edit, CommitWork, AbortMerge
    <2>. QED
      BY <2>1, RemembersStill
  <1>2. CASE Quietly /\ ((\E p \in Paths : WebEdit(p)) \/ WebName \/ WebTrim)
    <2>1. UNCHANGED <<stray, told, saved, op>>
      BY <1>2 DEF Quietly, ghosts
    <2>2. Abroad' \subseteq Abroad \cup {NoKey}
      BY <1>2, <2>1, WebIs DEF Abroad
    <2>. QED
      BY <2>1, <2>2 DEF Remembers, PendingKeys
  <1>3. CASE PostLands \/ PostSuggestion \/ PostFails \/ Stop \/ StrayLands
    BY <1>3, RemembersSending
  <1>4. CASE PushStart \/ PushPlan \/ PushAccepted \/ PushRefused
    BY <1>4, RemembersAnswer
  <1>5. CASE \/ \E side \in Sides : PullFolder(side)
             \/ PullRead \/ PullSave
             \/ \E p \in Paths : PullWrite(p)
             \/ \E merge \in BOOLEAN : PullRepository(merge)
             \/ Fetch \/ PullSaveFetched \/ MergeFetched \/ PullPromote
    BY <1>5, RemembersPull
  <1>6. CASE StatusRead \/ StatusSave
    BY <1>6, StatusReadIs, StatusSaveIs
  <1>. QED
    BY <1>1, <1>2, <1>3, <1>4, <1>5, <1>6 DEF Next, Sides

\* A change the project accepted is one the sender was told of or still holds
\* as pending: through lost answers, late requests, refusals and stops.
THEOREM PushRememberedAlways == Spec => []PushRemembered
  <1>1. Init => (kind # "connection" => Remembers)
    <2>. SUFFICES ASSUME Init PROVE Remembers
      OBVIOUS
    <2>1. Abroad \subseteq {NoKey}
      BY InitIs DEF Abroad
    <2>. QED
      BY <2>1, InitIs DEF Remembers, Idle, Sending
  <1>2. Shape /\ (kind # "connection" => Remembers) /\ [Next]_vars => (kind # "connection" => Remembers)'
    BY RemembersNext
  <1>3. (kind # "connection" => Remembers) => PushRemembered
    BY DEF Remembers, PushRemembered, Abroad, PendingKeys
  <1>. QED
    BY <1>1, <1>2, <1>3, ShapeAlways, PTL DEF Spec

-----------------------------------------------------------------------------
(* A pull that says "up to date" hides nothing *)

\* Taking a head for read is sound: it is not ahead of the project, and where
\* it is the project's, the files are recorded or shown on the branch.
Informed(st) ==
    /\ st.web <= head
    /\ st.web = head => web = Recorded(st) \/ Shown(st)

Reading == {"read", "write", "fetch"}

\* So of every State, and of what a pull under way has read so far.
Watching ==
    /\ \A st \in Notes : Informed(st)
    /\ op.pc \in Reading => op.found.head <= head /\ op.st.web <= op.found.head
    /\ op.pc = "fetch" => saved.synced \subseteq op.st.synced
    /\ op.pc = "write" /\ op.found.head = head => op.snap = web

\* It stays so while the project stands still and main is where it was,
LEMMA InformedGrows ==
    ASSUME NEW st, Fits(st), Informed(st), Grown(commits), Grown(commits'), Extends(commits, commits'),
           main \in 0..Len(commits), UNCHANGED <<web, head, main>>
    PROVE  Informed(st)'
  <1> DEFINE at == IF main # 0 THEN main ELSE st.head
  <1>1. at \in 0..Len(commits)
    BY DEF Fits, StateRecs
  <1>. HIDE DEF at
  <1>2. TreeOf(commits', at) = TreeOf(commits, at)
    BY <1>1, ExtendsReach
  <1>3. Branch(st)' = Branch(st)
    BY <1>2 DEF Branch, at
  <1>. QED
    BY <1>3 DEF Informed, Shown

\* and once the head moves on, no head that was read is the project's.
LEMMA InformedMoves ==
    ASSUME NEW st, Fits(st), Informed(st), head \in Nat, head' = head + 1
    PROVE  Informed(st)'
  <1>1. st.web \in Int /\ st.web <= head
    BY DEF Fits, StateRecs, Informed
  <1>2. st.web <= head' /\ st.web # head'
    BY <1>1
  <1>. QED
    BY <1>2 DEF Informed

\* Promoting what was fetched records the same files.
LEMMA InformedPromoted ==
    ASSUME RepoShape, NEW st, Fits(st), Informed(st), NEW f \in st.fetched
    PROVE  Informed(Promote(commits, st))
  <1>1. PICK note : note = Promote(commits, st)
    OBVIOUS
  <1>2. /\ Fits(note) /\ note.fetched = {} /\ note.files = f.files /\ note.synced = st.synced
        /\ note.web = st.web /\ main # 0
    BY <1>1, Promoted
  <1>3. Recorded(note) = Recorded(st)
    BY <1>2, RecordedIs
  <1>4. Branch(note) = Branch(st)
    BY <1>2 DEF Branch
  <1>5. Informed(note)
    BY <1>2, <1>3, <1>4 DEF Informed, Shown
  <1>. QED
    BY <1>1, <1>5

\* Settling promotes, or changes nothing.
LEMMA InformedSettled ==
    ASSUME RepoShape, NEW st, Fits(st), Informed(st)
    PROVE  Informed(Settle(st))
  <1>1. CASE Settled(st)
    <2>1. PICK f \in st.fetched : TRUE
      BY <1>1 DEF Settled
    <2>. QED
      BY <1>1, <2>1, InformedPromoted DEF Settle
  <1>2. CASE ~Settled(st)
    BY <1>2 DEF Settle
  <1>. QED
    BY <1>1, <1>2

\* A step that leaves the project, and what a pull has read, alone.
LEMMA WatchingHere ==
    ASSUME Shape, Watching, Grown(commits'), Extends(commits, commits'), UNCHANGED <<web, head, main>>,
           \A st \in Notes' : st \in Notes \/ (Fits(st) /\ Informed(st)),
           op'.pc \notin Reading \/ (op' = op /\ saved' = saved)
    PROVE  Watching'
  <1>1. Grown(commits) /\ main \in 0..Len(commits)
    BY DEF Shape, RepoShape
  <1>2. ASSUME NEW st \in Notes'
        PROVE  Informed(st)'
    <2>1. Fits(st) /\ Informed(st)
      BY DEF Shape, NotesShape, Watching
    <2>. QED
      BY <1>1, <2>1, InformedGrows
  <1>3. (\A st \in Notes : Informed(st))'
    BY <1>2
  <1>. QED
    BY <1>3 DEF Watching, Reading

\* A step that moves the head, and what a pull has read is behind it.
LEMMA WatchingMoves ==
    ASSUME Shape, Watching, head' = head + 1, Notes' \subseteq Notes,
           op'.pc \notin Reading \/ (op' = op /\ saved' = saved)
    PROVE  Watching'
  <1>1. head \in Nat
    BY DEF Shape, ProjectShape
  <1>2. ASSUME NEW st \in Notes'
        PROVE  Informed(st)'
    BY <1>1, InformedMoves DEF Shape, NotesShape, Watching
  <1>3. op.pc \in Reading => op.found.head \in Nat /\ op.found.head <= head
    BY DEF Shape, OpShape, Watching, Reading, Founds, Fetching
  <1>4. op.pc \in Reading => op.found.head <= head' /\ op.found.head # head'
    BY <1>1, <1>3
  <1>5. (\A st \in Notes : Informed(st))'
    BY <1>2
  <1>. QED
    BY <1>4, <1>5 DEF Watching, Reading

\* The person, the sending of a request and its answers.
LEMMA WatchingPush ==
    ASSUME Shape, Watching,
           \/ UNCHANGED vars
           \/ Quietly /\ ((\E p \in Paths : WebEdit(p)) \/ WebName \/ WebTrim)
           \/ \E p \in Paths : Edit(p)
           \/ CommitWork \/ AbortMerge
           \/ PushStart \/ PushPlan \/ PostLands \/ PostSuggestion \/ PostFails \/ Stop \/ StrayLands
           \/ PushAccepted \/ PushRefused
    PROVE  Watching'
  <1>0. Grown(commits) /\ Extends(commits, commits)
    BY DEF Shape, RepoShape, Grown, Extends
  <1>1. CASE \/ UNCHANGED vars
             \/ \E p \in Paths : Edit(p)
             \/ AbortMerge
    <2>1. UNCHANGED <<web, head, commits, main, saved, op, seen>>
      BY <1>1 DEF vars, project, standing, here, Edit, AbortMerge
    <2>. QED
      BY <1>0, <2>1, WatchingHere DEF Notes
  <1>2. CASE Quietly /\ ((\E p \in Paths : WebEdit(p)) \/ WebName \/ WebTrim)
    <2>1. UNCHANGED <<commits, main, saved, op, seen>> /\ Notes' = Notes
      BY <1>2 DEF Quietly, here, Notes
    <2>2. UNCHANGED <<web, head>> \/ head' = head + 1
      BY <1>2, WebIs
    <2>. QED
      BY <1>0, <2>1, <2>2, WatchingHere, WatchingMoves
  <1>3. CASE CommitWork
    <2>1. UNCHANGED <<web, head, main, saved, op, seen>> /\ Notes' = Notes
      BY <1>3 DEF CommitWork, project, standing, Notes
    <2>2. Grown(commits') /\ Extends(commits, commits')
      BY <1>3, ShapeCommitWork DEF Shape, RepoShape
    <2>. QED
      BY <2>1, <2>2, WatchingHere
  <1>4. CASE PushStart
    <2>1. UNCHANGED <<web, head, commits, main>> /\ op'.pc \notin Reading
      BY <1>4, PushStartIs DEF here, Reading
    <2>2. op'.st = saved /\ saved' = saved /\ seen' = seen
      BY <1>4, PushStartIs
    <2>3. Notes' \subseteq Notes
      BY <2>2 DEF Notes
    <2>. QED
      BY <1>0, <2>1, <2>3, WatchingHere
  <1>5. CASE PushPlan
    <2>1. UNCHANGED <<web, head, commits, main, seen>> /\ Fits(op.st) /\ op.pc = "scan"
      BY <1>5, PushPlanIs DEF here
    <2>2. Informed(op.st)
      BY <2>1, InNotes DEF Watching
    <2>3. Fits(Settle(op.st)) /\ Informed(Settle(op.st))
      BY <2>1, <2>2, SettledIs, InformedSettled DEF Shape
    <2>4. CASE op' = Idle /\ saved' \in {saved, Settle(op.st)}
      <3>1. \A st \in Notes' : st \in Notes \/ (Fits(st) /\ Informed(st))
        BY <2>1, <2>3, <2>4 DEF Notes, Idle
      <3>. QED
        BY <1>0, <2>1, <2>4, <3>1, WatchingHere DEF Idle, Reading
    <2>5. CASE \E request \in Requests : Plan(request)
      <3>1. PICK request \in Requests : Plan(request)
        BY <2>5
      <3>2. /\ Fits(saved') /\ saved'.files = Settle(op.st).files /\ saved'.fetched = Settle(op.st).fetched
            /\ saved'.synced = Settle(op.st).synced /\ saved'.web = Settle(op.st).web
            /\ saved'.head = Settle(op.st).head /\ op'.pc = "post" /\ op'.st = saved'
        BY <2>1, <3>1, PlanIs, SettledIs DEF Shape
      <3>3. PICK note, old : note = saved' /\ old = Settle(op.st)
        OBVIOUS
      <3>0. /\ note.files = old.files /\ note.fetched = old.fetched /\ note.synced = old.synced
            /\ note.web = old.web /\ note.head = old.head /\ Informed(old)
        BY <2>3, <3>2, <3>3
      <3>4. Recorded(note) = Recorded(old) /\ Branch(note) = Branch(old)
        BY <3>0 DEF Recorded, Branch
      <3>5. Informed(note)
        BY <3>0, <3>4 DEF Informed, Shown
      <3>6. \A st \in Notes' : st \in Notes \/ (Fits(st) /\ Informed(st))
        BY <2>1, <3>2, <3>3, <3>5 DEF Notes
      <3>. QED
        BY <1>0, <2>1, <3>2, <3>6, WatchingHere DEF Reading
    <2>. QED
      BY <1>5, <2>4, <2>5, PushPlanIs
  <1>6. CASE PostLands
    <2>1. UNCHANGED <<commits, main, saved, seen>> /\ op'.pc \notin Reading /\ Notes' \subseteq Notes
      BY <1>6, PostLandsIs DEF here, Reading
    <2>2. UNCHANGED <<web, head>> \/ head' = head + 1
      BY <1>6, PostLandsIs, AppliedShows DEF Shape
    <2>. QED
      BY <1>0, <2>1, <2>2, WatchingHere, WatchingMoves
  <1>7. CASE PostSuggestion \/ PostFails \/ Stop
    <2>1. UNCHANGED <<web, head, commits, main, saved, seen>> /\ op'.pc \notin Reading /\ Notes' \subseteq Notes
      BY <1>7, PostEndsIs DEF here, Reading, Idle
    <2>. QED
      BY <1>0, <2>1, WatchingHere
  <1>8. CASE StrayLands
    <2>1. UNCHANGED <<commits, main, saved, op, seen>> /\ Notes' = Notes
      BY <1>8, StrayLandsIs DEF here, Notes
    <2>2. UNCHANGED <<web, head>> \/ head' = head + 1
      BY <1>8, StrayLandsIs, AppliedShows DEF Shape
    <2>. QED
      BY <1>0, <2>1, <2>2, WatchingHere, WatchingMoves
  <1>9. CASE PushAccepted \/ PushRefused
    <2>1. /\ UNCHANGED <<web, head, commits, main, seen>> /\ Fits(op.st) /\ Fits(saved')
          /\ op.request \in Requests /\ op.request.commit <= Len(commits)
          /\ \/ op' = [pc |-> "scan", st |-> saved']
             \/ op' = Idle
      BY <1>9, AnsweredIs DEF here
    <2>2. PICK note : note = saved'
      OBVIOUS
    <2>3. Informed(note)
      <3>1. CASE PushAccepted
        <4>1. note.web = NoHead /\ head \in Nat
          BY <2>1, <2>2, <3>1, AcceptedIs DEF PushAccepted, Shape, ProjectShape
        <4>. QED
          BY <4>1 DEF NoHead, Informed
      <3>2. CASE PushRefused
        <4>1. note = [op.st EXCEPT !.pending = {}] /\ op.pc = "refused"
          BY <2>2, <3>2 DEF PushRefused
        <4>2. /\ note.files = op.st.files /\ note.fetched = op.st.fetched /\ note.synced = op.st.synced
              /\ note.web = op.st.web /\ note.head = op.st.head
          BY <2>1, <4>1 DEF Fits, StateRecs
        <4>3. Recorded(note) = Recorded(op.st) /\ Branch(note) = Branch(op.st)
          BY <4>2 DEF Recorded, Branch
        <4>4. Informed(op.st)
          BY <4>1, InNotes DEF Watching
        <4>. QED
          BY <4>2, <4>3, <4>4 DEF Informed, Shown
      <3>. QED
        BY <1>9, <3>1, <3>2
    <2>4. \A st \in Notes' : st \in Notes \/ (Fits(st) /\ Informed(st))
      BY <2>1, <2>2, <2>3 DEF Notes, Idle
    <2>. QED
      BY <1>0, <2>1, <2>4, WatchingHere DEF Idle, Reading
  <1>. QED
    BY <1>1, <1>2, <1>3, <1>4, <1>5, <1>6, <1>7, <1>8, <1>9

\* A pull of a folder: what it read of the head is from before it read the
\* files, so where that is still the head the files are still the project's.
LEMMA WatchingFolder ==
    ASSUME Shape, Watching,
           \/ \E side \in Sides : PullFolder(side)
           \/ PullRead
           \/ \E p \in Paths : PullWrite(p)
           \/ PullSave
    PROVE  Watching'
  <1>0. Grown(commits) /\ Extends(commits, commits) /\ main \in 0..Len(commits) /\ head \in Nat
    BY DEF Shape, RepoShape, ProjectShape, Grown, Extends
  <1>1. CASE \E side \in Sides : PullFolder(side)
    <2>1. PICK side : op' = [pc |-> "read", st |-> saved, found |-> Discover(saved.pulled), side |-> side]
      BY <1>1 DEF PullFolder
    <2>2. UNCHANGED <<web, head, commits, main, saved, seen>>
      BY <1>1 DEF PullFolder, project, standing, here
    <2>3. op'.pc = "read" /\ op'.st = saved /\ op'.found.head = head
      BY <2>1, DiscoverIs DEF Shape
    <2>4. ASSUME NEW st \in Notes'
          PROVE  Informed(st)'
      <3>1. st \in Notes
        BY <2>2, <2>3 DEF Notes
      <3>. QED
        BY <1>0, <2>2, <3>1, InformedGrows DEF Shape, NotesShape, Watching
    <2>5. (\A st \in Notes : Informed(st))'
      BY <2>4
    <2>6. saved.web <= head
      BY InNotes DEF Watching, Informed
    <2>. QED
      BY <1>0, <2>2, <2>3, <2>5, <2>6 DEF Watching, Reading
  <1>2. CASE PullRead
    <2>1. /\ op.pc = "read" /\ op'.pc = "write" /\ op'.st = op.st /\ op'.found = op.found /\ op'.snap = web
          /\ UNCHANGED <<web, head, commits, main, saved, seen>>
      BY <1>2 DEF PullRead, project, standing, here
    <2>2. ASSUME NEW st \in Notes'
          PROVE  Informed(st)'
      <3>1. st \in Notes
        BY <2>1 DEF Notes
      <3>. QED
        BY <1>0, <2>1, <3>1, InformedGrows DEF Shape, NotesShape, Watching
    <2>3. (\A st \in Notes : Informed(st))'
      BY <2>2
    <2>. QED
      BY <2>1, <2>3 DEF Watching, Reading
  <1>3. CASE \E p \in Paths : PullWrite(p)
    <2>1. /\ op.pc = "write" /\ op'.pc = "write" /\ op'.st = op.st /\ op'.found = op.found /\ op'.snap = op.snap
          /\ UNCHANGED <<web, head, commits, main, saved, seen>>
      BY <1>3, ShapePullWrite DEF PullWrite, project, standing
    <2>2. ASSUME NEW st \in Notes'
          PROVE  Informed(st)'
      <3>1. st \in Notes
        BY <2>1 DEF Notes
      <3>. QED
        BY <1>0, <2>1, <3>1, InformedGrows DEF Shape, NotesShape, Watching
    <2>3. (\A st \in Notes : Informed(st))'
      BY <2>2
    <2>. QED
      BY <2>1, <2>3 DEF Watching, Reading
  <1>4. CASE PullSave
    <2> DEFINE unsettled == Unsettled(op.st.files, op.scan, op.snap, op.side)
    <2>1. /\ op.pc = "write" /\ op' = Idle /\ Fits(saved') /\ saved'.fetched = op.st.fetched
          /\ saved'.files = Records(op.st.files, op.scan, op.snap, op.side)
          /\ saved'.head = op.st.head
          /\ saved'.web = IF unsettled = {} THEN op.found.head ELSE op.st.web
          /\ UNCHANGED <<web, head, commits, main, seen>>
      BY <1>4, PullSaveIs DEF here
    <2>2. PICK note : note = saved'
      OBVIOUS
    <2>3. /\ kind = "folder" /\ Fits(op.st) /\ op.snap \in Trees /\ op.st.files \in Trees /\ op.scan \in Trees
          /\ op.found.head \in Nat
      BY <2>1, WritingIs DEF Founds
    <2>4. commits = <<>> /\ main = 0
      BY <1>0, <2>3 DEF Shape, RepoShape
    <2>5. op.st.fetched = {} /\ op.st.head = 0 /\ op.st.web \in Int
      BY <2>3, <2>4 DEF Fits, StateRecs, Reach
    <2>6. Informed(op.st) /\ op.found.head <= head /\ op.st.web <= op.found.head
          /\ (op.found.head = head => op.snap = web)
      BY <2>1, InNotes DEF Watching, Reading
    <2>7. Branch(op.st) = Empty /\ Branch(note) = Empty /\ Recorded(op.st) = op.st.files
          /\ Recorded(note) = note.files
      BY <2>1, <2>2, <2>4, <2>5 DEF Branch, TreeOf, Recorded
    <2>8. Informed(note)
      <3>1. CASE unsettled = {}
        <4>1. note.files = op.snap
          <5>1. note.files = [p \in Paths |-> IF p \in unsettled THEN op.st.files[p] ELSE op.snap[p]]
            BY <2>1, <2>2 DEF Records
          <5>. HIDE DEF unsettled
          <5>2. note.files = [p \in Paths |-> op.snap[p]]
            BY <3>1, <5>1
          <5>. QED
            BY <2>3, <5>2 DEF Trees
        <4>2. note.web = op.found.head
          BY <2>1, <2>2, <3>1
        <4>. QED
          BY <2>6, <2>7, <4>1, <4>2 DEF Informed
      <3>2. CASE unsettled # {} /\ op.st.web = head
        <4>1. op.found.head = head /\ op.snap = web
          BY <1>0, <2>3, <2>6, <3>2
        <4>2. web # op.st.files
          BY <3>2, <4>1 DEF Unsettled, Conflicts
        <4>3. Overlay(Empty, web, op.st.synced) = Empty
          BY <2>6, <2>7, <3>2, <4>2 DEF Informed, Shown
        <4>4. \A p \in Paths : web[p] = Absent
          <5>1. \A p \in Paths : Overlay(Empty, web, op.st.synced)[p] = Absent
            BY <4>3 DEF Empty
          <5>2. \A p \in Paths : web[p] # Absent => Overlay(Empty, web, op.st.synced)[p] = web[p]
            BY DEF Overlay
          <5>. QED
            BY <5>1, <5>2
        <4>5. Overlay(Empty, web, note.synced) = Empty
          <5>1. \A p \in Paths : web[p] = Absent /\ Empty[p] = Absent
            BY <4>4 DEF Empty
          <5>. QED
            BY <5>1 DEF Overlay, Empty
        <4>6. note.web = head
          BY <2>1, <2>2, <3>2
        <4>7. Shown(note)
          BY <2>7, <4>5 DEF Shown
        <4>. QED
          BY <1>0, <4>6, <4>7 DEF Informed
      <3>3. CASE unsettled # {} /\ op.st.web # head
        <4>1. note.web = op.st.web
          BY <2>1, <2>2, <3>3
        <4>. QED
          BY <2>6, <3>3, <4>1 DEF Informed
      <3>. QED
        BY <3>1, <3>2, <3>3
    <2>9. \A st \in Notes' : st \in Notes \/ (Fits(st) /\ Informed(st))
      BY <2>1, <2>2, <2>8 DEF Notes, Idle
    <2>. QED
      BY <1>0, <2>1, <2>9, WatchingHere DEF Idle, Reading
  <1>. QED
    BY <1>1, <1>2, <1>3, <1>4

\* A pull of a repository: what is fetched is on the branch before it is
\* saved, and a fetch whose save never comes leaves it there.
LEMMA WatchingRepository ==
    ASSUME Shape, Watching,
           \/ \E merge \in BOOLEAN : PullRepository(merge)
           \/ Fetch \/ PullSaveFetched \/ MergeFetched \/ PullPromote,
           kind # "connection"
    PROVE  Watching'
  <1>0. Grown(commits) /\ Extends(commits, commits) /\ main \in 0..Len(commits) /\ head \in Nat
        /\ seen.pc = "idle"
    BY DEF Shape, RepoShape, ProjectShape, SeenShape, Grown, Extends
  <1>1. CASE \E merge \in BOOLEAN : PullRepository(merge)
    <2>1. PICK merge \in BOOLEAN : PullRepository(merge)
      BY <1>1
    <2>2. UNCHANGED <<web, head, commits, main, seen>> /\ Fits(saved) /\ Fits(Settle(saved)) /\ op.pc = "idle"
      BY <2>1, PullRepositoryIs DEF here
    <2>3. Informed(saved)
      BY InNotes DEF Watching
    <2>4. PICK note : note = Settle(saved)
      OBVIOUS
    <2>5. Informed(note) /\ Fits(note) /\ note.synced = saved.synced /\ note.web = saved.web
      BY <2>2, <2>3, <2>4, InformedSettled, SettledIs DEF Shape
    <2>6. CASE saved' = Settle(saved) /\ op' = op
      <3>1. \A st \in Notes' : st \in Notes \/ (Fits(st) /\ Informed(st))
        BY <2>2, <2>4, <2>5, <2>6 DEF Notes
      <3>. QED
        BY <1>0, <2>2, <2>6, <3>1, WatchingHere DEF Reading
    <2>7. CASE /\ saved' = saved /\ op'.pc \in {"save", "fetch"} /\ op'.st = Settle(saved)
               /\ op'.found.head = head
      <3>1. ASSUME NEW st \in Notes'
            PROVE  Informed(st)'
        <4>1. Fits(st) /\ Informed(st)
          BY <2>2, <2>3, <2>4, <2>5, <2>7, <1>0 DEF Notes
        <4>. QED
          BY <1>0, <2>2, <4>1, InformedGrows
      <3>2. (\A st \in Notes : Informed(st))'
        BY <3>1
      <3>3. note.web <= head
        BY <2>5 DEF Informed
      <3>. QED
        BY <1>0, <2>2, <2>4, <2>5, <2>7, <3>2, <3>3 DEF Watching, Reading
    <2>. QED
      BY <2>1, <2>6, <2>7, PullRepositoryIs
  <1>2. CASE Fetch
    <2>1. PICK note : Fetched(note)
      BY <1>2, FetchIs
    <2>2. /\ op.pc = "fetch" /\ Fits(op.st) /\ UNCHANGED <<web, head, seen>>
          /\ Grown(commits') /\ Extends(commits, commits')
          /\ op \in [pc : Fetching, st : StateRecs, merge : BOOLEAN, found : Founds(Histories)]
      BY <1>2, FetchIs
    <2>3. op.found.head <= head /\ saved.synced \subseteq op.st.synced /\ Informed(saved) /\ Fits(saved)
      BY <2>2, InNotes DEF Watching, Reading, Shape, NotesShape
    <2>4. note.web = op.found.head /\ op.st.synced \subseteq note.synced /\ note.head = op.st.head
      BY <2>1 DEF Fetched
    <2>5. web \in Trees
      BY DEF Shape, ProjectShape
    <2>6. CASE /\ UNCHANGED <<commits, main>>
               /\ note.fetched = op.st.fetched /\ note.synced = op.st.synced \cup Present(web)
               /\ \A p \in Paths : web[p] # Absent \/ p \in op.st.synced => Branch(op.st)[p] = web[p]
               /\ \/ saved' = note /\ op' = Idle
                  \/ saved' = saved /\ op' = [op EXCEPT !.pc = "save", !.st = note]
      <3>1. Branch(note) = Branch(op.st)
        BY <2>4 DEF Branch
      <3>2. Branch(op.st) \in Trees
        <4>1. (IF main # 0 THEN main ELSE op.st.head) \in 0..Len(commits)
          BY <1>0, <2>2 DEF Fits, StateRecs
        <4>. QED
          BY <1>0, <4>1, TreeOfIn DEF Branch
      <3>3. \A p \in Paths : web[p] # Absent \/ p \in note.synced => Branch(op.st)[p] = web[p]
        BY <2>6 DEF Present
      <3>4. Shown(note)
        <4>1. \A p \in Paths : (IF web[p] # Absent \/ p \in note.synced THEN web[p] ELSE Branch(op.st)[p]) = Branch(op.st)[p]
          BY <3>3
        <4>2. Overlay(Branch(op.st), web, note.synced) = [p \in Paths |-> Branch(op.st)[p]]
          BY <4>1 DEF Overlay
        <4>. QED
          BY <3>1, <3>2, <4>2 DEF Shown, Trees
      <3>5. Informed(note)
        BY <2>3, <2>4, <3>4 DEF Informed
      <3>6. Fits(note)
        <4>1. Fits(note)'
          BY <2>1 DEF Fetched
        <4>. QED
          BY <2>6, <4>1 DEF Fits
      <3>7. op'.pc \notin Reading /\ (op'.pc # "idle" => op'.st = note) /\ saved' \in {saved, note}
        <4>1. CASE op' = Idle
          BY <2>6, <4>1 DEF Idle, Reading
        <4>2. CASE op' = [op EXCEPT !.pc = "save", !.st = note]
          <5>1. op'.pc = "save" /\ op'.st = note
            BY <2>2, <4>2
          <5>. QED
            BY <2>6, <5>1 DEF Reading
        <4>. QED
          BY <2>6, <4>1, <4>2
      <3>8. \A st \in Notes' : st \in Notes \/ (Fits(st) /\ Informed(st))
        BY <2>2, <3>5, <3>6, <3>7 DEF Notes
      <3>. QED
        BY <1>0, <2>2, <2>6, <3>7, <3>8, WatchingHere
    <2>7. CASE /\ main' # 0 /\ note.fetched = {[commit |-> main', files |-> web]}
               /\ \A p \in Paths : web[p] # Absent \/ p \in op.st.synced => TreeOf(commits', main')[p] = web[p]
               /\ saved' = saved /\ op' = [op EXCEPT !.pc = "save", !.st = note]
      <3>1. PICK branch : branch = TreeOf(commits', main')
        OBVIOUS
      <3>2. branch \in Trees
        BY <1>2, <3>1, FetchIs, TreeOfIn
      <3>3. Shown(saved)'
        <4>1. \A p \in Paths : web[p] # Absent \/ p \in saved.synced => branch[p] = web[p]
          BY <2>3, <2>7, <3>1
        <4>2. \A p \in Paths : (IF web[p] # Absent \/ p \in saved.synced THEN web[p] ELSE branch[p]) = branch[p]
          BY <4>1
        <4>3. Overlay(branch, web, saved.synced) = [p \in Paths |-> branch[p]]
          BY <4>2 DEF Overlay
        <4>4. Overlay(branch, web, saved.synced) = branch
          BY <3>2, <4>3 DEF Trees
        <4>5. Branch(saved)' = branch
          BY <2>7, <3>1 DEF Branch
        <4>. QED
          BY <2>2, <2>7, <4>4, <4>5 DEF Shown
      <3>4. Informed(saved)'
        BY <2>2, <2>3, <2>7, <3>3 DEF Informed
      <3>5. Recorded(note) = web
        <4>1. PICK f : f = [commit |-> main', files |-> web]
          OBVIOUS
        <4>2. note.fetched = {f} /\ f.files = web
          BY <2>7, <4>1
        <4>. QED
          BY <4>2 DEF Recorded
      <3>6. Informed(note)'
        BY <2>2, <2>3, <2>4, <3>5 DEF Informed, Recorded
      <3>7. op'.pc = "save" /\ op'.st = note
        BY <2>2, <2>7
      <3>8. \A st \in Notes' : st = saved' \/ st = note
        BY <1>0, <2>2, <3>7 DEF Notes
      <3>9. (\A st \in Notes : Informed(st))'
        BY <3>4, <3>6, <3>8
      <3>. QED
        BY <3>7, <3>9 DEF Watching, Reading
    <2>. QED
      BY <2>1, <2>6, <2>7 DEF Fetched
  <1>3. CASE PullSaveFetched
    <2>1. UNCHANGED <<web, head, commits, main>> /\ op'.pc \notin Reading /\ Notes' \subseteq Notes
      BY <1>3, PullSaveFetchedIs DEF here, Idle, Reading
    <2>. QED
      BY <1>0, <2>1, WatchingHere
  <1>4. CASE MergeFetched
    <2>1. /\ UNCHANGED <<web, head, main, saved>> /\ Grown(commits') /\ Extends(commits, commits')
          /\ op \in [pc : Fetching, st : StateRecs, merge : BOOLEAN, found : Founds(Histories)]
      BY <1>4, MergeFetchedIs
    <2>2. op' = Idle \/ op' = [op EXCEPT !.pc = "promote"]
      BY <1>4, MergeFetchedIs DEF MergeStops, MergeEnds
    <2>3. op'.pc \notin Reading
      BY <2>1, <2>2 DEF Idle, Reading
    <2>4. Notes' \subseteq Notes
      BY <1>4, ShapeMergeFetched
    <2>. QED
      BY <2>1, <2>3, <2>4, WatchingHere
  <1>5. CASE PullPromote
    <2>1. /\ UNCHANGED <<web, head, commits, main, seen>> /\ op' = Idle /\ op.pc = "promote"
          /\ saved' = Promote(commits, op.st) /\ Fits(op.st) /\ op.st.fetched # {}
      BY <1>5, PullPromoteIs DEF here
    <2>2. PICK f \in op.st.fetched : TRUE
      BY <2>1
    <2>3. Informed(op.st)
      BY <2>1, InNotes DEF Watching
    <2>4. PICK note : note = Promote(commits, op.st)
      OBVIOUS
    <2>5. Fits(note) /\ Informed(note)
      BY <2>1, <2>2, <2>3, <2>4, Promoted, InformedPromoted DEF Shape
    <2>6. \A st \in Notes' : st \in Notes \/ (Fits(st) /\ Informed(st))
      BY <2>1, <2>4, <2>5 DEF Notes, Idle
    <2>. QED
      BY <1>0, <2>1, <2>6, WatchingHere DEF Idle, Reading
  <1>. QED
    BY <1>1, <1>2, <1>3, <1>4, <1>5

\* Every step keeps it, of a directory whose State only transfers save.
LEMMA WatchingNext ==
    ASSUME Shape, kind # "connection" => Watching, [Next]_vars
    PROVE  (kind # "connection" => Watching)'
  <1>0. kind' = kind
    BY KindStays
  <1>. SUFFICES ASSUME kind # "connection", Watching
                PROVE  Watching'
    BY <1>0
  <1>1. CASE \/ UNCHANGED vars
             \/ Quietly /\ ((\E p \in Paths : WebEdit(p)) \/ WebName \/ WebTrim)
             \/ \E p \in Paths : Edit(p)
             \/ CommitWork \/ AbortMerge
             \/ PushStart \/ PushPlan \/ PostLands \/ PostSuggestion \/ PostFails \/ Stop \/ StrayLands
             \/ PushAccepted \/ PushRefused
    BY <1>1, WatchingPush
  <1>2. CASE \/ \E side \in Sides : PullFolder(side)
             \/ PullRead
             \/ \E p \in Paths : PullWrite(p)
             \/ PullSave
    BY <1>2, WatchingFolder
  <1>3. CASE \/ \E merge \in BOOLEAN : PullRepository(merge)
             \/ Fetch \/ PullSaveFetched \/ MergeFetched \/ PullPromote
    BY <1>3, WatchingRepository
  <1>4. CASE StatusRead \/ StatusSave
    BY <1>4, StatusReadIs, StatusSaveIs
  <1>. QED
    BY <1>1, <1>2, <1>3, <1>4 DEF Next, Sides

\* A pull that finds the head it read last, and so says "up to date", has the
\* project's files recorded or on the branch it fetches to.
THEOREM NothingHiddenAlways == Spec => []NothingHidden
  <1>1. Init => (kind # "connection" => Watching)
    <2>. SUFFICES ASSUME Init PROVE Watching
      OBVIOUS
    <2>1. Notes = {saved} /\ op.pc = "idle"
      BY InitIs DEF Notes, Idle
    <2>2. Informed(saved)
      BY InitIs DEF Informed, NoHead
    <2>. QED
      BY <2>1, <2>2 DEF Watching, Reading
  <1>2. Shape /\ (kind # "connection" => Watching) /\ [Next]_vars => (kind # "connection" => Watching)'
    BY WatchingNext
  <1>3. (kind # "connection" => Watching) => NothingHidden
    BY InNotes DEF Watching, NothingHidden, Informed
  <1>. QED
    BY <1>1, <1>2, <1>3, ShapeAlways, PTL DEF Spec

-----------------------------------------------------------------------------
(* What a directory takes for agreed was the project's, and no pull writes *)
(* over work that was never sent                                           *)

\* Whatever a tree, or a request's files, hold was the project's once.
On(tree) == \A p \in Paths : tree[p] # Absent => <<p, tree[p]>> \in onWeb
PutOn(r) == \A p \in DOMAIN r.put : r.put[p] # Absent => <<p, r.put[p]>> \in onWeb
Grounded(st) == On(st.files) /\ \A f \in st.fetched : On(f.files)

\* Every request there is a copy of: on its way, or saved as pending.
Sent == stray \cup UNION {st.pending : st \in Notes}
Landed(key) == LabelForRequest(key) # {}

\* What is recorded, fetched, read or accepted was the project's; two requests
\* with one key are one request, and one that landed left its files there.
Sourced ==
    /\ On(web)
    /\ \A st \in Notes : Grounded(st)
    /\ \A r \in Sent : Landed(r.key) => PutOn(r)
    /\ \A a, b \in Sent : a.key = b.key => a = b
    /\ op.pc = "accepted" => PutOn(op.request)
    /\ op.pc = "write" => On(op.snap) /\ op.todo \subseteq Apply(op.st.files, op.scan, op.snap, op.side)
    /\ lostHere = {}

\* The copies there are.
LEMMA SentIn ==
    ASSUME Shape
    PROVE  /\ Sent \subseteq Requests /\ \A r \in Sent : r.key # NoKey
           /\ stray \subseteq Sent
           /\ \A st \in Notes : st.pending \subseteq Sent
  <1>1. \A st \in Notes : st.pending \subseteq Requests
    BY DEF Shape, NotesShape, Fits, StateRecs
  <1>2. Sent \subseteq Requests
    BY <1>1 DEF Sent, Shape, StrayShape
  <1>3. \A r \in Requests : r.key # NoKey
    BY DEF Requests, NoKey
  <1>. QED
    BY <1>2, <1>3 DEF Sent

\* A step that leaves the project alone and sends nothing new.
LEMMA SourcedHere ==
    ASSUME Sourced, UNCHANGED <<web, labels, onWeb, lostHere>>, stray' \subseteq Sent,
           \A st \in Notes' : st \in Notes \/ (Grounded(st) /\ st.pending \subseteq Sent),
           op' = op \/ op'.pc \notin {"accepted", "write"}
    PROVE  Sourced'
  <1>1. Sent' \subseteq Sent
    <2>1. \A st \in Notes' : st.pending \subseteq Sent
      BY DEF Sent
    <2>. QED
      BY <2>1 DEF Sent
  <1>2. \A st \in Notes' : Grounded(st)
    BY DEF Sourced
  <1>3. \A r \in Sent' : Landed(r.key) => PutOn(r)
    BY <1>1 DEF Sourced
  <1>4. (\A st \in Notes : Grounded(st))' /\ On(web)'
    BY <1>2 DEF Grounded, On, Sourced
  <1>5. (\A r \in Sent : Landed(r.key) => PutOn(r))'
    BY <1>3 DEF Landed, LabelForRequest, PutOn
  <1>6. \A a, b \in Sent' : a.key = b.key => a = b
    BY <1>1 DEF Sourced
  <1>7. (op.pc = "accepted" => PutOn(op.request))'
    BY DEF Sourced, PutOn
  <1>8. (op.pc = "write" => On(op.snap) /\ op.todo \subseteq Apply(op.st.files, op.scan, op.snap, op.side))'
    BY DEF Sourced, On
  <1>. QED
    BY <1>4, <1>5, <1>6, <1>7, <1>8 DEF Sourced

\* A step of the project: it forgets nothing of what it held.
LEMMA SourcedMoves ==
    ASSUME Sourced, onWeb \subseteq onWeb', On(web)', UNCHANGED lostHere, Notes' \subseteq Notes,
           stray' \subseteq stray,
           \A r \in Sent : Landed(r.key)' => Landed(r.key) \/ PutOn(r)',
           op' = op \/ (op'.pc # "write" /\ (op'.pc = "accepted" => PutOn(op.request)'))
    PROVE  Sourced'
  <1>1. Sent' \subseteq Sent
    BY DEF Sent
  <1>2. ASSUME NEW st \in Notes'
        PROVE  Grounded(st)'
    <2>1. Grounded(st)
      BY DEF Sourced
    <2>. QED
      BY <2>1 DEF Grounded, On
  <1>3. ASSUME NEW r \in Sent', Landed(r.key)'
        PROVE  PutOn(r)'
    <2>1. PutOn(r) \/ PutOn(r)'
      BY <1>1, <1>3 DEF Sourced
    <2>. QED
      BY <2>1 DEF PutOn
  <1>4. (\A st \in Notes : Grounded(st))'
    BY <1>2
  <1>5. (\A r \in Sent : Landed(r.key) => PutOn(r))'
    BY <1>3
  <1>6. \A a, b \in Sent' : a.key = b.key => a = b
    BY <1>1 DEF Sourced
  <1>7. (op.pc = "accepted" => PutOn(op.request))'
    <2>1. CASE op' = op
      BY <2>1 DEF Sourced, PutOn
    <2>2. CASE op' # op
      BY <2>2
    <2>. QED
      BY <2>1, <2>2
  <1>8. (op.pc = "write" => On(op.snap) /\ op.todo \subseteq Apply(op.st.files, op.scan, op.snap, op.side))'
    BY DEF Sourced, On
  <1>. QED
    BY <1>4, <1>5, <1>6, <1>7, <1>8 DEF Sourced

\* A request that is applied puts its files there, and no other has its key.
LEMMA AppliedPuts ==
    ASSUME Shape, Sourced, NEW r \in Sent, Applied(r)
    PROVE  /\ onWeb \subseteq onWeb' /\ On(web)' /\ PutOn(r)'
           /\ \A a \in Sent : Landed(a.key)' => Landed(a.key) \/ PutOn(a)'
  <1>1. r \in Requests
    BY SentIn
  <1>2. /\ web' = [p \in Paths |-> IF p \in DOMAIN r.put THEN r.put[p] ELSE web[p]]
        /\ onWeb' = onWeb \cup Held(web')
        /\ \A s \in DOMAIN labels' : \/ s \in DOMAIN labels /\ labels'[s].key = labels[s].key
                                     \/ labels'[s].key = r.key
    BY <1>1, AppliedShows DEF Shape
  <1>3. \A p \in Paths : <<p, web'[p]>> \in onWeb'
    BY <1>2 DEF Held
  <1>4. r.put \in Partials /\ web \in Trees
    BY <1>1 DEF Requests, Shape, ProjectShape
  <1>5. DOMAIN r.put \subseteq Paths
    BY <1>4, PartialOver
  <1>6. \A p \in DOMAIN r.put : web'[p] = r.put[p]
    BY <1>2, <1>5
  <1>7. PutOn(r)'
    BY <1>3, <1>5, <1>6 DEF PutOn
  <1>8. On(web)'
    BY <1>3 DEF On
  <1>9. ASSUME NEW a \in Sent, Landed(a.key)'
        PROVE  Landed(a.key) \/ PutOn(a)'
    <2>1. PICK s \in DOMAIN labels' : labels'[s].key = a.key
      BY <1>9 DEF Landed, LabelForRequest
    <2>2. CASE s \in DOMAIN labels /\ labels'[s].key = labels[s].key
      BY <2>1, <2>2 DEF Landed, LabelForRequest
    <2>3. CASE labels'[s].key = r.key
      <3>1. a = r
        BY <2>1, <2>3 DEF Sourced
      <3>. QED
        BY <1>7, <3>1
    <2>. QED
      BY <1>2, <2>2, <2>3
  <1>. QED
    BY <1>2, <1>7, <1>8, <1>9

\* The browser, the person, and a status request.
LEMMA SourcedAround ==
    ASSUME Shape, Sourced,
           \/ UNCHANGED vars
           \/ Quietly /\ ((\E p \in Paths : WebEdit(p)) \/ WebName \/ WebTrim)
           \/ \E p \in Paths : Edit(p)
           \/ CommitWork \/ AbortMerge
           \/ StatusRead \/ StatusSave
    PROVE  Sourced'
  <1>0. stray \subseteq Sent
    BY SentIn
  <1>1. CASE \/ UNCHANGED vars
             \/ \E p \in Paths : Edit(p)
             \/ CommitWork \/ AbortMerge
    <2>1. UNCHANGED <<web, labels, onWeb, lostHere, saved, op, seen, stray>>
      BY <1>1 DEF vars, project, standing, ghosts, Edit, CommitWork, AbortMerge
    <2>. QED
      BY <1>0, <2>1, SourcedHere DEF Notes
  <1>2. CASE Quietly /\ ((\E p \in Paths : WebEdit(p)) \/ WebName \/ WebTrim)
    <2>1. UNCHANGED <<lostHere, saved, op, seen, stray>> /\ Notes' = Notes
      BY <1>2 DEF Quietly, ghosts, Notes
    <2>2. /\ \A s \in DOMAIN labels' : \/ s \in DOMAIN labels /\ labels'[s].key = labels[s].key
                                       \/ labels'[s].key = NoKey
          /\ \/ UNCHANGED <<web, head, onWeb>>
             \/ onWeb' = onWeb \cup Held(web')
      BY <1>2, WebIs
    <2>3. onWeb \subseteq onWeb'
      BY <2>2
    <2>4. On(web)'
      BY <2>2 DEF Sourced, On, Held
    <2>5. ASSUME NEW r \in Sent, Landed(r.key)'
          PROVE  Landed(r.key)
      <3>1. PICK s \in DOMAIN labels' : labels'[s].key = r.key
        BY <2>5 DEF Landed, LabelForRequest
      <3>2. r.key # NoKey
        BY SentIn
      <3>. QED
        BY <2>2, <3>1, <3>2 DEF Landed, LabelForRequest
    <2>. QED
      BY <2>1, <2>3, <2>4, <2>5, SourcedMoves
  <1>3. CASE StatusRead
    <2>1. UNCHANGED <<web, labels, onWeb, lostHere, op, stray>> /\ Notes' \subseteq Notes
      BY <1>3, StatusReadIs DEF ghosts
    <2>. QED
      BY <1>0, <2>1, SourcedHere
  <1>4. CASE StatusSave
    <2>1. /\ UNCHANGED <<web, labels, onWeb, lostHere, op, stray>> /\ seen.pc = "save" /\ seen' = Idle
          /\ saved'.files = seen.st.files /\ saved'.fetched = seen.st.fetched
          /\ saved'.pending = seen.st.pending
      BY <1>4, StatusSaveIs DEF ghosts
    <2>2. PICK note : note = saved'
      OBVIOUS
    <2>3. Grounded(seen.st) /\ seen.st.pending \subseteq Sent
      BY <2>1, InNotes, SentIn DEF Sourced
    <2>4. Grounded(note) /\ note.pending \subseteq Sent
      BY <2>1, <2>2, <2>3 DEF Grounded
    <2>5. \A st \in Notes' : st \in Notes \/ st = note
      BY <2>1, <2>2 DEF Notes, Idle
    <2>. QED
      BY <1>0, <2>1, <2>4, <2>5, SourcedHere
  <1>. QED
    BY <1>1, <1>2, <1>3, <1>4

\* Settling keeps what is recorded the project's.
LEMMA GroundedSettled ==
    ASSUME RepoShape, NEW st, Fits(st), Grounded(st)
    PROVE  Grounded(Settle(st))
  <1>1. CASE Settle(st) = st
    BY <1>1
  <1>2. CASE \E f \in st.fetched : Settle(st).fetched = {} /\ Settle(st).files = f.files
    BY <1>2 DEF Grounded
  <1>. QED
    BY <1>1, <1>2, SettledIs

\* A push: its request has a key of its own, and only what landed is recorded.
LEMMA SourcedPush ==
    ASSUME Shape, Sourced,
           \/ PushStart \/ PushPlan \/ PostLands \/ PostSuggestion \/ PostFails \/ Stop \/ StrayLands
           \/ PushAccepted \/ PushRefused
    PROVE  Sourced'
  <1>0. stray \subseteq Sent
    BY SentIn
  <1>1. CASE PushStart
    <2>1. UNCHANGED <<web, labels, lostHere, stray, saved, seen>> /\ op'.pc \notin {"accepted", "write"}
          /\ op'.st = saved
      BY <1>1, PushStartIs DEF ghosts
    <2>2. onWeb' = onWeb
      BY <1>1 DEF PushStart, project, standing
    <2>3. Notes' \subseteq Notes
      BY <2>1 DEF Notes
    <2>. QED
      BY <1>0, <2>1, <2>2, <2>3, SourcedHere
  <1>2. CASE PushPlan
    <2>1. UNCHANGED <<web, labels, lostHere, stray, seen>> /\ op.pc = "scan" /\ Fits(op.st) /\ op.st.pending = {}
      BY <1>2, PushPlanIs DEF ghosts
    <2>2. onWeb' = onWeb
      BY <1>2 DEF PushPlan, project, standing
    <2>3. PICK old : old = Settle(op.st)
      OBVIOUS
    <2>4. Grounded(old) /\ old.pending = {}
      BY <2>1, <2>3, InNotes, GroundedSettled, SettledIs DEF Sourced, Shape
    <2>5. CASE op' = Idle /\ saved' \in {saved, Settle(op.st)}
      <3>1. \A st \in Notes' : st \in Notes \/ st = old
        BY <2>1, <2>3, <2>5 DEF Notes, Idle
      <3>. QED
        BY <1>0, <2>1, <2>2, <2>4, <2>5, <3>1, SourcedHere DEF Idle
    <2>6. CASE \E request \in Requests : Plan(request)
      <3>1. PICK r \in Requests : Plan(r)
        BY <2>6
      <3>2. /\ saved'.pending = {r} /\ saved'.files = old.files /\ saved'.fetched = old.fetched
            /\ op'.pc = "post" /\ op'.st = saved'
        BY <2>1, <2>3, <3>1, PlanIs
      <3>3. PICK note : note = saved'
        OBVIOUS
      <3>4. Grounded(note)
        BY <2>4, <3>2, <3>3 DEF Grounded
      <3>5. r.key = FreshKey /\ FreshKey \notin Abroad /\ \A a \in Copies : a.key # FreshKey
        BY <3>1, FreshKeyIs DEF Plan, Shape
      <3>6. \A a \in Sent : a.key # r.key
        <4>1. Sent = stray \cup Copies
          BY <2>1 DEF Sent, Notes, Copies
        <4>2. \A a \in stray : a.key \in Abroad
          BY DEF Abroad
        <4>. QED
          BY <3>5, <4>1, <4>2
      <3>7. ~Landed(r.key)
        BY <3>5 DEF Landed, LabelForRequest, Abroad
      <3>8. Notes' \subseteq {note} \cup Notes
        BY <2>1, <3>2, <3>3 DEF Notes
      <3>9. Sent' \subseteq Sent \cup {r}
        BY <2>1, <3>2, <3>3, <3>8 DEF Sent
      <3>10. \A a \in Sent' : Landed(a.key) => PutOn(a)
        BY <3>7, <3>9 DEF Sourced
      <3>11. (\A a \in Sent : Landed(a.key) => PutOn(a))'
        BY <2>1, <2>2, <3>10 DEF Landed, LabelForRequest, PutOn
      <3>12. \A a, b \in Sent' : a.key = b.key => a = b
        BY <3>6, <3>9 DEF Sourced
      <3>13. (\A st \in Notes : Grounded(st))' /\ On(web)'
        <4>1. \A st \in Notes' : Grounded(st)
          BY <3>4, <3>8 DEF Sourced
        <4>. QED
          BY <2>1, <2>2, <4>1 DEF Grounded, On, Sourced
      <3>. QED
        BY <2>1, <3>2, <3>11, <3>12, <3>13 DEF Sourced
    <2>. QED
      BY <1>2, <2>5, <2>6, PushPlanIs
  <1>3. CASE PostLands
    <2>1. /\ op.pc = "post" /\ op.st.pending = {op.request} /\ op'.request = op.request
          /\ op'.pc \in {"accepted", "refused"} /\ UNCHANGED <<stray, lostHere>> /\ Notes' \subseteq Notes
      BY <1>3, PostLandsIs
    <2>2. op.request \in Sent
      BY <2>1, InNotes DEF Sent
    <2>3. CASE Applied(op.request)
      <3>1. PICK r : r = op.request
        OBVIOUS
      <3>2. /\ onWeb \subseteq onWeb' /\ On(web)' /\ PutOn(r)'
            /\ \A a \in Sent : Landed(a.key)' => Landed(a.key) \/ PutOn(a)'
        BY <2>2, <2>3, <3>1, AppliedPuts
      <3>3. PutOn(op.request)'
        BY <2>1, <3>1, <3>2 DEF PutOn
      <3>. QED
        BY <2>1, <3>2, <3>3, SourcedMoves
    <2>4. CASE /\ UNCHANGED <<web, labels, onWeb>>
               /\ op'.pc = "accepted" => LabelForRequest(op.request.key) # {}
      <3>1. On(web)' /\ \A a \in Sent : Landed(a.key)' => Landed(a.key)
        BY <2>4 DEF On, Sourced, Landed, LabelForRequest
      <3>2. (op.pc = "accepted" => PutOn(op.request))'
        <4>1. Landed(op.request.key) => PutOn(op.request)
          BY <2>2 DEF Sourced
        <4>. QED
          BY <2>1, <2>4, <4>1 DEF Landed, PutOn
      <3>. QED
        BY <2>1, <2>4, <3>1, <3>2, SourcedMoves
    <2>. QED
      BY <1>3, <2>3, <2>4, PostLandsIs
  <1>4. CASE PostSuggestion \/ PostFails \/ Stop
    <2>1. /\ UNCHANGED <<web, labels, onWeb, lostHere>> /\ Notes' \subseteq Notes
          /\ op'.pc \notin {"accepted", "write"}
      BY <1>4, PostEndsIs DEF ghosts, Idle
    <2>2. stray' \subseteq Sent
      BY <1>0, <1>4, PostEndsIs, InNotes DEF Sent
    <2>. QED
      BY <2>1, <2>2, SourcedHere
  <1>5. CASE StrayLands
    <2>1. PICK r \in stray :
             /\ stray' = stray \ {r}
             /\ Applied(r) \/ UNCHANGED <<web, labels, onWeb>>
             /\ UNCHANGED <<saved, op, seen, lostHere>>
      BY <1>5, StrayLandsIs
    <2>2. r \in Sent /\ Notes' \subseteq Notes
      BY <1>0, <2>1 DEF Notes
    <2>3. CASE Applied(r)
      BY <2>1, <2>2, <2>3, AppliedPuts, SourcedMoves
    <2>4. CASE UNCHANGED <<web, labels, onWeb>>
      <3>1. On(web)' /\ \A a \in Sent : Landed(a.key)' => Landed(a.key)
        BY <2>4 DEF On, Sourced, Landed, LabelForRequest
      <3>. QED
        BY <2>1, <2>2, <2>4, <3>1, SourcedMoves
    <2>. QED
      BY <2>1, <2>3, <2>4
  <1>6. CASE PushAccepted \/ PushRefused
    <2>1. /\ UNCHANGED <<web, labels, stray, seen>> /\ Fits(op.st) /\ op.request \in Requests
          /\ op.request.commit <= Len(commits) /\ saved'.pending = {} /\ op.pc # "idle"
          /\ \/ op' = [pc |-> "scan", st |-> saved']
             \/ op' = Idle
      BY <1>6, AnsweredIs DEF PushAccepted, PushRefused
    <2>2. UNCHANGED <<onWeb, lostHere>>
      BY <1>6 DEF PushAccepted, PushRefused, project, standing
    <2>3. Grounded(op.st)
      BY <2>1, InNotes DEF Sourced
    <2>4. PICK note : note = saved'
      OBVIOUS
    <2>5. Grounded(note)
      <3>1. CASE PushAccepted
        <4>1. /\ note.fetched = op.st.fetched /\ PutOn(op.request)
              /\ note.files = [p \in Paths |-> IF p \in DOMAIN op.request.put THEN op.request.put[p] ELSE op.st.files[p]]
          BY <2>1, <2>4, <3>1, AcceptedIs DEF PushAccepted, Sourced
        <4>2. On(note.files)
          BY <2>3, <4>1 DEF On, PutOn, Grounded
        <4>. QED
          BY <2>3, <4>1, <4>2 DEF Grounded
      <3>2. CASE PushRefused
        <4>1. note = [op.st EXCEPT !.pending = {}]
          BY <2>4, <3>2 DEF PushRefused
        <4>2. note.files = op.st.files /\ note.fetched = op.st.fetched
          BY <2>1, <4>1 DEF Fits, StateRecs
        <4>. QED
          BY <2>3, <4>2 DEF Grounded
      <3>. QED
        BY <1>6, <3>1, <3>2
    <2>6. \A st \in Notes' : st \in Notes \/ st = note
      BY <2>1, <2>4 DEF Notes, Idle
    <2>7. op'.pc \notin {"accepted", "write"} /\ note.pending = {}
      BY <2>1, <2>4 DEF Idle
    <2>. QED
      BY <1>0, <2>1, <2>2, <2>5, <2>6, <2>7, SourcedHere
  <1>. QED
    BY <1>1, <1>2, <1>3, <1>4, <1>5, <1>6

\* A pull records what it read of the project, and writes over a file only
\* what it read there, where the folder held what was recorded before.
LEMMA SourcedPull ==
    ASSUME Shape, Sourced,
           \/ \E side \in Sides : PullFolder(side)
           \/ PullRead \/ PullSave
           \/ \E p \in Paths : PullWrite(p)
           \/ \E merge \in BOOLEAN : PullRepository(merge)
           \/ Fetch \/ PullSaveFetched \/ MergeFetched \/ PullPromote
    PROVE  Sourced'
  <1>0. stray \subseteq Sent
    BY SentIn
  <1>1. CASE \E side \in Sides : PullFolder(side)
    <2>1. /\ UNCHANGED <<web, labels, onWeb, lostHere, stray, saved, seen>> /\ op'.pc = "read" /\ op'.st = saved
      BY <1>1 DEF PullFolder, project, standing, ghosts
    <2>2. Notes' \subseteq Notes
      BY <2>1 DEF Notes
    <2>. QED
      BY <1>0, <2>1, <2>2, SourcedHere
  <1>2. CASE PullRead
    <2>1. /\ UNCHANGED <<web, labels, onWeb, lostHere, stray, saved, seen>> /\ op.pc = "read"
          /\ op'.pc = "write" /\ op'.st = op.st /\ op'.snap = web
          /\ op'.todo = Apply(op'.st.files, op'.scan, op'.snap, op'.side)
      BY <1>2 DEF PullRead, project, standing
    <2>2. Notes' = Notes
      BY <2>1 DEF Notes
    <2>3. Sent' = Sent
      BY <2>1, <2>2 DEF Sent
    <2>4. (\A st \in Notes : Grounded(st))' /\ On(web)'
      BY <2>1, <2>2 DEF Sourced, Grounded, On
    <2>5. (\A r \in Sent : Landed(r.key) => PutOn(r))'
      BY <2>1, <2>3 DEF Sourced, Landed, LabelForRequest, PutOn
    <2>6. On(op.snap)'
      BY <2>1 DEF Sourced, On
    <2>. QED
      BY <2>1, <2>3, <2>4, <2>5, <2>6 DEF Sourced
  <1>3. CASE PullSave
    <2>1. /\ UNCHANGED <<web, labels, onWeb, lostHere, stray, seen>> /\ op.pc = "write" /\ op' = Idle
          /\ saved'.pending = {} /\ saved'.fetched = op.st.fetched
          /\ saved'.files = Records(op.st.files, op.scan, op.snap, op.side)
      BY <1>3, PullSaveIs
    <2>2. PICK note : note = saved'
      OBVIOUS
    <2>3. Grounded(op.st) /\ On(op.snap)
      BY <2>1, InNotes DEF Sourced
    <2>4. On(note.files)
      <3>1. \A p \in Paths : note.files[p] \in {op.st.files[p], op.snap[p]}
        BY <2>1, <2>2 DEF Records
      <3>. QED
        BY <2>3, <3>1 DEF On, Grounded
    <2>5. Grounded(note) /\ note.pending = {}
      BY <2>1, <2>2, <2>3, <2>4 DEF Grounded
    <2>6. \A st \in Notes' : st \in Notes \/ st = note
      BY <2>1, <2>2 DEF Notes, Idle
    <2>. QED
      BY <1>0, <2>1, <2>5, <2>6, SourcedHere DEF Idle
  <1>4. CASE \E p \in Paths : PullWrite(p)
    <2>1. PICK p \in Paths : PullWrite(p)
      BY <1>4
    <2>2. /\ UNCHANGED <<web, labels, onWeb, stray, saved, seen>> /\ op.pc = "write" /\ p \in op.todo
      BY <2>1 DEF PullWrite, project, standing
    <2>3. /\ op'.pc = "write" /\ op'.st = op.st /\ op'.side = op.side
          /\ op'.snap = op.snap /\ op'.scan = op.scan /\ op'.todo = op.todo \ {p}
      BY <2>1, ShapePullWrite
    <2>4. On(op.snap) /\ op.todo \subseteq Apply(op.st.files, op.scan, op.snap, op.side) /\ On(op.st.files)
      BY <2>2, InNotes DEF Sourced, Grounded
    <2>5. lostHere' = {}
      <3>1. lostHere = {}
        BY DEF Sourced
      <3>2. CASE op.side = "theirs"
        BY <2>1, <3>1, <3>2 DEF PullWrite
      <3>3. CASE op.side # "theirs"
        <4>1. op.scan[p] = op.st.files[p]
          BY <2>2, <2>4, <3>3 DEF Apply
        <4>2. local[p] = op.scan[p] /\ local[p] # Absent => <<p, local[p]>> \in onWeb
          BY <2>4, <4>1 DEF On
        <4>. QED
          BY <2>1, <3>1, <4>2 DEF PullWrite
      <3>. QED
        BY <3>2, <3>3
    <2>6. Notes' = Notes
      BY <2>2, <2>3 DEF Notes
    <2>7. Sent' = Sent
      BY <2>2, <2>6 DEF Sent
    <2>8. (\A st \in Notes : Grounded(st))' /\ On(web)'
      BY <2>2, <2>6 DEF Sourced, Grounded, On
    <2>9. (\A r \in Sent : Landed(r.key) => PutOn(r))'
      BY <2>2, <2>7 DEF Sourced, Landed, LabelForRequest, PutOn
    <2>10. On(op.snap)'
      BY <2>2, <2>3, <2>4 DEF On
    <2>11. \A a, b \in Sent' : a.key = b.key => a = b
      BY <2>7 DEF Sourced
    <2>12. op'.todo \subseteq Apply(op'.st.files, op'.scan, op'.snap, op'.side)
      BY <2>3, <2>4
    <2>. QED
      BY <2>3, <2>5, <2>8, <2>9, <2>10, <2>11, <2>12 DEF Sourced
  <1>5. CASE \E merge \in BOOLEAN : PullRepository(merge)
    <2>1. PICK merge \in BOOLEAN : PullRepository(merge)
      BY <1>5
    <2>2. /\ UNCHANGED <<web, labels, onWeb, lostHere, stray, seen>> /\ saved.pending = {} /\ Fits(saved)
          /\ op.pc = "idle"
      BY <2>1, PullRepositoryIs DEF ghosts
    <2>3. PICK note : note = Settle(saved)
      OBVIOUS
    <2>4. Grounded(note) /\ note.pending = {}
      BY <2>2, <2>3, InNotes, GroundedSettled, SettledIs DEF Sourced, Shape
    <2>5. \/ saved' = note /\ op' = op
          \/ saved' = saved /\ op'.pc \in {"save", "fetch"} /\ op'.st = note
      BY <2>1, <2>3, PullRepositoryIs
    <2>6. \A st \in Notes' : st \in Notes \/ st = note
      BY <2>2, <2>5 DEF Notes
    <2>. QED
      BY <1>0, <2>2, <2>4, <2>5, <2>6, SourcedHere
  <1>6. CASE Fetch
    <2>1. PICK note : Fetched(note)
      BY <1>6, FetchIs
    <2>2. /\ UNCHANGED <<web, labels, onWeb, lostHere, stray, seen>> /\ op.st.pending = {} /\ op.pc = "fetch"
          /\ op \in [pc : Fetching, st : StateRecs, merge : BOOLEAN, found : Founds(Histories)]
      BY <1>6, FetchIs DEF ghosts
    <2>3. Grounded(op.st) /\ On(web)
      BY <2>2, InNotes DEF Sourced
    <2>4. Grounded(note) /\ note.pending = {}
      <3>1. note.files = op.st.files /\ note.pending = {}
        BY <2>1, <2>2 DEF Fetched
      <3>2. note.fetched = op.st.fetched \/ \A f \in note.fetched : f.files = web
        BY <2>1 DEF Fetched
      <3>. QED
        BY <2>3, <3>1, <3>2 DEF Grounded
    <2>5. \/ saved' = note /\ op' = Idle
          \/ saved' = saved /\ op' = [op EXCEPT !.pc = "save", !.st = note]
      BY <2>1 DEF Fetched
    <2>6. \/ saved' = note /\ op' = Idle
          \/ saved' = saved /\ op'.pc = "save" /\ op'.st = note
      BY <2>2, <2>5
    <2>7. \A st \in Notes' : st \in Notes \/ st = note
      BY <2>2, <2>6 DEF Notes, Idle
    <2>8. op'.pc \notin {"accepted", "write"}
      BY <2>6 DEF Idle
    <2>. QED
      BY <1>0, <2>2, <2>4, <2>7, <2>8, SourcedHere
  <1>7. CASE PullSaveFetched
    <2>1. /\ UNCHANGED <<web, labels, onWeb, lostHere, stray>> /\ Notes' \subseteq Notes
          /\ op'.pc \notin {"accepted", "write"}
      BY <1>7, PullSaveFetchedIs DEF ghosts, Idle
    <2>. QED
      BY <1>0, <2>1, SourcedHere
  <1>8. CASE MergeFetched
    <2>1. /\ UNCHANGED <<web, labels, onWeb, lostHere, stray>>
          /\ op \in [pc : Fetching, st : StateRecs, merge : BOOLEAN, found : Founds(Histories)]
      BY <1>8, MergeFetchedIs
    <2>2. op' = Idle \/ op' = [op EXCEPT !.pc = "promote"]
      BY <1>8, MergeFetchedIs DEF MergeStops, MergeEnds
    <2>3. op'.pc \notin {"accepted", "write"}
      BY <2>1, <2>2 DEF Idle
    <2>4. Notes' \subseteq Notes
      BY <1>8, ShapeMergeFetched
    <2>. QED
      BY <1>0, <2>1, <2>3, <2>4, SourcedHere
  <1>9. CASE PullPromote
    <2>1. /\ UNCHANGED <<web, labels, onWeb, lostHere, stray, seen>> /\ op' = Idle /\ op.pc = "promote"
          /\ saved' = Promote(commits, op.st) /\ Fits(op.st) /\ op.st.fetched # {} /\ op.st.pending = {}
      BY <1>9, PullPromoteIs DEF ghosts
    <2>2. PICK f \in op.st.fetched : TRUE
      BY <2>1
    <2>3. PICK note : note = saved'
      OBVIOUS
    <2>4. note.fetched = {} /\ note.files = f.files /\ note.pending = {}
      BY <2>1, <2>2, <2>3, Promoted DEF Shape
    <2>5. Grounded(note)
      BY <2>1, <2>2, <2>4, InNotes DEF Grounded, Sourced
    <2>6. \A st \in Notes' : st \in Notes \/ st = note
      BY <2>1, <2>3 DEF Notes, Idle
    <2>. QED
      BY <1>0, <2>1, <2>4, <2>5, <2>6, SourcedHere DEF Idle
  <1>. QED
    BY <1>1, <1>2, <1>3, <1>4, <1>5, <1>6, <1>7, <1>8, <1>9

\* Every step of anybody keeps it.
LEMMA SourcedNext ==
    ASSUME Shape, Sourced, [Next]_vars
    PROVE  Sourced'
  <1>1. CASE \/ UNCHANGED vars
             \/ Quietly /\ ((\E p \in Paths : WebEdit(p)) \/ WebName \/ WebTrim)
             \/ \E p \in Paths : Edit(p)
             \/ CommitWork \/ AbortMerge
             \/ StatusRead \/ StatusSave
    BY <1>1, SourcedAround
  <1>2. CASE \/ PushStart \/ PushPlan \/ PostLands \/ PostSuggestion \/ PostFails \/ Stop \/ StrayLands
             \/ PushAccepted \/ PushRefused
    BY <1>2, SourcedPush
  <1>3. CASE \/ \E side \in Sides : PullFolder(side)
             \/ PullRead \/ PullSave
             \/ \E p \in Paths : PullWrite(p)
             \/ \E merge \in BOOLEAN : PullRepository(merge)
             \/ Fetch \/ PullSaveFetched \/ MergeFetched \/ PullPromote
    BY <1>3, SourcedPull
  <1>. QED
    BY <1>1, <1>2, <1>3 DEF Next, Sides

\* It holds of a directory that was published, or just linked.
LEMMA SourcedInit ==
    ASSUME Init
    PROVE  Sourced
  <1>1. PICK first \in Trees : onWeb = Held(first) \cup Held(web) /\ saved.files \in {first, Empty}
    BY InitIs
  <1>2. Notes = {saved} /\ op.pc = "idle" /\ saved.fetched = {} /\ saved.pending = {} /\ stray = {} /\ lostHere = {}
    BY InitIs DEF Notes, Idle
  <1>3. On(web) /\ On(first)
    BY <1>1 DEF On, Held
  <1>4. On(Empty)
    BY DEF On, Empty
  <1>5. Grounded(saved)
    BY <1>1, <1>2, <1>3, <1>4 DEF Grounded
  <1>6. Sent = {}
    BY <1>2 DEF Sent
  <1>. QED
    BY <1>2, <1>3, <1>5, <1>6 DEF Sourced

\* What a directory takes for agreed is what the project, or a version of it,
\* was, and requests that landed twice or late left what they said.
THEOREM SourcedAlways == Spec => []Sourced
  <1>1. Init => Sourced
    BY SourcedInit
  <1>2. Shape /\ Sourced /\ [Next]_vars => Sourced'
    BY SourcedNext
  <1>. QED
    BY <1>1, <1>2, ShapeAlways, PTL DEF Spec

\* What a directory takes for the version both sides agreed on was the
\* project's content of that path at some moment.
THEOREM BaselineWasThereAlways == Spec => []BaselineWasThere
  <1>1. Sourced => BaselineWasThere
    BY InNotes DEF Sourced, Grounded, On, BaselineWasThere
  <1>. QED
    BY <1>1, SourcedAlways, PTL

\* No pull writes over a file whose content, as the pull scanned it, was made
\* here and never sent, unless it was told to take theirs.
THEOREM LocalKeptAlways == Spec => []LocalKept
  <1>1. Sourced => LocalKept
    BY DEF Sourced, LocalKept
  <1>. QED
    BY <1>1, SourcedAlways, PTL

-----------------------------------------------------------------------------
(* No push writes over what this side never had *)

\* Whatever a tree, or a request, holds this side has had.
Had(tree) == \A p \in Paths : tree[p] # Absent => <<p, tree[p]>> \in taken
Known(r) ==
    /\ DOMAIN r.put = DOMAIN r.expect
    /\ \A p \in DOMAIN r.put : /\ r.put[p] # Absent => <<p, r.put[p]>> \in taken
                               /\ r.expect[p] # Absent => <<p, r.expect[p]>> \in taken

\* What is recorded this side has had; what was fetched is on the branch, to
\* be had once it is merged.
Owned(st) ==
    /\ Had(st.files)
    /\ \A f \in st.fetched : \A p \in Paths : f.files[p] # Absent => commits[f.commit].tree[p] = f.files[p]

\* What a pull has done with the paths it need not, or need no longer, write.
Settling ==
    \A p \in Paths :
        /\ op.snap[p] # Absent
        /\ \/ p \in Apply(op.st.files, op.scan, op.snap, op.side) \ op.todo
           \/ op.scan[p] = op.snap[p]
        => <<p, op.snap[p]>> \in taken

\* What is recorded, planned, committed or in the working tree this side had.
Possessed ==
    /\ \A st \in Notes : Owned(st)
    /\ \A r \in Sent : Known(r)
    /\ \A c \in Reach(commits, HEAD) : Had(commits[c].tree)
    /\ merging = 0 => Had(local)
    /\ op.pc = "promote" => main \in Reach(commits, HEAD)
    /\ op.pc = "write" => Settling
    /\ lostThere = {}

\* What was had stays so, of every State and of every request.
LEMMA NotesOwned ==
    ASSUME Shape, Possessed, Grown(commits'), Extends(commits, commits'), taken \subseteq taken',
           stray' \subseteq Sent,
           \A st \in Notes' : st \in Notes \/ (Owned(st)' /\ st.pending \subseteq Sent)
    PROVE  (\A st \in Notes : Owned(st))' /\ (\A r \in Sent : Known(r))'
  <1>0. Grown(commits) /\ main \in 0..Len(commits)
    BY DEF Shape, RepoShape
  <1>1. ASSUME NEW st \in Notes'
        PROVE  Owned(st)'
    <2>1. CASE st \in Notes
      <3>1. Owned(st) /\ Fits(st)
        BY <2>1 DEF Possessed, Shape, NotesShape
      <3>2. Had(st.files)'
        BY <3>1 DEF Owned, Had
      <3>3. \A f \in st.fetched : f.commit \in 1..Len(commits)
        BY <1>0, <3>1, ReachReach DEF Fits
      <3>4. \A f \in st.fetched : commits'[f.commit] = commits[f.commit]
        BY <3>3 DEF Extends
      <3>. QED
        BY <3>1, <3>2, <3>4 DEF Owned
    <2>. QED
      BY <2>1
  <1>2. Sent' \subseteq Sent
    <2>1. \A st \in Notes' : st.pending \subseteq Sent
      BY DEF Sent
    <2>. QED
      BY <2>1 DEF Sent
  <1>3. ASSUME NEW r \in Sent'
        PROVE  Known(r)'
    <2>1. Known(r)
      BY <1>2 DEF Possessed
    <2>. QED
      BY <2>1 DEF Known
  <1>4. (\A st \in Notes : Owned(st))'
    BY <1>1
  <1>. QED
    BY <1>3, <1>4

\* A step that leaves the directory alone, and writes over nothing.
LEMMA PossessedHere ==
    ASSUME Shape, Possessed, UNCHANGED here, taken \subseteq taken', UNCHANGED lostThere,
           stray' \subseteq Sent,
           \A st \in Notes' : st \in Notes \/ (Owned(st)' /\ st.pending \subseteq Sent),
           op' = op \/ op'.pc \notin {"promote", "write"}
    PROVE  Possessed'
  <1>1. Grown(commits') /\ Extends(commits, commits') /\ UNCHANGED <<commits, HEAD, main, local, merging>>
    BY DEF here, Shape, RepoShape, Grown, Extends
  <1>2. (\A st \in Notes : Owned(st))' /\ (\A r \in Sent : Known(r))'
    BY <1>1, NotesOwned
  <1>3. (\A c \in Reach(commits, HEAD) : Had(commits[c].tree))'
    BY <1>1 DEF Possessed, Had, Reach
  <1>4. (merging = 0 => Had(local))'
    BY <1>1 DEF Possessed, Had
  <1>5. (op.pc = "promote" => main \in Reach(commits, HEAD))'
    BY <1>1 DEF Possessed, Reach
  <1>6. (op.pc = "write" => Settling)'
    BY DEF Possessed, Settling
  <1>. QED
    BY <1>2, <1>3, <1>4, <1>5, <1>6 DEF Possessed

\* A request that is applied finds what it was planned against, which was had.
LEMMA NothingOver ==
    ASSUME Shape, Possessed, NEW r \in Sent, Applied(r)
    PROVE  Overwritten(r) = {}
  <1>1. r \in Requests /\ Known(r)
    BY SentIn DEF Possessed
  <1>2. \A p \in DOMAIN r.put : web[p] = r.expect[p]
    BY <1>1, AppliedShows DEF Shape, Unchanged
  <1>3. \A p \in DOMAIN r.put : web[p] # Absent => <<p, web[p]>> \in taken
    BY <1>1, <1>2 DEF Known
  <1>. QED
    BY <1>3 DEF Overwritten

\* Settling promotes only what is merged, and so was had.
LEMMA OwnedPromoted ==
    ASSUME Shape, Possessed, NEW st, Fits(st), Owned(st), NEW f \in st.fetched, f.commit \in Reach(commits, HEAD)
    PROVE  Had(f.files)
  <1>1. Had(commits[f.commit].tree)
    BY DEF Possessed
  <1>. QED
    BY <1>1 DEF Owned, Had

\* Settling keeps what is recorded had.
LEMMA OwnedSettled ==
    ASSUME Shape, Possessed, NEW st, Fits(st), Owned(st)
    PROVE  Owned(Settle(st))
  <1>1. CASE Settle(st) = st
    BY <1>1
  <1>2. CASE \E f \in st.fetched : /\ f.commit \in Reach(commits, HEAD)
                                   /\ Settle(st).fetched = {} /\ Settle(st).files = f.files
    <2>1. PICK f \in st.fetched : /\ f.commit \in Reach(commits, HEAD)
                                  /\ Settle(st).fetched = {} /\ Settle(st).files = f.files
      BY <1>2
    <2>2. Had(f.files)
      BY <2>1, OwnedPromoted
    <2>. QED
      BY <2>1, <2>2 DEF Owned
  <1>. QED
    BY <1>1, <1>2, SettledIs DEF Shape

\* The branch and the working tree hold what this side had.
LEMMA ScanHad ==
    ASSUME Shape, Possessed
    PROVE  Had(TreeOf(commits, HEAD)) /\ (merging = 0 => Had(local))
  <1>1. CASE HEAD = 0
    BY <1>1 DEF TreeOf, Had, Empty, Possessed
  <1>2. CASE HEAD # 0
    <2>1. HEAD \in Reach(commits, HEAD)
      BY <1>2 DEF Reach
    <2>. QED
      BY <1>2, <2>1 DEF TreeOf, Possessed
  <1>. QED
    BY <1>1, <1>2

\* The browser, the person, and a status request.
LEMMA PossessedAround ==
    ASSUME Shape, Possessed,
           \/ UNCHANGED vars
           \/ Quietly /\ ((\E p \in Paths : WebEdit(p)) \/ WebName \/ WebTrim)
           \/ \E p \in Paths : Edit(p)
           \/ CommitWork \/ AbortMerge
           \/ StatusRead \/ StatusSave
    PROVE  Possessed'
  <1>0. stray \subseteq Sent /\ Grown(commits) /\ Extends(commits, commits)
    BY SentIn DEF Shape, RepoShape, Grown, Extends
  <1>1. CASE UNCHANGED vars \/ (Quietly /\ ((\E p \in Paths : WebEdit(p)) \/ WebName \/ WebTrim))
    <2>1. UNCHANGED <<here, taken, lostThere, saved, op, seen, stray>>
      BY <1>1 DEF vars, ghosts, Quietly
    <2>. QED
      BY <1>0, <2>1, PossessedHere DEF Notes
  <1>2. CASE \E p \in Paths : Edit(p)
    <2>1. /\ UNCHANGED <<commits, HEAD, main, merging, saved, op, seen, stray, lostThere>>
          /\ taken' = taken \cup Held(local')
      BY <1>2 DEF Edit
    <2>2. Notes' = Notes
      BY <2>1 DEF Notes
    <2>3. (\A st \in Notes : Owned(st))' /\ (\A r \in Sent : Known(r))'
      BY <1>0, <2>1, <2>2, NotesOwned
    <2>4. (\A c \in Reach(commits, HEAD) : Had(commits[c].tree))'
      BY <2>1 DEF Possessed, Had, Reach
    <2>5. Had(local)'
      BY <2>1 DEF Had, Held
    <2>6. (op.pc = "promote" => main \in Reach(commits, HEAD))'
      BY <2>1 DEF Possessed, Reach
    <2>7. (op.pc = "write" => Settling)'
      BY <2>1 DEF Possessed, Settling
    <2>. QED
      BY <2>1, <2>3, <2>4, <2>5, <2>6, <2>7 DEF Possessed
  <1>3. CASE CommitWork
    <2>1. /\ UNCHANGED <<main, saved, op, seen, stray, lostThere>>
          /\ taken' = taken \cup UNION {Held(commits'[c].tree) : c \in Reach(commits', HEAD')}
      BY <1>3 DEF CommitWork
    <2>2. /\ Extends(commits, commits') /\ Grown(commits') /\ commits'[HEAD'].tree = local' /\ HEAD' # 0
          /\ HEAD # 0 => Reach(commits, HEAD) \subseteq Reach(commits', HEAD')
      BY <1>3, ShapeCommitWork DEF Shape, RepoShape
    <2>3. Notes' = Notes
      BY <2>1 DEF Notes
    <2>4. (\A st \in Notes : Owned(st))' /\ (\A r \in Sent : Known(r))'
      BY <1>0, <2>1, <2>2, <2>3, NotesOwned
    <2>5. ASSUME NEW c \in Reach(commits', HEAD')
          PROVE  Had(commits[c].tree)'
      <3>1. Held(commits'[c].tree) \subseteq taken'
        BY <2>1
      <3>. QED
        BY <3>1 DEF Had, Held
    <2>6. (\A c \in Reach(commits, HEAD) : Had(commits[c].tree))'
      BY <2>5
    <2>7. Had(local)'
      <3>1. HEAD' \in Reach(commits', HEAD')
        BY <2>2 DEF Reach
      <3>2. Had(commits[HEAD].tree)'
        BY <2>6, <3>1
      <3>. QED
        BY <2>2, <3>2 DEF Had
    <2>8. (op.pc = "promote" => main \in Reach(commits, HEAD))'
      <3>1. HEAD # 0
        BY <1>3 DEF CommitWork, Shape, RepoShape
      <3>. QED
        BY <2>1, <2>2, <3>1 DEF Possessed
    <2>9. (op.pc = "write" => Settling)'
      BY <2>1 DEF Possessed, Settling
    <2>. QED
      BY <2>1, <2>4, <2>6, <2>7, <2>8, <2>9 DEF Possessed
  <1>4. CASE AbortMerge
    <2>1. /\ UNCHANGED <<commits, HEAD, main, saved, op, seen, stray, taken, lostThere>>
          /\ local' = TreeOf(commits, HEAD)
      BY <1>4 DEF AbortMerge, ghosts
    <2>2. Notes' = Notes
      BY <2>1 DEF Notes
    <2>3. (\A st \in Notes : Owned(st))' /\ (\A r \in Sent : Known(r))'
      BY <1>0, <2>1, <2>2, NotesOwned
    <2>4. (\A c \in Reach(commits, HEAD) : Had(commits[c].tree))'
      BY <2>1 DEF Possessed, Had, Reach
    <2>5. Had(local)'
      BY <2>1, ScanHad DEF Had
    <2>6. (op.pc = "promote" => main \in Reach(commits, HEAD))'
      BY <2>1 DEF Possessed, Reach
    <2>7. (op.pc = "write" => Settling)'
      BY <2>1 DEF Possessed, Settling
    <2>. QED
      BY <2>1, <2>3, <2>4, <2>5, <2>6, <2>7 DEF Possessed
  <1>5. CASE StatusRead
    <2>1. UNCHANGED <<here, taken, lostThere, op, stray>> /\ Notes' \subseteq Notes
      BY <1>5, StatusReadIs DEF ghosts
    <2>. QED
      BY <1>0, <2>1, PossessedHere
  <1>6. CASE StatusSave
    <2>1. /\ UNCHANGED <<here, taken, lostThere, op, stray>> /\ seen.pc = "save" /\ seen' = Idle
          /\ saved'.files = seen.st.files /\ saved'.fetched = seen.st.fetched
          /\ saved'.pending = seen.st.pending
      BY <1>6, StatusSaveIs DEF ghosts
    <2>2. PICK note : note = saved'
      OBVIOUS
    <2>3. Owned(seen.st) /\ seen.st.pending \subseteq Sent
      BY <2>1, InNotes, SentIn DEF Possessed
    <2>4. Owned(note) /\ note.pending \subseteq Sent
      BY <2>1, <2>2, <2>3 DEF Owned
    <2>5. Owned(note)'
      BY <2>1, <2>4 DEF Owned, Had, here
    <2>6. \A st \in Notes' : st \in Notes \/ st = note
      BY <2>1, <2>2 DEF Notes, Idle
    <2>. QED
      BY <1>0, <2>1, <2>4, <2>5, <2>6, PossessedHere
  <1>. QED
    BY <1>1, <1>2, <1>3, <1>4, <1>5, <1>6

\* A push is planned with what was had, against what was had.
LEMMA PossessedPush ==
    ASSUME Shape, Possessed,
           \/ PushStart \/ PushPlan \/ PostLands \/ PostSuggestion \/ PostFails \/ Stop \/ StrayLands
           \/ PushAccepted \/ PushRefused
    PROVE  Possessed'
  <1>0. stray \subseteq Sent /\ lostThere = {}
    BY SentIn DEF Possessed
  <1>1. CASE PushStart
    <2>1. UNCHANGED <<here, taken, lostThere, stray, saved, seen>> /\ op'.pc \notin {"promote", "write"}
          /\ op'.st = saved
      BY <1>1, PushStartIs DEF ghosts
    <2>2. Notes' \subseteq Notes
      BY <2>1 DEF Notes
    <2>. QED
      BY <1>0, <2>1, <2>2, PossessedHere
  <1>2. CASE PushPlan
    <2>1. UNCHANGED <<here, taken, lostThere, stray, seen>> /\ op.pc = "scan" /\ Fits(op.st) /\ op.st.pending = {}
      BY <1>2, PushPlanIs DEF ghosts
    <2>2. UNCHANGED <<commits, HEAD, main, local, merging>> /\ Grown(commits) /\ Extends(commits, commits)
      BY <2>1 DEF here, Shape, RepoShape, Grown, Extends
    <2>3. PICK old : old = Settle(op.st)
      OBVIOUS
    <2>4. Owned(old) /\ old.pending = {}
      BY <2>1, <2>3, InNotes, OwnedSettled, SettledIs DEF Possessed, Shape
    <2>5. CASE op' = Idle /\ saved' \in {saved, Settle(op.st)}
      <3>1. \A st \in Notes' : st \in Notes \/ st = old
        BY <2>1, <2>3, <2>5 DEF Notes, Idle
      <3>2. Owned(old)'
        BY <2>1, <2>2, <2>4 DEF Owned, Had
      <3>. QED
        BY <1>0, <2>1, <2>4, <2>5, <3>1, <3>2, PossessedHere DEF Idle
    <2>6. CASE \E request \in Requests : Plan(request)
      <3>1. PICK r \in Requests : Plan(r)
        BY <2>6
      <3>2. /\ saved'.pending = {r} /\ saved'.files = old.files /\ saved'.fetched = old.fetched
            /\ op'.pc = "post" /\ op'.st = saved'
        BY <2>1, <2>3, <3>1, PlanIs
      <3>3. PICK note : note = saved'
        OBVIOUS
      <3>4. Owned(note)
        BY <2>4, <3>2, <3>3 DEF Owned
      <3>5. Known(r)
        <4>1. merging = 0
          BY <2>1 DEF Shape, Course
        <4>2. PICK scan \in {TreeOf(commits, HEAD), local} :
                 \A p \in DOMAIN r.put : r.put[p] = scan[p] /\ r.expect[p] = old.files[p]
          BY <2>3, <3>1 DEF Plan
        <4>3. Had(scan) /\ Had(old.files)
          BY <2>4, <4>1, ScanHad DEF Owned
        <4>4. DOMAIN r.put = DOMAIN r.expect
          BY <3>1 DEF Plan
        <4>5. r.put \in Partials /\ local \in Trees
          BY DEF Requests, Shape, RepoShape
        <4>6. DOMAIN r.put \subseteq Paths
          BY <4>5, PartialOver
        <4>. QED
          BY <4>2, <4>3, <4>4, <4>6 DEF Known, Had
      <3>6. Notes' \subseteq {note} \cup Notes
        BY <2>1, <3>2, <3>3 DEF Notes
      <3>7. Sent' \subseteq Sent \cup {r}
        BY <2>1, <3>2, <3>3, <3>6 DEF Sent
      <3>8. (\A a \in Sent : Known(a))'
        <4>1. \A a \in Sent' : Known(a)
          BY <3>5, <3>7 DEF Possessed
        <4>. QED
          BY <2>1, <4>1 DEF Known
      <3>9. (\A st \in Notes : Owned(st))'
        <4>1. \A st \in Notes' : Owned(st)
          BY <3>4, <3>6 DEF Possessed
        <4>. QED
          BY <2>1, <2>2, <4>1 DEF Owned, Had
      <3>10. (\A c \in Reach(commits, HEAD) : Had(commits[c].tree))' /\ (merging = 0 => Had(local))'
        BY <2>1, <2>2 DEF Possessed, Had, Reach
      <3>. QED
        BY <2>1, <3>2, <3>8, <3>9, <3>10 DEF Possessed
    <2>. QED
      BY <1>2, <2>5, <2>6, PushPlanIs
  <1>3. CASE PostLands
    <2>1. /\ op.pc = "post" /\ op.st.pending = {op.request}
          /\ op'.pc \in {"accepted", "refused"} /\ UNCHANGED <<here, taken, stray>> /\ Notes' \subseteq Notes
      BY <1>3, PostLandsIs
    <2>2. op.request \in Sent
      BY <2>1, InNotes DEF Sent
    <2>3. lostThere' = lostThere
      <3>1. CASE Applied(op.request) /\ lostThere' = lostThere \cup Overwritten(op.request)
        BY <2>2, <3>1, NothingOver
      <3>. QED
        BY <1>3, <3>1, PostLandsIs
    <2>. QED
      BY <1>0, <2>1, <2>3, PossessedHere
  <1>4. CASE PostSuggestion \/ PostFails \/ Stop
    <2>1. /\ UNCHANGED <<here, taken, lostThere>> /\ Notes' \subseteq Notes
          /\ op'.pc \notin {"promote", "write"}
      BY <1>4, PostEndsIs DEF ghosts, Idle
    <2>2. stray' \subseteq Sent
      BY <1>0, <1>4, PostEndsIs, InNotes DEF Sent
    <2>. QED
      BY <2>1, <2>2, PossessedHere
  <1>5. CASE StrayLands
    <2>1. PICK r \in stray :
             /\ stray' = stray \ {r}
             /\ \/ Applied(r) /\ lostThere' = lostThere \cup Overwritten(r)
                \/ lostThere' = lostThere
             /\ UNCHANGED <<here, saved, op, seen, taken>>
      BY <1>5, StrayLandsIs
    <2>2. lostThere' = lostThere
      BY <1>0, <2>1, NothingOver
    <2>3. Notes' = Notes
      BY <2>1 DEF Notes
    <2>. QED
      BY <1>0, <2>1, <2>2, <2>3, PossessedHere
  <1>6. CASE PushAccepted \/ PushRefused
    <2>1. /\ UNCHANGED <<here, stray, seen>> /\ Fits(op.st) /\ op.request \in Requests
          /\ op.request.commit <= Len(commits) /\ saved'.pending = {} /\ op.pc # "idle"
          /\ op.st.pending = {op.request}
          /\ \/ op' = [pc |-> "scan", st |-> saved']
             \/ op' = Idle
      BY <1>6, AnsweredIs DEF PushAccepted, PushRefused
    <2>2. UNCHANGED <<taken, lostThere>>
      BY <1>6 DEF PushAccepted, PushRefused
    <2>3. Owned(op.st) /\ Known(op.request)
      BY <2>1, InNotes, SentIn DEF Possessed
    <2>4. PICK note : note = saved'
      OBVIOUS
    <2>5. Owned(note)
      <3>1. CASE PushAccepted
        <4>1. /\ note.fetched = op.st.fetched
              /\ note.files = [p \in Paths |-> IF p \in DOMAIN op.request.put THEN op.request.put[p] ELSE op.st.files[p]]
          BY <2>1, <2>4, <3>1, AcceptedIs DEF PushAccepted
        <4>2. Had(note.files)
          BY <2>3, <4>1 DEF Had, Known, Owned
        <4>. QED
          BY <2>3, <4>1, <4>2 DEF Owned
      <3>2. CASE PushRefused
        <4>1. note = [op.st EXCEPT !.pending = {}]
          BY <2>4, <3>2 DEF PushRefused
        <4>2. note.files = op.st.files /\ note.fetched = op.st.fetched
          BY <2>1, <4>1 DEF Fits, StateRecs
        <4>. QED
          BY <2>3, <4>2 DEF Owned
      <3>. QED
        BY <1>6, <3>1, <3>2
    <2>6. \A st \in Notes' : st \in Notes \/ st = note
      BY <2>1, <2>4 DEF Notes, Idle
    <2>7. op'.pc \notin {"promote", "write"} /\ note.pending = {}
      BY <2>1, <2>4 DEF Idle
    <2>8. Owned(note)'
      BY <2>1, <2>2, <2>5 DEF Owned, Had, here
    <2>. QED
      BY <1>0, <2>1, <2>2, <2>6, <2>7, <2>8, PossessedHere
  <1>. QED
    BY <1>1, <1>2, <1>3, <1>4, <1>5, <1>6

\* A pull of a folder records what the folder holds, or was told to pass over.
LEMMA PossessedFolder ==
    ASSUME Shape, Possessed,
           \/ \E side \in Sides : PullFolder(side)
           \/ PullRead
           \/ \E p \in Paths : PullWrite(p)
           \/ PullSave
    PROVE  Possessed'
  <1>0. stray \subseteq Sent /\ Grown(commits) /\ Extends(commits, commits)
    BY SentIn DEF Shape, RepoShape, Grown, Extends
  <1>1. CASE \E side \in Sides : PullFolder(side)
    <2>1. /\ UNCHANGED <<here, taken, lostThere, stray, saved, seen>> /\ op'.pc = "read" /\ op'.st = saved
      BY <1>1 DEF PullFolder, ghosts
    <2>2. Notes' \subseteq Notes
      BY <2>1 DEF Notes
    <2>. QED
      BY <1>0, <2>1, <2>2, PossessedHere
  <1>2. CASE PullRead
    <2>1. /\ UNCHANGED <<commits, HEAD, main, local, merging, lostThere, stray, saved, seen>> /\ op.pc = "read"
          /\ op'.pc = "write" /\ op'.st = op.st /\ op'.snap = web /\ op'.scan = local
          /\ op'.todo = Apply(op'.st.files, op'.scan, op'.snap, op'.side)
          /\ taken' = taken \cup (Held(web) \cap Held(local))
      BY <1>2 DEF PullRead, here
    <2>2. Notes' = Notes
      BY <2>1 DEF Notes
    <2>3. (\A st \in Notes : Owned(st))' /\ (\A r \in Sent : Known(r))'
      BY <1>0, <2>1, <2>2, NotesOwned
    <2>4. (\A c \in Reach(commits, HEAD) : Had(commits[c].tree))' /\ (merging = 0 => Had(local))'
      BY <2>1 DEF Possessed, Had, Reach
    <2>5. Settling'
      <3>1. \A p \in Paths : op'.scan[p] = op'.snap[p] => <<p, op'.snap[p]>> \in taken'
        BY <2>1 DEF Held
      <3>. QED
        BY <2>1, <3>1 DEF Settling
    <2>. QED
      BY <2>1, <2>3, <2>4, <2>5 DEF Possessed
  <1>3. CASE \E p \in Paths : PullWrite(p)
    <2>1. PICK p \in Paths : PullWrite(p)
      BY <1>3
    <2>2. /\ UNCHANGED <<commits, HEAD, main, merging, stray, saved, seen, lostThere>> /\ op.pc = "write"
          /\ p \in op.todo /\ taken' = taken \cup {<<p, op.snap[p]>>}
          /\ local' = [local EXCEPT ![p] = op.snap[p]]
      BY <2>1 DEF PullWrite
    <2>3. /\ op'.pc = "write" /\ op'.st = op.st /\ op'.side = op.side
          /\ op'.snap = op.snap /\ op'.scan = op.scan /\ op'.todo = op.todo \ {p}
      BY <2>1, ShapePullWrite
    <2>4. Notes' = Notes
      BY <2>2, <2>3 DEF Notes
    <2>5. (\A st \in Notes : Owned(st))' /\ (\A r \in Sent : Known(r))'
      BY <1>0, <2>2, <2>4, NotesOwned
    <2>6. (\A c \in Reach(commits, HEAD) : Had(commits[c].tree))'
      BY <2>2 DEF Possessed, Had, Reach
    <2>7. (merging = 0 => Had(local))'
      <3>1. local \in Trees
        BY DEF Shape, RepoShape
      <3>2. \A q \in Paths : local'[q] = IF q = p THEN op.snap[p] ELSE local[q]
        BY <2>2, <3>1 DEF Trees
      <3>. QED
        BY <2>2, <3>2 DEF Possessed, Had
    <2>8. Settling'
      BY <2>2, <2>3 DEF Possessed, Settling
    <2>. QED
      BY <2>2, <2>3, <2>5, <2>6, <2>7, <2>8 DEF Possessed
  <1>4. CASE PullSave
    <2>1. /\ UNCHANGED <<here, lostThere, stray, seen>> /\ op.pc = "write" /\ op.todo = {} /\ op' = Idle
          /\ saved'.pending = {} /\ saved'.fetched = op.st.fetched
          /\ saved'.files = Records(op.st.files, op.scan, op.snap, op.side)
      BY <1>4, PullSaveIs
    <2>2. /\ taken \subseteq taken'
          /\ op.side = "mine" => \A p \in Conflicts(op.scan, op.snap, op.st.files) : <<p, op.snap[p]>> \in taken'
      BY <1>4 DEF PullSave
    <2>3. PICK note : note = saved'
      OBVIOUS
    <2>4. Owned(op.st) /\ Settling
      BY <2>1, InNotes DEF Possessed
    <2>5. op.side \in Sides
      BY <2>1, WritingIs
    <2>6. ASSUME NEW p \in Paths, note.files[p] # Absent
          PROVE  <<p, note.files[p]>> \in taken'
      <3>1. note.files[p] = IF p \in Unsettled(op.st.files, op.scan, op.snap, op.side)
                            THEN op.st.files[p] ELSE op.snap[p]
        BY <2>1, <2>3 DEF Records
      <3>2. CASE note.files[p] = op.st.files[p]
        BY <2>2, <2>4, <2>6, <3>2 DEF Owned, Had
      <3>3. CASE note.files[p] # op.st.files[p]
        <4>1. note.files[p] = op.snap[p] /\ p \notin Unsettled(op.st.files, op.scan, op.snap, op.side)
          BY <3>1, <3>3
        <4>2. CASE op.scan[p] = op.snap[p] \/ p \in Apply(op.st.files, op.scan, op.snap, op.side)
          BY <2>1, <2>2, <2>4, <2>6, <4>1, <4>2 DEF Settling
        <4>3. CASE op.scan[p] # op.snap[p] /\ p \notin Apply(op.st.files, op.scan, op.snap, op.side)
          <5>1. op.scan[p] # op.st.files[p] /\ op.side # "theirs" /\ op.snap[p] # op.st.files[p]
            BY <3>3, <4>1, <4>3 DEF Apply
          <5>2. p \in Conflicts(op.scan, op.snap, op.st.files)
            BY <4>3, <5>1 DEF Conflicts
          <5>3. op.side = "mine"
            BY <2>5, <4>1, <5>1, <5>2 DEF Unsettled, Sides
          <5>. QED
            BY <2>2, <4>1, <5>2, <5>3
        <4>. QED
          BY <4>2, <4>3
      <3>. QED
        BY <3>2, <3>3
    <2>7. Owned(note)' /\ note.pending = {}
      <3>1. Had(note.files)'
        BY <2>6 DEF Had
      <3>2. commits' = commits /\ note.fetched = op.st.fetched /\ note.pending = {}
        BY <2>1, <2>3 DEF here
      <3>. QED
        BY <2>4, <3>1, <3>2 DEF Owned
    <2>8. \A st \in Notes' : st \in Notes \/ st = note
      BY <2>1, <2>3 DEF Notes, Idle
    <2>. QED
      BY <1>0, <2>1, <2>2, <2>7, <2>8, PossessedHere DEF Idle
  <1>. QED
    BY <1>1, <1>2, <1>3, <1>4

\* A merge takes in what the branch holds; what git stops at is not had yet.
LEMMA PossessedMerge ==
    ASSUME Shape, Possessed, MergeFetched
    PROVE  Possessed'
  <1>1. /\ UNCHANGED <<main, saved, seen, stray, lostThere>> /\ Grown(commits') /\ Extends(commits, commits')
        /\ main \in 1..Len(commits) /\ HEAD \in 1..Len(commits)
        /\ op \in [pc : Fetching, st : StateRecs, merge : BOOLEAN, found : Founds(Histories)]
    BY MergeFetchedIs
  <1>2. Notes' \subseteq Notes /\ stray \subseteq Sent
    BY ShapeMergeFetched, SentIn
  <1>3. taken \subseteq taken'
    BY MergeFetchedIs DEF MergeStops, MergeEnds
  <1>4. (\A st \in Notes : Owned(st))' /\ (\A r \in Sent : Known(r))'
    BY <1>1, <1>2, <1>3, NotesOwned
  <1>5. op' = Idle \/ op' = [op EXCEPT !.pc = "promote"]
    BY MergeFetchedIs DEF MergeStops, MergeEnds
  <1>6. op'.pc \in {"idle", "promote"}
    BY <1>1, <1>5 DEF Idle
  <1>7. CASE MergeStops
    <2>1. (\A c \in Reach(commits, HEAD) : Had(commits[c].tree))'
      BY <1>7 DEF MergeStops, Possessed, Had, Reach
    <2>2. (merging = 0 => Had(local))'
      BY <1>1, <1>7 DEF MergeStops, Possessed, Had
    <2>3. (op.pc = "promote" => main \in Reach(commits, HEAD))'
      <3>1. CASE op' = Idle
        BY <3>1 DEF Idle
      <3>2. CASE main \in Reach(commits, HEAD)
        BY <1>1, <1>7, <3>2 DEF MergeStops
      <3>. QED
        BY <1>7, <3>1, <3>2 DEF MergeStops
    <2>. QED
      BY <1>1, <1>4, <1>6, <2>1, <2>2, <2>3 DEF Possessed
  <1>8. CASE MergeEnds
    <2>1. Grown(commits)
      BY DEF Shape, RepoShape
    <2>2. \A c \in Reach(commits, main) : Held(commits[c].tree) \subseteq taken'
      BY <1>8 DEF MergeEnds
    <2>3. main \in Reach(commits, main) /\ HEAD \in Reach(commits, HEAD)
      BY <1>1 DEF Reach
    <2>4. \A c \in Reach(commits, HEAD) \cup Reach(commits, main) :
             \A p \in Paths : commits[c].tree[p] # Absent => <<p, commits[c].tree[p]>> \in taken'
      BY <1>3, <2>2 DEF Possessed, Had, Held
    <2>5. ASSUME NEW c \in Reach(commits', HEAD'), NEW p \in Paths, commits'[c].tree[p] # Absent
          PROVE  <<p, commits'[c].tree[p]>> \in taken'
      <3>1. CASE c \in Reach(commits, HEAD) \cup Reach(commits, main)
        <4>1. c \in 1..Len(commits)
          BY <1>1, <2>1, <3>1, InRepository
        <4>2. commits'[c] = commits[c]
          BY <1>1, <4>1 DEF Extends
        <4>. QED
          BY <2>4, <2>5, <3>1, <4>2
      <3>2. CASE commits'[c].tree[p] \in {commits[HEAD].tree[p], commits[main].tree[p]}
        BY <2>3, <2>4, <2>5, <3>2
      <3>. QED
        BY <1>8, <3>1, <3>2 DEF MergeEnds
    <2>6. (\A c \in Reach(commits, HEAD) : Had(commits[c].tree))'
      BY <2>5 DEF Had
    <2>7. Had(local)'
      <3>1. Had(local) /\ \A p \in Paths : local'[p] \in {local[p], commits[HEAD].tree[p], commits[main].tree[p]}
        BY <1>8 DEF MergeEnds, Possessed
      <3>. QED
        BY <1>3, <2>3, <2>4, <3>1 DEF Had
    <2>8. (main \in Reach(commits, HEAD))'
      BY <1>1, <1>8 DEF MergeEnds
    <2>. QED
      BY <1>1, <1>4, <1>6, <2>6, <2>7, <2>8 DEF Possessed
  <1>. QED
    BY <1>7, <1>8, MergeFetchedIs

\* A pull of a repository: what it fetched is recorded once it is merged.
LEMMA PossessedRepository ==
    ASSUME Shape, Possessed,
           \/ \E merge \in BOOLEAN : PullRepository(merge)
           \/ Fetch \/ PullSaveFetched \/ PullPromote
    PROVE  Possessed'
  <1>0. stray \subseteq Sent
    BY SentIn
  <1>1. CASE \E merge \in BOOLEAN : PullRepository(merge)
    <2>1. PICK merge \in BOOLEAN : PullRepository(merge)
      BY <1>1
    <2>2. /\ UNCHANGED <<here, taken, lostThere, stray, seen>> /\ saved.pending = {} /\ Fits(saved)
          /\ op.pc = "idle"
      BY <2>1, PullRepositoryIs DEF ghosts
    <2>3. PICK note : note = Settle(saved)
      OBVIOUS
    <2>4. Owned(note) /\ note.pending = {}
      BY <2>2, <2>3, InNotes, OwnedSettled, SettledIs DEF Possessed, Shape
    <2>5. \/ saved' = note /\ op' = op
          \/ saved' = saved /\ op'.pc \in {"save", "fetch"} /\ op'.st = note
      BY <2>1, <2>3, PullRepositoryIs
    <2>6. \A st \in Notes' : st \in Notes \/ st = note
      BY <2>2, <2>5 DEF Notes
    <2>7. Owned(note)'
      BY <2>2, <2>4 DEF Owned, Had, here
    <2>. QED
      BY <1>0, <2>2, <2>4, <2>5, <2>6, <2>7, PossessedHere
  <1>2. CASE Fetch
    <2>1. PICK note : Fetched(note)
      BY <1>2, FetchIs
    <2>2. /\ UNCHANGED <<local, HEAD, merging, seen, stray, taken, lostThere>> /\ op.st.pending = {}
          /\ Grown(commits') /\ Extends(commits, commits') /\ op.pc = "fetch" /\ Fits(op.st)
          /\ op \in [pc : Fetching, st : StateRecs, merge : BOOLEAN, found : Founds(Histories)]
      BY <1>2, FetchIs DEF ghosts
    <2>3. Grown(commits) /\ HEAD \in 0..Len(commits) /\ main \in 0..Len(commits)
      BY DEF Shape, RepoShape
    <2>4. Owned(op.st)
      BY <2>2, InNotes DEF Possessed
    <2>5. note.files = op.st.files /\ note.pending = {}
      BY <2>1, <2>2 DEF Fetched
    <2>6. Had(note.files)'
      BY <2>2, <2>4, <2>5 DEF Owned, Had
    <2>7. ASSUME NEW f \in note.fetched, NEW p \in Paths, f.files[p] # Absent
          PROVE  commits'[f.commit].tree[p] = f.files[p]
      <3>1. CASE UNCHANGED commits /\ note.fetched = op.st.fetched
        BY <2>4, <2>7, <3>1 DEF Owned
      <3>2. CASE /\ main' # 0 /\ note.fetched = {[commit |-> main', files |-> web]}
                 /\ \A x \in Paths : web[x] # Absent => TreeOf(commits', main')[x] = web[x]
        <4>1. f.commit = main' /\ f.files = web
          BY <3>2
        <4>2. TreeOf(commits', main') = commits'[main'].tree
          BY <3>2 DEF TreeOf
        <4>. QED
          BY <2>7, <3>2, <4>1, <4>2
      <3>. QED
        BY <2>1, <3>1, <3>2 DEF Fetched
    <2>8. Owned(note)'
      BY <2>6, <2>7 DEF Owned
    <2>9. \/ saved' = note /\ op' = Idle
          \/ saved' = saved /\ op' = [op EXCEPT !.pc = "save", !.st = note]
      BY <2>1 DEF Fetched
    <2>10. \/ saved' = note /\ op' = Idle
           \/ saved' = saved /\ op'.pc = "save" /\ op'.st = note
      BY <2>2, <2>9
    <2>11. \A st \in Notes' : st \in Notes \/ st = note
      BY <2>2, <2>10 DEF Notes, Idle
    <2>12. op'.pc \notin {"promote", "write"}
      BY <2>10 DEF Idle
    <2>13. (\A st \in Notes : Owned(st))' /\ (\A r \in Sent : Known(r))'
      BY <1>0, <2>2, <2>5, <2>8, <2>11, NotesOwned
    <2>14. (\A c \in Reach(commits, HEAD) : Had(commits[c].tree))'
      <3>1. Reach(commits', HEAD') = Reach(commits, HEAD)
        BY <2>2, <2>3, ExtendsReach
      <3>2. \A c \in Reach(commits, HEAD) : c \in 1..Len(commits)
        BY <2>3, ReachReach
      <3>3. \A c \in Reach(commits, HEAD) : commits'[c] = commits[c]
        BY <2>2, <3>2 DEF Extends
      <3>. QED
        BY <2>2, <3>1, <3>3 DEF Possessed, Had
    <2>15. (merging = 0 => Had(local))'
      BY <2>2 DEF Possessed, Had
    <2>. QED
      BY <2>2, <2>12, <2>13, <2>14, <2>15 DEF Possessed
  <1>3. CASE PullSaveFetched
    <2>1. /\ UNCHANGED <<here, taken, lostThere, stray>> /\ Notes' \subseteq Notes
          /\ op'.pc \notin {"promote", "write"}
      BY <1>3, PullSaveFetchedIs DEF ghosts, Idle
    <2>. QED
      BY <1>0, <2>1, PossessedHere
  <1>4. CASE PullPromote
    <2>1. /\ UNCHANGED <<here, taken, lostThere, stray, seen>> /\ op' = Idle /\ op.pc = "promote"
          /\ saved' = Promote(commits, op.st) /\ Fits(op.st) /\ op.st.fetched # {} /\ op.st.pending = {}
      BY <1>4, PullPromoteIs DEF ghosts
    <2>2. PICK f \in op.st.fetched : TRUE
      BY <2>1
    <2>3. PICK note : note = saved'
      OBVIOUS
    <2>4. note.fetched = {} /\ note.files = f.files /\ note.pending = {}
      BY <2>1, <2>2, <2>3, Promoted DEF Shape
    <2>5. f.commit \in Reach(commits, HEAD)
      <3>1. f.commit \in Reach(commits, main) /\ main \in Reach(commits, HEAD)
        BY <2>1, <2>2 DEF Fits, Possessed
      <3>2. Grown(commits) /\ HEAD \in 0..Len(commits)
        BY DEF Shape, RepoShape
      <3>. QED
        BY <3>1, <3>2, ReachReach
    <2>6. Owned(op.st)
      BY <2>1, InNotes DEF Possessed
    <2>7. Had(f.files)
      BY <2>1, <2>2, <2>5, <2>6, OwnedPromoted
    <2>8. Owned(note)'
      BY <2>1, <2>4, <2>7 DEF Owned, Had
    <2>9. \A st \in Notes' : st \in Notes \/ st = note
      BY <2>1, <2>3 DEF Notes, Idle
    <2>. QED
      BY <1>0, <2>1, <2>4, <2>8, <2>9, PossessedHere DEF Idle
  <1>. QED
    BY <1>1, <1>2, <1>3, <1>4

\* Every step of anybody keeps it.
LEMMA PossessedNext ==
    ASSUME Shape, Possessed, [Next]_vars
    PROVE  Possessed'
  <1>1. CASE \/ UNCHANGED vars
             \/ Quietly /\ ((\E p \in Paths : WebEdit(p)) \/ WebName \/ WebTrim)
             \/ \E p \in Paths : Edit(p)
             \/ CommitWork \/ AbortMerge
             \/ StatusRead \/ StatusSave
    BY <1>1, PossessedAround
  <1>2. CASE \/ PushStart \/ PushPlan \/ PostLands \/ PostSuggestion \/ PostFails \/ Stop \/ StrayLands
             \/ PushAccepted \/ PushRefused
    BY <1>2, PossessedPush
  <1>3. CASE \/ \E side \in Sides : PullFolder(side)
             \/ PullRead
             \/ \E p \in Paths : PullWrite(p)
             \/ PullSave
    BY <1>3, PossessedFolder
  <1>4. CASE \/ \E merge \in BOOLEAN : PullRepository(merge)
             \/ Fetch \/ PullSaveFetched \/ PullPromote
    BY <1>4, PossessedRepository
  <1>5. CASE MergeFetched
    BY <1>5, PossessedMerge
  <1>. QED
    BY <1>1, <1>2, <1>3, <1>4, <1>5 DEF Next, Sides

\* A directory starts with what it holds, and with the version it published.
LEMMA PossessedInit ==
    ASSUME Init
    PROVE  Possessed
  <1>1. PICK first \in Trees :
            /\ saved.files \in {first, Empty}
            /\ \/ taken = Held(first) \cup Held(local) \cup Held(Empty)
               \/ taken = Held(local) \cup Held(Empty) /\ saved.files = Empty
            /\ \/ commits = <<>> /\ kind = "folder"
               \/ kind # "folder" /\ commits = <<Root(local)>>
               \/ /\ kind # "folder" /\ saved.files = first
                  /\ commits = <<Root(first), [Root(local) EXCEPT !.past = {1}]>>
    BY InitIs
  <1>2. Notes = {saved} /\ op.pc = "idle" /\ saved.fetched = {} /\ saved.pending = {} /\ stray = {} /\ lostThere = {}
        /\ HEAD = Len(commits) /\ local \in Trees
    BY InitIs DEF Notes, Idle
  <1>3. Had(local) /\ Had(Empty)
    BY <1>1 DEF Had, Held
  <1>4. Had(saved.files)
    BY <1>1, <1>3 DEF Had, Held
  <1>5. Owned(saved)
    BY <1>2, <1>4 DEF Owned
  <1>6. Sent = {}
    BY <1>2 DEF Sent
  <1>7. \A c \in Reach(commits, HEAD) : Had(commits[c].tree)
    <2>1. CASE commits = <<>>
      BY <1>2, <2>1 DEF Reach
    <2>2. CASE commits = <<Root(local)>>
      <3>1. PICK a : a = Root(local)
        OBVIOUS
      <3>2. Len(commits) = 1 /\ commits[1] = a /\ a.tree = local /\ a.past = {}
        BY <2>2, <3>1 DEF Root
      <3>. QED
        BY <1>2, <1>3, <3>2 DEF Reach
    <2>3. CASE saved.files = first /\ commits = <<Root(first), [Root(local) EXCEPT !.past = {1}]>>
      <3>1. PICK a, b : a = Root(first) /\ b = [Root(local) EXCEPT !.past = {1}]
        OBVIOUS
      <3>2. a.tree = first /\ a.past = {} /\ b.tree = local /\ b.past = {1}
        BY <3>1 DEF Root
      <3>3. commits = <<a, b>>
        BY <2>3, <3>1
      <3>4. Len(commits) = 2 /\ commits[1] = a /\ commits[2] = b
        BY <3>3
      <3>5. Reach(commits, HEAD) = {1, 2}
        BY <1>2, <3>2, <3>4 DEF Reach
      <3>6. Had(first)
        BY <1>4, <2>3
      <3>. QED
        BY <1>3, <3>2, <3>4, <3>5, <3>6
    <2>. QED
      BY <1>1, <2>1, <2>2, <2>3
  <1>. QED
    BY <1>2, <1>3, <1>5, <1>6, <1>7 DEF Possessed

\* No push ever replaces or deletes a file on the web whose content this side
\* never had, however often and late a request arrives.
THEOREM WebKeptAlways == Spec => []WebKept
  <1>1. Init => Possessed
    BY PossessedInit
  <1>2. Shape /\ Possessed /\ [Next]_vars => Possessed'
    BY PossessedNext
  <1>3. Possessed => WebKept
    BY DEF Possessed, WebKept
  <1>. QED
    BY <1>1, <1>2, <1>3, ShapeAlways, PTL DEF Spec

=============================================================================
