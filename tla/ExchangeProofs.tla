--------------------------- MODULE ExchangeProofs ---------------------------
(***************************************************************************)
(* For any accounts, records and values: the types, that an account        *)
(* between two commands differs from its tip only in what its user has     *)
(* changed (OwnChangesOnly), and that no branch loses a commit but the     *)
(* remote's to a push that says so (HistoryKept).                          *)
(*                                                                         *)
(* OwnChangesOnly needs to know what each half of a write-back has done    *)
(* when the other half begins: Good(a) says it of one account, and a step  *)
(* of another account leaves it alone (OthersStayGood).                    *)
(***************************************************************************)
EXTENDS Exchange, TLAPS

Numbers == 1..Len(commits)

\* An ancestor's ancestors are ancestors.
Closed == \A c \in Numbers : \A p \in AncOf(c) : AncOf(p) \subseteq AncOf(c)

Own(a) == touched[a] \cup left[a]

\* What is known of an account between two steps of a command.
Good(a) ==
    /\ tip[a] = 0 => tracking[a] = 0
    /\ tip[a] = 0 => job[a] = "idle"
    /\ \A r \in Records :
          /\ job[a] = "index" /\ live[a][r] # HeadTree(a)[r] => ~Visited(HeadTree(a), r)
          /\ job[a] = "prune" /\ HeadTree(a)[r] # None
             => live[a][r] = HeadTree(a)[r] \/ r \in left[a]
    /\ a \notin torn => \A r \in Records :
          /\ Idle(a) /\ live[a][r] # HeadTree(a)[r] => r \in Own(a)
          /\ (Idle(a) \/ job[a] \in {"native", "prune"}) /\ index[a][r] # HeadTree(a)[r]
             => r \in Own(a)

Inv == TypeOK /\ Closed /\ \A a \in Accounts : Good(a)

\* The state of an account, and that a step leaves it alone.
Same(a) ==
    /\ tip'[a] = tip[a] /\ (tip[a] = 0 => tracking'[a] = tracking[a])
    /\ index'[a] = index[a] /\ live'[a] = live[a] /\ job'[a] = job[a]
    /\ touched'[a] = touched[a] /\ left'[a] = left[a] /\ (a \in torn' <=> a \in torn)
    /\ tip[a] # 0 => HeadTree(a)' = HeadTree(a)

-----------------------------------------------------------------------------
LEMMA SameStaysGood ==
    ASSUME NEW a \in Accounts, Good(a), Same(a) PROVE Good(a)'
<1>1. CASE tip[a] = 0
  BY <1>1 DEF Good, Same, Idle
<1>2. CASE tip[a] # 0
  BY <1>2 DEF Good, Same, Idle, Own
<1> QED BY <1>1, <1>2

\* The history after a new commit: the old commits are where they were.
LEMMA Recorded ==
    ASSUME TypeOK, Closed, NEW a \in Accounts, NEW tree \in Tree,
           NEW parents \in SUBSET Numbers, Record(a, tree, parents)
    PROVE  /\ commits' \in Seq([tree : Tree, parents : SUBSET Nat, anc : SUBSET Nat])
           /\ Len(commits') = Len(commits) + 1
           /\ \A c \in Numbers : commits'[c] = commits[c]
           /\ tip' = [tip EXCEPT ![a] = Len(commits')]
           /\ tip'[a] = Len(commits')
           /\ HeadTree(a)' = tree
           /\ \A c \in 1..Len(commits') :
                 /\ commits'[c].parents \subseteq 1..(c - 1)
                 /\ c \in commits'[c].anc /\ commits'[c].anc \subseteq 1..c
           /\ Closed'
           /\ \A p \in parents : AncOf(p) \subseteq AncOf(tip[a])'
<1> DEFINE n == Len(commits) + 1
           new == [tree |-> tree, parents |-> parents,
                   anc |-> {n} \cup UNION {commits[c].anc : c \in parents}]
<1>1. /\ commits \in Seq([tree : Tree, parents : SUBSET Nat, anc : SUBSET Nat])
      /\ Len(commits) \in Nat /\ n \in Nat /\ Numbers = 1..(n - 1)
  BY DEF TypeOK, Numbers
<1>2. \A c \in Numbers : /\ commits[c].parents \subseteq 1..(c - 1)
                         /\ c \in commits[c].anc /\ commits[c].anc \subseteq 1..c
  BY DEF TypeOK, Numbers
<1>3. \A c \in parents : commits[c].anc \subseteq Numbers
  BY <1>1, <1>2
<1>4. new \in [tree : Tree, parents : SUBSET Nat, anc : SUBSET Nat]
  <2>1. new.anc \subseteq 1..n
    BY <1>1, <1>3
  <2>2. parents \in SUBSET Nat
    BY <1>1
  <2> QED BY <2>1, <2>2, <1>1
<1>5. commits' = Append(commits, new) /\ tip' = [tip EXCEPT ![a] = n]
  BY DEF Record
<1>6. /\ commits' \in Seq([tree : Tree, parents : SUBSET Nat, anc : SUBSET Nat])
      /\ Len(commits') = n
      /\ \A c \in Numbers : commits'[c] = commits[c]
      /\ commits'[n] = new
  BY <1>1, <1>4, <1>5
<1>7. tip'[a] = n
  BY <1>5 DEF TypeOK
<1>8. HeadTree(a)' = tree /\ AncOf(tip[a])' = new.anc
  BY <1>6, <1>7 DEF HeadTree, TreeOf, AncOf
<1>9. \A c \in 1..Len(commits') :
         /\ commits'[c].parents \subseteq 1..(c - 1)
         /\ c \in commits'[c].anc /\ commits'[c].anc \subseteq 1..c
  <2>1. new.parents \subseteq 1..(n - 1) /\ n \in new.anc /\ new.anc \subseteq 1..n
    BY <1>1, <1>3
  <2> QED BY <2>1, <1>1, <1>2, <1>6
<1>10. Closed'
  <2> SUFFICES ASSUME NEW c \in 1..n, NEW p \in commits'[c].anc
               PROVE  commits'[p].anc \subseteq commits'[c].anc
    BY <1>6 DEF Closed, Numbers, AncOf
  <2>1. CASE c # n
    <3>1. c \in Numbers /\ p \in commits[c].anc /\ p \in Numbers
      BY <2>1, <1>1, <1>2, <1>6
    <3> QED BY <3>1, <1>6 DEF Closed, AncOf
  <2>2. CASE c = n /\ p # n
    <3>1. PICK q \in parents : p \in commits[q].anc
      BY <2>2, <1>6
    <3>2. commits[p].anc \subseteq commits[q].anc /\ p \in Numbers
      BY <3>1, <1>3 DEF Closed, AncOf
    <3> QED BY <3>1, <3>2, <2>2, <1>6
  <2>3. CASE c = n /\ p = n
    BY <2>3
  <2> QED BY <2>1, <2>2, <2>3
<1>11. \A p \in parents : AncOf(p)' \subseteq AncOf(tip[a])' /\ AncOf(p)' = AncOf(p)
  BY <1>6, <1>8 DEF AncOf
<1>12. \A p \in parents : AncOf(p) \subseteq AncOf(tip[a])'
  BY <1>11
<1> QED BY <1>5, <1>6, <1>7, <1>8, <1>9, <1>10, <1>12

LEMMA TreesMerged ==
    ASSUME NEW base \in Tree, NEW ours \in Tree, NEW theirs \in Tree
    PROVE  Merged(base, ours, theirs) \in Tree
  BY DEF Merged, Tree

LEMMA TreesWritten ==
    ASSUME NEW tree \in Tree, NEW recs \in Tree
    PROVE  Written(tree, recs) \in Tree /\ Pruned(tree, recs) \in Tree
  BY DEF Written, Pruned, Tree

\* The trees of the commits that accounts are at.
LEMMA TreesCommitted ==
    ASSUME TypeOK
    PROVE  /\ \A c \in Numbers : TreeOf(c) \in Tree
           /\ \A a \in Accounts : /\ tip[a] \in 0..Len(commits)
                                  /\ tip[a] # 0 => tip[a] \in Numbers /\ HeadTree(a) \in Tree
                                  /\ index[a] \in Tree /\ live[a] \in Tree
<1>1. \A c \in Numbers : TreeOf(c) \in Tree
  <2> SUFFICES ASSUME NEW c \in Numbers PROVE TreeOf(c) \in Tree
    OBVIOUS
  <2> DEFINE Commits == [tree : Tree, parents : SUBSET Nat, anc : SUBSET Nat]
  <2>1. commits \in Seq(Commits) /\ c \in 1..Len(commits)
    BY DEF TypeOK, Numbers
  <2> HIDE DEF Commits
  <2>2. commits[c] \in Commits
    BY <2>1
  <2> QED BY <2>2 DEF TreeOf, Commits
<1>2. Len(commits) \in Nat
  BY DEF TypeOK
<1> QED BY <1>1, <1>2 DEF TypeOK, Numbers, HeadTree

-----------------------------------------------------------------------------
\* The history has only grown.
Grown ==
    /\ commits' \in Seq([tree : Tree, parents : SUBSET Nat, anc : SUBSET Nat])
    /\ Len(commits') \in Nat /\ Len(commits) <= Len(commits')
    /\ \A c \in Numbers : commits'[c] = commits[c]
    /\ \A c \in 1..Len(commits') :
          /\ commits'[c].parents \subseteq 1..(c - 1)
          /\ c \in commits'[c].anc /\ commits'[c].anc \subseteq 1..c
    /\ Closed'

\* What a merge, a pull and a cherry-pick do to the account they are given in.
Moved(a) ==
    /\ Grown
    /\ tip' = [tip EXCEPT ![a] = tip'[a]] /\ tip'[a] \in 1..Len(commits')
    /\ AncOf(tip[a]) \subseteq AncOf(tip[a])'
    /\ index' = [index EXCEPT ![a] = index'[a]] /\ index'[a] \in Tree
    /\ job' = [job EXCEPT ![a] = job'[a]]
    /\ job'[a] \in {"idle", "native", "records", "hung"}
    /\ job'[a] = "idle" => tip'[a] = tip[a] /\ index'[a] = index[a]
    /\ job'[a] = "native"
       => \/ tip'[a] = tip[a] /\ index'[a] = index[a]
          \/ index'[a] = HeadTree(a)'

LEMMA UnchangedGrown == ASSUME TypeOK, Closed, UNCHANGED commits PROVE Grown
<1>1. Len(commits) \in Nat
  BY DEF TypeOK
<1>2. Closed'
  BY DEF Closed, Numbers, AncOf
<1> QED BY <1>1, <1>2 DEF TypeOK, Grown

LEMMA RecordedGrown ==
    ASSUME TypeOK, Closed, NEW a \in Accounts, NEW tree \in Tree,
           NEW parents \in SUBSET Numbers, Record(a, tree, parents)
    PROVE  Grown
<1>1. /\ commits' \in Seq([tree : Tree, parents : SUBSET Nat, anc : SUBSET Nat])
      /\ Len(commits') = Len(commits) + 1
      /\ \A c \in Numbers : commits'[c] = commits[c]
      /\ \A c \in 1..Len(commits') :
            /\ commits'[c].parents \subseteq 1..(c - 1)
            /\ c \in commits'[c].anc /\ commits'[c].anc \subseteq 1..c
      /\ Closed'
  BY Recorded
<1>2. Len(commits) \in Nat
  BY DEF TypeOK
<1>3. Len(commits') \in Nat /\ Len(commits) <= Len(commits')
  BY <1>1, <1>2
<1> QED BY <1>1, <1>3 DEF Grown

LEMMA ReportsMoved ==
    ASSUME TypeOK, Closed, NEW a \in Accounts, Idle(a), Reports(a)
    PROVE  Moved(a)
<1>1. Grown
  BY UnchangedGrown DEF Reports
<1>2. tip'[a] \in 1..Len(commits') /\ index'[a] \in Tree
  BY TreesCommitted DEF Reports, Idle, Numbers
<1>3. job'[a] \in {"idle", "native"} /\ job' = [job EXCEPT ![a] = job'[a]]
  BY DEF Reports, Answers, Go, TypeOK
<1>4. /\ tip' = [tip EXCEPT ![a] = tip'[a]] /\ index' = [index EXCEPT ![a] = index'[a]]
      /\ tip'[a] = tip[a] /\ index'[a] = index[a]
  BY DEF Reports, TypeOK
<1>5. AncOf(tip[a]) \subseteq AncOf(tip[a])'
  BY DEF Reports, AncOf
<1> QED BY <1>1, <1>2, <1>3, <1>4, <1>5 DEF Moved

LEMMA FinishMergeMoves ==
    ASSUME TypeOK, Closed, NEW a \in Accounts, Idle(a), NEW base \in Tree,
           NEW theirs \in Tree, NEW parents \in SUBSET Numbers, tip[a] \in parents,
           FinishMerge(a, base, theirs, parents)
    PROVE  Moved(a)
<1>1. CASE Conflicts(base, HeadTree(a), theirs) # {} /\ Reports(a)
  BY <1>1, ReportsMoved
<1>2. CASE /\ Record(a, Merged(base, HeadTree(a), theirs), parents)
           /\ WritesBack(a)
           /\ UNCHANGED index
  <2> DEFINE tree == Merged(base, HeadTree(a), theirs)
  <2>1. tree \in Tree
    BY TreesMerged, TreesCommitted DEF Idle
  <2> HIDE DEF tree
  <2>2. Record(a, tree, parents)
    BY <1>2 DEF tree
  <2>3. Grown
    BY <2>1, <2>2, RecordedGrown
  <2>4. /\ tip' = [tip EXCEPT ![a] = Len(commits')] /\ tip'[a] = Len(commits')
        /\ Len(commits') = Len(commits) + 1
        /\ AncOf(tip[a]) \subseteq AncOf(tip[a])'
    BY <2>1, <2>2, Recorded
  <2>5. tip'[a] \in 1..Len(commits') /\ tip' = [tip EXCEPT ![a] = tip'[a]]
    BY <2>3, <2>4 DEF Grown, TypeOK
  <2>6. job'[a] \in {"records", "hung"} /\ job' = [job EXCEPT ![a] = job'[a]]
    BY <1>2 DEF WritesBack, Go, TypeOK
  <2>7. index' = [index EXCEPT ![a] = index'[a]] /\ index'[a] \in Tree
    BY <1>2 DEF TypeOK
  <2> QED BY <2>3, <2>4, <2>5, <2>6, <2>7 DEF Moved
<1> QED BY <1>1, <1>2 DEF FinishMerge

LEMMA MergeMoves ==
    ASSUME TypeOK, Closed, NEW a \in Accounts, Idle(a), NEW c \in Numbers,
           NEW materialise \in BOOLEAN, materialise \/ a \in Verb,
           MergeIntoHead(a, c, materialise)
    PROVE  Moved(a)
<1>1. tip[a] \in Numbers /\ TreeOf(c) \in Tree
  BY TreesCommitted DEF Idle
<1>2. CASE c \in AncOf(tip[a]) /\ Reports(a)
  BY <1>2, ReportsMoved
<1>3. CASE tip[a] \in AncOf(c) /\ FastForward(a, c, materialise)
  <2>1. UNCHANGED commits /\ tip' = [tip EXCEPT ![a] = c] /\ tip'[a] = c
    BY <1>3 DEF FastForward, TypeOK
  <2>2. Grown
    BY <2>1, UnchangedGrown
  <2>3. AncOf(tip[a]) \subseteq AncOf(tip[a])'
    <3>1. AncOf(tip[a]) \subseteq AncOf(c)
      BY <1>3 DEF Closed
    <3> QED BY <2>1, <3>1 DEF AncOf
  <2>4. HeadTree(a)' = TreeOf(c)
    BY <2>1 DEF HeadTree, TreeOf
  <2>5. tip'[a] \in 1..Len(commits') /\ tip' = [tip EXCEPT ![a] = tip'[a]]
    BY <2>1 DEF Numbers
  <2>6. CASE materialise
    <3>1. job'[a] \in {"records", "hung"} /\ job' = [job EXCEPT ![a] = job'[a]]
      BY <2>6, <1>3 DEF FastForward, WritesBack, Go, TypeOK
    <3>2. index' = [index EXCEPT ![a] = index'[a]] /\ index'[a] \in Tree
      BY <2>6, <1>3 DEF FastForward, TypeOK
    <3> QED BY <2>2, <2>3, <2>5, <3>1, <3>2 DEF Moved
  <2>7. CASE ~materialise
    <3>1. job'[a] = "native" /\ job' = [job EXCEPT ![a] = job'[a]]
      BY <2>7, <1>3 DEF FastForward, Answers, Go, TypeOK
    <3>2. /\ index' = [index EXCEPT ![a] = index'[a]] /\ index'[a] \in Tree
          /\ index'[a] = HeadTree(a)'
      BY <2>7, <1>3, <1>1, <2>4 DEF FastForward, TypeOK
    <3> QED BY <2>2, <2>3, <2>5, <3>1, <3>2 DEF Moved
  <2> QED BY <2>6, <2>7
<1>4. ASSUME NEW base \in MergeBases(tip[a], c),
             FinishMerge(a, TreeOf(base), TreeOf(c), {tip[a], c})
      PROVE  Moved(a)
  <2>1. base \in Numbers
    BY <1>1 DEF MergeBases, AncOf, TypeOK, Numbers
  <2>2. TreeOf(base) \in Tree
    BY <2>1, TreesCommitted
  <2>3. {tip[a], c} \in SUBSET Numbers
    BY <1>1
  <2> QED BY <1>1, <1>4, <2>2, <2>3, FinishMergeMoves
<1> QED BY <1>2, <1>3, <1>4 DEF MergeIntoHead

-----------------------------------------------------------------------------
\* An account after a merge, a pull or a cherry-pick, and the others.
LEMMA MovedStep ==
    ASSUME Inv, NEW a \in Accounts, Idle(a), Moved(a),
           UNCHANGED <<remote, live, budget, ghosts>>,
           \/ UNCHANGED tracking
           \/ tracking' = Fetched(a)
    PROVE  Inv'
<1>1. /\ commits' \in Seq([tree : Tree, parents : SUBSET Nat, anc : SUBSET Nat])
      /\ Len(commits) \in Nat /\ Len(commits') \in Nat /\ Len(commits) <= Len(commits')
      /\ \A c \in Numbers : commits'[c] = commits[c]
  BY DEF Moved, Grown, Inv, TypeOK
<1>2. /\ remote \in 0..Len(commits)
      /\ tip \in [Accounts -> 0..Len(commits)] /\ tracking \in [Accounts -> 0..Len(commits)]
      /\ index \in [Accounts -> Tree] /\ live \in [Accounts -> Tree]
  BY DEF Inv, TypeOK
<1>wider. \A m \in 0..Len(commits) : m \in 0..Len(commits')
  BY <1>1
<1>3. TypeOK'
  <2>1. remote' \in 0..Len(commits')
    BY <1>2, <1>wider
  <2>2. tip' \in [Accounts -> 0..Len(commits')]
    <3>1. tip'[a] \in 0..Len(commits') /\ tip' = [tip EXCEPT ![a] = tip'[a]]
      BY <1>1 DEF Moved
    <3> QED BY <3>1, <1>2, <1>wider
  <2>3. tracking' \in [Accounts -> 0..Len(commits')]
    <3>1. remote \in 0..Len(commits')
      BY <1>2, <1>wider
    <3> QED BY <3>1, <1>2, <1>wider DEF Fetched
  <2>4. index' \in [Accounts -> Tree] /\ live' \in [Accounts -> Tree]
    BY <1>2 DEF Moved
  <2>5. job' \in [Accounts -> {"idle", "records", "index", "native", "prune", "hung"}]
    BY DEF Moved, Inv, TypeOK
  <2>6. /\ \A c \in 1..Len(commits') :
              /\ commits'[c].parents \subseteq 1..(c - 1)
              /\ c \in commits'[c].anc /\ commits'[c].anc \subseteq 1..c
    BY DEF Moved, Grown
  <2>7. /\ budget' \in 0..MaxEvents /\ torn' \subseteq Accounts
        /\ touched' \in [Accounts -> SUBSET Records] /\ left' \in [Accounts -> SUBSET Records]
    BY DEF Inv, TypeOK, ghosts
  <2> QED BY <1>1, <2>1, <2>2, <2>3, <2>4, <2>5, <2>6, <2>7 DEF TypeOK
<1>4. Closed'
  BY DEF Moved, Grown
<1>5. ASSUME NEW b \in Accounts, b # a PROVE Good(b)'
  <2>1. tip'[b] = tip[b] /\ tracking'[b] = tracking[b]
    BY <1>2, <1>5 DEF Moved, Fetched
  <2>2. index'[b] = index[b] /\ live'[b] = live[b] /\ job'[b] = job[b]
    BY <1>5 DEF Moved, Inv, TypeOK
  <2>3. touched'[b] = touched[b] /\ left'[b] = left[b] /\ (b \in torn' <=> b \in torn)
    BY DEF ghosts
  <2>4. tip[b] # 0 => HeadTree(b)' = HeadTree(b)
    BY <1>1, <1>2, <2>1 DEF HeadTree, TreeOf, Numbers
  <2>5. Same(b)
    BY <2>1, <2>2, <2>3, <2>4 DEF Same
  <2> QED BY <2>5, SameStaysGood DEF Inv
<1>6. Good(a)'
  <2>1. Good(a) /\ job[a] = "idle" /\ tip[a] # 0
    BY DEF Inv, Idle
  <2>2. tip'[a] # 0
    BY <1>1 DEF Moved
  <2>3. /\ live'[a] = live[a] /\ Own(a)' = Own(a) /\ (a \in torn' <=> a \in torn)
    BY DEF ghosts, Own
  <2>4. tip'[a] = tip[a] => HeadTree(a)' = HeadTree(a)
    BY <1>1, <1>2, <2>1 DEF HeadTree, TreeOf, Numbers
  <2>5. CASE job'[a] = "idle"
    <3>1. tip'[a] = tip[a] /\ index'[a] = index[a] /\ HeadTree(a)' = HeadTree(a)
      BY <2>4, <2>5 DEF Moved
    <3> QED BY <3>1, <2>1, <2>2, <2>3, <2>5 DEF Good, Idle
  <2>6. CASE job'[a] = "native"
    <3>1. CASE tip'[a] = tip[a] /\ index'[a] = index[a]
      BY <3>1, <2>1, <2>2, <2>3, <2>4, <2>6 DEF Good, Idle
    <3>2. CASE index'[a] = HeadTree(a)'
      BY <3>2, <2>2, <2>3, <2>6 DEF Good, Idle
    <3> QED BY <3>1, <3>2, <2>6 DEF Moved
  <2>7. CASE job'[a] \in {"records", "hung"}
    BY <2>2, <2>7 DEF Good, Idle
  <2> QED BY <2>5, <2>6, <2>7 DEF Moved
<1> QED BY <1>3, <1>4, <1>5, <1>6 DEF Inv

\* A step of an account that leaves the history and the branches alone.
Only(a) ==
    /\ UNCHANGED repos
    /\ index' = [index EXCEPT ![a] = index'[a]] /\ index'[a] \in Tree
    /\ live' = [live EXCEPT ![a] = live'[a]] /\ live'[a] \in Tree
    /\ job' = [job EXCEPT ![a] = job'[a]]
    /\ job'[a] \in {"idle", "records", "index", "native", "prune", "hung"}
    /\ touched' = [touched EXCEPT ![a] = touched'[a]] /\ touched'[a] \subseteq Records
    /\ left' = [left EXCEPT ![a] = left'[a]] /\ left'[a] \subseteq Records
    /\ torn' \subseteq Accounts /\ torn' \ {a} = torn \ {a}
    /\ budget' \in 0..MaxEvents

LEMMA OnlyStep ==
    ASSUME Inv, NEW a \in Accounts, Only(a), Good(a)'
    PROVE  Inv'
<1>1. TypeOK'
  <2>1. /\ index' \in [Accounts -> Tree] /\ live' \in [Accounts -> Tree]
        /\ touched' \in [Accounts -> SUBSET Records] /\ left' \in [Accounts -> SUBSET Records]
    BY DEF Only, Inv, TypeOK
  <2>2. job' \in [Accounts -> {"idle", "records", "index", "native", "prune", "hung"}]
    BY DEF Only, Inv, TypeOK
  <2>3. /\ UNCHANGED <<commits, remote, tip, tracking>>
        /\ budget' \in 0..MaxEvents /\ torn' \subseteq Accounts
    BY DEF Only, repos
  <2> QED BY <2>1, <2>2, <2>3 DEF Inv, TypeOK
<1>2. Closed'
  BY DEF Inv, Closed, Only, repos, Numbers, AncOf
<1>3. ASSUME NEW b \in Accounts, b # a PROVE Good(b)'
  <2>1. tip'[b] = tip[b] /\ tracking'[b] = tracking[b]
    BY DEF Only, repos
  <2>2. index'[b] = index[b] /\ live'[b] = live[b] /\ job'[b] = job[b]
    BY <1>3 DEF Only, Inv, TypeOK
  <2>3. touched'[b] = touched[b] /\ left'[b] = left[b] /\ (b \in torn' <=> b \in torn)
    BY <1>3 DEF Only, Inv, TypeOK
  <2>4. HeadTree(b)' = HeadTree(b)
    BY DEF Only, repos, HeadTree, TreeOf
  <2>5. Same(b)
    BY <2>1, <2>2, <2>3, <2>4 DEF Same
  <2> QED BY <2>5, SameStaysGood DEF Inv
<1> QED BY <1>1, <1>2, <1>3 DEF Inv

-----------------------------------------------------------------------------
(* One lemma for each step.                                                 *)

\* What the types say of one account.
LEMMA AccountTypes ==
    ASSUME Inv, NEW a \in Accounts
    PROVE  /\ index[a] \in Tree /\ live[a] \in Tree /\ job \in [Accounts ->
                 {"idle", "records", "index", "native", "prune", "hung"}]
           /\ index \in [Accounts -> Tree] /\ live \in [Accounts -> Tree]
           /\ touched \in [Accounts -> SUBSET Records] /\ left \in [Accounts -> SUBSET Records]
           /\ torn \subseteq Accounts /\ budget \in 0..MaxEvents
           /\ tip[a] # 0 => HeadTree(a) \in Tree
  BY TreesCommitted DEF Inv, TypeOK

LEMMA WriteStep ==
    ASSUME Inv, NEW a \in Accounts, NEW r \in Records, NEW v \in Held, Write(a, r, v)
    PROVE  Inv'
<1>1. /\ live'[a] = [live[a] EXCEPT ![r] = v] /\ touched'[a] = touched[a] \cup {r}
      /\ UNCHANGED <<repos, index, job, left, torn>>
  BY AccountTypes DEF Write
<1>2. live'[a] \in Tree
  BY <1>1, AccountTypes DEF Tree
<1>3. budget' \in 0..MaxEvents
  BY AccountTypes, ConstantsAssumption DEF Write
<1>4. Only(a)
  BY <1>1, <1>2, <1>3, AccountTypes DEF Only, Write
<1>5. HeadTree(a)' = HeadTree(a) /\ UNCHANGED <<tip, tracking>>
  BY <1>1 DEF repos, HeadTree, TreeOf
<1>6. \A s \in Records : s # r => live'[a][s] = live[a][s]
  BY <1>1, AccountTypes DEF Tree
<1>7. Own(a)' = Own(a) \cup {r}
  BY <1>1 DEF Own
<1>8. Good(a)'
  BY <1>1, <1>5, <1>6, <1>7 DEF Good, Inv, Idle, Write
<1> QED BY <1>4, <1>8, OnlyStep

LEMMA AddStep ==
    ASSUME Inv, NEW a \in Accounts,
           AddAll(a) \/ \E r \in Records : AddRecord(a, r)
    PROVE  Inv'
<1>1. UNCHANGED <<repos, live, job, budget, ghosts>> /\ Idle(a)
  BY DEF AddAll, AddRecord
<1>2. index' = [index EXCEPT ![a] = index'[a]] /\ index'[a] \in Tree
  BY AccountTypes DEF AddAll, AddRecord, Tree
<1>3. \A s \in Records : index'[a][s] = live[a][s] \/ index'[a][s] = index[a][s]
  BY AccountTypes DEF AddAll, AddRecord, Tree
<1>4. Only(a)
  BY <1>1, <1>2, AccountTypes DEF Only, ghosts
<1>5. HeadTree(a)' = HeadTree(a) /\ UNCHANGED <<tip, tracking>> /\ Own(a)' = Own(a)
  BY <1>1 DEF repos, HeadTree, TreeOf, ghosts, Own
<1>6. Good(a)'
  BY <1>1, <1>3, <1>5 DEF Good, Inv, Idle, ghosts
<1> QED BY <1>4, <1>6, OnlyStep

LEMMA CheckOutStep == ASSUME Inv, NEW a \in Accounts, CheckOut(a) PROVE Inv'
<1>1. UNCHANGED <<repos, index, live, budget, ghosts>> /\ Idle(a) /\ job'[a] = "native"
  BY AccountTypes DEF CheckOut, Go
<1>2. Only(a)
  BY <1>1, AccountTypes DEF Only, ghosts, CheckOut, Go
<1>3. HeadTree(a)' = HeadTree(a) /\ UNCHANGED <<tip, tracking>> /\ Own(a)' = Own(a)
  BY <1>1 DEF repos, HeadTree, TreeOf, ghosts, Own
<1>4. Good(a)'
  BY <1>1, <1>3 DEF Good, Inv, Idle, ghosts
<1> QED BY <1>2, <1>4, OnlyStep

LEMMA RestoreStep ==
    ASSUME Inv, NEW a \in Accounts, NEW half \in {Data, Dict}, Restore(a, half)
    PROVE  Inv'
<1> DEFINE after == Restored(a, half, HeadTree(a))
           apart == {r \in Records : after[r] # HeadTree(a)[r] \/ index[a][r] # HeadTree(a)[r]}
<1>1. UNCHANGED <<repos, index, job, budget, torn>> /\ Idle(a)
  BY DEF Restore
<1>2. after \in Tree
  BY <1>1, AccountTypes DEF Restored, Tree, Idle
<1>3. \A s \in Records : after[s] = HeadTree(a)[s] \/ after[s] = live[a][s]
  BY DEF Restored
<1> HIDE DEF after
<1>4. live' = [live EXCEPT ![a] = after] /\ live'[a] = after
  BY AccountTypes DEF Restore, after
<1>5. /\ touched' = [touched EXCEPT ![a] = @ \cap apart]
      /\ left' = [left EXCEPT ![a] = (@ \cup {}) \cap apart]
  BY DEF Restore, Settled, after
<1>6. touched'[a] = touched[a] \cap apart /\ left'[a] = left[a] \cap apart
  BY <1>5, AccountTypes
<1>7. Only(a)
  BY <1>1, <1>2, <1>4, <1>5, <1>6, AccountTypes DEF Only
<1>8. HeadTree(a)' = HeadTree(a) /\ UNCHANGED <<tip, tracking>>
  BY <1>1 DEF repos, HeadTree, TreeOf
<1>9. Own(a)' = Own(a) \cap apart
  BY <1>6 DEF Own
<1>10. Good(a)'
  BY <1>1, <1>3, <1>4, <1>8, <1>9 DEF Good, Inv, Idle
<1> QED BY <1>7, <1>10, OnlyStep

LEMMA WriteRecordsStep == ASSUME Inv, NEW a \in Accounts, WriteRecords(a) PROVE Inv'
<1>1. /\ UNCHANGED <<repos, index, budget, ghosts>> /\ job[a] = "records"
      /\ job'[a] = "index" /\ job' = [job EXCEPT ![a] = job'[a]]
      /\ live'[a] = Written(HeadTree(a), live[a])
  BY AccountTypes DEF WriteRecords, Go
<1>2. tip[a] # 0 /\ HeadTree(a) \in Tree
  BY <1>1, AccountTypes DEF Inv, Good
<1>3. live'[a] \in Tree
  BY <1>1, <1>2, AccountTypes, TreesWritten
<1>4. \A s \in Records : Visited(HeadTree(a), s) => live'[a][s] = HeadTree(a)[s]
  BY <1>1 DEF Written
<1>5. Only(a)
  BY <1>1, <1>3, AccountTypes DEF Only, ghosts, WriteRecords
<1>6. HeadTree(a)' = HeadTree(a) /\ UNCHANGED <<tip, tracking>>
  BY <1>1 DEF repos, HeadTree, TreeOf
<1>7. \A s \in Records : Visited(HeadTree(a), s)' = Visited(HeadTree(a), s)
  BY <1>6 DEF Visited
<1>8. Good(a)'
  BY <1>1, <1>4, <1>6, <1>7 DEF Good, Inv, Idle, ghosts
<1> QED BY <1>5, <1>8, OnlyStep

LEMMA SyncIndexStep == ASSUME Inv, NEW a \in Accounts, SyncIndex(a) PROVE Inv'
<1> DEFINE H == HeadTree(a)
           more == {r \in Records : ~Visited(H, r)}
           apart == {r \in Records : live[a][r] # H[r] \/ H[r] # H[r]}
<1>1. /\ UNCHANGED <<repos, live, budget>> /\ job[a] = "index"
      /\ job'[a] = "idle" /\ job' = [job EXCEPT ![a] = job'[a]]
      /\ index'[a] = H /\ index' = [index EXCEPT ![a] = index'[a]]
      /\ torn' = torn \ {a}
  BY AccountTypes DEF SyncIndex, Go
<1>2. tip[a] # 0 /\ H \in Tree
  BY <1>1, AccountTypes DEF Inv, Good
<1>3. /\ touched' = [touched EXCEPT ![a] = @ \cap apart]
      /\ left' = [left EXCEPT ![a] = (@ \cup more) \cap apart]
  BY DEF SyncIndex, Settled
<1>4. touched'[a] = touched[a] \cap apart /\ left'[a] = (left[a] \cup more) \cap apart
  BY <1>3, AccountTypes
<1>5. Only(a)
  BY <1>1, <1>2, <1>3, <1>4, AccountTypes DEF Only
<1>6. HeadTree(a)' = HeadTree(a) /\ UNCHANGED <<tip, tracking>>
  BY <1>1 DEF repos, HeadTree, TreeOf
<1>7. \A r \in Records : live[a][r] # H[r] => r \in Own(a)'
  BY <1>1, <1>4 DEF Own, Good, Inv
<1>8. Good(a)'
  BY <1>1, <1>6, <1>7, <1>2 DEF Good, Inv, Idle
<1> QED BY <1>5, <1>8, OnlyStep

LEMMA NativeWriteStep == ASSUME Inv, NEW a \in Accounts, NativeWrite(a) PROVE Inv'
<1> DEFINE H == HeadTree(a)
           after == [r \in Records |-> IF H[r] # None THEN H[r] ELSE live[a][r]]
<1>1. /\ UNCHANGED <<repos, index, budget, ghosts>> /\ job[a] = "native"
      /\ job'[a] = "prune" /\ job' = [job EXCEPT ![a] = job'[a]]
      /\ live'[a] = after /\ live' = [live EXCEPT ![a] = live'[a]]
  BY AccountTypes DEF NativeWrite, Go
<1>2. tip[a] # 0 /\ H \in Tree
  BY <1>1, AccountTypes DEF Inv, Good
<1>3. after \in Tree
  BY <1>2, AccountTypes DEF Tree
<1>4. \A r \in Records : H[r] # None => live'[a][r] = H[r]
  BY <1>1
<1>5. Only(a)
  BY <1>1, <1>3, AccountTypes DEF Only, ghosts
<1>6. HeadTree(a)' = HeadTree(a) /\ UNCHANGED <<tip, tracking>> /\ Own(a)' = Own(a)
  BY <1>1 DEF repos, HeadTree, TreeOf, ghosts, Own
<1>7. Good(a)'
  BY <1>1, <1>4, <1>6 DEF Good, Inv, Idle, ghosts
<1> QED BY <1>5, <1>7, OnlyStep

LEMMA NativeGarblesStep ==
    ASSUME Inv, NEW a \in Accounts, NEW r \in Records, NEW v \in Values, NativeGarbles(a, r, v)
    PROVE  Inv'
<1> DEFINE H == HeadTree(a)
           after == [s \in Records |-> IF s = r THEN v
                                      ELSE IF H[s] # None THEN H[s] ELSE live[a][s]]
<1>1. /\ UNCHANGED <<repos, index, touched, torn>> /\ job[a] = "native"
      /\ job'[a] = "prune" /\ job' = [job EXCEPT ![a] = job'[a]]
      /\ live'[a] = after /\ live' = [live EXCEPT ![a] = live'[a]]
      /\ left'[a] = left[a] \cup {r} /\ left' = [left EXCEPT ![a] = left'[a]]
  BY AccountTypes DEF NativeGarbles, Go
<1>2. tip[a] # 0 /\ H \in Tree
  BY <1>1, AccountTypes DEF Inv, Good
<1>3. after \in Tree
  BY <1>2, AccountTypes DEF Tree, Held
<1>4. \A s \in Records : H[s] # None => live'[a][s] = H[s] \/ s \in left'[a]
  BY <1>1
<1>5. budget' \in 0..MaxEvents
  BY AccountTypes, ConstantsAssumption DEF NativeGarbles
<1>6. Only(a)
  BY <1>1, <1>3, <1>5, AccountTypes DEF Only
<1>7. HeadTree(a)' = HeadTree(a) /\ UNCHANGED <<tip, tracking>> /\ Own(a) \subseteq Own(a)'
  BY <1>1 DEF repos, HeadTree, TreeOf, Own
<1>8. Good(a)'
  BY <1>1, <1>4, <1>7 DEF Good, Inv, Idle
<1> QED BY <1>6, <1>8, OnlyStep

LEMMA NativePruneStep == ASSUME Inv, NEW a \in Accounts, NativePrune(a) PROVE Inv'
<1> DEFINE H == HeadTree(a)
           after == Pruned(H, live[a])
           more == {r \in Records : H[r] = None /\ (r \in Dict \/ ~Visited(H, r))}
           apart == {r \in Records : after[r] # H[r] \/ index[a][r] # H[r]}
<1>1. /\ UNCHANGED <<repos, index, budget>> /\ job[a] = "prune"
      /\ job'[a] = "idle" /\ job' = [job EXCEPT ![a] = job'[a]]
      /\ live'[a] = after /\ live' = [live EXCEPT ![a] = live'[a]]
      /\ torn' = IF index[a] = H THEN torn \ {a} ELSE torn
  BY AccountTypes DEF NativePrune, Go
<1>2. tip[a] # 0 /\ H \in Tree
  BY <1>1, AccountTypes DEF Inv, Good
<1>3. after \in Tree
  BY <1>2, AccountTypes, TreesWritten
<1>4. /\ touched' = [touched EXCEPT ![a] = @ \cap apart]
      /\ left' = [left EXCEPT ![a] = (@ \cup more) \cap apart]
  BY DEF NativePrune, Settled
<1>5. touched'[a] = touched[a] \cap apart /\ left'[a] = (left[a] \cup more) \cap apart
  BY <1>4, AccountTypes
<1>6. Only(a)
  BY <1>1, <1>3, <1>4, <1>5, AccountTypes DEF Only
<1>7. HeadTree(a)' = HeadTree(a) /\ UNCHANGED <<tip, tracking>>
  BY <1>1 DEF repos, HeadTree, TreeOf
<1>8. \A r \in Records : after[r] # H[r] => r \in Own(a)'
  <2> SUFFICES ASSUME NEW r \in Records, after[r] # H[r] PROVE r \in left[a] \cup more
    BY <1>5 DEF Own
  <2>1. ~(r \in Data /\ Visited(H, r)) /\ after[r] = live[a][r]
    BY DEF Pruned
  <2>2. H[r] = None \/ r \in left[a]
    BY <1>1, <2>1 DEF Good, Inv
  <2> QED BY <2>1, <2>2 DEF Records
<1>9. a \notin torn' => \A r \in Records : index[a][r] # H[r] => r \in Own(a)'
  <2> SUFFICES ASSUME a \notin torn', NEW r \in Records, index[a][r] # H[r]
               PROVE  r \in Own(a)'
    OBVIOUS
  <2>1. a \notin torn
    BY <1>1
  <2>2. r \in Own(a)
    BY <1>1, <2>1 DEF Good, Inv
  <2> QED BY <2>2, <1>5 DEF Own
<1>10. Good(a)'
  BY <1>1, <1>2, <1>7, <1>8, <1>9 DEF Good, Inv, Idle
<1> QED BY <1>6, <1>10, OnlyStep

LEMMA KillStep == ASSUME Inv, NEW a \in Accounts, Kill(a) PROVE Inv'
<1>1. /\ UNCHANGED <<repos, index, live, touched, left>> /\ job[a] # "idle"
      /\ job'[a] = "idle" /\ job' = [job EXCEPT ![a] = job'[a]]
      /\ torn' = torn \cup {a}
  BY AccountTypes DEF Kill
<1>2. budget' \in 0..MaxEvents
  BY AccountTypes, ConstantsAssumption DEF Kill
<1>3. Only(a)
  BY <1>1, <1>2, AccountTypes DEF Only
<1>4. UNCHANGED <<tip, tracking>>
  BY <1>1 DEF repos
<1>5. Good(a)'
  BY <1>1, <1>4 DEF Good, Inv, Idle
<1> QED BY <1>3, <1>5, OnlyStep

LEMMA CommitStep == ASSUME Inv, NEW a \in Accounts, Commit(a) PROVE Inv' /\ Grown
<1> DEFINE apart == {r \in Records : live[a][r] # index[a][r] \/ index[a][r] # index[a][r]}
<1>1. /\ UNCHANGED <<remote, tracking, index, live, job, budget, torn>> /\ Idle(a)
      /\ Record(a, index[a], {tip[a]})
  BY DEF Commit
<1>2. index[a] \in Tree /\ {tip[a]} \in SUBSET Numbers /\ TypeOK /\ Closed
  BY <1>1, TreesCommitted DEF Inv, Idle
<1>3. Grown
  BY <1>1, <1>2, RecordedGrown
<1>4. /\ tip' = [tip EXCEPT ![a] = Len(commits')] /\ tip'[a] = Len(commits')
      /\ HeadTree(a)' = index[a] /\ Len(commits') = Len(commits) + 1
  BY <1>1, <1>2, Recorded
<1>5. /\ Len(commits) \in Nat /\ Len(commits') \in Nat
      /\ \A m \in 0..Len(commits) : m \in 0..Len(commits')
      /\ \A m \in 1..Len(commits) : m \in 1..Len(commits')
  BY <1>2, <1>4 DEF TypeOK
<1>6. /\ touched' = [touched EXCEPT ![a] = @ \cap apart]
      /\ left' = [left EXCEPT ![a] = (@ \cup {}) \cap apart]
  BY DEF Commit, Settled
<1>7. touched'[a] = touched[a] \cap apart /\ left'[a] = left[a] \cap apart
  BY <1>6, AccountTypes
<1>8. TypeOK'
  <2>1. tip' \in [Accounts -> 0..Len(commits')] /\ tracking' \in [Accounts -> 0..Len(commits')]
    BY <1>1, <1>4, <1>5, <1>2 DEF TypeOK
  <2>2. remote' \in 0..Len(commits')
    BY <1>1, <1>2, <1>5 DEF TypeOK
  <2>3. touched' \in [Accounts -> SUBSET Records] /\ left' \in [Accounts -> SUBSET Records]
    BY <1>6, <1>7, AccountTypes
  <2>4. /\ index' \in [Accounts -> Tree] /\ live' \in [Accounts -> Tree]
        /\ job' \in [Accounts -> {"idle", "records", "index", "native", "prune", "hung"}]
        /\ budget' \in 0..MaxEvents /\ torn' \subseteq Accounts
    BY <1>1, AccountTypes
  <2> QED BY <1>3, <2>1, <2>2, <2>3, <2>4 DEF TypeOK, Grown
<1>9. ASSUME NEW b \in Accounts, b # a PROVE Good(b)'
  <2>1. tip'[b] = tip[b] /\ touched'[b] = touched[b] /\ left'[b] = left[b]
    BY <1>4, <1>6, <1>9, <1>2 DEF TypeOK
  <2>2. tip[b] # 0 => HeadTree(b)' = HeadTree(b)
    BY <2>1, <1>2, <1>3 DEF Grown, HeadTree, TreeOf, Numbers, TypeOK
  <2>3. Same(b)
    BY <2>1, <2>2, <1>1 DEF Same
  <2> QED BY <2>3, SameStaysGood DEF Inv
<1>10. Good(a)'
  <2>1. tip'[a] # 0 /\ job'[a] = "idle"
    BY <1>1, <1>4, <1>5 DEF Good, Inv, Idle
  <2>2. \A r \in apart : a \notin torn => r \in Own(a)
    BY <1>1 DEF Good, Inv
  <2>3. \A r \in Records : live[a][r] # HeadTree(a)'[r] => r \in apart
    BY <1>4
  <2>4. \A r \in apart : r \in Own(a) => r \in Own(a)'
    BY <1>7 DEF Own
  <2> QED BY <1>1, <1>4, <2>1, <2>2, <2>3, <2>4 DEF Good, Idle
<1> QED BY <1>3, <1>8, <1>9, <1>10 DEF Inv, Grown

LEMMA CloneStep == ASSUME Inv, NEW a \in Accounts, Clone(a) PROVE Inv'
<1>1. /\ UNCHANGED <<commits, remote, job, budget, touched, left, torn>> /\ tip[a] = 0
      /\ tip' = [tip EXCEPT ![a] = remote] /\ tracking' = [tracking EXCEPT ![a] = remote]
      /\ index' = [index EXCEPT ![a] = TreeOf(remote)]
      /\ live' = [live EXCEPT ![a] = TreeOf(remote)]
  BY DEF Clone, ghosts
<1> remote # 0
  BY DEF Clone
<1>2. remote \in Numbers /\ TreeOf(remote) \in Tree /\ remote \in 0..Len(commits) /\ remote # 0
  BY TreesCommitted DEF Inv, TypeOK, Numbers
<1>3. TypeOK'
  <2>1. tip' \in [Accounts -> 0..Len(commits)] /\ tracking' \in [Accounts -> 0..Len(commits)]
    BY <1>1, <1>2 DEF Inv, TypeOK
  <2>2. index' \in [Accounts -> Tree] /\ live' \in [Accounts -> Tree]
    BY <1>1, <1>2 DEF Inv, TypeOK
  <2> QED BY <1>1, <2>1, <2>2 DEF Inv, TypeOK
<1>4. Closed'
  BY <1>1 DEF Inv, Closed, Numbers, AncOf
<1>5. ASSUME NEW b \in Accounts, b # a PROVE Good(b)'
  <2>1. Same(b)
    BY <1>1, <1>5 DEF Same, HeadTree, TreeOf, Inv, TypeOK
  <2> QED BY <2>1, SameStaysGood DEF Inv
<1>6. Good(a)'
  <2>1. /\ tip'[a] = remote /\ tracking'[a] = remote /\ index'[a] = TreeOf(remote)
        /\ live'[a] = TreeOf(remote)
    BY <1>1 DEF Inv, TypeOK
  <2>2. HeadTree(a)' = TreeOf(remote)
    BY <2>1, <1>1 DEF HeadTree, TreeOf
  <2>3. job'[a] = "idle"
    BY <1>1 DEF Good, Inv
  <2> QED BY <2>1, <2>2, <2>3, <1>2 DEF Good, Idle
<1> QED BY <1>3, <1>4, <1>5, <1>6 DEF Inv

\* Fetch and push move only what says where the remote's branch is.
LEMMA RefsStep ==
    ASSUME Inv, NEW a \in Accounts, tip[a] # 0, NEW c \in 0..Len(commits),
           UNCHANGED <<commits, tip, index, live, job, ghosts>>, budget' \in 0..MaxEvents,
           remote' \in 0..Len(commits), tracking' = [tracking EXCEPT ![a] = c]
    PROVE  Inv'
<1>1. TypeOK'
  <2>1. tracking' \in [Accounts -> 0..Len(commits)]
    BY DEF Inv, TypeOK
  <2> QED BY <2>1 DEF Inv, TypeOK, ghosts
<1>2. Closed'
  BY DEF Inv, Closed, Numbers, AncOf
<1>3. ASSUME NEW b \in Accounts PROVE Good(b)'
  <2>1. tip[b] = 0 => tracking'[b] = tracking[b]
    BY DEF Inv, TypeOK
  <2>2. Same(b)
    BY <2>1 DEF Same, HeadTree, TreeOf, ghosts
  <2> QED BY <2>2, SameStaysGood DEF Inv
<1> QED BY <1>1, <1>2, <1>3 DEF Inv

LEMMA FetchStep == ASSUME Inv, NEW a \in Accounts, Fetch(a) PROVE Inv'
<1>1. remote \in 0..Len(commits) /\ budget \in 0..MaxEvents
  BY DEF Inv, TypeOK
<1>2. remote # 0 /\ tracking' = [tracking EXCEPT ![a] = remote]
  BY DEF Fetch, Fetched
<1> QED BY <1>1, <1>2, RefsStep DEF Fetch, Idle

LEMMA PushStep ==
    ASSUME Inv, NEW a \in Accounts,
           Push(a) \/ PushDeletion(a) \/ \E c \in 1..Len(commits) : PushForced(a, c)
    PROVE  Inv'
<1>1. PICK c \in 0..Len(commits) : Pushed(a, c)
  BY TreesCommitted DEF Push, PushDeletion, PushForced, Pushed, Idle, Inv, TypeOK, Numbers
<1>2. budget' \in 0..MaxEvents
  BY ConstantsAssumption DEF Push, PushDeletion, PushForced, Asked, Inv, TypeOK
<1> QED BY <1>1, <1>2, RefsStep DEF Pushed, Idle, ghosts

\* The steps that merge: what they do to their account, and the rest.
LEMMA MergingMoves ==
    ASSUME Inv, NEW a \in Accounts,
           \/ Merge(a) \/ Pull(a) \/ PullFails(a)
           \/ \E c \in Numbers : CherryPick(a, c)
    PROVE  /\ Moved(a) /\ Idle(a)
           /\ UNCHANGED <<remote, live, budget, ghosts>>
           /\ UNCHANGED tracking \/ tracking' = Fetched(a)
<1>1. TypeOK /\ Closed
  BY DEF Inv
<1>2. /\ Idle(a) => tip[a] \in Numbers
      /\ tracking[a] # 0 => tracking[a] \in Numbers
  BY TreesCommitted DEF Inv, Good, Idle, TypeOK, Numbers
<1>3. Fetched(a)[a] # 0 => Fetched(a)[a] \in Numbers
  BY DEF Inv, TypeOK, Numbers, Fetched
<1>4. CASE Merge(a)
  BY <1>1, <1>2, <1>4, MergeMoves DEF Merge
<1>5. CASE Pull(a)
  <2>1. /\ Idle(a) /\ MergeIntoHead(a, Fetched(a)[a], a \notin Verb)
        /\ Fetched(a)[a] # 0
    BY <1>5 DEF Pull
  <2>2. Moved(a)
    BY <1>1, <1>3, <2>1, MergeMoves
  <2> QED BY <1>5, <2>1, <2>2 DEF Pull
<1>6. CASE PullFails(a)
  BY <1>1, <1>6, ReportsMoved DEF PullFails
<1>7. ASSUME NEW c \in Numbers, CherryPick(a, c)
      PROVE  /\ Moved(a) /\ Idle(a)
             /\ UNCHANGED <<remote, tracking, live, budget, ghosts>>
  <2>1. PICK parent \in commits[c].parents :
           FinishMerge(a, TreeOf(parent), TreeOf(c), {tip[a]})
    BY <1>7 DEF CherryPick
  <2>2. parent \in Numbers
    BY <1>1, <2>1 DEF TypeOK, Numbers
  <2>3. Idle(a) /\ TreeOf(parent) \in Tree /\ TreeOf(c) \in Tree /\ {tip[a]} \in SUBSET Numbers
    BY <1>1, <1>2, <1>7, <2>2, TreesCommitted DEF CherryPick
  <2> QED BY <1>1, <1>7, <2>1, <2>3, FinishMergeMoves DEF CherryPick
<1> QED BY <1>4, <1>5, <1>6, <1>7

-----------------------------------------------------------------------------
LEMMA InitInv == Init => Inv
<1> SUFFICES ASSUME Init PROVE Inv
  OBVIOUS
<1>1. PICK v \in Values :
      /\ commits = <<[tree |-> [r \in Records |-> v], parents |-> {}, anc |-> {1}]>>
      /\ remote = 1 /\ torn = {} /\ budget = MaxEvents
      /\ tip = [a \in Accounts |-> IF a = First THEN 1 ELSE 0] /\ tracking = tip
      /\ index = [a \in Accounts |-> IF a = First THEN [r \in Records |-> v] ELSE Empty]
      /\ live = index /\ job = [a \in Accounts |-> "idle"]
      /\ touched = [a \in Accounts |-> {}] /\ left = [a \in Accounts |-> {}]
  BY DEF Init
<1> DEFINE tree == [r \in Records |-> v]
           Commits == [tree : Tree, parents : SUBSET Nat, anc : SUBSET Nat]
           first == [tree |-> tree, parents |-> {}, anc |-> {1}]
<1>2. tree \in Tree /\ Empty \in Tree
  BY DEF Tree, Held, Empty
<1>3. first \in Commits
  BY <1>2
<1> HIDE DEF Commits
<1>4. commits = <<first>>
  BY <1>1
<1> HIDE DEF first
<1>5. commits \in Seq(Commits) /\ Len(commits) = 1 /\ commits[1] = first
  BY <1>3, <1>4
<1>6. first.tree = tree /\ first.parents = {} /\ first.anc = {1}
  BY DEF first
<1>7. commits \in Seq([tree : Tree, parents : SUBSET Nat, anc : SUBSET Nat])
  BY <1>5 DEF Commits
<1>8. TypeOK
  <2>1. /\ tip \in [Accounts -> 0..Len(commits)] /\ tracking \in [Accounts -> 0..Len(commits)]
        /\ remote \in 0..Len(commits)
    BY <1>1, <1>5
  <2>2. index \in [Accounts -> Tree] /\ live \in [Accounts -> Tree]
    BY <1>1, <1>2
  <2>3. \A c \in 1..Len(commits) :
           /\ commits[c].parents \subseteq 1..(c - 1)
           /\ c \in commits[c].anc /\ commits[c].anc \subseteq 1..c
    BY <1>5, <1>6
  <2>4. budget \in 0..MaxEvents
    BY <1>1, ConstantsAssumption
  <2> QED BY <1>1, <1>7, <2>1, <2>2, <2>3, <2>4 DEF TypeOK
<1>9. Closed
  BY <1>5, <1>6 DEF Closed, Numbers, AncOf
<1>10. \A a \in Accounts : Good(a)
  BY <1>1, <1>5, <1>6 DEF Good, Idle, HeadTree, TreeOf
<1> QED BY <1>8, <1>9, <1>10 DEF Inv

LEMMA NextInv == Inv /\ [Next]_vars => Inv'
<1> SUFFICES ASSUME Inv, [Next]_vars PROVE Inv'
  OBVIOUS
<1>1. CASE UNCHANGED vars
  BY <1>1 DEF vars, repos, ghosts, Inv, TypeOK, Closed, Good, Numbers, AncOf, HeadTree,
              TreeOf, Visited, Own, Idle
<1>2. ASSUME NEW a \in Accounts, Local(a) PROVE Inv'
  <2>1. ASSUME NEW r \in Records, NEW v \in Held, Write(a, r, v) PROVE Inv'
    BY <2>1, WriteStep
  <2>2. CASE AddAll(a) \/ \E r \in Records : AddRecord(a, r)
    BY <2>2, AddStep
  <2>3. CASE Commit(a)
    BY <2>3, CommitStep
  <2>4. CASE CheckOut(a)
    BY <2>4, CheckOutStep
  <2>5. ASSUME NEW half \in {Data, Dict}, Restore(a, half) PROVE Inv'
    BY <2>5, RestoreStep
  <2> QED BY <1>2, <2>1, <2>2, <2>3, <2>4, <2>5 DEF Local
<1>3. ASSUME NEW a \in Accounts, History(a) PROVE Inv'
  <2>1. CASE Merge(a) \/ Pull(a) \/ PullFails(a) \/ \E c \in 1..Len(commits) : CherryPick(a, c)
    BY <2>1, MergingMoves, MovedStep DEF Numbers
  <2>2. CASE Fetch(a)
    BY <2>2, FetchStep
  <2>3. CASE Push(a) \/ PushDeletion(a) \/ \E c \in 1..Len(commits) : PushForced(a, c)
    BY <2>3, PushStep
  <2>4. CASE Clone(a)
    BY <2>4, CloneStep
  <2> QED BY <1>3, <2>1, <2>2, <2>3, <2>4 DEF History
<1>4. ASSUME NEW a \in Accounts, Progress(a) PROVE Inv'
  BY <1>4, WriteRecordsStep, SyncIndexStep, NativeWriteStep, NativeGarblesStep,
     NativePruneStep, KillStep
     DEF Progress
<1> QED BY <1>1, <1>2, <1>3, <1>4 DEF Next

\* The types of Exchange.
THEOREM TypeCorrect == Spec => []TypeOK
<1>1. Inv => TypeOK
  BY DEF Inv
<1> QED BY <1>1, InitInv, NextInv, PTL DEF Spec

\* An account between two commands differs from its tip only in what its own user has
\* changed and in what a write-back does not reach: merge_into_head, sync_index,
\* GITUDT.CHECKOUT, GITCOMMIT.
THEOREM OwnChanges == Spec => []OwnChangesOnly
<1>1. Inv => OwnChangesOnly
  BY DEF Inv, OwnChangesOnly, Good, Own
<1> QED BY <1>1, InitInv, NextInv, PTL DEF Spec

\* No command takes a commit out of an account's branch, and only a push that says so
\* out of the remote's: merge_fast_forward, finish_merge, GITCOMMIT, GITPUSH.
THEOREM HistoryStays == Spec => HistoryKept
<1> DEFINE Kept == /\ \A a \in Accounts : tip[a] # 0 => AncOf(tip[a]) \subseteq AncOf(tip[a])'
                   /\ \/ remote # 0 => remote' # 0 /\ AncOf(remote) \subseteq AncOf(remote)'
                      \/ \E a \in Accounts :
                            PushDeletion(a) \/ \E c \in 1..Len(commits) : PushForced(a, c)
<1>1. Inv /\ [Next]_vars => [Kept]_vars
  <2> SUFFICES ASSUME Inv, Next PROVE Kept
    OBVIOUS
  <2>types. /\ TypeOK /\ Closed /\ (remote # 0 => remote \in Numbers)
            /\ \A a \in Accounts : tip[a] # 0 => tip[a] \in Numbers
    BY TreesCommitted DEF Inv, TypeOK, Numbers
  <2>still. ASSUME UNCHANGED <<commits, remote, tip>> PROVE Kept
    BY <2>still DEF AncOf
  <2>moved. ASSUME NEW a \in Accounts, Grown, UNCHANGED remote,
                   tip' = [tip EXCEPT ![a] = tip'[a]], tip[a] # 0,
                   AncOf(tip[a]) \subseteq AncOf(tip[a])'
            PROVE  Kept
    <3>1. remote # 0 => AncOf(remote)' = AncOf(remote)
      BY <2>moved, <2>types DEF Grown, AncOf
    <3>2. ASSUME NEW b \in Accounts, b # a, tip[b] # 0 PROVE AncOf(tip[b])' = AncOf(tip[b])
      <4>1. tip'[b] = tip[b]
        BY <2>moved, <2>types, <3>2 DEF TypeOK
      <4> QED BY <4>1, <2>moved, <2>types, <3>2 DEF Grown, AncOf
    <3> QED BY <2>moved, <3>1, <3>2
  <2>1. ASSUME NEW a \in Accounts, Local(a) PROVE Kept
    <3>1. CASE Commit(a)
      <4>1. Grown
        BY <3>1, CommitStep
      <4>2. tip[a] # 0 /\ UNCHANGED remote /\ Record(a, index[a], {tip[a]})
        BY <3>1 DEF Commit, Idle
      <4>3. index[a] \in Tree /\ {tip[a]} \in SUBSET Numbers
        BY <4>2, <2>types, TreesCommitted
      <4>4. tip' = [tip EXCEPT ![a] = tip'[a]] /\ AncOf(tip[a]) \subseteq AncOf(tip[a])'
        BY <4>2, <4>3, <2>types, Recorded
      <4> QED BY <4>1, <4>2, <4>4, <2>moved
    <3>2. CASE ~Commit(a)
      BY <2>1, <3>2, <2>still
         DEF Local, Write, AddAll, AddRecord, CheckOut, Restore, repos
    <3> QED BY <3>1, <3>2
  <2>2. ASSUME NEW a \in Accounts, History(a) PROVE Kept
    <3>1. CASE Merge(a) \/ Pull(a) \/ PullFails(a)
                 \/ \E c \in 1..Len(commits) : CherryPick(a, c)
      <4>1. Moved(a) /\ Idle(a) /\ UNCHANGED remote
        BY <3>1, MergingMoves DEF Numbers
      <4> QED BY <4>1, <2>moved DEF Moved, Idle
    <3>2. CASE Fetch(a)
      BY <3>2, <2>still DEF Fetch
    <3>3. CASE Push(a)
      <4>1. tip[a] # 0 /\ tip[a] \in Numbers /\ (remote # 0 => remote \in AncOf(tip[a]))
        BY <3>3, <2>types DEF Push, Pushed, Idle
      <4>2. remote # 0 => AncOf(remote) \subseteq AncOf(tip[a])
        BY <4>1, <2>types DEF Closed
      <4>3. UNCHANGED <<commits, tip>> /\ remote' = tip[a]
        BY <3>3 DEF Push, Pushed
      <4> QED BY <4>1, <4>2, <4>3 DEF AncOf
    <3>5. CASE PushDeletion(a) \/ \E c \in 1..Len(commits) : PushForced(a, c)
      <4>1. UNCHANGED <<commits, tip>>
        BY <3>5 DEF PushDeletion, PushForced, Pushed
      <4> QED BY <3>5, <4>1 DEF AncOf
    <3>4. CASE Clone(a)
      <4>1. \A b \in Accounts : tip[b] # 0 => tip'[b] = tip[b]
        BY <3>4, <2>types DEF Clone, TypeOK
      <4> QED BY <3>4, <4>1 DEF Clone, AncOf
    <3> QED BY <2>2, <3>1, <3>2, <3>3, <3>4, <3>5 DEF History
  <2>3. ASSUME NEW a \in Accounts, Progress(a) PROVE Kept
    BY <2>3, <2>still
       DEF Progress, WriteRecords, SyncIndex, NativeWrite, NativeGarbles, NativePrune, Kill,
           repos
  <2> QED BY <2>1, <2>2, <2>3 DEF Next
<1> QED BY <1>1, InitInv, NextInv, PTL DEF Spec, HistoryKept

=============================================================================
