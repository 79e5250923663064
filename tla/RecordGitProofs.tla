-------------------------- MODULE RecordGitProofs --------------------------
(***************************************************************************)
(* What TLAPS proves about RecordGit, for every account, every set of      *)
(* files, ids, values and branches, and any bound on the commits.          *)
(*                                                                         *)
(* What a wholesale add does to one record is stated once (the lemmas      *)
(* about StageAll) and used for both of its promises: that deleted data    *)
(* does not return, and that status agrees with it.  The typing invariant  *)
(* and the growth of the history follow, and what a write-back achieves    *)
(* although it may die before any of its steps (Written and what is with   *)
(* it in IInv).                                                            *)
(***************************************************************************)
EXTENDS RecordGit, TLAPS, SequenceTheorems

-----------------------------------------------------------------------------
(* What a wholesale add leaves in the index.                               *)

\* A record is a git path and no file's control; its directory is a file's or
\* the VOC's.
LEMMA RecordPaths ==
    ASSUME NEW p \in Records
    PROVE  /\ p \in GitPaths /\ p \notin Controls
           /\ DirOf(p) \in Dirs /\ DirOf(p)[1] = p[1]
           /\ p[1] \in Files \cup {VOC}
           /\ p[1] = VOC => InVoc(p) /\ p[3] \in VocIds \cup Files
           /\ p[2] \in {"data", "dict"}
<1>1. p \in GitPaths
  BY DEF GitPaths
<1>2. p \notin Controls
  BY ConstantsAssumption DEF Records, Controls, ControlOf
<1>3. DirOf(p) \in Dirs /\ DirOf(p)[1] = p[1]
  BY <1>1 DEF Dirs, DirOf
<1>4. p[1] \in Files \cup {VOC} /\ p[2] \in {"data", "dict"}
  BY DEF Records
<1>5. p[1] = VOC => InVoc(p) /\ p[3] \in VocIds \cup Files
  BY ConstantsAssumption DEF Records, InVoc
<1> QED
  BY <1>1, <1>2, <1>3, <1>4, <1>5

\* Nothing is left of a record of a file the VOC does not name.
LEMMA UnlistedLeaves ==
    ASSUME NEW ix, NEW p \in Records, p[1] \notin Listed \cup {VOC}
    PROVE  StageAll(ix)[p] = None
<1> DEFINE dirs   == {d \in Dirs : d[1] \in Listed \cup {VOC}}
           disked == DiskPass(ix)
           staged == StageFiles(disked, dirs)
           ruled  == StageControls(staged)
<1>1. disked[p] = None
  BY RecordPaths DEF DiskPass
<1>2. staged[p] = None
  BY <1>1, RecordPaths DEF StageFiles
<1>3. ruled[p] = None
  BY <1>2, RecordPaths DEF StageControls
<1>4. Prune(ruled)[p] = None
  BY <1>3, RecordPaths DEF Prune
<1> QED
  BY <1>4 DEF StageAll

\* A record of a listed file goes through the passes as the record pass leaves
\* it.
LEMMA ListedStaged ==
    ASSUME NEW ix, NEW p \in Records, CanOpen(p[1])
    PROVE  \/ live[p] = None /\ StageAll(ix)[p] = None
           \/ live[p] # None /\ AddSkips(p)
           \/ live[p] # None /\ StageAll(ix)[p] = live[p]
<1> DEFINE dirs   == {d \in Dirs : d[1] \in Listed \cup {VOC}}
           disked == DiskPass(ix)
           staged == StageFiles(disked, dirs)
           ruled  == StageControls(staged)
<1>1. p[1] \in Listed \cup {VOC}
  BY DEF CanOpen
<1>2. DirOf(p) \in dirs
  BY <1>1, RecordPaths
<1>3. staged[p] = IF live[p] = None THEN None
                  ELSE IF AddSkips(p) THEN disked[p] ELSE live[p]
  BY <1>2, RecordPaths DEF StageFiles
<1>4. ruled[p] = staged[p]
  BY RecordPaths DEF StageControls
<1>5. ~TrackedGone(ruled, p[1])
  BY <1>1, ConstantsAssumption DEF TrackedGone
<1>6. Prune(ruled)[p] = ruled[p]
  BY <1>5, RecordPaths DEF Prune
<1> QED
  BY <1>3, <1>4, <1>6 DEF StageAll

-----------------------------------------------------------------------------
\* After a wholesale add the index holds no record the account has lost
\* (GITADDALL), whatever was in the index, the account and the ignore lists.
THEOREM LostRecordsLeave == Spec => DeletedStaysDeleted
<1>1. ASSUME AddAll
      PROVE  \A p \in Records : index'[p] # None => Present(p) \/ p[1] \in Listed \ disk
  <2> SUFFICES ASSUME NEW p \in Records, index'[p] # None, ~Present(p)
               PROVE  p[1] \in Listed \ disk
    OBVIOUS
  <2>1. StageAll(index)[p] # None
    BY <1>1 DEF AddAll
  <2>2. p[1] \in Listed \cup {VOC}
    BY <2>1, UnlistedLeaves
  <2>3. ~CanOpen(p[1])
    BY <2>1, ListedStaged DEF Present
  <2> QED
    BY <2>2, <2>3 DEF CanOpen
<1> QED
  BY <1>1, PTL DEF DeletedStaysDeleted, Spec

-----------------------------------------------------------------------------
\* What status reads of the account is what add has read.
LEMMA SameAccount ==
    ASSUME UNCHANGED account, NEW p \in Records
    PROVE  /\ Listed' = Listed
           /\ CanOpen(p[1])' <=> CanOpen(p[1])
           /\ Present(p)' <=> Present(p)
           /\ IsObject(p)' <=> IsObject(p)
           /\ IsStockRecord(p)' <=> IsStockRecord(p)
           /\ live'[p] = live[p]
<1>1. live' = live /\ disk' = disk
  BY DEF account
<1>2. Listed' = Listed
  BY <1>1 DEF Listed
<1> QED
  BY <1>1, <1>2 DEF CanOpen, Present, IsObject, IsStockRecord

\* After a wholesale add status shows nothing that add would not take (GITADD,
\* GITSTATUS), for every kind of VOC record, object and ignore list, but the
\* tracked records that StaysModified names.
THEOREM StatusAgreesWithAdd == Spec => AddAllSettles
<1>1. ASSUME AddAll PROVE Untracked' = {}
  <2> SUFFICES ASSUME NEW p \in Untracked' PROVE FALSE
    OBVIOUS
  <2>1. UNCHANGED account /\ index' = StageAll(index)
    BY <1>1 DEF AddAll
  <2>2. /\ p \in Records /\ StatusWalks(p)' /\ index'[p] = None
        /\ p \notin ignored /\ ~IsProvision(p)
    BY <2>1 DEF Untracked, Tracked, IsProvision, InVoc, account
  <2>3. Present(p) /\ ~IsObject(p)
    BY <2>1, <2>2, SameAccount DEF StatusWalks
  <2>4. InVoc(p) => /\ ClassOf(p[3]) # 1
                    /\ ClassOf(p[3]) = 2 => p[3] \notin Furniture \cup Listed
                    /\ ~IsStockRecord(p)
    BY <2>1, <2>2, SameAccount DEF StatusWalks, InVoc, ClassOf, Tracked
  <2>5. ~AddSkips(p)
    BY <2>2, <2>3, <2>4 DEF AddSkips
  <2> QED
    BY <2>1, <2>2, <2>3, <2>5, ListedStaged DEF Present
<1>2. ASSUME AddAll PROVE Deleted' = {}
  <2> SUFFICES ASSUME NEW p \in Deleted' PROVE FALSE
    OBVIOUS
  <2>1. UNCHANGED account /\ index' = StageAll(index)
    BY <1>2 DEF AddAll
  <2>2. Listed' = Listed
    BY <2>1 DEF Listed, account
  <2>3. ~TrackedGone(index, p[1])'
    <3> SUFFICES ASSUME p[1] \in Files \ Listed, NEW q \in Records, q[1] = p[1],
                        index'[q] # None
                 PROVE  FALSE
      BY <2>2 DEF TrackedGone
    <3> QED
      BY <2>1, UnlistedLeaves, ConstantsAssumption
  <2>4. p \in Records /\ CanOpen(p[1]) /\ live[p] = None /\ index'[p] # None
    BY <2>1, <2>3, SameAccount DEF Deleted, Tracked
  <2> QED
    BY <2>1, <2>4, ListedStaged
<1>3. ASSUME AddAll PROVE \A p \in Modified' : StaysModified(p)
  <2> SUFFICES ASSUME NEW p \in Modified' PROVE StaysModified(p)
    OBVIOUS
  <2>1. UNCHANGED account /\ index' = StageAll(index)
    BY <1>3 DEF AddAll
  <2>2. p \in Records /\ Present(p) /\ index'[p] # live[p]
    BY <2>1, SameAccount DEF Modified, StatusWalks, account
  <2>3. /\ InVoc(p) => /\ ClassOf(p[3]) # 1
                       /\ ClassOf(p[3]) = 2 => p[3] \notin Furniture \cup Listed
        /\ ~IsObject(p)
    BY <2>1, SameAccount DEF Modified, StatusWalks, InVoc, ClassOf
  <2>4. AddSkips(p)
    BY <2>1, <2>2, ListedStaged DEF Present
  <2> QED
    BY <2>3, <2>4 DEF AddSkips, StaysModified
<1> QED
  BY <1>1, <1>2, <1>3, PTL DEF AddAllSettles, Spec

-----------------------------------------------------------------------------
(* Types.                                                                  *)

CommitRecord == [tree : Tree, parents : SUBSET Nat, anc : SUBSET Nat]

\* The parts of TypeOK a step may disturb, apart.
WellFormed ==
    /\ commits \in Seq(CommitRecord)
    /\ \A c \in 1..Len(commits) :
          /\ commits[c].parents \subseteq 1..(c - 1)
          /\ c \in commits[c].anc /\ commits[c].anc \subseteq 1..c
    /\ branch \in [Branches -> 0..Len(commits)]

LEMMA TypeParts ==
    TypeOK <=> /\ live \in [Records -> Held] /\ disk \subseteq Files /\ ignored \subseteq Records
               /\ index \in Tree /\ WellFormed /\ head \in Branches
               /\ job \in [pc : {"idle", "records", "files", "index"}, todo : SUBSET Dirs]
  BY DEF TypeOK, WellFormed, CommitRecord

LEMMA CommitTyped ==
    ASSUME WellFormed, NEW c \in 1..Len(commits)
    PROVE  /\ commits[c] \in CommitRecord /\ commits[c].tree \in Tree
           /\ commits[c].parents \subseteq 1..Len(commits)
           /\ commits[c].anc \subseteq 1..Len(commits)
<1>1. commits[c] \in CommitRecord
  BY ElementOfSeq DEF WellFormed
<1>2. c \in Nat /\ Len(commits) \in Nat /\ c <= Len(commits)
  BY LenProperties DEF WellFormed
<1>3. 1..(c - 1) \subseteq 1..Len(commits) /\ 1..c \subseteq 1..Len(commits)
  BY <1>2
<1> QED
  BY <1>1, <1>3 DEF CommitRecord, WellFormed

LEMMA EmptyTyped == Empty \in Tree
  BY DEF Empty, Tree, Held

LEMMA TipTyped ==
    ASSUME WellFormed, head \in Branches
    PROVE  /\ HeadTree \in Tree
           /\ \A b \in Branches : branch[b] # 0 => branch[b] \in 1..Len(commits)
<1>1. \A b \in Branches : branch[b] \in 0..Len(commits)
  BY DEF WellFormed
<1>2. Len(commits) \in Nat
  BY LenProperties DEF WellFormed
<1>3. \A b \in Branches : branch[b] # 0 => branch[b] \in 1..Len(commits)
  BY <1>1, <1>2
<1> QED
  BY <1>3, CommitTyped, EmptyTyped DEF HeadTree

LEMMA DirsTyped == \A tree : DirsIn(tree) \subseteq Dirs
  BY DEF DirsIn, Dirs

\* Staging makes a tree of a tree.
LEMMA StagedTyped ==
    ASSUME NEW ix \in Tree, live \in [Records -> Held], NEW dirs
    PROVE  /\ StageFiles(ix, dirs) \in Tree /\ DiskPass(ix) \in Tree
           /\ StageControls(ix) \in Tree /\ Prune(ix) \in Tree
<1>1. None \in Held /\ Control \in Held
  BY DEF Held
<1>2. \A p \in GitPaths : ix[p] \in Held
  BY DEF Tree
<1>3. \A p \in Records : live[p] \in Held
  OBVIOUS
<1>4. StageFiles(ix, dirs) \in Tree
  BY <1>1, <1>2, <1>3 DEF StageFiles, Tree
<1>5. DiskPass(ix) \in Tree
  BY <1>1, <1>2 DEF DiskPass, Tree
<1>6. StageControls(ix) \in Tree
  BY <1>1, <1>2 DEF StageControls, Tree
<1>7. Prune(ix) \in Tree
  BY <1>1, <1>2 DEF Prune, Tree
<1> QED
  BY <1>4, <1>5, <1>6, <1>7

LEMMA StageAllTyped ==
    ASSUME NEW ix \in Tree, live \in [Records -> Held]
    PROVE  StageAll(ix) \in Tree
<1> DEFINE dirs == {d \in Dirs : d[1] \in Listed \cup {VOC}}
<1>1. DiskPass(ix) \in Tree
  BY StagedTyped
<1>2. StageFiles(DiskPass(ix), dirs) \in Tree
  BY <1>1, StagedTyped
<1>3. StageControls(StageFiles(DiskPass(ix), dirs)) \in Tree
  BY <1>2, StagedTyped
<1> HIDE DEF dirs
<1>4. Prune(StageControls(StageFiles(DiskPass(ix), dirs))) \in Tree
  BY <1>3, StagedTyped
<1> QED
  BY <1>4 DEF StageAll, dirs

\* A commit on top of known ones keeps the history well formed, and every
\* ancestor of its parents is an ancestor of it.
LEMMA RecordTyped ==
    ASSUME WellFormed, head \in Branches, NEW tree \in Tree,
           NEW parents \in SUBSET (1..Len(commits)), Record(tree, parents)
    PROVE  /\ WellFormed'
           /\ \A c \in 1..Len(commits) : commits'[c] = commits[c]
           /\ branch'[head] = Len(commits) + 1
           /\ \A b \in Branches : b # head => branch'[b] = branch[b]
           /\ \A c \in parents : commits[c].anc \subseteq commits'[branch'[head]].anc
<1> DEFINE n   == Len(commits) + 1
           new == [tree |-> tree, parents |-> parents,
                   anc |-> {n} \cup UNION {commits[c].anc : c \in parents}]
<1>0. Len(commits) \in Nat /\ commits \in Seq(CommitRecord)
  BY LenProperties DEF WellFormed
<1>1. UNION {commits[c].anc : c \in parents} \subseteq 1..Len(commits)
  BY CommitTyped
<1>2. new \in CommitRecord /\ new.parents \subseteq 1..(n - 1)
      /\ n \in new.anc /\ new.anc \subseteq 1..n
  <2>1. new.anc = {n} \cup UNION {commits[c].anc : c \in parents}
    OBVIOUS
  <2>2. 1..Len(commits) \subseteq 1..n /\ n \in 1..n /\ 1..n \subseteq Nat /\ n - 1 = Len(commits)
    BY <1>0
  <2>3. new.anc \subseteq 1..n /\ n \in new.anc
    BY <2>1, <2>2, <1>1
  <2>4. parents \subseteq Nat
    BY <2>2
  <2> QED
    BY <2>2, <2>3, <2>4 DEF CommitRecord
<1>3. commits' = Append(commits, new) /\ branch' = [branch EXCEPT ![head] = n]
  BY DEF Record
<1> HIDE DEF new
<1>4. /\ commits' \in Seq(CommitRecord) /\ Len(commits') = n
      /\ \A c \in 1..Len(commits) : commits'[c] = commits[c]
      /\ commits'[n] = new
  BY <1>0, <1>2, <1>3, AppendProperties
<1>5. branch' \in [Branches -> 0..n] /\ branch'[head] = n
      /\ \A b \in Branches : b # head => branch'[b] = branch[b]
  <2>1. branch \in [Branches -> 0..Len(commits)] /\ 0..Len(commits) \subseteq 0..n /\ n \in 0..n
    BY <1>0 DEF WellFormed
  <2> QED
    BY <2>1, <1>3
<1>6. \A c \in 1..Len(commits') : c \in 1..Len(commits) \/ c = n
  BY <1>0, <1>4
<1>7. WellFormed'
  <2>1. \A c \in 1..Len(commits') :
           /\ commits'[c].parents \subseteq 1..(c - 1)
           /\ c \in commits'[c].anc /\ commits'[c].anc \subseteq 1..c
    BY <1>2, <1>4, <1>6 DEF WellFormed
  <2> QED
    BY <2>1, <1>4, <1>5 DEF WellFormed, CommitRecord, Tree, GitPaths, Records, Controls, Held
<1>8. \A c \in parents : commits[c].anc \subseteq new.anc
  BY DEF new
<1> QED
  BY <1>4, <1>5, <1>7, <1>8

-----------------------------------------------------------------------------
(* Each kind of step keeps the types.                                      *)

LEMMA InitTyped == Init => TypeOK
<1> SUFFICES ASSUME Init PROVE TypeOK
  OBVIOUS
<1>1. live \in [Records -> Held]
  BY ConstantsAssumption DEF Init, Held
<1>2. commits = << >> /\ commits \in Seq(CommitRecord) /\ Len(commits) = 0
  BY EmptySeq DEF Init
<1>3. WellFormed
  BY <1>2 DEF WellFormed, Init
<1>4. job \in [pc : {"idle", "records", "files", "index"}, todo : SUBSET Dirs]
  BY DEF Init, Idle
<1> QED
  BY <1>1, <1>3, <1>4, EmptyTyped, ConstantsAssumption, TypeParts DEF Init

LEMMA UserTyped == TypeOK /\ User => TypeOK'
<1> SUFFICES ASSUME TypeOK, User PROVE TypeOK'
  OBVIOUS
<1>0. /\ live \in [Records -> Held] /\ disk \subseteq Files /\ ignored \subseteq Records
      /\ index \in Tree /\ WellFormed /\ head \in Branches
      /\ job \in [pc : {"idle", "records", "files", "index"}, todo : SUBSET Dirs]
  BY TypeParts
<1>1. /\ live' \in [Records -> Held] /\ disk' \subseteq Files /\ ignored' \subseteq Records
      /\ UNCHANGED <<index, history, job>>
  <2>1. ASSUME NEW p \in Records, NEW v \in Values, WriteRecord(p, v)
        PROVE  live' \in [Records -> Held] /\ UNCHANGED <<disk, ignored, index, history, job>>
    BY <2>1, <1>0 DEF WriteRecord, Held
  <2>2. ASSUME NEW p \in Records, DeleteRecord(p)
        PROVE  live' \in [Records -> Held] /\ UNCHANGED <<disk, ignored, index, history, job>>
    BY <2>2, <1>0 DEF DeleteRecord, Held
  <2>3. ASSUME NEW f \in Files, CreateFile(f)
        PROVE  /\ live' \in [Records -> Held] /\ disk' \subseteq Files
               /\ UNCHANGED <<ignored, index, history, job>>
    BY <2>3, <1>0 DEF CreateFile, Held
  <2>4. ASSUME NEW f \in Files, DeleteFile(f)
        PROVE  /\ live' \in [Records -> Held] /\ disk' \subseteq Files
               /\ UNCHANGED <<ignored, index, history, job>>
    BY <2>4, <1>0 DEF DeleteFile, Without, Held
  <2>5. ASSUME NEW p \in Named, ToggleIgnore(p)
        PROVE  ignored' \subseteq Records /\ UNCHANGED <<live, disk, index, history, job>>
    BY <2>5, <1>0, ConstantsAssumption DEF ToggleIgnore
  <2> QED
    BY <1>0, <2>1, <2>2, <2>3, <2>4, <2>5 DEF User
<1>2. WellFormed'
  BY <1>0, <1>1 DEF WellFormed, history
<1> QED
  BY <1>0, <1>1, <1>2, TypeParts DEF TypeOK, WellFormed, CommitRecord, history

LEMMA StageStepTyped == TypeOK /\ Stage => TypeOK'
<1> SUFFICES ASSUME TypeOK, Stage PROVE TypeOK'
  OBVIOUS
<1>0. index \in Tree /\ live \in [Records -> Held] /\ None \in Held
      /\ \A p \in GitPaths : index[p] \in Held
  BY DEF TypeOK, Held, Tree
<1>1. index' \in Tree /\ UNCHANGED <<account, history, job>>
  <2>1. ASSUME AddAll PROVE index' \in Tree /\ UNCHANGED <<account, history, job>>
    BY <2>1, <1>0, StageAllTyped DEF AddAll
  <2>2. ASSUME NEW d \in Dirs, AddFile(d)
        PROVE  index' \in Tree /\ UNCHANGED <<account, history, job>>
    BY <2>2, <1>0, StagedTyped DEF AddFile
  <2>3. ASSUME NEW d \in Dirs, RmFile(d)
        PROVE  index' \in Tree /\ UNCHANGED <<account, history, job>>
    BY <2>3, <1>0 DEF RmFile, Tree
  <2>4. ASSUME NEW p \in Named, AddRecord(p)
        PROVE  index' \in Tree /\ UNCHANGED <<account, history, job>>
    BY <2>4, <1>0, ConstantsAssumption DEF AddRecord, Tree
  <2>5. ASSUME NEW p \in Named, Rm(p)
        PROVE  index' \in Tree /\ UNCHANGED <<account, history, job>>
    BY <2>5, <1>0 DEF Rm, Tree
  <2> QED
    BY <2>1, <2>2, <2>3, <2>4, <2>5 DEF Stage
<1> QED
  BY <1>1 DEF TypeOK, account, history

\* What a step that moves HEAD or writes records back leaves to be shown.
LEMMA MaterialiseTyped ==
    ASSUME NEW tree, Materialise(tree)
    PROVE  job' \in [pc : {"idle", "records", "files", "index"}, todo : SUBSET Dirs]
  BY DirsTyped DEF Materialise

LEMMA CommitStepTyped == TypeOK /\ Commit => TypeOK'
<1> SUFFICES ASSUME TypeOK, Commit PROVE TypeOK'
  OBVIOUS
<1>0. WellFormed /\ head \in Branches /\ index \in Tree
  BY TypeParts
<1>1. {branch[head]} \ {0} \in SUBSET (1..Len(commits))
  BY <1>0, TipTyped
<1>2. WellFormed'
  BY <1>0, <1>1, RecordTyped DEF Commit
<1> QED
  BY <1>2 DEF Commit, TypeOK, WellFormed, CommitRecord, account

LEMMA FinishMergeTyped ==
    ASSUME TypeOK, NEW base \in Tree, NEW theirs \in Tree,
           NEW parents \in SUBSET (1..Len(commits)), FinishMerge(base, theirs, parents)
    PROVE  TypeOK'
<1> DEFINE tree == Merged(base, HeadTree, theirs)
<1>0. WellFormed /\ head \in Branches
  BY TypeParts
<1>1. tree \in Tree
  BY <1>0, TipTyped DEF Merged, Tree
<1>2. Record(tree, parents) /\ Materialise(tree) /\ UNCHANGED <<account, index, head>>
  BY DEF FinishMerge
<1> HIDE DEF tree
<1>3. WellFormed'
  BY <1>0, <1>1, <1>2, RecordTyped
<1>4. job' \in [pc : {"idle", "records", "files", "index"}, todo : SUBSET Dirs]
  BY <1>2, MaterialiseTyped
<1> QED
  BY <1>2, <1>3, <1>4 DEF TypeOK, WellFormed, CommitRecord, account

LEMMA MergeBasesTyped ==
    ASSUME WellFormed, NEW a \in 1..Len(commits), NEW b \in 1..Len(commits)
    PROVE  MergeBases(a, b) \subseteq Tree
<1>1. commits[a].anc \subseteq 1..Len(commits)
  BY CommitTyped
<1>2. \A c \in 1..Len(commits) : commits[c].tree \in Tree
  BY CommitTyped
<1> QED
  BY <1>1, <1>2, EmptyTyped DEF MergeBases

LEMMA SwitchTyped == TypeOK /\ Switch => TypeOK'
<1> SUFFICES ASSUME TypeOK, Switch PROVE TypeOK'
  OBVIOUS
<1> DEFINE Jobs == [pc : {"idle", "records", "files", "index"}, todo : SUBSET Dirs]
<1>0. /\ WellFormed /\ head \in Branches /\ HeadTree \in Tree
      /\ \A b \in Branches : branch[b] # 0 => branch[b] \in 1..Len(commits)
      /\ \A c \in 1..Len(commits) : commits[c].tree \in Tree
  BY TypeParts, TipTyped, CommitTyped
<1>1. ASSUME NEW b \in Branches, CreateBranch(b) PROVE TypeOK'
  <2>1. branch' \in [Branches -> 0..Len(commits)]
    BY <1>0, <1>1 DEF CreateBranch, WellFormed
  <2> QED
    BY <1>1, <2>1 DEF CreateBranch, TypeOK, account
<1>2. ASSUME NEW b \in Branches, Checkout(b) PROVE TypeOK'
  <2>1. job' \in Jobs
    BY <1>2, MaterialiseTyped DEF Checkout
  <2> QED
    BY <1>2, <2>1 DEF Checkout, TypeOK, account
<1>3. ASSUME NEW b \in Branches, SwitchHead(b) PROVE TypeOK'
  <2>1. index' \in Tree
    BY <1>0, <1>3 DEF SwitchHead
  <2> QED
    BY <1>3, <2>1 DEF SwitchHead, TypeOK, account
<1>4. ASSUME NEW b \in Branches, Merge(b) PROVE TypeOK'
  <2>1. branch[head] \in 1..Len(commits) /\ branch[b] \in 1..Len(commits)
    BY <1>0, <1>4 DEF Merge
  <2>2. CASE /\ branch' = [branch EXCEPT ![head] = branch[b]]
             /\ Materialise(commits[branch[b]].tree)
             /\ UNCHANGED <<account, index, commits, head>>
    <3>1. branch' \in [Branches -> 0..Len(commits)]
      BY <1>0, <2>2 DEF WellFormed
    <3>2. job' \in Jobs
      BY <2>2, MaterialiseTyped
    <3> QED
      BY <2>2, <3>1, <3>2 DEF TypeOK, account
  <2>3. ASSUME NEW base \in MergeBases(branch[head], branch[b]),
               FinishMerge(base, commits[branch[b]].tree, {branch[head], branch[b]})
        PROVE  TypeOK'
    <3>1. base \in Tree
      BY <1>0, <2>1, MergeBasesTyped
    <3> QED
      BY <1>0, <2>1, <2>3, <3>1, FinishMergeTyped
  <2>4. CASE UNCHANGED <<account, index, history, job>>
    BY <2>4 DEF TypeOK, account, history
  <2> QED
    BY <1>4, <2>2, <2>3, <2>4 DEF Merge
<1>5. ASSUME NEW c \in DOMAIN commits, CherryPick(c) PROVE TypeOK'
  <2> DEFINE parents == commits[c].parents
             base    == IF parents = {} THEN Empty
                        ELSE commits[CHOOSE q \in parents : TRUE].tree
  <2>1. c \in 1..Len(commits) /\ branch[head] \in 1..Len(commits)
    BY <1>0, <1>5, LenProperties DEF CherryPick, WellFormed
  <2>2. parents \subseteq 1..Len(commits)
    BY <1>0, <2>1, CommitTyped
  <2>3. base \in Tree
    BY <1>0, <2>2, EmptyTyped
  <2>4. FinishMerge(base, commits[c].tree, {branch[head]})
    BY <1>5 DEF CherryPick
  <2> QED
    BY <1>0, <2>1, <2>3, <2>4, FinishMergeTyped
<1> QED
  BY <1>1, <1>2, <1>3, <1>4, <1>5 DEF Switch

LEMMA WriteBackTyped == TypeOK /\ WriteBack => TypeOK'
<1> SUFFICES ASSUME TypeOK, WriteBack PROVE TypeOK'
  OBVIOUS
<1> DEFINE Jobs == [pc : {"idle", "records", "files", "index"}, todo : SUBSET Dirs]
<1>0. /\ live \in [Records -> Held] /\ disk \subseteq Files /\ index \in Tree
      /\ WellFormed /\ head \in Branches /\ HeadTree \in Tree /\ job \in Jobs
  BY TypeParts, TipTyped
<1>1. /\ None \in Held /\ Pointer \in Held
      /\ \A p \in Records : p \in GitPaths /\ HeadTree[p] \in Held /\ live[p] \in Held
  BY <1>0 DEF Held, Tree, GitPaths
<1>2. ASSUME NEW d \in Dirs, MaterialiseFile(d) PROVE TypeOK'
  <2>1. d[1] \in Files \cup {VOC}
    BY DEF Dirs, DirOf, GitPaths, Records, Controls, ControlOf
  <2>2. \A p \in Records : Reconciled(p) \in Held
    BY <1>1 DEF Reconciled
  <2>3. live' \in [Records -> Held]
    BY <1>1, <1>2, <2>2 DEF MaterialiseFile
  <2>4. disk' \subseteq Files
    BY <1>0, <1>2, <2>1 DEF MaterialiseFile
  <2>5. job' \in Jobs
    BY <1>0, <1>2 DEF MaterialiseFile
  <2> QED
    BY <1>2, <2>3, <2>4, <2>5 DEF MaterialiseFile, TypeOK, history
<1>3. ASSUME DropFiles PROVE TypeOK'
  <2>1. live' \in [Records -> Held]
    BY <1>1, <1>3 DEF DropFiles, Without
  <2>2. disk' \subseteq Files /\ job' \in Jobs
    BY <1>0, <1>3 DEF DropFiles
  <2> QED
    BY <1>3, <2>1, <2>2 DEF DropFiles, TypeOK, history
<1>4. ASSUME SyncIndex \/ Crash PROVE TypeOK'
  <2>1. index' \in Tree /\ job' \in Jobs
    BY <1>0, <1>4 DEF SyncIndex, Crash, Idle
  <2> QED
    BY <1>4, <2>1 DEF SyncIndex, Crash, TypeOK, account, history
<1>5. ASSUME NEW f \in Files \cup {VOC}, Restore(f) PROVE TypeOK'
  <2>1. live' \in [Records -> Held]
    BY <1>1, <1>5 DEF Restore
  <2> QED
    BY <1>5, <2>1 DEF Restore, TypeOK, history
<1> QED
  BY <1>2, <1>3, <1>4, <1>5 DEF WriteBack

\* Every variable keeps its type, whatever the account and the bounds.
THEOREM TypeCorrect == Spec => []TypeOK
<1>1. TypeOK /\ [Next]_vars => TypeOK'
  <2>1. CASE UNCHANGED vars
    BY <2>1 DEF TypeOK, vars, account, history
  <2> QED
    BY <2>1, UserTyped, StageStepTyped, CommitStepTyped, SwitchTyped, WriteBackTyped DEF Next
<1> QED
  BY <1>1, InitTyped, PTL DEF Spec

-----------------------------------------------------------------------------
(* The history.                                                            *)

Grows == \A b \in Branches : branch[b] # 0 => branch[b] \in commits'[branch'[b]].anc

\* A step that leaves the commits there are, and moves no branch but HEAD's,
\* grows the history if HEAD's old tip is an ancestor of the new one.
LEMMA GrowsIfHeadGrows ==
    ASSUME TypeOK,
           \A c \in 1..Len(commits) : commits'[c] = commits[c],
           \A b \in Branches : b # head => branch[b] = 0 \/ branch'[b] = branch[b],
           branch[head] # 0 => branch[head] \in commits'[branch'[head]].anc
    PROVE  Grows
<1> SUFFICES ASSUME NEW b \in Branches, branch[b] # 0
             PROVE  branch[b] \in commits'[branch'[b]].anc
  BY DEF Grows
<1>1. branch[b] \in 1..Len(commits)
  BY TypeParts, TipTyped
<1>2. branch[b] \in commits[branch[b]].anc
  BY <1>1, TypeParts DEF WellFormed
<1> QED
  BY <1>1, <1>2

LEMMA GrowsByRecord ==
    ASSUME TypeOK, NEW tree \in Tree, NEW parents \in SUBSET (1..Len(commits)),
           branch[head] # 0 => branch[head] \in parents, Record(tree, parents)
    PROVE  Grows
<1>0. WellFormed /\ head \in Branches
  BY TypeParts
<1>1. /\ \A c \in 1..Len(commits) : commits'[c] = commits[c]
      /\ \A b \in Branches : b # head => branch'[b] = branch[b]
      /\ \A c \in parents : commits[c].anc \subseteq commits'[branch'[head]].anc
  BY <1>0, RecordTyped
<1>2. branch[head] # 0 => branch[head] \in commits[branch[head]].anc
  BY <1>0, TipTyped DEF WellFormed
<1> QED
  BY <1>1, <1>2, GrowsIfHeadGrows

\* A branch only moves forward: commit, fast-forward, merge and cherry-pick
\* (GITCOMMIT, merge_into_head, finish_merge) never lose the old tip.
THEOREM BranchesMoveForward == Spec => HistoryOnlyGrows
<1>1. ASSUME TypeOK, [Next]_vars PROVE Grows
  <2>0. /\ WellFormed /\ head \in Branches /\ HeadTree \in Tree /\ index \in Tree
        /\ \A b \in Branches : branch[b] # 0 => branch[b] \in 1..Len(commits)
        /\ \A c \in 1..Len(commits) : commits[c].tree \in Tree /\ c \in commits[c].anc
    BY <1>1, TypeParts, TipTyped, CommitTyped DEF WellFormed
  <2>1. CASE UNCHANGED <<commits, branch>>
    BY <2>0, <2>1, <1>1, GrowsIfHeadGrows
  <2>2. CASE Commit
    <3>1. {branch[head]} \ {0} \in SUBSET (1..Len(commits))
      BY <2>0
    <3>2. Record(index, {branch[head]} \ {0})
      BY <2>2 DEF Commit
    <3> QED
      BY <1>1, <2>0, <3>1, <3>2, GrowsByRecord
  <2>3. ASSUME NEW b \in Branches, CreateBranch(b) PROVE Grows
    <3>1. commits' = commits /\ branch' = [branch EXCEPT ![b] = branch[head]] /\ branch[b] = 0
          /\ branch \in [Branches -> 0..Len(commits)] /\ branch[head] # 0
      BY <2>0, <2>3 DEF CreateBranch, WellFormed
    <3> QED
      BY <1>1, <2>0, <3>1, GrowsIfHeadGrows
  <2>4. ASSUME NEW base \in Tree, NEW theirs \in Tree,
               NEW parents \in SUBSET (1..Len(commits)), branch[head] \in parents,
               FinishMerge(base, theirs, parents)
        PROVE  Grows
    <3>1. Merged(base, HeadTree, theirs) \in Tree
      BY <2>0 DEF Merged, Tree
    <3>2. Record(Merged(base, HeadTree, theirs), parents)
      BY <2>4 DEF FinishMerge
    <3> QED
      BY <1>1, <2>4, <3>1, <3>2, GrowsByRecord
  <2>5. ASSUME NEW b \in Branches, Merge(b) PROVE Grows
    <3>1. branch[head] \in 1..Len(commits) /\ branch[b] \in 1..Len(commits)
      BY <2>0, <2>5 DEF Merge
    <3>2. CASE /\ branch[head] \in commits[branch[b]].anc
               /\ branch' = [branch EXCEPT ![head] = branch[b]]
               /\ UNCHANGED commits
      <4>1. branch'[head] = branch[b] /\ \A e \in Branches : e # head => branch'[e] = branch[e]
        BY <2>0, <3>2 DEF WellFormed
      <4> QED
        BY <1>1, <3>2, <4>1, GrowsIfHeadGrows
    <3>3. ASSUME NEW base \in MergeBases(branch[head], branch[b]),
                 FinishMerge(base, commits[branch[b]].tree, {branch[head], branch[b]})
          PROVE  Grows
      BY <2>0, <2>4, <3>1, <3>3, MergeBasesTyped
    <3> QED
      BY <2>1, <2>5, <3>2, <3>3 DEF Merge, history
  <2>6. ASSUME NEW c \in DOMAIN commits, CherryPick(c) PROVE Grows
    <3> DEFINE parents == commits[c].parents
               base    == IF parents = {} THEN Empty
                          ELSE commits[CHOOSE q \in parents : TRUE].tree
    <3>1. c \in 1..Len(commits) /\ branch[head] \in 1..Len(commits)
      BY <2>0, <2>6, LenProperties DEF CherryPick, WellFormed
    <3>2. parents \subseteq 1..Len(commits)
      BY <2>0, <3>1, CommitTyped
    <3>3. base \in Tree
      BY <2>0, <3>2, EmptyTyped
    <3>4. FinishMerge(base, commits[c].tree, {branch[head]})
      BY <2>6 DEF CherryPick
    <3> QED
      BY <2>0, <2>4, <3>1, <3>3, <3>4
  <2>7. ASSUME User \/ Stage \/ WriteBack \/ UNCHANGED vars PROVE UNCHANGED <<commits, branch>>
    <3>1. ASSUME User PROVE UNCHANGED <<commits, branch>>
      BY <3>1 DEF User, WriteRecord, DeleteRecord, CreateFile, DeleteFile, ToggleIgnore, history
    <3>2. ASSUME Stage PROVE UNCHANGED <<commits, branch>>
      BY <3>2 DEF Stage, AddAll, AddFile, RmFile, AddRecord, Rm, history
    <3>3. ASSUME WriteBack PROVE UNCHANGED <<commits, branch>>
      BY <3>3 DEF WriteBack, MaterialiseFile, DropFiles, SyncIndex, Crash, Restore, history
    <3> QED
      BY <2>7, <3>1, <3>2, <3>3 DEF vars, history
  <2>8. ASSUME NEW b \in Branches, Checkout(b) \/ SwitchHead(b) PROVE UNCHANGED <<commits, branch>>
    BY <2>8 DEF Checkout, SwitchHead
  <2> QED
    BY <1>1, <2>1, <2>2, <2>3, <2>5, <2>6, <2>7, <2>8 DEF Next, Switch
<1> QED
  BY <1>1, TypeCorrect, PTL DEF HistoryOnlyGrows, Grows, Spec

-----------------------------------------------------------------------------
(* Writing back.                                                           *)

AsCommitted(p) == live[p] = HeadTree[p] \/ (HeadTree[p] = None /\ p[3] \in DOMAIN Stock)

\* The write-back has been at the subtree d: its file is there, by name or
\* underneath, and its records, as far as the file opens, are the commit's.
DirWritten(d) ==
    /\ job.pc = "records" => d[1] \in Listed \cup disk
    /\ \A p \in Records : DirOf(p) = d /\ CanOpen(p[1]) => AsCommitted(p)

\* What the write-back has not to do any more, it has done.
Written ==
    job.pc \in {"records", "index"} /\ ~CarriesVoc(HeadTree) =>
        /\ <<VOC, "data">> \notin job.todo
        /\ \A d \in DirsIn(HeadTree) \ job.todo : DirWritten(d)
        /\ job.pc = "index" => job.todo = {}

\* Only a VOC that is written back can part a file from its pointer.
Pointed == VocStaysOut => disk \subseteq Listed

\* The files of the commit are named when its records are written.
FilesBack ==
    job.pc = "index" /\ VocStaysOut =>
        \A d \in DirsIn(HeadTree) : TreeHasFile(HeadTree, d[1]) => d[1] \in Listed

\* The files git tracked that the commit lacks have gone.
FilesGone ==
    job.pc = "index" =>
        \A f \in Files :
            index[ControlOf(f)] # None /\ ~TreeHasFile(HeadTree, f) => ~CanOpen(f)

IInv == TypeOK /\ Pointed /\ Written /\ FilesBack /\ FilesGone

LEMMA FilesOfTree ==
    ASSUME NEW tree, NEW d \in DirsIn(tree)
    PROVE  d[1] \in Files \/ (d = <<VOC, "data">> /\ CarriesVoc(tree))
<1>1. PICK q \in GitPaths : d = DirOf(q) /\ tree[q] # None
  BY DEF DirsIn
<1>2. CASE q \in Controls
  BY <1>1, <1>2 DEF Controls, ControlOf, DirOf
<1>3. CASE q \in Records
  <2>1. d[1] \in Files \/ d = <<VOC, "data">>
    BY <1>1, <1>3 DEF Records, DirOf
  <2> QED
    BY <2>1 DEF CarriesVoc
<1> QED
  BY <1>1, <1>2, <1>3 DEF GitPaths

\* A record of no file of the VOC is no pointer.
LEMMA NoPointer ==
    ASSUME NEW p \in Records, p[1] # VOC
    PROVE  ~InVoc(p) /\ \A f : p # PointerTo(f)
  BY DEF InVoc, PointerTo

\* HeadTree is a function of the history.
LEMMA SameHead == UNCHANGED history => HeadTree' = HeadTree /\ (VocStaysOut' <=> VocStaysOut)
  BY DEF history, HeadTree, VocStaysOut

\* At rest nothing is promised of a write-back.
LEMMA AtRest == job' = Idle => Written' /\ FilesBack' /\ FilesGone'
  BY DEF Idle, Written, FilesBack, FilesGone

\* A write-back starts with every subtree still to do.
LEMMA Starts == Materialise(HeadTree') => Written' /\ FilesBack' /\ FilesGone'
<1> SUFFICES ASSUME Materialise(HeadTree') PROVE Written' /\ FilesBack' /\ FilesGone'
  OBVIOUS
<1>1. job' = [pc |-> "records", todo |-> DirsIn(HeadTree')]
  BY DEF Materialise
<1>2. job'.pc = "records" /\ job'.todo = DirsIn(HeadTree')
  BY <1>1
<1>3. Written'
  BY <1>2 DEF Written, CarriesVoc
<1> QED
  BY <1>2, <1>3 DEF FilesBack, FilesGone

-----------------------------------------------------------------------------
\* A tree of a commit, or none: without the VOC in any commit HEAD has none.
LEMMA HeadWithoutVoc ==
    ASSUME TypeOK, VocStaysOut
    PROVE  ~CarriesVoc(HeadTree)
<1>0. WellFormed /\ head \in Branches
  BY TypeParts
<1>1. CASE branch[head] = 0
  <2>1. HeadTree = Empty
    BY <1>1 DEF HeadTree
  <2> QED
    BY <2>1 DEF CarriesVoc, DirsIn, Empty
<1>2. CASE branch[head] # 0
  <2>1. branch[head] \in DOMAIN commits
    BY <1>0, <1>2, TipTyped, LenProperties DEF WellFormed
  <2> QED
    BY <1>2, <2>1 DEF HeadTree, VocStaysOut
<1> QED
  BY <1>1, <1>2

\* The step a subtree takes: what is done stays done, and d is done with.
LEMMA MaterialiseWritten ==
    ASSUME IInv, NEW d \in Dirs, MaterialiseFile(d)
    PROVE  Written' /\ FilesBack' /\ FilesGone'
<1> DEFINE f    == d[1]
           made == f # VOC /\ f \notin Listed /\ f \notin disk
<1>0. /\ job.pc = "records" /\ d \in job.todo
      /\ job' = [job EXCEPT !.todo = @ \ {d}]
      /\ disk' = IF made THEN disk \cup {f} ELSE disk
      /\ live' = [p \in Records |->
            IF made /\ p = PointerTo(f) THEN Pointer
            ELSE IF (made \/ CanOpen(f)) /\ DirOf(p) = d THEN Reconciled(p)
            ELSE live[p]]
      /\ HeadTree' = HeadTree
  BY SameHead DEF MaterialiseFile
<1>1. job'.pc = "records" /\ job'.todo = job.todo \ {d}
  BY <1>0, TypeParts DEF IInv
<1>2. FilesBack' /\ FilesGone'
  BY <1>1 DEF FilesBack, FilesGone
<1>3. ASSUME ~CarriesVoc(HeadTree)
      PROVE  /\ <<VOC, "data">> \notin job'.todo
             /\ \A e \in DirsIn(HeadTree) \ job'.todo : DirWritten(e)'
  <2>0. <<VOC, "data">> \notin job.todo
        /\ \A e \in DirsIn(HeadTree) \ job.todo : DirWritten(e)
    BY <1>0, <1>3 DEF IInv, Written
  <2>1. f \in Files /\ f # VOC
    <3>1. \E q \in GitPaths : d = DirOf(q)
      BY DEF Dirs
    <3>2. f \in Files \/ d = <<VOC, "data">>
      BY <3>1 DEF GitPaths, Records, Controls, ControlOf, DirOf
    <3> QED
      BY <1>0, <2>0, <3>2, ConstantsAssumption
  <2>2. \A g \in Files : PointerTo(g) \in Records /\ DirOf(PointerTo(g)) # d
    BY <2>1 DEF PointerTo, Records, DirOf
  <2>3. \A g \in Files : live'[PointerTo(g)] = IF made /\ g = f THEN Pointer ELSE live[PointerTo(g)]
    BY <1>0, <2>2 DEF PointerTo
  <2>4. Listed' = IF made THEN Listed \cup {f} ELSE Listed
    BY <2>1, <2>3, ConstantsAssumption DEF Listed
  <2>5. \A g \in Files : CanOpen(g)' <=> CanOpen(g) \/ (made /\ g = f)
    BY <1>0, <2>1, <2>4, ConstantsAssumption DEF CanOpen
  <2>6. ASSUME NEW e \in DirsIn(HeadTree), e = d \/ e \notin job.todo
        PROVE  DirWritten(e)'
    <3>1. e[1] \in Files /\ e[1] # VOC
      BY <1>3, FilesOfTree, ConstantsAssumption
    <3>2. e[1] \in Listed' \cup disk'
      <4>1. CASE e = d
        BY <1>0, <2>1, <2>4, <4>1
      <4>2. CASE e \notin job.todo
        BY <1>0, <2>0, <2>4, <4>2 DEF DirWritten
      <4> QED
        BY <2>6, <4>1, <4>2
    <3>3. ASSUME NEW p \in Records, DirOf(p) = e, CanOpen(p[1])'
          PROVE  AsCommitted(p)'
      <4>0. p[1] = e[1]
        BY <3>3, RecordPaths
      <4>1. \A g : p # PointerTo(g)
        BY <3>1, <4>0, NoPointer
      <4>2. CASE e = d
        <5>1. live'[p] = Reconciled(p)
          BY <1>0, <2>5, <3>1, <3>3, <4>0, <4>1, <4>2
        <5>2. CASE HeadTree[p] # None
          BY <1>0, <5>1, <5>2 DEF Reconciled, AsCommitted
        <5>3. CASE HeadTree[p] = None /\ p[3] \notin DOMAIN Stock
          BY <1>0, <5>1, <5>3 DEF Reconciled, AsCommitted
        <5>4. CASE HeadTree[p] = None /\ p[3] \in DOMAIN Stock
          BY <1>0, <5>4 DEF AsCommitted
        <5> QED
          BY <5>2, <5>3, <5>4
      <4>3. CASE e # d
        <5>1. DirWritten(e)
          BY <2>0, <2>6, <4>3
        <5>2. live'[p] = live[p]
          BY <1>0, <3>3, <4>1, <4>3
        <5>3. e[1] \in Listed \cup disk
          BY <1>0, <5>1 DEF DirWritten
        <5>4. CanOpen(p[1])
          BY <2>5, <3>1, <3>3, <4>0, <5>3
        <5>5. AsCommitted(p)
          BY <3>3, <5>1, <5>4 DEF DirWritten
        <5> QED
          BY <1>0, <5>2, <5>5 DEF AsCommitted
      <4> QED
        BY <4>2, <4>3
    <3> QED
      BY <3>2, <3>3 DEF DirWritten
  <2> QED
    BY <1>1, <2>0, <2>6
<1>4. Written'
  BY <1>0, <1>1, <1>3 DEF Written
<1> QED
  BY <1>2, <1>4

\* The files that are dropped take none of the commit's with them.
LEMMA DropKeeps ==
    ASSUME IInv, DropFiles
    PROVE  Written' /\ FilesBack' /\ FilesGone'
<1> DEFINE gone == {f \in Files : /\ CanOpen(f) /\ ~TreeHasFile(HeadTree, f)
                                  /\ Tracked(ControlOf(f))}
<1>0. /\ job.pc = "records" /\ job.todo = {}
      /\ job' = [job EXCEPT !.pc = "index"]
      /\ disk' = disk \ gone /\ live' = Without(gone)
      /\ HeadTree' = HeadTree /\ (VocStaysOut' <=> VocStaysOut) /\ index' = index
  BY SameHead DEF DropFiles
<1>1. job'.pc = "index" /\ job'.todo = {}
  BY <1>0, TypeParts DEF IInv
<1>2. ASSUME NEW f \in Files
      PROVE  /\ f \in Listed' <=> f \in Listed \ gone
             /\ CanOpen(f)' <=> CanOpen(f) /\ f \notin gone
  <2>1. PointerTo(f) \in Records /\ PointerTo(f)[1] = VOC /\ PointerTo(f)[3] = f
        /\ InVoc(PointerTo(f)) /\ f # VOC /\ VOC \notin gone
    BY ConstantsAssumption DEF PointerTo, Records, InVoc
  <2>2. live'[PointerTo(f)] = IF f \in gone THEN None ELSE live[PointerTo(f)]
    BY <1>0, <2>1 DEF Without
  <2>3. f \in Listed' <=> f \in Listed \ gone
    BY <2>2 DEF Listed
  <2> QED
    BY <1>0, <2>1, <2>3 DEF CanOpen
<1>3. ASSUME ~CarriesVoc(HeadTree), NEW d \in DirsIn(HeadTree) PROVE DirWritten(d)'
  <2>0. DirWritten(d) /\ d[1] \in Files /\ d[1] # VOC
    BY <1>0, <1>3, FilesOfTree, ConstantsAssumption DEF IInv, Written
  <2>1. ASSUME NEW p \in Records, DirOf(p) = d, CanOpen(p[1])'
        PROVE  AsCommitted(p)'
    <3>1. p[1] = d[1] /\ ~InVoc(p)
      BY <2>0, <2>1, RecordPaths, NoPointer
    <3>2. CanOpen(p[1]) /\ p[1] \notin gone
      BY <1>2, <2>0, <2>1, <3>1
    <3>3. live'[p] = live[p]
      BY <1>0, <3>1, <3>2 DEF Without
    <3> QED
      BY <1>0, <2>0, <2>1, <3>2, <3>3 DEF DirWritten, AsCommitted
  <2> QED
    BY <1>1, <2>1 DEF DirWritten
<1>4. Written'
  BY <1>0, <1>1, <1>3 DEF Written
<1>5. FilesGone'
  BY <1>0, <1>2 DEF FilesGone, Tracked
<1>6. ASSUME VocStaysOut, NEW d \in DirsIn(HeadTree), TreeHasFile(HeadTree, d[1])
      PROVE  d[1] \in Listed'
  <2>1. ~CarriesVoc(HeadTree)
    BY <1>6, HeadWithoutVoc DEF IInv
  <2>2. d[1] \in Files /\ DirWritten(d)
    BY <1>0, <2>1, FilesOfTree DEF IInv, Written
  <2>3. d[1] \in Listed
    BY <1>0, <1>6, <2>2 DEF IInv, Pointed, DirWritten
  <2> QED
    BY <1>2, <1>6, <2>2, <2>3
<1>7. FilesBack'
  BY <1>0, <1>6 DEF FilesBack
<1> QED
  BY <1>4, <1>5, <1>7

-----------------------------------------------------------------------------
\* The commits there are stay as they are.
LEMMA CommitsStay ==
    ASSUME TypeOK, [Next]_vars, VocStaysOut'
    PROVE  VocStaysOut
<1>0. WellFormed /\ head \in Branches /\ HeadTree \in Tree /\ index \in Tree
      /\ \A c \in 1..Len(commits) : commits[c].tree \in Tree
      /\ DOMAIN commits = 1..Len(commits)
  BY TypeParts, TipTyped, CommitTyped, LenProperties DEF WellFormed
<1>1. CASE UNCHANGED commits
  BY <1>1 DEF VocStaysOut
<1>2. ASSUME NEW tree, NEW parents, Record(tree, parents) PROVE VocStaysOut
  <2>1. commits' = Append(commits, [tree |-> tree, parents |-> parents,
            anc |-> {Len(commits) + 1} \cup UNION {commits[c].anc : c \in parents}])
    BY <1>2 DEF Record
  <2>2. commits \in Seq(CommitRecord)
    BY <1>0 DEF WellFormed
  <2>3. \A c \in DOMAIN commits : c \in DOMAIN commits' /\ commits'[c] = commits[c]
    BY <1>0, <2>1, <2>2
  <2> QED
    BY <2>3 DEF VocStaysOut
<1>3. ASSUME User \/ Stage \/ WriteBack \/ UNCHANGED vars PROVE UNCHANGED commits
  <2>1. ASSUME User PROVE UNCHANGED commits
    BY <2>1 DEF User, WriteRecord, DeleteRecord, CreateFile, DeleteFile, ToggleIgnore, history
  <2>2. ASSUME Stage PROVE UNCHANGED commits
    BY <2>2 DEF Stage, AddAll, AddFile, RmFile, AddRecord, Rm, history
  <2>3. ASSUME WriteBack PROVE UNCHANGED commits
    BY <2>3 DEF WriteBack, MaterialiseFile, DropFiles, SyncIndex, Crash, Restore, history
  <2> QED
    BY <1>3, <2>1, <2>2, <2>3 DEF vars, history
<1>4. ASSUME Commit PROVE VocStaysOut
  BY <1>2, <1>4 DEF Commit
<1>5. ASSUME NEW b \in Branches, CreateBranch(b) \/ Checkout(b) \/ SwitchHead(b)
      PROVE  UNCHANGED commits
  BY <1>5 DEF CreateBranch, Checkout, SwitchHead
<1>6. ASSUME NEW b \in Branches, Merge(b) PROVE VocStaysOut
  BY <1>1, <1>2, <1>6 DEF Merge, FinishMerge, history
<1>7. ASSUME NEW c \in DOMAIN commits, CherryPick(c) PROVE VocStaysOut
  BY <1>2, <1>7 DEF CherryPick, FinishMerge
<1> QED
  BY <1>1, <1>3, <1>4, <1>5, <1>6, <1>7 DEF Next, Switch

\* What users do leaves every file with its pointer.
LEMMA UserPointed ==
    ASSUME IInv, VocStaysOut, User
    PROVE  disk' \subseteq Listed'
<1>0. disk \subseteq Listed /\ disk \subseteq Files
  BY TypeParts DEF IInv, Pointed
<1>1. \A f \in Files : PointerTo(f) \in Records /\ PointerTo(f)[3] = f
      /\ PointerTo(f)[1] = VOC /\ InVoc(PointerTo(f)) /\ f # VOC
  BY ConstantsAssumption DEF PointerTo, Records, InVoc
<1>2. live \in [Records -> Held]
  BY TypeParts DEF IInv
<1>3. CASE \E p \in Records : DeleteRecord(p) \/ \E v \in Values : WriteRecord(p, v)
  <2>1. \A f \in Files : live'[PointerTo(f)] = live[PointerTo(f)]
    BY <1>1, <1>2, <1>3 DEF DeleteRecord, WriteRecord
  <2>2. disk' = disk
    BY <1>3 DEF DeleteRecord, WriteRecord
  <2> QED
    BY <1>0, <2>1, <2>2 DEF Listed
<1>4. ASSUME NEW f \in Files, CreateFile(f) PROVE disk' \subseteq Listed'
  <2>1. \A g \in Files : live'[PointerTo(g)] = IF g = f THEN Pointer ELSE live[PointerTo(g)]
    BY <1>1, <1>2, <1>4 DEF CreateFile
  <2> QED
    BY <1>0, <1>4, <2>1, ConstantsAssumption DEF CreateFile, Listed
<1>5. ASSUME NEW f \in Files, DeleteFile(f) PROVE disk' \subseteq Listed'
  <2>1. \A g \in Files : live'[PointerTo(g)] = IF g = f THEN None ELSE live[PointerTo(g)]
    BY <1>1, <1>5 DEF DeleteFile, Without
  <2> QED
    BY <1>0, <1>5, <2>1 DEF DeleteFile, Listed
<1>6. CASE \E p \in Named : ToggleIgnore(p)
  BY <1>0, <1>6 DEF ToggleIgnore, Listed
<1> QED
  BY <1>3, <1>4, <1>5, <1>6 DEF User

\* A write-back without the VOC makes a file with its pointer and takes both.
LEMMA WriteBackPointed ==
    ASSUME IInv, VocStaysOut, WriteBack
    PROVE  disk' \subseteq Listed'
<1>0. disk \subseteq Listed /\ disk \subseteq Files /\ ~CarriesVoc(HeadTree)
  BY TypeParts, HeadWithoutVoc DEF IInv, Pointed
<1>1. \A g \in Files : PointerTo(g) \in Records /\ PointerTo(g)[3] = g
      /\ PointerTo(g)[1] = VOC /\ InVoc(PointerTo(g)) /\ g # VOC
      /\ DirOf(PointerTo(g)) = <<VOC, "data">>
  BY ConstantsAssumption DEF PointerTo, Records, InVoc, DirOf
<1>2. ASSUME NEW d \in Dirs, MaterialiseFile(d) PROVE disk' \subseteq Listed'
  <2> DEFINE f    == d[1]
             made == f # VOC /\ f \notin Listed /\ f \notin disk
  <2>1. d # <<VOC, "data">>
    BY <1>0, <1>2 DEF IInv, Written, MaterialiseFile
  <2>2. f \in Files
    <3>1. \E q \in GitPaths : d = DirOf(q)
      BY DEF Dirs
    <3> QED
      BY <2>1, <3>1 DEF GitPaths, Records, Controls, ControlOf, DirOf
  <2>3. \A g \in Files : live'[PointerTo(g)] = IF made /\ g = f THEN Pointer ELSE live[PointerTo(g)]
    BY <1>1, <1>2, <2>1 DEF MaterialiseFile, PointerTo
  <2> QED
    BY <1>0, <1>2, <2>2, <2>3, ConstantsAssumption DEF MaterialiseFile, Listed
<1>3. ASSUME DropFiles PROVE disk' \subseteq Listed'
  <2> DEFINE gone == {f \in Files : /\ CanOpen(f) /\ ~TreeHasFile(HeadTree, f)
                                    /\ Tracked(ControlOf(f))}
  <2>1. disk' = disk \ gone /\ live' = Without(gone)
    BY <1>3 DEF DropFiles
  <2>2. \A g \in Files : live'[PointerTo(g)] = IF g \in gone THEN None ELSE live[PointerTo(g)]
    BY <1>1, <2>1 DEF Without
  <2> QED
    BY <1>0, <2>1, <2>2 DEF Listed
<1>4. CASE SyncIndex \/ Crash
  BY <1>0, <1>4 DEF SyncIndex, Crash, account, Listed
<1>5. ASSUME NEW f \in Files \cup {VOC}, Restore(f) PROVE disk' \subseteq Listed'
  <2>1. f # VOC
    BY <1>0, <1>5 DEF Restore, CarriesVoc
  <2>2. \A g \in Files : live'[PointerTo(g)] = live[PointerTo(g)]
    BY <1>1, <1>5, <2>1 DEF Restore
  <2> QED
    BY <1>0, <1>5, <2>2 DEF Restore, Listed
<1> QED
  BY <1>2, <1>3, <1>4, <1>5 DEF WriteBack

\* HEAD's new tree is the tree that is written back.
LEMMA SwitchStarts ==
    ASSUME TypeOK, Switch
    PROVE  job' = Idle \/ Materialise(HeadTree')
<1>0. /\ WellFormed /\ head \in Branches /\ branch \in [Branches -> 0..Len(commits)]
      /\ \A b \in Branches : branch[b] # 0 => branch[b] \in 1..Len(commits)
      /\ commits \in Seq(CommitRecord)
  BY TypeParts, TipTyped DEF WellFormed
<1>1. ASSUME NEW b \in Branches, CreateBranch(b) \/ SwitchHead(b) PROVE job' = Idle
  BY <1>1 DEF CreateBranch, SwitchHead
<1>2. ASSUME NEW b \in Branches, Checkout(b) PROVE Materialise(HeadTree')
  <2>1. HeadTree' = commits[branch[b]].tree
    BY <1>2 DEF Checkout, HeadTree
  <2> QED
    BY <1>2, <2>1 DEF Checkout
<1>3. ASSUME NEW base, NEW theirs, NEW parents, FinishMerge(base, theirs, parents)
      PROVE  Materialise(HeadTree')
  <2> DEFINE tree == Merged(base, HeadTree, theirs)
             n    == Len(commits) + 1
  <2>1. /\ Record(tree, parents) /\ Materialise(tree) /\ head' = head
    BY <1>3 DEF FinishMerge
  <2>2. branch'[head] = n /\ n # 0
    BY <1>0, <2>1, LenProperties DEF Record
  <2>3. commits'[n].tree = tree
    BY <1>0, <2>1, AppendProperties DEF Record
  <2>4. HeadTree' = tree
    BY <2>1, <2>2, <2>3 DEF HeadTree
  <2> QED
    BY <2>1, <2>4
<1>4. ASSUME NEW b \in Branches, Merge(b) PROVE job' = Idle \/ Materialise(HeadTree')
  <2>1. CASE /\ branch' = [branch EXCEPT ![head] = branch[b]]
             /\ Materialise(commits[branch[b]].tree)
             /\ UNCHANGED <<account, index, commits, head>>
    <3>1. branch'[head'] = branch[b] /\ branch[b] # 0 /\ commits' = commits
      BY <1>0, <1>4, <2>1 DEF Merge
    <3>2. HeadTree' = commits[branch[b]].tree
      BY <3>1 DEF HeadTree
    <3> QED
      BY <2>1, <3>2
  <2>2. CASE \E base \in MergeBases(branch[head], branch[b]) :
                FinishMerge(base, commits[branch[b]].tree, {branch[head], branch[b]})
    BY <1>3, <2>2
  <2>3. CASE job = Idle /\ UNCHANGED job
    BY <2>3
  <2> QED
    BY <1>4, <2>1, <2>2, <2>3 DEF Merge
<1>5. ASSUME NEW c \in DOMAIN commits, CherryPick(c) PROVE Materialise(HeadTree')
  BY <1>3, <1>5 DEF CherryPick
<1> QED
  BY <1>1, <1>2, <1>4, <1>5 DEF Switch

LEMMA IInvKept == IInv /\ [Next]_vars => IInv'
<1> SUFFICES ASSUME IInv, [Next]_vars PROVE IInv'
  OBVIOUS
<1>0. TypeOK /\ TypeOK' /\ (VocStaysOut' => VocStaysOut)
  <2>1. TypeOK
    BY DEF IInv
  <2>2. CASE UNCHANGED vars
    BY <2>1, <2>2 DEF TypeOK, vars, account, history, VocStaysOut
  <2>3. CASE Next
    BY <2>1, <2>3, CommitsStay, UserTyped, StageStepTyped, CommitStepTyped, SwitchTyped,
       WriteBackTyped DEF Next
  <2> QED
    BY <2>2, <2>3
<1>1. CASE User
  <2>1. job' = Idle
    BY <1>1 DEF User, WriteRecord, DeleteRecord, CreateFile, DeleteFile, ToggleIgnore
  <2> QED
    BY <1>0, <1>1, <2>1, AtRest, UserPointed DEF IInv, Pointed
<1>2. CASE Stage \/ Commit
  <2>1. job' = Idle /\ UNCHANGED <<live, disk>>
    BY <1>2 DEF Stage, AddAll, AddFile, RmFile, AddRecord, Rm, Commit, account
  <2>2. Pointed'
    BY <1>0, <2>1 DEF IInv, Pointed, Listed
  <2> QED
    BY <1>0, <2>1, <2>2, AtRest DEF IInv
<1>3. CASE Switch
  <2>1. UNCHANGED <<live, disk>>
    BY <1>3 DEF Switch, CreateBranch, Checkout, SwitchHead, Merge, CherryPick, FinishMerge, account
  <2>2. Pointed'
    BY <1>0, <2>1 DEF IInv, Pointed, Listed
  <2>3. Written' /\ FilesBack' /\ FilesGone'
    BY <1>0, <1>3, SwitchStarts, AtRest, Starts
  <2> QED
    BY <1>0, <2>2, <2>3 DEF IInv
<1>4. CASE WriteBack
  <2>1. Pointed'
    BY <1>0, <1>4, WriteBackPointed DEF Pointed
  <2>2. CASE SyncIndex \/ Crash \/ \E f \in Files \cup {VOC} : Restore(f)
    <3>1. job' = Idle
      BY <2>2 DEF SyncIndex, Crash, Restore
    <3> QED
      BY <1>0, <2>1, <3>1, AtRest DEF IInv
  <2> QED
    BY <1>0, <1>4, <2>1, <2>2, MaterialiseWritten, DropKeeps DEF IInv, WriteBack
<1>5. CASE UNCHANGED vars
  <2>1. HeadTree' = HeadTree /\ (VocStaysOut' <=> VocStaysOut)
    BY <1>5 DEF vars, history, HeadTree, VocStaysOut
  <2>2. live' = live /\ disk' = disk /\ index' = index /\ job' = job
    BY <1>5 DEF vars, account
  <2>3. Pointed' /\ FilesBack' /\ FilesGone'
    BY <2>1, <2>2 DEF IInv, Pointed, FilesBack, FilesGone, Listed, CanOpen
  <2>4. \A d : DirWritten(d)' <=> DirWritten(d)
    BY <2>1, <2>2 DEF DirWritten, AsCommitted, Listed, CanOpen
  <2>5. Written'
    BY <2>1, <2>2, <2>4 DEF IInv, Written
  <2> QED
    BY <1>0, <2>3, <2>5 DEF IInv
<1> QED
  BY <1>1, <1>2, <1>3, <1>4, <1>5 DEF Next

LEMMA IInvHolds == Spec => []IInv
<1>1. Init => IInv
  <2> SUFFICES ASSUME Init PROVE IInv
    OBVIOUS
  <2>1. job.pc = "idle" /\ disk = {}
    BY DEF Init, Idle
  <2> QED
    BY <2>1, InitTyped DEF IInv, Pointed, Written, FilesBack, FilesGone
<1> QED
  BY <1>1, IInvKept, PTL DEF Spec

LEMMA WrittenIsWrittenBack == IInv => WrittenBack
<1> SUFFICES ASSUME IInv, job.pc = "index", ~CarriesVoc(HeadTree), NEW p \in Records,
                    DirOf(p) \in DirsIn(HeadTree), CanOpen(p[1])
             PROVE  AsCommitted(p)
  BY DEF WrittenBack, AsCommitted
<1>1. DirWritten(DirOf(p))
  BY DEF IInv, Written
<1> QED
  BY <1>1 DEF DirWritten

\* When the write-back has gone through every subtree, the account holds what the
\* commit says in every file of it that opens (materialize_tree), in whatever order
\* the subtrees came, and whatever earlier write-backs left when they died.
THEOREM CommitIsWritten == Spec => []WrittenBack
<1> QED
  BY IInvHolds, WrittenIsWrittenBack, PTL

\* A switch that is over has dropped the files the commit lacks, if git tracked them
\* (materialize_tree_x): no file of the branch left behind can be opened.
THEOREM OldFilesDropped == Spec => SwitchDropsFiles
<1>1. ASSUME IInv
      PROVE  SyncIndex => \A f \in Files :
                index[ControlOf(f)] # None /\ ~TreeHasFile(HeadTree, f) => ~CanOpen(f)
  BY <1>1 DEF IInv, FilesGone, SyncIndex
<1> QED
  BY <1>1, IInvHolds, PTL DEF SwitchDropsFiles, Spec

\* A switch leaves nothing staged, modified or deleted (sync_index), whatever died
\* before it, when the commit has the control of every file and the VOC was never
\* committed: then each file is there with its pointer, and holds the index.
THEOREM SwitchIsClean == Spec => SwitchReadsClean
<1>1. ASSUME IInv, SyncIndex, VocStaysOut, Described(HeadTree)
      PROVE  Staged' = {} /\ Modified' = {} /\ Deleted' = {}
  <2>0. /\ job.pc = "index" /\ index' = HeadTree /\ HeadTree' = HeadTree
        /\ UNCHANGED account /\ ~CarriesVoc(HeadTree) /\ TypeOK
    BY <1>1, SameHead, HeadWithoutVoc DEF SyncIndex, IInv
  <2>1. Staged' = {}
    BY <2>0 DEF Staged
  <2>2. ASSUME NEW p \in Records, HeadTree[p] # None
        PROVE  /\ DirOf(p) \in DirsIn(HeadTree) /\ p[1] \in Files
               /\ CanOpen(p[1]) => live[p] = HeadTree[p]
               /\ p[1] \in Listed
    <3>1. DirOf(p) \in DirsIn(HeadTree)
      BY <2>2, RecordPaths DEF DirsIn
    <3>2. p[1] \in Files
      BY <2>0, <3>1, FilesOfTree, RecordPaths
    <3>3. CanOpen(p[1]) => live[p] = HeadTree[p]
      BY <1>1, <2>0, <2>2, <3>1, WrittenIsWrittenBack DEF WrittenBack
    <3>4. TreeHasFile(HeadTree, p[1])
      BY <1>1, <3>1, RecordPaths DEF Described, TreeHasFile
    <3>5. p[1] \in Listed
      BY <1>1, <2>0, <3>1, <3>4, RecordPaths DEF IInv, FilesBack
    <3> QED
      BY <3>1, <3>2, <3>3, <3>5
  <2>3. Modified' = {}
    <3> SUFFICES ASSUME NEW p \in Modified' PROVE FALSE
      OBVIOUS
    <3>1. p \in Records /\ Present(p)' /\ index'[p] # None /\ index'[p] # live'[p]
      BY DEF Modified, StatusWalks, Tracked
    <3>2. Present(p) /\ live'[p] = live[p]
      BY <2>0, <3>1, SameAccount
    <3> QED
      BY <2>0, <2>2, <3>1, <3>2 DEF Present
  <2>4. Deleted' = {}
    <3> SUFFICES ASSUME NEW p \in Deleted' PROVE FALSE
      OBVIOUS
    <3>0. Listed' = Listed /\ index'[p] # None
          /\ (TrackedGone(index, p[1])' \/ (p \in Records /\ CanOpen(p[1])' /\ live'[p] = None))
      BY <2>0 DEF Deleted, Tracked, Listed, account
    <3>1. CASE TrackedGone(index, p[1])'
      <4>1. PICK q \in Records : q[1] = p[1] /\ HeadTree[q] # None
        BY <2>0, <3>1 DEF TrackedGone
      <4>2. p[1] \notin Listed
        BY <3>0, <3>1 DEF TrackedGone
      <4> QED
        BY <2>2, <4>1, <4>2
    <3>2. CASE p \in Records /\ CanOpen(p[1])' /\ live'[p] = None
      <4>1. CanOpen(p[1]) /\ live[p] = None
        BY <2>0, <3>2, SameAccount
      <4> QED
        BY <2>0, <2>2, <3>0, <3>2, <4>1
    <3> QED
      BY <3>0, <3>1, <3>2
  <2> QED
    BY <2>1, <2>3, <2>4
<1> QED
  BY <1>1, IInvHolds, PTL DEF SwitchReadsClean, Spec

============================================================================
