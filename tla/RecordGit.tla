------------------------------ MODULE RecordGit ------------------------------
(***************************************************************************)
(* The record-git engine (src/src/mvxgit.c) driving one MultiValue account *)
(* in the native form, as uv-git runs it: the records of the account are   *)
(* the working tree, and git holds one blob per record.                    *)
(*                                                                         *)
(* A path is <<file, half, id>>: the record id of the data or of the       *)
(* dictionary of a file.  VOC is the master file.  A file can be opened by *)
(* name only through its pointer, the VOC record named for the file, which *)
(* is what CREATE.FILE writes, DELETE.FILE removes and the agent's         *)
(* FILELIST reads back.  <<f, "dict", "%FILE%">> is the control of f: it   *)
(* lives in git only, synthesised by `add` from the live file.             *)
(*                                                                         *)
(* A command holds the account from its first step to its last, and the    *)
(* users of the account are idle meanwhile.  The commands that write       *)
(* records back (checkout, merge, cherry-pick) take several steps, between *)
(* which the process may die; every other command is one step.             *)
(***************************************************************************)
EXTENDS Integers, Sequences, FiniteSets

CONSTANTS
    Files,        \* the files users create
    VOC,          \* the master file
    DataIds,      \* record ids of a data file
    DictIds,      \* record ids of a dictionary
    VocIds,       \* ids of VOC records that are not pointers to Files
    Values,       \* what a record may hold
    Pointer,      \* what a pointer to a file holds
    Control,      \* what a file control holds
    None,         \* no record
    Branches, Main,
    Class,        \* VOC id -> 0 the account's own, 1 verb or keyword, 2 pointer
    Stock,        \* VOC id -> what a fresh account of this flavour holds there
    Furniture,    \* VOC ids naming the platform's own files
    Provisioned,  \* VOC ids of the pointers BUILD makes (CATALOG)
    Source,       \* id of a compiled object -> id of its source
    Named,        \* the paths a user names one by one, in add, rm or .gitignore
    MaxCommits    \* bound on the commits made

Records == {<<f, "data", i>> : f \in Files, i \in DataIds}
      \cup {<<f, "dict", i>> : f \in Files, i \in DictIds}
      \cup {<<VOC, "data", i>> : i \in VocIds \cup Files}

PointerTo(f) == <<VOC, "data", f>>
ControlOf(f) == <<f, "dict", "%FILE%">>
Controls     == {ControlOf(f) : f \in Files}
GitPaths     == Records \cup Controls
DirOf(p)     == <<p[1], p[2]>>
InVoc(p)     == p[1] = VOC

ASSUME ConstantsAssumption ==
    /\ VOC \notin Files /\ Main \in Branches /\ MaxCommits \in Nat
    /\ Files \cap VocIds = {} /\ "%FILE%" \notin DictIds
    /\ None \notin Values \cup {Pointer, Control}
    /\ Class \in [VocIds -> 0..2]
    /\ DOMAIN Stock \subseteq VocIds \cup DataIds
    /\ \A i \in DOMAIN Stock : Stock[i] \in Values
    /\ Furniture \subseteq VocIds /\ Provisioned \subseteq VocIds
    /\ DOMAIN Source \subseteq DataIds
    /\ Named \subseteq Records

VARIABLES
    live,      \* the records of the account
    disk,      \* the files that exist underneath, whether or not VOC names them
    ignored,   \* the record paths .gitignore or GIT IGNORE excludes
    index,     \* the git index
    commits,   \* every commit made: its tree, its parents, its ancestry
    branch,    \* branch -> the number of its tip commit, 0 when there is none
    head,      \* the branch HEAD names
    job        \* how far the command writing records back has come

account == <<live, disk, ignored>>
history == <<commits, branch, head>>
vars == <<live, disk, ignored, index, commits, branch, head, job>>

Held   == Values \cup {Pointer, Control, None}
Tree   == [GitPaths -> Held]
Empty  == [p \in GitPaths |-> None]
Dirs   == {DirOf(p) : p \in GitPaths}
Idle   == [pc |-> "idle", todo |-> {}]

DirsIn(tree) == {DirOf(p) : p \in {q \in GitPaths : tree[q] # None}}
HeadTree == IF branch[head] = 0 THEN Empty ELSE commits[branch[head]].tree

TypeOK ==
    /\ live \in [Records -> Held]
    /\ disk \subseteq Files
    /\ ignored \subseteq Records
    /\ index \in Tree
    /\ commits \in Seq([tree : Tree, parents : SUBSET Nat, anc : SUBSET Nat])
    /\ \A c \in 1..Len(commits) :
          /\ commits[c].parents \subseteq 1..(c - 1)
          /\ c \in commits[c].anc /\ commits[c].anc \subseteq 1..c
    /\ branch \in [Branches -> 0..Len(commits)]
    /\ head \in Branches
    /\ job \in [pc : {"idle", "records", "files", "index"}, todo : SUBSET Dirs]

-----------------------------------------------------------------------------
(* What the account answers.                                               *)

\* FILELIST reads the VOC, and nothing but the VOC.
Listed == {f \in Files : live[PointerTo(f)] # None}

CanOpen(f) == f = VOC \/ (f \in Listed /\ f \in disk)

Present(p) == CanOpen(p[1]) /\ live[p] # None

ClassOf(i) == IF i \in Files THEN 2 ELSE Class[i]

IsStockRecord(p) == p[3] \in DOMAIN Stock /\ live[p] = Stock[p[3]]

IsObject(p) == /\ p[3] \in DOMAIN Source
               /\ Present(<<p[1], p[2], Source[p[3]]>>)

IsProvision(p) == InVoc(p) /\ p[3] \in Provisioned

-----------------------------------------------------------------------------
(* Staging.                                                                *)

\* Mutated: every VOC pointer is left out, whoever's file it names.
AddSkipsPointers(p) ==
    \/ InVoc(p) /\ (ClassOf(p[3]) \in {1, 2} \/ IsStockRecord(p))
    \/ p \in ignored \/ IsProvision(p) \/ IsObject(p)

\* What a wholesale add of a file leaves out.
AddSkips(p) ==
    \/ InVoc(p) /\ \/ ClassOf(p[3]) = 1
                   \/ ClassOf(p[3]) = 2 /\ p[3] \in Furniture \cup Listed
                   \/ IsStockRecord(p)
    \/ p \in ignored
    \/ IsProvision(p)
    \/ IsObject(p)

\* Mutated: staging only ever adds.
StageFilesOnly(ix, dirs) ==
    [p \in GitPaths |->
        IF /\ p \in Records /\ DirOf(p) \in dirs /\ CanOpen(p[1])
           /\ live[p] # None /\ ~AddSkips(p)
        THEN live[p] ELSE ix[p]]

\* The wholesale add of the files `dirs`: stage what is there, then drop what
\* can no longer be read.  A file that cannot be opened is passed over.
StageFiles(ix, dirs) ==
    [p \in GitPaths |->
        IF p \in Records /\ DirOf(p) \in dirs /\ CanOpen(p[1])
        THEN IF live[p] = None THEN None
             ELSE IF AddSkips(p) THEN ix[p] ELSE live[p]
        ELSE ix[p]]

\* git's own pass over the working tree.  A record is not a file on disk, so a
\* tracked record the pass is not told to leave alone looks deleted: only the
\* data of a listed file is left alone, and every control.
DiskPass(ix) ==
    [p \in GitPaths |->
        IF p \in Records /\ (p[2] = "dict" \/ p[1] \notin Listed \cup {VOC})
        THEN None ELSE ix[p]]

\* The index holds content, and not just a control, for a file that is gone.
TrackedGone(ix, f) ==
    /\ f \in Files \ Listed
    /\ \E p \in Records : p[1] = f /\ ix[p] # None

Prune(ix) ==
    [p \in GitPaths |->
        IF /\ TrackedGone(ix, p[1]) /\ p[2] = "data"
           /\ <<p[1], "dict">> \in DirsIn(ix)
        THEN None ELSE ix[p]]

StageControls(ix) ==
    [p \in GitPaths |-> IF p \in Controls /\ CanOpen(p[1]) THEN Control ELSE ix[p]]

StageAll(ix) ==
    Prune(StageControls(
        StageFiles(DiskPass(ix), {d \in Dirs : d[1] \in Listed \cup {VOC}})))

-----------------------------------------------------------------------------
(* What `status` prints.                                                   *)

Tracked(p) == index[p] # None

\* The walk over the live records of every file the index has something of.
StatusWalks(p) ==
    /\ Present(p)
    /\ DirOf(p) \in DirsIn(index)
    /\ InVoc(p) => /\ ClassOf(p[3]) # 1
                   /\ ClassOf(p[3]) = 2 => p[3] \notin Furniture \cup Listed
                   /\ IsStockRecord(p) => Tracked(p)
    /\ ~IsObject(p)

Untracked == {p \in Records : /\ StatusWalks(p) /\ ~Tracked(p)
                              /\ p \notin ignored /\ ~IsProvision(p)}

Modified == {p \in Records : StatusWalks(p) /\ Tracked(p) /\ index[p] # live[p]}

Deleted ==
    {p \in GitPaths :
        /\ Tracked(p)
        /\ \/ TrackedGone(index, p[1])
           \/ ~TrackedGone(index, p[1]) /\ p \in Records /\ CanOpen(p[1]) /\ live[p] = None}

Staged == {p \in GitPaths : index[p] # HeadTree[p]}

-----------------------------------------------------------------------------
Init ==
    /\ live = [p \in Records |->
                  IF InVoc(p) /\ p[3] \in DOMAIN Stock THEN Stock[p[3]] ELSE None]
    /\ disk = {} /\ ignored = {}
    /\ index = Empty
    /\ commits = << >> /\ branch = [b \in Branches |-> 0] /\ head = Main
    /\ job = Idle

(* The users of the account, in their sessions.                            *)

WriteRecord(p, v) ==
    /\ job = Idle /\ CanOpen(p[1]) /\ p[3] \notin Files /\ live[p] # v
    /\ live' = [live EXCEPT ![p] = v]
    /\ UNCHANGED <<disk, ignored, index, history, job>>

DeleteRecord(p) ==
    /\ job = Idle /\ Present(p) /\ p[3] \notin Files
    /\ live' = [live EXCEPT ![p] = None]
    /\ UNCHANGED <<disk, ignored, index, history, job>>

CreateFile(f) ==
    /\ job = Idle /\ f \notin disk /\ f \notin Listed
    /\ disk' = disk \cup {f}
    /\ live' = [live EXCEPT ![PointerTo(f)] = Pointer]
    /\ UNCHANGED <<ignored, index, history, job>>

\* The account without the files `gone`: data, dictionary and pointer.
Without(gone) ==
    [p \in Records |->
        IF p[1] \in gone \/ (InVoc(p) /\ p[3] \in gone) THEN None ELSE live[p]]

DeleteFile(f) ==
    /\ job = Idle /\ CanOpen(f)
    /\ disk' = disk \ {f} /\ live' = Without({f})
    /\ UNCHANGED <<ignored, index, history, job>>

ToggleIgnore(p) ==
    /\ job = Idle
    /\ ignored' = IF p \in ignored THEN ignored \ {p} ELSE ignored \cup {p}
    /\ UNCHANGED <<live, disk, index, history, job>>

-----------------------------------------------------------------------------
(* Commands that change the index or the history and write no record.      *)

AddAll ==
    /\ job = Idle
    /\ index' = StageAll(index)
    /\ UNCHANGED <<account, history, job>>

AddFile(d) ==
    /\ job = Idle
    /\ index' = StageFiles(index, {d})
    /\ UNCHANGED <<account, history, job>>

\* Naming a record overrides every exclusion but the ignore lists.
AddRecord(p) ==
    /\ job = Idle /\ Present(p) /\ p \notin ignored
    /\ index' = [index EXCEPT ![p] = live[p]]
    /\ UNCHANGED <<account, history, job>>

Rm(p) ==
    /\ job = Idle /\ Tracked(p)
    /\ index' = [index EXCEPT ![p] = None]
    /\ UNCHANGED <<account, history, job>>

RmFile(d) ==
    /\ job = Idle /\ d \in DirsIn(index)
    /\ index' = [p \in GitPaths |-> IF DirOf(p) = d THEN None ELSE index[p]]
    /\ UNCHANGED <<account, history, job>>

\* Mutated: the tip of HEAD's branch is a parent even when there is none.
RecordUnborn(tree, parents) ==
    LET n == Len(commits) + 1 IN
    /\ n <= MaxCommits
    /\ commits' = Append(commits,
          [tree |-> tree, parents |-> parents \cup {branch[head]},
           anc |-> {n} \cup UNION {commits[c].anc : c \in parents}])
    /\ branch' = [branch EXCEPT ![head] = n]

\* A commit on HEAD's branch; what else it changes is the caller's to say.
Record(tree, parents) ==
    LET n == Len(commits) + 1 IN
    /\ n <= MaxCommits
    /\ commits' = Append(commits,
          [tree |-> tree, parents |-> parents,
           anc |-> {n} \cup UNION {commits[c].anc : c \in parents}])
    /\ branch' = [branch EXCEPT ![head] = n]

Commit ==
    /\ job = Idle
    /\ branch[head] # 0 => index # HeadTree
    /\ Record(index, {branch[head]} \ {0})
    /\ UNCHANGED <<account, index, head, job>>

CreateBranch(b) ==
    /\ job = Idle /\ branch[head] # 0 /\ branch[b] = 0
    /\ branch' = [branch EXCEPT ![b] = branch[head]]
    /\ UNCHANGED <<account, index, commits, head, job>>

-----------------------------------------------------------------------------
(* Writing a commit's records back into the account.                       *)

Materialise(tree) == job' = [pc |-> "records", todo |-> DirsIn(tree)]

\* Mutated: what the commit does not hold is left where it is.
ReconciledNever(p) == IF HeadTree[p] # None THEN HeadTree[p] ELSE live[p]

\* What the reconcile leaves of a record of a file the commit holds.
Reconciled(p) ==
    IF HeadTree[p] # None THEN HeadTree[p]
    ELSE IF p[3] \in DOMAIN Stock THEN live[p] ELSE None

\* One subtree of the commit.  The file is created first if nothing answers to
\* its name; CREATE.FILE refuses when there is something underneath.
MaterialiseFile(d) ==
    LET f    == d[1]
        made == f # VOC /\ f \notin Listed /\ f \notin disk
    IN  /\ job.pc = "records" /\ d \in job.todo
        /\ disk' = IF made THEN disk \cup {f} ELSE disk
        /\ live' = [p \in Records |->
              IF made /\ p = PointerTo(f) THEN Pointer
              ELSE IF (made \/ CanOpen(f)) /\ DirOf(p) = d THEN Reconciled(p)
              ELSE live[p]]
        /\ job' = [job EXCEPT !.todo = @ \ {d}]
        /\ UNCHANGED <<ignored, index, history>>

TreeHasFile(tree, f) == tree[ControlOf(f)] # None \/ tree[PointerTo(f)] # None

\* Mutated: the files of the branch left behind are not visited.
DropFilesNever ==
    /\ job.pc = "records" /\ job.todo = {}
    /\ job' = [job EXCEPT !.pc = "index"]
    /\ UNCHANGED <<account, index, history>>

\* Files git tracked that this commit no longer has.
DropFiles ==
    LET gone == {f \in Files : /\ CanOpen(f) /\ ~TreeHasFile(HeadTree, f)
                               /\ Tracked(ControlOf(f))}
    IN  /\ job.pc = "records" /\ job.todo = {}
        /\ disk' = disk \ gone /\ live' = Without(gone)
        /\ job' = [job EXCEPT !.pc = "index"]
        /\ UNCHANGED <<ignored, index, history>>

\* Mutated: the index keeps the entries HEAD does not replace.
SyncIndexOver ==
    /\ job.pc = "index"
    /\ index' = [p \in GitPaths |-> IF HeadTree[p] # None THEN HeadTree[p] ELSE index[p]]
    /\ job' = Idle
    /\ UNCHANGED <<account, history>>

SyncIndex ==
    /\ job.pc = "index"
    /\ index' = HeadTree
    /\ job' = Idle
    /\ UNCHANGED <<account, history>>

\* The process dies: the account, the index and HEAD stay as they are.
Crash ==
    /\ job # Idle
    /\ job' = Idle
    /\ UNCHANGED <<account, index, history>>

Checkout(b) ==
    /\ job = Idle /\ branch[b] # 0
    /\ head' = b
    /\ Materialise(commits[branch[b]].tree)
    /\ UNCHANGED <<account, index, commits, branch>>

\* HEAD and the index move; the records are left for the caller to write.
SwitchHead(b) ==
    /\ job = Idle /\ branch[b] # 0
    /\ head' = b /\ index' = commits[branch[b]].tree
    /\ UNCHANGED <<account, commits, branch, job>>

-----------------------------------------------------------------------------
(* Merging trees, path by path.                                            *)

Conflicts(base, ours, theirs) ==
    {p \in GitPaths : /\ ours[p] # base[p] /\ theirs[p] # base[p]
                      /\ ours[p] # theirs[p]}

Merged(base, ours, theirs) ==
    [p \in GitPaths |-> IF ours[p] = base[p] THEN theirs[p] ELSE ours[p]]

\* What a merge may start from: a best common ancestor, or nothing.
MergeBases(a, b) ==
    LET common == commits[a].anc \cap commits[b].anc
        best   == {c \in common : \A e \in common \ {c} : c \notin commits[e].anc}
    IN  IF common = {} THEN {Empty} ELSE {commits[c].tree : c \in best}

\* Mutated: only the commit merged in becomes a parent.
FinishMergeOther(base, theirs, parents) ==
    LET tree == Merged(base, HeadTree, theirs)
    IN  /\ Conflicts(base, HeadTree, theirs) = {}
        /\ Record(tree, IF Cardinality(parents) = 2 THEN parents \ {branch[head]}
                        ELSE parents)
        /\ Materialise(tree)
        /\ UNCHANGED <<account, index, head>>

\* The end of every merge that is not a fast-forward: a conflict is reported
\* and leaves everything as it was.
FinishMerge(base, theirs, parents) ==
    LET ours == HeadTree
        tree == Merged(base, ours, theirs)
    IN  /\ Conflicts(base, ours, theirs) = {}
        /\ Record(tree, parents)
        /\ Materialise(tree)
        /\ UNCHANGED <<account, index, head>>

Merge(b) ==
    LET ours   == branch[head]
        theirs == branch[b]
    IN  /\ job = Idle /\ ours # 0 /\ theirs # 0
        /\ theirs \notin commits[ours].anc
        /\ \/ /\ ours \in commits[theirs].anc
              /\ branch' = [branch EXCEPT ![head] = theirs]
              /\ Materialise(commits[theirs].tree)
              /\ UNCHANGED <<account, index, commits, head>>
           \/ /\ ours \notin commits[theirs].anc
              /\ \E base \in MergeBases(ours, theirs) :
                    FinishMerge(base, commits[theirs].tree, {ours, theirs})
           \/ /\ ours \notin commits[theirs].anc
              /\ \E base \in MergeBases(ours, theirs) :
                    Conflicts(base, HeadTree, commits[theirs].tree) # {}
              /\ UNCHANGED <<account, index, history, job>>

CherryPick(c) ==
    LET parents == commits[c].parents IN
    /\ job = Idle /\ branch[head] # 0 /\ Cardinality(parents) <= 1
    /\ FinishMerge(IF parents = {} THEN Empty
                   ELSE commits[CHOOSE q \in parents : TRUE].tree,
                   commits[c].tree, {branch[head]})

\* Write a file back from HEAD and delete whatever else it holds.
Restore(f) ==
    LET d == <<f, "data">> IN
    /\ job = Idle /\ d \in DirsIn(HeadTree) /\ CanOpen(f)
    /\ live' = [p \in Records |-> IF DirOf(p) = d THEN HeadTree[p] ELSE live[p]]
    /\ UNCHANGED <<disk, ignored, index, history, job>>

-----------------------------------------------------------------------------
User ==
    \/ \E p \in Records, v \in Values : WriteRecord(p, v)
    \/ \E p \in Records : DeleteRecord(p)
    \/ \E f \in Files : CreateFile(f) \/ DeleteFile(f)
    \/ \E p \in Named : ToggleIgnore(p)

Stage ==
    \/ AddAll
    \/ \E d \in Dirs : AddFile(d) \/ RmFile(d)
    \/ \E p \in Named : AddRecord(p) \/ Rm(p)

Switch ==
    \/ \E b \in Branches : CreateBranch(b) \/ Checkout(b) \/ SwitchHead(b) \/ Merge(b)
    \/ \E c \in DOMAIN commits : CherryPick(c)

WriteBack ==
    \/ \E d \in Dirs : MaterialiseFile(d)
    \/ DropFiles \/ SyncIndex \/ Crash
    \/ \E f \in Files \cup {VOC} : Restore(f)

Next == User \/ Stage \/ Commit \/ Switch \/ WriteBack

Spec == Init /\ [][Next]_vars

-----------------------------------------------------------------------------
(* What a careful user of the account relies on.                           *)

CarriesVoc(tree) == <<VOC, "data">> \in DirsIn(tree)

\* No commit so far holds a record of the VOC, and with it the pointers to files.
VocStaysOut == \A c \in DOMAIN commits : ~CarriesVoc(commits[c].tree)

Described(tree) == \A d \in DirsIn(tree) : tree[ControlOf(d[1])] # None

\* What `status` may go on calling modified although `add -A` leaves it alone:
\* a tracked record ignored since, a tracked VOC record that is stock again, or
\* a provisioning pointer once added by name.
StaysModified(p) ==
    p \in ignored \/ (InVoc(p) /\ IsStockRecord(p)) \/ IsProvision(p)

\* Staging and status ask the same questions (GITADD, GITSTATUS) but for those
\* three: after `add -A` nothing is untracked, nothing is deleted, and nothing
\* else reads modified.
AddAllSettles ==
    [][AddAll => /\ Untracked' = {} /\ Deleted' = {}
                 /\ \A p \in Modified' : StaysModified(p)]_vars

\* Deleted data does not return (GITADD's reconcile, the disk pass, GITPRUNE):
\* after `add -A` the index holds no record the account has lost, unless a
\* pointer still names its file and nothing is underneath.
DeletedStaysDeleted ==
    [][AddAll => \A p \in Records :
          index'[p] # None => Present(p) \/ p[1] \in Listed \ disk]_vars

\* A branch only moves forward (GITCOMMIT, merge_fast_forward, finish_merge):
\* its old tip is an ancestor of its new one.
HistoryOnlyGrows ==
    [][\A b \in Branches :
          branch[b] # 0 => branch[b] \in commits'[branch'[b]].anc]_vars

\* When the records have been written back (materialize_tree) every file of the
\* commit that opens holds what the commit says, and nothing else but stock ids,
\* however many earlier write-backs died half way.  A commit that carries the VOC
\* may bring a pointer back after its file was passed over.
WrittenBack ==
    job.pc = "index" /\ ~CarriesVoc(HeadTree) =>
        \A p \in Records :
            DirOf(p) \in DirsIn(HeadTree) /\ CanOpen(p[1]) =>
                live[p] = HeadTree[p] \/ (HeadTree[p] = None /\ p[3] \in DOMAIN Stock)

\* A switch drops the files the new commit lacks (materialize_tree_x): a file
\* whose control the old index held cannot be opened once the switch is over.
SwitchDropsFiles ==
    [][SyncIndex => \A f \in Files :
          index[ControlOf(f)] # None /\ ~TreeHasFile(HeadTree, f) => ~CanOpen(f)]_vars

\* A switch leaves a clean status (sync_index): nothing staged, modified or
\* deleted, when the commit carries the control of every file and no commit ever
\* carried the VOC, whose reconcile would leave a file without its pointer.
SwitchReadsClean ==
    [][SyncIndex /\ VocStaysOut /\ Described(HeadTree) =>
          Staged' = {} /\ Modified' = {} /\ Deleted' = {}]_vars

=============================================================================
