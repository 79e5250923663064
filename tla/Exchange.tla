------------------------------ MODULE Exchange ------------------------------
(***************************************************************************)
(* Accounts that share one branch through a remote: fetch, pull, merge,    *)
(* cherry-pick and push of src/src/mvxgit.c, with the write-back of the    *)
(* records that a move of HEAD asks for.                                   *)
(*                                                                         *)
(* An account is driven in one of two ways.  A command line driver has the *)
(* records: the engine writes them back itself, and then the index.  The   *)
(* GIT verb of a UniVerse session has them too, but the engine is then in  *)
(* mvgitd, in the process that serves the session, and that one has none:  *)
(* a record primitive ends it, and the session waits for its answer for    *)
(* ever.  There the verb writes the records back, with GITUDT.CHECKOUT,    *)
(* after the engine has answered, whatever the answer.                     *)
(*                                                                         *)
(* What `add` stages, and files and the VOC, are RecordGit's: here every   *)
(* record is one that a wholesale add stages, of a file that stays, whose  *)
(* control is in every commit.  A user types one command at a time, and    *)
(* the account has one user.                                               *)
(***************************************************************************)
EXTENDS Naturals, Sequences

CONSTANTS
    Accounts,
    First,         \* the account that has made the first commit
    Verb,          \* the accounts driven by the GIT verb of a session
    Data, Dict,    \* the records, of the data and of the dictionary of a file
    Values,        \* what a record may hold
    None,          \* no record
    MaxCommits,    \* bound on the commits made
    MaxEvents      \* bound on the records users write or delete, the commands
                   \* killed half way, the records the engine fails to read and
                   \* the pushes that force or delete

ASSUME ConstantsAssumption ==
    /\ First \in Accounts /\ Verb \subseteq Accounts
    /\ Data \cap Dict = {} /\ None \notin Values
    /\ MaxCommits \in Nat /\ MaxEvents \in Nat

VARIABLES
    commits,     \* every commit made: its tree, its parents, its ancestry
    remote,      \* the remote's branch, 0 when a push has deleted it
    tip,         \* the branch in every account, 0 before it is cloned
    tracking,    \* refs/remotes/origin/<branch>
    index,       \* the git index
    live,        \* the records
    job,         \* what the command at work has still to do
    budget,      \* the edits and kills left
    \* Not the program's: what the user of an account has changed since the account
    \* and its tip agreed, what a write-back left behind that the tip does not have,
    \* and the accounts where a move of HEAD was broken off.
    touched, left, torn

repos  == <<commits, remote, tip, tracking>>
ghosts == <<touched, left, torn>>
vars   == <<repos, index, live, job, budget, ghosts>>

Records == Data \cup Dict
Held    == Values \cup {None}
Tree    == [Records -> Held]
Empty   == [r \in Records |-> None]

TreeOf(c) == commits[c].tree
AncOf(c)  == commits[c].anc
HeadTree(a) == TreeOf(tip[a])

TypeOK ==
    /\ commits \in Seq([tree : Tree, parents : SUBSET Nat, anc : SUBSET Nat])
    /\ \A c \in 1..Len(commits) :
          /\ commits[c].parents \subseteq 1..(c - 1)
          /\ c \in commits[c].anc /\ commits[c].anc \subseteq 1..c
    /\ remote \in 0..Len(commits)
    /\ tip \in [Accounts -> 0..Len(commits)]
    /\ tracking \in [Accounts -> 0..Len(commits)]
    /\ index \in [Accounts -> Tree] /\ live \in [Accounts -> Tree]
    /\ job \in [Accounts -> {"idle", "records", "index", "native", "prune", "hung"}]
    /\ budget \in 0..MaxEvents
    /\ touched \in [Accounts -> SUBSET Records] /\ left \in [Accounts -> SUBSET Records]
    /\ torn \subseteq Accounts

\* The first account has made its first commit, of every record, and pushed it; the
\* others have nothing yet.
Init ==
    \E v \in Values :
    LET tree == [r \in Records |-> v] IN
    /\ commits = <<[tree |-> tree, parents |-> {}, anc |-> {1}]>> /\ remote = 1
    /\ tip = [a \in Accounts |-> IF a = First THEN 1 ELSE 0] /\ tracking = tip
    /\ index = [a \in Accounts |-> IF a = First THEN tree ELSE Empty] /\ live = index
    /\ job = [a \in Accounts |-> "idle"]
    /\ budget = MaxEvents
    /\ touched = [a \in Accounts |-> {}] /\ left = [a \in Accounts |-> {}]
    /\ torn = {}

\* A user can type the next command; an account that has nothing can only be cloned.
Idle(a) == job[a] = "idle" /\ tip[a] # 0

Go(a, from, to) == job[a] = from /\ job' = [job EXCEPT ![a] = to]

-----------------------------------------------------------------------------
(* The user's edits, add and commit; an add that has nothing to do is no step. *)

Write(a, r, v) ==
    /\ Idle(a) /\ budget > 0 /\ live[a][r] # v
    /\ live' = [live EXCEPT ![a][r] = v]
    /\ touched' = [touched EXCEPT ![a] = @ \cup {r}]
    /\ budget' = budget - 1
    /\ UNCHANGED <<repos, index, job, left, torn>>

AddAll(a) ==
    /\ Idle(a) /\ index[a] # live[a]
    /\ index' = [index EXCEPT ![a] = live[a]]
    /\ UNCHANGED <<repos, live, job, budget, ghosts>>

AddRecord(a, r) ==
    /\ Idle(a) /\ live[a][r] \notin {None, index[a][r]}
    /\ index' = [index EXCEPT ![a][r] = live[a][r]]
    /\ UNCHANGED <<repos, live, job, budget, ghosts>>

\* Mutated: the branch is left at the commit before.
RecordBefore(a, tree, parents) ==
    LET n == Len(commits) IN
    /\ n < MaxCommits
    /\ commits' = Append(commits,
          [tree |-> tree, parents |-> parents,
           anc |-> {n} \cup UNION {commits[c].anc : c \in parents}])
    /\ tip' = [tip EXCEPT ![a] = n]

\* A new commit at the tip of a.
Record(a, tree, parents) ==
    LET n == Len(commits) + 1 IN
    /\ n <= MaxCommits
    /\ commits' = Append(commits,
          [tree |-> tree, parents |-> parents,
           anc |-> {n} \cup UNION {commits[c].anc : c \in parents}])
    /\ tip' = [tip EXCEPT ![a] = n]

\* What the user of a has done to the records, and what was left behind, where the
\* account still differs from the commit `tree`; `more` is left behind now.
Settled(a, tree, ix, recs, more) ==
    LET apart == {r \in Records : recs[r] # tree[r] \/ ix[r] # tree[r]} IN
    /\ touched' = [touched EXCEPT ![a] = @ \cap apart]
    /\ left' = [left EXCEPT ![a] = (@ \cup more) \cap apart]

Commit(a) ==
    /\ Idle(a) /\ index[a] # HeadTree(a)
    /\ Record(a, index[a], {tip[a]})
    /\ Settled(a, index[a], index[a], live[a], {})
    /\ UNCHANGED <<remote, tracking, index, live, job, budget, torn>>

-----------------------------------------------------------------------------
(* Writing the tip's records back.                                          *)

\* A subtree that is not in the commit is not visited; a dictionary is always in
\* it, for the control.
Visited(tree, r) == r \in Dict \/ \E s \in Data : tree[s] # None

\* Mutated: what the commit does not hold is left where it is.
WrittenOver(tree, recs) == [r \in Records |-> IF tree[r] # None THEN tree[r] ELSE recs[r]]

Written(tree, recs) ==
    [r \in Records |-> IF Visited(tree, r) THEN tree[r] ELSE recs[r]]

WriteRecords(a) ==
    /\ Go(a, "records", "index")
    /\ live' = [live EXCEPT ![a] = Written(HeadTree(a), live[a])]
    /\ UNCHANGED <<repos, index, budget, ghosts>>

SyncIndex(a) ==
    /\ Go(a, "index", "idle")
    /\ index' = [index EXCEPT ![a] = HeadTree(a)]
    /\ Settled(a, HeadTree(a), HeadTree(a), live[a],
               {r \in Records : ~Visited(HeadTree(a), r)})
    /\ torn' = torn \ {a}
    /\ UNCHANGED <<repos, live, budget>>

\* The engine cannot read a record's object: its answer is the error, and the verb
\* writes that text, some value v, as the record.
NativeGarbles(a, r, v) ==
    /\ Go(a, "native", "prune")
    /\ budget > 0 /\ HeadTree(a)[r] \notin {None, v}
    /\ live' = [live EXCEPT ![a] = [s \in Records |->
                   IF s = r THEN v
                   ELSE IF HeadTree(a)[s] # None THEN HeadTree(a)[s] ELSE live[a][s]]]
    /\ left' = [left EXCEPT ![a] = @ \cup {r}]
    /\ budget' = budget - 1
    /\ UNCHANGED <<repos, index, touched, torn>>

\* GITUDT.CHECKOUT writes every record of HEAD ...
NativeWrite(a) ==
    /\ Go(a, "native", "prune")
    /\ live' = [live EXCEPT ![a] = [r \in Records |->
                   IF HeadTree(a)[r] # None THEN HeadTree(a)[r] ELSE live[a][r]]]
    /\ UNCHANGED <<repos, index, budget, ghosts>>

\* ... and then deletes what HEAD does not have, of the data of the files HEAD has
\* data of.
Pruned(tree, recs) ==
    [r \in Records |-> IF r \in Data /\ Visited(tree, r) THEN tree[r] ELSE recs[r]]

NativePrune(a) ==
    LET after == Pruned(HeadTree(a), live[a]) IN
    /\ Go(a, "prune", "idle")
    /\ live' = [live EXCEPT ![a] = after]
    /\ Settled(a, HeadTree(a), index[a], after,
               {r \in Records : HeadTree(a)[r] = None
                                   /\ (r \in Dict \/ ~Visited(HeadTree(a), r))})
    /\ torn' = IF index[a] = HeadTree(a) THEN torn \ {a} ELSE torn
    /\ UNCHANGED <<repos, index, budget>>

\* GIT CHECKOUT without a branch, in a session.
CheckOut(a) ==
    /\ a \in Verb /\ Idle(a) /\ Go(a, "idle", "native")
    /\ UNCHANGED <<repos, index, live, budget, ghosts>>

\* GITRESTORE deletes what the commit does not have; GITUDT.RESTORE only writes.
Restored(a, half, tree) ==
    [r \in Records |->
        IF r \in half /\ (tree[r] # None \/ a \notin Verb) THEN tree[r] ELSE live[a][r]]

Restore(a, half) ==
    LET after == Restored(a, half, HeadTree(a)) IN
    /\ Idle(a)
    /\ \E r \in half : Visited(HeadTree(a), r)
    /\ live' = [live EXCEPT ![a] = after]
    /\ Settled(a, HeadTree(a), index[a], after, {})
    /\ UNCHANGED <<repos, index, job, budget, torn>>

-----------------------------------------------------------------------------
(* Merging trees, record by record.                                         *)

Conflicts(base, ours, theirs) ==
    {r \in Records : ours[r] # base[r] /\ theirs[r] # base[r] /\ ours[r] # theirs[r]}

Merged(base, ours, theirs) ==
    [r \in Records |-> IF ours[r] = base[r] THEN theirs[r] ELSE ours[r]]

\* What a merge may start from: a best common ancestor.
MergeBases(b, c) ==
    LET common == AncOf(b) \cap AncOf(c)
    IN  {d \in common : \A e \in common \ {d} : d \notin AncOf(e)}

\* The engine has moved HEAD and is to write the records: the one in mvgitd ends at
\* the first of them, and with it the answer the session waits for.
WritesBack(a) == Go(a, "idle", IF a \in Verb THEN "hung" ELSE "records")

\* The engine has answered: that is the end of a driver's command, and the verb goes
\* on to write the records of HEAD.
Answers(a) == Go(a, "idle", IF a \in Verb THEN "native" ELSE "idle")

Reports(a) == Answers(a) /\ UNCHANGED <<commits, tip, index>>

\* A conflict is reported and leaves everything as it was.
FinishMerge(a, base, theirs, parents) ==
    \/ Conflicts(base, HeadTree(a), theirs) # {} /\ Reports(a)
    \/ /\ Conflicts(base, HeadTree(a), theirs) = {}
       /\ Record(a, Merged(base, HeadTree(a), theirs), parents)
       /\ WritesBack(a)
       /\ UNCHANGED index

FastForward(a, c, materialise) ==
    /\ tip' = [tip EXCEPT ![a] = c]
    /\ IF materialise
       THEN WritesBack(a) /\ UNCHANGED index
       ELSE Answers(a) /\ index' = [index EXCEPT ![a] = TreeOf(c)]
    /\ UNCHANGED commits

\* Mutated: a branch that has commits of its own is moved all the same.
FastForwardAlways(a, c, materialise) ==
    \/ c \in AncOf(tip[a]) /\ Reports(a)
    \/ c \notin AncOf(tip[a]) /\ FastForward(a, c, materialise)

\* merge_into_head: one way for merge and for pull.
MergeIntoHead(a, c, materialise) ==
    \/ c \in AncOf(tip[a]) /\ Reports(a)
    \/ c \notin AncOf(tip[a]) /\ tip[a] \in AncOf(c) /\ FastForward(a, c, materialise)
    \/ /\ c \notin AncOf(tip[a]) /\ tip[a] \notin AncOf(c)
       /\ \E base \in MergeBases(tip[a], c) :
             FinishMerge(a, TreeOf(base), TreeOf(c), {tip[a], c})

Merge(a) ==
    /\ Idle(a) /\ tracking[a] # 0 /\ MergeIntoHead(a, tracking[a], TRUE)
    /\ UNCHANGED <<remote, tracking, live, budget, ghosts>>

\* A commit of the repository that is not a merge, put on HEAD as a change; one that
\* HEAD does not have yet, to keep the instances small.
CherryPick(a, c) ==
    /\ Idle(a) /\ tracking[a] # 0 /\ c \in AncOf(tracking[a]) \ AncOf(tip[a])
    /\ \E parent \in commits[c].parents :
          /\ commits[c].parents = {parent}
          /\ FinishMerge(a, TreeOf(parent), TreeOf(c), {tip[a]})
    /\ UNCHANGED <<remote, tracking, live, budget, ghosts>>

-----------------------------------------------------------------------------
(* The remote.                                                              *)

\* The remote-tracking branch of a after a fetch, which moves it wherever the remote's
\* branch is and leaves it where it was when the remote has none.
Fetched(a) == IF remote = 0 THEN tracking ELSE [tracking EXCEPT ![a] = remote]

Fetch(a) ==
    /\ Idle(a) /\ Fetched(a) # tracking
    /\ tracking' = Fetched(a)
    /\ UNCHANGED <<commits, remote, tip, index, live, job, budget, ghosts>>

\* In a session GITPULLREF, which leaves the records of a fast-forward alone.
Pull(a) ==
    /\ Idle(a)
    /\ tracking' = Fetched(a) /\ Fetched(a)[a] # 0
    /\ MergeIntoHead(a, Fetched(a)[a], a \notin Verb)
    /\ UNCHANGED <<remote, live, budget, ghosts>>

\* The fetch fails (no such remote, nobody there, no credentials), or the branch does
\* not exist.
PullFails(a) ==
    /\ Idle(a) /\ Reports(a)
    /\ UNCHANGED <<remote, tracking, live, budget, ghosts>>

\* The remote's branch is at c, and so is what the account remembers of it.
Pushed(a, c) ==
    /\ Idle(a)
    /\ remote' = c /\ tracking' = [tracking EXCEPT ![a] = c]
    /\ UNCHANGED <<commits, tip, index, live, job, touched, left, torn>>

\* An update that is not a fast-forward is refused before it is sent.  (A refspec that
\* names an older commit of the branch sends what a push would have sent earlier.)
Push(a) ==
    /\ Pushed(a, tip[a]) /\ UNCHANGED budget
    /\ remote = 0 \/ remote \in AncOf(tip[a])

\* A refspec goes to the library as the user typed it: with a plus sign the update
\* is not checked, and without a source it deletes the remote's branch.
Asked == budget > 0 /\ budget' = budget - 1

PushForced(a, c) == Pushed(a, c) /\ Asked /\ c \in AncOf(tip[a])
PushDeletion(a)  == Pushed(a, 0) /\ Asked /\ remote # 0

\* An account that has nothing is made from the remote.
Clone(a) ==
    /\ tip[a] = 0 /\ remote # 0
    /\ tip' = [tip EXCEPT ![a] = remote] /\ tracking' = [tracking EXCEPT ![a] = remote]
    /\ index' = [index EXCEPT ![a] = TreeOf(remote)]
    /\ live' = [live EXCEPT ![a] = TreeOf(remote)]
    /\ UNCHANGED <<commits, remote, job, budget, ghosts>>

\* A command dies, or its user ends a session that waits for an answer; a verb whose
\* engine cannot list HEAD's paths writes nothing, and ends here too.
Kill(a) ==
    /\ job[a] # "idle"
    /\ job' = [job EXCEPT ![a] = "idle"]
    /\ IF job[a] = "hung" THEN UNCHANGED budget ELSE budget > 0 /\ budget' = budget - 1
    /\ torn' = torn \cup {a}
    /\ UNCHANGED <<repos, index, live, touched, left>>

-----------------------------------------------------------------------------
Local(a) ==
    \/ \E r \in Records : AddRecord(a, r) \/ \E v \in Held : Write(a, r, v)
    \/ AddAll(a) \/ Commit(a) \/ CheckOut(a)
    \/ \E half \in {Data, Dict} : Restore(a, half)

History(a) ==
    \/ Merge(a) \/ Fetch(a) \/ Pull(a) \/ PullFails(a) \/ Push(a) \/ Clone(a)
    \/ PushDeletion(a) \/ \E c \in 1..Len(commits) : PushForced(a, c) \/ CherryPick(a, c)

Progress(a) ==
    \/ WriteRecords(a) \/ SyncIndex(a) \/ NativeWrite(a) \/ NativePrune(a) \/ Kill(a)
    \/ \E r \in Records, v \in Values : NativeGarbles(a, r, v)

Next == \E a \in Accounts : Local(a) \/ History(a) \/ Progress(a)

Spec == Init /\ [][Next]_vars

-----------------------------------------------------------------------------
(* What the users of the accounts rely on.                                  *)

\* An account between two commands differs from its tip, in the index or in the
\* records, only in what its own user has changed and in what a write-back does not
\* reach, unless a move of HEAD was broken off: so no commit takes back what its user
\* did not change (merge_into_head, sync_index, GIT.PULL, GITCOMMIT).
OwnChangesOnly ==
    \A a \in Accounts \ torn : \A r \in Records :
        Idle(a) /\ (index[a][r] # HeadTree(a)[r] \/ live[a][r] # HeadTree(a)[r])
        => r \in touched[a] \cup left[a]

\* No command takes a commit out of an account's branch, whatever the others commit,
\* merge, pull, force or delete; and the remote's branch loses one only to a push whose
\* refspec forces it or names no source (the event such a push spends tells it from
\* another): merge_fast_forward, finish_merge, GITCOMMIT, GITPUSH.
HistoryKept ==
    [][/\ \A a \in Accounts : tip[a] # 0 => AncOf(tip[a]) \subseteq AncOf(tip[a])'
       /\ \/ remote # 0 => remote' # 0 /\ AncOf(remote) \subseteq AncOf(remote)'
          \/ \E a \in Accounts :
                PushDeletion(a) \/ \E c \in 1..Len(commits) : PushForced(a, c)]_vars

(* What the code says and does not do.                                      *)

\* GITPULLREF and GIT MERGE: the process without records does the part on git's
\* objects, and the session writes the records; so the session gets its answer.
AnswersSession == \A a \in Accounts : job[a] # "hung"

=============================================================================
