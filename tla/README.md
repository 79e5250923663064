# Verification of mv_git

mv_git puts the records of a MultiValue account (UniVerse, UniData, jBASE, MVX) under
git: one blob per record, one directory per file, through libgit2.  This directory holds
TLA+ models of the parts of it whose correctness is a matter of order, interleaving or
recovery, the TLC configurations that check them on small instances, and proofs of the
most important safety properties for all instances.  Paths below are relative to the
repository root.

To run: `tlc -config <run>.cfg <MC module>` for a run, `tlapm <module>.tla` for the
proofs, which are in `MvgitdProofs`, `MvgitdRefinement`, `RecordGitProofs`,
`AgentSessionProofs`, `StagingProofs`, `AccountBuildProofs`, `ExchangeProofs` and
`OpenFormProofs`.

## 1. The system

### 1.1 Parts, their state and how they meet

| part | source | state | operations |
|---|---|---|---|
| record-git engine | `src/mvxgit.c` | the git repository (index, commits, branches, HEAD), memos of the account's file list, stock baseline, ignore lists | add (record, file, account), rm, status, commit, branch, switch, checkout, merge, cherry-pick, restore, clone, attributes, transport |
| dictionaries of an open account | `src/mvxgit.c` (`MVXGIT_OPENDICT`) | none of its own: names are looked up in the committed dictionaries | project an item into git's form at add and status, translate it back at checkout |
| command-line drivers | `src/uv-git.c`, `udt-git.c`, `jb-git.c`, `mvx-git.c` | none beyond the process | parse, open the account, call the engine |
| mvconn | `src/mvconn.c` | none | resolve account, platform and open-account flag |
| mvsession | `src/mvsession.c` | a pool of sessions: pid, pipes or FIFOs, files opened in each | open, call with deadline, reconnect and replay, close, signal cleanup |
| GIT.AGENT | `BP/GIT.AGENT`, `src/agent_rt.c` | open-file table, one select list | read, write, delete, select/readnext, file list, create and delete file |
| GIT verb | `BP/GIT*` | the session | the BASIC half of every command: walks records, hands them to the daemon |
| GIT.RPC | `BP/GIT.RPC` | two pipe files | one framed request and its reply |
| mvgitd | `src/gitd.c`, `gitproto.h` | run directory: token, pid file and flock, control FIFO, session pipes | `--connect`, `--serve`, `--stop`, `--status`, the accept loop, a child per session |
| gitd_rt | `src/gitd_rt.c` | string values | the recordless runtime: a record primitive ends the process |
| in-process backends | `src/*_rt.c` | vendor handles | the record primitives on vendor libraries |
| checkout in a session | `BP/GITUDT.CHECKOUT`, `GITUDT.RESTORE` | the account | write records back from inside the account |
| attribute editor | `BP/GIT.ATTR` | staged controls | edit `%FILE%` and descriptors in the index |
| clone and provisioning | drivers, `BP/GIT.CLONE` and others | a new account | create, seed, compile, catalogue |
| build, packaging, tests | shell | - | - |

Two ways lead from a user to git.  *From a shell*, a driver such as `uv-git` links the
engine and reaches records through `agent_rt.c` -> `mvsession.c` -> a session of the
database running GIT.AGENT.  *From inside the database*, the GIT verb starts
`mvgitd --connect`, gets a pair of pipes, and GIT.RPC sends requests to a child of the
daemon; that child has no record access, so the BASIC sends it record contents and
writes records back itself.

### 1.2 What is hard

* **mvgitd**: several processes race through one run directory with an flock, a
  pid file and a FIFO, none of which is updated atomically with the others; servers
  idle out, are stopped, killed, and replaced by another build.
* **engine**: the account and the index are two copies of one truth and each command
  visits them in several passes; `add` and `status` decide independently what counts as
  content; a checkout moves HEAD, rewrites records and then the index, and may die in
  between; a reconcile deletes records, and must not delete what `add` left out on
  purpose.
* **dictionaries**: an item crosses between two spellings at every add, status and
  checkout, and what translates it are the names in the dictionaries that cross with it.
* **mvsession and agent**: a call may time out after it was carried out; a session is
  reconnected and its opened files replayed while handles and a half-read select list
  refer to the old one.
* **the verb and its engine**: the session has the records and its engine the
  repository; a batch stays open in the engine's memory over many requests, and each of
  the two can go, or forget, without the other.
* **clone and adopt**: a dozen steps, most of them other programs, on a directory that may
  hold the only copy of somebody's edits.
* **remotes**: HEAD moves in one process and the records are written in another; accounts
  fetch, merge and push at their own pace.

What makes each part correct is stated with the hazards in `PROJECT.json`: the
properties named there are the ones of section 4.

## 2. Plan

| order | module | of | state |
|---|---|---|---|
| 1 | `Mvgitd`, `MvgitdProofs` | start-up, accept loop, retirement, shutdown of the daemon | done |
| 2 | `RecordGit`, `RecordGitProofs` | engine and one account, native form | done |
| 3 | `AgentSession`, `AgentSessionProofs` | `mvsession.c` client against GIT.AGENT: deadline, reconnect, replay, select list | done for one session |
| 4 | `SessionService`, `MvgitdRefinement` | what the daemon promises its sessions, and that `Mvgitd` implements it | done |
| 5 | `Staging`, `StagingProofs` | a session's commands, its engine behind each of three doors, the batch between them | done |
| 6 | `AccountBuild`, `AccountBuildProofs` | clone and adopt of the four drivers | done |
| 7 | `Exchange`, `ExchangeProofs` | accounts that share a branch through a remote, driven from outside or by a session | done |
| 8 | `OpenForm`, `OpenFormProofs` | dictionary items between git's form and the platform's | done |
| 9 | `VerbStatus` | GIT STATUS's own walk and GIT ADD's lists beside the engine's | open |
| 10 | `Prefixed` | the prefix of several accounts, submodules | open |
| 11 | `SessionPool` | the pool cap and licence release under signals, attach mode | open |

The modules meet in this way: `Mvgitd`'s child of a session is `Staging`'s engine behind
the door `daemon`; `Staging`'s commands are what fills the index that `Exchange` commits;
`Exchange`'s write-back is `RecordGit`'s, seen from one file that stays; `AgentSession` is
underneath `RecordGit` when a driver runs it, `AccountBuild` makes what all of them
start from, and `OpenForm` is what `RecordGit`'s add, status and checkout do to the
contents of a dictionary item on the way.  Each is checked on its own: composed, none of
them would fit a run.

Abstract specifications still worth stating: an account as one map from paths to contents
with an atomic switch, which `RecordGit`'s write-back should implement when nothing dies;
and request and reply in order or an explicit failure, for `AgentSession`.  Every safety
property a run checks is proved (section 5).

## 3. Modules and how they correspond to the code

`PROJECT.json`, under `map`, gives the lines of every definition.

### 3.1 `Mvgitd` - `src/gitd.c`

One invocation `c` of the command stands for the process, the server it may fork, the
FIFO that server would make, and the session with its child.  `con[c]`, `srv[c]` and
`kid[c]` are the program counters of the three.  Each system call on a shared object
(flock and its release, mkfifo, unlink, truncate, write of the pid, the open of the
FIFO, the write of the greeting) is one action, since they interleave with those of
other processes.  `hello[i]` is what is written in FIFO inode `i`; `ctl` is the inode
the path names, so a FIFO that was unlinked and made again is a different one.
`lock` says who owns the flock - and `Unlock` hands it to the children that inherited
it, because flock belongs to the open file description.

Left out: the bytes of the greeting and the token (one message; a short token is
modelled), the requests of a session (`Staging`), sleep lengths (a wait is
nondeterministic, with `GiveUp` for its end), and a `fork` that fails: then the server
drops the session it was to serve (`gitd.c:811`), which nobody tells, and goes on.

`SessionService` is the same without the run directory: servers that take charge, resign
or withdraw, sessions that are told, served and finished.  `Mvgitd` reads its variables off
its own (`running` is who is past its flock and before its unlock, `phase[c]` what the
pipes and the child of `c` say), and `ImplementsService` is that every step of the daemon
is a step of it or none.

### 3.2 `RecordGit` - `src/mvxgit.c` over one account

`live` is the account, `disk` the files underneath it, and a file can be opened only
when the VOC has its pointer *and* something is underneath (`CanOpen`).  `index`,
`commits`, `branch`, `head` are git.  A path is `<<file, half, id>>`; the control
`%FILE%` of a file lives in git only.  Contents are abstract values; what a VOC record
*is* (own, verb, pointer, furniture, provisioning pointer, stock) is given by constants.

* `StageFiles`, `DiskPass`, `StageControls`, `Prune`, `StageAll` are the passes of
  `GITADDALL` in the order it runs them; `AddFile`, `AddRecord`, `Rm`, `RmFile`,
  `Commit`, `CreateBranch` are the other commands that write no record.
* `StatusWalks`, `Untracked`, `Modified`, `Deleted`, `Staged` are `GITSTATUS`.
* `Checkout`, `Merge`, `CherryPick` move HEAD and start a write-back: one
  `MaterialiseFile` per subtree, then `DropFiles`, then `SyncIndex`, and `Crash` may
  come before each.  The subtrees are taken in any order, as names are arbitrary.
* `SwitchHead` is `uv-git switch`; `Restore` is `GITRESTORE` of the data half of a file.

Abstractions: the native form only (no open-form projection, attributes or driver
names); hash files only (no directory files and no plain files beside them); one account
at the root of the repository (no prefix); ignore lists name records, not whole files;
the items CREATE.FILE puts into a new dictionary, and VOC's own dictionary, are left out
(they are furniture); a VOC record keeps its type; writes do not fail; users are idle
while a command runs; merging compares whole records, where libgit2 would merge within
one; `CREATE.FILE` refuses when something of that name is underneath.  The merge base,
the merged tree and its conflicts are libgit2's and marked external.

### 3.3 `AgentSession` - `src/mvsession.c` and `BP/GIT.AGENT`

`req` and `rsp` are the two FIFOs, `agent` the session at their far end (its open files in
slot order, its one select list, a reply it is about to write), `opens` what the client
would open again, `pc` where the client is: in the first attempt of a call, reaping the
old session, waiting for the PING, for an OPEN of the replay, or for the repeat.  The
agent takes a request and answers it in two steps, so that it can die, or be given up,
between carrying out a request and saying so.

* `Do...`, `SendReply`, `IdleOut` are GIT.AGENT: one action per request it serves.
* `Hears` is what a wait ends in (`read_all`): a frame, the end of the process, or the
  deadline while the session is still at work.  A request of `TooLarge` does not fit the
  pipe: the client is in the write of it (`Unwritten`, `write_all`) until the agent has read
  it, and hears nothing meanwhile, neither that the process has ended nor the deadline.
  The agent reads a request before it carries it out (`MayHaveRead`), so a session that is
  late, or dies, may or may not have read the request it never carried out.
* `Issue`, `Answered`, `Rebuild`, `Replayed`, `Repeated` are `mvs_call`, `reconnect` and
  `spawn`; `Connect`, `Connected` are `mvs_open`; `Close`, `Torn` are `mvs_close`.
* `OpenFile`, `OnRecord`, `SelectFile`, `ReadNext`, ... are the record primitives of
  `agent_rt.c` in the order the engine allows: it asks for the file list before it selects
  (`backend_files_prime`) and deletes files last (`materialize_tree_x`).

A reply says of which file and id a record is; the client program sees only the record,
and the properties compare.  Left out: the content and encoding of frames and with them
bad magic and token mismatch (both ends are started with the same token and write whole
frames), file classes and indexes (reads without effect), several sessions, attach mode,
signals.  A request names the file the caller means besides the slot, for the properties.
`scan`, `lost` and `refused` are history, not state of the program.

### 3.4 `Staging` - the verb of a session and its engine

A session `s` runs one GIT command at a time (`pc[s]`, with what it read in `list`, `seen`,
`chosen`, `told`) and calls an engine behind a `door`: `daemon` is GIT.RPC over two pipes
to a child of mvgitd (`asked`, `pipe`, `child`, `linked`), `callc` is `gitcallcb.c`, which
answers in the file `gitmsg` of the repository (`channel`), `engine` is `jbasecallc.c`,
where the engine reads the records itself.

* `StartAdd`, `StageRecord`, `PassRecord`, `StageControl`, `FlushAdd`, `AskIds`,
  `TakeIds`, `RemoveGone`, `KeepThere`, `FinishAdd` are GIT.ADD: walk, stage, flush, and
  the reconcile against what the index then has.  `Ask` is a call, `Read` its answer.
  A record that was gone when the walk came by and is back before the reconcile stays as
  git had it (`KeepThere`): this add says nothing of it.
* `Stage`, `Flush`, `Rm`, `IxCat`, `StageCtl`, `Commit`, `Look` are the requests as the
  engine serves them; `EndsBatch` says, door by door, which of them end an open batch
  first.
* `StartEdit`, `EditFromHead`, `StageEdit` are `GIT ATTR --set` of an attribute.  An edit of
  the class or the modulo and `--unset` are left out: they take something back by intent.
* `Sticky` is `mv_git_sticky_control` with its guards: only the control of a hash file is
  kept, and only if git has it as a hash file's.  A file may be of the class `Dir`, and
  change to it and back (`Resize`).  A control of 512 bytes or more
  (`MV_GIT_CTL_MAX`) counts as none in the code; the model has none of that size.
* `InVain` is a call whose write of the repository fails (`mv_git_batch_begin`,
  `mv_git_batch_add`, the `git_index_write` of RM, STAGECTL and ADD), and `EndInVain` a
  `mv_git_batch_end` whose `git_index_write` fails: the batch is gone and the command goes
  on.  `seen` forgets what was lost, so that `AddIsWhole` claims the rest.
* `Leave` (fifteen silent minutes), `Kill`, `Break` (the user breaks a command off) and
  `Logout` are what else happens.

`mixed` is history: it is set where two commands run into each other (an index written
under another session's batch or walk, two calls on one `gitmsg`).  Nothing in the code
prevents that or says what should come of it, so the run stops there (`Unmixed`), and
section 4.8 tells what happens.

### 3.5 `AccountBuild` - clone and adopt

Each driver's `clone` and `adopt` is a sequence of steps (`Script`, from `UvClone` to
`MvxAdopt`), and each step is an action with its guard, its failure and what it knows for
the next: `Fetch`, `Question`, `Persist`, `Stash`, `Clear`, the four ways an account is
made, `Seed`, `Export`, `Build` (`GITMATERIALIZE`), `Drop`, `Done`.  A command can be
killed before any step and be run again.  `place[a]` is a directory: whether it holds a
checkout and what the user did to it, a descriptor, a live account, its agent, its records
and the form they were built in.  The stash and the configuration belong to the repository.

The form is chosen as `mvconn.c` chooses it.  `run[a].open` is the override of a
connection: what the command line says (`Options`), or the answer to a question
(`Answers`), which is put only where one applies (`AdoptAsks`, `Ask`) and nothing was said.
`IsOpen` is the override, else the configuration; `Export` puts it into the environment,
which `Build` goes by, whether or not `Persist` wrote it.  `SaysOpen` and `Keeps` read and
write the configuration where the account itself has a repository: in one that holds
several accounts, below its root, neither finds it and neither result is looked at
(`mvconn.c:43`, `udt-git.c:764`).

`Build` and `Materialise` write all the records, or with "build" among the `Faults` any part
of them, none included, and the command goes on as if they had written all: an account
this happened to is in `short`.

Left out: repositories that hold no account, the index-rebuild question, the verb's own
GIT CLONE, text (prefixes that are cut), `MVX_OPENACCOUNT` in the environment the command
is started from, a configuration at the root that cannot be written.  `git stash push`
succeeds in the runs: `Faults` has "stash" for the case that it does not, and 4.8 says what
then happens.  The exemptions are in the properties by name: `overLive`, accounts that
adopt was started on when they were live already; `short`; and in `FormIsChosen` the adopts
of uv-git and mvx-git and uv-git's clone of a commit that is not open.

### 3.6 `Exchange` - accounts and a remote

`commits` are all commits made, each with its tree and ancestry; `tip[a]`, `tracking[a]`
and `remote` are branches; `index[a]` and `live[a]` an account.  `job[a]` is what the
command at work still has to do.  A driver writes the records and then the index
(`WriteRecords`, `SyncIndex`); in a session the engine answers first, and the verb writes
the records (`NativeWrite`, `NativePrune`: pass 2 and 2b of GITUDT.CHECKOUT).  An engine in
mvgitd that goes on to the records dies (`WritesBack`, from gitd_rt.c), and the session
hangs.

`touched`, `left` and `torn` are history: what the user of the account changed since it
agreed with its tip, what a write-back does not reach, and where a move of HEAD was broken
off.  `OwnChangesOnly` is the statement that nothing else makes an account differ.

A refspec with a colon goes to the library as the user typed it (`mvxgit.c:6603`), so a
push can force the remote's branch back to any commit of the user's own (`PushForced`) or
delete it (`PushDeletion`); both spend one of the bounded events, and by that `HistoryKept`
tells them from a push that only lost its check.  After a deletion a fetch leaves the
tracking branch where it was, a pull merges that, and the next push makes the branch anew.

A record whose object the engine cannot read (`GIT.OBJ:92`, `GITUDT.CHECKOUT:133`, `140`)
is written as the text of the error: `NativeGarbles`, for one record of a write-back, some
value of `Values`.  A FILES that fails names no path, nothing is written after HEAD has
moved, and that is where `Kill` at "native" ends too.

Left out: branches other than one, tags, the list of remotes; credentials that are refused
are a fetch or a push that fails; files and their controls stay, so every record is one of
a file in every commit; a cherry-pick is of a commit not yet in HEAD, and no merge; a
restore in a session whose CAT fails; the control entries that a restore of a dictionary
from outside writes among its items (4.8).

### 3.7 `OpenForm` - dictionaries in `src/mvxgit.c`

Git has dictionary items in the form of MVX; UniData, UniVerse and jBASE have the
association and the single/multi flag the other way round, name the key of a `TRANS` by an
item instead of by its attribute, quote, and cannot follow a target that is itself an I
item.  An item is a record of its type, attributes 6 and 7 and either its location or its
expression, and an expression is the list of its calls (`hops`), so that flattening a chain
is appending to that list.  `head`, `index` and `acct` are the dictionaries as HEAD, the
index and the account have them; `base` (what the account was last written from) and
`touched` (what users edited since) are history.

* `Written` is the write-back of one item (`materialize_file`): `Swap`, `Deep`, `ToNative`.
  `Flattened` is the recursion of `ispec_expand`, cut at `Depth` as there.
* `Staged` is what `add` stages and `status` hashes (`mv_git_project`): `Projected`, then
  `CanonSpec`, which asks first whether git's copy still translates to what the account
  has (`StillSays`, names from HEAD) and translates back only if not (`ToOpen`).
* `AddItem`, `AddFile` (with the reconcile of deletions), `Commit` and `Checkout` are the
  commands, `Write` and `Delete` the users.
* `NativeMeaning` and `CanonMeaning` say which attributes of which files an expression
  reads on either side; they are no part of the program.

Left out: the two other ways from HEAD to the account, a restore and the write-back of a
session, which translate nothing (4.8): `Checkout` is `materialize_file`'s, from outside;
the control code of a `TRANS` (passed along); case of names; lengths at which
buffers cut; the item of the record key and its name; items whose name is a number; a
trailing empty attribute (it is `Blank`).  `Portable` is assumed of the commits that others make and, in part, of what the
users here write: without it the code loses facts, which section 4.8 lists.  There is
always a HEAD: the account is a clone, or has committed before.

## 4. Runs

### 4.1 The daemon

| run | instance | what it shows |
|---|---|---|
| `gitd_safety` | a connect of an old build, a connect and a `--serve` of a new one, idle exit, 1 kill, 1 stop or SHUTDOWN | `TypeOK`, `OneServer`, `OwnControl`, `LockNotOrphaned`, `ServedOnce`, `ImplementsService` |
| `gitd_live` | 2 connects, 1 status, fair | `SettlesWhileServersStay`, `ServedWhileServersStay` |

Why these bounds: a race in start-up needs two connects and a third party that still
holds something from before; three invocations give all three.  One kill leaves every
kind of stale file.

Fairness (`Fairness` in `Mvgitd`): each process is scheduled (weak fairness of its
steps), a child gets to close what it inherited, and the bounded wait of a connect ends
(strong fairness of `GiveUp`, since the wait counts its rounds whatever it sees in
them).  A server is not obliged to leave an idle loop, and no user is obliged to do
anything.

### 4.2 The engine

| run | instance | what it shows |
|---|---|---|
| `repo_parity` | a VOC with a stock record, a foreign and a provisioning pointer; a source and its object; a file; one commit; the pointer, the source or the stock record added by name or ignored | `AddAllSettles`: after `add -A` status has nothing that add would not take, but what `StaysModified` names |
| `repo_branch` | data and dictionary, 2 branches, 2 commits, crash before any step of a write-back | `TypeOK`, `WrittenBack`, `SwitchDropsFiles`, `SwitchReadsClean`, `AddAllSettles` for dictionaries |
| `repo_merge` | one record, 2 branches, 4 commits (base, two sides, merge), crashes | `HistoryOnlyGrows`, `DeletedStaysDeleted` |

Why these bounds: parity of add and status is about one record at a time and the state
of its file, so one record of each kind is enough; a dictionary, an object and a pointer
each need their own.  One commit lets a pointer that was staged by name come back after
its file was deleted, with nothing underneath; `Bounded` keeps that part to the file and the
stock record, allows one exclusion at a time, and does not edit the two records whose
content nothing compares.  A real merge needs four commits.  Two contents suffice for
"changed on both sides", since equal and different are all that is compared (and contents
are symmetric where no stock record is involved).

`WrittenBack` speaks of a commit that carries no VOC record, and `SwitchReadsClean` of an
account none of whose commits carried one, and of a commit with the control of every file.
Without the premises TLC finds losses that are the write-backs of section 4.8: a checkout
of a commit with VOC records deletes the pointer of an own file and leaves the file
underneath, which a later checkout can neither open nor create; and a pointer that is
brought back opens a file that was passed over, with old records in it.

### 4.3 The session

| run | instance | what it shows |
|---|---|---|
| `agent_calls` | 2 files, the record of one larger than a pipe, 1 id, 2 opens, 3 faults (death, idle limit, deadline), 2 rebuilds in a row, fair | `TypeOK`, `ReadIsOwn`, `WritesLand`, `ScanWhole`, `RetryHides`, `CallReturns` |

Why these bounds: a slot can be mistaken only when there are two files; whether a repeat
hides a fault takes one fault, that it does not hide two takes two, and the limit of
rebuilds (`Rebuilds`, 3 in the code, 2 in the run) takes three.  The caller of `agent_calls`
stops at the first call that comes back closed (`GoesOn`), since the properties promise
nothing beyond it; what comes of going on is in section 4.8.

Fairness: the agent answers what it has been asked and the client moves on
(weak fairness of each).  No fault is obliged to happen, and a caller need not ask.
`CallReturns` does not lean on the deadline, which is a fault and may never come: it rests
on the answer of a live session and on `session_alive` for a dead one.  It excepts the one
wait that has no such look: the write of a request too large for the pipe to a session that
has gone, in which the client stays (section 4.8).

### 4.4 Staging

| run | instance | what it shows |
|---|---|---|
| `staging_safety` | 2 sessions behind each of the three doors, 3 commands, a record that git can hold and one it cannot, 2 geometries and the directory class, 2 edits, and besides the commands 2 changes, or a change and a broken-off command, or one of: an idle child, a death, a failed write of the repository | `TypeOK`, `InStep`, `AddIsWhole`, `ControlKept`, `SkippedTold` |

Why these bounds: a batch is left over by one command and met by another, so two commands
of one session, or one each of two, are the cases; the third lets an edit lie in between.
An id that git can hold and one that it cannot are the two kinds of record.  Two
geometries and two edits are what it takes to lose one; a file that becomes a directory is
the one case in which a control gives way.  Two changes are a record that goes
and comes back during one add.  `Bounded` in `MCStaging` limits what meets in one behaviour;
`StagingProofs` has no such limit.

### 4.5 Clone and adopt

| run | instance | what it shows |
|---|---|---|
| `build_safety` | 4 drivers, one account or two in a repository, every choice of form, 3 commands of which 2 are killed, accounts that cannot be made, agents that cannot be put in, records that are not written | `TypeOK`, `EditsKept`, `SuccessIsTrue`, `FormIsChosen`, `BuiltInClearedTree` |
| `build_new` | 2 commands, nothing fails | finding: a file the user added to a checkout is in no place an adopt leaves (`NewFilesAdopted`) |

Why these bounds: a kill leaves a state that the next command starts from, and a second
kill one that a repeated repair starts from; nothing in a script remembers more than that.
The accounts of a repository meet only in its configuration and its stash, for which two are
enough.  `AtOnce` = 1: two adopts at one time are in 4.8.  `Explored` keeps the run small
where the rest has been seen: an account in `short` is exempt from all that follows there,
so no command is started on it again, and one comes to be short only with a command and a
kill still left for what it may do to the other; the command line chooses, and the user
adds a record file, for one of the two accounts, which are alike, and no command line chooses
in the last command (whose choice meets nothing new).
`AccountBuildProofs` has the five properties for any number of accounts, commands and kills
and without these limits.

### 4.6 Exchange

| run | instance | what it shows |
|---|---|---|
| `exchange_safety` | an account driven from outside and one in a session, a data record and a dictionary item, two values, 4 commits that are not all in one line, 2 events: edits, kills, forced or deleting pushes, unreadable records | `TypeOK`, `OwnChangesOnly`, `HistoryKept` |
| `exchange_hang` | the same | finding: a session that merges gets no answer (`AnswersSession`) |

Why these bounds: two accounts that diverge and a merge take four commits with the first;
two edits are the two sides, and the bound on them is shared with kills, forced pushes,
deletions and unreadable records, so either both sides change, or one changes and a command
dies, its write-back goes wrong, or the remote's branch is thrown back.  Values are symmetric: they are only
compared.  `Explored` follows four commits only where they fork or meet: a fourth in one line
with the others is to the third what the third is to the second.  `ExchangeProofs` has the
properties for any numbers.

### 4.7 Dictionaries

| run | instance | what it shows |
|---|---|---|
| `form_crossing` | 2 dictionaries of 3 and 2 items, 108 committed forms of them, 1 more that a pull brings, 9 items users may write, 2 edits, 1 commit, chains of up to 3 | `TypeOK`, `UntouchedReadsClean`, `ColumnsMean`, `EditsMean`, `AddSettles` |

Why these bounds: an item is translated with the names in its own dictionary and, for a
chain, in those it leads to, so two dictionaries that refer to each other have every case:
a key without a name, with one and with two, a target that is a field, an I item that is no
`TRANS`, one link, two, and a circle.  Two edits are the item and a name it rests on; three
were tried on 36 of the forms.  `EditsMean` is of one edit, since two edits of one
column's names have no meaning to compare with.  It speaks of a HEAD whose columns are all
in the form of MVX, and of a column that no chain leads back to unless it is staged as HEAD
has it: without either, git's copy can be kept that reads something else (4.8).
`OpenFormProofs` has all five for any dictionaries, any depth and any number of edits and
commits.

### 4.8 Known, without a run

The models can do more that contradicts what the source says, and reading for them showed
more than they model.  Each is at its line; those marked (m) are behaviours of a module.

Daemon:

* (m) A freshly forked server gives up when the lock it fails to get is a mere probe's
  (`gitd.c:891`, `gitd.c:937`: "the loser fails the lock"), and a connect that reads the
  pid file of a starting server terminates it although it is of its own build
  (`gitd.c:906-914`).  The next connect repairs both.
* (m) A greeting written after a server has left its loop and before it removes its FIFO
  is never read (`gitd.c:764`, `gitd.c:814`), and the session waits on pipes nobody opens.
* (m) A connect that waits for a server to be ready takes a killed server's FIFO and
  anybody's lock for one (`gitd.c:951`), and hangs in the open of it.

Engine:

* (m) The commit made after a refused merge, as `finish_merge` asks for (`mvxgit.c:6316`),
  is no merge: it has one parent (`Commit`), so the branch stays unmerged.
* (m) "status must apply exactly what add applies" (`mvxgit.c:4563`), and for three kinds of
  tracked record it does not: `StaysModified`, which `AddAllSettles` exempts.  One that is
  ignored later is never staged again (`mvxgit.c:2708`), although `tests/git-tests.sh:879`
  says that the lists never apply to a tracked path.  A stock record that was edited, added
  and then put back as it came is skipped by every `add -A` (`mvxgit.c:2690`), tracked or
  not, while status exempts only the untracked one (`4697`-`4703`), so it stays ` M`.  So does
  a provisioning pointer that was added by name and has changed since (`2711`, `4753`).
* (m) A checkout from outside of a commit that holds any VOC record deletes the pointers
  of the account's own files (`mvxgit.c:5781`), which add leaves out (`mvxgit.c:2680`) and
  GITUDT.CHECKOUT spares (218-225).
* (m) A file committed without its control, whose control the index has got since, is
  written back and then dropped by the same checkout (`mvxgit.c:5982`; the comment at
  5876-5883 says that a file of the target is never touched).

* `add -A` leaves the control of a deleted file (`mvxgit.c:3829`, `3921`, `3108`): when
  the prune runs, the disk pass has taken the records and the control alone counts as "a
  declaration, not a deletion".  The next checkout makes the file again, though "when it
  goes the file goes" (3938-3939) and "The file and its dictionary are gone from the
  commit" (`tests/git-tests.sh:985`).  `RecordGit` does the same (`Prune`).

Dictionaries:

* (m) On UniVerse a checkout swaps attributes 6 and 7 unconditionally (`mvxgit.c:5705`)
  while add and status swap only under `MVXGIT_DICT_SM_AT_6` (630-634), which that build
  does not define (`build-gitd.sh:55`): with `SmAt6` FALSE an item of an association never
  reads clean and is committed misspelled.  The comments at 213-218 and 287-291 say
  opposite things of UniVerse.
* (m) Names are HEAD's whenever there is a HEAD (880), though "The index is still
  consulted first" (876) is true of git's copy only: a key field and the column keyed on
  it, added together, are committed with the column in the native spelling, and stay so; a
  column whose key field changes its number in the same add gets the old number.
* (m) A commit that adds a lower name for an attribute changes what the forward translation
  gives, and an untouched column whose chain has no other canonical spelling is restaged in
  the native one, against "must produce NO diff" (849).
* (m) `add` keeps git's copy of a column when it translates, *with HEAD's columns*, to what
  the account has (`mvxgit.c:849-880`).  Where a chain runs over a column that HEAD has in the
  native spelling, or over the very column that is staged and not committed, what is kept
  can read something else on MVX than what the account reads.
* (m) A key that is the record's id (attribute 0) is committed as 0, for which
  `ds_name_for_attr` has no name (374): the next checkout leaves a column that reads nothing.
* (m) An item of another type with only one of attributes 6 and 7 filled gets an `M` in the
  other (5716-5727, 641-647) and reads modified; this is why `Portable` excludes it.
* A restore (`mvxgit.c:6988-6994`) and the write-back of a session
  (`BP/GITUDT.CHECKOUT:133-140`) write items as git has them, without the translation that
  a checkout from outside makes (`materialize_file`): after a restore or a pull in a
  session an open account has items in the form of MVX.
* `ds_read` looks names up without the prefix of the account (347): in a repository of
  several accounts none is found.
* GIT DIFF has a copy of the translation of its own (5193-5234), without `open_dict_project`
  and with names from the index: untouched associated items differ for ever.
* `dict_item_swap` cuts an item after 32 attributes, `rec_set_attr` after 40, and takes
  only types of one letter where `rec_is_itype` looks at the first; expressions are cut at
  256 or 512 bytes.

Sessions:

* (m) A reply that comes after a rebuild whose PING, replayed OPEN or repeat missed its
  deadline too is read as the answer to a later request (`mvsession.c:515`).
* (m) A session that dies in the middle of a scan ends the scan as if it were complete
  (`mvsession.c:690-692`, `agent_rt.c:213-215`), which `mvsession.c:498-502` rules out;
  and status asks for the list of files within its scan of the VOC (`mvxgit.c:4609-4671`),
  which takes the one select list away, though `mvxgit.c:4331` fetches it first.
* (m) "every read is BOUNDED" (`mvsession.c:147`), since a pipe one holds open oneself never
  reports that its reader is gone; the write before it is not.  `write_all`
  (`mvsession.c:134`-`141`, called at `611`-`612`) blocks in `write` on a FIFO opened for
  reading and writing (`382`), has no deadline and does not look at the process: a record
  whose request is larger than the pipe buffer, written to a session that has died, is on
  its way out after its idle limit, or dies before it has read all of it, leaves the client
  there for ever.  `CallReturns` excepts this state by name.
* (m) Three sessions lost with only missed reads in between exhaust the limit of rebuilds
  (`mvsession.c:684`, `mvsession.c:693`: only `MVG_OK` resets the count).

Staging:

* (m) A child that leaves on silence (`gitd.c:594`) tells nobody: `MVG_ECLOSED`, which
  `gitproto.h:101-103` announces for it, is never sent, and the session's next command
  fails or waits.
* (m) RM, ADDDISK, PRUNE and SWITCH write the index past a batch that a broken-off ADD has
  left open, and the next flush writes the old one over it (`gitd.c:436`).  The comments
  "discard any stale open batch" (`gitd.c:294`, `gitcallcb.c:55`) and "must not leak"
  (`gitd.c:696`) stand beside a call that writes the batch.
* (m) On UniData GITFLUSH never says how many records were left out (`mvxgit.c:7126`), and
  the daemon's count of them is said again by every flush until the next batch.
* (m) The control of a directory file is not kept: `mv_git_sticky_control` returns what the
  file has now (`mvxgit.c:7462`, `7474`), so an attribute edited into it with GIT ATTR and
  not yet committed is taken out by the next add of the file, against "a plain `add -A`
  between an attribute edit and its commit put the committed geometry back over the edit"
  (7463-7471) as the thing that must not happen.  So does a hash file's when the file is
  made a directory and back.  `ControlKept` claims hash files only.
* (m) A batch that cannot be begun (`mvxgit.c:7136`, ignored by every caller) drops all
  that is staged into it (7168), and one that cannot be written (7189) is dropped whole;
  GIT ADD and GIT COMMIT report what they always report.
* (m) The batches of two sessions are begun from one index on disk, and the second flush
  takes the first one's records out again; two sessions on UniData share one `gitmsg`; a
  command broken off inside READBLK leaves a reply for the next call to read.

Clone and adopt:

* (m) Two adopts in one repository share `stash@{0}`; a `git stash push` that fails is not
  noticed, and the clearing deletes the edits (`mvxgit.c:2039-2042`).
* (m) uv-git's adopt on a live account destroys it (`uv-git.c:504-511`, `623-625`), and it
  leaves the descriptor on disk that invites to that (`git-tests.sh:1312`).
* (m) What the engine says it wrote is printed or thrown away, never looked at: uv-git
  (`uv-git.c:670-677`), udt-git (`udt-git.c:675`) and jb-git (`jb-git.c:366-370`) drop the
  stash and report success also when it answered with an error, found nothing by the name or
  left out a file that does not open (`mvxgit.c:5665-5668`), against "The stash is dropped
  when the account is built, kept if it is not" (`uv-git.c:580`) and "Kept on failure, so
  the work is still there" (`udt-git.c:799`).  MVX's `mv_git_materialize_account` frees the
  answer and does not look at BUILD's status either (`mvxgit.c:7573-7589`).  `SuccessIsTrue`
  and `EditsKept` except these accounts (`short`).
* (m) The form of the records and the setting that later commits follow part ways, though
  "without it the next commit writes the native form over it" (`udt-git.c:760-762`;
  `mvxgit.c:2137`) and the flag "decides how every later commit is written"
  (`udt-git.c:624`).  An account below the root of its repository neither finds nor can set
  the configuration (`mvconn.c:43-52`), and nobody looks at the result.  `--open-account`
  builds in the open form and keeps nothing where no question is put: a clone of a commit
  that is not open (udt-git, jb-git), an adopt of a checkout that is (`mvconn.c:136`,
  `mvxgit.c:2155`).  An adopt killed after its "yes" was kept can be answered "no" the next
  time, for a checkout of another system, or be run with `--no-open-account`: native records
  under a flag that says open.  uv-git's clone takes no notice of `--open-account` when the
  commit is not open.  `FormIsChosen` claims the form that was chosen, and the setting only
  where it was to be kept.
* (m) uv-git's adopt stores the open-account flag and does not export it, so the records
  are built untranslated (`uv-git.c:654`); mvx-git's is a tool of its own that reads the
  configuration.
* (m) "re-run the clone to rebuild them" (`udt-git.c:701`, `mvx-git.c`) cannot work: clone
  refuses a directory that is there.
* `GITMATERIALIZE` cuts a tree-ish at 127 characters, the prefix of the account included.
* jBASE's connection caches the flag of the directory it was called from; a stock baseline
  is written without a temporary name (`mvxgit.c:1440`); udt-git has an add_all of its own
  without furniture, ignore lists and prune (`udt-git.c:94-200`).

Exchange:

* (m) GIT PULL and GIT MERGE write HEAD's records over the account also when the fetch
  failed, there was nothing to do, or there was a conflict, and uncommitted edits go
  (`BP/GIT.PULL:88`); GIT CHECKOUT looks at the answer first (`BP/GIT.CHECKOUT:32`).
* (m) A file that loses its last data record in the commit is not visited by the engine
  (`mvxgit.c:5936`), nor any deleted dictionary item by the verb ("Data files only",
  `BP/GITUDT.CHECKOUT:145`): the next add -A commits them again.
* (m) An object the engine cannot read is written into the account as the text of the
  error (`BP/GIT.OBJ:92`, `BP/GITUDT.CHECKOUT:133`, `140`), and the next add commits it.
* A restore of a dictionary from outside writes every entry of its tree as an item, the
  controls `%FILE%` and `%INDEXES%` included (`mvxgit.c:6981-6995`), where the write-back
  of a checkout leaves them out.
* An update the remote turns down is reported as pushed: GITPUSH sets no callback for it
  (`mvxgit.c:6612`).  A pull without a branch merges whatever FETCH_HEAD names first; a pull
  into a repository without a commit fails.

No run checks deadlock: the processes of `Mvgitd` end, a command of `AgentSession` ends
with its session, and in the other modules the bounds, and a user with nothing left to do,
may stop the model where the program could go on.

## 5. Proofs

### 5.1 The daemon

`MvgitdProofs` proves for any set of invocations, any builds and any bounds:

* `TypeCorrect` (`TypeOK`): with `Linked`, which says that a process that is past a
  certain step has the data that step produced.
* `AtMostOneServer` (`OneServer`): the inductive invariant is `LockFollows` - whoever is
  past its flock and not past its unlock *is* the owner in `lock`.  `OneServer` alone is
  not inductive: nothing in it prevents a second server from taking a lock that the
  first still relies on.
* `ControlIsOwn` (`OwnControl`): from `LockFollows`, since every unlink and mkfifo is by
  the owner of the lock.
* `EverySessionServedOnce` (`ServedOnce`): with `PipesFirst`, pipes before greeting.
* `LockHasAnOwner` (`LockNotOrphaned`): with `LockOwned`, which adds the children that
  hold the inherited descriptor.

The only assumption is `ConnAssumption` (the constants are of their types and `Nobody` is
no invocation), which TLC evaluates in every run.

`MvgitdRefinement` proves `ServiceImplemented` (`ImplementsService`): the initial state is
one of `SessionService`'s, and each action of `Mvgitd` maps to one of its actions or to
none.  It rests on the invariants above, since who is running can be read off the program
counters only while `LockFollows` holds and a session can be told only once by `ServedOnce`
and its parts, and on one more, `ParentArmed`: a server that has a child was serving when
it forked, so a SIGTERM does not end it at once.

### 5.2 The engine

`RecordGitProofs` proves for any files, ids, contents, branches and number of commits, any
classes of VOC records, stock baseline, furniture, provisioning pointers and objects:

* `LostRecordsLeave` (`DeletedStaysDeleted`) and `StatusAgreesWithAdd` (`AddAllSettles`).
  Both follow from what the four passes of `GITADDALL` do to one record: a record of a file
  that is not listed ends up out of the index (`UnlistedLeaves`, by the disk pass), and one
  of a file that opens ends up as the record pass leaves it (`ListedStaged`: neither the
  controls nor the prune touch it).  No invariant is needed: they hold of any index, which
  is why a crash or a bare `switch` before the add does no harm.
* `TypeCorrect` (`TypeOK`), which is inductive as it stands.
* `BranchesMoveForward` (`HistoryOnlyGrows`) from `TypeOK`: every commit is its own
  ancestor, and `RecordTyped` says that a new commit has the ancestors of its parents.
* `CommitIsWritten` (`WrittenBack`), `OldFilesDropped` (`SwitchDropsFiles`) and `SwitchIsClean`
  (`SwitchReadsClean`), for a write-back that takes the subtrees in any order and after any
  number that died.  They say what holds at the last step, and rest on what holds on the
  way there: what is no longer to do is done (`Written`: the file of such a subtree is there
  by name or underneath, and as far as it opens its records are the commit's), the files git
  tracked that the commit lacks have gone when the index is next (`FilesGone`), and, while
  no commit has carried the VOC, everything underneath is named (`Pointed`) and so are the
  files of the commit (`FilesBack`).  `Pointed` is what turns "there, by name or
  underneath" into "can be opened".

The only assumption is `ConstantsAssumption`: the constants are of their types, no file is
called VOC or as another VOC record, and no dictionary item is called `%FILE%`.

### 5.3 Clone and adopt

`AccountBuildProofs` proves for any accounts, drivers, commands and kills:

* `BuildsInClearedTree` (`BuiltInClearedTree`), whatever runs at the same time.  `Scripts`
  says at which place of the eight scripts a build has each step; from it `Positions`
  (a command is within its script), `Unfetched` (before the repository there is nothing)
  and `Cleared` (past "clear", or past the fetch, there is no checkout).
* `FormFollows` (`FormIsChosen`), when `AtOnce` = 1.  When the records are built, what the
  engine goes by says what the override, else the configuration, says (`Exported`): the
  export comes right before the build, uv-git's clone has an answer by then (`Asked`), and
  mvx-git's, which exports nothing, came to its question with nothing set (`Rooted`,
  `Unset`), so that what it keeps is its answer.  An answer that is to be kept has been
  from the step that keeps it on (`Kept`), since nothing takes the setting back.
* `SuccessTold` (`SuccessIsTrue`), when `AtOnce` = 1.  With one command at a time (`One`) the
  newest entry of the stash is the command's own until it drops it (`Own`), so that the
  tree it builds from has the commit's records.  Of an account that is in neither
  `overLive` nor `short`: it is not taken for one that was live (`Fresh`), its files are
  excluded (`Excluded`), it is there past the build with all its records (`Built`).
* `EditsAreKept` (`EditsKept`), when `AtOnce` = 1 and "stash" is not among the faults.  An
  edit can be lost where the checkout is cleared and where the stash is dropped.  At the
  first the checkout has none (`Emptied`), and neither has the account (`Unbuilt`): an
  account with records and a descriptor is live (`Described`), so an adopt started on it
  is in `overLive`.  At the second the entry's edit is in the records (`Taken`).

Both hypotheses of `EditsAreKept` are needed: without either TLC finds a loss told in
4.8.  All actions are first reduced to four kinds of move (`Moves`: a command halts, works at a
step, begins, or the user touches the checkout), and each part of the invariant is shown
for the four.

### 5.4 The exchange

`ExchangeProofs` proves for any accounts, drivers, records, values and bounds:

* `TypeCorrect` (`TypeOK`), which has in it that a commit's ancestry is of earlier commits.
* `OwnChanges` (`OwnChangesOnly`).  It is not inductive: between two steps of a write-back
  an account differs from its tip as it pleases.  `Good(a)` says for each point of a
  command what still has to agree - at "records" nothing, at "index" the records, at
  "prune" what pass 2 writes, and at "native" the index - so that the last step restores
  the property.
* `HistoryStays` (`HistoryKept`), from `Closed`: the ancestry of an ancestor is part of
  one's own.  A fast-forward and a push then keep all that was there; a push that forces or
  deletes is excused for the remote's branch, and takes nothing from any account's.

The only assumption is `ConstantsAssumption`.

### 5.5 The dictionaries

`OpenFormProofs` proves for any dictionaries, names, order of names, depth of chains and
number of edits and commits:

* `UntouchedClean` (`UntouchedReadsClean`), for platforms with the flag at attribute 6.  The
  invariant that carries it, `IInv`, says besides the shapes of the items that every item
  nobody touched is in the account as the last checkout wrote it (`AsWritten`), that the
  index agrees with HEAD on it while HEAD is still what was written (`InStep`), and that
  what is committed and staged is `Portable`.  The heart is `RoundTrip`: staging what was
  written for a portable item gives back that item.  For the attributes this is
  `FlagsReturn`, two swaps with the depth there already; for an expression that has a
  native spelling it is `StillSays`, and for one that has none, that then its key is a
  number without a name, which translating back leaves alone.
* `AddLeavesNothing` (`AddSettles`), on any platform: what `StillSays` finds of the entry just
  staged is what add decided of the one before (`StagedAgain`).

* `TypeCorrect` (`TypeOK`), on any platform: a chain that is flattened stays a chain of calls of
  known files (`FlatTyped`), so what is written and staged is an item.
* `ColumnsKeepMeaning` (`ColumnsMean`), on any platform.  The code flattens a chain up to `Depth`
  times, and MVX follows it.  `StepTogether` takes one step of each and shows that they stay
  `Related`: side by side, or one of them stopped where it reads nothing; `EndsTogether` is
  the same after `Depth` steps, and `SpelledMeans` reads the property off the two ends.
* `EditsKeepMeaning` (`EditsMean`), on any platform.  Either the staged column is translated
  back (`TurnedMeans`) or git's copy is kept (`KeptMeans`).  The second needs `Meant`, an
  invariant on what others than the edited item look like: whatever nobody touched has the
  same names in the index, in HEAD and in the tree that was written (`Named`), the same
  expression while HEAD is that tree (`Spelled`), and a column committed in the native
  spelling was so before (`Old`).  In a HEAD with every column in the form of MVX the two
  chains keep pace (`InPace`), so they end at the same place (`SameEnd`).

Chains are functions computed `Depth` times over, and what holds of them is shown by induction
over the number of steps.  The library's induction theorem takes an operator; `Induction`
is the same about a *set* of numbers, which the provers can use, and is itself proved from
the well-foundedness of inclusion among finite sets.

The only assumption is `ConstantsAssumption`: among the rest that names, attributes and
`Nothing` are different things, that the commits of others are well-formed and `Portable`,
and that what users write here has both of attributes 6 and 7 or neither.

### 5.6 The sessions

`AgentSessionProofs` proves for any files and ids, any pool, limits of opens and rebuilds,
any number and order of faults, and whichever records are too large for a pipe:

* `TypeCorrect` (`TypeOK`), with `Typed`, which adds that a request on a file names a file.
* `ReadBringsItsOwn` (`ReadIsOwn`), `WritesLandWhereMeant` (`WritesLand`), `ScanIsWhole`
  (`ScanWhole`) and `RetryHidesLosses` (`RetryHides`), until a call has come back closed.

None of the four is inductive.  A request carries a slot number, and that the session at the
other end has the right file in that slot is a fact about every session the client ever had.
`SlotsInOrder` says that the slots of the caller are those of the files it opened, numbered
in the order they were first opened, and `Session` that a session that is up has those
files, or as many as have been replayed, in just those slots; `NextSlot` is why the replay
keeps that up: a file that a session has not open, while it serves all the files before
it, can only be due the next slot.  `Turns` says that at most one request is out and that the
first frame to be read is its reply or a goodbye, `AnswersRight` that a reply says what its
request asked, `CallIsMeant` that the call is one the program means at that point,
`ListKept` that the session's list has what the scan still lacks, `FilesThere` that the
files to be opened again exist (until files are being dropped), and `LostCounted` that a session is only replaced when one
was lost.  All actions come down to a few moves (`NextMoves`), and each part is shown for
each move.  The only assumption is `ConstantsAssumption`.

### 5.7 Staging

`StagingProofs` proves for any sessions, records, geometries and edits, behind each of the
three doors, with any number of commands, breaks, silences, deaths and failed writes:

* `TypeCorrect` (`TypeOK`), whatever happens.
* `CallsInStep` (`InStep`), `EditsAreKept` (`ControlKept`), `AddsAreWhole` (`AddIsWhole`) and
  `SkippedAreTold` (`SkippedTold`), until two commands have run into each other (`mixed`).

What add promises about a record at its end has to be carried from the moment it read it
through the request, the engine's batch and the disk: `ReadIsStaged`, `ReadIsWritten`,
`GoneIsRemoved` and `EngineAdds` say where it is at each step, and `SkipsCounted` the same of
a record that is left out.  `Turn` says that between a session and its engine there is
nothing, the request its place calls for, or the answer to it; `BatchHolds` and
`EditBuilds` tie an open batch and an edit under way to the control on disk.  Together they
are `Kept(s)` for each session, and `OthersKept` shows that a step of another session leaves
it alone or is a collision.  A child that has left never comes back, so the command behind it
does not end and promises nothing (`Doomed`).  The only assumption is `StagingAssumption`.

## 6. Not modelled, and why

Only model-checked: the liveness promises `SettlesWhileServersStay` and
`ServedWhileServersStay` of `Mvgitd` and `CallReturns` of `AgentSession`, since liveness under
fairness is outside the proof system's reach here.  Every other property of a passing run
is a theorem.  The two findings are counterexamples, and have no proof.

Not modelled: text formatting, option parsing, the full-screen editor, log, diff and show
(wording and layout, no state); tags, config and the list of remotes (one call of libgit2
each); the spelling of a control and its attributes; vendor libraries and libgit2
(external, by how the code uses them); the bindings in `udtgit_rt.c`, `jbasegit_rt.c` and
`mvxcgit_rt.c` (one vendor call per primitive, no state of their own; `udtgit_rt.c` is
linked only where its record access ends the process, `build-udt.sh:96`); installation
scripts and packaging; and the parts that section 2 lists as open.
