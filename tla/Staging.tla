------------------------------- MODULE Staging -------------------------------
(***************************************************************************)
(* The staging batch: how the GIT verb of a session, which alone can read  *)
(* the account's records, hands them to an engine that alone can write the *)
(* repository, and what of it reaches the index on disk.                   *)
(*                                                                         *)
(* The engine is behind one of three doors.  On UniVerse it is a child of  *)
(* mvgitd, reached over a pair of pipes (BP/GIT.RPC, src/gitd.c); on       *)
(* UniData it is in the session's own process and answers through two      *)
(* files in the repository (src/gitcallcb.c); on jBASE it is in the        *)
(* process too, reads the records itself, and needs no batch               *)
(* (src/jbasecallc.c).                                                     *)
(*                                                                         *)
(* One account is modelled, with one of its files: its records, and the    *)
(* control <file>.DICT/%FILE% that carries the file's geometry and its     *)
(* attributes.  The sessions' commands interleave at the engine's calls,   *)
(* with each other and with users who change records and geometry.         *)
(***************************************************************************)
EXTENDS Naturals, Sequences, FiniteSets

CONSTANTS
    Session,    \* the sessions of the account
    Nobody,     \* no session
    Rec,        \* the ids of the file's records
    Bad,        \* those that are no git path
    Ctl,        \* the path of the file's control
    Value,      \* what a record may hold
    Size,       \* the geometries a hash file may have
    Dir,        \* what a directory file has instead
    Edit,       \* the attribute edits a user may ask for
    None,       \* no record, nothing at a path
    Doors,      \* the doors to look at
    MaxVerbs,   \* bound: GIT commands
    MaxUses,    \* bound: changes users make to records and geometry
    MaxBreaks,  \* bound: commands broken off
    MaxIdle,    \* bound: children that leave after a silence
    MaxDeaths,  \* bound: logouts, and children that are killed
    MaxFaults   \* bound: writes of the repository that fail and are not looked at

ASSUME StagingAssumption ==
    /\ IsFiniteSet(Rec) /\ Bad \subseteq Rec /\ Ctl \notin Rec
    /\ None \notin Value \cup Size \cup [size : Size \cup {Dir, None}, edits : SUBSET Edit]
    /\ Dir \notin Size \cup {None}
    /\ "unread" \notin Value \cup {None} /\ Nobody \notin Session
    /\ Doors \subseteq {"daemon", "callc", "engine"}
    /\ MaxVerbs \in Nat /\ MaxUses \in Nat /\ MaxBreaks \in Nat
    /\ MaxIdle \in Nat /\ MaxDeaths \in Nat /\ MaxFaults \in Nat

Path == Rec \cup {Ctl}

\* A file's class: a directory, or a hash file of some geometry.
Class == Size \cup {Dir}

\* A control: the class, a hash file's with or without its geometry, and the
\* attribute edits in it.
Control == [size : Class \cup {None}, edits : SUBSET Edit]

BareClass == [size |-> None, edits |-> {}]

Blob == Value \cup Control \cup {None}

Nothing == [p \in Path |-> None]

VARIABLES
    door,       \* which platform the account is on
    live,       \* the records of the file
    size,       \* its class
    index,      \* the index on disk
    head,       \* the tree of the last commit
    batch,      \* batch[s]: the index that the engine of s holds in memory
    pc,         \* pc[s]: where the command of s is
    list,       \* list[s]: the ids it still has to go through
    seen,       \* seen[s]: what it last found under each id, and the engine did
                \* not lose
    chosen,     \* chosen[s]: the edit it was given
    told,       \* told[s]: how many records it said were not staged
    wait,       \* wait[s]: does s wait for an answer?
    asked,      \* asked[s]: the requests on their way to the engine of s
    pipe,       \* pipe[s]: the answers written and not yet read
    channel,    \* <repo>/gitmsg: who wrote it last, and what
    child,      \* child[s]: the child that serves s
    linked,     \* linked[s]: RPC.OPEN, the connection s believes it has
    mixed,      \* have two commands run into each other?
    budget      \* what is left of the bounds

vars == <<door, live, size, index, head, batch, pc, list, seen, chosen, told, wait,
          asked, pipe, channel, child, linked, mixed, budget>>

account == <<live, size>>
repo    == <<index, head>>
verb    == <<pc, list, seen, chosen, told>>
wire    == <<wait, asked, pipe, channel>>
engine  == <<batch, child, linked>>

Closed == [open |-> FALSE, tree |-> Nothing, skipped |-> 0]

Unread == "unread"

\* An answer: the ids staged for the file, a control, a number of records
\* skipped; "" is none of them.
Empty == [skipped |-> 0, ids |-> {}, ctl |-> None]

Init ==
    /\ door \in Doors
    /\ live \in [Rec -> Value \cup {None}]
    /\ size \in Class
    /\ index = Nothing /\ head = Nothing
    /\ batch = [s \in Session |-> Closed]
    /\ pc = [s \in Session |-> "ready"]
    /\ list = [s \in Session |-> {}]
    /\ seen = [s \in Session |-> [r \in Rec |-> Unread]]
    /\ chosen = [s \in Session |-> None]
    /\ told = [s \in Session |-> 0]
    /\ wait = [s \in Session |-> FALSE]
    /\ asked = [s \in Session |-> <<>>]
    /\ pipe = [s \in Session |-> <<>>]
    /\ channel = [by |-> Nobody, answer |-> Empty]
    /\ child = [s \in Session |-> "none"]
    /\ linked = [s \in Session |-> FALSE]
    /\ mixed = FALSE
    /\ budget = [verbs |-> MaxVerbs, uses |-> MaxUses, breaks |-> MaxBreaks,
                 idle |-> MaxIdle, deaths |-> MaxDeaths, faults |-> MaxFaults]

Spend(what) == budget[what] > 0 /\ budget' = [budget EXCEPT ![what] = @ - 1]

\* A session in the middle of a command, or whose engine holds a batch.
Busy(s) == pc[s] \notin {"ready", "added", "out"} \/ batch[s].open

\* The other sessions.
Others(s) == Session \ {s}

-----------------------------------------------------------------------------
(* The users of the account.                                                *)

ChangeRecord(r) ==
    /\ Spend("uses")
    /\ \E v \in (Value \cup {None}) \ {live[r]} : live' = [live EXCEPT ![r] = v]
    /\ UNCHANGED <<door, size, repo, engine, verb, wire, mixed>>

\* A resize, or a file deleted and created as the other kind.
Resize ==
    /\ Spend("uses")
    /\ size' \in Class \ {size}
    /\ UNCHANGED <<door, live, repo, engine, verb, wire, mixed>>

-----------------------------------------------------------------------------
(* The session's side of a call: GIT.OBJ and, on UniVerse, GIT.RPC.         *)

\* An answer is there.  GIT.RPC reads the next one on its pipe; GIT.OBJ on
\* UniData reads the channel once the call has returned.
HasAnswer(s) == wait[s] => (IF door = "callc" THEN asked[s] = <<>> ELSE pipe[s] # <<>>)

Answer(s) == IF door = "callc" THEN channel.answer ELSE Head(pipe[s])

PipeRead(s) == IF wait[s] /\ door # "callc" THEN [pipe EXCEPT ![s] = Tail(@)] ELSE pipe

\* Reads the answer to the last call, if there was one, and makes the next.
\* On UniData the channel is blanked first, whoever is about to read it.
Ask(s, op, path, blob) ==
    /\ HasAnswer(s)
    /\ pipe' = PipeRead(s)
    /\ wait' = [wait EXCEPT ![s] = TRUE]
    /\ asked' = [asked EXCEPT ![s] = Append(@, [op |-> op, path |-> path, blob |-> blob])]
    /\ channel' = IF door = "callc" THEN [by |-> Nobody, answer |-> Empty] ELSE channel
    /\ mixed' = (mixed \/ (door = "callc" /\ \E t \in Others(s) : wait[t]))

\* Reads the answer and makes no other call.
Read(s) ==
    /\ HasAnswer(s)
    /\ pipe' = PipeRead(s)
    /\ wait' = [wait EXCEPT ![s] = FALSE]
    /\ UNCHANGED <<asked, channel, mixed>>

Go(s, from, to) == pc[s] \in from /\ pc' = [pc EXCEPT ![s] = to]

Prompt == {"ready", "added"}

-----------------------------------------------------------------------------
(* GIT ADD file, in BASIC.                                                  *)

\* SELECT: the ids there are now.
StartAdd(s) ==
    /\ door # "engine"
    /\ Spend("verbs")
    /\ Go(s, Prompt, "data")
    /\ list' = [list EXCEPT ![s] = {r \in Rec : live[r] # None}]
    /\ seen' = [seen EXCEPT ![s] = [r \in Rec |-> Unread]]
    /\ told' = [told EXCEPT ![s] = 0]
    /\ UNCHANGED <<door, account, repo, engine, chosen, wire, mixed>>

\* READNEXT, READ, and STAGE of what was read.
StageRecord(s, r) ==
    /\ r \in list[s] /\ live[r] # None
    /\ Go(s, {"data"}, "data")
    /\ Ask(s, "STAGE", r, live[r])
    /\ list' = [list EXCEPT ![s] = @ \ {r}]
    /\ seen' = [seen EXCEPT ![s][r] = live[r]]
    /\ UNCHANGED <<door, account, repo, engine, chosen, told, budget>>

\* READ finds no record any more.
PassRecord(s, r) ==
    /\ r \in list[s] /\ live[r] = None
    /\ Go(s, {"data"}, "data")
    /\ list' = [list EXCEPT ![s] = @ \ {r}]
    /\ seen' = [seen EXCEPT ![s][r] = None]
    /\ UNCHANGED <<door, account, repo, engine, chosen, told, wire, mixed, budget>>

StageControl(s) ==
    /\ list[s] = {}
    /\ Go(s, {"data"}, "control")
    /\ Ask(s, "STAGEBLOB", Ctl, [size |-> size, edits |-> {}])
    /\ UNCHANGED <<door, account, repo, engine, list, seen, chosen, told, budget>>

\* A slip: the command ends without a FLUSH, as before mv_git#41.
NoFlushAdd(s) ==
    /\ Go(s, {"control"}, "flush")
    /\ Ask(s, "STAGED", Ctl, None)
    /\ UNCHANGED <<door, account, repo, engine, list, seen, chosen, told, budget>>

FlushAdd(s) ==
    /\ Go(s, {"control"}, "flush")
    /\ Ask(s, "FLUSH", Ctl, None)
    /\ UNCHANGED <<door, account, repo, engine, list, seen, chosen, told, budget>>

\* RECONCILE: what git has for the file ...
AskIds(s) ==
    /\ Go(s, {"flush"}, "ids")
    /\ Ask(s, "INDEXIDS", Ctl, None)
    /\ told' = [told EXCEPT ![s] = Answer(s).skipped]
    /\ UNCHANGED <<door, account, repo, engine, list, seen, chosen, budget>>

TakeIds(s) ==
    /\ Go(s, {"ids"}, "reconcile")
    /\ Read(s)
    /\ list' = [list EXCEPT ![s] = Answer(s).ids]
    /\ UNCHANGED <<door, account, repo, engine, seen, chosen, told, budget>>

\* ... against what the account still has.
RemoveGone(s, r) ==
    /\ r \in list[s] /\ live[r] = None
    /\ Go(s, {"reconcile"}, "reconcile")
    /\ Ask(s, "RM", r, None)
    /\ list' = [list EXCEPT ![s] = @ \ {r}]
    /\ seen' = [seen EXCEPT ![s][r] = None]
    /\ UNCHANGED <<door, account, repo, engine, chosen, told, budget>>

\* It is there: it stays as git has it, read or, if it was gone and has come
\* back since, unread.
KeepThere(s, r) ==
    /\ r \in list[s] /\ live[r] # None
    /\ Go(s, {"reconcile"}, "reconcile")
    /\ list' = [list EXCEPT ![s] = @ \ {r}]
    /\ seen' = [seen EXCEPT ![s][r] = IF @ = None THEN Unread ELSE @]
    /\ UNCHANGED <<door, account, repo, engine, chosen, told, wire, mixed, budget>>

FinishAdd(s) ==
    /\ list[s] = {}
    /\ Go(s, {"reconcile"}, "added")
    /\ Read(s)
    /\ UNCHANGED <<door, account, repo, engine, list, seen, chosen, told, budget>>

\* GIT ADD where the engine reads the records: one call for all of it.
EngineAdd(s) ==
    /\ door = "engine"
    /\ Spend("verbs")
    /\ Go(s, Prompt, "engine")
    /\ Ask(s, "ADD", Ctl, None)
    /\ seen' = [seen EXCEPT ![s] = [r \in Rec |-> Unread]]
    /\ told' = [told EXCEPT ![s] = 0]
    /\ UNCHANGED <<door, account, repo, engine, list, chosen>>

Add(s) ==
    \/ StartAdd(s) \/ StageControl(s) \/ FlushAdd(s) \/ AskIds(s) \/ TakeIds(s)
    \/ FinishAdd(s) \/ EngineAdd(s)
    \/ \E r \in Rec : StageRecord(s, r) \/ PassRecord(s, r) \/ RemoveGone(s, r) \/ KeepThere(s, r)

-----------------------------------------------------------------------------
(* The other commands that write, or that end a batch.                      *)

\* GIT COMMIT, GIT RM and GIT STATUS make one call, and so do LOG, SHOW, DIFF
\* and the others that only look.
OneCall(s) ==
    /\ Spend("verbs")
    /\ Go(s, Prompt, "call")
    /\ \/ Ask(s, "COMMIT", Ctl, None)
       \/ \E r \in Rec : Ask(s, "RM", r, None)
       \/ \E op \in {"STAGED", "LOOK"} : Ask(s, op, Ctl, None)
    /\ UNCHANGED <<door, account, repo, engine, list, seen, chosen, told>>

\* GIT ATTR --set builds on the staged control, then on the committed one,
\* then on the bare class.
StartEdit(s) ==
    /\ Spend("verbs")
    /\ Go(s, Prompt, "ixcat")
    /\ Ask(s, "IXCAT", Ctl, None)
    /\ \E e \in Edit : chosen' = [chosen EXCEPT ![s] = e]
    /\ UNCHANGED <<door, account, repo, engine, list, seen, told>>

EditFromHead(s) ==
    /\ wait[s] /\ HasAnswer(s) /\ Answer(s).ctl = None
    /\ Go(s, {"ixcat"}, "cat")
    /\ Ask(s, "CAT", Ctl, None)
    /\ UNCHANGED <<door, account, repo, engine, list, seen, chosen, told, budget>>

StageEdit(s) ==
    /\ wait[s] /\ HasAnswer(s)
    /\ pc[s] = "ixcat" => Answer(s).ctl # None
    /\ Go(s, {"ixcat", "cat"}, "call")
    /\ LET base == IF Answer(s).ctl = None THEN BareClass ELSE Answer(s).ctl
       IN  Ask(s, "STAGECTL", Ctl, [base EXCEPT !.edits = @ \cup {chosen[s]}])
    /\ UNCHANGED <<door, account, repo, engine, list, seen, chosen, told, budget>>

FinishCall(s) ==
    /\ Go(s, {"call", "engine"}, IF pc[s] = "engine" THEN "added" ELSE "ready")
    /\ Read(s)
    /\ UNCHANGED <<door, account, repo, engine, list, seen, chosen, told, budget>>

Command(s) == OneCall(s) \/ StartEdit(s) \/ EditFromHead(s) \/ StageEdit(s) \/ FinishCall(s)

-----------------------------------------------------------------------------
(* The engine's side of a call.                                             *)

\* mv_git_batch_begin: the index as it is on disk now, if none is open.
Begun(s) ==
    IF batch[s].open THEN batch[s] ELSE [open |-> TRUE, tree |-> index, skipped |-> 0]

\* mv_git_batch_add: an id that is no git path is counted and left out.
Added(b, p, v) ==
    IF p \in Bad THEN [b EXCEPT !.skipped = @ + 1] ELSE [b EXCEPT !.tree[p] = v]

\* mv_git_batch_end: what is in memory replaces what is on disk.
Flushed(s) == IF batch[s].open THEN batch[s].tree ELSE index

Ended(s) == [batch EXCEPT ![s] = [@ EXCEPT !.open = FALSE, !.tree = Nothing]]

\* The operations behind each door that end the batch before they do anything
\* else.  All others go to the repository past it.
DaemonEnds == {"FLUSH", "IXCAT", "STAGECTL", "COMMIT"}

CallcEnds == {"FLUSH", "IXCAT", "STAGECTL", "COMMIT", "INDEXIDS", "STAGED"}

EngineEnds == {}

EndsBatch == CASE door = "daemon" -> DaemonEnds [] door = "callc" -> CallcEnds
               [] door = "engine" -> EngineEnds

\* mv_git_sticky_control: the geometry that git has learned of a hash file stays,
\* the staged one before the committed one.  A directory file has none to keep:
\* neither where the file is one now nor where git has it as one.
Sticky(c) ==
    LET kept == IF index[Ctl] # None THEN index[Ctl] ELSE head[Ctl]
    IN  IF c.size = Dir \/ kept = None \/ kept.size = Dir THEN c ELSE kept

Request(s) == Head(asked[s])

\* The index on disk once the batch is ended, if the request ends it.
Settled(s) == IF Request(s).op \in EndsBatch THEN Flushed(s) ELSE index

Settles(s) == batch' = IF Request(s).op \in EndsBatch THEN Ended(s) ELSE batch

\* The engine of s takes its next request for op ...
Serves(s, op) ==
    /\ asked[s] # <<>> /\ Request(s).op = op
    /\ door = "daemon" => child[s] = "serving"
    /\ asked' = [asked EXCEPT ![s] = Tail(@)]

\* A slip: the answer follows an error that was already sent.
RepliesTwice(s, answer) ==
    /\ pipe' = IF door = "callc" THEN pipe ELSE [pipe EXCEPT ![s] = @ \o <<Empty, answer>>]
    /\ channel' = IF door = "callc" THEN [by |-> s, answer |-> answer] ELSE channel

\* ... and answers it, on the session's pipe or in the repository's channel.
Replies(s, answer) ==
    /\ pipe' = IF door = "callc" THEN pipe ELSE [pipe EXCEPT ![s] = Append(@, answer)]
    /\ channel' = IF door = "callc" THEN [by |-> s, answer |-> answer] ELSE channel

\* The index is written while another session's command counts on it.
Disturbs(s) == index' # index /\ \E t \in Others(s) : Busy(t)

Engine(s) ==
    /\ mixed' = (mixed \/ Disturbs(s))
    /\ UNCHANGED <<door, account, verb, wait, child, linked, budget>>

\* STAGE and STAGEBLOB go into the batch.
Stage(s) ==
    /\ \/ Serves(s, "STAGE") /\ batch' = [batch EXCEPT ![s] =
              Added(Begun(s), Request(s).path, Request(s).blob)]
       \/ Serves(s, "STAGEBLOB") /\ batch' = [batch EXCEPT ![s] =
              Added(Begun(s), Ctl, Sticky(Request(s).blob))]
    /\ Replies(s, Empty)
    /\ UNCHANGED repo
    /\ Engine(s)

\* A slip: the skipped records are not counted in the reply of FLUSH, which is
\* what GITFLUSH of gitcallcb.c does.
FlushSilent(s) ==
    /\ Serves(s, "FLUSH")
    /\ index' = Settled(s) /\ Settles(s)
    /\ Replies(s, Empty)
    /\ UNCHANGED head
    /\ Engine(s)

\* FLUSH; the daemon says how many records the batch left out.
Flush(s) ==
    /\ Serves(s, "FLUSH")
    /\ index' = Settled(s) /\ Settles(s)
    /\ Replies(s, IF door = "daemon" THEN [Empty EXCEPT !.skipped = batch[s].skipped] ELSE Empty)
    /\ UNCHANGED head
    /\ Engine(s)

\* The ids staged for the file.
IndexIds(tree) == {r \in Rec : tree[r] # None}

\* INDEXIDS, STAGED and what only looks at history.
Look(s) ==
    /\ \E op \in {"INDEXIDS", "STAGED", "LOOK"} : Serves(s, op)
    /\ index' = Settled(s) /\ Settles(s)
    /\ Replies(s, [Empty EXCEPT !.ids = IF Request(s).op = "INDEXIDS"
                                        THEN IndexIds(index') ELSE {}])
    /\ UNCHANGED head
    /\ Engine(s)

\* RM takes the path out of the index on disk, past an open batch.
Rm(s) ==
    /\ Serves(s, "RM")
    /\ index' = [Settled(s) EXCEPT ![Request(s).path] = None] /\ Settles(s)
    /\ Replies(s, Empty)
    /\ UNCHANGED head
    /\ Engine(s)

\* A slip: the editor reads what was last committed.
IxCatFromHead(s) ==
    /\ Serves(s, "IXCAT")
    /\ index' = Settled(s) /\ Settles(s)
    /\ Replies(s, [Empty EXCEPT !.ctl = head[Ctl]])
    /\ UNCHANGED head
    /\ Engine(s)

\* IXCAT: the control as it is staged; CAT: as it was last committed.
IxCat(s) ==
    /\ Serves(s, "IXCAT")
    /\ index' = Settled(s) /\ Settles(s)
    /\ Replies(s, [Empty EXCEPT !.ctl = index'[Ctl]])
    /\ UNCHANGED head
    /\ Engine(s)

Cat(s) ==
    /\ Serves(s, "CAT")
    /\ Replies(s, [Empty EXCEPT !.ctl = head[Ctl]])
    /\ UNCHANGED <<repo, batch>>
    /\ Engine(s)

\* STAGECTL: the batch first, so that it cannot land on the edit afterwards,
\* then the control as it is, straight to the index on disk.
StageCtl(s) ==
    /\ Serves(s, "STAGECTL")
    /\ index' = [Settled(s) EXCEPT ![Ctl] = Request(s).blob] /\ Settles(s)
    /\ Replies(s, Empty)
    /\ UNCHANGED head
    /\ Engine(s)

Commit(s) ==
    /\ Serves(s, "COMMIT")
    /\ index' = Settled(s) /\ Settles(s)
    /\ head' = index'
    /\ Replies(s, Empty)
    /\ Engine(s)

\* The engine's own add: every record that is a git path, what is gone goes,
\* and the control; in one call, without a batch.
AddAll(s) ==
    /\ Serves(s, "ADD")
    /\ index' = [p \in Path |-> IF p = Ctl THEN Sticky([size |-> size, edits |-> {}])
                                ELSE IF p \in Bad THEN None ELSE live[p]]
    /\ seen' = [seen EXCEPT ![s] = live]
    /\ Replies(s, Empty)
    /\ mixed' = (mixed \/ Disturbs(s))
    /\ UNCHANGED <<door, account, head, batch, pc, list, chosen, told, wait, child, linked,
                   budget>>

\* The index on disk cannot be opened or written, and the command goes on: most of
\* these calls are answered like any other (batch_begin, batch_add, GITSTAGECTL),
\* and where RM and ADD answer with an error it is shown at most ...
InVain(s) ==
    /\ \E op \in {"STAGE", "STAGEBLOB", "RM", "STAGECTL", "ADD"} : Serves(s, op)
    /\ Spend("faults")
    /\ index' = Settled(s)
    /\ \/ Settles(s)
       \/ Request(s).op \in {"STAGE", "STAGEBLOB"} /\ batch' = [batch EXCEPT ![s] = Begun(s)]
    /\ seen' = IF Request(s).path \in Rec
               THEN [seen EXCEPT ![s][Request(s).path] = Unread] ELSE seen
    /\ Replies(s, Empty)
    /\ mixed' = (mixed \/ Disturbs(s))
    /\ UNCHANGED <<door, account, head, pc, list, chosen, told, wait, child, linked>>

\* ... and a batch whose end does not reach the disk is gone all the same, before
\* the call that ends it is served.
EndInVain(s) ==
    /\ asked[s] # <<>> /\ Request(s).op \in EndsBatch /\ batch[s].open
    /\ Spend("faults")
    /\ batch' = Ended(s)
    /\ seen' = [seen EXCEPT ![s] = [r \in Rec |-> Unread]]
    /\ UNCHANGED <<door, account, repo, pc, list, chosen, told, wire, child, linked, mixed>>

Serve(s) ==
    \/ InVain(s) \/ EndInVain(s)
    \/ Stage(s) \/ Flush(s) \/ Look(s) \/ Rm(s) \/ IxCat(s) \/ Cat(s) \/ StageCtl(s)
    \/ Commit(s) \/ AddAll(s)

-----------------------------------------------------------------------------
(* Sessions, children and their ends.                                       *)

\* The first call of a session starts its child (the how of it is Mvgitd).
Connect(s) ==
    /\ door = "daemon" /\ ~linked[s] /\ wait[s]
    /\ linked' = [linked EXCEPT ![s] = TRUE]
    /\ child' = [child EXCEPT ![s] = "serving"]
    /\ UNCHANGED <<door, account, repo, batch, verb, wire, mixed, budget>>

\* A slip: the child closes its pipes and keeps the batch.
LeaveHeld(s) ==
    /\ child[s] = "serving" /\ asked[s] = <<>>
    /\ IF pc[s] = "out" THEN UNCHANGED budget ELSE Spend("idle")
    /\ child' = [child EXCEPT ![s] = "gone"]
    /\ UNCHANGED <<door, account, repo, batch, verb, wire, linked, mixed>>

\* The child leaves on fifteen minutes of silence, or because the session has
\* gone, and writes the batch it has.  The session is told nothing.
Leave(s) ==
    /\ child[s] = "serving" /\ asked[s] = <<>>
    /\ IF pc[s] = "out" THEN UNCHANGED budget ELSE Spend("idle")
    /\ child' = [child EXCEPT ![s] = "gone"]
    /\ index' = Flushed(s) /\ batch' = Ended(s)
    /\ mixed' = (mixed \/ Disturbs(s))
    /\ UNCHANGED <<door, account, head, verb, wire, linked>>

\* A child that dies takes its batch along.
Kill(s) ==
    /\ child[s] = "serving"
    /\ Spend("deaths")
    /\ child' = [child EXCEPT ![s] = "gone"]
    /\ batch' = Ended(s)
    /\ UNCHANGED <<door, account, repo, verb, wire, linked, mixed>>

\* The user breaks the command off.  Inside GIT.RPC that leaves a reply on the
\* pipe for the next call to read; a CALLC cannot be broken into.
Break(s) ==
    /\ pc[s] \notin Prompt \cup {"out"}
    /\ door # "daemon" => asked[s] = <<>>
    /\ Spend("breaks")
    /\ Go(s, {pc[s]}, "ready")
    /\ list' = [list EXCEPT ![s] = {}]
    /\ wait' = [wait EXCEPT ![s] = FALSE]
    /\ pipe' = IF door = "daemon" THEN pipe ELSE [pipe EXCEPT ![s] = <<>>]
    /\ mixed' = (mixed \/ (door = "daemon" /\ wait[s]))
    /\ UNCHANGED <<door, account, repo, engine, seen, chosen, told, asked, channel>>

\* A session that ends takes an engine in its own process along.
Logout(s) ==
    /\ pc[s] \in Prompt
    /\ Spend("deaths")
    /\ Go(s, Prompt, "out")
    /\ batch' = IF door = "daemon" THEN batch ELSE Ended(s)
    /\ UNCHANGED <<door, account, repo, list, seen, chosen, told, wire, child, linked, mixed>>

Life(s) == Connect(s) \/ Leave(s) \/ Kill(s) \/ Break(s) \/ Logout(s)

Next ==
    \/ \E s \in Session : Add(s) \/ Command(s) \/ Serve(s) \/ Life(s)
    \/ Resize \/ \E r \in Rec : ChangeRecord(r)

Spec == Init /\ [][Next]_vars

-----------------------------------------------------------------------------
(* What staging promises.                                                   *)

\* The type of the state.
TypeOK ==
    /\ door \in Doors
    /\ live \in [Rec -> Value \cup {None}] /\ size \in Class
    /\ index \in [Path -> Blob] /\ head \in [Path -> Blob]
    /\ \A s \in Session : batch[s].open \in BOOLEAN /\ batch[s].tree \in [Path -> Blob]
    /\ pc \in [Session -> {"ready", "data", "control", "flush", "ids", "reconcile", "added",
                           "engine", "call", "ixcat", "cat", "out"}]
    /\ list \in [Session -> SUBSET Rec]
    /\ \A s \in Session : \A r \in Rec : seen[s][r] \in Value \cup {None, Unread}
    /\ chosen \in [Session -> Edit \cup {None}]
    /\ told \in [Session -> Nat]
    /\ wait \in [Session -> BOOLEAN]
    /\ child \in [Session -> {"none", "serving", "gone"}]
    /\ linked \in [Session -> BOOLEAN] /\ mixed \in BOOLEAN
    /\ \A s \in Session : door = "daemon" /\ batch[s].open => child[s] = "serving"

\* A session and its engine stay in step: between them there is one request or
\* one answer, of the call the session waits for, and nothing else.
InStep ==
    ~mixed => \A s \in Session :
        Len(asked[s]) + Len(pipe[s]) <= IF wait[s] THEN 1 ELSE 0

Ends(s) == pc[s] # "added" /\ pc'[s] = "added"

\* When GIT ADD of a file ends, the index on disk has what the command found
\* under every id that is a git path: each record as it was read, and nothing
\* under an id that had gone (mv_git#41: staged records that sat in memory).
\* What a failed write of the repository lost is not claimed (InVain, EndInVain):
\* the command goes on without noticing.
AddIsWhole ==
    [][\A s \in Session : Ends(s) /\ ~mixed' =>
          \A r \in Rec \ Bad : seen'[s][r] # Unread => index'[r] = seen'[s][r]]_vars

\* Nothing but a deliberate edit changes the control that git has for a hash
\* file, and no edit is lost to another or to a batch that lands later: the
\* geometry it first learned stays, and the edits in it only grow - unless the
\* file has become a directory file, whose control takes its place.  The control
\* of a directory file is not kept: the next add drops the edits in it.
ControlKept ==
    [][index[Ctl] # None /\ index[Ctl].size # Dir /\ ~mixed' =>
          /\ index'[Ctl] # None
          /\ \/ index'[Ctl].size = Dir
             \/ /\ index'[Ctl].size = index[Ctl].size
                /\ index[Ctl].edits \subseteq index'[Ctl].edits]_vars

Left(s) == {r \in Bad : seen'[s][r] \notin {Unread, None}}

\* A record left out because its id is no git path is reported: on UniVerse,
\* GIT ADD ends having named at least as many as it left out.
SkippedTold ==
    [][\A s \in Session : Ends(s) /\ door = "daemon" /\ ~mixed' =>
          told'[s] >= Cardinality(Left(s))]_vars

=============================================================================
