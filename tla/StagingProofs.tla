---------------------------- MODULE StagingProofs ----------------------------
(***************************************************************************)
(* Proofs about Staging, for every set of sessions, records, values,       *)
(* geometries and edits, behind each of the three doors, with any number   *)
(* of commands, changes, breaks, silences, deaths and failed writes.       *)
(*                                                                         *)
(* The types hold whatever happens (Typed).  The properties hold until two *)
(* commands have run into each other (mixed), and rest on what is kept for *)
(* each session (Kept):                                                    *)
(*   Turn           between the session and its engine there is nothing,   *)
(*                  the request its place calls for, or the answer to it;  *)
(*   BatchHolds     an open batch holds the control that is staged on disk *)
(*                  (so writing it moves none), or that of a directory;    *)
(*   EditBuilds     what GIT ATTR builds on is what is staged, with no     *)
(*                  batch open that could land on it;                      *)
(*   ReadIsStaged, ReadIsWritten, GoneIsRemoved, EngineAdds                *)
(*                  what GIT ADD found under an id is on its way to the    *)
(*                  batch, in it, then on disk;                            *)
(*   SkipsCounted   a record left out is in the count of the batch, then   *)
(*                  in the answer of FLUSH, then in what was told.         *)
(* A child that has gone never comes back (Doomed): the command it leaves  *)
(* behind never ends, and so promises nothing.                             *)
(*                                                                         *)
(* A step of one session leaves all of this to the others (OthersKept):    *)
(* either it does not touch the index, or they do not count on it, for     *)
(* else the step is a collision.  What is left is one lemma per action,    *)
(* about the session that takes it.                                        *)
(***************************************************************************)
EXTENDS Staging, SequenceTheorems, FiniteSetTheorems, TLAPS

-----------------------------------------------------------------------------
(* The types, in full.                                                      *)

MaybeControl == Control \cup {None}

Trees ==
    {t \in [Path -> Blob] : t[Ctl] \in MaybeControl /\ \A r \in Rec : t[r] \in Value \cup {None}}

Batches == [open : BOOLEAN, tree : Trees, skipped : Nat]

Answers == [skipped : Nat, ids : SUBSET Rec, ctl : MaybeControl]

Ops == {"STAGE", "STAGEBLOB", "FLUSH", "STAGED", "INDEXIDS", "RM", "ADD", "COMMIT", "LOOK",
        "IXCAT", "CAT", "STAGECTL"}

\* What a request carries goes with its operation.
Requests ==
    {q \in [op : Ops, path : Path, blob : Blob] :
        /\ q.op \in {"STAGE", "RM"} => q.path \in Rec
        /\ q.op = "STAGE" => q.blob \in Value
        /\ q.op \in {"STAGEBLOB", "STAGECTL"} => q.blob \in Control}

Counters == {"verbs", "uses", "breaks", "idle", "deaths", "faults"}

PCs == {"ready", "data", "control", "flush", "ids", "reconcile", "added", "engine", "call",
        "ixcat", "cat", "out"}

Finds == Value \cup {None, Unread}

AccountTypes == door \in Doors /\ live \in [Rec -> Value \cup {None}] /\ size \in Class

EngineTypes ==
    /\ index \in Trees /\ head \in Trees
    /\ batch \in [Session -> Batches]
    /\ child \in [Session -> {"none", "serving", "gone"}]
    /\ linked \in [Session -> BOOLEAN]

VerbTypes ==
    /\ pc \in [Session -> PCs]
    /\ list \in [Session -> SUBSET Rec]
    /\ seen \in [Session -> [Rec -> Finds]]
    /\ chosen \in [Session -> Edit \cup {None}]
    /\ told \in [Session -> Nat]
    /\ budget \in [Counters -> Nat]

WireTypes ==
    /\ wait \in [Session -> BOOLEAN]
    /\ asked \in [Session -> Seq(Requests)]
    /\ pipe \in [Session -> Seq(Answers)]
    /\ channel \in [by : Session \cup {Nobody}, answer : Answers]
    /\ mixed \in BOOLEAN

Types == AccountTypes /\ EngineTypes /\ VerbTypes /\ WireTypes

\* A child takes requests while it serves, and a session connects once.
Children ==
    \A s \in Session :
        /\ child[s] # "none" => linked[s] /\ door = "daemon"
        /\ door = "daemon" /\ batch[s].open => child[s] = "serving"

\* Where the command of a session is says whether it has called, and whether
\* an edit was chosen.
Places ==
    \A s \in Session :
        /\ pc[s] \in {"control", "flush", "ids", "ixcat", "cat", "call", "engine"} => wait[s]
        /\ pc[s] \in {"ready", "added", "out"} => ~wait[s]
        /\ pc[s] \in {"ixcat", "cat"} => chosen[s] \in Edit
        /\ pc[s] \in {"data", "control", "flush", "ids", "reconcile"} => door # "engine"
        /\ pc[s] = "engine" => door = "engine"

Typed == Types /\ Children /\ Places

-----------------------------------------------------------------------------
(* The inductive invariant.                                                 *)

\* The operations a command may have asked for where it is.
OpsAt(place) ==
    CASE place = "data" -> {"STAGE"}
      [] place = "control" -> {"STAGEBLOB"}
      [] place = "flush" -> {"FLUSH"}
      [] place = "ids" -> {"INDEXIDS"}
      [] place = "reconcile" -> {"RM"}
      [] place = "engine" -> {"ADD"}
      [] place = "ixcat" -> {"IXCAT"}
      [] place = "cat" -> {"CAT"}
      [] place = "call" -> {"COMMIT", "RM", "STAGED", "LOOK", "STAGECTL"}
      [] OTHER -> {}

\* Between a session and its engine there is nothing, the request, or the
\* answer; the answer of CallC lies in the channel.
Idle(s) == asked[s] = <<>> /\ pipe[s] = <<>> /\ (wait[s] => door = "callc")

Calling(s) ==
    wait[s] /\ pipe[s] = <<>> /\ \E q \in Requests : asked[s] = <<q>> /\ q.op \in OpsAt(pc[s])

Answering(s) == wait[s] /\ door # "callc" /\ asked[s] = <<>> /\ \E a \in Answers : pipe[s] = <<a>>

Turn(s) == Idle(s) \/ Calling(s) \/ Answering(s)

\* On UniData one session calls at a time.
OneWaits == door = "callc" => \A s, t \in Session : wait[s] /\ wait[t] => s = t

Asks(s, op) == asked[s] # <<>> /\ Request(s).op = op

\* Is the answer to the last call there?
Answered(s) == wait[s] /\ asked[s] = <<>>

\* The control of a hash file is followed by itself, or by a directory's.
Stays(old, new) ==
    old # None /\ old.size # Dir => new # None /\ (new.size = Dir \/ new = old)

\* A batch that is open holds the control that is staged on disk, unless the file
\* has become a directory.
BatchHolds(s) ==
    /\ door = "engine" => ~batch[s].open
    /\ batch[s].open => Stays(index[Ctl], batch[s].tree[Ctl])

\* An edit is built on the control that is staged.
Grows(old, new) == old # None => new.size = old.size /\ old.edits \subseteq new.edits

EditBuilds(s) ==
    /\ pc[s] = "ixcat" /\ Answered(s) => ~batch[s].open /\ Answer(s).ctl = index[Ctl]
    /\ pc[s] = "cat" => ~batch[s].open /\ index[Ctl] = None
    /\ Asks(s, "STAGECTL") => ~batch[s].open /\ Grows(index[Ctl], Request(s).blob)

\* A child that has left never comes back.
Doomed(s) == door = "daemon" /\ child[s] = "gone"

\* GIT ADD before its batch is written, and after.
Filling(s) == pc[s] \in {"data", "control"} \/ (pc[s] = "flush" /\ asked[s] # <<>>)

Written(s) == pc[s] \in {"ids", "reconcile"} \/ (pc[s] = "flush" /\ asked[s] = <<>>)

\* What was read is in the batch or on its way to it ...
ReadIsStaged(s) ==
    /\ Asks(s, "STAGE") => /\ Request(s).path \notin list[s]
                           /\ Request(s).blob = seen[s][Request(s).path]
    /\ Filling(s) => \A r \in Rec \ Bad : seen[s][r] \in Value =>
          \/ Doomed(s)
          \/ batch[s].open /\ batch[s].tree[r] = seen[s][r]
          \/ Asks(s, "STAGE") /\ Request(s).path = r

\* ... then on disk ...
ReadIsWritten(s) ==
    Written(s) => /\ ~batch[s].open
                  /\ \A r \in Rec \ Bad : seen[s][r] \in Value => index[r] = seen[s][r]

\* ... and what was gone is found by RECONCILE and removed.
GoneIsRemoved(s) ==
    /\ pc[s] = "ids" /\ Answered(s) => Answer(s).ids = IndexIds(index)
    /\ pc[s] = "reconcile" =>
          /\ asked[s] # <<>> => /\ Request(s).path \notin list[s]
                                /\ seen[s][Request(s).path] = None
          /\ \A r \in Rec \ Bad : seen[s][r] = None =>
                \/ index[r] = None \/ r \in list[s]
                \/ asked[s] # <<>> /\ Request(s).path = r

EngineAdds(s) ==
    pc[s] = "engine" => \A r \in Rec \ Bad :
        seen[s][r] # Unread => asked[s] = <<>> /\ index[r] = seen[s][r]

\* The records read that no batch can hold.
LeftNow(s) == {r \in Bad : seen[s][r] \notin {Unread, None}}

Skips(s) == IF batch[s].open THEN batch[s].skipped ELSE 0

Pending(s) == IF Asks(s, "STAGE") /\ Request(s).path \in Bad THEN 1 ELSE 0

SkipsCounted(s) ==
    door = "daemon" =>
        /\ Filling(s) => Doomed(s) \/ Cardinality(LeftNow(s)) <= Skips(s) + Pending(s)
        /\ pc[s] = "flush" /\ Answered(s) => Cardinality(LeftNow(s)) <= Answer(s).skipped
        /\ pc[s] \in {"ids", "reconcile"} => Cardinality(LeftNow(s)) <= told[s]

Adds(s) == ReadIsStaged(s) /\ ReadIsWritten(s) /\ GoneIsRemoved(s) /\ EngineAdds(s)

Kept(s) == Turn(s) /\ BatchHolds(s) /\ EditBuilds(s) /\ Adds(s) /\ SkipsCounted(s)

IInv == Typed /\ (~mixed => OneWaits /\ \A s \in Session : Kept(s))

-----------------------------------------------------------------------------
(* Lemmas: the types.                                                       *)

LEMMA ConstantsApart ==
    ASSUME StagingAssumption
    PROVE  /\ Ctl \notin Rec /\ Ctl \notin Bad /\ Bad \subseteq Rec /\ Rec \subseteq Path /\ Ctl \in Path
           /\ None \notin Value /\ None \notin Class /\ None \notin Control
           /\ Dir # None /\ Dir \in Class
           /\ Unread \notin Value /\ Unread # None /\ Nobody \notin Session
           /\ IsFiniteSet(Rec) /\ IsFiniteSet(Bad)
           /\ None \in Blob /\ Value \subseteq Blob /\ Control \subseteq Blob
BY FS_Subset DEF StagingAssumption, Path, Control, Class, Unread, Blob

LEMMA EmptyTyped == ASSUME StagingAssumption PROVE Empty \in Answers /\ Nothing \in Trees
<1>1. Empty \in Answers
    BY DEF Empty, Answers, MaybeControl
<1>2. Nothing \in Trees
    BY ConstantsApart DEF Nothing, Trees, MaybeControl
<1> QED BY <1>1, <1>2

LEMMA InitTyped == ASSUME StagingAssumption, Init PROVE Typed
<1> USE EmptyTyped
<1>1. AccountTypes
    BY DEF Init, AccountTypes
<1>2. EngineTypes
    BY DEF Init, EngineTypes, Closed, Batches
<1>3. VerbTypes
    BY DEF Init, VerbTypes, PCs, Finds, Counters, StagingAssumption
<1>4. WireTypes
  <2>1. channel \in [by : Session \cup {Nobody}, answer : Answers]
      BY DEF Init
  <2>2. wait \in [Session -> BOOLEAN] /\ mixed \in BOOLEAN
      BY DEF Init
  <2>3. asked \in [Session -> Seq(Requests)] /\ pipe \in [Session -> Seq(Answers)]
      BY EmptySeq DEF Init
  <2> QED BY <2>1, <2>2, <2>3 DEF WireTypes
<1>5. Children
    BY DEF Init, Children, Closed
<1>6. Places
    BY DEF Init, Places
<1> QED BY <1>1, <1>2, <1>3, <1>4, <1>5, <1>6 DEF Typed, Types

LEMMA AnswerTyped ==
    ASSUME WireTypes, NEW s \in Session, wait[s], HasAnswer(s)
    PROVE  Answer(s) \in Answers /\ Answer(s).skipped \in Nat /\ Answer(s).ids \subseteq Rec
           /\ Answer(s).ctl \in MaybeControl
<1>1. Answer(s) \in Answers
  <2>1. CASE door = "callc"
      BY <2>1 DEF Answer, WireTypes
  <2>2. CASE door # "callc"
    <3>1. pipe[s] \in Seq(Answers) /\ pipe[s] # <<>>
        BY <2>2 DEF HasAnswer, WireTypes
    <3> QED BY <2>2, <3>1, HeadTailProperties DEF Answer
  <2> QED BY <2>1, <2>2
<1> QED BY <1>1 DEF Answers

LEMMA PipeReadTyped ==
    ASSUME WireTypes, NEW s \in Session, HasAnswer(s)
    PROVE  PipeRead(s) \in [Session -> Seq(Answers)]
<1>1. CASE wait[s] /\ door # "callc"
  <2>1. pipe[s] \in Seq(Answers) /\ pipe[s] # <<>>
      BY <1>1 DEF HasAnswer, WireTypes
  <2>2. Tail(pipe[s]) \in Seq(Answers)
      BY <2>1, HeadTailProperties
  <2> QED BY <1>1, <2>2 DEF PipeRead, WireTypes
<1>2. CASE ~(wait[s] /\ door # "callc")
    BY <1>2 DEF PipeRead, WireTypes
<1> QED BY <1>1, <1>2

LEMMA AskTyped ==
    ASSUME StagingAssumption, WireTypes, NEW s \in Session, NEW op, NEW path, NEW blob,
           [op |-> op, path |-> path, blob |-> blob] \in Requests, Ask(s, op, path, blob)
    PROVE  WireTypes' /\ wait'[s] = TRUE /\ \A t \in Others(s) : wait'[t] = wait[t]
<1> DEFINE q == [op |-> op, path |-> path, blob |-> blob]
<1>1. wait' \in [Session -> BOOLEAN] /\ wait'[s] = TRUE /\ \A t \in Others(s) : wait'[t] = wait[t]
    BY DEF Ask, WireTypes, Others
<1>2. asked' \in [Session -> Seq(Requests)]
  <2>1. Append(asked[s], q) \in Seq(Requests)
      BY AppendProperties DEF WireTypes
  <2> QED BY <2>1 DEF Ask, WireTypes
<1>3. pipe' \in [Session -> Seq(Answers)]
    BY PipeReadTyped DEF Ask
<1>4. channel' \in [by : Session \cup {Nobody}, answer : Answers]
    BY EmptyTyped DEF Ask, WireTypes
<1>5. mixed' \in BOOLEAN
    BY DEF Ask, WireTypes
<1> QED BY <1>1, <1>2, <1>3, <1>4, <1>5 DEF WireTypes

LEMMA ReadTyped ==
    ASSUME WireTypes, NEW s \in Session, Read(s)
    PROVE  WireTypes' /\ wait'[s] = FALSE /\ \A t \in Others(s) : wait'[t] = wait[t]
<1>1. pipe' \in [Session -> Seq(Answers)]
    BY PipeReadTyped DEF Read
<1> QED BY <1>1 DEF Read, WireTypes, Others

LEMMA SpendTyped ==
    ASSUME budget \in [Counters -> Nat], NEW c \in Counters, Spend(c)
    PROVE  budget' \in [Counters -> Nat]
BY DEF Spend

\* A command moves its own session only, and makes a call or takes an answer.
LEMMA VerbStepTyped ==
    ASSUME StagingAssumption, Typed, NEW s \in Session, NEW to \in PCs,
           UNCHANGED <<door, account, repo, engine>>,
           VerbTypes', WireTypes',
           pc' = [pc EXCEPT ![s] = to],
           \A t \in Others(s) : wait'[t] = wait[t] /\ chosen'[t] = chosen[t],
           to \in {"control", "flush", "ids", "ixcat", "cat", "call", "engine"} => wait'[s],
           to \in {"ready", "added", "out"} => ~wait'[s],
           to \in {"ixcat", "cat"} => chosen'[s] \in Edit,
           to \in {"data", "control", "flush", "ids", "reconcile"} => door # "engine",
           to = "engine" => door = "engine"
    PROVE  Typed'
<1>1. AccountTypes' /\ EngineTypes'
    BY DEF Typed, Types, AccountTypes, EngineTypes, account, repo, engine
<1>2. Children'
    BY DEF Typed, Children, engine
<1>3. Places'
  <2> SUFFICES ASSUME NEW t \in Session
               PROVE  /\ pc'[t] \in {"control", "flush", "ids", "ixcat", "cat", "call", "engine"} => wait'[t]
                      /\ pc'[t] \in {"ready", "added", "out"} => ~wait'[t]
                      /\ pc'[t] \in {"ixcat", "cat"} => chosen'[t] \in Edit
                      /\ pc'[t] \in {"data", "control", "flush", "ids", "reconcile"} => door' # "engine"
                      /\ pc'[t] = "engine" => door' = "engine"
      BY DEF Places
  <2>1. pc \in [Session -> PCs] /\ Places
      BY DEF Typed, Types, VerbTypes
  <2>2. CASE t = s
      BY <2>1, <2>2
  <2>3. CASE t # s
    <3>1. t \in Others(s) /\ pc'[t] = pc[t]
        BY <2>1, <2>3 DEF Others
    <3>2. wait'[t] = wait[t] /\ chosen'[t] = chosen[t]
        BY <3>1
    <3> QED BY <2>1, <3>1, <3>2 DEF Places
  <2> QED BY <2>2, <2>3
<1> QED BY <1>1, <1>2, <1>3 DEF Typed, Types

\* The requests the commands make are requests.
LEMMA RequestForms ==
    ASSUME StagingAssumption, AccountTypes
    PROVE  /\ \A op \in Ops, r \in Rec :
                 op \notin {"STAGE", "STAGEBLOB", "STAGECTL"} =>
                     [op |-> op, path |-> r, blob |-> None] \in Requests
           /\ \A op \in Ops :
                 op \notin {"STAGE", "RM", "STAGEBLOB", "STAGECTL"} =>
                     [op |-> op, path |-> Ctl, blob |-> None] \in Requests
           /\ \A r \in Rec : live[r] # None =>
                 [op |-> "STAGE", path |-> r, blob |-> live[r]] \in Requests
           /\ \A c \in Control, op \in {"STAGEBLOB", "STAGECTL"} :
                 [op |-> op, path |-> Ctl, blob |-> c] \in Requests
<1> USE ConstantsApart
<1>1. ASSUME NEW op \in Ops, NEW r \in Rec, op \notin {"STAGE", "STAGEBLOB", "STAGECTL"}
      PROVE  [op |-> op, path |-> r, blob |-> None] \in Requests
    BY <1>1 DEF Requests
<1>2. ASSUME NEW op \in Ops, op \notin {"STAGE", "RM", "STAGEBLOB", "STAGECTL"}
      PROVE  [op |-> op, path |-> Ctl, blob |-> None] \in Requests
    BY <1>2 DEF Requests
<1>3. ASSUME NEW r \in Rec, live[r] # None
      PROVE  [op |-> "STAGE", path |-> r, blob |-> live[r]] \in Requests
  <2>1. live[r] \in Value
      BY <1>3 DEF AccountTypes
  <2> QED BY <2>1 DEF Requests, Ops
<1>4. ASSUME NEW c \in Control, NEW op \in {"STAGEBLOB", "STAGECTL"}
      PROVE  [op |-> op, path |-> Ctl, blob |-> c] \in Requests
    BY <1>4 DEF Requests, Ops
<1> QED BY <1>1, <1>2, <1>3, <1>4

LEMMA AddTyped ==
    ASSUME StagingAssumption, Typed, NEW s \in Session, Add(s)
    PROVE  Typed'
<1> USE RequestForms
<1> USE DEF Go
<1>a. /\ AccountTypes /\ EngineTypes /\ VerbTypes /\ WireTypes /\ Places
    BY DEF Typed, Types
<1>b. /\ pc \in [Session -> PCs] /\ list \in [Session -> SUBSET Rec] /\ seen \in [Session -> [Rec -> Finds]]
      /\ chosen \in [Session -> Edit \cup {None}] /\ told \in [Session -> Nat] /\ budget \in [Counters -> Nat]
    BY <1>a DEF VerbTypes
<1>c. \A r \in Rec : live[r] \in Value \cup {None}
    BY <1>a DEF AccountTypes
<1>1. CASE StartAdd(s)
  <2>1. VerbTypes'
    <3>1. pc' \in [Session -> PCs]
        BY <1>1, <1>b DEF StartAdd, PCs
    <3>2. list' \in [Session -> SUBSET Rec] /\ told' \in [Session -> Nat] /\ chosen' = chosen
        BY <1>1, <1>b DEF StartAdd
    <3>3. seen' \in [Session -> [Rec -> Finds]]
        BY <1>1, <1>b DEF StartAdd, Finds
    <3>4. budget' \in [Counters -> Nat]
        BY <1>1, <1>b, SpendTyped DEF StartAdd, Counters
    <3> QED BY <1>b, <3>1, <3>2, <3>3, <3>4 DEF VerbTypes
  <2>2. WireTypes' /\ wait' = wait
      BY <1>1, <1>a DEF StartAdd, WireTypes, wire
  <2> QED BY <1>1, <2>1, <2>2, VerbStepTyped DEF StartAdd, PCs, Others
<1>2. ASSUME NEW r \in Rec, StageRecord(s, r)
      PROVE  Typed'
  <2>1. VerbTypes'
      BY <1>2, <1>b, <1>c DEF StageRecord, VerbTypes, Finds, PCs
  <2>2. WireTypes' /\ wait'[s] = TRUE /\ \A t \in Others(s) : wait'[t] = wait[t]
      BY <1>2, <1>a, AskTyped DEF StageRecord
  <2> QED BY <1>2, <1>a, <2>1, <2>2, VerbStepTyped DEF StageRecord, PCs, Others, Places
<1>3. ASSUME NEW r \in Rec, PassRecord(s, r)
      PROVE  Typed'
  <2>1. VerbTypes'
      BY <1>3, <1>b DEF PassRecord, VerbTypes, Finds, PCs
  <2>2. WireTypes' /\ wait' = wait
      BY <1>3, <1>a DEF PassRecord, WireTypes, wire
  <2> QED BY <1>3, <1>a, <2>1, <2>2, VerbStepTyped DEF PassRecord, PCs, Others, Places
<1>4. CASE StageControl(s)
  <2>1. VerbTypes'
      BY <1>4, <1>b DEF StageControl, VerbTypes, PCs
  <2>2. [size |-> size, edits |-> {}] \in Control
      BY <1>a DEF AccountTypes, Control
  <2>3. WireTypes' /\ wait'[s] = TRUE /\ \A t \in Others(s) : wait'[t] = wait[t]
      BY <1>4, <1>a, <2>2, AskTyped DEF StageControl
  <2> QED BY <1>4, <1>a, <2>1, <2>3, VerbStepTyped DEF StageControl, PCs, Others, Places
<1>5. CASE FlushAdd(s)
  <2>1. VerbTypes'
      BY <1>5, <1>b DEF FlushAdd, VerbTypes, PCs
  <2>2. WireTypes' /\ wait'[s] = TRUE /\ \A t \in Others(s) : wait'[t] = wait[t]
      BY <1>5, <1>a, AskTyped DEF FlushAdd, Ops
  <2> QED BY <1>5, <1>a, <2>1, <2>2, VerbStepTyped DEF FlushAdd, PCs, Others, Places
<1>6. CASE AskIds(s)
  <2>1. wait[s] /\ HasAnswer(s)
      BY <1>6, <1>a DEF AskIds, Ask, Places
  <2>2. Answer(s).skipped \in Nat
      BY <2>1, <1>a, AnswerTyped
  <2>3. VerbTypes'
      BY <1>6, <1>b, <2>2 DEF AskIds, VerbTypes, PCs
  <2>4. WireTypes' /\ wait'[s] = TRUE /\ \A t \in Others(s) : wait'[t] = wait[t]
      BY <1>6, <1>a, AskTyped DEF AskIds, Ops
  <2> QED BY <1>6, <1>a, <2>3, <2>4, VerbStepTyped DEF AskIds, PCs, Others, Places
<1>7. CASE TakeIds(s)
  <2>1. wait[s] /\ HasAnswer(s)
      BY <1>7, <1>a DEF TakeIds, Read, Places
  <2>2. Answer(s).ids \subseteq Rec
      BY <2>1, <1>a, AnswerTyped
  <2>3. VerbTypes'
      BY <1>7, <1>b, <2>2 DEF TakeIds, VerbTypes, PCs
  <2>4. WireTypes' /\ wait'[s] = FALSE /\ \A t \in Others(s) : wait'[t] = wait[t]
      BY <1>7, <1>a, ReadTyped DEF TakeIds
  <2> QED BY <1>7, <1>a, <2>3, <2>4, VerbStepTyped DEF TakeIds, PCs, Others, Places
<1>8. ASSUME NEW r \in Rec, RemoveGone(s, r)
      PROVE  Typed'
  <2>1. VerbTypes'
      BY <1>8, <1>b DEF RemoveGone, VerbTypes, Finds, PCs
  <2>2. WireTypes' /\ wait'[s] = TRUE /\ \A t \in Others(s) : wait'[t] = wait[t]
      BY <1>8, <1>a, AskTyped DEF RemoveGone, Ops
  <2> QED BY <1>8, <1>a, <2>1, <2>2, VerbStepTyped DEF RemoveGone, PCs, Others, Places
<1>9. ASSUME NEW r \in Rec, KeepThere(s, r)
      PROVE  Typed'
  <2>1. VerbTypes'
      BY <1>9, <1>b DEF KeepThere, VerbTypes, Finds, PCs
  <2>2. WireTypes' /\ wait' = wait
      BY <1>9, <1>a DEF KeepThere, WireTypes, wire
  <2> QED BY <1>9, <1>a, <2>1, <2>2, VerbStepTyped DEF KeepThere, PCs, Others, Places
<1>10. CASE FinishAdd(s)
  <2>1. VerbTypes'
      BY <1>10, <1>b DEF FinishAdd, VerbTypes, PCs
  <2>2. WireTypes' /\ wait'[s] = FALSE /\ \A t \in Others(s) : wait'[t] = wait[t]
      BY <1>10, <1>a, ReadTyped DEF FinishAdd
  <2> QED BY <1>10, <1>a, <2>1, <2>2, VerbStepTyped DEF FinishAdd, PCs, Others, Places
<1>11. CASE EngineAdd(s)
  <2>1. budget' \in [Counters -> Nat]
      BY <1>11, <1>b, SpendTyped DEF EngineAdd, Counters
  <2>2. VerbTypes'
      BY <1>11, <1>b, <2>1 DEF EngineAdd, VerbTypes, PCs, Finds
  <2>3. WireTypes' /\ wait'[s] = TRUE /\ \A t \in Others(s) : wait'[t] = wait[t]
      BY <1>11, <1>a, AskTyped DEF EngineAdd, Ops
  <2> QED BY <1>11, <2>2, <2>3, VerbStepTyped DEF EngineAdd, PCs, Others
<1> QED BY <1>1, <1>2, <1>3, <1>4, <1>5, <1>6, <1>7, <1>8, <1>9, <1>10, <1>11 DEF Add

LEMMA CommandTyped ==
    ASSUME StagingAssumption, Typed, NEW s \in Session, Command(s)
    PROVE  Typed'
<1> USE RequestForms
<1> USE DEF Go
<1>a. /\ AccountTypes /\ EngineTypes /\ VerbTypes /\ WireTypes /\ Places
    BY DEF Typed, Types
<1>b. /\ pc \in [Session -> PCs] /\ list \in [Session -> SUBSET Rec] /\ seen \in [Session -> [Rec -> Finds]]
      /\ chosen \in [Session -> Edit \cup {None}] /\ told \in [Session -> Nat] /\ budget \in [Counters -> Nat]
    BY <1>a DEF VerbTypes
<1>1. CASE OneCall(s)
  <2>1. budget' \in [Counters -> Nat]
      BY <1>1, <1>b, SpendTyped DEF OneCall, Counters
  <2>2. VerbTypes'
      BY <1>1, <1>b, <2>1 DEF OneCall, VerbTypes, PCs
  <2>3. \E op \in Ops, path \in Path :
            Ask(s, op, path, None) /\ [op |-> op, path |-> path, blob |-> None] \in Requests
    <3>1. CASE Ask(s, "COMMIT", Ctl, None)
        BY <3>1, <1>a, ConstantsApart DEF Ops
    <3>2. CASE \E r \in Rec : Ask(s, "RM", r, None)
        BY <3>2, <1>a, ConstantsApart DEF Ops
    <3>3. CASE \E op \in {"STAGED", "LOOK"} : Ask(s, op, Ctl, None)
        BY <3>3, <1>a, ConstantsApart DEF Ops
    <3> QED BY <1>1, <3>1, <3>2, <3>3 DEF OneCall
  <2>4. WireTypes' /\ wait'[s] = TRUE /\ \A t \in Others(s) : wait'[t] = wait[t]
      BY <1>a, <2>3, AskTyped
  <2> QED BY <1>1, <2>2, <2>4, VerbStepTyped DEF OneCall, PCs, Others
<1>2. CASE StartEdit(s)
  <2>1. budget' \in [Counters -> Nat]
      BY <1>2, <1>b, SpendTyped DEF StartEdit, Counters
  <2>2. VerbTypes' /\ chosen'[s] \in Edit /\ \A t \in Others(s) : chosen'[t] = chosen[t]
      BY <1>2, <1>b, <2>1 DEF StartEdit, VerbTypes, PCs, Others
  <2>3. WireTypes' /\ wait'[s] = TRUE /\ \A t \in Others(s) : wait'[t] = wait[t]
      BY <1>2, <1>a, AskTyped DEF StartEdit, Ops
  <2> QED BY <1>2, <2>2, <2>3, VerbStepTyped DEF StartEdit, PCs
<1>3. CASE EditFromHead(s)
  <2>1. VerbTypes'
      BY <1>3, <1>b DEF EditFromHead, VerbTypes, PCs
  <2>2. WireTypes' /\ wait'[s] = TRUE /\ \A t \in Others(s) : wait'[t] = wait[t]
      BY <1>3, <1>a, AskTyped DEF EditFromHead, Ops
  <2> QED BY <1>3, <1>a, <2>1, <2>2, VerbStepTyped DEF EditFromHead, PCs, Others, Places
<1>4. CASE StageEdit(s)
  <2> DEFINE base == IF Answer(s).ctl = None THEN BareClass ELSE Answer(s).ctl
  <2>1. VerbTypes'
      BY <1>4, <1>b DEF StageEdit, VerbTypes, PCs
  <2>2. Answer(s).ctl \in MaybeControl
      BY <1>4, <1>a, AnswerTyped DEF StageEdit
  <2>3. base \in Control
      BY <2>2 DEF MaybeControl, BareClass, Control
  <2>4. chosen[s] \in Edit
      BY <1>4, <1>a DEF StageEdit, Places
  <2>5. [base EXCEPT !.edits = @ \cup {chosen[s]}] \in Control
      BY <2>3, <2>4 DEF Control
  <2>6. WireTypes' /\ wait'[s] = TRUE /\ \A t \in Others(s) : wait'[t] = wait[t]
      BY <1>4, <1>a, <2>5, AskTyped DEF StageEdit
  <2> QED BY <1>4, <1>a, <2>1, <2>6, VerbStepTyped DEF StageEdit, PCs, Others, Places
<1>5. CASE FinishCall(s)
  <2>1. VerbTypes'
      BY <1>5, <1>b DEF FinishCall, VerbTypes, PCs
  <2>2. WireTypes' /\ wait'[s] = FALSE /\ \A t \in Others(s) : wait'[t] = wait[t]
      BY <1>5, <1>a, ReadTyped DEF FinishCall
  <2> QED BY <1>5, <1>a, <2>1, <2>2, VerbStepTyped DEF FinishCall, PCs, Others
<1> QED BY <1>1, <1>2, <1>3, <1>4, <1>5 DEF Command


\* The index on disk and the batch after an operation of the engine.
LEMMA BatchTyped ==
    ASSUME EngineTypes, NEW s \in Session
    PROVE  /\ Begun(s) \in Batches /\ Begun(s).open = TRUE
           /\ Begun(s).tree = (IF batch[s].open THEN batch[s].tree ELSE index)
           /\ Begun(s).skipped = (IF batch[s].open THEN batch[s].skipped ELSE 0)
           /\ Flushed(s) \in Trees
           /\ batch[s] \in Batches /\ batch[s].open \in BOOLEAN /\ batch[s].tree \in Trees
           /\ batch[s].skipped \in Nat
<1>1. batch[s] \in Batches /\ index \in Trees
    BY DEF EngineTypes
<1>2. batch[s].open \in BOOLEAN /\ batch[s].tree \in Trees /\ batch[s].skipped \in Nat
    BY <1>1 DEF Batches
<1>3. CASE batch[s].open
    BY <1>1, <1>2, <1>3 DEF Begun, Flushed
<1>4. CASE ~batch[s].open
    BY <1>1, <1>2, <1>4 DEF Begun, Flushed, Batches
<1> QED BY <1>1, <1>2, <1>3, <1>4

LEMMA EndedTyped ==
    ASSUME StagingAssumption, EngineTypes, NEW s \in Session
    PROVE  /\ Ended(s) \in [Session -> Batches] /\ ~Ended(s)[s].open
           /\ \A t \in Others(s) : Ended(s)[t] = batch[t]
<1> DEFINE b == [batch[s] EXCEPT !.open = FALSE, !.tree = Nothing]
<1>1. b \in Batches /\ b.open = FALSE
    BY EmptyTyped, BatchTyped DEF Batches
<1> QED BY <1>1 DEF Ended, EngineTypes, Others

\* What mv_git_batch_add makes of a batch.
AddedIs(n, b, p, v) ==
    /\ n \in Batches /\ n.open = b.open
    /\ p \in Bad => n.tree = b.tree /\ n.skipped = b.skipped + 1
    /\ p \notin Bad => n.tree = [b.tree EXCEPT ![p] = v] /\ n.skipped = b.skipped

LEMMA AddedTyped ==
    ASSUME StagingAssumption, NEW b \in Batches, NEW p \in Path, NEW v,
           p \in Rec => v \in Value, p = Ctl => v \in Control
    PROVE  AddedIs(Added(b, p, v), b, p, v) /\ Added(b, p, v) \in Batches
<1> USE DEF AddedIs
<1> USE ConstantsApart
<1>1. CASE p \in Bad
    BY <1>1 DEF Added, Batches
<1>2. CASE p \notin Bad
  <2>1. v \in Blob
      BY DEF Path, Blob
  <2>2. b.tree \in Trees
      BY DEF Batches
  <2>3. [b.tree EXCEPT ![p] = v] \in Trees
      BY <2>1, <2>2 DEF Trees, MaybeControl, Path
  <2> DEFINE n == [b EXCEPT !.tree[p] = v]
  <2>4. n \in Batches /\ n.open = b.open /\ n.tree = [b.tree EXCEPT ![p] = v] /\ n.skipped = b.skipped
      BY <2>3 DEF Batches
  <2>5. Added(b, p, v) = n
      BY <1>2 DEF Added
  <2> HIDE DEF n
  <2> QED BY <1>2, <2>4, <2>5
<1> QED BY <1>1, <1>2

LEMMA RequestTyped ==
    ASSUME WireTypes, NEW s \in Session, asked[s] # <<>>
    PROVE  /\ Request(s) \in Requests /\ Request(s).op \in Ops /\ Request(s).path \in Path
           /\ Request(s).op \in {"STAGE", "RM"} => Request(s).path \in Rec
           /\ Request(s).op = "STAGE" => Request(s).blob \in Value
           /\ Request(s).op \in {"STAGEBLOB", "STAGECTL"} => Request(s).blob \in Control
           /\ Tail(asked[s]) \in Seq(Requests)
<1>1. asked[s] \in Seq(Requests)
    BY DEF WireTypes
<1>2. Request(s) \in Requests /\ Tail(asked[s]) \in Seq(Requests)
    BY <1>1, HeadTailProperties DEF Request
<1> QED BY <1>2 DEF Requests

LEMMA ServesTyped ==
    ASSUME WireTypes, NEW s \in Session, NEW op, NEW answer \in Answers, Serves(s, op),
           Replies(s, answer), wait' = wait, mixed' \in BOOLEAN
    PROVE  WireTypes'
<1>1. asked' \in [Session -> Seq(Requests)]
    BY RequestTyped DEF Serves, WireTypes
<1>2. pipe' \in [Session -> Seq(Answers)]
  <2>1. Append(pipe[s], answer) \in Seq(Answers)
      BY AppendProperties DEF WireTypes
  <2> QED BY <2>1 DEF Replies, WireTypes
<1>3. channel' \in [by : Session \cup {Nobody}, answer : Answers]
    BY DEF Replies, WireTypes
<1> QED BY <1>1, <1>2, <1>3 DEF WireTypes

LEMMA SettledTyped ==
    ASSUME StagingAssumption, EngineTypes, NEW s \in Session, Settles(s)
    PROVE  /\ Settled(s) \in Trees
           /\ batch' \in [Session -> Batches]
           /\ \A t \in Session : batch'[t].open => batch[t].open
           /\ \A t \in Others(s) : batch'[t] = batch[t]
           /\ batch' = batch \/ ~batch'[s].open
<1>1. CASE Request(s).op \in EndsBatch
  <2>1. batch' = Ended(s) /\ Settled(s) = Flushed(s)
      BY <1>1 DEF Settles, Settled
  <2>2. \A t \in Session : batch'[t].open => batch[t].open
      BY <2>1, EndedTyped DEF Others
  <2> QED BY <2>1, <2>2, EndedTyped, BatchTyped
<1>2. CASE ~(Request(s).op \in EndsBatch)
    BY <1>2 DEF Settles, Settled, EngineTypes
<1> QED BY <1>1, <1>2

\* What every operation of the engine leaves alone, and what it may change.
ServeStep(s) ==
    /\ UNCHANGED <<door, account, pc, list, chosen, told, wait, child, linked>>
    /\ budget' \in [Counters -> Nat]
    /\ asked[s] # <<>> /\ (door = "daemon" => child[s] = "serving")
    /\ asked' = [asked EXCEPT ![s] = Tail(@)]
    /\ \E answer \in Answers : Replies(s, answer)
    /\ mixed' = (mixed \/ Disturbs(s))
    /\ \A t \in Others(s) : batch'[t] = batch[t] /\ seen'[t] = seen[t]
    /\ index' \in Trees /\ head' \in Trees /\ batch' \in [Session -> Batches]
    /\ seen' \in [Session -> [Rec -> Finds]]

LEMMA ServesStep ==
    ASSUME StagingAssumption, Typed, NEW s \in Session, NEW op, NEW answer \in Answers,
           Serves(s, op), Replies(s, answer), Engine(s), index' \in Trees, head' \in Trees,
           batch' \in [Session -> Batches], \A t \in Others(s) : batch'[t] = batch[t]
    PROVE  ServeStep(s)
BY DEF Serves, Engine, ServeStep, verb, Typed, Types, VerbTypes

LEMMA SkippedAnswer ==
    ASSUME StagingAssumption, NEW n \in Nat
    PROVE  [Empty EXCEPT !.skipped = n] \in Answers /\ [Empty EXCEPT !.skipped = n].skipped = n
BY EmptyTyped DEF Answers

LEMMA IdsAnswer ==
    ASSUME StagingAssumption, NEW ids \in SUBSET Rec
    PROVE  [Empty EXCEPT !.ids = ids] \in Answers /\ [Empty EXCEPT !.ids = ids].ids = ids
BY EmptyTyped DEF Answers

LEMMA ControlAnswer ==
    ASSUME StagingAssumption, NEW c \in MaybeControl
    PROVE  [Empty EXCEPT !.ctl = c] \in Answers /\ [Empty EXCEPT !.ctl = c].ctl = c
BY EmptyTyped DEF Answers

LEMMA StickyTyped ==
    ASSUME StagingAssumption, EngineTypes, NEW c \in Control
    PROVE  Sticky(c) \in Control
BY ConstantsApart DEF Sticky, EngineTypes, Trees, MaybeControl

\* The engine takes a request and answers it.
Operates(s) ==
    \/ InVain(s) \/ Stage(s) \/ Flush(s) \/ Look(s) \/ Rm(s) \/ IxCat(s) \/ Cat(s) \/ StageCtl(s)
    \/ Commit(s) \/ AddAll(s)

\* What a call that is answered in vain does to the batch and the index ...
LEMMA VainBatch ==
    ASSUME StagingAssumption, Typed, NEW s \in Session, InVain(s)
    PROVE  /\ index' \in Trees /\ batch' \in [Session -> Batches] /\ index' = Settled(s)
           /\ \A t \in Others(s) : batch'[t] = batch[t]
           /\ \/ Settles(s)
              \/ Request(s).op \in {"STAGE", "STAGEBLOB"} /\ batch'[s] = Begun(s)
<1>a. EngineTypes
    BY DEF Typed, Types
<1>1. index' = Settled(s)
    BY DEF InVain
<1>2. CASE Settles(s)
    BY <1>a, <1>1, <1>2, SettledTyped
<1>3. CASE Request(s).op \in {"STAGE", "STAGEBLOB"} /\ batch' = [batch EXCEPT ![s] = Begun(s)]
  <2>1. Begun(s) \in Batches
      BY <1>a, BatchTyped
  <2>2. batch' \in [Session -> Batches] /\ batch'[s] = Begun(s)
        /\ \A t \in Others(s) : batch'[t] = batch[t]
      BY <1>a, <1>3, <2>1 DEF EngineTypes, Others
  <2>3. Request(s).op \notin EndsBatch
      BY <1>3 DEF EndsBatch, DaemonEnds, CallcEnds, EngineEnds, StagingAssumption, Typed, Types,
                  AccountTypes
  <2>4. Settled(s) = index
      BY <2>3 DEF Settled
  <2> QED BY <1>a, <1>1, <1>3, <2>2, <2>4 DEF EngineTypes
<1> QED BY <1>2, <1>3 DEF InVain

\* ... and to what the command has found.
LEMMA VainSeen ==
    ASSUME StagingAssumption, VerbTypes, NEW s \in Session, InVain(s)
    PROVE  /\ seen' \in [Session -> [Rec -> Finds]]
           /\ \A t \in Others(s) : seen'[t] = seen[t]
           /\ \A r \in Rec : seen'[s][r] = IF r = Request(s).path THEN Unread ELSE seen[s][r]
<1>1. seen \in [Session -> [Rec -> Finds]] /\ Unread \in Finds
    BY DEF VerbTypes, Finds
<1>2. CASE Request(s).path \in Rec
  <2>1. PICK p \in Rec : p = Request(s).path
      BY <1>2
  <2>2. seen' = [seen EXCEPT ![s][p] = Unread]
      BY <1>2, <2>1 DEF InVain
  <2> QED BY <1>1, <2>1, <2>2 DEF Others
<1>3. CASE Request(s).path \notin Rec
  <2>1. seen' = seen
      BY <1>3 DEF InVain
  <2> QED BY <1>1, <1>3, <2>1 DEF Others
<1> QED BY <1>2, <1>3

LEMMA ServeIsStep ==
    ASSUME StagingAssumption, Typed, NEW s \in Session, Operates(s)
    PROVE  ServeStep(s)
<1> USE ConstantsApart, EmptyTyped
<1>a. /\ AccountTypes /\ EngineTypes /\ VerbTypes /\ WireTypes
    BY DEF Typed, Types
<1>b. index \in Trees /\ head \in Trees /\ batch \in [Session -> Batches]
    BY <1>a DEF EngineTypes
<1>c. index[Ctl] \in MaybeControl /\ head[Ctl] \in MaybeControl
    BY <1>b DEF Trees
<1>1. CASE Stage(s)
  <2>1. \E op : Serves(s, op) /\ Request(s).op = op /\ asked[s] # <<>>
      BY <1>1 DEF Stage, Serves
  <2>2. batch' \in [Session -> Batches] /\ \A t \in Others(s) : batch'[t] = batch[t]
    <3>1. \E b \in Batches : batch' = [batch EXCEPT ![s] = b]
      <4>1. CASE Serves(s, "STAGE") /\ batch' = [batch EXCEPT ![s] =
                     Added(Begun(s), Request(s).path, Request(s).blob)]
        <5>1. Request(s).path \in Rec /\ Request(s).blob \in Value
            BY <1>a, <4>1, RequestTyped DEF Serves
        <5>2. Added(Begun(s), Request(s).path, Request(s).blob) \in Batches
            BY <1>a, <5>1, BatchTyped, AddedTyped
        <5> QED BY <4>1, <5>2
      <4>2. CASE Serves(s, "STAGEBLOB") /\ batch' = [batch EXCEPT ![s] =
                     Added(Begun(s), Ctl, Sticky(Request(s).blob))]
        <5>1. Request(s).blob \in Control
            BY <1>a, <4>2, RequestTyped DEF Serves
        <5>2. Sticky(Request(s).blob) \in Control
            BY <1>a, <5>1, StickyTyped
        <5>3. Added(Begun(s), Ctl, Sticky(Request(s).blob)) \in Batches
            BY <1>a, <5>2, BatchTyped, AddedTyped
        <5> QED BY <4>2, <5>3
      <4> QED BY <1>1, <4>1, <4>2 DEF Stage
    <3> QED BY <1>b, <3>1 DEF Others
  <2> QED BY <1>1, <1>b, <2>1, <2>2, ServesStep DEF Stage, repo
<1>2. CASE Flush(s)
  <2> DEFINE a == IF door = "daemon" THEN [Empty EXCEPT !.skipped = batch[s].skipped] ELSE Empty
  <2>1. a \in Answers
      BY <1>a, BatchTyped, SkippedAnswer
  <2>2. Serves(s, "FLUSH") /\ Replies(s, a) /\ Engine(s) /\ index' = Settled(s) /\ Settles(s)
        /\ head' = head
      BY <1>2 DEF Flush
  <2> HIDE DEF a
  <2> QED BY <1>a, <1>b, <2>1, <2>2, SettledTyped, ServesStep
<1>3. CASE Look(s)
  <2> DEFINE ids == IF Request(s).op = "INDEXIDS" THEN IndexIds(index') ELSE {}
  <2>1. [Empty EXCEPT !.ids = ids] \in Answers
      BY IdsAnswer DEF IndexIds
  <2>2. (\E op : Serves(s, op)) /\ Replies(s, [Empty EXCEPT !.ids = ids]) /\ Engine(s)
        /\ index' = Settled(s) /\ Settles(s) /\ head' = head
      BY <1>3 DEF Look
  <2> HIDE DEF ids
  <2> QED BY <1>a, <1>b, <2>1, <2>2, SettledTyped, ServesStep
<1>4. CASE Rm(s)
  <2>1. Request(s).path \in Rec
      BY <1>a, <1>4, RequestTyped DEF Rm, Serves
  <2>2. Settled(s) \in Trees
      BY <1>a, <1>4, SettledTyped DEF Rm
  <2>3. index' \in Trees
      BY <1>4, <2>1, <2>2 DEF Rm, Trees, MaybeControl
  <2>4. Serves(s, "RM") /\ Replies(s, Empty) /\ Engine(s) /\ Settles(s) /\ head' = head
      BY <1>4 DEF Rm
  <2> QED BY <1>a, <1>b, <2>3, <2>4, SettledTyped, ServesStep
<1>5. CASE IxCat(s)
  <2>1. Serves(s, "IXCAT") /\ Replies(s, [Empty EXCEPT !.ctl = index'[Ctl]]) /\ Engine(s)
        /\ index' = Settled(s) /\ Settles(s) /\ head' = head
      BY <1>5 DEF IxCat
  <2>2. index' \in Trees
      BY <1>a, <2>1, SettledTyped
  <2>3. index'[Ctl] \in MaybeControl
      BY <2>2 DEF Trees
  <2>4. [Empty EXCEPT !.ctl = index'[Ctl]] \in Answers
      BY <2>3, ControlAnswer
  <2> QED BY <1>a, <1>b, <2>1, <2>2, <2>4, SettledTyped, ServesStep
<1>6. CASE Cat(s)
  <2>1. [Empty EXCEPT !.ctl = head[Ctl]] \in Answers
      BY <1>c, ControlAnswer
  <2>2. Serves(s, "CAT") /\ Replies(s, [Empty EXCEPT !.ctl = head[Ctl]]) /\ Engine(s)
        /\ index' = index /\ head' = head /\ batch' = batch
      BY <1>6 DEF Cat, repo
  <2> QED BY <1>b, <2>1, <2>2, ServesStep
<1>7. CASE StageCtl(s)
  <2>1. Request(s).blob \in Control
      BY <1>a, <1>7, RequestTyped DEF StageCtl, Serves
  <2>2. Settled(s) \in Trees
      BY <1>a, <1>7, SettledTyped DEF StageCtl
  <2>3. index' \in Trees
      BY <1>7, <2>1, <2>2 DEF StageCtl, Trees, MaybeControl
  <2>4. Serves(s, "STAGECTL") /\ Replies(s, Empty) /\ Engine(s) /\ Settles(s) /\ head' = head
      BY <1>7 DEF StageCtl
  <2> QED BY <1>a, <1>b, <2>3, <2>4, SettledTyped, ServesStep
<1>8. CASE Commit(s)
  <2>1. Serves(s, "COMMIT") /\ Replies(s, Empty) /\ Engine(s) /\ index' = Settled(s) /\ Settles(s)
        /\ head' = index'
      BY <1>8 DEF Commit
  <2> QED BY <1>a, <1>b, <2>1, SettledTyped, ServesStep
<1>9. CASE AddAll(s)
  <2>1. [size |-> size, edits |-> {}] \in Control
      BY <1>a DEF AccountTypes, Control
  <2>2. Sticky([size |-> size, edits |-> {}]) \in Control
      BY <1>a, <2>1, StickyTyped
  <2>3. index' \in Trees
    <3>1. \A p \in Path \ {Ctl} : p \in Rec /\ live[p] \in Value \cup {None}
        BY <1>a DEF Path, AccountTypes
    <3>2. index' \in [Path -> Blob]
        BY <1>9, <2>2, <3>1 DEF AddAll
    <3>3. index'[Ctl] \in Control
        BY <1>9, <2>2 DEF AddAll
    <3>4. \A r \in Rec : index'[r] \in Value \cup {None}
        BY <1>9, <3>1 DEF AddAll
    <3> QED BY <3>2, <3>3, <3>4 DEF Trees, MaybeControl
  <2>4. live \in [Rec -> Finds]
      BY <1>a DEF AccountTypes, Finds
  <2>5. seen' \in [Session -> [Rec -> Finds]] /\ \A t \in Others(s) : seen'[t] = seen[t]
      BY <1>9, <1>a, <2>4 DEF AddAll, VerbTypes, Others
  <2>6. asked[s] # <<>> /\ (door = "daemon" => child[s] = "serving")
        /\ asked' = [asked EXCEPT ![s] = Tail(@)]
      BY <1>9 DEF AddAll, Serves
  <2>7. budget' \in [Counters -> Nat]
      BY <1>9, <1>a DEF AddAll, VerbTypes
  <2> QED BY <1>9, <1>b, <2>3, <2>5, <2>6, <2>7 DEF AddAll, ServeStep
<1>10. CASE InVain(s)
  <2>1. asked[s] # <<>> /\ (door = "daemon" => child[s] = "serving")
        /\ asked' = [asked EXCEPT ![s] = Tail(@)]
      BY <1>10 DEF InVain, Serves
  <2>2. budget' \in [Counters -> Nat]
      BY <1>10, <1>a, SpendTyped DEF InVain, VerbTypes, Counters
  <2>3. index' \in Trees /\ batch' \in [Session -> Batches] /\ \A t \in Others(s) : batch'[t] = batch[t]
      BY <1>10, <1>a, VainBatch DEF Typed, Types
  <2>4. seen' \in [Session -> [Rec -> Finds]] /\ \A t \in Others(s) : seen'[t] = seen[t]
      BY <1>10, <1>a, VainSeen
  <2> QED BY <1>10, <1>b, <2>1, <2>2, <2>3, <2>4 DEF InVain, ServeStep, account
<1> QED BY <1>1, <1>2, <1>3, <1>4, <1>5, <1>6, <1>7, <1>8, <1>9, <1>10 DEF Operates

\* A batch that ends in vain.
LEMMA EndInVainTyped ==
    ASSUME StagingAssumption, Typed, NEW s \in Session, EndInVain(s)
    PROVE  /\ Typed' /\ batch' = Ended(s) /\ ~batch'[s].open
           /\ UNCHANGED <<door, account, repo, pc, list, chosen, told, wire, child, linked, mixed>>
           /\ seen' = [seen EXCEPT ![s] = [r \in Rec |-> Unread]]
           /\ \A t \in Others(s) : batch'[t] = batch[t] /\ seen'[t] = seen[t]
<1> USE DEF account, repo, wire
<1>a. AccountTypes /\ EngineTypes /\ VerbTypes /\ WireTypes /\ Places /\ Children
    BY DEF Typed, Types
<1>1. /\ UNCHANGED <<door, live, size, index, head, pc, list, chosen, told, wait, asked, pipe, channel,
                     child, linked, mixed>>
      /\ batch' = Ended(s) /\ seen' = [seen EXCEPT ![s] = [r \in Rec |-> Unread]]
      /\ Spend("faults")
    BY DEF EndInVain
<1>2. /\ batch' \in [Session -> Batches] /\ ~batch'[s].open
      /\ \A t \in Others(s) : batch'[t] = batch[t]
    BY <1>a, <1>1, EndedTyped
<1>3. [r \in Rec |-> Unread] \in [Rec -> Finds]
    BY DEF Finds
<1>4. seen' \in [Session -> [Rec -> Finds]] /\ \A t \in Others(s) : seen'[t] = seen[t]
    BY <1>a, <1>1, <1>3 DEF VerbTypes, Others
<1>5. budget' \in [Counters -> Nat]
    BY <1>a, <1>1, SpendTyped DEF VerbTypes, Counters
<1>6. AccountTypes' /\ WireTypes'
    BY <1>a, <1>1 DEF AccountTypes, WireTypes
<1>7. EngineTypes' /\ VerbTypes'
    BY <1>a, <1>1, <1>2, <1>4, <1>5 DEF EngineTypes, VerbTypes
<1>8. Children'
    BY <1>a, <1>1, <1>2 DEF Children, Others
<1>9. Places'
    BY <1>a, <1>1 DEF Places
<1> QED BY <1>1, <1>2, <1>4, <1>6, <1>7, <1>8, <1>9 DEF Typed, Types

LEMMA ServeTyped ==
    ASSUME StagingAssumption, Typed, NEW s \in Session, Serve(s)
    PROVE  Typed'
<1>a. /\ AccountTypes /\ EngineTypes /\ VerbTypes /\ WireTypes /\ Places /\ Children
    BY DEF Typed, Types
<1>0. CASE EndInVain(s)
    BY <1>0, EndInVainTyped
<1> SUFFICES ASSUME Operates(s) PROVE Typed'
    BY <1>0 DEF Serve, Operates
<1>1. ServeStep(s)
    BY ServeIsStep
<1>2. AccountTypes'
    BY <1>1, <1>a DEF ServeStep, AccountTypes, account
<1>3. EngineTypes'
    BY <1>1, <1>a DEF ServeStep, EngineTypes
<1>4. VerbTypes'
    BY <1>1, <1>a DEF ServeStep, VerbTypes
<1>5. WireTypes'
  <2>1. mixed' \in BOOLEAN
      BY <1>1, <1>a DEF ServeStep, WireTypes
  <2>2. PICK answer \in Answers : Replies(s, answer)
      BY <1>1 DEF ServeStep
  <2>3. Serves(s, Request(s).op)
      BY <1>1 DEF ServeStep, Serves
  <2> QED BY <1>1, <1>a, <2>1, <2>2, <2>3, ServesTyped DEF ServeStep
<1>6. Children'
    BY <1>1, <1>a DEF ServeStep, Children, Others
<1>7. Places'
    BY <1>1, <1>a DEF ServeStep, Places
<1> QED BY <1>2, <1>3, <1>4, <1>5, <1>6, <1>7 DEF Typed, Types


LEMMA UsersTyped ==
    ASSUME StagingAssumption, Typed, Resize \/ \E r \in Rec : ChangeRecord(r)
    PROVE  Typed'
<1> USE DEF account, repo, engine, verb, wire
<1>a. AccountTypes /\ EngineTypes /\ VerbTypes /\ WireTypes /\ Places /\ Children
    BY DEF Typed, Types
<1>1. /\ UNCHANGED <<door, index, head, batch, child, linked, pc, list, seen, chosen, told,
                     wait, asked, pipe, channel, mixed>>
      /\ Spend("uses")
    BY DEF Resize, ChangeRecord
<1>2. budget' \in [Counters -> Nat]
    BY <1>a, <1>1, SpendTyped DEF Counters, VerbTypes
<1>3. AccountTypes'
  <2>1. CASE Resize
      BY <1>a, <2>1 DEF Resize, AccountTypes
  <2>2. CASE \E r \in Rec : ChangeRecord(r)
      BY <1>a, <2>2 DEF ChangeRecord, AccountTypes
  <2> QED BY <2>1, <2>2
<1>4. EngineTypes' /\ VerbTypes' /\ Places' /\ Children'
    BY <1>a, <1>1, <1>2 DEF EngineTypes, VerbTypes, Places, Children
<1>5. WireTypes'
    BY <1>a, <1>1 DEF WireTypes
<1> QED BY <1>3, <1>4, <1>5 DEF Typed, Types

LEMMA LifeTyped ==
    ASSUME StagingAssumption, Typed, NEW s \in Session, Life(s)
    PROVE  Typed'
<1> USE DEF account, repo, engine, verb, wire
<1>a. AccountTypes /\ EngineTypes /\ VerbTypes /\ WireTypes /\ Places /\ Children
    BY DEF Typed, Types
<1>b. /\ pc \in [Session -> PCs] /\ list \in [Session -> SUBSET Rec]
      /\ wait \in [Session -> BOOLEAN] /\ pipe \in [Session -> Seq(Answers)]
      /\ child \in [Session -> {"none", "serving", "gone"}] /\ linked \in [Session -> BOOLEAN]
      /\ batch \in [Session -> Batches] /\ budget \in [Counters -> Nat] /\ mixed \in BOOLEAN
    BY <1>a DEF VerbTypes, WireTypes, EngineTypes
<1>1. CASE Connect(s)
  <2>1. EngineTypes' /\ Children'
      BY <1>1, <1>a, <1>b DEF Connect, EngineTypes, Children
  <2>2. AccountTypes' /\ VerbTypes' /\ WireTypes' /\ Places'
      BY <1>1, <1>a DEF Connect, AccountTypes, VerbTypes, WireTypes, Places
  <2> QED BY <2>1, <2>2 DEF Typed, Types
<1>2. CASE Leave(s)
  <2>1. budget' \in [Counters -> Nat]
      BY <1>2, <1>b, SpendTyped DEF Leave, Counters
  <2>2. EngineTypes' /\ Children'
    <3>1. batch' \in [Session -> Batches] /\ ~batch'[s].open
          /\ \A t \in Others(s) : batch'[t] = batch[t]
        BY <1>2, <1>a, EndedTyped DEF Leave
    <3>2. index' \in Trees
        BY <1>2, <1>a, BatchTyped DEF Leave, EngineTypes
    <3>3. child' = [child EXCEPT ![s] = "gone"] /\ child[s] = "serving"
          /\ UNCHANGED <<door, head, linked>>
        BY <1>2 DEF Leave
    <3>4. EngineTypes'
        BY <1>a, <1>b, <3>1, <3>2, <3>3 DEF EngineTypes
    <3>5. Children'
        BY <1>a, <1>b, <3>1, <3>3 DEF Children, Others
    <3> QED BY <3>4, <3>5
  <2>3. AccountTypes' /\ VerbTypes' /\ Places'
      BY <1>2, <1>a, <2>1 DEF Leave, AccountTypes, VerbTypes, Places
  <2>4. WireTypes'
      BY <1>2, <1>a DEF Leave, WireTypes
  <2> QED BY <2>2, <2>3, <2>4 DEF Typed, Types
<1>3. CASE Kill(s)
  <2>1. budget' \in [Counters -> Nat]
      BY <1>3, <1>b, SpendTyped DEF Kill, Counters
  <2>2. EngineTypes' /\ Children'
    <3>1. batch' \in [Session -> Batches] /\ ~batch'[s].open
          /\ \A t \in Others(s) : batch'[t] = batch[t]
        BY <1>3, <1>a, EndedTyped DEF Kill
    <3>2. index' \in Trees
        BY <1>3, <1>a, BatchTyped DEF Kill, EngineTypes
    <3>3. child' = [child EXCEPT ![s] = "gone"] /\ child[s] = "serving"
          /\ UNCHANGED <<door, head, linked>>
        BY <1>3 DEF Kill
    <3>4. EngineTypes'
        BY <1>a, <1>b, <3>1, <3>2, <3>3 DEF EngineTypes
    <3>5. Children'
        BY <1>a, <1>b, <3>1, <3>3 DEF Children, Others
    <3> QED BY <3>4, <3>5
  <2>3. AccountTypes' /\ VerbTypes' /\ WireTypes' /\ Places'
      BY <1>3, <1>a, <2>1 DEF Kill, AccountTypes, VerbTypes, WireTypes, Places
  <2> QED BY <2>2, <2>3 DEF Typed, Types
<1>4. CASE Break(s)
  <2>1. budget' \in [Counters -> Nat]
      BY <1>4, <1>b, SpendTyped DEF Break, Counters
  <2>2. AccountTypes' /\ EngineTypes' /\ Children'
      BY <1>4, <1>a DEF Break, AccountTypes, EngineTypes, Children
  <2>3. VerbTypes'
      BY <1>4, <1>a, <1>b, <2>1 DEF Break, Go, VerbTypes, PCs
  <2>4. wait' \in [Session -> BOOLEAN] /\ mixed' \in BOOLEAN
      BY <1>4, <1>b DEF Break
  <2>5. pipe' \in [Session -> Seq(Answers)]
    <3>1. <<>> \in Seq(Answers)
        BY EmptySeq
    <3> QED BY <1>4, <1>b, <3>1 DEF Break
  <2>6. WireTypes'
      BY <1>4, <1>a, <2>4, <2>5 DEF Break, WireTypes
  <2>7. Places'
      BY <1>4, <1>a, <1>b DEF Break, Go, Places
  <2> QED BY <2>2, <2>3, <2>6, <2>7 DEF Typed, Types
<1>5. CASE Logout(s)
  <2>1. budget' \in [Counters -> Nat]
      BY <1>5, <1>b, SpendTyped DEF Logout, Counters
  <2>2. batch' \in [Session -> Batches] /\ \A t \in Session : batch'[t].open => batch[t].open
    <3>1. CASE batch' = batch
        BY <1>b, <3>1
    <3>2. CASE batch' = Ended(s)
        BY <1>a, <3>2, EndedTyped DEF Others
    <3> QED BY <1>5, <3>1, <3>2 DEF Logout
  <2>6. EngineTypes' /\ Children'
      BY <1>5, <1>a, <2>2 DEF Logout, EngineTypes, Children
  <2>3. AccountTypes' /\ WireTypes'
      BY <1>5, <1>a DEF Logout, AccountTypes, WireTypes
  <2>4. VerbTypes'
      BY <1>5, <1>a, <1>b, <2>1 DEF Logout, Go, VerbTypes, PCs
  <2>5. Places'
      BY <1>5, <1>a, <1>b DEF Logout, Go, Places, Prompt
  <2> QED BY <2>3, <2>4, <2>5, <2>6 DEF Typed, Types
<1> QED BY <1>1, <1>2, <1>3, <1>4, <1>5 DEF Life

LEMMA NextTyped ==
    ASSUME StagingAssumption, Typed, [Next]_vars
    PROVE  Typed'
<1>1. CASE UNCHANGED vars
    BY <1>1 DEF vars, account, repo, verb, wire, engine, Typed, Types, AccountTypes, EngineTypes,
                VerbTypes, WireTypes, Children, Places
<1>2. CASE Next
    BY <1>2, AddTyped, CommandTyped, ServeTyped, LifeTyped, UsersTyped DEF Next
<1> QED BY <1>1, <1>2

LEMMA TypedIsTypeOK == ASSUME Typed PROVE TypeOK
<1>1. AccountTypes /\ EngineTypes /\ VerbTypes /\ WireTypes /\ Children
    BY DEF Typed, Types
<1>2. index \in [Path -> Blob] /\ head \in [Path -> Blob]
    BY <1>1 DEF EngineTypes, Trees
<1>3. \A s \in Session : batch[s].open \in BOOLEAN /\ batch[s].tree \in [Path -> Blob]
    BY <1>1 DEF EngineTypes, Batches, Trees
<1>4. \A s \in Session : \A r \in Rec : seen[s][r] \in Value \cup {None, Unread}
    BY <1>1 DEF VerbTypes, Finds
<1> QED BY <1>1, <1>2, <1>3, <1>4 DEF TypeOK, AccountTypes, EngineTypes, VerbTypes, WireTypes,
                                     Children, PCs

(***************************************************************************)
(* The state has its type: behind every door, whatever commands ran into   *)
(* each other, an answer is an answer and a staged control a control, and  *)
(* a batch is open behind the daemon only while a child serves             *)
(* (src/mvxgit.c:7117-7201, src/gitd.c:566-600).                           *)
(***************************************************************************)
THEOREM TypeCorrect == Spec => []TypeOK
<1> USE StagingAssumption
<1>1. Init => Typed
    BY InitTyped
<1>2. Typed /\ [Next]_vars => Typed'
    BY NextTyped
<1>3. Typed => TypeOK
    BY TypedIsTypeOK
<1> QED BY <1>1, <1>2, <1>3, PTL DEF Spec


-----------------------------------------------------------------------------
(* Lemmas: what a step leaves to the sessions that do not make it.          *)

\* Nothing of t has moved, nor the answer it may read, nor, while it counts
\* on the index, the index.
Unmoved(t) ==
    /\ door' = door
    /\ pc'[t] = pc[t] /\ list'[t] = list[t] /\ seen'[t] = seen[t] /\ told'[t] = told[t]
    /\ wait'[t] = wait[t] /\ asked'[t] = asked[t] /\ pipe'[t] = pipe[t]
    /\ batch'[t] = batch[t] /\ child'[t] = child[t]
    /\ wait[t] /\ door = "callc" => channel' = channel
    /\ index' = index \/ ~Busy(t)

LEMMA UnmovedPlain ==
    ASSUME NEW t \in Session, Unmoved(t)
    PROVE  /\ Request(t)' = Request(t)
           /\ wait[t] => Answer(t)' = Answer(t)
           /\ Answered(t)' = Answered(t) /\ Filling(t)' = Filling(t) /\ Written(t)' = Written(t)
           /\ Doomed(t)' = Doomed(t) /\ Skips(t)' = Skips(t) /\ LeftNow(t)' = LeftNow(t)
           /\ Pending(t)' = Pending(t)
           /\ \A op \in Ops : Asks(t, op)' = Asks(t, op)
<1>1. Request(t)' = Request(t)
    BY DEF Unmoved, Request
<1>2. wait[t] => Answer(t)' = Answer(t)
    BY DEF Unmoved, Answer
<1>3. Answered(t)' = Answered(t) /\ Filling(t)' = Filling(t) /\ Written(t)' = Written(t)
      /\ Doomed(t)' = Doomed(t)
    BY DEF Unmoved, Answered, Filling, Written, Doomed
<1>4. Skips(t)' = Skips(t) /\ LeftNow(t)' = LeftNow(t)
    BY DEF Unmoved, Skips, LeftNow
<1>5. ASSUME NEW op \in Ops PROVE Asks(t, op)' = Asks(t, op)
    BY <1>1 DEF Unmoved, Asks
<1>6. Pending(t)' = Pending(t)
    BY <1>1 DEF Unmoved, Pending, Asks
<1> QED BY <1>1, <1>2, <1>3, <1>4, <1>5, <1>6

\* A command that has ended, with nothing on its wire, claims nothing.
Resting(s) == pc[s] \in {"ready", "added", "out"} /\ ~wait[s] /\ asked[s] = <<>> /\ pipe[s] = <<>>

LEMMA RestKept ==
    ASSUME NEW s \in Session, Resting(s), BatchHolds(s)
    PROVE  Kept(s)
<1>1. Turn(s)
    BY DEF Resting, Turn, Idle
<1>2. EditBuilds(s)
    BY DEF Resting, EditBuilds, Answered, Asks
<1>3. Adds(s)
    BY DEF Resting, Adds, ReadIsStaged, ReadIsWritten, GoneIsRemoved, EngineAdds, Asks, Filling,
           Written, Answered
<1>4. SkipsCounted(s)
    BY DEF Resting, SkipsCounted, Filling, Answered
<1> QED BY <1>1, <1>2, <1>3, <1>4 DEF Kept

LEMMA RestKeptNext ==
    ASSUME NEW s \in Session, Resting(s)', BatchHolds(s)'
    PROVE  Kept(s)'
<1>1. Turn(s)'
    BY DEF Resting, Turn, Idle
<1>2. EditBuilds(s)'
    BY DEF Resting, EditBuilds, Answered, Asks
<1>3. Adds(s)'
    BY DEF Resting, Adds, ReadIsStaged, ReadIsWritten, GoneIsRemoved, EngineAdds, Asks, Filling,
           Written, Answered
<1>4. SkipsCounted(s)'
    BY DEF Resting, SkipsCounted, Filling, Answered
<1> QED BY <1>1, <1>2, <1>3, <1>4 DEF Kept

LEMMA OthersKept ==
    ASSUME Typed, NEW t \in Session, Kept(t), Unmoved(t)
    PROVE  Kept(t)'
<1>1. CASE Busy(t)
  <2>1. index' = index
      BY <1>1 DEF Unmoved
  <2>2. Turn(t)'
      BY DEF Kept, Turn, Idle, Calling, Answering, Unmoved
  <2>3. BatchHolds(t)'
      BY <2>1 DEF Kept, BatchHolds, Unmoved
  <2>4. EditBuilds(t)'
      BY <2>1, UnmovedPlain DEF Kept, EditBuilds, Unmoved, Answered, Ops
  <2>5. ReadIsStaged(t)'
      BY <2>1, UnmovedPlain DEF Kept, Adds, ReadIsStaged, Unmoved, Ops
  <2>6. ReadIsWritten(t)'
      BY <2>1, UnmovedPlain DEF Kept, Adds, ReadIsWritten, Unmoved
  <2>7. GoneIsRemoved(t)'
      BY <2>1, UnmovedPlain DEF Kept, Adds, GoneIsRemoved, Unmoved, Answered
  <2>8. EngineAdds(t)'
      BY <2>1 DEF Kept, Adds, EngineAdds, Unmoved
  <2>9. SkipsCounted(t)'
      BY UnmovedPlain DEF Kept, SkipsCounted, Unmoved, Answered
  <2> QED BY <2>2, <2>3, <2>4, <2>5, <2>6, <2>7, <2>8, <2>9 DEF Kept, Adds
<1>2. CASE ~Busy(t)
  <2>1. pc[t] \in {"ready", "added", "out"} /\ ~batch[t].open
      BY <1>2 DEF Busy
  <2>2. ~wait[t]
      BY <2>1 DEF Typed, Places
  <2>3. asked[t] = <<>> /\ pipe[t] = <<>>
      BY <2>2 DEF Kept, Turn, Idle, Calling, Answering
  <2>4. Resting(t)'
      BY <2>1, <2>2, <2>3 DEF Resting, Unmoved
  <2>5. BatchHolds(t)'
      BY <2>1 DEF BatchHolds, Unmoved
  <2> QED BY <2>4, <2>5, RestKeptNext
<1> QED BY <1>1, <1>2

-----------------------------------------------------------------------------
(* Lemmas: what a call, the taking of an answer and an operation of the     *)
(* engine do to a session that is in turn.                                  *)

LEMMA TurnPlain ==
    ASSUME StagingAssumption, Typed, NEW s \in Session, Turn(s)
    PROVE  /\ HasAnswer(s) => asked[s] = <<>>
           /\ ~wait[s] => asked[s] = <<>> /\ pipe[s] = <<>>
           /\ asked[s] # <<>> => /\ wait[s] /\ pipe[s] = <<>> /\ Tail(asked[s]) = <<>>
                                 /\ Request(s) \in Requests
                                 /\ Request(s).op \in OpsAt(pc[s])
                                 /\ asked[s] = <<Request(s)>>
           /\ door = "callc" => pipe[s] = <<>>
           /\ HasAnswer(s) => PipeRead(s)[s] = <<>>
           /\ \A t \in Others(s) : PipeRead(s)[t] = pipe[t]
<1>a. pipe \in [Session -> Seq(Answers)] /\ asked \in [Session -> Seq(Requests)]
    BY DEF Typed, Types, WireTypes
<1>1. CASE Idle(s)
  <2>1. asked[s] = <<>> /\ pipe[s] = <<>> /\ (wait[s] => door = "callc")
      BY <1>1 DEF Idle
  <2>2. PipeRead(s) = pipe
      BY <2>1 DEF PipeRead
  <2> QED BY <2>1, <2>2
<1>2. CASE Calling(s)
  <2>1. PICK q \in Requests : asked[s] = <<q>> /\ q.op \in OpsAt(pc[s])
      BY <1>2 DEF Calling
  <2>2. Request(s) = q /\ Tail(asked[s]) = <<>> /\ asked[s] # <<>>
      BY <2>1 DEF Request
  <2>3. wait[s] /\ pipe[s] = <<>> /\ ~HasAnswer(s)
      BY <1>2, <2>2 DEF Calling, HasAnswer
  <2>4. \A t \in Others(s) : PipeRead(s)[t] = pipe[t]
      BY <1>a DEF PipeRead, Others
  <2> QED BY <2>1, <2>2, <2>3, <2>4
<1>3. CASE Answering(s)
  <2>1. PICK a \in Answers : pipe[s] = <<a>>
      BY <1>3 DEF Answering
  <2>2. Tail(pipe[s]) = <<>>
      BY <2>1
  <2>3. wait[s] /\ door # "callc" /\ asked[s] = <<>>
      BY <1>3 DEF Answering
  <2>4. PipeRead(s) = [pipe EXCEPT ![s] = Tail(@)]
      BY <2>3 DEF PipeRead
  <2>5. PipeRead(s)[s] = <<>> /\ \A t \in Others(s) : PipeRead(s)[t] = pipe[t]
      BY <1>a, <2>2, <2>4 DEF Others
  <2> QED BY <2>3, <2>5
<1> QED BY <1>1, <1>2, <1>3 DEF Turn

\* A command's step leaves the account, the repository and the engines alone,
\* and of the commands moves its own.
VerbStep(s) ==
    /\ UNCHANGED <<door, account, repo, engine>>
    /\ \A t \in Others(s) : /\ pc'[t] = pc[t] /\ list'[t] = list[t]
                            /\ seen'[t] = seen[t] /\ told'[t] = told[t]

LEMMA AskEffect ==
    ASSUME StagingAssumption, Typed, OneWaits, \A t \in Session : Kept(t), NEW s \in Session,
           NEW op, NEW path, NEW blob, [op |-> op, path |-> path, blob |-> blob] \in Requests,
           Ask(s, op, path, blob), ~mixed', VerbStep(s), op \in OpsAt(pc'[s])
    PROVE  /\ OneWaits'
           /\ \A t \in Others(s) : Kept(t)'
           /\ asked[s] = <<>> /\ asked'[s] # <<>> /\ wait'[s]
           /\ Request(s)' = [op |-> op, path |-> path, blob |-> blob]
           /\ Request(s)'.op = op /\ Request(s)'.path = path /\ Request(s)'.blob = blob
           /\ Turn(s)' /\ BatchHolds(s)'
<1> DEFINE q == [op |-> op, path |-> path, blob |-> blob]
<1>a. /\ wait \in [Session -> BOOLEAN] /\ asked \in [Session -> Seq(Requests)]
      /\ pipe \in [Session -> Seq(Answers)]
    BY DEF Typed, Types, WireTypes
<1>b. door' = door /\ index' = index /\ batch' = batch /\ child' = child
    BY DEF VerbStep, repo, engine
<1>1. asked[s] = <<>> /\ pipe'[s] = <<>> /\ \A t \in Others(s) : pipe'[t] = pipe[t]
    BY TurnPlain DEF Ask, Kept
<1>2. asked'[s] = <<q>> /\ \A t \in Others(s) : asked'[t] = asked[t]
    BY <1>a, <1>1 DEF Ask, Others
<1>3. wait'[s] /\ \A t \in Others(s) : wait'[t] = wait[t]
    BY <1>a DEF Ask, Others
<1>4. \A t \in Others(s) : ~(door = "callc" /\ wait[t])
    BY DEF Ask
<1>5. OneWaits'
    BY <1>b, <1>3, <1>4 DEF OneWaits, Others
<1>6. ASSUME NEW t \in Others(s) PROVE Kept(t)'
  <2>1. t \in Session
      BY DEF Others
  <2>2. Unmoved(t)
      BY <1>b, <1>1, <1>2, <1>3, <1>4 DEF Unmoved, VerbStep
  <2> QED BY <2>1, <2>2, OthersKept
<1>7. Request(s)' = q /\ asked'[s] # <<>>
    BY <1>2 DEF Request
<1>8. q.op = op /\ q.path = path /\ q.blob = blob
    OBVIOUS
<1>9. Turn(s)'
    BY <1>1, <1>2, <1>3, <1>8 DEF Turn, Calling
<1>10. BatchHolds(s)'
    BY <1>b DEF BatchHolds, Kept
<1> QED BY <1>1, <1>3, <1>5, <1>6, <1>7, <1>8, <1>9, <1>10

LEMMA ReadEffect ==
    ASSUME StagingAssumption, Typed, OneWaits, \A t \in Session : Kept(t), NEW s \in Session,
           Read(s), ~mixed', VerbStep(s)
    PROVE  /\ OneWaits'
           /\ \A t \in Others(s) : Kept(t)'
           /\ asked[s] = <<>> /\ asked'[s] = <<>> /\ pipe'[s] = <<>> /\ ~wait'[s]
           /\ Turn(s)' /\ BatchHolds(s)'
<1>a. /\ wait \in [Session -> BOOLEAN] /\ asked \in [Session -> Seq(Requests)]
      /\ pipe \in [Session -> Seq(Answers)]
    BY DEF Typed, Types, WireTypes
<1>b. door' = door /\ index' = index /\ batch' = batch /\ child' = child
    BY DEF VerbStep, repo, engine
<1>1. asked[s] = <<>> /\ pipe'[s] = <<>> /\ \A t \in Others(s) : pipe'[t] = pipe[t]
    BY TurnPlain DEF Read, Kept
<1>2. asked' = asked /\ channel' = channel
    BY DEF Read
<1>3. ~wait'[s] /\ \A t \in Others(s) : wait'[t] = wait[t]
    BY <1>a DEF Read, Others
<1>4. OneWaits'
    BY <1>b, <1>3 DEF OneWaits, Others
<1>5. ASSUME NEW t \in Others(s) PROVE Kept(t)'
  <2>1. t \in Session
      BY DEF Others
  <2>2. Unmoved(t)
      BY <1>b, <1>1, <1>2, <1>3 DEF Unmoved, VerbStep
  <2> QED BY <2>1, <2>2, OthersKept
<1>6. Turn(s)'
    BY <1>1, <1>2, <1>3 DEF Turn, Idle
<1>7. BatchHolds(s)'
    BY <1>b DEF BatchHolds, Kept
<1> QED BY <1>1, <1>2, <1>3, <1>4, <1>5, <1>6, <1>7

\* A step of a command that makes no call and takes no answer.
LEMMA QuietEffect ==
    ASSUME StagingAssumption, Typed, OneWaits, \A t \in Session : Kept(t), NEW s \in Session,
           UNCHANGED <<wire, mixed>>, VerbStep(s)
    PROVE  /\ OneWaits'
           /\ \A t \in Others(s) : Kept(t)'
           /\ BatchHolds(s)' /\ Request(s)' = Request(s)
<1>b. door' = door /\ index' = index /\ batch' = batch /\ child' = child
    BY DEF VerbStep, repo, engine
<1>1. asked' = asked /\ channel' = channel /\ pipe' = pipe /\ wait' = wait
    BY DEF wire
<1>2. OneWaits'
    BY <1>b, <1>1 DEF OneWaits
<1>3. ASSUME NEW t \in Others(s) PROVE Kept(t)'
  <2>1. t \in Session
      BY DEF Others
  <2>2. Unmoved(t)
      BY <1>b, <1>1 DEF Unmoved, VerbStep
  <2> QED BY <2>1, <2>2, OthersKept
<1>4. BatchHolds(s)'
    BY <1>b DEF BatchHolds, Kept
<1> QED BY <1>1, <1>2, <1>3, <1>4 DEF Request


-----------------------------------------------------------------------------
(* Lemmas: the commands keep the invariant.                                 *)

KeptAll == OneWaits /\ \A s \in Session : Kept(s)

LEMMA AllKept ==
    ASSUME NEW s \in Session, OneWaits', \A t \in Others(s) : Kept(t)', Kept(s)'
    PROVE  KeptAll'
BY DEF KeptAll, Others

LEMMA CountTyped ==
    ASSUME StagingAssumption, Typed, NEW s \in Session
    PROVE  /\ IsFiniteSet(LeftNow(s)) /\ Cardinality(LeftNow(s)) \in Nat
           /\ Skips(s) \in Nat /\ Pending(s) \in Nat
<1>1. IsFiniteSet(LeftNow(s))
    BY ConstantsApart, FS_Subset DEF LeftNow
<1>2. Skips(s) \in Nat
    BY BatchTyped DEF Skips, Typed, Types
<1> QED BY <1>1, <1>2, FS_CardinalityType DEF Pending

LEMMA CountTypedNext ==
    ASSUME StagingAssumption, Typed', NEW s \in Session
    PROVE  /\ IsFiniteSet(LeftNow(s)') /\ Cardinality(LeftNow(s)') \in Nat
           /\ Skips(s)' \in Nat /\ Pending(s)' \in Nat
<1>1. IsFiniteSet(LeftNow(s)')
    BY ConstantsApart, FS_Subset DEF LeftNow
<1>2. Skips(s)' \in Nat
  <2>1. batch'[s] \in Batches
      BY DEF Typed, Types, EngineTypes
  <2> QED BY <2>1 DEF Skips, Batches
<1>3. Pending(s)' \in Nat
    BY DEF Pending
<1> QED BY <1>1, <1>2, <1>3, FS_CardinalityType

LEMMA LeftShrinks ==
    ASSUME StagingAssumption, Typed, NEW s \in Session, Typed',
           \A r \in Rec : seen'[s][r] = seen[s][r] \/ seen'[s][r] \in {Unread, None}
    PROVE  Cardinality(LeftNow(s)') <= Cardinality(LeftNow(s)) /\ Cardinality(LeftNow(s)') \in Nat
<1>1. LeftNow(s)' \subseteq LeftNow(s)
    BY ConstantsApart DEF LeftNow
<1> QED BY <1>1, CountTyped, FS_Subset, FS_CardinalityType

LEMMA StartAddKept ==
    ASSUME StagingAssumption, Typed, KeptAll, NEW s \in Session, StartAdd(s), ~mixed', Typed'
    PROVE  KeptAll'
<1> USE DEF KeptAll
<1>a. /\ pc \in [Session -> PCs] /\ list \in [Session -> SUBSET Rec]
      /\ seen \in [Session -> [Rec -> Finds]] /\ told \in [Session -> Nat]
    BY DEF Typed, Types, VerbTypes
<1>1. VerbStep(s)
    BY <1>a DEF StartAdd, VerbStep, Go, Others
<1>2. /\ OneWaits' /\ \A t \in Others(s) : Kept(t)'
      /\ BatchHolds(s)' /\ Request(s)' = Request(s)
    BY <1>1, QuietEffect DEF StartAdd
<1>3. ~wait[s] /\ asked[s] = <<>> /\ pipe[s] = <<>>
    BY TurnPlain DEF StartAdd, Go, Prompt, Typed, Places, Kept
<1>4. asked'[s] = <<>> /\ pipe'[s] = <<>> /\ ~wait'[s] /\ pc'[s] = "data"
    BY <1>a, <1>3 DEF StartAdd, Go, wire
<1>5. \A r \in Rec : seen'[s][r] = Unread
    BY <1>a DEF StartAdd
<1>6. Turn(s)' /\ EditBuilds(s)'
    BY <1>4 DEF Turn, Idle, EditBuilds, Asks, Answered
<1>7. Adds(s)'
    BY <1>4, <1>5, ConstantsApart DEF Adds, ReadIsStaged, ReadIsWritten, GoneIsRemoved, EngineAdds,
                                      Asks, Written
<1>8. SkipsCounted(s)'
  <2>1. LeftNow(s)' = {}
      BY <1>5, ConstantsApart DEF LeftNow
  <2>2. Cardinality(LeftNow(s)') = 0
      BY <2>1, FS_EmptySet
  <2>3. Skips(s)' \in Nat /\ Pending(s)' \in Nat
      BY CountTypedNext
  <2>4. 0 <= Skips(s)' + Pending(s)'
      BY <2>3
  <2> QED BY <1>4, <2>2, <2>4 DEF SkipsCounted
<1> QED BY <1>2, <1>6, <1>7, <1>8, AllKept DEF Kept

LEMMA StageRecordKept ==
    ASSUME StagingAssumption, Typed, KeptAll, NEW s \in Session, NEW r \in Rec, StageRecord(s, r),
           ~mixed', Typed'
    PROVE  KeptAll'
<1> USE DEF KeptAll
<1>a. /\ pc \in [Session -> PCs] /\ list \in [Session -> SUBSET Rec]
      /\ seen \in [Session -> [Rec -> Finds]] /\ told \in [Session -> Nat] /\ AccountTypes
    BY DEF Typed, Types, VerbTypes
<1>b. Kept(s)
    OBVIOUS
<1>1. VerbStep(s)
    BY <1>a DEF StageRecord, VerbStep, Go, Others
<1>2. pc[s] = "data" /\ pc'[s] = "data"
    BY <1>a DEF StageRecord, Go
<1>3. /\ OneWaits' /\ \A t \in Others(s) : Kept(t)'
      /\ asked[s] = <<>> /\ asked'[s] # <<>> /\ wait'[s]
      /\ Request(s)'.op = "STAGE" /\ Request(s)'.path = r /\ Request(s)'.blob = live[r]
      /\ Turn(s)' /\ BatchHolds(s)'
  <2>1. Ask(s, "STAGE", r, live[r]) /\ live[r] # None
      BY DEF StageRecord
  <2>2. [op |-> "STAGE", path |-> r, blob |-> live[r]] \in Requests
      BY <1>a, <2>1, RequestForms
  <2>3. "STAGE" \in OpsAt(pc'[s])
      BY <1>2 DEF OpsAt
  <2> QED BY <1>1, <2>1, <2>2, <2>3, AskEffect
<1>4. batch' = batch /\ child' = child /\ door' = door
    BY DEF StageRecord, engine
<1>5. seen'[s][r] = live[r] /\ \A q \in Rec \ {r} : seen'[s][q] = seen[s][q]
    BY <1>a DEF StageRecord
<1>6. list'[s] = list[s] \ {r}
    BY <1>a DEF StageRecord
<1>7. EditBuilds(s)'
    BY <1>2, <1>3 DEF EditBuilds, Asks, Answered
<1>8. ReadIsStaged(s)'
  <2>1. ASSUME NEW q \in Rec \ Bad, seen'[s][q] \in Value
        PROVE  \/ Doomed(s)'
               \/ batch'[s].open /\ batch'[s].tree[q] = seen'[s][q]
               \/ Asks(s, "STAGE")' /\ Request(s)'.path = q
    <3>1. CASE q = r
        BY <1>3, <3>1 DEF Asks
    <3>2. CASE q # r
      <4>1. seen[s][q] \in Value
          BY <1>5, <2>1, <3>2
      <4>2. Doomed(s) \/ (batch[s].open /\ batch[s].tree[q] = seen[s][q])
          BY <1>b, <1>2, <1>3, <4>1 DEF Kept, Adds, ReadIsStaged, Filling, Asks
      <4> QED BY <1>4, <1>5, <3>2, <4>2 DEF Doomed
    <3> QED BY <3>1, <3>2
  <2> QED BY <1>3, <1>5, <1>6, <2>1 DEF ReadIsStaged
<1>9. ReadIsWritten(s)' /\ GoneIsRemoved(s)' /\ EngineAdds(s)'
    BY <1>2 DEF ReadIsWritten, GoneIsRemoved, EngineAdds, Written
<1>10. SkipsCounted(s)'
  <2>1. SUFFICES ASSUME door = "daemon", ~Doomed(s)
                 PROVE  Cardinality(LeftNow(s)') <= Skips(s)' + Pending(s)'
      BY <1>2, <1>4 DEF SkipsCounted, Doomed
  <2>2. Cardinality(LeftNow(s)) <= Skips(s)
    <3>1. Cardinality(LeftNow(s)) <= Skips(s) + Pending(s)
        BY <1>b, <1>2, <2>1 DEF Kept, SkipsCounted, Filling
    <3>2. Pending(s) = 0
        BY <1>3 DEF Pending, Asks
    <3> QED BY <3>1, <3>2, CountTyped
  <2>3. Skips(s)' = Skips(s)
      BY <1>4 DEF Skips
  <2>4. CASE r \in Bad
    <3>1. Pending(s)' = 1
        BY <1>3, <2>4 DEF Pending, Asks
    <3>2. LeftNow(s)' \subseteq LeftNow(s) \cup {r}
        BY <1>5, ConstantsApart DEF LeftNow
    <3>3. Cardinality(LeftNow(s) \cup {r}) <= Cardinality(LeftNow(s)) + 1
          /\ IsFiniteSet(LeftNow(s) \cup {r}) /\ Cardinality(LeftNow(s) \cup {r}) \in Nat
      <4> DEFINE L == LeftNow(s)
      <4>1. IsFiniteSet(L) /\ Cardinality(L) \in Nat
          BY CountTyped
      <4> HIDE DEF L
      <4>2. IsFiniteSet(L \cup {r}) /\ (Cardinality(L \cup {r}) = Cardinality(L)
                                        \/ Cardinality(L \cup {r}) = Cardinality(L) + 1)
        <5>1. CASE r \in L
          <6>1. L \cup {r} = L
              BY <5>1
          <6> QED BY <4>1, <6>1
        <5>2. CASE r \notin L
            BY <4>1, <5>2, FS_AddElement
        <5> QED BY <5>1, <5>2
      <4>3. Cardinality(L \cup {r}) <= Cardinality(L) + 1 /\ Cardinality(L \cup {r}) \in Nat
          BY <4>1, <4>2
      <4> QED BY <4>2, <4>3 DEF L
    <3>4. Cardinality(LeftNow(s)') <= Cardinality(LeftNow(s) \cup {r})
        BY <3>2, <3>3, FS_Subset
    <3>5. Cardinality(LeftNow(s)') \in Nat
        BY CountTypedNext
    <3> QED BY <2>2, <2>3, <3>1, <3>3, <3>4, <3>5, CountTyped
  <2>5. CASE r \notin Bad
    <3>1. LeftNow(s)' = LeftNow(s)
        BY <1>5, <2>5, ConstantsApart DEF LeftNow
    <3>2. Pending(s)' = 0
        BY <1>3, <2>5 DEF Pending
    <3> QED BY <2>2, <2>3, <3>1, <3>2, CountTyped
  <2> QED BY <2>4, <2>5
<1> QED BY <1>3, <1>7, <1>8, <1>9, <1>10, AllKept DEF Kept, Adds

LEMMA PassRecordKept ==
    ASSUME StagingAssumption, Typed, KeptAll, NEW s \in Session, NEW r \in Rec, PassRecord(s, r),
           ~mixed', Typed'
    PROVE  KeptAll'
<1> USE DEF KeptAll
<1>a. /\ pc \in [Session -> PCs] /\ list \in [Session -> SUBSET Rec]
      /\ seen \in [Session -> [Rec -> Finds]] /\ told \in [Session -> Nat]
    BY DEF Typed, Types, VerbTypes
<1>b. Kept(s)
    OBVIOUS
<1>1. VerbStep(s)
    BY <1>a DEF PassRecord, VerbStep, Go, Others
<1>2. pc[s] = "data" /\ pc'[s] = "data"
    BY <1>a DEF PassRecord, Go
<1>3. /\ OneWaits' /\ \A t \in Others(s) : Kept(t)'
      /\ BatchHolds(s)' /\ Request(s)' = Request(s)
    BY <1>1, QuietEffect DEF PassRecord
<1>4. batch' = batch /\ child' = child /\ door' = door /\ asked' = asked /\ wait' = wait
      /\ pipe' = pipe
    BY DEF PassRecord, engine, wire
<1>5. seen'[s][r] = None /\ \A q \in Rec \ {r} : seen'[s][q] = seen[s][q]
    BY <1>a DEF PassRecord
<1>6. list'[s] = list[s] \ {r} /\ r \in list[s]
    BY <1>a DEF PassRecord
<1>7. Turn(s)' /\ EditBuilds(s)'
  <2>1. Turn(s)'
    <3>1. Turn(s) /\ pc'[s] = pc[s]
        BY <1>b, <1>2 DEF Kept
    <3> QED BY <1>4, <3>1 DEF Turn, Idle, Calling, Answering
  <2>2. Request(s)'.op # "STAGECTL" \/ asked'[s] = <<>>
    <3>1. asked[s] # <<>> => Request(s).op = "STAGE"
        BY <1>b, <1>2, TurnPlain DEF Kept, OpsAt
    <3> QED BY <1>3, <1>4, <3>1
  <2> QED BY <1>2, <2>1, <2>2 DEF EditBuilds, Asks
<1>8. ReadIsStaged(s)'
  <2>1. Asks(s, "STAGE")' = Asks(s, "STAGE")
      BY <1>3, <1>4 DEF Asks
  <2>2. Asks(s, "STAGE") => Request(s).path \in Rec \ {r}
    <3>1. Asks(s, "STAGE") => Request(s).path \in Rec
        BY RequestTyped DEF Asks, Typed, Types
    <3> QED BY <1>b, <1>6, <3>1 DEF Kept, Adds, ReadIsStaged
  <2>3. Asks(s, "STAGE")' => /\ Request(s)'.path \notin list'[s]
                             /\ Request(s)'.blob = seen'[s][Request(s)'.path]
      BY <1>b, <1>3, <1>5, <1>6, <2>1, <2>2 DEF Kept, Adds, ReadIsStaged
  <2>4. ASSUME NEW q \in Rec \ Bad, seen'[s][q] \in Value
        PROVE  \/ Doomed(s)'
               \/ batch'[s].open /\ batch'[s].tree[q] = seen'[s][q]
               \/ Asks(s, "STAGE")' /\ Request(s)'.path = q
    <3>1. q # r /\ seen'[s][q] = seen[s][q]
        BY <1>5, <2>4, ConstantsApart
    <3>2. \/ Doomed(s)
          \/ batch[s].open /\ batch[s].tree[q] = seen[s][q]
          \/ Asks(s, "STAGE") /\ Request(s).path = q
        BY <1>b, <1>2, <2>4, <3>1 DEF Kept, Adds, ReadIsStaged, Filling
    <3> QED BY <1>3, <1>4, <2>1, <3>1, <3>2 DEF Doomed
  <2> QED BY <2>3, <2>4 DEF ReadIsStaged
<1>9. ReadIsWritten(s)' /\ GoneIsRemoved(s)' /\ EngineAdds(s)'
    BY <1>2 DEF ReadIsWritten, GoneIsRemoved, EngineAdds, Written
<1>10. SkipsCounted(s)'
  <2>1. SUFFICES ASSUME door = "daemon", ~Doomed(s)
                 PROVE  Cardinality(LeftNow(s)') <= Skips(s)' + Pending(s)'
      BY <1>2, <1>4 DEF SkipsCounted, Doomed
  <2>2. Cardinality(LeftNow(s)) <= Skips(s) + Pending(s)
      BY <1>b, <1>2, <2>1 DEF Kept, SkipsCounted, Filling
  <2>3. Skips(s)' = Skips(s) /\ Pending(s)' = Pending(s)
      BY <1>3, <1>4 DEF Skips, Pending, Asks
  <2>4. Cardinality(LeftNow(s)') <= Cardinality(LeftNow(s)) /\ Cardinality(LeftNow(s)') \in Nat
      BY <1>5, LeftShrinks
  <2> QED BY <2>2, <2>3, <2>4, CountTyped
<1> QED BY <1>3, <1>7, <1>8, <1>9, <1>10, AllKept DEF Kept, Adds


LEMMA StageControlKept ==
    ASSUME StagingAssumption, Typed, KeptAll, NEW s \in Session, StageControl(s), ~mixed', Typed'
    PROVE  KeptAll'
<1> USE DEF KeptAll
<1>a. pc \in [Session -> PCs] /\ AccountTypes
    BY DEF Typed, Types, VerbTypes
<1>b. Kept(s)
    OBVIOUS
<1>1. VerbStep(s)
    BY <1>a DEF StageControl, VerbStep, Go, Others
<1>2. pc[s] = "data" /\ pc'[s] = "control"
    BY <1>a DEF StageControl, Go
<1>3. /\ OneWaits' /\ \A t \in Others(s) : Kept(t)'
      /\ asked[s] = <<>> /\ asked'[s] # <<>> /\ wait'[s]
      /\ Request(s)'.op = "STAGEBLOB"
      /\ Turn(s)' /\ BatchHolds(s)'
  <2> DEFINE c == [size |-> size, edits |-> {}]
  <2>1. Ask(s, "STAGEBLOB", Ctl, c)
      BY DEF StageControl
  <2>2. c \in Control
      BY <1>a DEF AccountTypes, Control
  <2> HIDE DEF c
  <2>3. [op |-> "STAGEBLOB", path |-> Ctl, blob |-> c] \in Requests
      BY <1>a, <2>2, RequestForms
  <2>4. "STAGEBLOB" \in OpsAt(pc'[s])
      BY <1>2 DEF OpsAt
  <2> QED BY <1>1, <2>1, <2>3, <2>4, AskEffect
<1>4. batch' = batch /\ child' = child /\ door' = door /\ seen' = seen
    BY DEF StageControl, engine
<1>5. ~Asks(s, "STAGE") /\ ~Asks(s, "STAGE")'
    BY <1>3 DEF Asks
<1>6. EditBuilds(s)'
    BY <1>2, <1>3 DEF EditBuilds, Asks, Answered
<1>7. ReadIsStaged(s)'
    BY <1>b, <1>2, <1>4, <1>5 DEF Kept, Adds, ReadIsStaged, Filling, Doomed
<1>8. ReadIsWritten(s)' /\ GoneIsRemoved(s)' /\ EngineAdds(s)'
    BY <1>2 DEF ReadIsWritten, GoneIsRemoved, EngineAdds, Written
<1>9. SkipsCounted(s)'
  <2>1. LeftNow(s)' = LeftNow(s) /\ Skips(s)' = Skips(s) /\ Pending(s)' = Pending(s)
      BY <1>4, <1>5 DEF LeftNow, Skips, Pending
  <2> QED BY <1>b, <1>2, <1>4, <2>1 DEF Kept, SkipsCounted, Filling, Doomed
<1> QED BY <1>3, <1>6, <1>7, <1>8, <1>9, AllKept DEF Kept, Adds

LEMMA FlushAddKept ==
    ASSUME StagingAssumption, Typed, KeptAll, NEW s \in Session, FlushAdd(s), ~mixed', Typed'
    PROVE  KeptAll'
<1> USE DEF KeptAll
<1>a. pc \in [Session -> PCs] /\ AccountTypes
    BY DEF Typed, Types, VerbTypes
<1>b. Kept(s)
    OBVIOUS
<1>1. VerbStep(s)
    BY <1>a DEF FlushAdd, VerbStep, Go, Others
<1>2. pc[s] = "control" /\ pc'[s] = "flush"
    BY <1>a DEF FlushAdd, Go
<1>3. /\ OneWaits' /\ \A t \in Others(s) : Kept(t)'
      /\ asked[s] = <<>> /\ asked'[s] # <<>> /\ wait'[s]
      /\ Request(s)'.op = "FLUSH"
      /\ Turn(s)' /\ BatchHolds(s)'
  <2>1. Ask(s, "FLUSH", Ctl, None)
      BY DEF FlushAdd
  <2>2. [op |-> "FLUSH", path |-> Ctl, blob |-> None] \in Requests
      BY <1>a, RequestForms DEF Ops
  <2>3. "FLUSH" \in OpsAt(pc'[s])
      BY <1>2 DEF OpsAt
  <2> QED BY <1>1, <2>1, <2>2, <2>3, AskEffect
<1>4. batch' = batch /\ child' = child /\ door' = door /\ seen' = seen
    BY DEF FlushAdd, engine
<1>5. ~Asks(s, "STAGE") /\ ~Asks(s, "STAGE")'
    BY <1>3 DEF Asks
<1>6. EditBuilds(s)'
    BY <1>2, <1>3 DEF EditBuilds, Asks, Answered
<1>7. ReadIsStaged(s)'
    BY <1>b, <1>2, <1>4, <1>5 DEF Kept, Adds, ReadIsStaged, Filling, Doomed
<1>8. ReadIsWritten(s)' /\ GoneIsRemoved(s)' /\ EngineAdds(s)'
    BY <1>2, <1>3 DEF ReadIsWritten, GoneIsRemoved, EngineAdds, Written
<1>9. SkipsCounted(s)'
  <2>1. LeftNow(s)' = LeftNow(s) /\ Skips(s)' = Skips(s) /\ Pending(s)' = Pending(s)
      BY <1>4, <1>5 DEF LeftNow, Skips, Pending
  <2> QED BY <1>b, <1>2, <1>3, <1>4, <2>1 DEF Kept, SkipsCounted, Filling, Doomed, Answered
<1> QED BY <1>3, <1>6, <1>7, <1>8, <1>9, AllKept DEF Kept, Adds

LEMMA AskIdsKept ==
    ASSUME StagingAssumption, Typed, KeptAll, NEW s \in Session, AskIds(s), ~mixed', Typed'
    PROVE  KeptAll'
<1> USE DEF KeptAll
<1>a. pc \in [Session -> PCs] /\ told \in [Session -> Nat] /\ AccountTypes
    BY DEF Typed, Types, VerbTypes
<1>b. Kept(s)
    OBVIOUS
<1>1. VerbStep(s)
    BY <1>a DEF AskIds, VerbStep, Go, Others
<1>2. pc[s] = "flush" /\ pc'[s] = "ids"
    BY <1>a DEF AskIds, Go
<1>3. /\ OneWaits' /\ \A t \in Others(s) : Kept(t)'
      /\ asked[s] = <<>> /\ asked'[s] # <<>> /\ wait'[s]
      /\ Request(s)'.op = "INDEXIDS"
      /\ Turn(s)' /\ BatchHolds(s)'
  <2>1. Ask(s, "INDEXIDS", Ctl, None)
      BY DEF AskIds
  <2>2. [op |-> "INDEXIDS", path |-> Ctl, blob |-> None] \in Requests
      BY <1>a, RequestForms DEF Ops
  <2>3. "INDEXIDS" \in OpsAt(pc'[s])
      BY <1>2 DEF OpsAt
  <2> QED BY <1>1, <2>1, <2>2, <2>3, AskEffect
<1>4. batch' = batch /\ child' = child /\ door' = door /\ seen' = seen /\ index' = index
    BY DEF AskIds, engine, repo
<1>5. EditBuilds(s)'
    BY <1>2, <1>3 DEF EditBuilds, Asks, Answered
<1>6. ReadIsStaged(s)'
    BY <1>2, <1>3 DEF ReadIsStaged, Filling, Asks
<1>7. ReadIsWritten(s)' /\ GoneIsRemoved(s)' /\ EngineAdds(s)'
    BY <1>b, <1>2, <1>3, <1>4 DEF Kept, Adds, ReadIsWritten, GoneIsRemoved, EngineAdds, Written,
                                  Answered
<1>8. SkipsCounted(s)'
  <2>1. LeftNow(s)' = LeftNow(s)
      BY <1>4 DEF LeftNow
  <2>2. told'[s] = Answer(s).skipped
      BY <1>a DEF AskIds
  <2>3. Answered(s)
      BY <1>2, <1>3 DEF Typed, Places, Answered
  <2>4. door = "daemon" => Cardinality(LeftNow(s)) <= told'[s]
      BY <1>b, <1>2, <2>2, <2>3 DEF Kept, SkipsCounted
  <2> QED BY <1>2, <1>4, <2>1, <2>4 DEF SkipsCounted, Filling
<1> QED BY <1>3, <1>5, <1>6, <1>7, <1>8, AllKept DEF Kept, Adds

LEMMA TakeIdsKept ==
    ASSUME StagingAssumption, Typed, KeptAll, NEW s \in Session, TakeIds(s), ~mixed', Typed'
    PROVE  KeptAll'
<1> USE DEF KeptAll
<1>a. pc \in [Session -> PCs] /\ list \in [Session -> SUBSET Rec] /\ index \in Trees
    BY DEF Typed, Types, VerbTypes, EngineTypes
<1>b. Kept(s)
    OBVIOUS
<1>1. VerbStep(s)
    BY <1>a DEF TakeIds, VerbStep, Go, Others
<1>2. pc[s] = "ids" /\ pc'[s] = "reconcile"
    BY <1>a DEF TakeIds, Go
<1>3. /\ OneWaits' /\ \A t \in Others(s) : Kept(t)'
      /\ asked[s] = <<>> /\ asked'[s] = <<>> /\ pipe'[s] = <<>> /\ ~wait'[s]
      /\ Turn(s)' /\ BatchHolds(s)'
    BY <1>1, ReadEffect DEF TakeIds
<1>4. batch' = batch /\ child' = child /\ door' = door /\ seen' = seen /\ index' = index
      /\ told' = told
    BY DEF TakeIds, engine, repo
<1>5. EditBuilds(s)' /\ ReadIsStaged(s)' /\ EngineAdds(s)'
    BY <1>2, <1>3 DEF EditBuilds, ReadIsStaged, EngineAdds, Asks, Answered, Filling
<1>6. ReadIsWritten(s)'
    BY <1>b, <1>2, <1>4 DEF Kept, Adds, ReadIsWritten, Written
<1>7. GoneIsRemoved(s)'
  <2>1. wait[s]
      BY <1>2 DEF Typed, Places
  <2>2. Answer(s).ids = IndexIds(index)
      BY <1>b, <1>2, <1>3, <2>1 DEF Kept, Adds, GoneIsRemoved, Answered
  <2>3. list'[s] = {r \in Rec : index[r] # None}
      BY <1>a, <2>2 DEF TakeIds, IndexIds
  <2> QED BY <1>2, <1>3, <1>4, <2>3 DEF GoneIsRemoved, Answered
<1>8. SkipsCounted(s)'
  <2>1. LeftNow(s)' = LeftNow(s)
      BY <1>4 DEF LeftNow
  <2> QED BY <1>b, <1>2, <1>4, <2>1 DEF Kept, SkipsCounted, Filling, Answered
<1> QED BY <1>3, <1>5, <1>6, <1>7, <1>8, AllKept DEF Kept, Adds

LEMMA RemoveGoneKept ==
    ASSUME StagingAssumption, Typed, KeptAll, NEW s \in Session, NEW r \in Rec, RemoveGone(s, r),
           ~mixed', Typed'
    PROVE  KeptAll'
<1> USE DEF KeptAll
<1>a. /\ pc \in [Session -> PCs] /\ list \in [Session -> SUBSET Rec]
      /\ seen \in [Session -> [Rec -> Finds]] /\ AccountTypes
    BY DEF Typed, Types, VerbTypes
<1>b. Kept(s)
    OBVIOUS
<1>1. VerbStep(s)
    BY <1>a DEF RemoveGone, VerbStep, Go, Others
<1>2. pc[s] = "reconcile" /\ pc'[s] = "reconcile"
    BY <1>a DEF RemoveGone, Go
<1>3. /\ OneWaits' /\ \A t \in Others(s) : Kept(t)'
      /\ asked[s] = <<>> /\ asked'[s] # <<>> /\ wait'[s]
      /\ Request(s)'.op = "RM" /\ Request(s)'.path = r
      /\ Turn(s)' /\ BatchHolds(s)'
  <2>1. Ask(s, "RM", r, None)
      BY DEF RemoveGone
  <2>2. [op |-> "RM", path |-> r, blob |-> None] \in Requests
      BY <1>a, RequestForms DEF Ops
  <2>3. "RM" \in OpsAt(pc'[s])
      BY <1>2 DEF OpsAt
  <2> QED BY <1>1, <2>1, <2>2, <2>3, AskEffect
<1>4. batch' = batch /\ child' = child /\ door' = door /\ index' = index /\ told' = told
    BY DEF RemoveGone, engine, repo
<1>5. seen'[s][r] = None /\ \A q \in Rec \ {r} : seen'[s][q] = seen[s][q]
    BY <1>a DEF RemoveGone
<1>6. list'[s] = list[s] \ {r}
    BY <1>a DEF RemoveGone
<1>7. EditBuilds(s)' /\ ReadIsStaged(s)' /\ EngineAdds(s)'
    BY <1>2, <1>3 DEF EditBuilds, ReadIsStaged, EngineAdds, Asks, Answered, Filling
<1>8. ReadIsWritten(s)'
    BY <1>b, <1>2, <1>4, <1>5, ConstantsApart DEF Kept, Adds, ReadIsWritten, Written
<1>9. GoneIsRemoved(s)'
  <2>1. ASSUME NEW q \in Rec \ Bad, seen'[s][q] = None
        PROVE  index'[q] = None \/ q \in list'[s] \/ (asked'[s] # <<>> /\ Request(s)'.path = q)
    <3>1. CASE q = r
        BY <1>3, <3>1
    <3>2. CASE q # r
      <4>1. index[q] = None \/ q \in list[s]
          BY <1>b, <1>2, <1>3, <1>5, <2>1, <3>2 DEF Kept, Adds, GoneIsRemoved
      <4> QED BY <1>4, <1>6, <3>2, <4>1
    <3> QED BY <3>1, <3>2
  <2> QED BY <1>2, <1>3, <1>5, <1>6, <2>1 DEF GoneIsRemoved
<1>10. SkipsCounted(s)'
  <2>1. Cardinality(LeftNow(s)') <= Cardinality(LeftNow(s)) /\ Cardinality(LeftNow(s)') \in Nat
      BY <1>5, LeftShrinks
  <2>2. told[s] \in Nat
      BY DEF Typed, Types, VerbTypes
  <2>3. door = "daemon" => Cardinality(LeftNow(s)) <= told[s]
      BY <1>b, <1>2 DEF Kept, SkipsCounted
  <2>4. door = "daemon" => Cardinality(LeftNow(s)') <= told[s]
      BY <2>1, <2>2, <2>3, CountTyped
  <2> QED BY <1>2, <1>4, <2>4 DEF SkipsCounted, Filling
<1> QED BY <1>3, <1>7, <1>8, <1>9, <1>10, AllKept DEF Kept, Adds

LEMMA KeepThereKept ==
    ASSUME StagingAssumption, Typed, KeptAll, NEW s \in Session, NEW r \in Rec, KeepThere(s, r),
           ~mixed', Typed'
    PROVE  KeptAll'
<1> USE DEF KeptAll
<1>a. /\ pc \in [Session -> PCs] /\ list \in [Session -> SUBSET Rec]
      /\ seen \in [Session -> [Rec -> Finds]]
    BY DEF Typed, Types, VerbTypes
<1>b. Kept(s)
    OBVIOUS
<1>1. VerbStep(s)
    BY <1>a DEF KeepThere, VerbStep, Go, Others
<1>2. pc[s] = "reconcile" /\ pc'[s] = "reconcile"
    BY <1>a DEF KeepThere, Go
<1>3. /\ OneWaits' /\ \A t \in Others(s) : Kept(t)'
      /\ BatchHolds(s)' /\ Request(s)' = Request(s)
    BY <1>1, QuietEffect DEF KeepThere
<1>4. batch' = batch /\ child' = child /\ door' = door /\ asked' = asked /\ wait' = wait
      /\ pipe' = pipe /\ index' = index /\ told' = told
    BY DEF KeepThere, engine, wire, repo
<1>5. /\ seen'[s][r] = IF seen[s][r] = None THEN Unread ELSE seen[s][r]
      /\ \A q \in Rec \ {r} : seen'[s][q] = seen[s][q]
    BY <1>a DEF KeepThere
<1>6. list'[s] = list[s] \ {r} /\ r \in list[s]
    BY <1>a DEF KeepThere
<1>7. asked[s] # <<>> => Request(s).op = "RM" /\ Request(s).path \in Rec \ {r}
  <2> HAVE asked[s] # <<>>
  <2>1. Request(s).op = "RM"
      BY <1>b, <1>2, TurnPlain DEF Kept, OpsAt
  <2>2. Request(s).path \in Rec
      BY <2>1, RequestTyped DEF Typed, Types
  <2> QED BY <1>b, <1>2, <1>6, <2>1, <2>2 DEF Kept, Adds, GoneIsRemoved
<1>8. Turn(s)'
  <2>1. Turn(s) /\ pc'[s] = pc[s]
      BY <1>b, <1>2 DEF Kept
  <2> QED BY <1>4, <2>1 DEF Turn, Idle, Calling, Answering
<1>9. EditBuilds(s)' /\ ReadIsStaged(s)' /\ EngineAdds(s)'
    BY <1>2, <1>3, <1>4, <1>7 DEF EditBuilds, ReadIsStaged, EngineAdds, Asks, Filling
<1>10. ReadIsWritten(s)'
    BY <1>b, <1>2, <1>4, <1>5, ConstantsApart DEF Kept, Adds, ReadIsWritten, Written
<1>11. GoneIsRemoved(s)'
  <2>1. ASSUME asked'[s] # <<>>
        PROVE  Request(s)'.path \notin list'[s] /\ seen'[s][Request(s)'.path] = None
      BY <1>b, <1>2, <1>3, <1>4, <1>5, <1>6, <1>7, <2>1 DEF Kept, Adds, GoneIsRemoved
  <2>2. ASSUME NEW q \in Rec \ Bad, seen'[s][q] = None
        PROVE  index'[q] = None \/ q \in list'[s] \/ (asked'[s] # <<>> /\ Request(s)'.path = q)
    <3>1. q # r /\ seen[s][q] = None
        BY <1>5, <2>2, ConstantsApart
    <3>2. index[q] = None \/ q \in list[s] \/ (asked[s] # <<>> /\ Request(s).path = q)
        BY <1>b, <1>2, <2>2, <3>1 DEF Kept, Adds, GoneIsRemoved
    <3> QED BY <1>3, <1>4, <1>6, <3>1, <3>2
  <2> QED BY <1>2, <2>1, <2>2 DEF GoneIsRemoved
<1>12. SkipsCounted(s)'
  <2>1. Cardinality(LeftNow(s)') <= Cardinality(LeftNow(s)) /\ Cardinality(LeftNow(s)') \in Nat
      BY <1>5, LeftShrinks
  <2>2. told[s] \in Nat
      BY DEF Typed, Types, VerbTypes
  <2>3. door = "daemon" => Cardinality(LeftNow(s)) <= told[s]
      BY <1>b, <1>2 DEF Kept, SkipsCounted
  <2>4. door = "daemon" => Cardinality(LeftNow(s)') <= told[s]
      BY <2>1, <2>2, <2>3, CountTyped
  <2> QED BY <1>2, <1>4, <2>4 DEF SkipsCounted, Filling
<1> QED BY <1>3, <1>8, <1>9, <1>10, <1>11, <1>12, AllKept DEF Kept, Adds


LEMMA FinishAddKept ==
    ASSUME StagingAssumption, Typed, KeptAll, NEW s \in Session, FinishAdd(s), ~mixed', Typed'
    PROVE  KeptAll'
<1> USE DEF KeptAll
<1>a. pc \in [Session -> PCs]
    BY DEF Typed, Types, VerbTypes
<1>1. VerbStep(s)
    BY <1>a DEF FinishAdd, VerbStep, Go, Others
<1>2. /\ OneWaits' /\ \A t \in Others(s) : Kept(t)'
      /\ asked'[s] = <<>> /\ pipe'[s] = <<>> /\ ~wait'[s] /\ BatchHolds(s)'
    BY <1>1, ReadEffect DEF FinishAdd
<1>3. Resting(s)'
    BY <1>a, <1>2 DEF FinishAdd, Go, Resting
<1> QED BY <1>2, <1>3, RestKeptNext, AllKept

LEMMA FinishCallKept ==
    ASSUME StagingAssumption, Typed, KeptAll, NEW s \in Session, FinishCall(s), ~mixed', Typed'
    PROVE  KeptAll'
<1> USE DEF KeptAll
<1>a. pc \in [Session -> PCs]
    BY DEF Typed, Types, VerbTypes
<1>1. VerbStep(s)
    BY <1>a DEF FinishCall, VerbStep, Go, Others
<1>2. /\ OneWaits' /\ \A t \in Others(s) : Kept(t)'
      /\ asked'[s] = <<>> /\ pipe'[s] = <<>> /\ ~wait'[s] /\ BatchHolds(s)'
    BY <1>1, ReadEffect DEF FinishCall
<1>3. Resting(s)'
    BY <1>a, <1>2 DEF FinishCall, Go, Resting
<1> QED BY <1>2, <1>3, RestKeptNext, AllKept

\* Outside GIT ADD a call claims nothing of what was read.
LEMMA OtherCallAdds ==
    ASSUME NEW s \in Session, pc'[s] \in {"ixcat", "cat", "call"}, asked'[s] # <<>>,
           Request(s)'.op # "STAGE"
    PROVE  Adds(s)' /\ SkipsCounted(s)'
<1>1. ReadIsStaged(s)' /\ ReadIsWritten(s)' /\ GoneIsRemoved(s)' /\ EngineAdds(s)'
    BY DEF ReadIsStaged, ReadIsWritten, GoneIsRemoved, EngineAdds, Asks, Filling, Written, Answered
<1>2. SkipsCounted(s)'
    BY DEF SkipsCounted, Filling, Answered
<1> QED BY <1>1, <1>2 DEF Adds

LEMMA EngineAddKept ==
    ASSUME StagingAssumption, Typed, KeptAll, NEW s \in Session, EngineAdd(s), ~mixed', Typed'
    PROVE  KeptAll'
<1> USE DEF KeptAll
<1>a. pc \in [Session -> PCs] /\ seen \in [Session -> [Rec -> Finds]] /\ told \in [Session -> Nat]
      /\ AccountTypes
    BY DEF Typed, Types, VerbTypes
<1>1. VerbStep(s)
    BY <1>a DEF EngineAdd, VerbStep, Go, Others
<1>2. pc'[s] = "engine"
    BY <1>a DEF EngineAdd, Go
<1>3. /\ OneWaits' /\ \A t \in Others(s) : Kept(t)'
      /\ asked'[s] # <<>> /\ Request(s)'.op = "ADD"
      /\ Turn(s)' /\ BatchHolds(s)'
  <2>1. Ask(s, "ADD", Ctl, None)
      BY DEF EngineAdd
  <2>2. [op |-> "ADD", path |-> Ctl, blob |-> None] \in Requests
      BY <1>a, RequestForms DEF Ops
  <2>3. "ADD" \in OpsAt(pc'[s])
      BY <1>2 DEF OpsAt
  <2> QED BY <1>1, <2>1, <2>2, <2>3, AskEffect
<1>4. EditBuilds(s)'
    BY <1>2, <1>3 DEF EditBuilds, Asks
<1>5. \A r \in Rec : seen'[s][r] = Unread
    BY <1>a DEF EngineAdd
<1>6. Adds(s)' /\ SkipsCounted(s)'
    BY <1>2, <1>3, <1>5 DEF Adds, ReadIsStaged, ReadIsWritten, GoneIsRemoved, EngineAdds, Asks, Filling,
                      Written, SkipsCounted
<1> QED BY <1>3, <1>4, <1>6, AllKept DEF Kept

LEMMA OneCallKept ==
    ASSUME StagingAssumption, Typed, KeptAll, NEW s \in Session, OneCall(s), ~mixed', Typed'
    PROVE  KeptAll'
<1> USE DEF KeptAll
<1>a. pc \in [Session -> PCs] /\ AccountTypes
    BY DEF Typed, Types, VerbTypes
<1>1. VerbStep(s)
    BY <1>a DEF OneCall, VerbStep, Go, Others
<1>2. pc'[s] = "call"
    BY <1>a DEF OneCall, Go
<1>3. PICK op \in {"COMMIT", "RM", "STAGED", "LOOK"}, path \in Path :
          Ask(s, op, path, None) /\ [op |-> op, path |-> path, blob |-> None] \in Requests
  <2>1. CASE Ask(s, "COMMIT", Ctl, None)
      BY <1>a, <2>1, RequestForms, ConstantsApart DEF Ops
  <2>2. CASE \E r \in Rec : Ask(s, "RM", r, None)
      BY <1>a, <2>2, RequestForms, ConstantsApart DEF Ops
  <2>3. CASE \E op \in {"STAGED", "LOOK"} : Ask(s, op, Ctl, None)
      BY <1>a, <2>3, RequestForms, ConstantsApart DEF Ops
  <2> QED BY <2>1, <2>2, <2>3 DEF OneCall
<1>4. /\ OneWaits' /\ \A t \in Others(s) : Kept(t)'
      /\ asked'[s] # <<>> /\ Request(s)'.op = op
      /\ Turn(s)' /\ BatchHolds(s)'
  <2>1. op \in OpsAt(pc'[s])
      BY <1>2 DEF OpsAt
  <2> QED BY <1>1, <1>3, <2>1, AskEffect
<1>5. EditBuilds(s)'
    BY <1>2, <1>4 DEF EditBuilds, Asks
<1>6. Adds(s)' /\ SkipsCounted(s)'
    BY <1>2, <1>4, OtherCallAdds
<1> QED BY <1>4, <1>5, <1>6, AllKept DEF Kept

LEMMA StartEditKept ==
    ASSUME StagingAssumption, Typed, KeptAll, NEW s \in Session, StartEdit(s), ~mixed', Typed'
    PROVE  KeptAll'
<1> USE DEF KeptAll
<1>a. pc \in [Session -> PCs] /\ AccountTypes
    BY DEF Typed, Types, VerbTypes
<1>1. VerbStep(s)
    BY <1>a DEF StartEdit, VerbStep, Go, Others
<1>2. pc'[s] = "ixcat"
    BY <1>a DEF StartEdit, Go
<1>3. /\ OneWaits' /\ \A t \in Others(s) : Kept(t)'
      /\ asked'[s] # <<>> /\ Request(s)'.op = "IXCAT"
      /\ Turn(s)' /\ BatchHolds(s)'
  <2>1. Ask(s, "IXCAT", Ctl, None)
      BY DEF StartEdit
  <2>2. [op |-> "IXCAT", path |-> Ctl, blob |-> None] \in Requests
      BY <1>a, RequestForms DEF Ops
  <2>3. "IXCAT" \in OpsAt(pc'[s])
      BY <1>2 DEF OpsAt
  <2> QED BY <1>1, <2>1, <2>2, <2>3, AskEffect
<1>4. EditBuilds(s)'
    BY <1>2, <1>3 DEF EditBuilds, Asks, Answered
<1>5. Adds(s)' /\ SkipsCounted(s)'
    BY <1>2, <1>3, OtherCallAdds
<1> QED BY <1>3, <1>4, <1>5, AllKept DEF Kept

LEMMA EditFromHeadKept ==
    ASSUME StagingAssumption, Typed, KeptAll, NEW s \in Session, EditFromHead(s), ~mixed', Typed'
    PROVE  KeptAll'
<1> USE DEF KeptAll
<1>a. pc \in [Session -> PCs] /\ AccountTypes
    BY DEF Typed, Types, VerbTypes
<1>b. Kept(s)
    OBVIOUS
<1>1. VerbStep(s)
    BY <1>a DEF EditFromHead, VerbStep, Go, Others
<1>2. pc[s] = "ixcat" /\ pc'[s] = "cat"
    BY <1>a DEF EditFromHead, Go
<1>3. /\ OneWaits' /\ \A t \in Others(s) : Kept(t)'
      /\ asked[s] = <<>> /\ asked'[s] # <<>> /\ Request(s)'.op = "CAT"
      /\ Turn(s)' /\ BatchHolds(s)'
  <2>1. Ask(s, "CAT", Ctl, None)
      BY DEF EditFromHead
  <2>2. [op |-> "CAT", path |-> Ctl, blob |-> None] \in Requests
      BY <1>a, RequestForms DEF Ops
  <2>3. "CAT" \in OpsAt(pc'[s])
      BY <1>2 DEF OpsAt
  <2> QED BY <1>1, <2>1, <2>2, <2>3, AskEffect
<1>4. ~batch[s].open /\ index[Ctl] = None
  <2>1. Answered(s) /\ Answer(s).ctl = None
      BY <1>3 DEF EditFromHead, Answered
  <2> QED BY <1>b, <1>2, <2>1 DEF Kept, EditBuilds
<1>5. EditBuilds(s)'
  <2>1. batch' = batch /\ index' = index
      BY DEF EditFromHead, engine, repo
  <2> QED BY <1>2, <1>3, <1>4, <2>1 DEF EditBuilds, Asks
<1>6. Adds(s)' /\ SkipsCounted(s)'
    BY <1>2, <1>3, OtherCallAdds
<1> QED BY <1>3, <1>5, <1>6, AllKept DEF Kept

LEMMA StageEditKept ==
    ASSUME StagingAssumption, Typed, KeptAll, NEW s \in Session, StageEdit(s), ~mixed', Typed'
    PROVE  KeptAll'
<1> USE DEF KeptAll
<1>a. pc \in [Session -> PCs] /\ AccountTypes /\ WireTypes
    BY DEF Typed, Types, VerbTypes
<1>b. Kept(s)
    OBVIOUS
<1> DEFINE base == IF Answer(s).ctl = None THEN BareClass ELSE Answer(s).ctl
           c == [base EXCEPT !.edits = @ \cup {chosen[s]}]
<1>1. VerbStep(s)
    BY <1>a DEF StageEdit, VerbStep, Go, Others
<1>2. pc[s] \in {"ixcat", "cat"} /\ pc'[s] = "call"
    BY <1>a DEF StageEdit, Go
<1>3. base \in Control
  <2>1. Answer(s).ctl \in MaybeControl
      BY <1>a, AnswerTyped DEF StageEdit
  <2> QED BY <2>1 DEF MaybeControl, BareClass, Control
<1>4. c \in Control /\ c.size = base.size /\ base.edits \subseteq c.edits
  <2>1. chosen[s] \in Edit
      BY <1>2 DEF Typed, Places
  <2> QED BY <1>3, <2>1 DEF Control
<1>5. Ask(s, "STAGECTL", Ctl, c)
    BY DEF StageEdit
<1>6. pc[s] = "ixcat" => Answer(s).ctl # None /\ base = Answer(s).ctl
    BY DEF StageEdit
<1>7. wait[s] /\ HasAnswer(s)
    BY DEF StageEdit
<1> HIDE DEF base, c
<1>8. /\ OneWaits' /\ \A t \in Others(s) : Kept(t)'
      /\ asked[s] = <<>> /\ asked'[s] # <<>> /\ Request(s)'.op = "STAGECTL" /\ Request(s)'.blob = c
      /\ Turn(s)' /\ BatchHolds(s)'
  <2>1. [op |-> "STAGECTL", path |-> Ctl, blob |-> c] \in Requests
      BY <1>a, <1>4, RequestForms
  <2>2. "STAGECTL" \in OpsAt(pc'[s])
      BY <1>2 DEF OpsAt
  <2> QED BY <1>1, <1>5, <2>1, <2>2, AskEffect
<1>9. ~batch[s].open /\ Grows(index[Ctl], c)
  <2>1. CASE pc[s] = "ixcat"
    <3>1. ~batch[s].open /\ Answer(s).ctl = index[Ctl]
        BY <1>b, <1>7, <1>8, <2>1 DEF Kept, EditBuilds, Answered
    <3> QED BY <1>4, <1>6, <2>1, <3>1 DEF Grows
  <2>2. CASE pc[s] = "cat"
      BY <1>b, <2>2 DEF Kept, EditBuilds, Grows
  <2> QED BY <1>2, <2>1, <2>2
<1>10. EditBuilds(s)'
  <2>1. batch' = batch /\ index' = index
      BY DEF StageEdit, engine, repo
  <2> QED BY <1>2, <1>8, <1>9, <2>1 DEF EditBuilds, Asks
<1>11. Adds(s)' /\ SkipsCounted(s)'
    BY <1>2, <1>8, OtherCallAdds
<1> QED BY <1>8, <1>10, <1>11, AllKept DEF Kept


-----------------------------------------------------------------------------
(* Lemmas: the operations of the engine keep the invariant.                 *)

LEMMA ServeEffect ==
    ASSUME StagingAssumption, Typed, KeptAll, NEW s \in Session, ServeStep(s), ~mixed',
           NEW a \in Answers, Replies(s, a)
    PROVE  /\ OneWaits'
           /\ \A t \in Others(s) : Kept(t)'
           /\ asked[s] # <<>> /\ asked'[s] = <<>>
           /\ Request(s).op \in OpsAt(pc[s]) /\ pc'[s] = pc[s]
           /\ Turn(s)' /\ Answered(s)' /\ Answer(s)' = a
           /\ door = "engine" => ~batch[s].open
           /\ ~Doomed(s) /\ ~Doomed(s)'
<1> USE DEF KeptAll
<1>a. /\ asked \in [Session -> Seq(Requests)] /\ pipe \in [Session -> Seq(Answers)]
      /\ batch \in [Session -> Batches]
    BY DEF Typed, Types, WireTypes, EngineTypes
<1>b. /\ asked[s] # <<>> /\ pc' = pc /\ list' = list /\ told' = told /\ wait' = wait /\ door' = door
      /\ child' = child
    BY DEF ServeStep
<1>1. wait[s] /\ pipe[s] = <<>> /\ Tail(asked[s]) = <<>> /\ Request(s).op \in OpsAt(pc[s])
    BY <1>b, TurnPlain DEF Kept
<1>2. asked'[s] = <<>> /\ \A t \in Others(s) : asked'[t] = asked[t]
    BY <1>a, <1>1 DEF ServeStep, Others
<1>3. \A t \in Others(s) : pipe'[t] = pipe[t]
    BY <1>a DEF Replies, Others
<1>4. \A t \in Others(s) : ~(door = "callc" /\ wait[t])
    BY <1>1 DEF OneWaits, Others
<1>5. OneWaits'
    BY <1>b DEF OneWaits
<1>6. ASSUME NEW t \in Others(s) PROVE Kept(t)'
  <2>1. t \in Session
      BY DEF Others
  <2>2. index' = index \/ ~Busy(t)
      BY DEF ServeStep, Disturbs
  <2>3. batch'[t] = batch[t] /\ seen'[t] = seen[t]
      BY DEF ServeStep
  <2>4. Unmoved(t)
      BY <1>b, <1>2, <1>3, <1>4, <2>2, <2>3 DEF Unmoved
  <2> QED BY <2>1, <2>4, OthersKept
<1>7. Turn(s)' /\ Answer(s)' = a
  <2>1. CASE door = "callc"
    <3>1. pipe'[s] = <<>>
        BY <1>1, <2>1 DEF Replies
    <3>2. Answer(s)' = a
        BY <1>b, <2>1 DEF Replies, Answer
    <3> QED BY <1>b, <1>2, <2>1, <3>1, <3>2 DEF Turn, Idle
  <2>2. CASE door # "callc"
    <3>1. pipe'[s] = <<a>>
      <4>1. pipe'[s] = Append(pipe[s], a)
          BY <1>a, <2>2 DEF Replies
      <4> QED BY <1>1, <4>1
    <3>2. Answer(s)' = a
        BY <1>b, <2>2, <3>1 DEF Answer
    <3> QED BY <1>b, <1>1, <1>2, <2>2, <3>1, <3>2 DEF Turn, Answering
  <2> QED BY <2>1, <2>2
<1>8. Answered(s)'
    BY <1>b, <1>1, <1>2 DEF Answered
<1>9. ~Doomed(s) /\ ~Doomed(s)'
    BY <1>b DEF ServeStep, Doomed
<1>10. door = "engine" => ~batch[s].open
    BY DEF Kept, BatchHolds
<1> QED BY <1>b, <1>1, <1>2, <1>5, <1>6, <1>7, <1>8, <1>9, <1>10

LEMMA EndsAnyway ==
    ASSUME StagingAssumption, door \in Doors, door # "engine"
    PROVE  \A op \in {"FLUSH", "IXCAT", "STAGECTL", "COMMIT"} : op \in EndsBatch
<1>1. door = "daemon" \/ door = "callc"
    BY DEF StagingAssumption
<1>2. CASE door = "daemon"
    BY <1>2 DEF EndsBatch, DaemonEnds
<1>3. CASE door = "callc"
    BY <1>3 DEF EndsBatch, CallcEnds
<1> QED BY <1>1, <1>2, <1>3

\* Ending the batch moves no control, and does nothing where none is open.
LEMMA SettledHolds ==
    ASSUME StagingAssumption, Typed, NEW s \in Session, BatchHolds(s), Settles(s)
    PROVE  /\ Stays(index[Ctl], Settled(s)[Ctl])
           /\ batch'[s].open => batch'[s] = batch[s] /\ Settled(s) = index
           /\ ~batch[s].open => Settled(s) = index /\ ~batch'[s].open
           /\ Request(s).op \in EndsBatch => Settled(s) = Flushed(s) /\ ~batch'[s].open
<1>1. CASE Request(s).op \in EndsBatch
  <2>1. batch' = Ended(s) /\ Settled(s) = Flushed(s)
      BY <1>1 DEF Settles, Settled
  <2>2. ~batch'[s].open
      BY <2>1, EndedTyped DEF Typed, Types
  <2> QED BY <1>1, <2>1, <2>2 DEF Flushed, BatchHolds, Stays
<1>2. CASE ~(Request(s).op \in EndsBatch)
    BY <1>2 DEF Settles, Settled, Stays
<1> QED BY <1>1, <1>2

\* What is staged for the control of a hash file keeps it.
LEMMA StickyStays ==
    ASSUME StagingAssumption, NEW c \in Control
    PROVE  Stays(index[Ctl], Sticky(c))
BY ConstantsApart DEF Stays, Sticky

LEMMA StageKept ==
    ASSUME StagingAssumption, Typed, KeptAll, NEW s \in Session, Stage(s), ~mixed', Typed'
    PROVE  KeptAll'
<1> USE DEF KeptAll
<1>a. AccountTypes /\ EngineTypes /\ VerbTypes /\ WireTypes /\ batch \in [Session -> Batches]
    BY DEF Typed, Types, EngineTypes
<1>b. Kept(s)
    OBVIOUS
<1>0. ServeStep(s)
    BY ServeIsStep DEF Operates
<1>1. /\ OneWaits' /\ \A t \in Others(s) : Kept(t)'
      /\ asked[s] # <<>> /\ asked'[s] = <<>>
      /\ Request(s).op \in OpsAt(pc[s]) /\ pc'[s] = pc[s]
      /\ Turn(s)' /\ Answered(s)'
      /\ ~Doomed(s) /\ ~Doomed(s)'
    BY <1>0, ServeEffect, EmptyTyped DEF Stage
<1>2. /\ index' = index /\ seen' = seen /\ door' = door
    BY DEF Stage, repo, Engine, verb
<1>3. PICK p \in Path, v \in Blob :
          /\ batch' = [batch EXCEPT ![s] = Added(Begun(s), p, v)]
          /\ p \in Rec => Request(s).op = "STAGE" /\ p = Request(s).path /\ v = Request(s).blob
                          /\ v \in Value
          /\ p = Ctl => Request(s).op = "STAGEBLOB" /\ v = Sticky(Request(s).blob) /\ v \in Control
  <2>1. CASE Serves(s, "STAGE") /\ batch' = [batch EXCEPT ![s] =
                 Added(Begun(s), Request(s).path, Request(s).blob)]
    <3>1. Request(s).op = "STAGE" /\ Request(s).path \in Rec /\ Request(s).blob \in Value
        BY <1>a, <1>1, <2>1, RequestTyped DEF Serves
    <3>2. PICK x \in Rec, y \in Value : x = Request(s).path /\ y = Request(s).blob
        BY <3>1
    <3>3. batch' = [batch EXCEPT ![s] = Added(Begun(s), x, y)]
        BY <2>1, <3>2
    <3>4. x # Ctl /\ x \in Path /\ y \in Blob
        BY ConstantsApart
    <3> QED BY <3>1, <3>2, <3>3, <3>4
  <2>2. CASE Serves(s, "STAGEBLOB") /\ batch' = [batch EXCEPT ![s] =
                 Added(Begun(s), Ctl, Sticky(Request(s).blob))]
    <3>1. Request(s).op = "STAGEBLOB" /\ Sticky(Request(s).blob) \in Control
        BY <1>a, <1>1, <2>2, RequestTyped, StickyTyped DEF Serves
    <3>2. PICK y \in Control : y = Sticky(Request(s).blob)
        BY <3>1
    <3>3. batch' = [batch EXCEPT ![s] = Added(Begun(s), Ctl, y)]
        BY <2>2, <3>2
    <3>4. Ctl \notin Rec /\ Ctl \in Path /\ y \in Blob
        BY ConstantsApart
    <3> QED BY <3>1, <3>2, <3>3, <3>4
  <2> QED BY <2>1, <2>2 DEF Stage
<1>4. p \in Rec \/ p = Ctl
    BY DEF Path
<1>5. pc[s] \in {"data", "control"}
  <2>1. Request(s).op \in {"STAGE", "STAGEBLOB"}
      BY <1>3, <1>4
  <2>2. pc[s] \in PCs
      BY <1>a DEF VerbTypes
  <2> QED BY <1>1, <2>1, <2>2 DEF OpsAt, PCs
<1> DEFINE b == Begun(s)
           n == Added(b, p, v)
<1>6. /\ b \in Batches /\ b.open = TRUE
      /\ b.tree = (IF batch[s].open THEN batch[s].tree ELSE index)
      /\ b.skipped = (IF batch[s].open THEN batch[s].skipped ELSE 0)
    BY <1>a, BatchTyped
<1>7. /\ n \in Batches /\ n.open = b.open
      /\ p \in Bad => n.tree = b.tree /\ n.skipped = b.skipped + 1
      /\ p \notin Bad => n.tree = [b.tree EXCEPT ![p] = v] /\ n.skipped = b.skipped
  <2>1. (p \in Rec => v \in Value) /\ (p = Ctl => v \in Control) /\ p \in Path
      BY <1>3
  <2>2. b \in Batches
      BY <1>6
  <2> HIDE DEF b
  <2>3. AddedIs(n, b, p, v)
      BY <2>1, <2>2, AddedTyped
  <2> HIDE DEF n
  <2> QED BY <2>3 DEF AddedIs
<1>8. batch'[s] = n
    BY <1>a, <1>3
<1> HIDE DEF b, n
<1>9. b.tree \in [Path -> Blob] /\ b.skipped \in Nat
    BY <1>6 DEF Batches, Trees
<1>10. BatchHolds(s)'
  <2>1. door # "engine"
      BY <1>5 DEF Typed, Places
  <2>2. Stays(index[Ctl], b.tree[Ctl])
      BY <1>b, <1>6 DEF Kept, BatchHolds, Stays
  <2>3. Stays(index[Ctl], n.tree[Ctl])
    <3>1. CASE p \in Rec
        BY <1>7, <1>9, <2>2, <3>1, ConstantsApart
    <3>2. CASE p = Ctl
      <4>1. n.tree[Ctl] = v
          BY <1>7, <1>9, <3>2, ConstantsApart
      <4>2. Request(s).blob \in Control /\ v = Sticky(Request(s).blob)
          BY <1>a, <1>1, <1>3, <3>2, RequestTyped
      <4> QED BY <4>1, <4>2, StickyStays
    <3> QED BY <1>4, <3>1, <3>2
  <2> QED BY <1>2, <1>8, <2>1, <2>3 DEF BatchHolds
<1>11. EditBuilds(s)' /\ ReadIsWritten(s)' /\ GoneIsRemoved(s)' /\ EngineAdds(s)'
    BY <1>1, <1>5 DEF EditBuilds, ReadIsWritten, GoneIsRemoved, EngineAdds, Asks, Written
<1>12. ReadIsStaged(s)'
  <2>1. ASSUME NEW r \in Rec \ Bad, seen[s][r] \in Value
        PROVE  n.open /\ n.tree[r] = seen[s][r]
    <3>1. \/ batch[s].open /\ batch[s].tree[r] = seen[s][r]
          \/ Asks(s, "STAGE") /\ Request(s).path = r
        BY <1>b, <1>1, <1>5, <2>1 DEF Kept, Adds, ReadIsStaged, Filling
    <3>2. CASE p = r
      <4>1. Asks(s, "STAGE") /\ v = seen[s][r]
          BY <1>b, <1>1, <1>3, <3>2 DEF Asks, Kept, Adds, ReadIsStaged
      <4> QED BY <1>6, <1>7, <1>9, <3>2, <4>1
    <3>3. CASE p # r
      <4>1. ~(Asks(s, "STAGE") /\ Request(s).path = r)
          BY <1>3, <1>4, <3>3 DEF Asks
      <4>2. b.tree[r] = seen[s][r]
          BY <1>6, <3>1, <4>1
      <4> QED BY <1>6, <1>7, <1>9, <3>3, <4>2, ConstantsApart
    <3> QED BY <3>2, <3>3
  <2>2. ~Asks(s, "STAGE")'
      BY <1>1 DEF Asks
  <2> QED BY <1>2, <1>8, <2>1, <2>2 DEF ReadIsStaged
<1>13. SkipsCounted(s)'
  <2>1. SUFFICES ASSUME door = "daemon"
                 PROVE  Cardinality(LeftNow(s)') <= Skips(s)' + Pending(s)'
      BY <1>1, <1>2, <1>5 DEF SkipsCounted
  <2>2. LeftNow(s)' = LeftNow(s)
      BY <1>2 DEF LeftNow
  <2>3. Cardinality(LeftNow(s)) <= Skips(s) + Pending(s)
      BY <1>b, <1>1, <1>5, <2>1 DEF Kept, SkipsCounted, Filling
  <2>4. Skips(s) = b.skipped
      BY <1>6 DEF Skips
  <2>5. Pending(s)' = 0
      BY <1>1 DEF Pending, Asks
  <2>6. Skips(s)' = n.skipped
      BY <1>6, <1>7, <1>8 DEF Skips
  <2>7. CASE p \in Bad
    <3>1. n.skipped = b.skipped + 1
        BY <1>7, <2>7
    <3>2. Pending(s) = 0 \/ Pending(s) = 1
        BY DEF Pending
    <3> QED BY <1>9, <2>2, <2>3, <2>4, <2>5, <2>6, <3>1, <3>2, CountTyped
  <2>8. CASE p \notin Bad
    <3>1. n.skipped = b.skipped
        BY <1>7, <2>8
    <3>2. Pending(s) = 0
        BY <1>3, <1>4, <2>8 DEF Pending, Asks
    <3> QED BY <1>9, <2>2, <2>3, <2>4, <2>5, <2>6, <3>1, <3>2, CountTyped
  <2> QED BY <2>7, <2>8
<1> QED BY <1>1, <1>10, <1>11, <1>12, <1>13, AllKept DEF Kept, Adds


\* What a step does to the control on disk, while no command runs into another.
ControlStep ==
    index[Ctl] # None /\ index[Ctl].size # Dir =>
        /\ index'[Ctl] # None
        /\ \/ index'[Ctl].size = Dir
           \/ /\ index'[Ctl].size = index[Ctl].size
              /\ index[Ctl].edits \subseteq index'[Ctl].edits

LEMMA SameControl == ASSUME Stays(index[Ctl], index'[Ctl]) PROVE ControlStep
BY DEF ControlStep, Stays

\* An index that is left as it is.
LEMMA SameIndex == ASSUME index' = index PROVE ControlStep
BY DEF ControlStep

\* A call that is served outside GIT ADD and GIT ATTR claims nothing more.
LEMMA CallServed ==
    ASSUME NEW s \in Session, pc'[s] = "call", asked'[s] = <<>>
    PROVE  EditBuilds(s)' /\ Adds(s)' /\ SkipsCounted(s)'
<1>1. EditBuilds(s)'
    BY DEF EditBuilds, Asks
<1>2. ReadIsStaged(s)' /\ ReadIsWritten(s)' /\ GoneIsRemoved(s)' /\ EngineAdds(s)'
    BY DEF ReadIsStaged, ReadIsWritten, GoneIsRemoved, EngineAdds, Asks, Filling, Written
<1>3. SkipsCounted(s)'
    BY DEF SkipsCounted, Filling
<1> QED BY <1>1, <1>2, <1>3 DEF Adds

LEMMA OpPlace ==
    ASSUME NEW s \in Session, VerbTypes, Request(s).op \in OpsAt(pc[s])
    PROVE  /\ Request(s).op = "FLUSH" => pc[s] = "flush"
           /\ Request(s).op = "INDEXIDS" => pc[s] = "ids"
           /\ Request(s).op = "RM" => pc[s] \in {"reconcile", "call"}
           /\ Request(s).op = "ADD" => pc[s] = "engine"
           /\ Request(s).op = "IXCAT" => pc[s] = "ixcat"
           /\ Request(s).op = "CAT" => pc[s] = "cat"
           /\ Request(s).op \in {"COMMIT", "STAGED", "LOOK", "STAGECTL"} => pc[s] = "call"
<1>1. pc[s] \in PCs
    BY DEF VerbTypes
<1> QED BY <1>1 DEF OpsAt, PCs

LEMMA FlushKept ==
    ASSUME StagingAssumption, Typed, KeptAll, NEW s \in Session, Flush(s), ~mixed', Typed'
    PROVE  KeptAll' /\ ControlStep
<1> USE DEF KeptAll
<1>a. AccountTypes /\ EngineTypes /\ VerbTypes /\ Places
    BY DEF Typed, Types
<1>b. Kept(s)
    OBVIOUS
<1> DEFINE a == IF door = "daemon" THEN [Empty EXCEPT !.skipped = batch[s].skipped] ELSE Empty
<1>1. ServeStep(s) /\ Replies(s, a) /\ index' = Settled(s) /\ Settles(s) /\ Serves(s, "FLUSH")
    BY ServeIsStep DEF Operates, Flush
<1>2. a \in Answers /\ (door = "daemon" => a.skipped = batch[s].skipped)
    BY <1>a, BatchTyped, SkippedAnswer, EmptyTyped
<1> HIDE DEF a
<1>3. /\ OneWaits' /\ \A t \in Others(s) : Kept(t)'
      /\ asked[s] # <<>> /\ asked'[s] = <<>> /\ Request(s).op \in OpsAt(pc[s]) /\ pc'[s] = pc[s]
      /\ Turn(s)' /\ Answered(s)' /\ Answer(s)' = a /\ ~Doomed(s)
    BY <1>1, <1>2, ServeEffect
<1>4. Request(s).op = "FLUSH" /\ pc[s] = "flush"
    BY <1>a, <1>1, <1>3, OpPlace DEF Serves
<1>5. door # "engine"
    BY <1>a, <1>4 DEF Places
<1>6. "FLUSH" \in EndsBatch
    BY <1>a, <1>5, EndsAnyway DEF AccountTypes
<1>7. index' = Flushed(s) /\ ~batch'[s].open /\ (Stays(index[Ctl], index'[Ctl]))
    BY <1>b, <1>1, <1>4, <1>6, SettledHolds DEF Kept
<1>8. seen' = seen /\ door' = door
    BY DEF Flush, Engine, verb
<1>9. BatchHolds(s)' /\ EditBuilds(s)' /\ ReadIsStaged(s)' /\ GoneIsRemoved(s)' /\ EngineAdds(s)'
    BY <1>3, <1>4, <1>7 DEF BatchHolds, EditBuilds, ReadIsStaged, GoneIsRemoved, EngineAdds, Asks,
                            Filling
<1>10. ReadIsWritten(s)'
  <2>1. ASSUME NEW r \in Rec \ Bad, seen[s][r] \in Value
        PROVE  index'[r] = seen[s][r]
    <3>1. batch[s].open /\ batch[s].tree[r] = seen[s][r]
        BY <1>b, <1>3, <1>4, <2>1 DEF Kept, Adds, ReadIsStaged, Filling, Asks
    <3> QED BY <1>7, <3>1 DEF Flushed
  <2> QED BY <1>7, <1>8, <2>1 DEF ReadIsWritten
<1>11. SkipsCounted(s)'
  <2>1. SUFFICES ASSUME door = "daemon"
                 PROVE  Cardinality(LeftNow(s)') <= a.skipped
      BY <1>3, <1>4, <1>8 DEF SkipsCounted, Filling
  <2>2. LeftNow(s)' = LeftNow(s)
      BY <1>8 DEF LeftNow
  <2>3. Cardinality(LeftNow(s)) <= Skips(s) + Pending(s)
      BY <1>b, <1>3, <1>4, <2>1 DEF Kept, SkipsCounted, Filling
  <2>4. Pending(s) = 0
      BY <1>4 DEF Pending, Asks
  <2>5. batch[s].skipped \in Nat /\ (Skips(s) = batch[s].skipped \/ Skips(s) = 0)
      BY <1>a, BatchTyped DEF Skips
  <2> QED BY <1>2, <2>1, <2>2, <2>3, <2>4, <2>5, CountTyped
<1>12. ControlStep
    BY <1>7, SameControl
<1> QED BY <1>3, <1>9, <1>10, <1>11, <1>12, AllKept DEF Kept, Adds

LEMMA LookKept ==
    ASSUME StagingAssumption, Typed, KeptAll, NEW s \in Session, Look(s), ~mixed', Typed'
    PROVE  KeptAll' /\ ControlStep
<1> USE DEF KeptAll
<1>a. AccountTypes /\ EngineTypes /\ VerbTypes /\ Places
    BY DEF Typed, Types
<1>b. Kept(s)
    OBVIOUS
<1> DEFINE ids == IF Request(s).op = "INDEXIDS" THEN IndexIds(index') ELSE {}
           a == [Empty EXCEPT !.ids = ids]
<1>1. ServeStep(s) /\ Replies(s, a) /\ index' = Settled(s) /\ Settles(s)
      /\ Request(s).op \in {"INDEXIDS", "STAGED", "LOOK"}
    BY ServeIsStep DEF Operates, Look, Serves
<1>2. a \in Answers /\ a.ids = ids
    BY IdsAnswer DEF IndexIds
<1>3. Request(s).op = "INDEXIDS" => ids = IndexIds(index')
    OBVIOUS
<1> HIDE DEF a, ids
<1>4. /\ OneWaits' /\ \A t \in Others(s) : Kept(t)'
      /\ asked[s] # <<>> /\ asked'[s] = <<>> /\ Request(s).op \in OpsAt(pc[s]) /\ pc'[s] = pc[s]
      /\ Turn(s)' /\ Answered(s)' /\ Answer(s)' = a
    BY <1>1, <1>2, ServeEffect
<1>5. /\ Stays(index[Ctl], index'[Ctl])
      /\ batch'[s].open => batch'[s] = batch[s] /\ index' = index
      /\ ~batch[s].open => index' = index /\ ~batch'[s].open
    BY <1>b, <1>1, SettledHolds DEF Kept
<1>6. seen' = seen /\ door' = door /\ told' = told
    BY DEF Look, Engine, verb
<1>7. BatchHolds(s)'
    BY <1>b, <1>5, <1>6 DEF BatchHolds, Kept
<1>8. ControlStep
    BY <1>5, SameControl
<1>9. CASE Request(s).op = "INDEXIDS"
  <2>1. pc[s] = "ids"
      BY <1>a, <1>4, <1>9, OpPlace
  <2>2. ~batch[s].open
      BY <1>b, <2>1 DEF Kept, Adds, ReadIsWritten, Written
  <2>3. EditBuilds(s)' /\ ReadIsStaged(s)' /\ EngineAdds(s)'
      BY <1>4, <2>1 DEF EditBuilds, ReadIsStaged, EngineAdds, Asks, Filling
  <2>4. ReadIsWritten(s)'
      BY <1>b, <1>4, <1>5, <1>6, <2>1, <2>2 DEF Kept, Adds, ReadIsWritten, Written
  <2>5. GoneIsRemoved(s)'
      BY <1>2, <1>3, <1>4, <1>9, <2>1 DEF GoneIsRemoved
  <2>6. SkipsCounted(s)'
    <3>1. LeftNow(s)' = LeftNow(s)
        BY <1>6 DEF LeftNow
    <3> QED BY <1>b, <1>4, <1>6, <2>1, <3>1 DEF Kept, SkipsCounted, Filling
  <2> QED BY <1>4, <1>7, <1>8, <2>3, <2>4, <2>5, <2>6, AllKept DEF Kept, Adds
<1>10. CASE Request(s).op # "INDEXIDS"
  <2>1. pc'[s] = "call"
      BY <1>a, <1>1, <1>4, <1>10, OpPlace
  <2> QED BY <1>4, <1>7, <1>8, <2>1, CallServed, AllKept DEF Kept
<1> QED BY <1>9, <1>10

LEMMA RmKept ==
    ASSUME StagingAssumption, Typed, KeptAll, NEW s \in Session, Rm(s), ~mixed', Typed'
    PROVE  KeptAll' /\ ControlStep
<1> USE DEF KeptAll
<1>a. AccountTypes /\ EngineTypes /\ VerbTypes /\ Places /\ WireTypes
    BY DEF Typed, Types
<1>b. Kept(s)
    OBVIOUS
<1>1. ServeStep(s) /\ Replies(s, Empty) /\ Settles(s) /\ Request(s).op = "RM"
    BY ServeIsStep DEF Operates, Rm, Serves
<1>2. /\ OneWaits' /\ \A t \in Others(s) : Kept(t)'
      /\ asked[s] # <<>> /\ asked'[s] = <<>> /\ Request(s).op \in OpsAt(pc[s]) /\ pc'[s] = pc[s]
      /\ Turn(s)'
    BY <1>1, EmptyTyped, ServeEffect
<1>3. PICK p \in Rec : p = Request(s).path
    BY <1>a, <1>1, <1>2, RequestTyped
<1>4. Settled(s) \in Trees
    BY <1>a, <1>1, SettledTyped
<1>5. index'[p] = None /\ \A q \in Path \ {p} : index'[q] = Settled(s)[q]
    BY <1>3, <1>4, ConstantsApart DEF Rm, Trees
<1>6. /\ Stays(index[Ctl], Settled(s)[Ctl])
      /\ batch'[s].open => batch'[s] = batch[s] /\ Settled(s) = index
      /\ ~batch[s].open => Settled(s) = index /\ ~batch'[s].open
    BY <1>b, <1>1, SettledHolds DEF Kept
<1>7. index'[Ctl] = Settled(s)[Ctl]
    BY <1>5, ConstantsApart
<1>8. seen' = seen /\ door' = door /\ told' = told /\ list' = list
    BY DEF Rm, Engine, verb
<1>9. BatchHolds(s)'
    BY <1>b, <1>6, <1>7, <1>8 DEF BatchHolds, Kept
<1>10. ControlStep
    BY <1>6, <1>7, SameControl
<1>11. CASE pc[s] = "reconcile"
  <2>1. ~batch[s].open /\ seen[s][p] = None
      BY <1>b, <1>2, <1>3, <1>11 DEF Kept, Adds, ReadIsWritten, Written, GoneIsRemoved
  <2>2. EditBuilds(s)' /\ ReadIsStaged(s)' /\ EngineAdds(s)'
      BY <1>2, <1>11 DEF EditBuilds, ReadIsStaged, EngineAdds, Asks, Filling
  <2>3. \A q \in Rec \ {p} : index'[q] = index[q]
      BY <1>5, <1>6, <2>1, ConstantsApart
  <2>4. ReadIsWritten(s)'
      BY <1>b, <1>6, <1>8, <1>11, <2>1, <2>3, ConstantsApart
         DEF Kept, Adds, ReadIsWritten, Written
  <2>5. GoneIsRemoved(s)'
    <3>1. ASSUME NEW q \in Rec \ Bad, seen[s][q] = None
          PROVE  index'[q] = None \/ q \in list[s]
      <4>1. index[q] = None \/ q \in list[s] \/ q = p
          BY <1>b, <1>3, <1>11, <3>1 DEF Kept, Adds, GoneIsRemoved
      <4> QED BY <1>5, <2>3, <4>1
    <3> QED BY <1>2, <1>8, <1>11, <3>1 DEF GoneIsRemoved
  <2>6. SkipsCounted(s)'
    <3>1. LeftNow(s)' = LeftNow(s)
        BY <1>8 DEF LeftNow
    <3> QED BY <1>b, <1>2, <1>8, <1>11, <3>1 DEF Kept, SkipsCounted, Filling
  <2> QED BY <1>2, <1>9, <1>10, <2>2, <2>4, <2>5, <2>6, AllKept DEF Kept, Adds
<1>12. CASE pc[s] = "call"
    BY <1>2, <1>9, <1>10, <1>12, CallServed, AllKept DEF Kept
<1> QED BY <1>a, <1>1, <1>2, <1>11, <1>12, OpPlace


LEMMA IxCatKept ==
    ASSUME StagingAssumption, Typed, KeptAll, NEW s \in Session, IxCat(s), ~mixed', Typed'
    PROVE  KeptAll' /\ ControlStep
<1> USE DEF KeptAll
<1>a. AccountTypes /\ EngineTypes /\ VerbTypes
    BY DEF Typed, Types
<1>b. Kept(s)
    OBVIOUS
<1> DEFINE a == [Empty EXCEPT !.ctl = index'[Ctl]]
<1>1. ServeStep(s) /\ Replies(s, a) /\ index' = Settled(s) /\ Settles(s) /\ Request(s).op = "IXCAT"
    BY ServeIsStep DEF Operates, IxCat, Serves
<1>2. index'[Ctl] \in MaybeControl
    BY DEF Typed, Types, EngineTypes, Trees
<1>3. a \in Answers /\ a.ctl = index'[Ctl]
    BY <1>2, ControlAnswer
<1> HIDE DEF a
<1>4. /\ OneWaits' /\ \A t \in Others(s) : Kept(t)'
      /\ asked[s] # <<>> /\ asked'[s] = <<>> /\ Request(s).op \in OpsAt(pc[s]) /\ pc'[s] = pc[s]
      /\ Turn(s)' /\ Answer(s)' = a /\ (door = "engine" => ~batch[s].open)
    BY <1>1, <1>3, ServeEffect
<1>5. pc'[s] = "ixcat"
    BY <1>a, <1>1, <1>4, OpPlace
<1>6. ~batch'[s].open /\ (Stays(index[Ctl], index'[Ctl]))
  <2>1. /\ Stays(index[Ctl], index'[Ctl])
        /\ ~batch[s].open => ~batch'[s].open
        /\ "IXCAT" \in EndsBatch => ~batch'[s].open
      BY <1>b, <1>1, SettledHolds DEF Kept
  <2>2. door # "engine" => "IXCAT" \in EndsBatch
      BY <1>a, EndsAnyway DEF AccountTypes
  <2> QED BY <1>4, <2>1, <2>2
<1>7. BatchHolds(s)'
    BY <1>6 DEF BatchHolds
<1>8. EditBuilds(s)'
    BY <1>3, <1>4, <1>5, <1>6 DEF EditBuilds, Asks
<1>9. Adds(s)' /\ SkipsCounted(s)'
    BY <1>4, <1>5 DEF Adds, ReadIsStaged, ReadIsWritten, GoneIsRemoved, EngineAdds, Asks, Filling,
                      Written, SkipsCounted
<1>10. ControlStep
    BY <1>6, SameControl
<1> QED BY <1>4, <1>7, <1>8, <1>9, <1>10, AllKept DEF Kept

LEMMA CatKept ==
    ASSUME StagingAssumption, Typed, KeptAll, NEW s \in Session, Cat(s), ~mixed', Typed'
    PROVE  KeptAll' /\ ControlStep
<1> USE DEF KeptAll
<1>a. AccountTypes /\ EngineTypes /\ VerbTypes
    BY DEF Typed, Types
<1>b. Kept(s)
    OBVIOUS
<1> DEFINE a == [Empty EXCEPT !.ctl = head[Ctl]]
<1>1. ServeStep(s) /\ Replies(s, a) /\ index' = index /\ batch' = batch /\ Request(s).op = "CAT"
      /\ door' = door
    BY ServeIsStep DEF Operates, Cat, Serves, repo, ServeStep
<1>2. head[Ctl] \in MaybeControl
    BY <1>a DEF EngineTypes, Trees
<1>3. a \in Answers
    BY <1>2, ControlAnswer
<1> HIDE DEF a
<1>4. /\ OneWaits' /\ \A t \in Others(s) : Kept(t)'
      /\ asked[s] # <<>> /\ asked'[s] = <<>> /\ Request(s).op \in OpsAt(pc[s]) /\ pc'[s] = pc[s]
      /\ Turn(s)'
    BY <1>1, <1>3, ServeEffect
<1>5. pc[s] = "cat"
    BY <1>a, <1>1, <1>4, OpPlace
<1>6. BatchHolds(s)'
    BY <1>b, <1>1 DEF BatchHolds, Kept
<1>7. EditBuilds(s)'
    BY <1>b, <1>1, <1>4, <1>5 DEF EditBuilds, Kept, Asks
<1>8. Adds(s)' /\ SkipsCounted(s)'
    BY <1>4, <1>5 DEF Adds, ReadIsStaged, ReadIsWritten, GoneIsRemoved, EngineAdds, Asks, Filling,
                      Written, SkipsCounted
<1>9. ControlStep
    BY <1>1, SameIndex
<1> QED BY <1>4, <1>6, <1>7, <1>8, <1>9, AllKept DEF Kept

LEMMA StageCtlKept ==
    ASSUME StagingAssumption, Typed, KeptAll, NEW s \in Session, StageCtl(s), ~mixed', Typed'
    PROVE  KeptAll' /\ ControlStep
<1> USE DEF KeptAll
<1>a. AccountTypes /\ EngineTypes /\ VerbTypes /\ WireTypes
    BY DEF Typed, Types
<1>b. Kept(s)
    OBVIOUS
<1>1. ServeStep(s) /\ Replies(s, Empty) /\ Settles(s) /\ Request(s).op = "STAGECTL"
    BY ServeIsStep DEF Operates, StageCtl, Serves
<1>2. /\ OneWaits' /\ \A t \in Others(s) : Kept(t)'
      /\ asked[s] # <<>> /\ asked'[s] = <<>> /\ Request(s).op \in OpsAt(pc[s]) /\ pc'[s] = pc[s]
      /\ Turn(s)'
    BY <1>1, EmptyTyped, ServeEffect
<1>3. pc'[s] = "call"
    BY <1>a, <1>1, <1>2, OpPlace
<1>4. ~batch[s].open /\ Grows(index[Ctl], Request(s).blob)
    BY <1>b, <1>1, <1>2 DEF Kept, EditBuilds, Asks
<1>5. ~batch'[s].open
    BY <1>b, <1>1, <1>4, SettledHolds DEF Kept
<1>6. index'[Ctl] = Request(s).blob /\ Request(s).blob \in Control
  <2>1. Settled(s) \in Trees
      BY <1>a, <1>1, SettledTyped
  <2> QED BY <1>a, <1>1, <1>2, <2>1, RequestTyped, ConstantsApart DEF StageCtl, Trees
<1>7. BatchHolds(s)'
    BY <1>5 DEF BatchHolds
<1>8. ControlStep
    BY <1>4, <1>6, ConstantsApart DEF ControlStep, Grows
<1> QED BY <1>2, <1>3, <1>7, <1>8, CallServed, AllKept DEF Kept

LEMMA CommitKept ==
    ASSUME StagingAssumption, Typed, KeptAll, NEW s \in Session, Commit(s), ~mixed', Typed'
    PROVE  KeptAll' /\ ControlStep
<1> USE DEF KeptAll
<1>a. VerbTypes
    BY DEF Typed, Types
<1>b. Kept(s)
    OBVIOUS
<1>1. ServeStep(s) /\ Replies(s, Empty) /\ index' = Settled(s) /\ Settles(s)
      /\ Request(s).op = "COMMIT" /\ door' = door
    BY ServeIsStep DEF Operates, Commit, Serves, Engine
<1>2. /\ OneWaits' /\ \A t \in Others(s) : Kept(t)'
      /\ asked[s] # <<>> /\ asked'[s] = <<>> /\ Request(s).op \in OpsAt(pc[s]) /\ pc'[s] = pc[s]
      /\ Turn(s)'
    BY <1>1, EmptyTyped, ServeEffect
<1>3. pc'[s] = "call"
    BY <1>a, <1>1, <1>2, OpPlace
<1>4. /\ Stays(index[Ctl], index'[Ctl])
      /\ batch'[s].open => batch'[s] = batch[s] /\ index' = index
      /\ ~batch[s].open => ~batch'[s].open
    BY <1>b, <1>1, SettledHolds DEF Kept
<1>5. BatchHolds(s)'
    BY <1>b, <1>1, <1>4 DEF BatchHolds, Kept
<1>6. ControlStep
    BY <1>4, SameControl
<1> QED BY <1>2, <1>3, <1>5, <1>6, CallServed, AllKept DEF Kept

LEMMA AddAllKept ==
    ASSUME StagingAssumption, Typed, KeptAll, NEW s \in Session, AddAll(s), ~mixed', Typed'
    PROVE  KeptAll' /\ ControlStep
<1> USE DEF KeptAll
<1>a. AccountTypes /\ EngineTypes /\ VerbTypes
    BY DEF Typed, Types
<1>b. Kept(s)
    OBVIOUS
<1>1. ServeStep(s) /\ Replies(s, Empty) /\ Request(s).op = "ADD" /\ batch' = batch /\ door' = door
    BY ServeIsStep DEF Operates, AddAll, Serves
<1>2. /\ OneWaits' /\ \A t \in Others(s) : Kept(t)'
      /\ asked[s] # <<>> /\ asked'[s] = <<>> /\ Request(s).op \in OpsAt(pc[s]) /\ pc'[s] = pc[s]
      /\ Turn(s)'
    BY <1>1, EmptyTyped, ServeEffect
<1>3. pc'[s] = "engine"
    BY <1>a, <1>1, <1>2, OpPlace
<1>4. Stays(index[Ctl], index'[Ctl])
  <2>1. [size |-> size, edits |-> {}] \in Control
      BY <1>a DEF AccountTypes, Control
  <2>2. index'[Ctl] = Sticky([size |-> size, edits |-> {}])
      BY DEF AddAll, Path
  <2> QED BY <2>1, <2>2, StickyStays
<1>5. \A r \in Rec \ Bad : index'[r] = seen'[s][r]
  <2>1. seen'[s] = live
      BY <1>a DEF AddAll, VerbTypes
  <2>2. \A r \in Rec \ Bad : index'[r] = live[r]
      BY ConstantsApart DEF AddAll
  <2> QED BY <2>1, <2>2
<1>6. BatchHolds(s)'
  <2>1. ~batch[s].open
      BY <1>b, <1>2, <1>3 DEF Typed, Places, BatchHolds, Kept
  <2> QED BY <1>1, <2>1 DEF BatchHolds
<1>7. EditBuilds(s)'
    BY <1>2, <1>3 DEF EditBuilds, Asks
<1>8. Adds(s)' /\ SkipsCounted(s)'
    BY <1>2, <1>3, <1>5 DEF Adds, ReadIsStaged, ReadIsWritten, GoneIsRemoved, EngineAdds, Asks, Filling,
                      Written, SkipsCounted
<1>9. ControlStep
    BY <1>4, SameControl
<1> QED BY <1>2, <1>6, <1>7, <1>8, <1>9, AllKept DEF Kept

\* A call that is answered in vain: what it was about is unread, and all else is
\* as it was.
LEMMA InVainKept ==
    ASSUME StagingAssumption, Typed, KeptAll, NEW s \in Session, InVain(s), ~mixed', Typed'
    PROVE  KeptAll' /\ ControlStep
<1> USE DEF KeptAll
<1>a. AccountTypes /\ EngineTypes /\ VerbTypes /\ WireTypes /\ Places
    BY DEF Typed, Types
<1>b. Kept(s)
    OBVIOUS
<1>1. ServeStep(s) /\ Replies(s, Empty)
      /\ Request(s).op \in {"STAGE", "STAGEBLOB", "RM", "STAGECTL", "ADD"}
    BY ServeIsStep DEF Operates, InVain, Serves
<1>2. /\ OneWaits' /\ \A t \in Others(s) : Kept(t)'
      /\ asked[s] # <<>> /\ asked'[s] = <<>> /\ Request(s).op \in OpsAt(pc[s]) /\ pc'[s] = pc[s]
      /\ Turn(s)' /\ ~Doomed(s) /\ ~Doomed(s)' /\ (door = "engine" => ~batch[s].open)
    BY <1>1, EmptyTyped, ServeEffect
<1>3. UNCHANGED <<door, list, told>>
    BY DEF InVain
<1>4. \A r \in Rec : seen'[s][r] = IF r = Request(s).path THEN Unread ELSE seen[s][r]
    BY <1>a, VainSeen
<1>5. /\ index' = Settled(s)
      /\ Settles(s) \/ (Request(s).op \in {"STAGE", "STAGEBLOB"} /\ batch'[s] = Begun(s))
    BY VainBatch
<1>6. Unread \notin Value /\ Unread # None
    BY ConstantsApart
<1>7. ~Asks(s, "STAGE")' /\ ~Asks(s, "STAGECTL")' /\ Pending(s)' = 0
    BY <1>2 DEF Asks, Pending
<1>8. CASE Request(s).op \in {"STAGE", "STAGEBLOB"}
  <2>1. pc[s] \in {"data", "control"} /\ door # "engine"
    <3>1. pc[s] \in {"data", "control"}
        BY <1>a, <1>2, <1>8 DEF OpsAt, VerbTypes, PCs
    <3> QED BY <1>a, <3>1 DEF Places
  <2>2. Request(s).op \notin EndsBatch
      BY <1>8 DEF EndsBatch, DaemonEnds, CallcEnds, EngineEnds, StagingAssumption, Typed, Types,
                  AccountTypes
  <2>3. index' = index
      BY <1>5, <2>2 DEF Settled
  <2>4. batch'[s] = batch[s] \/ batch'[s] = Begun(s)
      BY <1>5, <2>2 DEF Settles
  <2>5. /\ batch[s].open => batch'[s] = batch[s]
        /\ ~batch[s].open /\ batch'[s].open => batch'[s].tree = index /\ batch'[s].skipped = 0
      BY <1>a, <2>4, BatchTyped DEF Begun
  <2>6. BatchHolds(s)'
      BY <1>b, <1>3, <2>1, <2>3, <2>5 DEF Kept, BatchHolds, Stays
  <2>7. EditBuilds(s)' /\ ReadIsWritten(s)' /\ GoneIsRemoved(s)' /\ EngineAdds(s)'
      BY <1>2, <2>1 DEF EditBuilds, ReadIsWritten, GoneIsRemoved, EngineAdds, Asks, Written
  <2>8. ReadIsStaged(s)'
    <3>1. ASSUME NEW r \in Rec \ Bad, seen'[s][r] \in Value
          PROVE  batch'[s].open /\ batch'[s].tree[r] = seen'[s][r]
      <4>1. r # Request(s).path /\ seen'[s][r] = seen[s][r]
          BY <1>4, <1>6, <3>1
      <4>2. batch[s].open /\ batch[s].tree[r] = seen[s][r]
          BY <1>b, <1>2, <2>1, <3>1, <4>1 DEF Kept, Adds, ReadIsStaged, Filling
      <4> QED BY <2>5, <4>1, <4>2
    <3> QED BY <1>7, <3>1 DEF ReadIsStaged
  <2>9. SkipsCounted(s)'
    <3>1. SUFFICES ASSUME door = "daemon"
                   PROVE  Cardinality(LeftNow(s)') <= Skips(s)'
      <4>1. Skips(s)' \in Nat
          BY CountTypedNext
      <4> QED BY <1>2, <1>3, <1>7, <2>1, <4>1 DEF SkipsCounted
    <3>2. Cardinality(LeftNow(s)) <= Skips(s) + Pending(s)
        BY <1>b, <1>2, <2>1, <3>1 DEF Kept, SkipsCounted, Filling
    <3>3. Skips(s)' = Skips(s)
        BY <2>5 DEF Skips
    <3>4. Cardinality(LeftNow(s)') <= Cardinality(LeftNow(s)) /\ Cardinality(LeftNow(s)') \in Nat
        BY <1>4, LeftShrinks
    <3>5. CASE Pending(s) = 0
        BY <3>2, <3>3, <3>4, <3>5, CountTyped
    <3>6. CASE Pending(s) # 0
      <4>1. PICK p \in Bad : p = Request(s).path /\ Asks(s, "STAGE")
          BY <3>6 DEF Pending
      <4>2. p \in Rec /\ seen[s][p] \in Value
          BY <1>a, <1>b, <1>2, <4>1, RequestTyped, ConstantsApart
             DEF Kept, Adds, ReadIsStaged, Asks
      <4>3. p \in LeftNow(s)
          BY <1>6, <4>1, <4>2, ConstantsApart DEF LeftNow
      <4>4. LeftNow(s)' = LeftNow(s) \ {p}
          BY <1>4, <4>1, ConstantsApart DEF LeftNow
      <4>5. Cardinality(LeftNow(s) \ {p}) = Cardinality(LeftNow(s)) - 1
          BY <4>3, CountTyped, FS_RemoveElement
      <4>6. Pending(s) = 1
          BY <3>6 DEF Pending
      <4> QED BY <3>2, <3>3, <3>4, <4>4, <4>5, <4>6, CountTyped
    <3> QED BY <3>5, <3>6
  <2> QED BY <1>2, <2>3, <2>6, <2>7, <2>8, <2>9, SameIndex, AllKept DEF Kept, Adds
<1>9. CASE Request(s).op \in {"RM", "STAGECTL", "ADD"}
  <2>1. Settles(s)
      BY <1>5, <1>9
  <2>2. /\ Stays(index[Ctl], index'[Ctl])
        /\ batch'[s].open => batch'[s] = batch[s] /\ index' = index
        /\ ~batch[s].open => index' = index /\ ~batch'[s].open
      BY <1>b, <1>5, <2>1, SettledHolds DEF Kept
  <2>3. BatchHolds(s)'
      BY <1>b, <1>3, <2>2 DEF Kept, BatchHolds
  <2>4. ControlStep
      BY <2>2, SameControl
  <2>5. CASE pc[s] = "call"
      BY <1>2, <2>3, <2>4, <2>5, CallServed, AllKept DEF Kept
  <2>6. CASE pc[s] = "engine"
    <3>1. \A r \in Rec : r \notin Bad => seen'[s][r] = Unread
        BY <1>b, <1>2, <1>4, <2>6 DEF Kept, Adds, EngineAdds
    <3>2. EditBuilds(s)'
        BY <1>2, <1>7, <2>6 DEF EditBuilds
    <3>3. Adds(s)' /\ SkipsCounted(s)'
        BY <1>2, <1>7, <2>6, <3>1 DEF Adds, ReadIsStaged, ReadIsWritten, GoneIsRemoved, EngineAdds,
                               Filling, Written, SkipsCounted
    <3> QED BY <1>2, <2>3, <2>4, <3>2, <3>3, AllKept DEF Kept
  <2>7. CASE pc[s] = "reconcile"
    <3>1. ~batch[s].open /\ ~batch'[s].open /\ index' = index
        BY <1>b, <2>2, <2>7 DEF Kept, Adds, ReadIsWritten, Written
    <3>2. EditBuilds(s)' /\ ReadIsStaged(s)' /\ EngineAdds(s)'
        BY <1>2, <1>7, <2>7 DEF EditBuilds, ReadIsStaged, EngineAdds, Filling
    <3>3. ReadIsWritten(s)'
      <4>1. ASSUME NEW r \in Rec \ Bad, seen'[s][r] \in Value PROVE index'[r] = seen'[s][r]
          BY <1>b, <1>4, <1>6, <2>7, <3>1, <4>1 DEF Kept, Adds, ReadIsWritten, Written
      <4> QED BY <3>1, <4>1 DEF ReadIsWritten
    <3>4. GoneIsRemoved(s)'
      <4>1. ASSUME NEW r \in Rec \ Bad, seen'[s][r] = None
            PROVE  index'[r] = None \/ r \in list[s]
        <5>1. r # Request(s).path /\ seen[s][r] = None
            BY <1>4, <1>6, <4>1
        <5> QED BY <1>b, <2>7, <3>1, <5>1 DEF Kept, Adds, GoneIsRemoved
      <4> QED BY <1>2, <1>3, <2>7, <4>1 DEF GoneIsRemoved
    <3>5. SkipsCounted(s)'
      <4>1. Cardinality(LeftNow(s)') <= Cardinality(LeftNow(s)) /\ Cardinality(LeftNow(s)') \in Nat
          BY <1>4, LeftShrinks
      <4>2. told[s] \in Nat
          BY <1>a DEF VerbTypes
      <4>3. door = "daemon" => Cardinality(LeftNow(s)) <= told[s]
          BY <1>b, <2>7 DEF Kept, SkipsCounted
      <4> QED BY <1>2, <1>3, <2>7, <4>1, <4>2, <4>3, CountTyped DEF SkipsCounted, Filling
    <3> QED BY <1>2, <2>3, <2>4, <3>2, <3>3, <3>4, <3>5, AllKept DEF Kept, Adds
  <2> QED BY <1>a, <1>2, <1>9, <2>5, <2>6, <2>7, OpPlace
<1> QED BY <1>1, <1>8, <1>9

-----------------------------------------------------------------------------
(* Lemmas: connecting, leaving, dying, breaking off and logging out.        *)

\* A step of s that touches neither its wire nor its command, and leaves the
\* others be.
LEMMA AsideEffect ==
    ASSUME Typed, KeptAll, NEW s \in Session,
           UNCHANGED <<door, pc, list, told, wire>>,
           \A t \in Others(s) : batch'[t] = batch[t] /\ child'[t] = child[t] /\ seen'[t] = seen[t],
           \A t \in Others(s) : index' = index \/ ~Busy(t)
    PROVE  /\ OneWaits' /\ \A t \in Others(s) : Kept(t)'
           /\ Turn(s)' /\ Answer(s)' = Answer(s) /\ Request(s)' = Request(s)
<1> USE DEF KeptAll
<1>1. asked' = asked /\ channel' = channel /\ pipe' = pipe /\ wait' = wait
    BY DEF wire
<1>2. OneWaits'
    BY <1>1 DEF OneWaits
<1>3. ASSUME NEW t \in Others(s) PROVE Kept(t)'
  <2>1. t \in Session
      BY DEF Others
  <2>2. Unmoved(t)
      BY <1>1 DEF Unmoved
  <2> QED BY <2>1, <2>2, OthersKept
<1>4. Turn(s)'
  <2>1. Turn(s)
      BY DEF Kept
  <2> QED BY <1>1, <2>1 DEF Turn, Idle, Calling, Answering
<1> QED BY <1>1, <1>2, <1>3, <1>4 DEF Answer, Request

\* A batch that ends in vain: nothing the command found is claimed any more.
LEMMA EndInVainKept ==
    ASSUME StagingAssumption, Typed, KeptAll, NEW s \in Session, EndInVain(s), ~mixed', Typed'
    PROVE  KeptAll' /\ ControlStep
<1> USE DEF KeptAll
<1>a. AccountTypes /\ EngineTypes /\ VerbTypes /\ WireTypes /\ Places
    BY DEF Typed, Types
<1>b. Kept(s)
    OBVIOUS
<1>1. /\ ~batch'[s].open /\ index' = index /\ child' = child
      /\ UNCHANGED <<door, pc, list, told, wire>>
      /\ \A t \in Others(s) : batch'[t] = batch[t] /\ child'[t] = child[t] /\ seen'[t] = seen[t]
      /\ \A r \in Rec : seen'[s][r] = Unread
  <2>1. seen' = [seen EXCEPT ![s] = [r \in Rec |-> Unread]]
      BY EndInVainTyped
  <2>2. \A r \in Rec : seen'[s][r] = Unread
      BY <1>a, <2>1 DEF VerbTypes
  <2> QED BY <2>2, EndInVainTyped DEF repo
<1>2. /\ OneWaits' /\ \A t \in Others(s) : Kept(t)'
      /\ Turn(s)' /\ Answer(s)' = Answer(s) /\ Request(s)' = Request(s)
    BY <1>1, AsideEffect
<1>3. asked[s] # <<>> /\ Request(s).op \in EndsBatch /\ batch[s].open /\ asked' = asked /\ wait' = wait
    BY <1>1 DEF EndInVain, wire
<1>4. Request(s).op \in OpsAt(pc[s])
    BY <1>b, <1>3, TurnPlain DEF Kept
<1>5. pc[s] \notin {"data", "control", "reconcile", "ids", "cat"}
  <2>1. Request(s).op \in DaemonEnds \cup CallcEnds
      BY <1>3 DEF EndsBatch, EngineEnds, StagingAssumption, Typed, Types, AccountTypes
  <2>2. pc[s] \notin {"data", "control", "reconcile", "cat"}
      BY <1>4, <2>1 DEF OpsAt, DaemonEnds, CallcEnds
  <2>3. pc[s] # "ids"
      BY <1>b, <1>3 DEF Kept, Adds, ReadIsWritten, Written
  <2> QED BY <2>2, <2>3
<1>6. Unread \notin Value /\ Unread # None
    BY ConstantsApart
<1>7. ~Answered(s)' /\ ~Asks(s, "STAGE")'
  <2>1. "STAGE" \notin OpsAt(pc[s])
      BY <1>5 DEF OpsAt
  <2> QED BY <1>2, <1>3, <1>4, <2>1 DEF Answered, Asks
<1>8. BatchHolds(s)'
    BY <1>1 DEF BatchHolds
<1>9. EditBuilds(s)'
  <2>1. Asks(s, "STAGECTL")' => Asks(s, "STAGECTL")
      BY <1>2, <1>3 DEF Asks
  <2> QED BY <1>b, <1>1, <1>2, <1>5, <1>7, <2>1 DEF Kept, EditBuilds
<1>10. ReadIsStaged(s)' /\ EngineAdds(s)'
    BY <1>1, <1>6, <1>7 DEF ReadIsStaged, EngineAdds
<1>11. ReadIsWritten(s)' /\ GoneIsRemoved(s)'
    BY <1>1, <1>5, <1>6 DEF ReadIsWritten, GoneIsRemoved
<1>12. SkipsCounted(s)'
  <2>1. LeftNow(s)' = {}
      BY <1>1, ConstantsApart DEF LeftNow
  <2>2. Cardinality({}) = 0
      BY FS_EmptySet
  <2>3. Skips(s)' \in Nat /\ Pending(s)' \in Nat
      BY CountTypedNext
  <2> QED BY <1>1, <1>5, <1>7, <2>1, <2>2, <2>3 DEF SkipsCounted
<1> QED BY <1>1, <1>2, <1>8, <1>9, <1>10, <1>11, <1>12, SameIndex, AllKept DEF Kept, Adds

LEMMA ConnectKept ==
    ASSUME StagingAssumption, Typed, KeptAll, NEW s \in Session, Connect(s), ~mixed', Typed'
    PROVE  KeptAll' /\ ControlStep
<1> USE DEF KeptAll
<1>b. Kept(s)
    OBVIOUS
<1>1. /\ UNCHANGED <<door, index, batch, pc, list, seen, told, wire>>
      /\ child' = [child EXCEPT ![s] = "serving"] /\ child \in [Session -> {"none", "serving", "gone"}]
      /\ child[s] = "none"
    BY DEF Connect, repo, verb, Typed, Types, EngineTypes, Children
<1>2. \A t \in Others(s) : batch'[t] = batch[t] /\ child'[t] = child[t]
    BY <1>1 DEF Others
<1>3. /\ OneWaits' /\ \A t \in Others(s) : Kept(t)'
      /\ Turn(s)' /\ Answer(s)' = Answer(s) /\ Request(s)' = Request(s)
    BY <1>1, <1>2, AsideEffect
<1>4. asked' = asked /\ wait' = wait
    BY <1>1 DEF wire
<1>5. ~Doomed(s) /\ ~Doomed(s)'
    BY <1>1 DEF Doomed
<1>6. Answered(s)' = Answered(s) /\ Filling(s)' = Filling(s) /\ Written(s)' = Written(s)
      /\ LeftNow(s)' = LeftNow(s) /\ Skips(s)' = Skips(s)
    BY <1>1, <1>4 DEF Answered, Filling, Written, LeftNow, Skips
<1>7. \A op \in Ops : Asks(s, op)' = Asks(s, op)
    BY <1>3, <1>4 DEF Asks
<1>8. Pending(s)' = Pending(s)
    BY <1>3, <1>7 DEF Pending, Ops
<1>9. BatchHolds(s)' /\ EditBuilds(s)'
    BY <1>b, <1>1, <1>3, <1>6, <1>7 DEF Kept, BatchHolds, EditBuilds, Ops
<1>10. ReadIsStaged(s)'
    BY <1>b, <1>1, <1>3, <1>5, <1>6, <1>7 DEF Kept, Adds, ReadIsStaged, Ops
<1>11. ReadIsWritten(s)' /\ GoneIsRemoved(s)' /\ EngineAdds(s)'
    BY <1>b, <1>1, <1>3, <1>4, <1>6 DEF Kept, Adds, ReadIsWritten, GoneIsRemoved, EngineAdds
<1>12. SkipsCounted(s)'
    BY <1>b, <1>1, <1>3, <1>5, <1>6, <1>8 DEF Kept, SkipsCounted
<1>13. ControlStep
    BY <1>1, SameIndex
<1> QED BY <1>3, <1>9, <1>10, <1>11, <1>12, <1>13, AllKept DEF Kept, Adds

\* A child that goes, with or without writing its batch: what was in it
\* counts for nothing any more, and what was written stays.
LEMMA GoneKept ==
    ASSUME StagingAssumption, Typed, KeptAll, NEW s \in Session, ~mixed', Typed',
           UNCHANGED <<door, pc, list, seen, told, wire>>, child[s] = "serving",
           child' = [child EXCEPT ![s] = "gone"], batch' = Ended(s),
           index' = index \/ (index' = Flushed(s) /\ \A t \in Others(s) : index' = index \/ ~Busy(t))
    PROVE  KeptAll' /\ ControlStep
<1> USE DEF KeptAll
<1>b. Kept(s)
    OBVIOUS
<1>a. EngineTypes /\ VerbTypes /\ Children
    BY DEF Typed, Types
<1>1. ~batch'[s].open /\ \A t \in Others(s) : batch'[t] = batch[t] /\ child'[t] = child[t]
  <2>1. ~batch'[s].open /\ \A t \in Others(s) : batch'[t] = batch[t]
      BY <1>a, EndedTyped
  <2> QED BY <1>a, <2>1 DEF EngineTypes, Others
<1>2. /\ OneWaits' /\ \A t \in Others(s) : Kept(t)'
      /\ Turn(s)' /\ Answer(s)' = Answer(s) /\ Request(s)' = Request(s)
    BY <1>1, AsideEffect
<1>3. asked' = asked /\ wait' = wait
    BY DEF wire
<1>4. door = "daemon" /\ Doomed(s)'
    BY <1>a DEF Doomed, Children, EngineTypes
<1>5. /\ ~batch[s].open => index' = index
      /\ Stays(index[Ctl], index'[Ctl])
    BY <1>b DEF Flushed, Kept, BatchHolds, Stays
<1>6. Answered(s)' = Answered(s) /\ Filling(s)' = Filling(s) /\ Written(s)' = Written(s)
      /\ LeftNow(s)' = LeftNow(s)
    BY <1>3 DEF Answered, Filling, Written, LeftNow
<1>7. \A op \in Ops : Asks(s, op)' = Asks(s, op)
    BY <1>2, <1>3 DEF Asks
<1>8. BatchHolds(s)'
    BY <1>1 DEF BatchHolds
<1>9. EditBuilds(s)'
    BY <1>b, <1>1, <1>2, <1>5, <1>6, <1>7 DEF Kept, EditBuilds, Ops
<1>10. ReadIsStaged(s)'
    BY <1>b, <1>2, <1>4, <1>7 DEF Kept, Adds, ReadIsStaged, Ops
<1>11. ReadIsWritten(s)'
    BY <1>b, <1>1, <1>5, <1>6 DEF Kept, Adds, ReadIsWritten
<1>12. GoneIsRemoved(s)'
  <2>1. pc[s] \in {"ids", "reconcile"} => index' = index
      BY <1>b, <1>5 DEF Kept, Adds, ReadIsWritten, Written
  <2> QED BY <1>b, <1>2, <1>3, <1>6, <2>1 DEF Kept, Adds, GoneIsRemoved
<1>13. EngineAdds(s)'
  <2>1. pc[s] # "engine"
      BY <1>4 DEF Typed, Places
  <2> QED BY <2>1 DEF EngineAdds
<1>14. SkipsCounted(s)'
    BY <1>b, <1>2, <1>4, <1>6 DEF Kept, SkipsCounted
<1>15. ControlStep
    BY <1>5, SameControl
<1> QED BY <1>2, <1>8, <1>9, <1>10, <1>11, <1>12, <1>13, <1>14, <1>15, AllKept DEF Kept, Adds


LEMMA BreakKept ==
    ASSUME StagingAssumption, Typed, KeptAll, NEW s \in Session, Break(s), ~mixed', Typed'
    PROVE  KeptAll' /\ ControlStep
<1> USE DEF KeptAll
<1>b. Kept(s)
    OBVIOUS
<1>a. VerbTypes /\ WireTypes
    BY DEF Typed, Types
<1>1. UNCHANGED <<door, index, batch, child, seen, told, asked, channel>>
    BY DEF Break, repo, engine
<1>2. /\ pc' = [pc EXCEPT ![s] = "ready"] /\ list' = [list EXCEPT ![s] = {}]
      /\ wait' = [wait EXCEPT ![s] = FALSE]
      /\ pipe' = (IF door = "daemon" THEN pipe ELSE [pipe EXCEPT ![s] = <<>>])
    BY DEF Break, Go
<1>3. asked[s] = <<>> /\ pipe'[s] = <<>>
  <2>1. CASE door = "daemon"
    <3>1. ~wait[s]
        BY <2>1 DEF Break
    <3> QED BY <1>b, <1>2, <2>1, <3>1, TurnPlain DEF Kept
  <2>2. CASE door # "daemon"
      BY <1>a, <1>2, <2>2 DEF Break, WireTypes
  <2> QED BY <2>1, <2>2
<1>4. Resting(s)'
    BY <1>a, <1>1, <1>2, <1>3 DEF Resting, VerbTypes, WireTypes
<1>5. BatchHolds(s)'
    BY <1>b, <1>1 DEF BatchHolds, Kept
<1>6. ASSUME NEW t \in Others(s) PROVE Kept(t)' /\ wait'[t] = wait[t]
  <2>1. t \in Session /\ t # s
      BY DEF Others
  <2>2. pc'[t] = pc[t] /\ list'[t] = list[t] /\ wait'[t] = wait[t] /\ pipe'[t] = pipe[t]
      BY <1>a, <1>2, <2>1 DEF VerbTypes, WireTypes
  <2>3. Unmoved(t)
      BY <1>1, <2>2 DEF Unmoved
  <2> QED BY <2>1, <2>2, <2>3, OthersKept
<1>7. OneWaits'
  <2>1. \A t \in Session : wait'[t] => wait[t]
      BY <1>a, <1>2 DEF WireTypes
  <2> QED BY <1>1, <2>1 DEF OneWaits
<1>8. ControlStep
    BY <1>1, SameIndex
<1> QED BY <1>4, <1>5, <1>6, <1>7, <1>8, RestKeptNext, AllKept

LEMMA LogoutKept ==
    ASSUME StagingAssumption, Typed, KeptAll, NEW s \in Session, Logout(s), ~mixed', Typed'
    PROVE  KeptAll' /\ ControlStep
<1> USE DEF KeptAll
<1>b. Kept(s)
    OBVIOUS
<1>a. VerbTypes /\ WireTypes /\ EngineTypes
    BY DEF Typed, Types
<1>1. UNCHANGED <<door, index, child, seen, told, list, asked, channel, wait, pipe>>
    BY DEF Logout, repo, wire
<1>2. pc' = [pc EXCEPT ![s] = "out"] /\ pc[s] \in {"ready", "added"}
    BY DEF Logout, Go, Prompt
<1>3. batch'[s] = batch[s] \/ ~batch'[s].open
    BY <1>a, EndedTyped DEF Logout
<1>4. \A t \in Others(s) : batch'[t] = batch[t]
    BY <1>a, EndedTyped DEF Logout
<1>5. ~wait[s] /\ asked[s] = <<>> /\ pipe[s] = <<>>
    BY <1>b, <1>2, TurnPlain DEF Typed, Places, Kept
<1>6. Resting(s)'
    BY <1>a, <1>1, <1>2, <1>5 DEF Resting, VerbTypes
<1>7. BatchHolds(s)'
    BY <1>b, <1>1, <1>3 DEF BatchHolds, Kept
<1>8. ASSUME NEW t \in Others(s) PROVE Kept(t)'
  <2>1. t \in Session /\ t # s
      BY DEF Others
  <2>2. pc'[t] = pc[t]
      BY <1>a, <1>2, <2>1 DEF VerbTypes
  <2>3. Unmoved(t)
      BY <1>1, <1>4, <2>2 DEF Unmoved
  <2> QED BY <2>1, <2>3, OthersKept
<1>9. OneWaits'
    BY <1>1 DEF OneWaits
<1>10. ControlStep
    BY <1>1, SameIndex
<1> QED BY <1>6, <1>7, <1>8, <1>9, <1>10, RestKeptNext, AllKept

LEMMA LifeKept ==
    ASSUME StagingAssumption, Typed, KeptAll, NEW s \in Session, Life(s), ~mixed', Typed'
    PROVE  KeptAll' /\ ControlStep
<1>1. CASE Leave(s)
  <2>1. /\ UNCHANGED <<door, pc, list, seen, told, wire>> /\ child[s] = "serving"
        /\ child' = [child EXCEPT ![s] = "gone"] /\ batch' = Ended(s) /\ index' = Flushed(s)
      BY <1>1 DEF Leave, verb
  <2>2. \A t \in Others(s) : index' = index \/ ~Busy(t)
      BY <1>1 DEF Leave, Disturbs
  <2> QED BY <2>1, <2>2, GoneKept
<1>2. CASE Kill(s)
  <2>1. /\ UNCHANGED <<door, pc, list, seen, told, wire, index>> /\ child[s] = "serving"
        /\ child' = [child EXCEPT ![s] = "gone"] /\ batch' = Ended(s)
      BY <1>2 DEF Kill, verb, repo
  <2> QED BY <2>1, GoneKept
<1> QED BY <1>1, <1>2, ConnectKept, BreakKept, LogoutKept DEF Life

-----------------------------------------------------------------------------
(* The invariant.                                                           *)

LEMMA CommandsControl ==
    ASSUME NEW s \in Session, Add(s) \/ Command(s)
    PROVE  index' = index /\ (mixed => mixed')
<1>1. index' = index
  <2>1. CASE Add(s)
      BY <2>1 DEF Add, StartAdd, StageRecord, PassRecord, StageControl, FlushAdd, AskIds, TakeIds,
                  RemoveGone, KeepThere, FinishAdd, EngineAdd, repo
  <2>2. CASE Command(s)
      BY <2>2 DEF Command, OneCall, StartEdit, EditFromHead, StageEdit, FinishCall, repo
  <2> QED BY <2>1, <2>2
<1>2. mixed => mixed'
  <2>1. CASE Add(s)
      BY <2>1 DEF Add, StartAdd, StageRecord, PassRecord, StageControl, FlushAdd, AskIds, TakeIds,
                  RemoveGone, KeepThere, FinishAdd, EngineAdd, Ask, Read
  <2>2. CASE Command(s)
      BY <2>2 DEF Command, OneCall, StartEdit, EditFromHead, StageEdit, FinishCall, Ask, Read
  <2> QED BY <2>1, <2>2
<1> QED BY <1>1, <1>2

LEMMA MixedStays ==
    ASSUME StagingAssumption, Typed, [Next]_vars, mixed
    PROVE  mixed'
<1>1. CASE UNCHANGED vars
    BY <1>1 DEF vars
<1>2. CASE \E s \in Session : Add(s) \/ Command(s)
    BY <1>2, CommandsControl
<1>3. CASE \E s \in Session : Serve(s)
    BY <1>3, ServeIsStep, EndInVainTyped DEF Serve, Operates, ServeStep
<1>4. CASE \E s \in Session : Life(s)
    BY <1>4 DEF Life, Connect, Leave, Kill, Break, Logout
<1>5. CASE Resize \/ \E r \in Rec : ChangeRecord(r)
    BY <1>5 DEF Resize, ChangeRecord
<1> QED BY <1>1, <1>2, <1>3, <1>4, <1>5 DEF Next

\* The users, and a step that does nothing.
LEMMA NothingKept ==
    ASSUME Typed, KeptAll,
           UNCHANGED <<door, index, batch, child, pc, list, seen, told, wire>>
    PROVE  KeptAll' /\ ControlStep
<1> USE DEF KeptAll
<1>1. \A t \in Session : Unmoved(t)
    BY DEF Unmoved, wire
<1>2. OneWaits'
    BY DEF OneWaits, wire
<1> QED BY <1>1, <1>2, OthersKept, SameIndex

LEMMA StepKept ==
    ASSUME StagingAssumption, Typed, KeptAll, [Next]_vars, ~mixed', Typed'
    PROVE  KeptAll' /\ ControlStep
<1>1. CASE UNCHANGED vars
    BY <1>1, NothingKept DEF vars, repo, verb, wire, engine
<1>2. ASSUME NEW s \in Session, Add(s) PROVE KeptAll' /\ ControlStep
  <2>1. KeptAll'
      BY <1>2, StartAddKept, StageRecordKept, PassRecordKept, StageControlKept, FlushAddKept,
         AskIdsKept, TakeIdsKept, RemoveGoneKept, KeepThereKept, FinishAddKept, EngineAddKept DEF Add
  <2> QED BY <1>2, <2>1, CommandsControl, SameIndex
<1>3. ASSUME NEW s \in Session, Command(s) PROVE KeptAll' /\ ControlStep
  <2>1. KeptAll'
      BY <1>3, OneCallKept, StartEditKept, EditFromHeadKept, StageEditKept, FinishCallKept DEF Command
  <2> QED BY <1>3, <2>1, CommandsControl, SameIndex
<1>4. ASSUME NEW s \in Session, Serve(s) PROVE KeptAll' /\ ControlStep
  <2>1. CASE Stage(s)
    <3>1. index' = index
        BY <2>1 DEF Stage, repo
    <3> QED BY <2>1, <3>1, StageKept, SameIndex
  <2> QED BY <1>4, <2>1, FlushKept, LookKept, RmKept, IxCatKept, CatKept, StageCtlKept, CommitKept,
             AddAllKept, InVainKept, EndInVainKept DEF Serve
<1>5. ASSUME NEW s \in Session, Life(s) PROVE KeptAll' /\ ControlStep
    BY <1>5, LifeKept
<1>6. CASE Resize \/ \E r \in Rec : ChangeRecord(r)
    BY <1>6, NothingKept DEF Resize, ChangeRecord, repo, engine, verb
<1> QED BY <1>1, <1>2, <1>3, <1>4, <1>5, <1>6 DEF Next

LEMMA InitKept == ASSUME StagingAssumption, Init PROVE IInv
<1>1. Typed
    BY InitTyped
<1>2. OneWaits
    BY DEF Init, OneWaits
<1>3. ASSUME NEW s \in Session PROVE Kept(s)
  <2>1. Resting(s)
      BY DEF Init, Resting
  <2>2. BatchHolds(s)
      BY DEF Init, BatchHolds, Closed
  <2> QED BY <2>1, <2>2, RestKept
<1> QED BY <1>1, <1>2, <1>3 DEF IInv

LEMMA IInvNext == ASSUME StagingAssumption, IInv, [Next]_vars PROVE IInv'
<1>1. Typed'
    BY NextTyped DEF IInv
<1>2. ASSUME ~mixed' PROVE KeptAll'
  <2>1. ~mixed
      BY <1>2, MixedStays DEF IInv
  <2> QED BY <1>1, <1>2, <2>1, StepKept DEF IInv, KeptAll
<1> QED BY <1>1, <1>2 DEF IInv, KeptAll

LEMMA IInvHolds == ASSUME StagingAssumption PROVE Spec => []IInv
<1>1. Init => IInv
    BY InitKept
<1>2. IInv /\ [Next]_vars => IInv'
    BY IInvNext
<1> QED BY <1>1, <1>2, PTL DEF Spec

\* In turn, at most one request or answer is between the two.
LEMMA TurnIsStep ==
    ASSUME NEW s \in Session, Turn(s)
    PROVE  Len(asked[s]) + Len(pipe[s]) <= IF wait[s] THEN 1 ELSE 0
<1>0. Len(<<>>) = 0
    OBVIOUS
<1>1. CASE Idle(s)
    BY <1>0, <1>1 DEF Idle
<1>2. CASE Calling(s)
  <2>1. PICK q \in Requests : asked[s] = <<q>>
      BY <1>2 DEF Calling
  <2>2. Len(asked[s]) = 1
      BY <2>1
  <2> QED BY <1>0, <1>2, <2>2 DEF Calling
<1>3. CASE Answering(s)
  <2>1. PICK a \in Answers : pipe[s] = <<a>>
      BY <1>3 DEF Answering
  <2>2. Len(pipe[s]) = 1
      BY <2>1
  <2> QED BY <1>0, <1>3, <2>2 DEF Answering
<1> QED BY <1>1, <1>2, <1>3 DEF Turn

(***************************************************************************)
(* A session and its engine never fall out of step: between them there is  *)
(* at most the one request, or the one answer, of the call the session     *)
(* waits for (BP/GIT.RPC:85-175, src/gitd.c:505-535 and 600-694).  Only a  *)
(* command broken off inside a call, or two calls at once on UniData, can  *)
(* end that.                                                               *)
(***************************************************************************)
THEOREM CallsInStep == Spec => []InStep
<1> USE StagingAssumption
<1>1. IInv => InStep
  <2> SUFFICES ASSUME IInv, ~mixed, NEW s \in Session
               PROVE  Len(asked[s]) + Len(pipe[s]) <= IF wait[s] THEN 1 ELSE 0
      BY DEF InStep
  <2> QED BY TurnIsStep DEF IInv, Kept
<1> QED BY <1>1, IInvHolds, PTL

(***************************************************************************)
(* The control git has for a hash file changes by a deliberate edit only,  *)
(* which keeps the geometry and adds to the edits: no batch that lands     *)
(* later, no resize, removal, commit, failed write or end of a child takes *)
(* one back.  The one way out is a file that becomes a directory file,     *)
(* whose control takes the place of the hash file's                        *)
(* (src/mvxgit.c:7073-7115 and 7421-7477, BP/GIT.ATTR:244-262).            *)
(***************************************************************************)
THEOREM EditsAreKept == Spec => ControlKept
<1> USE StagingAssumption
<1>1. IInv /\ [Next]_vars =>
        [index[Ctl] # None /\ index[Ctl].size # Dir /\ ~mixed' =>
              /\ index'[Ctl] # None
              /\ \/ index'[Ctl].size = Dir
                 \/ /\ index'[Ctl].size = index[Ctl].size
                    /\ index[Ctl].edits \subseteq index'[Ctl].edits]_vars
  <2> SUFFICES ASSUME IInv, [Next]_vars, index[Ctl] # None, index[Ctl].size # Dir, ~mixed'
               PROVE  /\ index'[Ctl] # None
                      /\ \/ index'[Ctl].size = Dir
                         \/ /\ index'[Ctl].size = index[Ctl].size
                            /\ index[Ctl].edits \subseteq index'[Ctl].edits
      OBVIOUS
  <2>1. Typed /\ Typed' /\ ~mixed
      BY NextTyped, MixedStays DEF IInv
  <2>2. KeptAll
      BY <2>1 DEF IInv, KeptAll
  <2>3. ControlStep
      BY <2>1, <2>2, StepKept
  <2> QED BY <2>3 DEF ControlStep
<1> QED BY <1>1, IInvHolds, PTL DEF Spec, ControlKept

-----------------------------------------------------------------------------
(* The end of GIT ADD.                                                      *)

LEMMA EndsByAdding ==
    ASSUME StagingAssumption, Typed, [Next]_vars, NEW s \in Session, Ends(s)
    PROVE  FinishAdd(s) \/ (FinishCall(s) /\ pc[s] = "engine")
<1>a. pc \in [Session -> PCs] /\ pc' # pc /\ pc'[s] # pc[s] /\ pc'[s] = "added"
    BY DEF Typed, Types, VerbTypes, Ends
<1>1. CASE UNCHANGED vars
    BY <1>1, <1>a DEF vars, verb
<1>2. ASSUME NEW t \in Session, Add(t) PROVE FinishAdd(s)
  <2>1. CASE t = s
      BY <1>2, <1>a, <2>1 DEF Add, StartAdd, StageRecord, PassRecord, StageControl, FlushAdd, AskIds,
                              TakeIds, RemoveGone, KeepThere, EngineAdd, Go
  <2>2. CASE t # s
      BY <1>2, <1>a, <2>2 DEF Add, StartAdd, StageRecord, PassRecord, StageControl, FlushAdd, AskIds,
                              TakeIds, RemoveGone, KeepThere, EngineAdd, FinishAdd, Go
  <2> QED BY <2>1, <2>2
<1>3. ASSUME NEW t \in Session, Command(t) PROVE FinishCall(s) /\ pc[s] = "engine"
  <2>1. CASE t = s
      BY <1>3, <1>a, <2>1 DEF Command, OneCall, StartEdit, EditFromHead, StageEdit, FinishCall, Go
  <2>2. CASE t # s
      BY <1>3, <1>a, <2>2 DEF Command, OneCall, StartEdit, EditFromHead, StageEdit, FinishCall, Go
  <2> QED BY <2>1, <2>2
<1>4. ASSUME NEW t \in Session, Serve(t) PROVE FALSE
    BY <1>4, <1>a, ServeIsStep, EndInVainTyped DEF Serve, Operates, ServeStep
<1>5. ASSUME NEW t \in Session, Life(t) PROVE FALSE
    BY <1>5, <1>a DEF Life, Connect, Leave, Kill, Break, Logout, Go, verb
<1>6. CASE Resize \/ \E r \in Rec : ChangeRecord(r)
    BY <1>6, <1>a DEF Resize, ChangeRecord, verb
<1> QED BY <1>1, <1>2, <1>3, <1>4, <1>5, <1>6 DEF Next

LEMMA EndFacts ==
    ASSUME StagingAssumption, IInv, [Next]_vars, NEW s \in Session, Ends(s), ~mixed'
    PROVE  /\ Kept(s) /\ asked[s] = <<>> /\ index' = index /\ seen' = seen /\ told' = told
           /\ door' = door
           /\ (pc[s] = "reconcile" /\ list[s] = {}) \/ pc[s] = "engine"
<1>1. FinishAdd(s) \/ (FinishCall(s) /\ pc[s] = "engine")
    BY EndsByAdding DEF IInv
<1>2. Kept(s) /\ Typed
    BY MixedStays DEF IInv
<1>3. HasAnswer(s)
    BY <1>1 DEF FinishAdd, FinishCall, Read
<1>4. asked[s] = <<>>
    BY <1>2, <1>3, TurnPlain DEF Kept
<1> QED BY <1>1, <1>2, <1>4 DEF FinishAdd, FinishCall, Go, repo

(***************************************************************************)
(* GIT ADD that ends has done what it says: behind every door the index on *)
(* disk holds each record that is a git path as the command read it, and   *)
(* nothing under an id that had gone; no staged record is left in memory   *)
(* (BP/GIT.ADD:153-197 and 425-450, src/mvxgit.c:7187-7195; mv_git#41).    *)
(* Excepted is what a failed write of the repository lost (InVain,         *)
(* EndInVain), of which nobody is told.                                    *)
(***************************************************************************)
THEOREM AddsAreWhole == Spec => AddIsWhole
<1> USE StagingAssumption
<1>1. IInv /\ [Next]_vars =>
        [\A s \in Session : Ends(s) /\ ~mixed' =>
            \A r \in Rec \ Bad : seen'[s][r] # Unread => index'[r] = seen'[s][r]]_vars
  <2> SUFFICES ASSUME IInv, [Next]_vars, NEW s \in Session, Ends(s), ~mixed',
                      NEW r \in Rec \ Bad, seen'[s][r] # Unread
               PROVE  index'[r] = seen'[s][r]
      OBVIOUS
  <2>1. /\ Kept(s) /\ asked[s] = <<>> /\ index' = index /\ seen' = seen
        /\ (pc[s] = "reconcile" /\ list[s] = {}) \/ pc[s] = "engine"
      BY EndFacts
  <2>2. seen[s][r] \in Value \/ seen[s][r] = None
      BY <2>1 DEF IInv, Typed, Types, VerbTypes, Finds
  <2>3. CASE pc[s] = "engine"
      BY <2>1, <2>3 DEF Kept, Adds, EngineAdds
  <2>4. CASE pc[s] = "reconcile" /\ list[s] = {}
    <3>1. seen[s][r] \in Value => index[r] = seen[s][r]
        BY <2>1, <2>4 DEF Kept, Adds, ReadIsWritten, Written
    <3>2. seen[s][r] = None => index[r] = None
        BY <2>1, <2>4 DEF Kept, Adds, GoneIsRemoved
    <3> QED BY <2>1, <2>2, <3>1, <3>2
  <2> QED BY <2>1, <2>3, <2>4
<1> QED BY <1>1, IInvHolds, PTL DEF Spec, AddIsWhole

(***************************************************************************)
(* Through the daemon GIT ADD leaves no record out in silence: when it     *)
(* ends it has named at least as many as its batch could not hold, however *)
(* the records changed meanwhile (src/mvxgit.c:7172, src/gitd.c:277-291,   *)
(* BP/GIT.ADD:157-176).                                                    *)
(***************************************************************************)
THEOREM SkippedAreTold == Spec => SkippedTold
<1> USE StagingAssumption
<1>1. IInv /\ [Next]_vars =>
        [\A s \in Session : Ends(s) /\ door = "daemon" /\ ~mixed' =>
            told'[s] >= Cardinality(Left(s))]_vars
  <2> SUFFICES ASSUME IInv, [Next]_vars, NEW s \in Session, Ends(s), door = "daemon", ~mixed'
               PROVE  told'[s] >= Cardinality(Left(s))
      OBVIOUS
  <2>1. /\ Kept(s) /\ seen' = seen /\ told' = told
        /\ pc[s] = "reconcile" \/ pc[s] = "engine"
      BY EndFacts
  <2>2. pc[s] = "reconcile"
      BY <2>1 DEF IInv, Typed, Places
  <2>3. Left(s) = LeftNow(s)
      BY <2>1 DEF Left, LeftNow
  <2>4. Cardinality(LeftNow(s)) <= told[s]
      BY <2>1, <2>2 DEF Kept, SkipsCounted
  <2>5. Cardinality(LeftNow(s)) \in Nat /\ told[s] \in Nat
      BY CountTyped DEF IInv, Typed, Types, VerbTypes
  <2> QED BY <2>1, <2>3, <2>4, <2>5
<1> QED BY <1>1, IInvHolds, PTL DEF Spec, SkippedTold

=============================================================================
