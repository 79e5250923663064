---------------------------- MODULE AgentSession ----------------------------
(***************************************************************************)
(* Account I/O through a session: src/src/mvsession.c, which asks, and     *)
(* src/BP/GIT.AGENT, which runs in a session of the database and answers.  *)
(* The caller is the record backend of src/src/agent_rt.c; it has one call *)
(* out at a time.                                                          *)
(*                                                                         *)
(* The two ends share two FIFOs of frames and nothing else.  A session     *)
(* that has gone - it died, it idled out, or it is so slow that the        *)
(* deadline passes - is replaced: the old process is reaped or killed, a   *)
(* new one is started on new FIFOs, the files the caller opened are opened *)
(* again in order, so that the slots come out the same, and the request is *)
(* repeated, once.                                                         *)
(*                                                                         *)
(* A record is its file and its id; the content that matters is whose it   *)
(* is.  A file stands for a name with its part (data or dictionary).       *)
(***************************************************************************)
EXTENDS Naturals, Sequences

CONSTANTS
    Files, Ids,
    Nothing,       \* no file, no id
    Pool,          \* how many files the agent can have open (64)
    MaxOpens,      \* bound: how often the caller opens a file
    TooLarge,      \* the records, <<file, id>>, whose WRITE does not fit a pipe
    Rebuilds,      \* how many rebuilds in a row before the client gives up (3)
    Faults,        \* what can go wrong: a session dies, reaches its idle limit, or
                   \* is so late that the deadline passes
    MaxFaults,     \* bound: how often something does
    GoesOn         \* bound: whether the caller goes on after a call that came back closed

ASSUME ConstantsAssumption ==
    /\ Nothing \notin Files \cup Ids
    /\ TooLarge \subseteq Files \X Ids
    /\ Pool \in Nat /\ MaxOpens \in Nat /\ Rebuilds \in Nat
    /\ Faults \subseteq {"die", "idle", "late"} /\ MaxFaults \in Nat
    /\ GoesOn \in BOOLEAN

VARIABLES
    recs,        \* the account: the ids of every file
    exists,      \* the files that can be opened
    pc,          \* where the client is in mvs_call, reconnect and spawn
    call,        \* the caller's call, repeated when the session is replaced
    opens,       \* the files remembered for the replay
    replayed,    \* how many of them have been asked for again
    reconnects,  \* rebuilds since a call last came back with MVG_OK
    agent,       \* the session: its state, its open files, its select list
    req, rsp,    \* the two FIFOs
    slot,        \* the caller's: the slot it was given for a file, 0 for none
    dropping,    \* the caller's: it has begun to delete files
    faults,      \* how many faults are left
    \* Not the program's: what the caller saw of its last scan, how many sessions
    \* went while the present call was out, whether a call ever came back closed.
    scan, lost, refused

account == <<recs, exists>>
client  == <<pc, call, opens, replayed, reconnects>>
caller  == <<slot, dropping>>
seen    == <<scan, lost, refused>>
vars    == <<account, client, agent, req, rsp, caller, faults, seen>>

Ops == {"OPEN", "READ", "WRITE", "DELETE", "SELECT", "READNEXT", "FILELIST",
        "DELETEFILE", "CREATEFILE", "PING", "QUIT"}

Slots   == 0..Pool
Request == [op : Ops, slot : Slots, file : Files \cup {Nothing}, id : Ids \cup {Nothing}]
Reply   == [status : {"ok", "fail", "closed"}, slot : Slots,
            file : Files \cup {Nothing}, id : Ids \cup {Nothing}]

Ask(op, s, f, i) == [op |-> op, slot |-> s, file |-> f, id |-> i]
Plain(op)        == Ask(op, 0, Nothing, Nothing)
Say(st, s, f, i) == [status |-> st, slot |-> s, file |-> f, id |-> i]
Ok     == Say("ok", 0, Nothing, Nothing)
Failed == Say("fail", 0, Nothing, Nothing)
Closed == Say("closed", 0, Nothing, Nothing)

\* A session that has just been started, and one that is no more.
Fresh == [state |-> "up", open |-> <<>>, list |-> {}, answer |-> <<>>]
Gone  == [Fresh EXCEPT !.state = "gone"]

NoCall == Plain("PING")
\* files: whether the walk had the list of the account's files before it selected,
\* or has not had it, or asked for it within the scan.
NoScan == [due |-> {}, got |-> {}, end |-> "ended", cut |-> FALSE, files |-> "before"]

TypeOK ==
    /\ recs \in [Files -> SUBSET Ids] /\ exists \subseteq Files
    /\ pc \in {"closed", "connect", "idle", "first", "reap", "ping", "replay", "again",
               "quit", "over"}
    /\ call \in Request
    /\ opens \in Seq(Files) /\ Len(opens) <= MaxOpens
    /\ replayed \in 0..Len(opens)
    /\ reconnects \in 0..Rebuilds
    /\ agent \in [state : {"up", "leaving", "gone"}, open : Seq(Files),
                  list : SUBSET Ids, answer : Seq(Reply)]
    /\ Len(agent.open) <= Pool
    /\ req \in Seq(Request) /\ rsp \in Seq(Reply)
    /\ slot \in [Files -> Slots] /\ dropping \in BOOLEAN
    /\ faults \in 0..MaxFaults
    /\ scan \in [due : SUBSET Ids, got : SUBSET (Ids \cup {Nothing}), end : {"no", "ended", "failed"},
                 cut : BOOLEAN, files : {"before", "no", "within"}]
    /\ lost \in Nat /\ refused \in BOOLEAN

Init ==
    /\ exists \in SUBSET Files
    /\ recs \in [Files -> SUBSET Ids] /\ \A f \in Files \ exists : recs[f] = {}
    /\ pc = "closed" /\ call = NoCall
    /\ opens = <<>> /\ replayed = 0 /\ reconnects = 0
    /\ agent = Gone /\ req = <<>> /\ rsp = <<>>
    /\ slot = [f \in Files |-> 0] /\ dropping = FALSE
    /\ faults = MaxFaults
    /\ scan = NoScan /\ lost = 0 /\ refused = FALSE

-----------------------------------------------------------------------------
(* The agent: one request, one operation, one reply.                        *)

Asked(op) ==
    agent.state = "up" /\ agent.answer = <<>> /\ req # <<>> /\ Head(req).op = op

\* The agent takes the request and has reply a ready; its open files and its
\* select list become what is given.
Answers(a, open, list) ==
    /\ req' = Tail(req)
    /\ agent' = [agent EXCEPT !.answer = <<a>>, !.open = open, !.list = list]
    /\ UNCHANGED <<client, rsp, caller, faults, seen>>

Replies(a) == Answers(a, agent.open, agent.list)

Opened(q) == q.slot \in DOMAIN agent.open
SlotFile  == agent.open[Head(req).slot]

\* A file that is already open keeps its slot.
DoOpen ==
    /\ Asked("OPEN")
    /\ LET f    == Head(req).file
           held == {k \in DOMAIN agent.open : agent.open[k] = f}
           fits == f \in exists /\ Len(agent.open) < Pool
       IN  \/ \E k \in held : Replies(Say("ok", k, Nothing, Nothing))
           \/ /\ held = {} /\ fits
              /\ Answers(Say("ok", Len(agent.open) + 1, Nothing, Nothing),
                         Append(agent.open, f), agent.list)
           \/ held = {} /\ ~fits /\ Replies(Failed)
    /\ UNCHANGED account

\* The request is for the file in its slot; what file the caller means by it the
\* agent does not see.
DoRead ==
    /\ Asked("READ")
    /\ LET q == Head(req) IN
       Replies(IF Opened(q) /\ q.id \in recs[SlotFile] THEN Say("ok", 0, SlotFile, q.id)
               ELSE Failed)
    /\ UNCHANGED account

\* What WRITE and DELETE leave in the file of the slot.
Leaves(ids) ==
    /\ Replies(IF Opened(Head(req)) THEN Ok ELSE Failed)
    /\ recs' = IF Opened(Head(req)) THEN [recs EXCEPT ![SlotFile] = ids] ELSE recs
    /\ UNCHANGED exists

DoWrite  == Asked("WRITE") /\ Leaves(recs[SlotFile] \cup {Head(req).id})
DoDelete == Asked("DELETE") /\ Leaves(recs[SlotFile] \ {Head(req).id})

DoSelect ==
    /\ Asked("SELECT")
    /\ IF Opened(Head(req))
       THEN Answers(Ok, agent.open, recs[SlotFile])
       ELSE Replies(Failed)
    /\ UNCHANGED account

\* An empty body is the end of the list - or the answer when there is no list.
DoReadNext ==
    /\ Asked("READNEXT")
    /\ \/ agent.list = {} /\ Replies(Ok)
       \/ \E i \in agent.list :
             Answers(Say("ok", 0, Nothing, i), agent.open, agent.list \ {i})
    /\ UNCHANGED account

\* The file list is a scan of the VOC, on the one select list there is.
DoFileList == Asked("FILELIST") /\ Answers(Ok, agent.open, {}) /\ UNCHANGED account

DoCreateFile ==
    /\ Asked("CREATEFILE")
    /\ \/ Replies(Ok) /\ exists' = exists \cup {Head(req).file}
       \/ Head(req).file \notin exists /\ Replies(Failed) /\ UNCHANGED exists
    /\ UNCHANGED recs

DoDeleteFile ==
    /\ Asked("DELETEFILE")
    /\ \/ /\ Replies(Ok)
          /\ exists' = exists \ {Head(req).file}
          /\ recs' = [recs EXCEPT ![Head(req).file] = {}]
       \/ Head(req).file \in exists /\ Replies(Failed) /\ UNCHANGED account

DoPing == Asked("PING") /\ Replies(Ok) /\ UNCHANGED account

DoQuit ==
    /\ Asked("QUIT")
    /\ req' = Tail(req) /\ agent' = [agent EXCEPT !.state = "leaving", !.answer = <<Ok>>]
    /\ UNCHANGED <<account, client, rsp, caller, faults, seen>>

\* The reply goes out; after a QUIT or at the idle limit the session ends.
SendReply ==
    /\ agent.state # "gone" /\ agent.answer # <<>>
    /\ rsp' = rsp \o agent.answer
    /\ agent' = IF agent.state = "leaving" THEN Gone ELSE [agent EXCEPT !.answer = <<>>]
    /\ UNCHANGED <<account, client, req, caller, faults, seen>>

\* A frame has a header and a body: the agent may have read the next request and
\* not begun to carry it out.
MayHaveRead == agent.state = "up" /\ agent.answer = <<>> /\ req # <<>>

\* Something goes wrong.
Fault(kind) == kind \in Faults /\ faults > 0 /\ faults' = faults - 1

\* Nothing came for the whole idle limit: the agent says so before it goes.
IdleOut ==
    /\ Fault("idle") /\ agent.state = "up" /\ agent.answer = <<>> /\ req = <<>>
    /\ agent' = [agent EXCEPT !.state = "leaving", !.answer = <<Closed>>]
    /\ UNCHANGED <<account, client, req, rsp, caller, seen>>

Die ==
    /\ Fault("die") /\ agent.state # "gone"
    /\ agent' = Gone
    /\ \/ UNCHANGED req
       \/ MayHaveRead /\ req' = Tail(req)
    /\ UNCHANGED <<account, client, rsp, caller, seen>>

Agent ==
    \/ DoOpen \/ DoRead \/ DoWrite \/ DoDelete \/ DoSelect \/ DoReadNext
    \/ DoFileList \/ DoCreateFile \/ DoDeleteFile \/ DoPing \/ DoQuit \/ SendReply

-----------------------------------------------------------------------------
(* The client: one exchange, and the replacement of a session.              *)

\* A request that does not fit the pipe is written as the agent reads it, and
\* until all of it is written the client does nothing else (write_all).
Large(q) == q.op = "WRITE" /\ <<q.file, q.id>> \in TooLarge

Unwritten == req # <<>> /\ Large(req[Len(req)])

\* Mutated: a session that is gone is not noticed.
HearsFrames ==
    /\ ~Unwritten
    /\ rsp # <<>> /\ rsp' = Tail(rsp)
    /\ UNCHANGED faults

\* What a wait for a reply ends in: a frame, the end of the process, or the
\* deadline.  The write before it has none of the three.
Hears ==
    /\ Unwritten => MayHaveRead /\ Len(req) = 1 /\ rsp = <<>>
    /\ \/ rsp # <<>> /\ rsp' = Tail(rsp) /\ UNCHANGED faults
       \/ rsp = <<>> /\ agent.state = "gone" /\ UNCHANGED <<rsp, faults>>
       \/ rsp = <<>> /\ agent.state # "gone" /\ Fault("late") /\ UNCHANGED rsp

Heard == IF rsp # <<>> THEN Head(rsp) ELSE Closed

\* A session on new FIFOs, asked first whether it is there.
Spawn(to) ==
    /\ agent' = Fresh
    /\ req' = <<Plain("PING")>> /\ rsp' = <<>>
    /\ pc' = to

Connect ==
    /\ pc = "closed"
    /\ Spawn("connect")
    /\ UNCHANGED <<account, call, opens, replayed, reconnects, caller, faults, seen>>

\* No session, no command: mv_fatal.
Connected ==
    /\ pc = "connect"
    /\ Hears
    /\ IF Heard.status = "ok" THEN pc' = "idle" /\ UNCHANGED agent
                              ELSE pc' = "over" /\ agent' = Gone
    /\ UNCHANGED <<account, call, opens, replayed, reconnects, req, caller, seen>>

\* Call q is written to the pipe, or, if it is large, begins to be.
IssueIn(q, walk) ==
    /\ pc = "idle" /\ (GoesOn \/ ~refused)
    /\ pc' = "first" /\ call' = q /\ lost' = 0
    /\ req' = Append(req, q)
    /\ scan' = walk
    /\ UNCHANGED <<account, opens, replayed, reconnects, agent, rsp, slot, faults, refused>>

Issue(q) == IssueIn(q, IF scan.end = "no" THEN scan ELSE NoScan)

\* What the caller makes of reply r to its call (agent_rt.c).
Learns(r) ==
    /\ slot' = IF call.op = "OPEN" /\ r.status = "ok" /\ r.slot > 0
               THEN [slot EXCEPT ![call.file] = r.slot] ELSE slot
    /\ scan' = CASE call.op = "SELECT" ->
                        [scan EXCEPT !.due = recs[call.file], !.end = "no",
                                     !.cut = r.status # "ok"]
                 [] call.op = "READNEXT" /\ r.status # "ok" ->
                        [scan EXCEPT !.end = "failed"]
                 [] call.op = "READNEXT" /\ r = Ok -> [scan EXCEPT !.end = "ended"]
                 [] call.op = "READNEXT" /\ r.status = "ok" /\ r # Ok ->
                        [scan EXCEPT !.got = @ \cup {r.id}]
                 [] call.op = "DELETE" -> [scan EXCEPT !.due = @ \ {call.id}]
                 [] OTHER -> scan

\* Mutated: a file that could not be opened is remembered too.
ReturnRemembers(r) ==
    /\ pc' = "idle"
    /\ reconnects' = IF r.status = "ok" THEN 0 ELSE reconnects
    /\ opens' = IF call.op = "OPEN" THEN Append(opens, call.file) ELSE opens
    /\ refused' = (refused \/ r.status = "closed")
    /\ Learns(r)
    /\ call' = NoCall /\ replayed' = 0

\* mvs_call comes back with r.
Return(r) ==
    /\ pc' = "idle"
    /\ reconnects' = IF r.status = "ok" THEN 0 ELSE reconnects
    /\ opens' = IF call.op = "OPEN" /\ r.status = "ok" THEN Append(opens, call.file)
                ELSE opens
    /\ refused' = (refused \/ r.status = "closed")
    /\ Learns(r)
    /\ call' = NoCall /\ replayed' = 0

Loses == lost' = IF Heard.status = "closed" THEN lost + 1 ELSE lost

\* Mutated: rebuilds are not counted against the limit.
AnsweredAlways ==
    /\ pc = "first"
    /\ Hears /\ Loses
    /\ \/ Heard.status # "closed" /\ Return(Heard)
       \/ /\ Heard.status = "closed"
          /\ pc' = "reap" /\ reconnects' = reconnects + 1
          /\ UNCHANGED <<call, opens, replayed, slot, scan, refused>>
    /\ UNCHANGED <<account, agent, req, dropping>>

\* Mutated: a session that is merely late is asked again, not replaced.
AnsweredInPlace ==
    /\ pc = "first"
    /\ Hears /\ Loses
    /\ \/ (Heard.status # "closed" \/ reconnects >= Rebuilds) /\ Return(Heard) /\ UNCHANGED req
       \/ /\ Heard.status = "closed" /\ reconnects < Rebuilds
          /\ pc' = IF agent.state = "up" THEN "again" ELSE "reap"
          /\ req' = IF agent.state = "up" THEN Append(req, call) ELSE req
          /\ reconnects' = reconnects + 1
          /\ UNCHANGED <<call, opens, replayed, slot, scan, refused>>
    /\ UNCHANGED <<account, agent, dropping>>

\* The first attempt: an answer, a rebuild, or no more of them.
Answered ==
    /\ pc = "first"
    /\ Hears /\ Loses
    /\ \/ (Heard.status # "closed" \/ reconnects >= Rebuilds) /\ Return(Heard)
       \/ /\ Heard.status = "closed" /\ reconnects < Rebuilds
          /\ pc' = "reap" /\ reconnects' = reconnects + 1
          /\ UNCHANGED <<call, opens, replayed, slot, scan, refused>>
    /\ UNCHANGED <<account, agent, req, dropping>>

\* teardown and spawn: until it is reaped the old agent may still carry out a
\* request it had.
Rebuild ==
    /\ pc = "reap"
    /\ Spawn("ping")
    /\ replayed' = 0
    /\ scan' = [scan EXCEPT !.cut = @ \/ scan.end = "no"]
    /\ UNCHANGED <<account, call, opens, reconnects, caller, faults, lost, refused>>

\* Mutated: the last file opened is the first to be opened again.
NextToReplayLast == opens[Len(opens) - replayed]

NextToReplay == opens[replayed + 1]

\* Open the next remembered file, or repeat the call.
Resume ==
    IF replayed < Len(opens)
    THEN /\ pc' = "replay" /\ replayed' = replayed + 1
         /\ req' = Append(req, Ask("OPEN", 0, NextToReplay, Nothing))
    ELSE /\ pc' = "again" /\ UNCHANGED replayed
         /\ req' = Append(req, call)

\* A reply to PING or to an OPEN of the replay; whatever goes wrong ends the
\* call and leaves the new session as it is.
Replayed ==
    /\ pc \in {"ping", "replay"}
    /\ Hears /\ Loses
    /\ \/ /\ Heard.status = "ok" /\ Resume
          /\ UNCHANGED <<call, opens, reconnects, slot, scan, refused>>
       \/ Heard.status # "ok" /\ Return(Closed) /\ UNCHANGED req
    /\ UNCHANGED <<account, agent, dropping>>

\* The repeat is the last word.
Repeated ==
    /\ pc = "again"
    /\ Hears /\ Loses /\ Return(Heard)
    /\ UNCHANGED <<account, agent, req, dropping>>

\* mvs_close: ask, wait, and see to it that the session goes.
Close ==
    /\ pc = "idle"
    /\ pc' = "quit" /\ req' = Append(req, Plain("QUIT"))
    /\ UNCHANGED <<account, call, opens, replayed, reconnects, agent, rsp, caller, faults,
                   seen>>

Torn ==
    /\ pc = "quit"
    /\ Hears
    /\ pc' = "over" /\ agent' = Gone
    /\ UNCHANGED <<account, call, opens, replayed, reconnects, req, caller, seen>>

Client == Connect \/ Connected \/ Answered \/ Rebuild \/ Replayed \/ Repeated \/ Torn

-----------------------------------------------------------------------------
(* The engine's use of it.                                                  *)

Held(f) == slot[f] > 0 /\ ~dropping

OpenFile(f) ==
    /\ ~dropping /\ Len(opens) < MaxOpens
    /\ Issue(Ask("OPEN", 0, f, Nothing)) /\ UNCHANGED dropping

MakeFile(f) ==
    /\ ~dropping /\ slot[f] = 0 /\ f \notin exists
    /\ Issue(Ask("CREATEFILE", 0, f, Nothing)) /\ UNCHANGED dropping

OnRecord(op, f, i) ==
    /\ Held(f) /\ Issue(Ask(op, slot[f], f, i)) /\ UNCHANGED dropping

\* The walks of add have the file list before they select; that of status meets the
\* first question for it within the scan of the VOC, which it takes for a file
\* without asking, having forgotten the list when it began.
SelectFile(f) ==
    /\ Held(f) /\ scan.end # "no"
    /\ \E files \in {"before", "no"} :
          IssueIn(Ask("SELECT", slot[f], f, Nothing), [NoScan EXCEPT !.files = files])
    /\ UNCHANGED dropping

ReadNext == scan.end = "no" /\ Issue(Plain("READNEXT")) /\ UNCHANGED dropping

\* Mutated: the file list is asked for in the middle of every scan.
FileListAnytime == Issue(Plain("FILELIST")) /\ UNCHANGED dropping

\* The list is asked for once: before the scan, or within it by a walk that has not
\* had it.
FileList ==
    /\ \/ scan.end # "no" /\ Issue(Plain("FILELIST"))
       \/ /\ scan.end = "no" /\ scan.files = "no" /\ scan.got # {}
          /\ IssueIn(Plain("FILELIST"), [scan EXCEPT !.files = "within"])
    /\ UNCHANGED dropping

\* Deleting the files a commit lacks is the last a command does to the account.
DropFile(f) ==
    /\ scan.end # "no" /\ f \in exists
    /\ Issue(Ask("DELETEFILE", 0, f, Nothing)) /\ dropping' = TRUE

Engine ==
    \/ \E f \in Files : OpenFile(f) \/ MakeFile(f) \/ SelectFile(f) \/ DropFile(f)
    \/ \E f \in Files, i \in Ids, op \in {"READ", "WRITE", "DELETE"} : OnRecord(op, f, i)
    \/ ReadNext \/ FileList \/ Close

Next == Agent \/ IdleOut \/ Die \/ Client \/ Engine

Spec == Init /\ [][Next]_vars

\* The processes run; nobody is obliged to die, to be late or to ask.
Fairness == WF_vars(Agent) /\ WF_vars(Client)

FairSpec == Spec /\ Fairness

-----------------------------------------------------------------------------
(* What the caller relies on.                                               *)

\* A READ is answered, and answered with a record.
ReadComes == pc \in {"first", "again"} /\ pc' = "idle" /\ call.op = "READ" /\ Heard.status = "ok"

OwnRecord == Heard.file = call.file /\ Heard.id = call.id

\* A READ brings the record it names, of the file it names (mvs_call, the
\* replay of reconnect), however often the session was replaced meanwhile and
\* before, as long as no call has come back closed.
ReadIsOwn == [][ReadComes /\ ~refused => OwnRecord]_vars

\* A record changes only in the file the caller meant by the slot it named (the
\* slots of GIT.AGENT, which the replay of reconnect gives out again).
WritesLand == [][~refused => \A f \in Files : recs'[f] # recs[f] => f = Head(req).file]_vars

\* A scan that one session carried from the SELECT to the end of the list, for a
\* walk that primed the file list, has brought every record (DO.SELECT, DO.READNEXT,
\* backend_files_prime).
ScanWhole ==
    scan.end = "ended" /\ scan.files # "within" /\ ~scan.cut /\ ~refused
        => scan.due \subseteq scan.got

\* A session that has gone is not an error the caller has to know about
\* (mvs_call): a call comes back closed only when a second session went too, or
\* the limit of rebuilds was reached, or a file to be opened again was deleted.
RetryHides ==
    [][refused' /\ ~refused => lost' >= 2 \/ reconnects >= Rebuilds \/ dropping]_vars

\* Every call comes back (read_all's deadline and its look at the process), or is
\* stuck in the write of a request too large for the pipe, to a session that has
\* gone: the one wait that has neither (write_all).
CallReturns ==
    (pc \notin {"closed", "idle", "over"})
        ~> (pc \in {"idle", "over"} \/ (Unwritten /\ agent.state = "gone"))

=============================================================================
