------------------------ MODULE AgentSessionProofs ------------------------
(***************************************************************************)
(* Proofs about AgentSession, for every set of files and records, every    *)
(* pool, limit of rebuilds and number of faults.                           *)
(*                                                                         *)
(* The properties hold until a call has come back closed, and rest on one  *)
(* inductive invariant, IInv.  Its parts:                                  *)
(*   Turns         at most one request is out, it is the one pc says, and  *)
(*                 the first frame to be read is its reply or a goodbye;   *)
(*   SlotsInOrder  the slots the caller holds are those of the files it    *)
(*                 opened, numbered in the order they were first opened;   *)
(*   Session       a session that is up has the files opened so far, or    *)
(*                 replayed so far, in just those slots;                   *)
(*   AnswersRight  a reply on its way says what its request asked;         *)
(*   ListKept      what a scan still lacks is on the session's list.       *)
(* SlotsInOrder is what makes the replay give out the same slots again: a  *)
(* file that a session has not open, when it serves all files before it,   *)
(* can only be due the next slot (NextSlot).                               *)
(*                                                                         *)
(* Every action comes down to one of a few moves (Moves, NextMoves), and   *)
(* each part is shown to be kept by each move.                             *)
(***************************************************************************)
EXTENDS AgentSession, SequenceTheorems, TLAPS

-----------------------------------------------------------------------------
(* What the types leave unsaid: an operation on a file names a file, one on *)
(* a record names a record.                                                 *)

OnFiles   == {"OPEN", "READ", "WRITE", "DELETE", "SELECT", "DELETEFILE", "CREATEFILE"}
OnRecords == {"READ", "WRITE", "DELETE"}
BySlot    == {"READ", "WRITE", "DELETE", "SELECT"}

Meant == {q \in Request : /\ q.op \in OnFiles => q.file \in Files
                          /\ q.op \in OnRecords => q.id \in Ids}

Typed ==
    /\ TypeOK
    /\ req \in Seq(Meant) /\ call \in Meant
    /\ call.op = "OPEN" => Len(opens) < MaxOpens

\* What the engine means by the call it has out.
CallMeans(q, walk) ==
    /\ q.op \in BySlot => q.slot > 0 /\ q.slot = slot[q.file]
    /\ q.op = "DELETEFILE" => dropping
    /\ q.op = "FILELIST" => walk.end # "no" \/ walk.files = "within"
    /\ q.op = "READNEXT" => walk.end = "no"
    /\ q.op = "SELECT" => walk.end # "no" /\ walk.got = {} /\ ~walk.cut

CallIsMeant == CallMeans(call, scan)

\* The frames on their way to the client.
Frames == {rsp[k] : k \in DOMAIN rsp} \cup {agent.answer[k] : k \in DOMAIN agent.answer}
Up     == agent.state = "up"

\* The two ends take turns.
Turns ==
    /\ Len(agent.answer) <= 1
    /\ \A k \in DOMAIN rsp : k > 1 => rsp[k].status = "closed"
    /\ rsp # <<>> => \A k \in DOMAIN agent.answer : agent.answer[k].status = "closed"
    /\ Up => \A r \in Frames : r.status # "closed"
    /\ req # <<>> => Tail(req) = <<>> /\ \A r \in Frames : r.status = "closed"
    /\ pc = "idle" => req = <<>> /\ \A r \in Frames : r.status = "closed"
    /\ pc \in {"closed", "over"} => agent.state = "gone"
    /\ pc \in {"closed", "connect"} => opens = <<>>
    /\ pc = "ping" => replayed = 0
    /\ pc = "replay" => replayed > 0
    /\ req # <<>> =>
          /\ pc \in {"connect", "ping"} => Head(req).op = "PING"
          /\ pc = "quit" => Head(req).op = "QUIT"
          /\ pc = "replay" => Head(req).op = "OPEN" /\ Head(req).file = opens[replayed]
          /\ pc \in {"first", "reap", "again"} => Head(req) = call

\* The slots the caller holds are those the files were given in the order of opens:
\* every file of it has one, no two the same, none before those below it.
SlotsInOrder(sl, os) ==
    /\ \A i \in DOMAIN os : sl[os[i]] > 0
    /\ \A f \in Files : sl[f] > 0 => \E i \in DOMAIN os : os[i] = f
    /\ \A f, g \in Files : sl[f] = sl[g] /\ sl[f] > 0 => f = g
    /\ \A i \in DOMAIN os : \A s \in 1..sl[os[i]] : \E j \in 1..i : sl[os[j]] = s

\* A session that has opened the first k of os has them in those slots, and no others.
Serves(open, sl, os, k) ==
    /\ \A i \in 1..k : sl[os[i]] \in DOMAIN open /\ open[sl[os[i]]] = os[i]
    /\ \A s \in DOMAIN open : \E i \in 1..k : sl[os[i]] = s

\* A slot the next file can be given.
Fits(sl, os, f, p) ==
    /\ p > 0
    /\ sl[f] > 0 => sl[f] = p
    /\ \A g \in Files : sl[g] = p => g = f
    /\ \A s \in 1..(p - 1) : \E i \in DOMAIN os : sl[os[i]] = s

\* A session that serves all of os and has opened f in slot p on top.
ServesToo(open, sl, os, f, p) ==
    /\ \A i \in DOMAIN os : sl[os[i]] \in DOMAIN open /\ open[sl[os[i]]] = os[i]
    /\ p \in DOMAIN open /\ open[p] = f
    /\ \A s \in DOMAIN open : s = p \/ \E i \in DOMAIN os : sl[os[i]] = s

\* A call is out, or was when its session went.
Calling == pc \in {"first", "reap", "again"}
\* A scan of one session, for a walk that had the list of files.
Whole   == ~scan.cut /\ scan.files # "within"

\* The files to be opened again are there, until the caller begins to delete files.
FilesThere == ~dropping => \A i \in DOMAIN opens : opens[i] \in exists

\* What an answer to the call says.
Right(r) ==
    /\ call.op = "OPEN" /\ r.status = "ok" =>
          Fits(slot, opens, call.file, r.slot) /\ (dropping \/ call.file \in exists)
    /\ call.op = "READ" /\ r.status = "ok" => r.file = call.file /\ r.id = call.id
    /\ call.op = "READNEXT" /\ r = Ok /\ Whole => scan.due \subseteq scan.got
    /\ call.op = "READNEXT" => r.status # "fail"

\* Nothing but a deleted file makes a step of the replay fail.
AnswersRight ==
    /\ Calling => \A r \in Frames : r.status # "closed" => Right(r)
    /\ pc \in {"connect", "ping"} => \A r \in Frames : r.status # "fail"
    /\ pc = "replay" => \A r \in Frames : r.status = "fail" => dropping

\* What a session that is up has open, by where the client is.
Session ==
    Up => /\ pc \in {"connect", "idle", "quit"} => Serves(agent.open, slot, opens, Len(opens))
          /\ pc = "ping" => Serves(agent.open, slot, opens, 0)
          /\ pc = "replay" =>
                /\ req # <<>> => Serves(agent.open, slot, opens, replayed - 1)
                /\ \A r \in Frames : r.status = "ok" => Serves(agent.open, slot, opens, replayed)
          /\ Calling =>
                /\ req # <<>> => Serves(agent.open, slot, opens, Len(opens))
                /\ \A r \in Frames :
                      /\ call.op = "OPEN" /\ r.status = "ok" =>
                            ServesToo(agent.open, slot, opens, call.file, r.slot)
                      /\ call.op # "OPEN" \/ r.status # "ok" =>
                            Serves(agent.open, slot, opens, Len(opens))

\* Whatever is due and not yet brought is still on the session's list.
ListKept ==
    /\ pc \in {"closed", "connect", "ping", "replay", "again"} => scan.end # "no" \/ scan.cut
    /\ Up /\ Whole /\ scan.end = "no" =>
          /\ pc = "idle" => scan.due \subseteq scan.got \cup agent.list
          /\ pc \in {"first", "reap"} =>
                /\ req # <<>> => scan.due \subseteq scan.got \cup agent.list
                /\ \A r \in Frames :
                      /\ call.op = "READNEXT" =>
                            scan.due \subseteq scan.got \cup agent.list \cup {r.id}
                      /\ call.op # "READNEXT" => scan.due \subseteq scan.got \cup agent.list
    /\ Up /\ Calling /\ call.op = "SELECT" =>
          \A r \in Frames : r.status = "ok" => agent.list = recs[call.file]

\* While a call is tried again, a session has been lost under it.
LostCounted == pc \in {"reap", "ping", "replay", "again"} => lost > 0

IInv ==
    /\ Typed /\ CallIsMeant /\ LostCounted
    /\ ~refused => /\ Turns /\ SlotsInOrder(slot, opens) /\ FilesThere
                   /\ AnswersRight /\ Session /\ ListKept /\ ScanWhole

-----------------------------------------------------------------------------
(* The moves: what the actions come down to.                                *)

Agents == [state : {"up", "leaving", "gone"}, open : Seq(Files),
           list : SUBSET Ids, answer : Seq(Reply)]

\* An OPEN of f: the slot it has, the next slot, or none to be had.
OpensIt(f, a) ==
    /\ agent'.list = agent.list
    /\ \/ /\ a.status = "ok" /\ a.slot \in DOMAIN agent.open /\ agent.open[a.slot] = f
          /\ agent'.open = agent.open
       \/ /\ a.status = "ok" /\ a.slot = Len(agent.open) + 1
          /\ f \in exists /\ Len(agent.open) < Pool
          /\ \A k \in DOMAIN agent.open : agent.open[k] # f
          /\ agent'.open = Append(agent.open, f)
       \/ /\ a.status = "fail" /\ (f \notin exists \/ Len(agent.open) >= Pool)
          /\ \A k \in DOMAIN agent.open : agent.open[k] # f
          /\ agent'.open = agent.open

\* What an operation does and says, but for an OPEN.
Does(q, a) ==
    /\ q.op = "PING" => a.status = "ok"
    /\ q.op = "READ" /\ a.status = "ok" =>
          q.slot \in DOMAIN agent.open /\ a.file = agent.open[q.slot] /\ a.id = q.id
    /\ q.op = "SELECT" /\ a.status = "ok" =>
          q.slot \in DOMAIN agent.open /\ agent'.list = recs[agent.open[q.slot]]
    /\ q.op = "READNEXT" =>
          /\ a.status = "ok" /\ agent.list \subseteq agent'.list \cup {a.id}
          /\ a = Ok => agent.list = {}
    /\ q.op \notin {"SELECT", "READNEXT", "FILELIST"} => agent'.list = agent.list
    /\ q.op # "DELETEFILE" => exists \subseteq exists'
    /\ q.op \in {"WRITE", "DELETE"} =>
          \A f \in Files : recs'[f] # recs[f] =>
              q.slot \in DOMAIN agent.open /\ f = agent.open[q.slot]
    /\ q.op = "DELETEFILE" => \A f \in Files : f # q.file => recs'[f] = recs[f]
    /\ q.op \notin {"WRITE", "DELETE", "DELETEFILE"} => recs' = recs

\* The session takes a request and has reply a ready.
Takes(a) ==
    /\ Up /\ agent.answer = <<>> /\ req # <<>> /\ req' = Tail(req)
    /\ a \in Reply /\ a.status # "closed"
    /\ agent' \in Agents /\ agent'.answer = <<a>> /\ Len(agent'.open) <= Pool
    /\ recs' \in [Files -> SUBSET Ids] /\ exists' \subseteq Files
    /\ Head(req).op = "OPEN" => OpensIt(Head(req).file, a)
    /\ Head(req).op # "OPEN" => agent'.open = agent.open
    /\ Does(Head(req), a)
    /\ UNCHANGED <<client, rsp, caller, faults, seen>>

\* The session sends what it has, or goes, perhaps with a request it had read.
Fades ==
    /\ agent' \in Agents /\ rsp' \in Seq(Reply) /\ faults' \in 0..MaxFaults
    /\ agent.state # "gone"
    /\ Len(agent'.open) <= Pool
    /\ agent'.state = "up" => Up /\ agent'.open = agent.open /\ agent'.list = agent.list
    /\ \/ /\ agent.answer # <<>>
          /\ rsp' = rsp \o agent.answer /\ agent'.answer = <<>>
       \/ /\ agent.answer = <<>> /\ req = <<>> /\ rsp' = rsp
          /\ agent'.state # "up" /\ agent'.answer = <<Closed>>
       \/ rsp' = rsp /\ agent'.state # "up" /\ agent'.answer = <<>>
    /\ \/ req' = req
       \/ req # <<>> /\ req' = Tail(req) /\ agent'.state # "up"
    /\ UNCHANGED <<account, client, caller, seen>>

\* The caller makes call q.
Issues(q) ==
    /\ pc = "idle" /\ pc' = "first" /\ call' = q /\ lost' = 0
    /\ q \in Meant /\ (q.op = "OPEN" => Len(opens) < MaxOpens)
    /\ req' = Append(req, q)
    /\ q.op \in BySlot => q.slot > 0 /\ q.slot = slot[q.file]
    /\ dropping' \in BOOLEAN /\ (dropping => dropping')
    /\ q.op = "DELETEFILE" => dropping'
    /\ \/ /\ scan.end # "no" /\ scan'.end = "ended" /\ scan'.due = {} /\ scan'.got = {}
          /\ ~scan'.cut /\ q.op # "READNEXT"
          /\ scan' \in [due : SUBSET Ids, got : SUBSET (Ids \cup {Nothing}),
                        end : {"no", "ended", "failed"}, cut : BOOLEAN,
                        files : {"before", "no", "within"}]
       \/ scan.end = "no" /\ scan' = scan /\ q.op \notin {"SELECT", "FILELIST"}
       \/ /\ scan.end = "no" /\ scan' = [scan EXCEPT !.files = "within"]
          /\ q.op = "FILELIST"
    /\ UNCHANGED <<account, opens, replayed, reconnects, agent, rsp, slot, faults, refused>>

Closes ==
    /\ pc = "idle" /\ pc' = "quit" /\ req' = Append(req, Plain("QUIT"))
    /\ UNCHANGED <<account, call, opens, replayed, reconnects, agent, rsp, caller, faults,
                   seen>>

\* The call comes back with r.
Returns(r) ==
    /\ Hears /\ Loses /\ Return(r)
    /\ pc = "first" => Heard.status # "closed" \/ reconnects >= Rebuilds
    /\ \/ pc \in {"first", "again"} /\ r = Heard
       \/ pc \in {"ping", "replay"} /\ Heard.status # "ok" /\ r = Closed
    /\ UNCHANGED <<account, agent, req, dropping>>

\* A first attempt that fails.
Reaps ==
    /\ pc = "first" /\ Hears /\ Loses
    /\ Heard.status = "closed" /\ reconnects < Rebuilds
    /\ pc' = "reap" /\ reconnects' = reconnects + 1
    /\ UNCHANGED <<account, agent, req, dropping, call, opens, replayed, slot, scan, refused>>

\* The replay goes on, or the call is repeated.
Resumes ==
    /\ pc \in {"ping", "replay"} /\ Hears /\ Loses
    /\ Heard.status = "ok" /\ Resume
    /\ UNCHANGED <<account, agent, dropping, call, opens, reconnects, slot, scan, refused>>

\* The session is given up for good.
Ends ==
    /\ pc \in {"connect", "quit"} /\ Hears
    /\ pc' = "over" /\ agent' = Gone
    /\ UNCHANGED <<account, call, opens, replayed, reconnects, req, caller, seen>>

Begins ==
    /\ pc = "connect" /\ Hears /\ Heard.status = "ok"
    /\ pc' = "idle"
    /\ UNCHANGED <<account, agent, call, opens, replayed, reconnects, req, caller, seen>>

LEMMA GoneIs ==
    /\ Gone.state = "gone" /\ Gone.open = <<>> /\ Gone.list = {} /\ Gone.answer = <<>>
    /\ Fresh.state = "up" /\ Fresh.open = <<>> /\ Fresh.list = {} /\ Fresh.answer = <<>>
    /\ Gone \in Agents /\ Fresh \in Agents
<1>1. /\ Fresh \in Agents /\ Fresh.state = "up" /\ Fresh.open = <<>> /\ Fresh.list = {}
      /\ Fresh.answer = <<>>
  BY DEF Fresh, Agents
<1>2. PICK e : e = Fresh
  OBVIOUS
<1>3. PICK g : g = [e EXCEPT !.state = "gone"]
  OBVIOUS
<1>4. Gone = g
  BY <1>2, <1>3 DEF Gone
<1>5. g \in Agents /\ g.state = "gone" /\ g.open = e.open /\ g.list = e.list /\ g.answer = e.answer
  BY <1>1, <1>2, <1>3 DEF Agents
<1> QED
  BY <1>1, <1>2, <1>4, <1>5

LEMMA RepliesAreReplies ==
    /\ Ok \in Reply /\ Failed \in Reply /\ Closed \in Reply
    /\ Ok.status = "ok" /\ Failed.status = "fail" /\ Closed.status = "closed"
    /\ Ok.slot = 0 /\ Ok.id = Nothing
BY ConstantsAssumption DEF Ok, Failed, Closed, Say, Reply, Slots

LEMMA TypesUnfolded ==
    ASSUME Typed
    PROVE  /\ agent \in Agents /\ req \in Seq(Meant) /\ rsp \in Seq(Reply)
           /\ Len(agent.open) <= Pool /\ call \in Meant
           /\ recs \in [Files -> SUBSET Ids] /\ exists \subseteq Files
           /\ opens \in Seq(Files) /\ replayed \in 0..Len(opens)
           /\ slot \in [Files -> Slots] /\ scan.due \in SUBSET Ids
           /\ faults \in 0..MaxFaults /\ dropping \in BOOLEAN /\ refused \in BOOLEAN
           /\ agent.open \in Seq(Files) /\ agent.list \in SUBSET Ids
           /\ agent.answer \in Seq(Reply)
<1>1. TypeOK /\ req \in Seq(Meant) /\ call \in Meant
  BY DEF Typed
<1>2. agent \in Agents
  BY <1>1 DEF TypeOK, Agents
<1> QED
  BY <1>1, <1>2 DEF TypeOK, Agents

LEMMA AnswersGive ==
    ASSUME Typed, NEW op \in Ops, Asked(op), NEW a \in Reply, NEW open \in Seq(Files),
           NEW list \in SUBSET Ids, Answers(a, open, list)
    PROVE  /\ Up /\ agent.answer = <<>> /\ req # <<>> /\ req' = Tail(req)
           /\ Head(req).op = op /\ Head(req) \in Meant
           /\ agent' \in Agents /\ agent'.answer = <<a>> /\ agent'.open = open
           /\ agent'.list = list
           /\ UNCHANGED <<client, rsp, caller, faults, seen>>
<1>1. agent \in Agents /\ req \in Seq(Meant)
  BY TypesUnfolded
<1>2. agent' = [agent EXCEPT !.answer = <<a>>, !.open = open, !.list = list]
  BY DEF Answers
<1>3. PICK k : k = [agent EXCEPT !.answer = <<a>>, !.open = open, !.list = list]
  OBVIOUS
<1>6. PICK w : w = <<a>>
  OBVIOUS
<1>9. w \in Seq(Reply)
  BY <1>6
<1>7. k = [agent EXCEPT !.answer = w, !.open = open, !.list = list]
  BY <1>3, <1>6
<1>8. k \in Agents /\ k.answer = w /\ k.open = open /\ k.list = list
  BY <1>1, <1>9, <1>7 DEF Agents
<1>4. k \in Agents /\ k.answer = <<a>> /\ k.open = open /\ k.list = list
  BY <1>6, <1>8
<1>5. Head(req) \in Meant
  BY <1>1 DEF Asked
<1> QED
  BY <1>2, <1>3, <1>4, <1>5 DEF Answers, Asked, Up

LEMMA OpenMoves ==
    ASSUME Typed, DoOpen
    PROVE  \E a \in Reply : Takes(a)
<1> USE TypesUnfolded
<1>1. PICK op : op = "OPEN"
  OBVIOUS
<1>2. op \in Ops /\ Asked(op) /\ Head(req) \in Meant /\ Head(req).op = "OPEN"
  BY <1>1 DEF DoOpen, Ops, Asked
<1> DEFINE f == Head(req).file
           held == {k \in DOMAIN agent.open : agent.open[k] = f}
<1>3. f \in Files /\ Pool \in Nat /\ UNCHANGED account
  BY <1>2, ConstantsAssumption DEF Meant, OnFiles, DoOpen
<1>4. CASE \E k \in held : Replies(Say("ok", k, Nothing, Nothing))
  <2>1. PICK k \in held : Replies(Say("ok", k, Nothing, Nothing))
    BY <1>4
  <2>2. PICK a : a = Say("ok", k, Nothing, Nothing)
    OBVIOUS
  <2>3. a \in Reply /\ a.status = "ok" /\ a.slot = k
    BY <2>2, <1>3 DEF Say, Reply, Slots
  <2>4. Answers(a, agent.open, agent.list)
    BY <2>1, <2>2 DEF Replies
  <2>5. /\ Up /\ agent.answer = <<>> /\ req # <<>> /\ req' = Tail(req)
        /\ agent' \in Agents /\ agent'.answer = <<a>> /\ agent'.open = agent.open
        /\ agent'.list = agent.list
        /\ UNCHANGED <<client, rsp, caller, faults, seen>>
    BY <1>2, <2>3, <2>4, AnswersGive
  <2>6. Takes(a)
    BY <1>2, <1>3, <2>3, <2>5 DEF Takes, Does, OpensIt, account
  <2> QED
    BY <2>3, <2>6
<1>5. CASE /\ held = {} /\ f \in exists /\ Len(agent.open) < Pool
           /\ Answers(Say("ok", Len(agent.open) + 1, Nothing, Nothing),
                      Append(agent.open, f), agent.list)
  <2>2. PICK a : a = Say("ok", Len(agent.open) + 1, Nothing, Nothing)
    OBVIOUS
  <2>3. a \in Reply /\ a.status = "ok" /\ a.slot = Len(agent.open) + 1
    BY <2>2, <1>3, <1>5 DEF Say, Reply, Slots
  <2>4. Append(agent.open, f) \in Seq(Files) /\ Len(Append(agent.open, f)) <= Pool
    BY <1>3, <1>5
  <2>1. PICK open : open = Append(agent.open, f) /\ open \in Seq(Files)
    BY <2>4
  <2>7. Answers(a, open, agent.list)
    BY <1>5, <2>1, <2>2
  <2>8. open \in Seq(Files)
    BY <2>1
  <2>5. /\ Up /\ agent.answer = <<>> /\ req # <<>> /\ req' = Tail(req)
        /\ agent' \in Agents /\ agent'.answer = <<a>>
        /\ agent'.open = open /\ agent'.list = agent.list
        /\ UNCHANGED <<client, rsp, caller, faults, seen>>
    BY <1>2, <2>8, <2>3, <2>7, AnswersGive
  <2>6. Takes(a)
    BY <1>2, <1>3, <1>5, <2>1, <2>3, <2>4, <2>5 DEF Takes, Does, OpensIt, account
  <2> QED
    BY <2>3, <2>6
<1>6. CASE held = {} /\ ~(f \in exists /\ Len(agent.open) < Pool) /\ Replies(Failed)
  <2>4. Answers(Failed, agent.open, agent.list)
    BY <1>6 DEF Replies
  <2>5. /\ Up /\ agent.answer = <<>> /\ req # <<>> /\ req' = Tail(req)
        /\ agent' \in Agents /\ agent'.answer = <<Failed>> /\ agent'.open = agent.open
        /\ agent'.list = agent.list
        /\ UNCHANGED <<client, rsp, caller, faults, seen>>
    BY <1>2, <2>4, AnswersGive, RepliesAreReplies
  <2>6. Takes(Failed)
    BY <1>2, <1>3, <1>6, <2>5, RepliesAreReplies DEF Takes, Does, OpensIt, account
  <2> QED
    BY <2>6, RepliesAreReplies
<1> QED
  BY <1>4, <1>5, <1>6 DEF DoOpen


LEMMA ReadMoves ==
    ASSUME Typed, DoRead
    PROVE  \E a \in Reply : Takes(a)
<1> USE TypesUnfolded
<1>1. PICK op : op = "READ"
  OBVIOUS
<1>2. op \in Ops /\ Asked(op) /\ Head(req) \in Meant /\ Head(req).op = "READ"
  BY <1>1 DEF DoRead, Ops, Asked
<1> DEFINE q == Head(req)
<1>3. q.file \in Files /\ q.id \in Ids /\ UNCHANGED account
  BY <1>2 DEF Meant, OnFiles, OnRecords, DoRead
<1>4. PICK a : a = IF Opened(q) /\ q.id \in recs[SlotFile] THEN Say("ok", 0, SlotFile, q.id)
                   ELSE Failed
  OBVIOUS
<1>7. /\ a \in Reply /\ a.status # "closed"
      /\ a.status = "ok" =>
            q.slot \in DOMAIN agent.open /\ a.file = agent.open[q.slot] /\ a.id = q.id
  <2>1. CASE Opened(q) /\ q.id \in recs[SlotFile]
    <3>1. SlotFile \in Files /\ SlotFile = agent.open[q.slot]
      BY <2>1 DEF Opened, SlotFile
    <3>2. a \in Reply /\ a.status = "ok" /\ a.file = SlotFile /\ a.id = q.id
      BY <1>3, <1>4, <2>1, <3>1, ConstantsAssumption DEF Say, Reply, Slots
    <3> QED
      BY <2>1, <3>1, <3>2 DEF Opened
  <2>2. CASE ~(Opened(q) /\ q.id \in recs[SlotFile])
    BY <1>4, <2>2, RepliesAreReplies
  <2> QED
    BY <2>1, <2>2
<1>8. Answers(a, agent.open, agent.list)
  BY <1>4 DEF DoRead, Replies
<1>9. /\ Up /\ agent.answer = <<>> /\ req # <<>> /\ req' = Tail(req)
      /\ agent' \in Agents /\ agent'.answer = <<a>> /\ agent'.open = agent.open
      /\ agent'.list = agent.list
      /\ UNCHANGED <<client, rsp, caller, faults, seen>>
  BY <1>2, <1>7, <1>8, AnswersGive
<1>10. Takes(a)
  BY <1>2, <1>3, <1>7, <1>9 DEF Takes, Does, account
<1> QED
  BY <1>7, <1>10

\* WRITE and DELETE change the file of the slot, and no other.
LEMMA LeavesMoves ==
    ASSUME Typed, NEW op \in {"WRITE", "DELETE"}, Asked(op), NEW ids,
           Opened(Head(req)) => ids \in SUBSET Ids, Leaves(ids)
    PROVE  \E a \in Reply : Takes(a)
<1> USE TypesUnfolded
<1>2. op \in Ops /\ Head(req) \in Meant /\ Head(req).op = op
  BY DEF Ops, Asked
<1> DEFINE q == Head(req)
<1>3. q.file \in Files /\ q.id \in Ids /\ UNCHANGED exists
  BY <1>2 DEF Meant, OnFiles, OnRecords, Leaves
<1>4. PICK a : a = IF Opened(q) THEN Ok ELSE Failed
  OBVIOUS
<1>5. a \in Reply /\ a.status # "closed"
  BY <1>4, RepliesAreReplies
<1>6. Answers(a, agent.open, agent.list)
  BY <1>4 DEF Leaves, Replies
<1>7. /\ Up /\ agent.answer = <<>> /\ req # <<>> /\ req' = Tail(req)
      /\ agent' \in Agents /\ agent'.answer = <<a>> /\ agent'.open = agent.open
      /\ agent'.list = agent.list
      /\ UNCHANGED <<client, rsp, caller, faults, seen>>
  BY <1>2, <1>5, <1>6, AnswersGive
<1>8. /\ recs' \in [Files -> SUBSET Ids]
      /\ \A f \in Files : recs'[f] # recs[f] =>
            q.slot \in DOMAIN agent.open /\ f = agent.open[q.slot]
  <2>1. CASE Opened(q)
    <3>1. SlotFile \in Files /\ SlotFile = agent.open[q.slot]
      BY <2>1 DEF Opened, SlotFile
    <3>2. recs' = [recs EXCEPT ![SlotFile] = ids]
      BY <2>1 DEF Leaves
    <3> QED
      BY <2>1, <3>1, <3>2 DEF Opened
  <2>2. CASE ~Opened(q)
    BY <2>2 DEF Leaves
  <2> QED
    BY <2>1, <2>2
<1>9. Takes(a)
  BY <1>2, <1>3, <1>5, <1>7, <1>8 DEF Takes, Does
<1> QED
  BY <1>5, <1>9

LEMMA WriteMoves ==
    ASSUME Typed, DoWrite \/ DoDelete
    PROVE  \E a \in Reply : Takes(a)
<1> USE TypesUnfolded
<1>1. CASE DoWrite
  <2>1. PICK op \in {"WRITE", "DELETE"} : op = "WRITE"
    OBVIOUS
  <2>2. Asked(op) /\ Leaves(recs[SlotFile] \cup {Head(req).id})
    BY <1>1, <2>1 DEF DoWrite
  <2>3. Head(req).id \in Ids
    BY <2>2 DEF Asked, Meant, OnRecords
  <2>4. Opened(Head(req)) => recs[SlotFile] \cup {Head(req).id} \in SUBSET Ids
    BY <2>3 DEF Opened, SlotFile
  <2> QED
    BY <2>2, <2>4, LeavesMoves
<1>2. CASE DoDelete
  <2>1. PICK op \in {"WRITE", "DELETE"} : op = "DELETE"
    OBVIOUS
  <2>2. Asked(op) /\ Leaves(recs[SlotFile] \ {Head(req).id})
    BY <1>2, <2>1 DEF DoDelete
  <2>4. Opened(Head(req)) => recs[SlotFile] \ {Head(req).id} \in SUBSET Ids
    BY DEF Opened, SlotFile
  <2> QED
    BY <2>2, <2>4, LeavesMoves
<1> QED
  BY <1>1, <1>2


LEMMA SelectMoves ==
    ASSUME Typed, DoSelect
    PROVE  \E a \in Reply : Takes(a)
<1> USE TypesUnfolded
<1>1. PICK op : op = "SELECT"
  OBVIOUS
<1>2. op \in Ops /\ Asked(op) /\ Head(req) \in Meant /\ Head(req).op = "SELECT"
  BY <1>1 DEF DoSelect, Ops, Asked
<1>3. UNCHANGED account
  BY DEF DoSelect
<1>4. CASE Opened(Head(req))
  <2>1. SlotFile \in Files /\ SlotFile = agent.open[Head(req).slot]
    BY <1>4 DEF Opened, SlotFile
  <2>2. Answers(Ok, agent.open, recs[SlotFile]) /\ recs[SlotFile] \in SUBSET Ids
    BY <1>4, <2>1 DEF DoSelect
  <2>3. /\ Up /\ agent.answer = <<>> /\ req # <<>> /\ req' = Tail(req)
        /\ agent' \in Agents /\ agent'.answer = <<Ok>> /\ agent'.open = agent.open
        /\ agent'.list = recs[SlotFile]
        /\ UNCHANGED <<client, rsp, caller, faults, seen>>
    BY <1>2, <2>2, AnswersGive, RepliesAreReplies
  <2>4. Takes(Ok)
    BY <1>2, <1>3, <1>4, <2>1, <2>3, RepliesAreReplies DEF Takes, Does, Opened, account
  <2> QED
    BY <2>4, RepliesAreReplies
<1>5. CASE ~Opened(Head(req))
  <2>2. Answers(Failed, agent.open, agent.list)
    BY <1>5 DEF DoSelect, Replies
  <2>3. /\ Up /\ agent.answer = <<>> /\ req # <<>> /\ req' = Tail(req)
        /\ agent' \in Agents /\ agent'.answer = <<Failed>> /\ agent'.open = agent.open
        /\ agent'.list = agent.list
        /\ UNCHANGED <<client, rsp, caller, faults, seen>>
    BY <1>2, <2>2, AnswersGive, RepliesAreReplies
  <2>4. Takes(Failed)
    BY <1>2, <1>3, <2>3, RepliesAreReplies DEF Takes, Does, account
  <2> QED
    BY <2>4, RepliesAreReplies
<1> QED
  BY <1>4, <1>5

LEMMA ReadNextMoves ==
    ASSUME Typed, DoReadNext
    PROVE  \E a \in Reply : Takes(a)
<1> USE TypesUnfolded
<1>1. PICK op : op = "READNEXT"
  OBVIOUS
<1>2. op \in Ops /\ Asked(op) /\ Head(req) \in Meant /\ Head(req).op = "READNEXT"
  BY <1>1 DEF DoReadNext, Ops, Asked
<1>3. UNCHANGED account
  BY DEF DoReadNext
<1>4. CASE agent.list = {} /\ Replies(Ok)
  <2>2. Answers(Ok, agent.open, agent.list)
    BY <1>4 DEF Replies
  <2>3. /\ Up /\ agent.answer = <<>> /\ req # <<>> /\ req' = Tail(req)
        /\ agent' \in Agents /\ agent'.answer = <<Ok>> /\ agent'.open = agent.open
        /\ agent'.list = agent.list
        /\ UNCHANGED <<client, rsp, caller, faults, seen>>
    BY <1>2, <2>2, AnswersGive, RepliesAreReplies
  <2>4. Takes(Ok)
    BY <1>2, <1>3, <1>4, <2>3, RepliesAreReplies DEF Takes, Does, account
  <2> QED
    BY <2>4, RepliesAreReplies
<1>5. CASE \E i \in agent.list :
              Answers(Say("ok", 0, Nothing, i), agent.open, agent.list \ {i})
  <2>1. PICK i \in agent.list :
              Answers(Say("ok", 0, Nothing, i), agent.open, agent.list \ {i})
    BY <1>5
  <2>2. PICK a : a = Say("ok", 0, Nothing, i)
    OBVIOUS
  <2>3. i \in Ids /\ agent.list \ {i} \in SUBSET Ids
    BY <2>1
  <2>4. a \in Reply /\ a.status = "ok" /\ a.id = i
    BY <2>2, <2>3, ConstantsAssumption DEF Say, Reply, Slots
  <2>5. a # Ok
    BY <2>3, <2>4, RepliesAreReplies, ConstantsAssumption
  <2>6. PICK list : list = agent.list \ {i}
    OBVIOUS
  <2>7. Answers(a, agent.open, list) /\ list \in SUBSET Ids
    BY <2>1, <2>2, <2>3, <2>6
  <2>8. /\ Up /\ agent.answer = <<>> /\ req # <<>> /\ req' = Tail(req)
        /\ agent' \in Agents /\ agent'.answer = <<a>> /\ agent'.open = agent.open
        /\ agent'.list = list
        /\ UNCHANGED <<client, rsp, caller, faults, seen>>
    BY <1>2, <2>4, <2>7, AnswersGive
  <2>9. Takes(a)
    BY <1>2, <1>3, <2>4, <2>5, <2>6, <2>8 DEF Takes, Does, account
  <2> QED
    BY <2>4, <2>9
<1> QED
  BY <1>4, <1>5 DEF DoReadNext

LEMMA FilesMove ==
    ASSUME Typed, DoFileList \/ DoPing \/ DoCreateFile \/ DoDeleteFile
    PROVE  \E a \in Reply : Takes(a)
<1> USE TypesUnfolded
<1>1. CASE DoFileList
  <2>1. PICK op : op = "FILELIST"
    OBVIOUS
  <2>2. op \in Ops /\ Asked(op) /\ Head(req).op = "FILELIST" /\ UNCHANGED account
    BY <1>1, <2>1 DEF DoFileList, Ops, Asked
  <2>3. Answers(Ok, agent.open, {}) /\ {} \in SUBSET Ids
    BY <1>1 DEF DoFileList
  <2>4. /\ Up /\ agent.answer = <<>> /\ req # <<>> /\ req' = Tail(req)
        /\ agent' \in Agents /\ agent'.answer = <<Ok>> /\ agent'.open = agent.open
        /\ UNCHANGED <<client, rsp, caller, faults, seen>>
    BY <2>2, <2>3, AnswersGive, RepliesAreReplies
  <2>5. Takes(Ok)
    BY <2>2, <2>4, RepliesAreReplies DEF Takes, Does, account
  <2> QED
    BY <2>5, RepliesAreReplies
<1>2. CASE DoPing
  <2>1. PICK op : op = "PING"
    OBVIOUS
  <2>2. op \in Ops /\ Asked(op) /\ Head(req).op = "PING" /\ UNCHANGED account
    BY <1>2, <2>1 DEF DoPing, Ops, Asked
  <2>3. Answers(Ok, agent.open, agent.list)
    BY <1>2 DEF DoPing, Replies
  <2>4. /\ Up /\ agent.answer = <<>> /\ req # <<>> /\ req' = Tail(req)
        /\ agent' \in Agents /\ agent'.answer = <<Ok>> /\ agent'.open = agent.open
        /\ agent'.list = agent.list
        /\ UNCHANGED <<client, rsp, caller, faults, seen>>
    BY <2>2, <2>3, AnswersGive, RepliesAreReplies
  <2>5. Takes(Ok)
    BY <2>2, <2>4, RepliesAreReplies DEF Takes, Does, account
  <2> QED
    BY <2>5, RepliesAreReplies
<1>3. CASE DoCreateFile \/ DoDeleteFile
  <2>1. PICK op \in {"CREATEFILE", "DELETEFILE"} : Asked(op) /\ op = Head(req).op
    BY <1>3 DEF DoCreateFile, DoDeleteFile, Asked
  <2>2. op \in Ops /\ Head(req).file \in Files
    BY <2>1 DEF Ops, Asked, Meant, OnFiles
  <2>3. PICK a \in {Ok, Failed} : Answers(a, agent.open, agent.list)
    BY <1>3 DEF DoCreateFile, DoDeleteFile, Replies
  <2>4. a \in Reply /\ a.status # "closed"
    BY RepliesAreReplies
  <2>5. /\ Up /\ agent.answer = <<>> /\ req # <<>> /\ req' = Tail(req)
        /\ agent' \in Agents /\ agent'.answer = <<a>> /\ agent'.open = agent.open
        /\ agent'.list = agent.list
        /\ UNCHANGED <<client, rsp, caller, faults, seen>>
    BY <2>1, <2>2, <2>3, <2>4, AnswersGive
  <2>6. /\ recs' \in [Files -> SUBSET Ids] /\ exists' \subseteq Files
        /\ op # "DELETEFILE" => exists \subseteq exists' /\ recs' = recs
        /\ op = "DELETEFILE" => \A f \in Files : f # Head(req).file => recs'[f] = recs[f]
    <3>1. CASE DoCreateFile
      <4>1. op = "CREATEFILE"
        BY <2>1, <3>1 DEF DoCreateFile, Asked
      <4> QED
        BY <3>1, <4>1, <2>2 DEF DoCreateFile
    <3>2. CASE DoDeleteFile
      <4>1. op = "DELETEFILE"
        BY <2>1, <3>2 DEF DoDeleteFile, Asked
      <4>2. \/ recs' = [recs EXCEPT ![Head(req).file] = {}] /\ exists' = exists \ {Head(req).file}
            \/ UNCHANGED account
        BY <3>2 DEF DoDeleteFile
      <4> QED
        BY <4>1, <4>2, <2>2 DEF account
    <3> QED
      BY <1>3, <3>1, <3>2
  <2>7. Takes(a)
    BY <2>1, <2>4, <2>5, <2>6 DEF Takes, Does
  <2> QED
    BY <2>4, <2>7
<1> QED
  BY <1>1, <1>2, <1>3

LEMMA QuitMoves ==
    ASSUME Typed, DoQuit
    PROVE  \E a \in Reply : Takes(a)
<1> USE TypesUnfolded
<1>1. Asked("QUIT") /\ Head(req).op = "QUIT"
  BY DEF DoQuit, Asked
<1>2. PICK w : w = <<Ok>>
  OBVIOUS
<1>3. w \in Seq(Reply)
  BY <1>2, RepliesAreReplies
<1>4. PICK k : k = [agent EXCEPT !.state = "leaving", !.answer = w]
  OBVIOUS
<1>5. agent' = k
  BY <1>2, <1>4 DEF DoQuit
<1>6. k \in Agents /\ k.answer = w /\ k.open = agent.open /\ k.list = agent.list
  BY <1>3, <1>4 DEF Agents
<1>7. Takes(Ok)
  BY <1>1, <1>2, <1>5, <1>6, RepliesAreReplies
     DEF DoQuit, Asked, Takes, Does, account, Up
<1> QED
  BY <1>7, RepliesAreReplies


LEMMA FadesAre ==
    ASSUME Typed, SendReply \/ IdleOut \/ Die
    PROVE  Fades
<1> USE TypesUnfolded, GoneIs, RepliesAreReplies
<1>1. CASE SendReply
  <2>1. /\ agent.state # "gone" /\ agent.answer # <<>> /\ rsp' = rsp \o agent.answer
        /\ UNCHANGED <<account, client, req, caller, faults, seen>>
    BY <1>1 DEF SendReply
  <2>2. PICK k : k = [agent EXCEPT !.answer = <<>>]
    OBVIOUS
  <2>3. k \in Agents /\ k.answer = <<>> /\ k.open = agent.open /\ k.list = agent.list
        /\ k.state = agent.state
    BY <2>2 DEF Agents
  <2>4. \/ agent.state = "leaving" /\ agent' = Gone
        \/ agent.state # "leaving" /\ agent' = k
    BY <1>1, <2>2 DEF SendReply
  <2>5. Len(Gone.open) <= Pool
    BY ConstantsAssumption
  <2>6. rsp' \in Seq(Reply)
    BY <2>1
  <2>7. agent.state = "up" \/ agent.state = "leaving"
    BY <2>1 DEF Agents
  <2> QED
    BY <2>1, <2>3, <2>4, <2>5, <2>6, <2>7 DEF Fades, Up
<1>2. CASE IdleOut
  <2>1. PICK w : w = <<Closed>>
    OBVIOUS
  <2>2. w \in Seq(Reply)
    BY <2>1
  <2>3. PICK k : k = [agent EXCEPT !.state = "leaving", !.answer = w]
    OBVIOUS
  <2>4. k \in Agents /\ k.answer = w /\ k.open = agent.open /\ k.state = "leaving"
    BY <2>2, <2>3 DEF Agents
  <2>5. agent' = k
    BY <1>2, <2>1, <2>3 DEF IdleOut
  <2>6. faults' \in 0..MaxFaults
    BY <1>2, ConstantsAssumption DEF IdleOut, Fault
  <2> QED
    BY <1>2, <2>1, <2>4, <2>5, <2>6 DEF IdleOut, Fades
<1>3. CASE Die
  <2>1. faults' \in 0..MaxFaults /\ Len(Gone.open) <= Pool
    BY <1>3, ConstantsAssumption DEF Die, Fault
  <2> QED
    BY <1>3, <2>1 DEF Die, Fades, MayHaveRead
<1> QED
  BY <1>1, <1>2, <1>3

Walks == [due : SUBSET Ids, got : SUBSET (Ids \cup {Nothing}), end : {"no", "ended", "failed"},
          cut : BOOLEAN, files : {"before", "no", "within"}]

LEMMA NoScanIs ==
    /\ NoScan.due = {} /\ NoScan.got = {} /\ NoScan.end = "ended" /\ NoScan.cut = FALSE
    /\ NoScan \in Walks
    /\ \A files \in {"before", "no"} :
          LET walk == [NoScan EXCEPT !.files = files]
          IN  /\ walk.due = {} /\ walk.got = {} /\ walk.end = "ended" /\ walk.cut = FALSE
              /\ walk \in Walks
<1>1. /\ NoScan.due = {} /\ NoScan.got = {} /\ NoScan.end = "ended" /\ NoScan.cut = FALSE
      /\ NoScan \in Walks
  BY DEF NoScan, Walks
<1>2. ASSUME NEW files \in {"before", "no"}
      PROVE  LET walk == [NoScan EXCEPT !.files = files]
             IN  /\ walk.due = {} /\ walk.got = {} /\ walk.end = "ended" /\ walk.cut = FALSE
                 /\ walk \in Walks
  <2>1. PICK n : n = NoScan
    OBVIOUS
  <2>2. PICK w : w = [n EXCEPT !.files = files]
    OBVIOUS
  <2>3. /\ w.due = {} /\ w.got = {} /\ w.end = "ended" /\ w.cut = FALSE /\ w \in Walks
    BY <1>1, <2>1, <2>2 DEF Walks
  <2> QED
    BY <2>1, <2>2, <2>3
<1> QED
  BY <1>1, <1>2

\* What a call may be, to be issued.
Issuable(q) ==
    /\ q \in Meant /\ (q.op = "OPEN" => Len(opens) < MaxOpens)
    /\ q.op \in BySlot => q.slot > 0 /\ q.slot = slot[q.file]
    /\ dropping' \in BOOLEAN /\ (dropping => dropping')
    /\ q.op = "DELETEFILE" => dropping'

LEMMA AskIs ==
    ASSUME Typed, NEW op \in Ops, NEW s \in Slots, NEW f \in Files \cup {Nothing},
           NEW i \in Ids \cup {Nothing}, op \in OnFiles => f \in Files,
           op \in OnRecords => i \in Ids
    PROVE  LET q == Ask(op, s, f, i)
           IN  q \in Meant /\ q.op = op /\ q.slot = s /\ q.file = f /\ q.id = i
<1>1. PICK q : q = Ask(op, s, f, i)
  OBVIOUS
<1>2. q \in Request /\ q.op = op /\ q.slot = s /\ q.file = f /\ q.id = i
  BY <1>1 DEF Ask, Request
<1>3. q \in Meant
  BY <1>2 DEF Meant
<1> QED
  BY <1>1, <1>2, <1>3

LEMMA PlainIs ==
    ASSUME Typed, NEW op \in {"PING", "QUIT", "READNEXT", "FILELIST"}
    PROVE  Plain(op) \in Meant /\ Plain(op).op = op
<1>1. op \in Ops /\ 0 \in Slots /\ op \notin OnFiles /\ op \notin OnRecords
  BY ConstantsAssumption DEF Ops, Slots, OnFiles, OnRecords
<1> QED
  BY <1>1, AskIs DEF Plain

LEMMA IssueMoves ==
    ASSUME Typed, NEW q, Issuable(q), Issue(q), q.op \notin {"SELECT", "FILELIST"},
           q.op = "READNEXT" => scan.end = "no"
    PROVE  Issues(q)
<1>1. scan.end # "no" => scan' = NoScan
  BY DEF Issue, IssueIn
<1>2. scan.end = "no" => scan' = scan
  BY DEF Issue, IssueIn
<1> QED
  BY <1>1, <1>2, NoScanIs DEF Issue, IssueIn, Issuable, Issues, Walks

LEMMA EngineMoves ==
    ASSUME Typed, Engine
    PROVE  Closes \/ \E q \in Meant : Issues(q)
<1> USE TypesUnfolded
<1>1. ASSUME NEW f \in Files, OpenFile(f)
      PROVE  \E q \in Meant : Issues(q)
  <2>1. PICK op : op = "OPEN"
    OBVIOUS
  <2>2. PICK q : q = Ask(op, 0, f, Nothing)
    OBVIOUS
  <2>3. q \in Meant /\ q.op = op
    BY <2>1, <2>2, AskIs, ConstantsAssumption DEF Ops, Slots, OnRecords
  <2>4. Issuable(q)
    BY <1>1, <2>1, <2>3 DEF OpenFile, Issuable, BySlot
  <2>5. Issue(q)
    BY <1>1, <2>1, <2>2 DEF OpenFile
  <2> QED
    BY <2>1, <2>3, <2>4, <2>5, IssueMoves
<1>2. ASSUME NEW f \in Files, MakeFile(f)
      PROVE  \E q \in Meant : Issues(q)
  <2>1. PICK op : op = "CREATEFILE"
    OBVIOUS
  <2>2. PICK q : q = Ask(op, 0, f, Nothing)
    OBVIOUS
  <2>3. q \in Meant /\ q.op = op
    BY <2>1, <2>2, AskIs, ConstantsAssumption DEF Ops, Slots, OnRecords
  <2>4. Issuable(q)
    BY <1>2, <2>1, <2>3 DEF MakeFile, Issuable, BySlot
  <2>5. Issue(q)
    BY <1>2, <2>1, <2>2 DEF MakeFile
  <2> QED
    BY <2>1, <2>3, <2>4, <2>5, IssueMoves
<1>3. ASSUME NEW f \in Files, NEW i \in Ids, NEW op \in {"READ", "WRITE", "DELETE"},
             OnRecord(op, f, i)
      PROVE  \E q \in Meant : Issues(q)
  <2>1. slot[f] \in Slots /\ slot[f] > 0
    BY <1>3 DEF OnRecord, Held
  <2>2. PICK q : q = Ask(op, slot[f], f, i)
    OBVIOUS
  <2>3. q \in Meant /\ q.op = op /\ q.slot = slot[f] /\ q.file = f
    BY <2>1, <2>2, AskIs DEF Ops
  <2>4. Issuable(q)
    BY <1>3, <2>1, <2>3 DEF OnRecord, Issuable, BySlot
  <2>5. Issue(q)
    BY <1>3, <2>2 DEF OnRecord
  <2> QED
    BY <2>3, <2>4, <2>5, IssueMoves
<1>4. ASSUME NEW f \in Files, DropFile(f)
      PROVE  \E q \in Meant : Issues(q)
  <2>1. PICK op : op = "DELETEFILE"
    OBVIOUS
  <2>2. PICK q : q = Ask(op, 0, f, Nothing)
    OBVIOUS
  <2>3. q \in Meant /\ q.op = op
    BY <2>1, <2>2, AskIs, ConstantsAssumption DEF Ops, Slots, OnRecords
  <2>4. Issuable(q)
    BY <1>4, <2>1, <2>3 DEF DropFile, Issuable, BySlot
  <2>5. Issue(q)
    BY <1>4, <2>1, <2>2 DEF DropFile
  <2> QED
    BY <2>1, <2>3, <2>4, <2>5, IssueMoves
<1>5. ASSUME NEW f \in Files, SelectFile(f)
      PROVE  \E q \in Meant : Issues(q)
  <2>1. PICK op : op = "SELECT"
    OBVIOUS
  <2>2. slot[f] \in Slots /\ slot[f] > 0
    BY <1>5 DEF SelectFile, Held
  <2>3. PICK q : q = Ask(op, slot[f], f, Nothing)
    OBVIOUS
  <2>4. q \in Meant /\ q.op = op /\ q.slot = slot[f] /\ q.file = f
    BY <2>1, <2>2, <2>3, AskIs DEF Ops, OnRecords
  <2>5. Issuable(q)
    BY <1>5, <2>1, <2>2, <2>4 DEF SelectFile, Issuable, BySlot
  <2>6. PICK files \in {"before", "no"} : IssueIn(q, [NoScan EXCEPT !.files = files])
    BY <1>5, <2>1, <2>3 DEF SelectFile
  <2>7. /\ scan'.due = {} /\ scan'.got = {} /\ scan'.end = "ended" /\ scan'.cut = FALSE
        /\ scan' \in Walks
    BY <2>6, NoScanIs DEF IssueIn
  <2> QED
    BY <1>5, <2>1, <2>4, <2>5, <2>6, <2>7 DEF SelectFile, IssueIn, Issuable, Issues, Walks
<1>6. ASSUME ReadNext
      PROVE  \E q \in Meant : Issues(q)
  <2>1. PICK op \in {"PING", "QUIT", "READNEXT", "FILELIST"} : op = "READNEXT"
    OBVIOUS
  <2>2. PICK q : q = Plain(op)
    OBVIOUS
  <2>3. q \in Meant /\ q.op = op
    BY <2>2, PlainIs
  <2>4. Issuable(q) /\ Issue(q)
    BY <1>6, <2>1, <2>2, <2>3 DEF ReadNext, Issuable, BySlot
  <2> QED
    BY <1>6, <2>1, <2>3, <2>4, IssueMoves DEF ReadNext
<1>7. ASSUME FileList
      PROVE  \E q \in Meant : Issues(q)
  <2>1. PICK op \in {"PING", "QUIT", "READNEXT", "FILELIST"} : op = "FILELIST"
    OBVIOUS
  <2>2. PICK q : q = Plain(op)
    OBVIOUS
  <2>3. q \in Meant /\ q.op = op
    BY <2>2, PlainIs
  <2>4. Issuable(q)
    BY <1>7, <2>1, <2>3 DEF FileList, Issuable, BySlot
  <2>5. CASE scan.end # "no" /\ Issue(q)
    <3>1. scan' = NoScan
      BY <2>5 DEF Issue, IssueIn
    <3> QED
      BY <1>7, <2>1, <2>3, <2>4, <2>5, <3>1, NoScanIs
         DEF FileList, Issue, IssueIn, Issuable, Issues, Walks
  <2>6. CASE scan.end = "no" /\ IssueIn(q, [scan EXCEPT !.files = "within"])
    BY <1>7, <2>1, <2>3, <2>4, <2>6 DEF FileList, IssueIn, Issuable, Issues
  <2> QED
    BY <1>7, <2>1, <2>2, <2>5, <2>6 DEF FileList
<1>8. ASSUME Close
      PROVE  Closes
  BY <1>8 DEF Close, Closes
<1> QED
  BY <1>1, <1>2, <1>3, <1>4, <1>5, <1>6, <1>7, <1>8 DEF Engine


LEMMA ClientMoves ==
    ASSUME Typed, Client
    PROVE  \/ Connect \/ Begins \/ Ends \/ Reaps \/ Rebuild \/ Resumes
           \/ \E r \in Reply : Returns(r)
<1> USE TypesUnfolded, RepliesAreReplies
<1>1. Heard \in Reply
  BY DEF Heard
<1>2. CASE Connected
  BY <1>2 DEF Connected, Begins, Ends
<1>3. CASE Answered
  <2>1. CASE (Heard.status # "closed" \/ reconnects >= Rebuilds) /\ Return(Heard)
    <3>1. Returns(Heard)
      BY <1>3, <2>1 DEF Answered, Returns
    <3> QED
      BY <1>1, <3>1
  <2>2. CASE /\ Heard.status = "closed" /\ reconnects < Rebuilds
             /\ pc' = "reap" /\ reconnects' = reconnects + 1
             /\ UNCHANGED <<call, opens, replayed, slot, scan, refused>>
    <3>1. Reaps
      BY <1>3, <2>2 DEF Answered, Reaps
    <3> QED
      BY <3>1
  <2> QED
    BY <1>3, <2>1, <2>2 DEF Answered
<1>4. CASE Replayed
  <2>1. CASE Heard.status = "ok" /\ Resume
    <3>1. Resumes
      BY <1>4, <2>1 DEF Replayed, Resumes
    <3> QED
      BY <3>1
  <2>2. CASE Heard.status # "ok" /\ Return(Closed)
    <3>1. Returns(Closed)
      BY <1>4, <2>2 DEF Replayed, Returns
    <3> QED
      BY <3>1
  <2> QED
    BY <1>4, <2>1, <2>2 DEF Replayed
<1>5. CASE Repeated
  <2>1. Returns(Heard)
    BY <1>5 DEF Repeated, Returns
  <2> QED
    BY <1>1, <2>1
<1>6. CASE Torn
  BY <1>6 DEF Torn, Ends
<1> QED
  BY <1>2, <1>3, <1>4, <1>5, <1>6 DEF Client

\* Every step is one of these moves.
Moves ==
    \/ \E a \in Reply : Takes(a)
    \/ Fades
    \/ \E q \in Meant : Issues(q)
    \/ Closes \/ Connect \/ Begins \/ Ends \/ Reaps \/ Rebuild \/ Resumes
    \/ \E r \in Reply : Returns(r)

LEMMA NextMoves ==
    ASSUME Typed, Next
    PROVE  Moves
<1>1. CASE Agent
  BY <1>1, OpenMoves, ReadMoves, WriteMoves, SelectMoves, ReadNextMoves, FilesMove, QuitMoves,
     FadesAre DEF Agent, Moves
<1>2. CASE IdleOut \/ Die
  BY <1>2, FadesAre DEF Moves
<1>3. CASE Client
  BY <1>3, ClientMoves DEF Moves
<1>4. CASE Engine
  BY <1>4, EngineMoves DEF Moves
<1> QED
  BY <1>1, <1>2, <1>3, <1>4 DEF Next

\* What the client hears is the first frame, or the end of the session, or nothing in time.
LEMMA HearsAre ==
    ASSUME Typed, Hears
    PROVE  /\ Heard \in Reply /\ rsp' \in Seq(Reply) /\ faults' \in 0..MaxFaults
           /\ \/ rsp # <<>> /\ Heard = rsp[1] /\ rsp' = Tail(rsp)
              \/ rsp = <<>> /\ Heard = Closed /\ rsp' = rsp
<1> USE TypesUnfolded, RepliesAreReplies
<1>1. faults' \in 0..MaxFaults
  BY ConstantsAssumption DEF Hears, Fault
<1>2. CASE rsp # <<>>
  <2>1. rsp' = Tail(rsp) /\ Heard = Head(rsp)
    BY <1>2 DEF Hears, Heard
  <2>2. Head(rsp) = rsp[1] /\ Head(rsp) \in Reply /\ Tail(rsp) \in Seq(Reply)
    BY <1>2
  <2> QED
    BY <1>1, <1>2, <2>1, <2>2
<1>3. CASE rsp = <<>>
  BY <1>1, <1>3 DEF Hears, Heard
<1> QED
  BY <1>2, <1>3

-----------------------------------------------------------------------------
(* Types.                                                                   *)

LEMMA LearnsTyped ==
    ASSUME Typed, NEW r \in Reply, Learns(r)
    PROVE  slot' \in [Files -> Slots] /\ scan' \in Walks
<1> USE TypesUnfolded
<1>1. slot' \in [Files -> Slots]
  <2>1. r.slot \in Slots
    BY DEF Reply
  <2>2. call.op = "OPEN" => call.file \in Files
    BY DEF Meant, OnFiles
  <2>3. PICK s : s = [slot EXCEPT ![call.file] = r.slot]
    OBVIOUS
  <2>4. call.op = "OPEN" => s \in [Files -> Slots]
    BY <2>1, <2>2, <2>3
  <2>5. \/ call.op = "OPEN" /\ slot' = s
        \/ slot' = slot
    BY <2>3 DEF Learns
  <2> QED
    BY <2>4, <2>5
<1>2. scan \in Walks
  BY DEF Typed, TypeOK, Walks
<1>3. r.id \in Ids \cup {Nothing} /\ (r.status # "ok") \in BOOLEAN
  BY DEF Reply
<1>4. CASE call.op = "SELECT"
  <2>1. recs[call.file] \in SUBSET Ids
    BY <1>4 DEF Meant, OnFiles
  <2>2. scan' = [scan EXCEPT !.due = recs[call.file], !.end = "no", !.cut = r.status # "ok"]
    BY <1>4 DEF Learns
  <2> QED
    BY <1>1, <1>2, <1>3, <2>1, <2>2 DEF Walks
<1>5. CASE call.op = "READNEXT"
  <2>1. \/ scan' = [scan EXCEPT !.end = "failed"]
        \/ scan' = [scan EXCEPT !.end = "ended"]
        \/ scan' = [scan EXCEPT !.got = @ \cup {r.id}]
    <3>1. r.status = "ok" \/ r.status # "ok"
      OBVIOUS
    <3>2. r = Ok \/ r # Ok
      OBVIOUS
    <3> QED
      BY <1>5, <3>1, <3>2 DEF Learns
  <2>2. PICK got : got = scan.got \cup {r.id}
    OBVIOUS
  <2>3. got \in SUBSET (Ids \cup {Nothing})
    BY <1>2, <1>3, <2>2 DEF Walks
  <2>4. \/ scan' = [scan EXCEPT !.end = "failed"]
        \/ scan' = [scan EXCEPT !.end = "ended"]
        \/ scan' = [scan EXCEPT !.got = got]
    BY <2>1, <2>2
  <2> QED
    BY <1>1, <1>2, <2>3, <2>4 DEF Walks
<1>6. CASE call.op = "DELETE"
  <2>1. scan' = [scan EXCEPT !.due = @ \ {call.id}]
    BY <1>6 DEF Learns
  <2> QED
    BY <1>1, <1>2, <2>1 DEF Walks
<1>7. CASE call.op \notin {"SELECT", "READNEXT", "DELETE"}
  BY <1>1, <1>2, <1>7 DEF Learns
<1> QED
  BY <1>4, <1>5, <1>6, <1>7


LEMMA TakesTyped ==
    ASSUME Typed, NEW a \in Reply, Takes(a)
    PROVE  Typed'
<1> USE TypesUnfolded
<1>1. TypeOK
  BY DEF Typed
<1>2. req' \in Seq(Meant) /\ req' \in Seq(Request)
  <2>1. req' \in Seq(Meant)
    BY DEF Takes
  <2> QED
    BY <2>1 DEF Meant
<1>3. TypeOK'
  BY <1>1, <1>2 DEF TypeOK, Takes, Agents, client, caller, seen
<1> QED
  BY <1>2, <1>3 DEF Typed, Takes, client

LEMMA FadesTyped ==
    ASSUME Typed, Fades
    PROVE  Typed'
<1> USE TypesUnfolded
<1>1. TypeOK
  BY DEF Typed
<1>2. req' \in Seq(Request) /\ req' \in Seq(Meant)
  <2>1. req \in Seq(Request) /\ req \in Seq(Meant)
    BY <1>1 DEF TypeOK, Typed
  <2>2. req' = req \/ (req # <<>> /\ req' = Tail(req))
    BY DEF Fades
  <2>3. req # <<>> => Tail(req) \in Seq(Request) /\ Tail(req) \in Seq(Meant)
    BY <2>1
  <2> QED
    BY <2>1, <2>2, <2>3
<1>3. TypeOK'
  BY <1>1, <1>2 DEF TypeOK, Fades, Agents, account, client, caller, seen
<1> QED
  BY <1>2, <1>3 DEF Typed, Fades, client

LEMMA IssuesTyped ==
    ASSUME Typed, NEW q \in Meant, Issues(q)
    PROVE  Typed'
<1> USE TypesUnfolded
<1>1. TypeOK
  BY DEF Typed
<1>2. req' \in Seq(Meant) /\ req' \in Seq(Request)
  BY DEF Issues, Meant
<1>3. scan' \in Walks
  <2>1. scan \in Walks
    BY <1>1 DEF TypeOK, Walks
  <2> QED
    BY <2>1 DEF Issues, Walks
<1>4. q \in Request
  BY DEF Meant
<1>5. TypeOK'
  BY <1>1, <1>2, <1>3, <1>4 DEF TypeOK, Issues, Walks, account
<1> QED
  BY <1>2, <1>5 DEF Typed, Issues

LEMMA SpawnTyped ==
    ASSUME Typed, Connect \/ Rebuild
    PROVE  Typed'
<1> USE TypesUnfolded, GoneIs
<1>1. TypeOK
  BY DEF Typed
<1>2. PICK op \in {"PING", "QUIT", "READNEXT", "FILELIST"} : op = "PING"
  OBVIOUS
<1>3. PICK q : q = Plain(op)
  OBVIOUS
<1>4. q \in Meant /\ req' = <<q>> /\ rsp' = <<>> /\ agent' = Fresh
  BY <1>2, <1>3, PlainIs DEF Connect, Rebuild, Spawn
<1>5. req' \in Seq(Meant) /\ req' \in Seq(Request) /\ rsp' \in Seq(Reply)
  BY <1>4 DEF Meant
<1>6. agent' \in Agents /\ Len(agent'.open) <= Pool
  BY <1>4, ConstantsAssumption
<1>7. CASE Connect
  <2>1. TypeOK'
    BY <1>1, <1>5, <1>6, <1>7 DEF TypeOK, Connect, Spawn, Agents, account, caller, seen
  <2> QED
    BY <2>1, <1>5, <1>7 DEF Typed, Connect
<1>8. CASE Rebuild
  <2>1. scan \in Walks
    BY <1>1 DEF TypeOK, Walks
  <2>2. scan' \in Walks
    BY <1>8, <2>1 DEF Rebuild, Walks
  <2>4. /\ pc' = "ping" /\ replayed' = 0
        /\ UNCHANGED <<account, call, opens, reconnects, caller, faults, lost, refused>>
    BY <1>8 DEF Rebuild, Spawn
  <2>3. TypeOK'
    BY <1>1, <1>5, <1>6, <2>2, <2>4 DEF TypeOK, Agents, Walks, account, caller
  <2> QED
    BY <2>3, <1>5, <1>8 DEF Typed, Rebuild
<1> QED
  BY <1>7, <1>8

LEMMA ResumesTyped ==
    ASSUME Typed, Resumes
    PROVE  Typed'
<1> USE TypesUnfolded
<1>1. TypeOK
  BY DEF Typed
<1>2. rsp' \in Seq(Reply) /\ faults' \in 0..MaxFaults /\ lost' \in Nat
  <2>1. lost \in Nat /\ Hears /\ Loses
    BY <1>1 DEF TypeOK, Resumes
  <2> QED
    BY <2>1, HearsAre DEF Loses
<1>3. /\ req' \in Seq(Meant) /\ req' \in Seq(Request)
      /\ replayed' \in 0..Len(opens) /\ pc' \in {"replay", "again"}
  <2>1. CASE replayed < Len(opens)
    <3>1. PICK op : op = "OPEN"
      OBVIOUS
    <3>2. NextToReplay \in Files
      BY <2>1 DEF NextToReplay
    <3>3. PICK q : q = Ask(op, 0, NextToReplay, Nothing)
      OBVIOUS
    <3>4. q \in Meant
      BY <3>1, <3>2, <3>3, AskIs, ConstantsAssumption DEF Ops, Slots, OnRecords
    <3>5. req' = Append(req, q) /\ replayed' = replayed + 1 /\ pc' = "replay"
      BY <2>1, <3>1, <3>3 DEF Resumes, Resume
    <3> QED
      BY <2>1, <3>4, <3>5 DEF Meant
  <2>2. CASE ~(replayed < Len(opens))
    <3>1. req' = Append(req, call) /\ replayed' = replayed /\ pc' = "again"
      BY <2>2 DEF Resumes, Resume
    <3>2. req' \in Seq(Meant)
      BY <3>1
    <3> QED
      BY <3>1, <3>2 DEF Meant
  <2> QED
    BY <2>1, <2>2
<1>4. TypeOK'
  BY <1>1, <1>2, <1>3 DEF TypeOK, Resumes, account
<1> QED
  BY <1>3, <1>4 DEF Typed, Resumes

LEMMA NoCallIs == Typed => NoCall \in Meant /\ NoCall.op = "PING"
<1>1. PICK op \in {"PING", "QUIT", "READNEXT", "FILELIST"} : op = "PING"
  OBVIOUS
<1> QED
  BY <1>1, PlainIs DEF NoCall

LEMMA ReturnsTyped ==
    ASSUME Typed, NEW r \in Reply, Returns(r)
    PROVE  Typed'
<1> USE TypesUnfolded
<1>1. TypeOK
  BY DEF Typed
<1>2. rsp' \in Seq(Reply) /\ faults' \in 0..MaxFaults /\ lost' \in Nat
  <2>1. lost \in Nat /\ Hears /\ Loses
    BY <1>1 DEF TypeOK, Returns
  <2> QED
    BY <2>1, HearsAre DEF Loses
<1>3. slot' \in [Files -> Slots] /\ scan' \in Walks
  BY LearnsTyped DEF Returns, Return
<1>4. opens' \in Seq(Files) /\ Len(opens') <= MaxOpens
  <2>1. CASE call.op = "OPEN" /\ r.status = "ok"
    <3>1. call.file \in Files /\ Len(opens) < MaxOpens /\ MaxOpens \in Nat
      BY <2>1, ConstantsAssumption DEF Meant, OnFiles, Typed
    <3>2. opens' = Append(opens, call.file)
      BY <2>1 DEF Returns, Return
    <3> QED
      BY <3>1, <3>2
  <2>2. CASE ~(call.op = "OPEN" /\ r.status = "ok")
    BY <1>1, <2>2 DEF Returns, Return, TypeOK
  <2> QED
    BY <2>1, <2>2
<1>5. call' = NoCall /\ NoCall \in Meant /\ NoCall.op = "PING"
  BY NoCallIs DEF Returns, Return
<1>6. pc' = "idle" /\ replayed' = 0 /\ reconnects' \in 0..Rebuilds /\ refused' \in BOOLEAN
  BY <1>1, ConstantsAssumption DEF Returns, Return, TypeOK
<1>7. call' \in Request
  BY <1>5 DEF Meant
<1>8. /\ recs' = recs /\ exists' = exists /\ agent' = agent /\ req' = req
      /\ dropping' = dropping
  BY DEF Returns, account
<1>9. TypeOK'
  BY <1>1, <1>2, <1>3, <1>4, <1>6, <1>7, <1>8 DEF TypeOK, Walks
<1> QED
  BY <1>5, <1>8, <1>9 DEF Typed

LEMMA OthersTyped ==
    ASSUME Typed, Closes \/ Begins \/ Ends \/ Reaps
    PROVE  Typed'
<1> USE TypesUnfolded, GoneIs
<1>1. TypeOK
  BY DEF Typed
<1>2. CASE Closes
  <2>1. PICK op \in {"PING", "QUIT", "READNEXT", "FILELIST"} : op = "QUIT"
    OBVIOUS
  <2>2. PICK q : q = Plain(op)
    OBVIOUS
  <2>3. q \in Meant /\ req' = Append(req, q)
    BY <1>2, <2>1, <2>2, PlainIs DEF Closes
  <2>4. req' \in Seq(Meant) /\ req' \in Seq(Request)
    BY <2>3 DEF Meant
  <2>5. TypeOK'
    BY <1>1, <1>2, <2>4 DEF TypeOK, Closes, account, caller, seen
  <2> QED
    BY <1>2, <2>4, <2>5 DEF Typed, Closes
<1>3. CASE Begins
  <2>1. rsp' \in Seq(Reply) /\ faults' \in 0..MaxFaults
    BY <1>3, HearsAre DEF Begins
  <2>2. TypeOK'
    BY <1>1, <1>3, <2>1 DEF TypeOK, Begins, account, caller, seen
  <2> QED
    BY <1>3, <2>2 DEF Typed, Begins
<1>4. CASE Ends
  <2>1. rsp' \in Seq(Reply) /\ faults' \in 0..MaxFaults
    BY <1>4, HearsAre DEF Ends
  <2>2. agent' \in Agents /\ Len(agent'.open) <= Pool
    BY <1>4, ConstantsAssumption DEF Ends
  <2>3. TypeOK'
    BY <1>1, <1>4, <2>1, <2>2 DEF TypeOK, Ends, Agents, account, caller, seen
  <2> QED
    BY <1>4, <2>3 DEF Typed, Ends
<1>5. CASE Reaps
  <2>1. rsp' \in Seq(Reply) /\ faults' \in 0..MaxFaults
    BY <1>5, HearsAre DEF Reaps
  <2>2. lost' \in Nat /\ reconnects' \in 0..Rebuilds
    BY <1>1, <1>5, ConstantsAssumption DEF TypeOK, Reaps, Loses
  <2>3. TypeOK'
    BY <1>1, <1>5, <2>1, <2>2 DEF TypeOK, Reaps, account
  <2> QED
    BY <1>5, <2>3 DEF Typed, Reaps
<1> QED
  BY <1>2, <1>3, <1>4, <1>5

LEMMA MovesTyped ==
    ASSUME Typed, Moves
    PROVE  Typed'
BY TakesTyped, FadesTyped, IssuesTyped, SpawnTyped, ResumesTyped, ReturnsTyped, OthersTyped
   DEF Moves

LEMMA InitTyped ==
    ASSUME Init
    PROVE  Typed
<1> USE GoneIs
<1>1. NoScan \in Walks
  BY NoScanIs
<1>2. agent \in Agents /\ Len(agent.open) <= Pool
  BY ConstantsAssumption DEF Init
<1>3. NoCall \in Request /\ NoCall.op = "PING" /\ NoCall \in Meant
  <2>1. PICK q : q = NoCall
    OBVIOUS
  <2>2. PICK op : op = "PING"
    OBVIOUS
  <2>3. q = [op |-> op, slot |-> 0, file |-> Nothing, id |-> Nothing]
    BY <2>1, <2>2 DEF NoCall, Plain, Ask
  <2>4. op \in Ops /\ 0 \in Slots /\ op \notin OnFiles /\ op \notin OnRecords
    BY <2>2, ConstantsAssumption DEF Ops, Slots, OnFiles, OnRecords
  <2>5. q \in Request /\ q.op = op
    BY <2>3, <2>4 DEF Request
  <2> QED
    BY <2>1, <2>2, <2>4, <2>5 DEF Meant
<1>4. slot \in [Files -> Slots]
  BY ConstantsAssumption DEF Init, Slots
<1>5. /\ req = <<>> /\ rsp = <<>> /\ opens = <<>> /\ replayed = 0 /\ reconnects = 0
      /\ call = NoCall /\ scan = NoScan /\ faults = MaxFaults /\ lost = 0
      /\ dropping = FALSE /\ refused = FALSE /\ pc = "closed"
      /\ recs \in [Files -> SUBSET Ids] /\ exists \subseteq Files
  BY DEF Init
<1>6. req \in Seq(Meant) /\ req \in Seq(Request) /\ rsp \in Seq(Reply) /\ opens \in Seq(Files)
      /\ Len(opens) = 0
  BY <1>5
<1>8. /\ call \in Request /\ scan \in Walks /\ replayed \in 0..Len(opens)
      /\ reconnects \in 0..Rebuilds /\ faults \in 0..MaxFaults /\ Len(opens) <= MaxOpens
      /\ lost \in Nat /\ refused \in BOOLEAN /\ dropping \in BOOLEAN
  <2>1. call \in Request /\ scan \in Walks
    BY <1>1, <1>3, <1>5
  <2>2. replayed \in 0..Len(opens) /\ Len(opens) <= MaxOpens
    BY <1>5, <1>6, ConstantsAssumption
  <2>3. reconnects \in 0..Rebuilds /\ faults \in 0..MaxFaults /\ lost \in Nat
    BY <1>5, ConstantsAssumption
  <2>4. refused \in BOOLEAN /\ dropping \in BOOLEAN
    BY <1>5
  <2> QED
    BY <2>1, <2>2, <2>3, <2>4
<1>9. pc \in {"closed", "connect", "idle", "first", "reap", "ping", "replay", "again", "quit",
              "over"}
  BY <1>5
<1>7. TypeOK
  BY <1>2, <1>4, <1>5, <1>6, <1>8, <1>9 DEF TypeOK, Agents, Walks
<1> QED
  BY <1>3, <1>5, <1>6, <1>7 DEF Typed

LEMMA StaysTyped == Spec => []Typed
<1>1. Init => Typed
  BY InitTyped
<1>2. Typed /\ [Next]_vars => Typed'
  <2> SUFFICES ASSUME Typed, [Next]_vars PROVE Typed'
    OBVIOUS
  <2>1. CASE Next
    BY <2>1, NextMoves, MovesTyped
  <2>2. CASE UNCHANGED vars
    BY <2>2 DEF Typed, TypeOK, vars, account, client, caller, seen
  <2> QED
    BY <2>1, <2>2
<1> QED
  BY <1>1, <1>2, PTL DEF Spec

\* Every variable keeps its type, however often the session is replaced and whether
\* or not the caller goes on after a call that came back closed: the slots stay within
\* the agent's pool, and the rebuilds within their limit.
THEOREM TypeCorrect == Spec => []TypeOK
<1>1. Typed => TypeOK
  BY DEF Typed
<1> QED
  BY <1>1, StaysTyped, PTL


-----------------------------------------------------------------------------
(* The call and the scan.                                                   *)

LEMMA CallMeansKept ==
    ASSUME Typed, CallIsMeant, Moves
    PROVE  CallIsMeant'
<1> USE TypesUnfolded
<1>1. ASSUME NEW q \in Meant, Issues(q)
      PROVE  CallIsMeant'
  <2>1. scan \in Walks
    BY DEF Typed, TypeOK, Walks
  <2>2. /\ q.op = "FILELIST" => scan'.end # "no" \/ scan'.files = "within"
        /\ q.op = "READNEXT" => scan'.end = "no"
        /\ q.op = "SELECT" => scan'.end # "no" /\ scan'.got = {} /\ ~scan'.cut
    BY <1>1, <2>1 DEF Issues, Walks
  <2> QED
    BY <1>1, <2>2 DEF Issues, CallIsMeant, CallMeans
<1>2. ASSUME NEW r \in Reply, Returns(r)
      PROVE  CallIsMeant'
  <2>1. call'.op = "PING"
    BY <1>2, NoCallIs DEF Returns, Return
  <2> QED
    BY <2>1 DEF CallIsMeant, CallMeans, BySlot
<1>3. CASE Rebuild
  <2>1. call' = call /\ slot' = slot /\ dropping' = dropping
    BY <1>3 DEF Rebuild, caller
  <2>2. scan \in Walks
    BY DEF Typed, TypeOK, Walks
  <2>3. /\ scan'.end = scan.end /\ scan'.files = scan.files /\ scan'.got = scan.got
        /\ scan.end # "no" => scan'.cut = scan.cut
    BY <1>3, <2>2 DEF Rebuild, Walks
  <2> QED
    BY <2>1, <2>3 DEF CallIsMeant, CallMeans
<1>4. ASSUME NEW a \in Reply, Takes(a)
      PROVE  CallIsMeant'
  BY <1>4 DEF Takes, CallIsMeant, CallMeans, client, caller, seen
<1>5. CASE Fades \/ Closes \/ Connect \/ Begins \/ Ends \/ Reaps \/ Resumes
  <2>1. call' = call /\ slot' = slot /\ dropping' = dropping /\ scan' = scan
    BY <1>5 DEF Fades, Closes, Connect, Begins, Ends, Reaps, Resumes, client, caller, seen
  <2> QED
    BY <2>1 DEF CallIsMeant, CallMeans
<1> QED
  BY <1>1, <1>2, <1>3, <1>4, <1>5 DEF Moves

LEMMA LossesKept ==
    ASSUME Typed, LostCounted, Moves
    PROVE  LostCounted'
<1>1. lost \in Nat
  BY DEF Typed, TypeOK
<1>2. CASE Reaps
  BY <1>1, <1>2 DEF Reaps, Loses, LostCounted
<1>3. CASE Resumes
  <2>1. lost' >= lost /\ lost > 0
    BY <1>1, <1>3 DEF Resumes, Loses, LostCounted
  <2> QED
    BY <1>1, <2>1, <1>3 DEF LostCounted, Loses, Resumes
<1>4. ASSUME NEW a \in Reply, Takes(a)
      PROVE  LostCounted'
  BY <1>4 DEF Takes, LostCounted, client, seen
<1>5. CASE Fades
  BY <1>5 DEF Fades, LostCounted, client, seen
<1>6. CASE Rebuild
  BY <1>6 DEF Rebuild, Spawn, LostCounted
<1>7. ASSUME NEW q \in Meant, Issues(q)
      PROVE  LostCounted'
  BY <1>7 DEF Issues, LostCounted
<1>8. ASSUME NEW r \in Reply, Returns(r)
      PROVE  LostCounted'
  BY <1>8 DEF Returns, Return, LostCounted
<1>9. CASE Closes \/ Connect \/ Begins \/ Ends
  <2>1. pc' \in {"quit", "connect", "idle", "over"}
    BY <1>9 DEF Closes, Connect, Spawn, Begins, Ends
  <2> QED
    BY <2>1 DEF LostCounted
<1> QED
  BY <1>2, <1>3, <1>4, <1>5, <1>6, <1>7, <1>8, <1>9 DEF Moves

-----------------------------------------------------------------------------
(* Frames.                                                                  *)

LEMMA FramesTyped == Typed => \A r \in Frames : r \in Reply
BY TypesUnfolded DEF Frames

LEMMA FramesTaken ==
    ASSUME Typed, Turns, NEW a \in Reply, Takes(a)
    PROVE  /\ rsp = <<>> /\ Frames = {} /\ req' = <<>> /\ Frames' = {a}
           /\ a.status # "closed"
<1> USE TypesUnfolded
<1>1. /\ Up /\ agent.answer = <<>> /\ req # <<>> /\ req' = Tail(req) /\ rsp' = rsp
      /\ agent'.answer = <<a>> /\ a.status # "closed"
  BY DEF Takes
<1>2. rsp = <<>>
  <2>1. SUFFICES ASSUME rsp # <<>> PROVE FALSE
    OBVIOUS
  <2>2. 1 \in DOMAIN rsp
    BY <2>1
  <2>3. rsp[1] \in Frames
    BY <2>2 DEF Frames
  <2> QED
    BY <1>1, <2>3 DEF Turns
<1>3. Frames = {}
  BY <1>1, <1>2 DEF Frames
<1>4. PICK w : w = <<a>>
  OBVIOUS
<1>5. DOMAIN w = {1} /\ w[1] = a
  BY <1>4
<1>6. Frames' = {a}
  BY <1>1, <1>2, <1>4, <1>5 DEF Frames
<1>7. req' = <<>>
  BY <1>1 DEF Turns
<1> QED
  BY <1>1, <1>2, <1>3, <1>6, <1>7

LEMMA JoinOne ==
    ASSUME NEW S, NEW p \in Seq(S), NEW q \in Seq(S), q # <<>>, Len(q) <= 1
    PROVE  /\ Len(q) = 1 /\ q[1] \in S /\ DOMAIN q = {1}
           /\ Len(p \o q) = Len(p) + 1 /\ (p \o q)[Len(p) + 1] = q[1]
           /\ \A k \in 1..Len(p) : (p \o q)[k] = p[k]
           /\ DOMAIN (p \o q) = 1..(Len(p) + 1)
<1>1. Len(q) = 1
  <2>1. Len(q) \in Nat /\ Len(q) # 0
    BY EmptySeq
  <2>2. \A n \in Nat : n # 0 /\ n <= 1 => n = 1
    OBVIOUS
  <2> QED
    BY <2>1, <2>2
<1>2. q[1] \in S /\ DOMAIN q = {1}
  BY <1>1, ElementOfSeq, LenProperties
<1>3. Len(p \o q) = Len(p) + 1 /\ p \o q \in Seq(S)
  BY <1>1, ConcatProperties
<1> QED
  BY <1>1, <1>2, <1>3

\* The reply that is ready goes out behind what is in the pipe.
LEMMA AnswerSent ==
    ASSUME Typed, Turns, agent.answer # <<>>, rsp' = rsp \o agent.answer
    PROVE  /\ Len(rsp') = Len(rsp) + 1 /\ rsp'[Len(rsp) + 1] = agent.answer[1]
           /\ \A k \in 1..Len(rsp) : rsp'[k] = rsp[k]
           /\ DOMAIN rsp' = 1..(Len(rsp) + 1)
<1>1. rsp \in Seq(Reply) /\ agent.answer \in Seq(Reply)
  BY DEF Typed, TypeOK
<1>2. Len(agent.answer) <= 1
  BY DEF Turns
<1> QED
  BY <1>1, <1>2, JoinOne

LEMMA FramesFade ==
    ASSUME Typed, Turns, Fades
    PROVE  /\ Len(agent'.answer) <= 1
           /\ \A k \in DOMAIN rsp' : k > 1 => rsp'[k].status = "closed"
           /\ rsp' # <<>> => \A k \in DOMAIN agent'.answer : agent'.answer[k].status = "closed"
           /\ \A r \in Frames' : r \in Frames \/ (r = Closed /\ ~Up' /\ req = <<>>)
<1> USE TypesUnfolded, RepliesAreReplies
<1>1. CASE agent.answer # <<>> /\ rsp' = rsp \o agent.answer /\ agent'.answer = <<>>
  <2>1. Len(agent.answer) = 1 /\ agent.answer[1] \in Reply /\ DOMAIN agent.answer = {1}
    BY <1>1, JoinOne DEF Turns
  <2>2. /\ Len(rsp') = Len(rsp) + 1 /\ rsp'[Len(rsp) + 1] = agent.answer[1]
        /\ \A k \in 1..Len(rsp) : rsp'[k] = rsp[k]
        /\ DOMAIN rsp' = 1..(Len(rsp) + 1)
    BY <1>1, AnswerSent
  <2>3. \A k \in DOMAIN rsp' : k > 1 => rsp'[k].status = "closed"
    <3> SUFFICES ASSUME NEW k \in DOMAIN rsp', k > 1
                 PROVE  rsp'[k].status = "closed"
      OBVIOUS
    <3>1. CASE k \in 1..Len(rsp)
      BY <2>2, <3>1 DEF Turns
    <3>2. CASE k = Len(rsp) + 1
      <4>1. rsp # <<>>
        BY <3>2
      <4> QED
        BY <2>1, <2>2, <3>2, <4>1 DEF Turns
    <3> QED
      BY <2>2, <3>1, <3>2
  <2>4. \A r \in Frames' : r \in Frames
    <3> SUFFICES ASSUME NEW r \in Frames' PROVE r \in Frames
      OBVIOUS
    <3>1. PICK k \in DOMAIN rsp' : r = rsp'[k]
      BY <1>1 DEF Frames
    <3>2. CASE k \in 1..Len(rsp)
      BY <2>2, <3>1, <3>2 DEF Frames
    <3>3. CASE k = Len(rsp) + 1
      BY <2>1, <2>2, <3>1, <3>3 DEF Frames
    <3> QED
      BY <2>2, <3>2, <3>3
  <2> QED
    BY <1>1, <2>3, <2>4
<1>2. CASE /\ agent.answer = <<>> /\ req = <<>> /\ rsp' = rsp
           /\ agent'.state # "up" /\ agent'.answer = <<Closed>>
  <2>1. PICK w : w = <<Closed>>
    OBVIOUS
  <2>2. DOMAIN w = {1} /\ w[1] = Closed /\ Len(w) = 1
    BY <2>1
  <2>3. agent'.answer = w
    BY <1>2, <2>1
  <2> QED
    BY <1>2, <2>2, <2>3 DEF Turns, Frames, Up
<1>3. CASE rsp' = rsp /\ agent'.state # "up" /\ agent'.answer = <<>>
  BY <1>3 DEF Turns, Frames
<1> QED
  BY <1>1, <1>2, <1>3 DEF Fades

LEMMA FramesHeard ==
    ASSUME Typed, Turns, Hears, agent' = agent \/ agent' = Gone
    PROVE  /\ Heard \in Frames \/ Heard = Closed
           /\ Len(agent'.answer) <= 1
           /\ \A k \in DOMAIN rsp' : rsp'[k].status = "closed"
           /\ rsp' # <<>> => \A k \in DOMAIN agent'.answer : agent'.answer[k].status = "closed"
           /\ \A r \in Frames' : r \in Frames
           /\ Heard.status # "closed" => \A r \in Frames' : r.status = "closed"
           /\ req # <<>> => Heard.status = "closed"
<1> USE TypesUnfolded, RepliesAreReplies, GoneIs
<1>1. CASE rsp # <<>> /\ Heard = rsp[1] /\ rsp' = Tail(rsp)
  <2>1. /\ \A k \in DOMAIN rsp' : k + 1 \in DOMAIN rsp /\ rsp'[k] = rsp[k + 1] /\ k \in Nat /\ k > 0
        /\ 1 \in DOMAIN rsp
    BY <1>1
  <2>2. \A k \in DOMAIN rsp' : rsp'[k].status = "closed" /\ rsp'[k] \in Frames
    BY <2>1 DEF Turns, Frames
  <2>3. Heard \in Frames
    BY <1>1, <2>1 DEF Frames
  <2>4. \A k \in DOMAIN agent'.answer : agent'.answer[k].status = "closed" /\ agent'.answer[k] \in Frames
    BY <1>1 DEF Turns, Frames
  <2> QED
    BY <2>2, <2>3, <2>4 DEF Frames, Turns
<1>2. CASE rsp = <<>> /\ Heard = Closed /\ rsp' = rsp
  BY <1>2 DEF Frames, Turns
<1> QED
  BY <1>1, <1>2, HearsAre


LEMMA OneAsked ==
    ASSUME NEW q, NEW S, NEW s \in Seq(S), s = <<>>, q \in S
    PROVE  Append(s, q) # <<>> /\ Tail(Append(s, q)) = <<>> /\ Head(Append(s, q)) = q
OBVIOUS

LEMMA TurnsInit ==
    ASSUME Init
    PROVE  Turns
<1> USE GoneIs
<1>1. /\ pc = "closed" /\ opens = <<>> /\ agent = Gone /\ req = <<>> /\ rsp = <<>>
  BY DEF Init
<1>2. Frames = {}
  BY <1>1 DEF Frames
<1> QED
  BY <1>1, <1>2 DEF Turns, Up

LEMMA TurnsAfterTakes ==
    ASSUME Typed, Turns, NEW a \in Reply, Takes(a)
    PROVE  Turns'
<1>1. /\ rsp = <<>> /\ req' = <<>> /\ Frames' = {a} /\ a.status # "closed" /\ req # <<>> /\ Up
  BY FramesTaken DEF Takes
<1>2. Len(agent'.answer) = 1 /\ rsp' = <<>>
  BY <1>1 DEF Takes
<1>3. pc \notin {"closed", "over", "idle"}
  BY <1>1 DEF Turns, Up
<1>4. pc' = pc /\ opens' = opens /\ replayed' = replayed
  BY DEF Takes, client
<1> QED
  BY <1>1, <1>2, <1>3, <1>4 DEF Turns

LEMMA TurnsAfterFades ==
    ASSUME Typed, Turns, Fades
    PROVE  Turns'
<1> USE RepliesAreReplies
<1>1. /\ pc' = pc /\ opens' = opens /\ replayed' = replayed /\ call' = call
      /\ Up' => Up
      /\ agent.state # "gone"
  BY DEF Fades, client, Up
<1>2. pc \notin {"closed", "over"}
  BY <1>1 DEF Turns
<1>3. req' = req \/ req' = <<>>
  BY DEF Fades, Turns
<1>4. /\ req # <<>> => \A r \in Frames' : r.status = "closed"
      /\ pc = "idle" => \A r \in Frames' : r.status = "closed"
      /\ Up' => \A r \in Frames' : r.status # "closed"
  BY <1>1, FramesFade DEF Turns
<1> QED
  BY <1>1, <1>2, <1>3, <1>4, FramesFade DEF Turns

LEMMA TurnsAfterSpawn ==
    ASSUME Typed, Turns, Connect \/ Rebuild
    PROVE  Turns'
<1> USE GoneIs
<1>1. /\ agent' = Fresh /\ req' = <<Plain("PING")>> /\ rsp' = <<>>
      /\ opens' = opens
      /\ \/ pc = "closed" /\ pc' = "connect"
         \/ pc' = "ping" /\ replayed' = 0
  BY DEF Connect, Rebuild, Spawn
<1>2. Frames' = {}
  BY <1>1 DEF Frames
<1>3. PICK op \in {"PING", "QUIT", "READNEXT", "FILELIST"} : op = "PING"
  OBVIOUS
<1>4. PICK q : q = Plain(op)
  OBVIOUS
<1>5. req' # <<>> /\ Tail(req') = <<>> /\ Head(req') = q /\ q.op = "PING"
  BY <1>1, <1>3, <1>4, PlainIs
<1> QED
  BY <1>1, <1>2, <1>5 DEF Turns

LEMMA TurnsAfterAsks ==
    ASSUME Typed, Turns, Closes \/ \E q \in Meant : Issues(q)
    PROVE  Turns'
<1> USE TypesUnfolded
<1>1. req = <<>> /\ pc = "idle" /\ \A r \in Frames : r.status = "closed"
  BY DEF Turns, Closes, Issues
<1>2. agent' = agent /\ rsp' = rsp /\ Frames' = Frames /\ Up' = Up /\ opens' = opens
  BY DEF Closes, Issues, Frames, Up
<1>3. ASSUME NEW q \in Meant, Issues(q)
      PROVE  Turns'
  <2>1. req' # <<>> /\ Tail(req') = <<>> /\ Head(req') = q
    BY <1>1, <1>3, OneAsked DEF Issues
  <2>2. pc' = "first" /\ call' = q
    BY <1>3 DEF Issues
  <2> QED
    BY <1>1, <1>2, <2>1, <2>2 DEF Turns
<1>4. CASE Closes
  <2>1. PICK op \in {"PING", "QUIT", "READNEXT", "FILELIST"} : op = "QUIT"
    OBVIOUS
  <2>2. PICK q : q = Plain(op)
    OBVIOUS
  <2>3. q \in Meant /\ q.op = "QUIT"
    BY <2>1, <2>2, PlainIs
  <2>4. req' # <<>> /\ Tail(req') = <<>> /\ Head(req') = q
    BY <1>1, <1>4, <2>1, <2>2, <2>3, OneAsked DEF Closes
  <2>5. pc' = "quit"
    BY <1>4 DEF Closes
  <2> QED
    BY <1>1, <1>2, <2>3, <2>4, <2>5 DEF Turns
<1> QED
  BY <1>3, <1>4

LEMMA TurnsAfterHears ==
    ASSUME Typed, Turns, Begins \/ Reaps \/ Ends
    PROVE  Turns'
<1> USE GoneIs
<1>1. Hears /\ (agent' = agent \/ agent' = Gone) /\ req' = req /\ opens' = opens /\ call' = call
  BY DEF Begins, Reaps, Ends
<1>2. /\ Len(agent'.answer) <= 1
      /\ \A k \in DOMAIN rsp' : rsp'[k].status = "closed"
      /\ rsp' # <<>> => \A k \in DOMAIN agent'.answer : agent'.answer[k].status = "closed"
      /\ \A r \in Frames' : r \in Frames
      /\ Heard.status # "closed" => \A r \in Frames' : r.status = "closed"
      /\ req # <<>> => Heard.status = "closed"
  BY <1>1, FramesHeard
<1>3. Up' => \A r \in Frames' : r.status # "closed"
  BY <1>1, <1>2 DEF Turns, Up
<1>4. req' # <<>> => Tail(req') = <<>> /\ \A r \in Frames' : r.status = "closed"
  BY <1>1, <1>2 DEF Turns
<1>5. CASE Begins
  <2>1. pc' = "idle" /\ Heard.status # "closed"
    BY <1>5 DEF Begins
  <2> QED
    BY <1>1, <1>2, <1>3, <1>4, <2>1 DEF Turns
<1>6. CASE Reaps
  <2>1. pc = "first" /\ pc' = "reap"
    BY <1>6 DEF Reaps
  <2> QED
    BY <1>1, <1>2, <1>3, <1>4, <2>1 DEF Turns
<1>7. CASE Ends
  <2>1. pc' = "over" /\ agent' = Gone
    BY <1>7 DEF Ends
  <2> QED
    BY <1>1, <1>2, <1>3, <1>4, <2>1 DEF Turns
<1> QED
  BY <1>5, <1>6, <1>7

\* A reply of its own leaves the client nothing but goodbyes to read.
LEMMA HeardAlone ==
    ASSUME Typed, Turns, Hears, agent' = agent, Heard.status # "closed"
    PROVE  /\ req = <<>> /\ Heard \in Frames
           /\ \A r \in Frames' : r.status = "closed" /\ r \in Frames
           /\ Up => Frames' = {}
<1> USE RepliesAreReplies
<1>1. /\ req = <<>> /\ Heard \in Frames
      /\ \A r \in Frames' : r.status = "closed" /\ r \in Frames
  BY FramesHeard
<1> QED
  BY <1>1 DEF Turns

LEMMA TurnsAfterReturns ==
    ASSUME Typed, Turns, NEW r \in Reply, Returns(r), ~refused'
    PROVE  Turns'
<1> USE RepliesAreReplies
<1>1. r = Heard /\ r.status # "closed"
  BY DEF Returns, Return
<1>2. /\ Hears /\ agent' = agent /\ req' = req /\ pc' = "idle"
  BY DEF Returns, Return
<1>3. /\ req = <<>> /\ \A x \in Frames' : x.status = "closed" /\ x \in Frames
  BY <1>1, <1>2, HeardAlone
<1>4. /\ Len(agent'.answer) <= 1
      /\ \A k \in DOMAIN rsp' : rsp'[k].status = "closed"
      /\ rsp' # <<>> => \A k \in DOMAIN agent'.answer : agent'.answer[k].status = "closed"
  BY <1>2, FramesHeard
<1>5. Up' => \A x \in Frames' : x.status # "closed"
  BY <1>2, <1>3 DEF Turns, Up
<1> QED
  BY <1>2, <1>3, <1>4, <1>5 DEF Turns

LEMMA TurnsAfterResumes ==
    ASSUME Typed, Turns, Resumes
    PROVE  Turns'
<1> USE RepliesAreReplies, TypesUnfolded
<1>1. /\ Hears /\ agent' = agent /\ Heard.status # "closed" /\ opens' = opens /\ call' = call
  BY DEF Resumes
<1>2. /\ req = <<>> /\ \A x \in Frames' : x.status = "closed" /\ x \in Frames
  BY <1>1, HeardAlone
<1>4. /\ Len(agent'.answer) <= 1
      /\ \A k \in DOMAIN rsp' : rsp'[k].status = "closed"
      /\ rsp' # <<>> => \A k \in DOMAIN agent'.answer : agent'.answer[k].status = "closed"
  BY <1>1, FramesHeard
<1>5. Up' => \A x \in Frames' : x.status # "closed"
  BY <1>1, <1>2 DEF Turns, Up
<1>6. CASE replayed < Len(opens)
  <2>1. PICK op : op = "OPEN"
    OBVIOUS
  <2>2. NextToReplay \in Files /\ NextToReplay = opens[replayed + 1]
    BY <1>6 DEF NextToReplay
  <2>3. PICK q : q = Ask(op, 0, NextToReplay, Nothing)
    OBVIOUS
  <2>4. q \in Meant /\ q.op = op /\ q.file = NextToReplay
    BY <2>1, <2>2, <2>3, AskIs, ConstantsAssumption DEF Ops, Slots, OnRecords
  <2>5. req' = Append(req, q) /\ replayed' = replayed + 1 /\ pc' = "replay"
    BY <1>6, <2>1, <2>3 DEF Resumes, Resume
  <2>6. req' # <<>> /\ Tail(req') = <<>> /\ Head(req') = q
    BY <1>2, <2>4, <2>5, OneAsked
  <2>7. replayed' > 0
    BY <2>5
  <2> QED
    BY <1>1, <1>2, <1>4, <1>5, <2>1, <2>2, <2>4, <2>5, <2>6, <2>7 DEF Turns
<1>7. CASE ~(replayed < Len(opens))
  <2>1. req' = Append(req, call) /\ pc' = "again"
    BY <1>7 DEF Resumes, Resume
  <2>2. req' # <<>> /\ Tail(req') = <<>> /\ Head(req') = call
    BY <1>2, <2>1, OneAsked
  <2> QED
    BY <1>1, <1>2, <1>4, <1>5, <2>1, <2>2 DEF Turns
<1> QED
  BY <1>6, <1>7

LEMMA TurnsKept ==
    ASSUME Typed, Turns, Moves, ~refused'
    PROVE  Turns'
BY TurnsAfterTakes, TurnsAfterFades, TurnsAfterSpawn, TurnsAfterAsks, TurnsAfterHears,
   TurnsAfterReturns, TurnsAfterResumes DEF Moves


-----------------------------------------------------------------------------
(* Slots: opening the same files in the same order gives the same slots.    *)

\* In a session that serves the first k files, an open file is one of them, in the slot
\* the caller has for it.
LEMMA ServedFile ==
    ASSUME NEW sl \in [Files -> Slots], NEW os \in Seq(Files), NEW open \in Seq(Files),
           NEW k \in 0..Len(os), Serves(open, sl, os, k),
           NEW j \in DOMAIN open
    PROVE  \E i \in 1..k : os[i] = open[j] /\ sl[open[j]] = j
<1>1. PICK i \in 1..k : sl[os[i]] = j
  BY DEF Serves
<1>2. open[sl[os[i]]] = os[i]
  BY DEF Serves
<1> QED
  BY <1>1, <1>2

\* A file the session has not open, although it serves all before it, is due the next slot.
LEMMA NextSlot ==
    ASSUME NEW sl \in [Files -> Slots], NEW os \in Seq(Files), NEW open \in Seq(Files),
           NEW k \in 1..Len(os), SlotsInOrder(sl, os), Serves(open, sl, os, k - 1),
           \A j \in DOMAIN open : open[j] # os[k]
    PROVE  sl[os[k]] = Len(open) + 1
<1> DEFINE n == Len(open)
           s == sl[os[k]]
<1>1. s \in Nat /\ s > 0 /\ os[k] \in Files /\ n \in Nat /\ DOMAIN open = 1..n /\ k \in DOMAIN os
  BY DEF SlotsInOrder, Slots
<1>2. ~(s <= n)
  <2> SUFFICES ASSUME s <= n PROVE FALSE
    OBVIOUS
  <2>1. s \in DOMAIN open
    BY <1>1
  <2>2. k - 1 \in 0..Len(os)
    BY <1>1
  <2>3. PICK i \in 1..(k - 1) : os[i] = open[s] /\ sl[open[s]] = s
    BY <2>1, <2>2, ServedFile
  <2>4. open[s] \in Files
    BY <2>1
  <2>5. open[s] = os[k]
    BY <1>1, <2>3, <2>4 DEF SlotsInOrder
  <2> QED
    BY <2>1, <2>5
<1>3. ~(s > n + 1)
  <2> SUFFICES ASSUME s > n + 1 PROVE FALSE
    OBVIOUS
  <2>1. n + 1 \in 1..s
    BY <1>1
  <2>2. PICK j \in 1..k : sl[os[j]] = n + 1
    BY <1>1, <2>1 DEF SlotsInOrder
  <2>3. CASE j = k
    BY <1>1, <2>2, <2>3
  <2>4. CASE j \in 1..(k - 1)
    <3>1. sl[os[j]] \in DOMAIN open
      BY <2>4 DEF Serves
    <3> QED
      BY <1>1, <2>2, <3>1
  <2> QED
    BY <2>3, <2>4
<1> QED
  BY <1>1, <1>2, <1>3

LEMMA ReplayHeld ==
    ASSUME NEW sl \in [Files -> Slots], NEW os \in Seq(Files), NEW open \in Seq(Files),
           NEW k \in 1..Len(os), SlotsInOrder(sl, os), Serves(open, sl, os, k - 1),
           NEW j \in DOMAIN open, open[j] = os[k]
    PROVE  Serves(open, sl, os, k)
<1>1. k - 1 \in 0..Len(os)
  OBVIOUS
<1>2. sl[os[k]] = j
  <2>1. PICK i \in 1..(k - 1) : os[i] = open[j] /\ sl[open[j]] = j
    BY <1>1, ServedFile
  <2> QED
    BY <2>1
<1>3. \A i \in 1..k : i \in 1..(k - 1) \/ i = k
  OBVIOUS
<1>4. \A i \in 1..(k - 1) : i \in 1..k
  OBVIOUS
<1> QED
  BY <1>2, <1>3, <1>4 DEF Serves

LEMMA ReplayNew ==
    ASSUME NEW sl \in [Files -> Slots], NEW os \in Seq(Files), NEW open \in Seq(Files),
           NEW k \in 1..Len(os), SlotsInOrder(sl, os), Serves(open, sl, os, k - 1),
           \A j \in DOMAIN open : open[j] # os[k],
           NEW new, new = Append(open, os[k])
    PROVE  Serves(new, sl, os, k)
<1>1. sl[os[k]] = Len(open) + 1
  BY NextSlot
<1>2. /\ DOMAIN new = 1..(Len(open) + 1) /\ new[Len(open) + 1] = os[k]
      /\ \A j \in DOMAIN open : j \in DOMAIN new /\ new[j] = open[j]
      /\ \A j \in DOMAIN new : j \in DOMAIN open \/ j = Len(open) + 1
  <2>1. os[k] \in Files
    OBVIOUS
  <2> QED
    BY <2>1
<1>3. \A i \in 1..k : i \in 1..(k - 1) \/ i = k
  OBVIOUS
<1>4. \A i \in 1..(k - 1) : i \in 1..k
  OBVIOUS
<1>5. ASSUME NEW i \in 1..k
      PROVE  sl[os[i]] \in DOMAIN new /\ new[sl[os[i]]] = os[i]
  <2>1. CASE i \in 1..(k - 1)
    BY <1>2, <2>1 DEF Serves
  <2>2. CASE i = k
    BY <1>1, <1>2, <2>2
  <2> QED
    BY <1>3, <2>1, <2>2
<1>6. ASSUME NEW s \in DOMAIN new
      PROVE  \E i \in 1..k : sl[os[i]] = s
  <2>1. CASE s \in DOMAIN open
    BY <1>4, <2>1 DEF Serves
  <2>2. CASE s = Len(open) + 1
    <3>1. k \in 1..k
      OBVIOUS
    <3> QED
      BY <1>1, <2>2, <3>1
  <2> QED
    BY <1>2, <2>1, <2>2
<1> QED
  BY <1>5, <1>6 DEF Serves

LEMMA OpenHeld ==
    ASSUME NEW sl \in [Files -> Slots], NEW os \in Seq(Files), NEW open \in Seq(Files),
           SlotsInOrder(sl, os), Serves(open, sl, os, Len(os)),
           NEW f \in Files, NEW p \in DOMAIN open, open[p] = f
    PROVE  Fits(sl, os, f, p) /\ ServesToo(open, sl, os, f, p)
<1>1. Len(os) \in 0..Len(os) /\ DOMAIN os = 1..Len(os) /\ p \in Nat /\ p > 0
  OBVIOUS
<1>2. PICK i \in 1..Len(os) : os[i] = f /\ sl[f] = p
  BY <1>1, ServedFile
<1>3. \A g \in Files : sl[g] = p => g = f
  BY <1>1, <1>2 DEF SlotsInOrder
<1>4. ASSUME NEW s \in 1..(p - 1)
      PROVE  \E j \in DOMAIN os : sl[os[j]] = s
  <2>1. s \in 1..sl[os[i]] /\ i \in DOMAIN os
    BY <1>1, <1>2
  <2>2. PICK j \in 1..i : sl[os[j]] = s
    BY <2>1 DEF SlotsInOrder
  <2> QED
    BY <1>1, <2>2
<1>5. Fits(sl, os, f, p)
  BY <1>1, <1>2, <1>3, <1>4 DEF Fits
<1>6. ServesToo(open, sl, os, f, p)
  BY <1>1 DEF Serves, ServesToo
<1> QED
  BY <1>5, <1>6

LEMMA OpenNew ==
    ASSUME NEW sl \in [Files -> Slots], NEW os \in Seq(Files), NEW open \in Seq(Files),
           SlotsInOrder(sl, os), Serves(open, sl, os, Len(os)),
           NEW f \in Files, \A j \in DOMAIN open : open[j] # f,
           NEW new, new = Append(open, f)
    PROVE  Fits(sl, os, f, Len(open) + 1) /\ ServesToo(new, sl, os, f, Len(open) + 1)
<1> DEFINE p == Len(open) + 1
<1>1. p \in Nat /\ p > 0 /\ DOMAIN os = 1..Len(os) /\ DOMAIN open = 1..Len(open) /\ Len(open) \in Nat
  OBVIOUS
<1>2. /\ DOMAIN new = 1..p /\ new[p] = f
      /\ \A j \in DOMAIN open : j \in DOMAIN new /\ new[j] = open[j]
      /\ \A j \in DOMAIN new : j \in DOMAIN open \/ j = p
  OBVIOUS
<1>3. sl[f] = 0
  <2> SUFFICES ASSUME sl[f] > 0 PROVE FALSE
    BY DEF Slots
  <2>1. PICK i \in DOMAIN os : os[i] = f
    BY DEF SlotsInOrder
  <2> QED
    BY <1>1, <2>1 DEF Serves
<1>4. \A g \in Files : sl[g] # p
  <2> SUFFICES ASSUME NEW g \in Files, sl[g] = p PROVE FALSE
    OBVIOUS
  <2>1. PICK i \in DOMAIN os : os[i] = g
    BY <1>1 DEF SlotsInOrder
  <2>2. sl[g] \in DOMAIN open
    BY <1>1, <2>1 DEF Serves
  <2> QED
    BY <1>1, <2>2
<1>5. \A s \in 1..(p - 1) : \E i \in DOMAIN os : sl[os[i]] = s
  <2>1. \A s \in 1..(p - 1) : s \in DOMAIN open
    BY <1>1
  <2> QED
    BY <1>1, <2>1 DEF Serves
<1>6. Fits(sl, os, f, p)
  BY <1>1, <1>3, <1>4, <1>5 DEF Fits
<1>7. ServesToo(new, sl, os, f, p)
  <2>1. \A i \in DOMAIN os : sl[os[i]] \in DOMAIN new /\ new[sl[os[i]]] = os[i]
    BY <1>1, <1>2 DEF Serves
  <2>2. \A s \in DOMAIN new : s = p \/ \E i \in DOMAIN os : sl[os[i]] = s
    BY <1>1, <1>2 DEF Serves
  <2> QED
    BY <1>1, <1>2, <2>1, <2>2 DEF ServesToo
<1> QED
  BY <1>6, <1>7

\* The caller takes slot p for f.
LEMMA SlotTaken ==
    ASSUME NEW sl \in [Files -> Slots], NEW os \in Seq(Files), SlotsInOrder(sl, os),
           NEW f \in Files, NEW p \in Slots, Fits(sl, os, f, p),
           NEW sl2, sl2 = [sl EXCEPT ![f] = p], NEW os2, os2 = Append(os, f)
    PROVE  /\ SlotsInOrder(sl2, os2)
           /\ \A open \in Seq(Files) :
                 ServesToo(open, sl, os, f, p) => Serves(open, sl2, os2, Len(os2))
<1> DEFINE n == Len(os)
<1>1. /\ n \in Nat /\ DOMAIN os = 1..n /\ DOMAIN os2 = 1..(n + 1) /\ os2[n + 1] = f
      /\ Len(os2) = n + 1 /\ n + 1 \in DOMAIN os2
      /\ \A i \in DOMAIN os : os2[i] = os[i] /\ os[i] \in Files /\ i \in DOMAIN os2
      /\ \A i \in DOMAIN os2 : i \in DOMAIN os \/ i = n + 1
      /\ p \in Nat /\ p > 0
  BY DEF Fits, Slots
<1>2. sl2[f] = p /\ \A g \in Files : g # f => sl2[g] = sl[g]
  OBVIOUS
<1>3. \A i \in DOMAIN os : sl2[os[i]] = sl[os[i]]
  <2> SUFFICES ASSUME NEW i \in DOMAIN os PROVE sl2[os[i]] = sl[os[i]]
    OBVIOUS
  <2>1. sl[os[i]] > 0 /\ os[i] \in Files
    BY DEF SlotsInOrder
  <2>2. CASE os[i] = f
    BY <1>2, <2>1, <2>2 DEF Fits
  <2>3. CASE os[i] # f
    BY <1>2, <2>1, <2>3
  <2> QED
    BY <2>2, <2>3
<1>4. \A i \in DOMAIN os2 : sl2[os2[i]] > 0
  BY <1>1, <1>2, <1>3 DEF SlotsInOrder
<1>5. \A g \in Files : sl2[g] > 0 => \E i \in DOMAIN os2 : os2[i] = g
  <2> SUFFICES ASSUME NEW g \in Files, sl2[g] > 0 PROVE \E i \in DOMAIN os2 : os2[i] = g
    OBVIOUS
  <2>1. CASE g = f
    BY <1>1, <2>1
  <2>2. CASE g # f
    <3>1. PICK i \in DOMAIN os : os[i] = g
      BY <1>2, <2>2 DEF SlotsInOrder
    <3> QED
      BY <1>1, <3>1
  <2> QED
    BY <2>1, <2>2
<1>6. \A g, h \in Files : sl2[g] = sl2[h] /\ sl2[g] > 0 => g = h
  BY <1>2 DEF SlotsInOrder, Fits
<1>7. ASSUME NEW i \in DOMAIN os2, NEW s \in 1..sl2[os2[i]]
      PROVE  \E j \in 1..i : sl2[os2[j]] = s
  <2>1. CASE i \in DOMAIN os
    <3>1. s \in 1..sl[os[i]]
      BY <1>1, <1>3, <2>1
    <3>2. PICK j \in 1..i : sl[os[j]] = s
      BY <2>1, <3>1 DEF SlotsInOrder
    <3>3. j \in DOMAIN os
      BY <1>1, <2>1, <3>2
    <3> QED
      BY <1>1, <1>3, <3>2, <3>3
  <2>2. CASE i = n + 1
    <3>1. s \in 1..p
      BY <1>1, <1>2, <2>2
    <3>2. CASE s = p
      <4>1. i \in 1..i
        BY <1>1, <2>2
      <4> QED
        BY <1>1, <1>2, <2>2, <3>2, <4>1
    <3>3. CASE s \in 1..(p - 1)
      <4>1. PICK j \in DOMAIN os : sl[os[j]] = s
        BY <3>3 DEF Fits
      <4>2. j \in 1..i
        BY <1>1, <2>2, <4>1
      <4> QED
        BY <1>1, <1>3, <4>1, <4>2
    <3> QED
      BY <1>1, <3>1, <3>2, <3>3
  <2> QED
    BY <1>1, <2>1, <2>2
<1>8. SlotsInOrder(sl2, os2)
  BY <1>4, <1>5, <1>6, <1>7 DEF SlotsInOrder
<1>9. ASSUME NEW open \in Seq(Files), ServesToo(open, sl, os, f, p)
      PROVE  Serves(open, sl2, os2, Len(os2))
  <2>1. ASSUME NEW i \in 1..Len(os2)
        PROVE  sl2[os2[i]] \in DOMAIN open /\ open[sl2[os2[i]]] = os2[i]
    <3>1. CASE i \in DOMAIN os
      BY <1>1, <1>3, <1>9, <3>1 DEF ServesToo
    <3>2. CASE i = n + 1
      BY <1>1, <1>2, <1>9, <3>2 DEF ServesToo
    <3> QED
      BY <1>1, <3>1, <3>2
  <2>2. ASSUME NEW s \in DOMAIN open
        PROVE  \E i \in 1..Len(os2) : sl2[os2[i]] = s
    <3>1. CASE s = p
      BY <1>1, <1>2, <3>1
    <3>2. CASE s # p
      <4>1. PICK i \in DOMAIN os : sl[os[i]] = s
        BY <1>9, <3>2 DEF ServesToo
      <4> QED
        BY <1>1, <1>3, <4>1
    <3> QED
      BY <3>1, <3>2
  <2> QED
    BY <2>1, <2>2 DEF Serves
<1> QED
  BY <1>8, <1>9


-----------------------------------------------------------------------------
(* What the two ends know of each other, as long as no call has come back   *)
(* closed.                                                                  *)

InStep == /\ Typed /\ CallIsMeant /\ LostCounted /\ ~refused
          /\ Turns /\ SlotsInOrder(slot, opens) /\ FilesThere
          /\ AnswersRight /\ Session /\ ListKept /\ ScanWhole

LEMMA WhatIsAsked ==
    ASSUME Typed, Turns, NEW a \in Reply, Takes(a)
    PROVE  /\ pc \in {"connect", "ping", "replay", "quit"} \/ Calling
           /\ pc \in {"connect", "ping"} => Head(req).op = "PING"
           /\ pc = "quit" => Head(req).op = "QUIT"
           /\ pc = "replay" => Head(req).op = "OPEN" /\ Head(req).file = opens[replayed]
           /\ Calling => Head(req) = call
<1>1. req # <<>> /\ Up
  BY DEF Takes
<1>2. pc \in {"closed", "connect", "idle", "first", "reap", "ping", "replay", "again",
              "quit", "over"}
  BY DEF Typed, TypeOK
<1>3. pc \notin {"closed", "over", "idle"}
  BY <1>1 DEF Turns, Up
<1> QED
  BY <1>1, <1>2, <1>3 DEF Turns, Calling

LEMMA SlotServed ==
    ASSUME Typed, SlotsInOrder(slot, opens), Serves(agent.open, slot, opens, Len(opens)),
           NEW f \in Files, slot[f] > 0
    PROVE  slot[f] \in DOMAIN agent.open /\ agent.open[slot[f]] = f
<1> USE TypesUnfolded
<1>1. PICK i \in DOMAIN opens : opens[i] = f
  BY DEF SlotsInOrder
<1>2. i \in 1..Len(opens)
  OBVIOUS
<1> QED
  BY <1>1, <1>2 DEF Serves

\* A request by slot goes to the file the caller means.
LEMMA CallServed ==
    ASSUME InStep, Up, Calling, req # <<>>, call.op \in BySlot
    PROVE  /\ call.file \in Files
           /\ call.slot \in DOMAIN agent.open /\ agent.open[call.slot] = call.file
<1>1. call.file \in Files
  BY TypesUnfolded DEF InStep, Meant, OnFiles, BySlot
<1>2. slot[call.file] > 0 /\ call.slot = slot[call.file]
  BY DEF InStep, CallIsMeant, CallMeans
<1>3. Serves(agent.open, slot, opens, Len(opens))
  BY DEF InStep, Session
<1> QED
  BY <1>1, <1>2, <1>3, SlotServed DEF InStep

LEMMA LearnsGives ==
    ASSUME Typed, NEW r \in Reply, Learns(r)
    PROVE  /\ call.op = "OPEN" /\ r.status = "ok" /\ r.slot > 0 =>
                 slot' = [slot EXCEPT ![call.file] = r.slot]
           /\ call.op # "OPEN" \/ r.status # "ok" => slot' = slot
           /\ call.op = "SELECT" =>
                 /\ scan'.due = recs[call.file] /\ scan'.end = "no"
                 /\ scan'.cut = (r.status # "ok")
           /\ call.op = "READNEXT" =>
                 /\ scan'.due = scan.due /\ scan'.cut = scan.cut /\ scan'.files = scan.files
                 /\ r.status # "ok" => scan'.end = "failed"
                 /\ r = Ok => scan'.end = "ended" /\ scan'.got = scan.got
                 /\ r.status = "ok" /\ r # Ok =>
                       scan'.end = scan.end /\ scan'.got = scan.got \cup {r.id}
           /\ call.op \notin {"SELECT", "READNEXT"} =>
                 /\ scan'.due \subseteq scan.due /\ scan'.cut = scan.cut
                 /\ scan'.files = scan.files /\ scan'.end = scan.end /\ scan'.got = scan.got
<1> USE RepliesAreReplies
<1>1. scan \in Walks
  BY DEF Typed, TypeOK, Walks
<1>2. /\ call.op = "OPEN" /\ r.status = "ok" /\ r.slot > 0 =>
            slot' = [slot EXCEPT ![call.file] = r.slot]
      /\ call.op # "OPEN" \/ r.status # "ok" => slot' = slot
  BY DEF Learns
<1>3. CASE call.op = "SELECT"
  <2>1. scan' = [scan EXCEPT !.due = recs[call.file], !.end = "no", !.cut = r.status # "ok"]
    BY <1>3 DEF Learns
  <2> QED
    BY <1>1, <1>2, <1>3, <2>1 DEF Walks
<1>4. CASE call.op = "READNEXT"
  <2>1. CASE r.status # "ok"
    <3>1. scan' = [scan EXCEPT !.end = "failed"]
      BY <1>4, <2>1 DEF Learns
    <3>2. r # Ok
      BY <2>1
    <3> QED
      BY <1>1, <1>2, <1>4, <2>1, <3>1, <3>2 DEF Walks
  <2>2. CASE r = Ok
    <3>1. scan' = [scan EXCEPT !.end = "ended"]
      BY <1>4, <2>2 DEF Learns
    <3> QED
      BY <1>1, <1>2, <1>4, <2>2, <3>1 DEF Walks
  <2>3. CASE r.status = "ok" /\ r # Ok
    <3>1. scan' = [scan EXCEPT !.got = @ \cup {r.id}]
      BY <1>4, <2>3 DEF Learns
    <3>2. PICK got : got = scan.got \cup {r.id}
      OBVIOUS
    <3>3. scan' = [scan EXCEPT !.got = got]
      BY <3>1, <3>2
    <3> QED
      BY <1>1, <1>2, <1>4, <2>3, <3>2, <3>3 DEF Walks
  <2> QED
    BY <2>1, <2>2, <2>3
<1>5. CASE call.op = "DELETE"
  <2>1. scan' = [scan EXCEPT !.due = @ \ {call.id}]
    BY <1>5 DEF Learns
  <2> QED
    BY <1>1, <1>2, <1>5, <2>1 DEF Walks
<1>6. CASE call.op \notin {"SELECT", "READNEXT", "DELETE"}
  <2>1. scan' = scan
    BY <1>6 DEF Learns
  <2> QED
    BY <1>2, <1>6, <2>1
<1> QED
  BY <1>3, <1>4, <1>5, <1>6

\* A call that comes back with an answer: whose it was, and what it leaves.
LEMMA ReturnsGive ==
    ASSUME InStep, NEW r \in Reply, Returns(r), ~refused'
    PROVE  /\ r \in Frames /\ r = Heard /\ r.status # "closed" /\ Right(r)
           /\ pc \in {"first", "again"} /\ pc' = "idle" /\ Calling /\ req = <<>>
           /\ agent' = agent /\ recs' = recs /\ exists' = exists /\ dropping' = dropping
           /\ Learns(r)
           /\ opens' = (IF call.op = "OPEN" /\ r.status = "ok" THEN Append(opens, call.file)
                        ELSE opens)
<1> USE RepliesAreReplies
<1>1. r = Heard /\ r.status # "closed" /\ pc \in {"first", "again"}
  BY DEF Returns, Return
<1>2. Hears /\ agent' = agent
  BY DEF Returns
<1>3. req = <<>> /\ r \in Frames
  BY <1>1, <1>2, HeardAlone DEF InStep
<1>4. Right(r)
  BY <1>1, <1>3 DEF InStep, AnswersRight, Calling
<1> QED
  BY <1>1, <1>3, <1>4 DEF Returns, Return, Calling, account


LEMMA StillMoves ==
    ASSUME Moves, ~\E r \in Reply : Returns(r)
    PROVE  slot' = slot /\ opens' = opens
<1>1. ASSUME NEW a \in Reply, Takes(a)
      PROVE  slot' = slot /\ opens' = opens
  BY <1>1 DEF Takes, client, caller
<1>2. ASSUME NEW q \in Meant, Issues(q)
      PROVE  slot' = slot /\ opens' = opens
  BY <1>2 DEF Issues
<1>3. CASE Fades
  BY <1>3 DEF Fades, client, caller
<1>4. CASE Closes \/ Connect \/ Begins \/ Ends \/ Reaps \/ Rebuild \/ Resumes
  BY <1>4 DEF Closes, Connect, Begins, Ends, Reaps, Rebuild, Resumes, caller
<1> QED
  BY <1>1, <1>2, <1>3, <1>4 DEF Moves

LEMMA SlotsKept ==
    ASSUME InStep, Moves, ~refused'
    PROVE  SlotsInOrder(slot, opens)'
<1> USE TypesUnfolded
<1>1. Typed /\ SlotsInOrder(slot, opens)
  BY DEF InStep
<1>2. ASSUME NEW r \in Reply, Returns(r)
      PROVE  SlotsInOrder(slot', opens')
  <2>1. CASE call.op = "OPEN" /\ r.status = "ok"
    <3>1. Fits(slot, opens, call.file, r.slot)
      BY <1>2, <2>1, ReturnsGive DEF Right
    <3>2. call.file \in Files /\ r.slot \in Slots /\ r.slot > 0
      BY <1>1, <2>1, <3>1 DEF Meant, OnFiles, Reply, Fits
    <3>3. slot' = [slot EXCEPT ![call.file] = r.slot] /\ opens' = Append(opens, call.file)
      BY <1>1, <1>2, <2>1, <3>2, ReturnsGive, LearnsGives
    <3> QED
      BY <1>1, <3>1, <3>2, <3>3, SlotTaken
  <2>2. CASE ~(call.op = "OPEN" /\ r.status = "ok")
    <3>1. slot' = slot /\ opens' = opens
      BY <1>1, <1>2, <2>2, ReturnsGive, LearnsGives
    <3> QED
      BY <1>1, <3>1
  <2> QED
    BY <2>1, <2>2
<1>3. CASE ~\E r \in Reply : Returns(r)
  BY <1>1, <1>3, StillMoves
<1> QED
  BY <1>2, <1>3

LEMMA FilesThereKept ==
    ASSUME InStep, Moves, ~refused'
    PROVE  FilesThere'
<1> USE TypesUnfolded
<1>1. Typed /\ FilesThere /\ CallIsMeant /\ Turns
  BY DEF InStep
<1>2. ASSUME NEW a \in Reply, Takes(a)
      PROVE  FilesThere'
  <2>1. opens' = opens /\ dropping' = dropping
    BY <1>2 DEF Takes, client, caller
  <2>2. Head(req).op # "DELETEFILE" => exists \subseteq exists'
    BY <1>2 DEF Takes, Does
  <2>3. Head(req).op = "DELETEFILE" => dropping
    BY <1>1, <1>2, WhatIsAsked DEF CallIsMeant, CallMeans
  <2> QED
    BY <1>1, <2>1, <2>2, <2>3 DEF FilesThere
<1>3. ASSUME NEW r \in Reply, Returns(r)
      PROVE  FilesThere'
  <2>1. CASE call.op = "OPEN" /\ r.status = "ok"
    <3>1. dropping \/ call.file \in exists
      BY <1>3, <2>1, ReturnsGive DEF Right
    <3>2. call.file \in Files
      BY <1>1, <2>1 DEF Meant, OnFiles
    <3>3. /\ opens' = Append(opens, call.file) /\ exists' = exists /\ dropping' = dropping
      BY <1>3, <2>1, ReturnsGive
    <3>4. \A i \in DOMAIN opens' : opens'[i] = call.file \/ (i \in DOMAIN opens /\ opens'[i] = opens[i])
      BY <3>2, <3>3
    <3> QED
      BY <1>1, <3>1, <3>3, <3>4 DEF FilesThere
  <2>2. CASE ~(call.op = "OPEN" /\ r.status = "ok")
    BY <1>1, <1>3, <2>2, ReturnsGive DEF FilesThere
  <2> QED
    BY <2>1, <2>2
<1>4. ASSUME NEW q \in Meant, Issues(q)
      PROVE  FilesThere'
  BY <1>1, <1>4 DEF Issues, FilesThere, account
<1>5. CASE Fades \/ Closes \/ Connect \/ Begins \/ Ends \/ Reaps \/ Rebuild \/ Resumes
  <2>1. opens' = opens /\ exists' = exists /\ dropping' = dropping
    BY <1>5 DEF Fades, Closes, Connect, Begins, Ends, Reaps, Rebuild, Resumes, account, client,
                caller
  <2> QED
    BY <1>1, <2>1 DEF FilesThere
<1> QED
  BY <1>2, <1>3, <1>4, <1>5 DEF Moves

\* What an OPEN of the call does, and what one of the replay does.
LEMMA CallOpens ==
    ASSUME InStep, NEW a \in Reply, Takes(a), Calling, call.op = "OPEN", a.status = "ok"
    PROVE  /\ Fits(slot, opens, call.file, a.slot)
           /\ dropping \/ call.file \in exists
           /\ ServesToo(agent'.open, slot, opens, call.file, a.slot)
<1> USE TypesUnfolded
<1>1. Typed /\ Turns /\ SlotsInOrder(slot, opens) /\ FilesThere
  BY DEF InStep
<1>2. Head(req) = call /\ call.file \in Files
  BY <1>1, WhatIsAsked DEF Meant, OnFiles
<1>3. Serves(agent.open, slot, opens, Len(opens))
  BY DEF InStep, Session, Takes
<1>4. OpensIt(call.file, a)
  BY <1>2 DEF Takes
<1>5. CASE /\ a.slot \in DOMAIN agent.open /\ agent.open[a.slot] = call.file
           /\ agent'.open = agent.open
  <2>1. Fits(slot, opens, call.file, a.slot) /\ ServesToo(agent.open, slot, opens, call.file, a.slot)
    BY <1>1, <1>2, <1>3, <1>5, OpenHeld
  <2>2. Len(opens) \in 0..Len(opens)
    OBVIOUS
  <2>3. \E i \in 1..Len(opens) : opens[i] = call.file
    <3>1. PICK i \in 1..Len(opens) : /\ opens[i] = agent.open[a.slot]
                                     /\ slot[agent.open[a.slot]] = a.slot
      BY <1>1, <1>3, <1>5, <2>2, ServedFile
    <3> QED
      BY <1>5, <3>1
  <2>4. dropping \/ call.file \in exists
    BY <1>1, <2>3 DEF FilesThere
  <2> QED
    BY <1>5, <2>1, <2>4
<1>6. CASE /\ a.slot = Len(agent.open) + 1 /\ call.file \in exists
           /\ \A k \in DOMAIN agent.open : agent.open[k] # call.file
           /\ agent'.open = Append(agent.open, call.file)
  <2>1. PICK new : new = Append(agent.open, call.file)
    OBVIOUS
  <2>2. Fits(slot, opens, call.file, a.slot) /\ ServesToo(new, slot, opens, call.file, a.slot)
    BY <1>1, <1>2, <1>3, <1>6, <2>1, OpenNew
  <2> QED
    BY <1>6, <2>1, <2>2
<1> QED
  BY <1>4, <1>5, <1>6 DEF OpensIt

LEMMA ReplayOpens ==
    ASSUME InStep, NEW a \in Reply, Takes(a), pc = "replay"
    PROVE  /\ a.status = "ok" => Serves(agent'.open, slot, opens, replayed)
           /\ a.status = "fail" => dropping
<1> USE TypesUnfolded
<1>1. Typed /\ Turns /\ SlotsInOrder(slot, opens) /\ FilesThere
  BY DEF InStep
<1>2. replayed \in 1..Len(opens) /\ opens[replayed] \in Files
  BY <1>1 DEF Turns
<1>3. Serves(agent.open, slot, opens, replayed - 1)
  BY DEF InStep, Session, Takes
<1>4. OpensIt(opens[replayed], a)
  BY <1>1, WhatIsAsked DEF Takes
<1>5. CASE /\ a.slot \in DOMAIN agent.open /\ agent.open[a.slot] = opens[replayed]
           /\ agent'.open = agent.open /\ a.status = "ok"
  <2>1. Serves(agent.open, slot, opens, replayed)
    BY <1>1, <1>2, <1>3, <1>5, ReplayHeld
  <2> QED
    BY <1>5, <2>1
<1>6. CASE /\ a.status = "ok"
           /\ \A k \in DOMAIN agent.open : agent.open[k] # opens[replayed]
           /\ agent'.open = Append(agent.open, opens[replayed])
  <2>1. PICK new : new = Append(agent.open, opens[replayed])
    OBVIOUS
  <2>2. Serves(new, slot, opens, replayed)
    BY <1>1, <1>2, <1>3, <1>6, <2>1, ReplayNew
  <2> QED
    BY <1>6, <2>1, <2>2
<1>7. CASE /\ a.status = "fail" /\ (opens[replayed] \notin exists \/ Len(agent.open) >= Pool)
           /\ \A k \in DOMAIN agent.open : agent.open[k] # opens[replayed]
  <2>1. slot[opens[replayed]] = Len(agent.open) + 1
    BY <1>1, <1>2, <1>3, <1>7, NextSlot
  <2>2. Len(agent.open) < Pool
    <3>4. slot[opens[replayed]] \in Slots
      BY <1>1, <1>2
    <3>1. slot[opens[replayed]] \in 0..Pool
      BY <3>4 DEF Slots
    <3>2. Len(agent.open) \in Nat /\ Pool \in Nat
      BY ConstantsAssumption
    <3> QED
      BY <2>1, <3>1, <3>2
  <2>3. opens[replayed] \notin exists
    BY <1>7, <2>2, ConstantsAssumption
  <2>4. replayed \in DOMAIN opens
    BY <1>2
  <2> QED
    BY <1>1, <1>7, <2>3, <2>4 DEF FilesThere
<1> QED
  BY <1>4, <1>5, <1>6, <1>7 DEF OpensIt


\* Right says the same where nothing it speaks of has changed.
SameCall == /\ call' = call /\ slot' = slot /\ opens' = opens /\ scan' = scan
            /\ dropping' = dropping

LEMMA AnswersAfterTakes ==
    ASSUME InStep, NEW a \in Reply, Takes(a)
    PROVE  AnswersRight'
<1> USE TypesUnfolded
<1>1. Typed /\ Turns /\ CallIsMeant
  BY DEF InStep
<1>2. Frames' = {a} /\ req # <<>> /\ Up
  BY <1>1, FramesTaken DEF Takes
<1>3. pc' = pc /\ SameCall
  BY DEF Takes, SameCall, client, caller, seen
<1>4. CASE Calling
  <2>1. Head(req) = call /\ Does(call, a)
    BY <1>1, <1>4, WhatIsAsked DEF Takes
  <2>2. call.op = "OPEN" /\ a.status = "ok" =>
            /\ Fits(slot', opens', call'.file, a.slot)
            /\ dropping' \/ call'.file \in exists'
    <3> SUFFICES ASSUME call.op = "OPEN", a.status = "ok"
                 PROVE  /\ Fits(slot', opens', call'.file, a.slot)
                        /\ dropping' \/ call'.file \in exists'
      OBVIOUS
    <3>1. Fits(slot, opens, call.file, a.slot) /\ (dropping \/ call.file \in exists)
      BY <1>4, CallOpens
    <3>2. exists \subseteq exists'
      BY <2>1 DEF Does
    <3> QED
      BY <1>3, <3>1, <3>2 DEF SameCall
  <2>3. call.op = "READ" /\ a.status = "ok" => a.file = call.file /\ a.id = call.id
    <3> SUFFICES ASSUME call.op = "READ", a.status = "ok"
                 PROVE  a.file = call.file /\ a.id = call.id
      OBVIOUS
    <3>1. agent.open[call.slot] = call.file
      BY <1>2, <1>4, CallServed DEF BySlot
    <3> QED
      BY <2>1, <3>1 DEF Does
  <2>4. call.op = "READNEXT" /\ a = Ok /\ Whole => scan.due \subseteq scan.got
    <3> SUFFICES ASSUME call.op = "READNEXT", a = Ok, Whole
                 PROVE  scan.due \subseteq scan.got
      OBVIOUS
    <3>1. agent.list = {}
      BY <2>1 DEF Does
    <3>2. scan.end = "no"
      BY <1>1 DEF CallIsMeant, CallMeans
    <3>3. pc \in {"first", "reap"}
      BY <1>4, <3>2 DEF InStep, ListKept, Whole, Calling
    <3>4. scan.due \subseteq scan.got \cup agent.list
      BY <1>2, <3>2, <3>3 DEF InStep, ListKept
    <3> QED
      BY <3>1, <3>4
  <2>5. call.op = "READNEXT" => a.status # "fail"
    BY <2>1 DEF Does
  <2>6. Right(a)'
    BY <1>3, <2>2, <2>3, <2>4, <2>5 DEF Right, SameCall, Whole
  <2> QED
    BY <1>2, <1>3, <1>4, <2>6 DEF AnswersRight, Calling
<1>5. CASE pc \in {"connect", "ping"}
  <2>1. Head(req).op = "PING"
    BY <1>1, <1>5, WhatIsAsked
  <2>2. a.status = "ok"
    BY <2>1 DEF Takes, Does
  <2> QED
    BY <1>2, <1>3, <1>5, <2>2 DEF AnswersRight, Calling
<1>6. CASE pc = "replay"
  BY <1>2, <1>3, <1>6, ReplayOpens DEF AnswersRight, Calling, SameCall
<1>7. CASE pc = "quit"
  BY <1>3, <1>7 DEF AnswersRight, Calling
<1> QED
  BY <1>1, <1>4, <1>5, <1>6, <1>7, WhatIsAsked

LEMMA AnswersKept ==
    ASSUME InStep, Moves, ~refused'
    PROVE  AnswersRight'
<1> USE RepliesAreReplies
<1>1. Typed /\ Turns /\ AnswersRight
  BY DEF InStep
<1>2. ASSUME NEW a \in Reply, Takes(a)
      PROVE  AnswersRight'
  BY <1>2, AnswersAfterTakes
<1>3. CASE Fades
  <2>1. pc' = pc /\ SameCall /\ exists' = exists
    BY <1>3 DEF Fades, SameCall, account, client, caller, seen
  <2>2. \A r \in Frames' : r \in Frames \/ r.status = "closed"
    BY <1>1, <1>3, FramesFade
  <2>3. ASSUME NEW r, Right(r)
        PROVE  Right(r)'
    BY <2>1, <2>3 DEF Right, SameCall, Whole
  <2> QED
    BY <1>1, <2>1, <2>2, <2>3 DEF AnswersRight, Calling, SameCall
<1>4. CASE Reaps
  <2>1. pc = "first" /\ pc' = "reap" /\ SameCall /\ exists' = exists /\ Hears /\ agent' = agent
    BY <1>4 DEF Reaps, SameCall, account
  <2>2. \A r \in Frames' : r \in Frames
    BY <1>1, <2>1, FramesHeard
  <2>3. ASSUME NEW r, Right(r)
        PROVE  Right(r)'
    BY <2>1, <2>3 DEF Right, SameCall, Whole
  <2> QED
    BY <1>1, <2>1, <2>2, <2>3 DEF AnswersRight, Calling
<1>5. CASE Resumes
  <2>1. pc' \in {"replay", "again"} /\ Hears /\ agent' = agent /\ Heard.status # "closed"
    BY <1>5 DEF Resumes, Resume
  <2>2. \A r \in Frames' : r.status = "closed"
    BY <1>1, <2>1, HeardAlone
  <2> QED
    BY <2>1, <2>2 DEF AnswersRight, Calling
<1>6. ASSUME NEW q \in Meant, Issues(q)
      PROVE  AnswersRight'
  <2>1. pc' = "first" /\ Frames' = Frames
    BY <1>6 DEF Issues, Frames
  <2>2. \A r \in Frames' : r.status = "closed"
    BY <1>1, <1>6, <2>1 DEF Issues, Turns
  <2> QED
    BY <2>1, <2>2 DEF AnswersRight, Calling
<1>7. CASE Connect \/ Rebuild
  <2>1. Frames' = {}
    <3>1. agent' = Fresh /\ rsp' = <<>>
      BY <1>7 DEF Connect, Rebuild, Spawn
    <3> QED
      BY <3>1, GoneIs DEF Frames
  <2> QED
    BY <2>1 DEF AnswersRight
<1>8. CASE Closes \/ Begins \/ Ends
  <2>1. pc' \in {"quit", "idle", "over"}
    BY <1>8 DEF Closes, Begins, Ends
  <2> QED
    BY <2>1 DEF AnswersRight, Calling
<1>9. ASSUME NEW r \in Reply, Returns(r)
      PROVE  AnswersRight'
  <2>1. pc' = "idle"
    BY <1>9 DEF Returns, Return
  <2> QED
    BY <2>1 DEF AnswersRight, Calling
<1> QED
  BY <1>2, <1>3, <1>4, <1>5, <1>6, <1>7, <1>8, <1>9 DEF Moves

LEMMA SessionAfterTakes ==
    ASSUME InStep, NEW a \in Reply, Takes(a)
    PROVE  Session'
<1> USE TypesUnfolded
<1>1. Typed /\ Turns
  BY DEF InStep
<1>2. Frames' = {a} /\ req # <<>> /\ req' = <<>> /\ Up
  BY <1>1, FramesTaken DEF Takes
<1>3. pc' = pc /\ slot' = slot /\ opens' = opens /\ replayed' = replayed /\ call' = call
  BY DEF Takes, client, caller
<1>4. CASE Calling
  <2>1. Head(req) = call
    BY <1>1, <1>4, WhatIsAsked
  <2>2. Serves(agent.open, slot, opens, Len(opens))
    BY <1>2, <1>4 DEF InStep, Session
  <2>3. call.op = "OPEN" /\ a.status = "ok" => ServesToo(agent'.open, slot, opens, call.file, a.slot)
    BY <1>4, CallOpens
  <2>4. call.op # "OPEN" \/ a.status # "ok" => agent'.open = agent.open
    BY <2>1 DEF Takes, OpensIt
  <2>5. /\ call'.op = "OPEN" /\ a.status = "ok" =>
              ServesToo(agent'.open, slot', opens', call'.file, a.slot)
        /\ call'.op # "OPEN" \/ a.status # "ok" => Serves(agent'.open, slot', opens', Len(opens'))
    BY <1>3, <2>2, <2>3, <2>4
  <2> QED
    BY <1>2, <1>3, <1>4, <2>5 DEF Session, Calling
<1>5. CASE pc = "replay"
  <2>1. a.status = "ok" => Serves(agent'.open, slot', opens', replayed')
    BY <1>3, <1>5, ReplayOpens
  <2> QED
    BY <1>2, <1>3, <1>5, <2>1 DEF Session, Calling
<1>6. CASE pc \in {"connect", "ping", "quit"}
  <2>1. Head(req).op # "OPEN"
    BY <1>1, <1>6, WhatIsAsked
  <2>2. agent'.open = agent.open
    BY <2>1 DEF Takes
  <2>3. /\ pc \in {"connect", "quit"} => Serves(agent.open, slot, opens, Len(opens))
        /\ pc = "ping" => Serves(agent.open, slot, opens, 0)
    BY <1>2 DEF InStep, Session
  <2> QED
    BY <1>3, <1>6, <2>2, <2>3 DEF Session, Calling
<1> QED
  BY <1>1, <1>4, <1>5, <1>6, WhatIsAsked

LEMMA NothingServed ==
    ASSUME NEW sl, NEW os, NEW open, open = <<>>
    PROVE  Serves(open, sl, os, 0)
BY DEF Serves

LEMMA SessionKept ==
    ASSUME InStep, Moves, ~refused'
    PROVE  Session'
<1> USE TypesUnfolded, RepliesAreReplies, GoneIs
<1>1. Typed /\ Turns /\ Session
  BY DEF InStep
<1>2. ASSUME NEW a \in Reply, Takes(a)
      PROVE  Session'
  BY <1>2, SessionAfterTakes
<1>3. CASE Fades
  <2>1. /\ pc' = pc /\ slot' = slot /\ opens' = opens /\ replayed' = replayed /\ call' = call
        /\ Up' => req' = req
    BY <1>3 DEF Fades, client, caller, Up
  <2>2. Up' => Up /\ agent'.open = agent.open /\ \A r \in Frames' : r \in Frames
    BY <1>1, <1>3, FramesFade DEF Fades, Up
  <2> QED
    BY <1>1, <2>1, <2>2 DEF Session, Calling
<1>4. CASE Reaps
  <2>1. /\ pc = "first" /\ pc' = "reap" /\ Hears /\ agent' = agent /\ Up' = Up
        /\ slot' = slot /\ opens' = opens /\ replayed' = replayed /\ call' = call /\ req' = req
    BY <1>4 DEF Reaps, Up
  <2>2. \A r \in Frames' : r \in Frames
    BY <1>1, <2>1, FramesHeard
  <2> QED
    BY <1>1, <2>1, <2>2 DEF Session, Calling
<1>5. CASE Resumes
  <2>1. /\ Hears /\ agent' = agent /\ Up' = Up /\ Heard.status = "ok"
        /\ slot' = slot /\ opens' = opens /\ call' = call /\ pc \in {"ping", "replay"}
    BY <1>5 DEF Resumes, Up
  <2>2. Heard \in Frames /\ (Up => Frames' = {})
    BY <1>1, <2>1, HeardAlone
  <2>3. Up => Serves(agent.open, slot, opens, replayed)
    BY <1>1, <2>1, <2>2 DEF Session, Turns
  <2>4. CASE replayed < Len(opens)
    <3>1. pc' = "replay" /\ replayed' = replayed + 1
      BY <1>5, <2>4 DEF Resumes, Resume
    <3>2. replayed' - 1 = replayed
      BY <1>1, <3>1
    <3> QED
      BY <2>1, <2>2, <2>3, <3>1, <3>2 DEF Session, Calling
  <2>5. CASE ~(replayed < Len(opens))
    <3>1. pc' = "again"
      BY <1>5, <2>5 DEF Resumes, Resume
    <3>2. replayed = Len(opens)
      BY <1>1, <2>5
    <3> QED
      BY <2>1, <2>2, <2>3, <3>1, <3>2 DEF Session, Calling
  <2> QED
    BY <2>4, <2>5
<1>6. ASSUME NEW q \in Meant, Issues(q)
      PROVE  Session'
  <2>1. /\ pc = "idle" /\ pc' = "first" /\ Frames' = Frames /\ Up' = Up /\ agent' = agent
        /\ slot' = slot /\ opens' = opens
    BY <1>6 DEF Issues, Frames, Up
  <2>2. Up => Frames' = {}
    BY <1>1, <2>1 DEF Turns
  <2> QED
    BY <1>1, <2>1, <2>2 DEF Session, Calling
<1>7. CASE Connect
  <2>1. agent' = Fresh /\ pc' = "connect" /\ opens' = opens
    BY <1>7 DEF Connect, Spawn
  <2>2. opens = <<>> /\ Len(opens') = 0
    BY <1>1, <1>7, <2>1 DEF Connect, Turns
  <2>3. Serves(agent'.open, slot', opens', Len(opens'))
    BY <2>1, <2>2, NothingServed
  <2> QED
    BY <2>1, <2>3 DEF Session, Calling
<1>8. CASE Rebuild
  <2>1. agent' = Fresh /\ pc' = "ping"
    BY <1>8 DEF Rebuild, Spawn
  <2>2. Serves(agent'.open, slot', opens', 0)
    BY <2>1, NothingServed
  <2> QED
    BY <2>1, <2>2 DEF Session, Calling
<1>9. CASE Closes \/ Begins
  <2>1. /\ pc \in {"idle", "connect"} /\ pc' \in {"quit", "idle"} /\ agent' = agent /\ Up' = Up
        /\ slot' = slot /\ opens' = opens
    BY <1>9 DEF Closes, Begins, Up, caller
  <2> QED
    BY <1>1, <2>1 DEF Session, Calling
<1>10. CASE Ends
  <2>1. agent' = Gone
    BY <1>10 DEF Ends
  <2> QED
    BY <2>1 DEF Session, Up
<1>11. ASSUME NEW r \in Reply, Returns(r)
       PROVE  Session'
  <2>1. pc' = "idle" /\ agent' = agent /\ Up' = Up /\ r \in Frames /\ Calling
    BY <1>11, ReturnsGive DEF Up
  <2>2. CASE call.op = "OPEN" /\ r.status = "ok"
    <3>1. Fits(slot, opens, call.file, r.slot)
      BY <1>11, <2>2, ReturnsGive DEF Right
    <3>2. call.file \in Files /\ r.slot \in Slots /\ r.slot > 0
      BY <1>1, <2>2, <3>1 DEF Meant, OnFiles, Reply, Fits
    <3>3. slot' = [slot EXCEPT ![call.file] = r.slot] /\ opens' = Append(opens, call.file)
      BY <1>1, <1>11, <2>2, <3>2, ReturnsGive, LearnsGives
    <3>4. Up => ServesToo(agent.open, slot, opens, call.file, r.slot)
      BY <1>1, <2>1, <2>2 DEF Session
    <3>5. Up => Serves(agent.open, slot', opens', Len(opens'))
      BY <3>1, <3>2, <3>3, <3>4, SlotTaken DEF InStep
    <3> QED
      BY <2>1, <3>5 DEF Session, Calling
  <2>3. CASE ~(call.op = "OPEN" /\ r.status = "ok")
    <3>1. slot' = slot /\ opens' = opens
      BY <1>1, <1>11, <2>3, ReturnsGive, LearnsGives
    <3>2. Up => Serves(agent.open, slot, opens, Len(opens))
      BY <1>1, <2>1, <2>3 DEF Session
    <3> QED
      BY <2>1, <3>1, <3>2 DEF Session, Calling
  <2> QED
    BY <2>2, <2>3
<1> QED
  BY <1>2, <1>3, <1>4, <1>5, <1>6, <1>7, <1>8, <1>9, <1>10, <1>11 DEF Moves


-----------------------------------------------------------------------------
(* The scan.                                                                *)

LEMMA ListAfterTakes ==
    ASSUME InStep, NEW a \in Reply, Takes(a)
    PROVE  ListKept'
<1> USE TypesUnfolded
<1>1. Typed /\ Turns /\ CallIsMeant /\ ListKept
  BY DEF InStep
<1>2. Frames' = {a} /\ req # <<>> /\ req' = <<>> /\ Up
  BY <1>1, FramesTaken DEF Takes
<1>3. pc' = pc /\ scan' = scan /\ call' = call /\ Whole' = Whole
  BY DEF Takes, client, seen, Whole
<1>4. CASE Calling
  <2>1. Head(req) = call /\ Does(call, a)
    BY <1>1, <1>4, WhatIsAsked DEF Takes
  <2>2. ASSUME Whole, scan.end = "no", pc \in {"first", "reap"}
        PROVE  /\ call.op = "READNEXT" => scan.due \subseteq scan.got \cup agent'.list \cup {a.id}
               /\ call.op # "READNEXT" => scan.due \subseteq scan.got \cup agent'.list
    <3>1. scan.due \subseteq scan.got \cup agent.list
      BY <1>1, <1>2, <2>2 DEF ListKept
    <3>2. call.op = "READNEXT" => agent.list \subseteq agent'.list \cup {a.id}
      BY <2>1 DEF Does
    <3>3. call.op \notin {"SELECT", "FILELIST"}
      BY <1>1, <2>2 DEF CallIsMeant, CallMeans, Whole
    <3>4. call.op # "READNEXT" => agent'.list = agent.list
      BY <2>1, <3>3 DEF Does
    <3> QED
      BY <3>1, <3>2, <3>4
  <2>3. ASSUME call.op = "SELECT", a.status = "ok"
        PROVE  agent'.list = recs'[call.file]
    <3>1. agent.open[call.slot] = call.file
      BY <1>2, <1>4, <2>3, CallServed DEF BySlot
    <3> QED
      BY <2>1, <2>3, <3>1 DEF Does
  <2> QED
    BY <1>1, <1>2, <1>3, <1>4, <2>2, <2>3 DEF ListKept, Calling
<1>5. CASE pc \in {"connect", "ping", "replay", "quit"}
  BY <1>1, <1>3, <1>5 DEF ListKept, Calling
<1> QED
  BY <1>1, <1>4, <1>5, WhatIsAsked

LEMMA ListAfterReturns ==
    ASSUME InStep, NEW r \in Reply, Returns(r), ~refused'
    PROVE  ListKept'
<1> USE TypesUnfolded, RepliesAreReplies
<1>1. Typed /\ Turns /\ CallIsMeant /\ ListKept
  BY DEF InStep
<1>2. /\ r \in Frames /\ r.status # "closed" /\ Right(r) /\ pc \in {"first", "again"}
      /\ pc' = "idle" /\ Calling /\ agent' = agent /\ Up' = Up /\ recs' = recs /\ Learns(r)
  BY ReturnsGive DEF Up
<1>3. SUFFICES ASSUME Up, Whole', scan'.end = "no"
               PROVE  scan'.due \subseteq scan'.got \cup agent.list
  BY <1>2 DEF ListKept, Calling
<1>4. CASE call.op = "SELECT"
  <2>1. scan'.due = recs[call.file] /\ scan'.cut = (r.status # "ok")
    BY <1>1, <1>2, <1>4, LearnsGives
  <2>2. r.status = "ok"
    BY <1>3, <2>1 DEF Whole
  <2>3. agent.list = recs[call.file]
    BY <1>1, <1>2, <1>3, <1>4, <2>2 DEF ListKept
  <2> QED
    BY <2>1, <2>3
<1>5. CASE call.op = "READNEXT"
  <2>1. /\ scan'.due = scan.due /\ scan'.cut = scan.cut /\ scan'.files = scan.files
        /\ r.status # "ok" => scan'.end = "failed"
        /\ r = Ok => scan'.end = "ended"
        /\ r.status = "ok" /\ r # Ok =>
              scan'.end = scan.end /\ scan'.got = scan.got \cup {r.id}
    BY <1>1, <1>2, <1>5, LearnsGives
  <2>2. Whole /\ scan.end = "no" /\ scan'.got = scan.got \cup {r.id}
    BY <1>3, <2>1 DEF Whole
  <2>3. pc = "first"
    BY <1>1, <1>2, <2>2 DEF ListKept, Whole
  <2>4. scan.due \subseteq scan.got \cup agent.list \cup {r.id}
    BY <1>1, <1>2, <1>3, <1>5, <2>2, <2>3 DEF ListKept
  <2> QED
    BY <2>1, <2>2, <2>4
<1>6. CASE call.op \notin {"SELECT", "READNEXT"}
  <2>1. /\ scan'.due \subseteq scan.due /\ scan'.cut = scan.cut
        /\ scan'.files = scan.files /\ scan'.end = scan.end /\ scan'.got = scan.got
    BY <1>1, <1>2, <1>6, LearnsGives
  <2>2. Whole /\ scan.end = "no"
    BY <1>3, <2>1 DEF Whole
  <2>3. pc = "first"
    BY <1>1, <1>2, <2>2 DEF ListKept, Whole
  <2>4. scan.due \subseteq scan.got \cup agent.list
    BY <1>1, <1>2, <1>3, <1>6, <2>2, <2>3 DEF ListKept
  <2> QED
    BY <2>1, <2>4
<1> QED
  BY <1>4, <1>5, <1>6

\* What issuing a call makes of the scan.
LEMMA IssuesScan ==
    ASSUME Typed, NEW q \in Meant, Issues(q)
    PROVE  \/ scan'.end = "ended" /\ scan'.due = {}
           \/ scan.end = "no" /\ scan' = scan
           \/ scan'.end = "no" /\ ~Whole'
<1>1. scan \in Walks
  BY DEF Typed, TypeOK, Walks
<1>2. CASE scan.end = "no" /\ scan' = [scan EXCEPT !.files = "within"]
  BY <1>1, <1>2 DEF Walks, Whole
<1> QED
  BY <1>2 DEF Issues

LEMMA RebuildScan ==
    ASSUME Typed, Rebuild
    PROVE  /\ scan'.end = scan.end /\ scan'.due = scan.due /\ scan'.got = scan.got
           /\ scan'.files = scan.files /\ (scan.cut => scan'.cut)
           /\ scan'.end # "no" \/ scan'.cut
<1>1. scan \in Walks
  BY DEF Typed, TypeOK, Walks
<1>2. scan' = [scan EXCEPT !.cut = @ \/ scan.end = "no"]
  BY DEF Rebuild
<1>3. CASE scan.end = "no"
  <2>1. scan' = [scan EXCEPT !.cut = TRUE]
    BY <1>1, <1>2, <1>3 DEF Walks
  <2> QED
    BY <1>1, <2>1 DEF Walks
<1>4. CASE scan.end # "no"
  <2>1. scan' = [scan EXCEPT !.cut = scan.cut]
    BY <1>1, <1>2, <1>4 DEF Walks
  <2> QED
    BY <1>1, <1>4, <2>1 DEF Walks
<1> QED
  BY <1>3, <1>4

LEMMA ListKeptOn ==
    ASSUME InStep, Moves, ~refused'
    PROVE  ListKept'
<1> USE TypesUnfolded, RepliesAreReplies, GoneIs
<1>1. Typed /\ Turns /\ ListKept
  BY DEF InStep
<1>2. ASSUME NEW a \in Reply, Takes(a)
      PROVE  ListKept'
  BY <1>2, ListAfterTakes
<1>3. ASSUME NEW r \in Reply, Returns(r)
      PROVE  ListKept'
  BY <1>3, ListAfterReturns
<1>4. CASE Fades
  <2>1. /\ pc' = pc /\ scan' = scan /\ call' = call /\ recs' = recs /\ Whole' = Whole
        /\ Up' => req' = req
    BY <1>4 DEF Fades, account, client, seen, Whole, Up
  <2>2. Up' => Up /\ agent'.list = agent.list /\ \A r \in Frames' : r \in Frames
    BY <1>1, <1>4, FramesFade DEF Fades, Up
  <2> QED
    BY <1>1, <2>1, <2>2 DEF ListKept, Calling
<1>5. CASE Reaps
  <2>1. /\ pc = "first" /\ pc' = "reap" /\ Hears /\ agent' = agent /\ Up' = Up /\ Whole' = Whole
        /\ scan' = scan /\ call' = call /\ req' = req /\ recs' = recs
    BY <1>5 DEF Reaps, Up, Whole, account
  <2>2. \A r \in Frames' : r \in Frames
    BY <1>1, <2>1, FramesHeard
  <2> QED
    BY <1>1, <2>1, <2>2 DEF ListKept, Calling
<1>6. CASE Resumes
  <2>1. /\ Hears /\ agent' = agent /\ Up' = Up /\ Heard.status = "ok" /\ scan' = scan
        /\ pc \in {"ping", "replay"} /\ pc' \in {"replay", "again"}
    BY <1>6 DEF Resumes, Resume, Up
  <2>2. Up => Frames' = {}
    BY <1>1, <2>1, HeardAlone
  <2> QED
    BY <1>1, <2>1, <2>2 DEF ListKept, Calling
<1>7. ASSUME NEW q \in Meant, Issues(q)
      PROVE  ListKept'
  <2>1. /\ pc = "idle" /\ pc' = "first" /\ Frames' = Frames /\ Up' = Up /\ agent' = agent
    BY <1>7 DEF Issues, Frames, Up
  <2>2. Up => Frames' = {}
    BY <1>1, <2>1 DEF Turns
  <2>3. Whole' /\ scan'.end = "no" => scan' = scan /\ Whole /\ scan.end = "no"
    BY <1>1, <1>7, IssuesScan DEF Whole
  <2> QED
    BY <1>1, <2>1, <2>2, <2>3 DEF ListKept, Calling
<1>8. CASE Connect
  <2>1. pc = "closed" /\ pc' = "connect" /\ scan' = scan
    BY <1>8 DEF Connect, Spawn, seen
  <2> QED
    BY <1>1, <2>1 DEF ListKept, Calling
<1>9. CASE Rebuild
  <2>1. pc' = "ping"
    BY <1>9 DEF Rebuild, Spawn
  <2> QED
    BY <1>1, <1>9, <2>1, RebuildScan DEF ListKept, Calling
<1>10. CASE Begins
  <2>1. pc = "connect" /\ pc' = "idle" /\ scan' = scan
    BY <1>10 DEF Begins, seen
  <2> QED
    BY <1>1, <2>1 DEF ListKept, Calling, Whole
<1>11. CASE Closes \/ Ends
  <2>1. pc' \in {"quit", "over"}
    BY <1>11 DEF Closes, Ends
  <2> QED
    BY <2>1 DEF ListKept, Calling
<1> QED
  BY <1>2, <1>3, <1>4, <1>5, <1>6, <1>7, <1>8, <1>9, <1>10, <1>11 DEF Moves

LEMMA ScanKeptOn ==
    ASSUME InStep, Moves, ~refused'
    PROVE  ScanWhole'
<1> USE TypesUnfolded, RepliesAreReplies
<1>1. Typed /\ ScanWhole /\ CallIsMeant /\ ~refused
  BY DEF InStep
<1>2. ASSUME NEW q \in Meant, Issues(q)
      PROVE  ScanWhole'
  BY <1>1, <1>2, IssuesScan DEF ScanWhole, Whole
<1>3. CASE Rebuild
  BY <1>1, <1>3, RebuildScan DEF ScanWhole
<1>4. ASSUME NEW r \in Reply, Returns(r)
      PROVE  ScanWhole'
  <2>1. r.status # "closed" /\ Right(r) /\ Learns(r)
    BY <1>4, ReturnsGive
  <2>2. CASE call.op = "SELECT"
    BY <1>1, <2>1, <2>2, LearnsGives DEF ScanWhole
  <2>3. CASE call.op = "READNEXT"
    <3>1. /\ scan'.due = scan.due /\ scan'.cut = scan.cut /\ scan'.files = scan.files
          /\ r.status # "ok" => scan'.end = "failed"
          /\ r = Ok => scan'.end = "ended" /\ scan'.got = scan.got
          /\ r.status = "ok" /\ r # Ok =>
                scan'.end = scan.end /\ scan'.got = scan.got \cup {r.id}
      BY <1>1, <2>1, <2>3, LearnsGives
    <3>2. scan.end = "no"
      BY <1>1, <2>3 DEF CallIsMeant, CallMeans
    <3>3. scan'.end = "ended" => r = Ok
      BY <3>1, <3>2
    <3> QED
      BY <2>1, <2>3, <3>1, <3>3 DEF ScanWhole, Right, Whole
  <2>4. CASE call.op \notin {"SELECT", "READNEXT"}
    <3>1. /\ scan'.due \subseteq scan.due /\ scan'.cut = scan.cut
          /\ scan'.files = scan.files /\ scan'.end = scan.end /\ scan'.got = scan.got
      BY <1>1, <2>1, <2>4, LearnsGives
    <3> QED
      BY <1>1, <3>1 DEF ScanWhole
  <2> QED
    BY <2>2, <2>3, <2>4
<1>5. ASSUME NEW a \in Reply, Takes(a)
      PROVE  ScanWhole'
  <2>1. scan' = scan
    BY <1>5 DEF Takes, seen
  <2> QED
    BY <1>1, <2>1 DEF ScanWhole
<1>6. CASE Fades \/ Closes \/ Connect \/ Begins \/ Ends \/ Reaps \/ Resumes
  <2>1. scan' = scan
    BY <1>6 DEF Fades, Closes, Connect, Begins, Ends, Reaps, Resumes, seen
  <2> QED
    BY <1>1, <2>1 DEF ScanWhole
<1> QED
  BY <1>2, <1>3, <1>4, <1>5, <1>6 DEF Moves

-----------------------------------------------------------------------------
(* The invariant, and what it gives.                                        *)

LEMMA RefusedStays ==
    ASSUME Moves, ~refused'
    PROVE  ~refused
<1>1. ASSUME NEW a \in Reply, Takes(a)
      PROVE  ~refused
  BY <1>1 DEF Takes, seen
<1>2. ASSUME NEW q \in Meant, Issues(q)
      PROVE  ~refused
  BY <1>2 DEF Issues
<1>3. ASSUME NEW r \in Reply, Returns(r)
      PROVE  ~refused
  BY <1>3 DEF Returns, Return
<1>4. CASE Fades \/ Closes \/ Connect \/ Begins \/ Ends \/ Reaps \/ Rebuild \/ Resumes
  BY <1>4 DEF Fades, Closes, Connect, Begins, Ends, Reaps, Rebuild, Resumes, seen
<1> QED
  BY <1>1, <1>2, <1>3, <1>4 DEF Moves

LEMMA InvariantInit ==
    ASSUME Init
    PROVE  IInv
<1> USE GoneIs
<1>1. /\ pc = "closed" /\ opens = <<>> /\ agent = Gone /\ req = <<>> /\ rsp = <<>>
      /\ slot = [f \in Files |-> 0] /\ call = NoCall /\ scan = NoScan
  BY DEF Init
<1>2. Typed
  BY InitTyped
<1>3. CallIsMeant
  <2>1. call.op = "PING"
    BY <1>1, <1>2, NoCallIs
  <2> QED
    BY <2>1 DEF CallIsMeant, CallMeans, BySlot
<1>4. LostCounted /\ FilesThere /\ AnswersRight /\ Session /\ ~Up
  BY <1>1 DEF LostCounted, FilesThere, AnswersRight, Session, Up, Frames, Calling
<1>5. Turns
  BY TurnsInit
<1>6. SlotsInOrder(slot, opens)
  BY <1>1 DEF SlotsInOrder
<1>7. scan.end = "ended" /\ scan.due = {}
  BY <1>1, NoScanIs
<1>8. ListKept /\ ScanWhole
  BY <1>4, <1>7 DEF ListKept, ScanWhole
<1> QED
  BY <1>2, <1>3, <1>4, <1>5, <1>6, <1>8 DEF IInv

LEMMA InvariantKept ==
    ASSUME IInv, [Next]_vars
    PROVE  IInv'
<1>1. CASE Next
  <2>1. Typed /\ CallIsMeant /\ LostCounted /\ Moves
    BY <1>1, NextMoves DEF IInv
  <2>2. Typed' /\ CallIsMeant' /\ LostCounted'
    BY <2>1, MovesTyped, CallMeansKept, LossesKept
  <2>3. ASSUME ~refused'
        PROVE  /\ Turns' /\ SlotsInOrder(slot, opens)' /\ FilesThere' /\ AnswersRight'
               /\ Session' /\ ListKept' /\ ScanWhole'
    <3>1. InStep
      BY <2>1, <2>3, RefusedStays DEF IInv, InStep
    <3>2. Turns'
      BY <2>1, <2>3, <3>1, TurnsKept DEF InStep
    <3> QED
      BY <2>1, <2>3, <3>1, <3>2, SlotsKept, FilesThereKept, AnswersKept, SessionKept,
         ListKeptOn, ScanKeptOn
  <2> QED
    BY <2>2, <2>3 DEF IInv
<1>2. CASE UNCHANGED vars
  <2>1. /\ UNCHANGED <<recs, exists, pc, call, opens, replayed, reconnects, agent, req, rsp>>
        /\ UNCHANGED <<slot, dropping, faults, scan, lost, refused>>
    BY <1>2 DEF vars, account, client, caller, seen
  <2>2. Frames' = Frames /\ Up' = Up /\ Calling' = Calling /\ Whole' = Whole
    BY <2>1 DEF Frames, Up, Calling, Whole
  <2>3. Typed' = Typed /\ CallIsMeant' = CallIsMeant /\ LostCounted' = LostCounted
    BY <2>1 DEF Typed, TypeOK, CallIsMeant, CallMeans, LostCounted
  <2>4. Turns' = Turns /\ SlotsInOrder(slot, opens)' = SlotsInOrder(slot, opens)
    BY <2>1, <2>2 DEF Turns, SlotsInOrder
  <2>5. FilesThere' = FilesThere /\ ScanWhole' = ScanWhole
    BY <2>1 DEF FilesThere, ScanWhole
  <2>6. ASSUME NEW r
        PROVE  Right(r)' = Right(r)
    BY <2>1, <2>2 DEF Right, Fits
  <2>7. AnswersRight' = AnswersRight
    BY <2>1, <2>2, <2>6 DEF AnswersRight
  <2>8. Session' = Session
    BY <2>1, <2>2 DEF Session, Serves, ServesToo
  <2>9. ListKept' = ListKept
    BY <2>1, <2>2 DEF ListKept
  <2> QED
    BY <2>1, <2>3, <2>4, <2>5, <2>7, <2>8, <2>9 DEF IInv
<1> QED
  BY <1>1, <1>2

LEMMA Invariant == Spec => []IInv
<1>1. Init => IInv
  BY InvariantInit
<1>2. IInv /\ [Next]_vars => IInv'
  BY InvariantKept
<1> QED
  BY <1>1, <1>2, PTL DEF Spec

\* Below the invariant, a step that is not a stutter is a move from a state in step.
LEMMA StepsMove ==
    ASSUME IInv, [Next]_vars, ~refused
    PROVE  InStep /\ (Moves \/ UNCHANGED vars)
BY NextMoves DEF IInv, InStep

\* A scan that one session carried from the SELECT to the end of the list, for a walk
\* that had the list of files before it, has brought every record that was selected,
\* whatever was read, written or deleted meanwhile: the session's one select list keeps
\* what is due (DO.SELECT and DO.READNEXT of GIT.AGENT, backend_files_prime).
THEOREM ScanIsWhole == Spec => []ScanWhole
<1>1. IInv => ScanWhole
  BY DEF IInv, ScanWhole
<1> QED
  BY <1>1, Invariant, PTL

\* A READ brings the record it names, of the file it names, however often the session
\* was replaced: the slot still means that file, and no answer is another call's
\* (mvs_call, reconnect).
THEOREM ReadBringsItsOwn == Spec => ReadIsOwn
<1>1. ASSUME IInv, [Next]_vars
      PROVE  [ReadComes /\ ~refused => OwnRecord]_vars
  <2> SUFFICES ASSUME ReadComes, ~refused, Moves, InStep
               PROVE  OwnRecord
    BY <1>1, StepsMove
  <2>1. pc \in {"first", "again"} /\ pc' = "idle" /\ call.op = "READ" /\ Heard.status = "ok"
    BY DEF ReadComes
  <2>2. Heard \in Frames
    <3>1. PICK r \in Reply : Returns(r)
      <4>1. ASSUME NEW a \in Reply, Takes(a)
            PROVE  FALSE
        BY <2>1, <4>1 DEF Takes, client
      <4>2. ASSUME NEW q \in Meant, Issues(q)
            PROVE  FALSE
        BY <2>1, <4>2 DEF Issues
      <4>3. ~(Fades \/ Closes \/ Connect \/ Begins \/ Ends \/ Reaps \/ Rebuild \/ Resumes)
        BY <2>1 DEF Fades, Closes, Connect, Begins, Ends, Reaps, Rebuild, Resumes, client
      <4> QED
        BY <4>1, <4>2, <4>3 DEF Moves
    <3>2. Hears /\ agent' = agent
      BY <3>1 DEF Returns
    <3> QED
      BY <2>1, <3>2, FramesHeard, RepliesAreReplies DEF InStep
  <2>3. Right(Heard)
    BY <2>1, <2>2 DEF InStep, AnswersRight, Calling
  <2> QED
    BY <2>1, <2>3 DEF Right, OwnRecord
<1> QED
  BY <1>1, Invariant, PTL DEF Spec, ReadIsOwn

\* A record changes only in the file the caller meant by the slot it named: also a
\* session that is about to be replaced, and may still carry out a request, has that
\* file in that slot (DO.WRITE, DO.DELETE, the replay of reconnect).
THEOREM WritesLandWhereMeant == Spec => WritesLand
<1>1. ASSUME IInv, [Next]_vars
      PROVE  [~refused => \A f \in Files : recs'[f] # recs[f] => f = Head(req).file]_vars
  <2> SUFFICES ASSUME ~refused, Moves, InStep, NEW f \in Files, recs'[f] # recs[f]
               PROVE  f = Head(req).file
    BY <1>1, StepsMove
  <2>1. Typed /\ Turns
    BY DEF InStep
  <2>2. ASSUME NEW a \in Reply, Takes(a)
        PROVE  f = Head(req).file
    <3>1. Does(Head(req), a) /\ Up /\ req # <<>>
      BY <2>2 DEF Takes
    <3>2. CASE Head(req).op \in {"WRITE", "DELETE"}
      <4>1. Calling /\ Head(req) = call
        BY <2>1, <2>2, <3>2, WhatIsAsked
      <4>2. agent.open[call.slot] = call.file
        BY <3>1, <3>2, <4>1, CallServed DEF BySlot
      <4> QED
        BY <3>1, <3>2, <4>1, <4>2 DEF Does
    <3>3. CASE Head(req).op = "DELETEFILE"
      BY <3>1, <3>3 DEF Does
    <3>4. CASE Head(req).op \notin {"WRITE", "DELETE", "DELETEFILE"}
      BY <3>1, <3>4 DEF Does
    <3> QED
      BY <3>2, <3>3, <3>4
  <2>3. ASSUME NEW q \in Meant, Issues(q)
        PROVE  FALSE
    BY <2>3 DEF Issues, account
  <2>4. ASSUME NEW r \in Reply, Returns(r)
        PROVE  FALSE
    BY <2>4 DEF Returns, account
  <2>5. ~(Fades \/ Closes \/ Connect \/ Begins \/ Ends \/ Reaps \/ Rebuild \/ Resumes)
    BY DEF Fades, Closes, Connect, Begins, Ends, Reaps, Rebuild, Resumes, account
  <2> QED
    BY <2>2, <2>3, <2>4, <2>5 DEF Moves
<1> QED
  BY <1>1, Invariant, PTL DEF Spec, WritesLand

\* A session that has gone is not the caller's concern: a call comes back closed only
\* when a second session went too, when the limit of rebuilds was reached, or when a
\* file to be opened again was deleted - never because the files did not fit or a slot
\* came out different (mvs_call, reconnect).
THEOREM RetryHidesLosses == Spec => RetryHides
<1>1. ASSUME IInv, [Next]_vars
      PROVE  [refused' /\ ~refused => lost' >= 2 \/ reconnects >= Rebuilds \/ dropping]_vars
  <2> SUFFICES ASSUME refused', ~refused, Moves, InStep
               PROVE  lost' >= 2 \/ reconnects >= Rebuilds \/ dropping
    BY <1>1, StepsMove
  <2>1. Typed /\ Turns /\ lost \in Nat
    BY DEF InStep, Typed, TypeOK
  <2>2. PICK r \in Reply : Returns(r)
    <3>1. ASSUME NEW a \in Reply, Takes(a)
          PROVE  FALSE
      BY <3>1 DEF Takes, seen
    <3>2. ASSUME NEW q \in Meant, Issues(q)
          PROVE  FALSE
      BY <3>2 DEF Issues
    <3>3. ~(Fades \/ Closes \/ Connect \/ Begins \/ Ends \/ Reaps \/ Rebuild \/ Resumes)
      BY DEF Fades, Closes, Connect, Begins, Ends, Reaps, Rebuild, Resumes, seen
    <3> QED
      BY <3>1, <3>2, <3>3 DEF Moves
  <2>3. r.status = "closed" /\ Hears /\ Loses /\ agent' = agent
    BY <2>2 DEF Returns, Return
  <2>4. CASE pc = "first"
    BY <2>2, <2>3, <2>4 DEF Returns
  <2>5. CASE pc # "first" /\ Heard.status = "closed"
    <3>1. lost > 0
      BY <2>2, <2>5 DEF Returns, InStep, LostCounted
    <3> QED
      BY <2>1, <2>3, <2>5, <3>1 DEF Loses
  <2>6. CASE pc # "first" /\ Heard.status # "closed"
    <3>1. pc \in {"ping", "replay"} /\ Heard.status # "ok"
      BY <2>2, <2>3, <2>6 DEF Returns
    <3>2. Heard \in Frames /\ Heard \in Reply
      BY <2>1, <2>3, <2>6, HeardAlone, HearsAre
    <3>3. Heard.status = "fail"
      BY <2>6, <3>1, <3>2 DEF Reply
    <3> QED
      BY <3>1, <3>2, <3>3 DEF InStep, AnswersRight
  <2> QED
    BY <2>4, <2>5, <2>6
<1> QED
  BY <1>1, Invariant, PTL DEF Spec, RetryHides


=============================================================================
