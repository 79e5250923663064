------------------------------- MODULE Mvgitd -------------------------------
(***************************************************************************)
(* mvgitd, the per-user background process of src/gitd.c: how a            *)
(* `mvgitd --connect` finds, starts or retires the one server, how it      *)
(* announces its session over the control FIFO, and how the server hands   *)
(* that session to a child of its own.                                     *)
(*                                                                         *)
(* What several processes share is the run directory: the token file, the  *)
(* pid file with its flock, the control FIFO and the sessions' pipe pairs. *)
(* Every system call that reads or writes one of them is a step of its     *)
(* own, so that the calls of different processes interleave.               *)
(*                                                                         *)
(* An invocation c of the command names everything it gives rise to: the   *)
(* server it may start, the inode of the FIFO that server makes, and the   *)
(* session (with its pipes and its child) it announces.                    *)
(***************************************************************************)
EXTENDS Naturals, Sequences, Functions

CONSTANTS
    Conn,       \* the invocations of `mvgitd --connect` and `mvgitd --serve`
    ByHand,     \* those that are `mvgitd --serve`
    Build,      \* the build each invocation was started from (self_ident)
    Nobody,     \* no process, no file
    IdleExit,   \* may the server reach IDLE_EXIT_SECS of silence?
    MaxKills,   \* bound: servers killed outright
    MaxStops,   \* bound: uses of `mvgitd --stop`
    MaxStatus   \* bound: uses of `mvgitd --status`

ASSUME ConnAssumption ==
    /\ ByHand \subseteq Conn
    /\ Nobody \notin Conn
    /\ IdleExit \in BOOLEAN
    /\ MaxKills \in Nat /\ MaxStops \in Nat /\ MaxStatus \in Nat

VARIABLES
    token,      \* the token file: absent, created but empty, or written
    lock,       \* who holds the flock on the pid file
    pidfile,    \* the pid recorded in it, and the build behind that pid
    ctl,        \* the inode the path of the control FIFO leads to
    hello,      \* hello[i]: the greetings written to FIFO i and not yet read
    pipes,      \* pipes[c]: the session's pipe pair
    con,        \* con[c]: where invocation c is
    fd,         \* fd[c]: the FIFO that c has resolved or opened
    srv,        \* srv[c]: where the server started by c is
    stop,       \* the servers whose g_stop is set
    kid,        \* kid[c]: where the child serving session c is
    kidOf,      \* kidOf[c]: the server that forked it
    budget      \* how many kills, stops and status calls are left

vars == <<token, lock, pidfile, ctl, hello, pipes, con, fd, srv, stop,
          kid, kidOf, budget>>

ConState == {"token", "tokenWrite", "tokenRead", "probe", "probeHeld", "build",
             "retire", "retireWait", "retireHeld", "reprobe", "reprobeHeld",
             "fork", "wait", "waitProbe", "waitHeld", "pipes", "resolve",
             "opening", "greet", "done", "failed"}

SrvState == {"none", "starting", "locked", "unlinked", "made", "truncated",
             "recorded", "armed", "serving", "leaving", "closing", "unlocking", "lost",
             "gone"}

KidState == {"none", "forked", "serving", "over"}

PidRecord == [pid : Conn \cup {Nobody}, build : {Build[c] : c \in Conn} \cup {Nobody}]

Allowance == [kills : Nat, stops : Nat, status : Nat]

LockState == [by : {"nobody", "server", "probe"}, id : Conn \cup {Nobody}]

Free == [by |-> "nobody", id |-> Nobody]

\* The server holds the lock from its flock to its LOCK_UN or its death.
InCharge(s) == srv[s] \in {"locked", "unlinked", "made", "truncated", "recorded",
                           "armed", "serving", "leaving", "closing", "unlocking"}

\* A process to which a signal can still be delivered.
Alive(s) == srv[s] = "starting" \/ InCharge(s)

\* The children that have not yet closed the descriptors they were born with.
FreshKids(s) == {c \in Conn : kidOf[c] = s /\ kid[c] = "forked"}

\* Somebody has FIFO i open for reading: its server opened it O_RDWR, and a
\* fresh child still carries that descriptor.
HasReader(i) == \/ srv[i] \in {"serving", "leaving", "closing"}
                \/ FreshKids(i) # {}

\* The sessions whose greetings FIFO i holds.
Waiting(i) == Range(hello[i])

\* What becomes of the flock when the server process s itself goes away: it
\* belongs to the open file description, which a fresh child still holds.
LockWithout(s) ==
    IF lock = [by |-> "server", id |-> s] /\ FreshKids(s) = {} THEN Free ELSE lock

-----------------------------------------------------------------------------
Init ==
    /\ token = "absent"
    /\ lock = Free
    /\ pidfile = [pid |-> Nobody, build |-> Nobody]
    /\ ctl = Nobody
    /\ hello = [c \in Conn |-> <<>>]
    /\ pipes = [c \in Conn |-> "none"]
    /\ con = [c \in Conn |-> "token"]
    /\ fd = [c \in Conn |-> Nobody]
    /\ srv = [c \in Conn |-> "none"]
    /\ stop = {}
    /\ kid = [c \in Conn |-> "none"]
    /\ kidOf = [c \in Conn |-> Nobody]
    /\ budget = [kills |-> MaxKills, stops |-> MaxStops, status |-> MaxStatus]

Go(c, from, to) == con[c] = from /\ con' = [con EXCEPT ![c] = to]

ServerGo(s, from, to) == srv[s] = from /\ srv' = [srv EXCEPT ![s] = to]

-----------------------------------------------------------------------------
(* ensure_token: O_EXCL picks the creator; everybody then reads the file,   *)
(* and a file that is shorter than a token ends the command.                *)

CreateToken(c) ==
    /\ IF token = "absent"
       THEN token' = "empty" /\ Go(c, "token", "tokenWrite")
       ELSE token' = token /\ Go(c, "token", "tokenRead")
    /\ UNCHANGED <<lock, pidfile, ctl, hello, pipes, fd, srv, stop, kid, kidOf, budget>>

WriteToken(c) ==
    /\ Go(c, "tokenWrite", "tokenRead")
    /\ token' = "written"
    /\ UNCHANGED <<lock, pidfile, ctl, hello, pipes, fd, srv, stop, kid, kidOf, budget>>

\* With the token in hand a --connect goes on to ensure_server, and a --serve
\* opens the pid file as a server does.
ReadToken(c) ==
    /\ con[c] = "tokenRead"
    /\ con' = [con EXCEPT ![c] = IF token # "written" THEN "failed"
                                 ELSE IF c \in ByHand THEN "done" ELSE "probe"]
    /\ srv' = IF token = "written" /\ c \in ByHand
              THEN [srv EXCEPT ![c] = "starting"] ELSE srv
    /\ UNCHANGED <<token, lock, pidfile, ctl, hello, pipes, fd, stop, kid, kidOf, budget>>

-----------------------------------------------------------------------------
(* server_running: the liveness test is a trial flock, which really takes   *)
(* the lock for as long as it lasts when nobody else has it.                *)

\* A slip: flock without LOCK_NB.
ProbeBlocking(c, from, held, busy) ==
    /\ lock = Free
    /\ lock' = [by |-> "probe", id |-> c] /\ Go(c, from, held)
    /\ UNCHANGED <<token, pidfile, ctl, hello, pipes, fd, srv, stop, kid, kidOf, budget>>

Probe(c, from, held, busy) ==
    /\ IF lock = Free
       THEN lock' = [by |-> "probe", id |-> c] /\ Go(c, from, held)
       ELSE lock' = lock /\ Go(c, from, busy)
    /\ UNCHANGED <<token, pidfile, ctl, hello, pipes, fd, srv, stop, kid, kidOf, budget>>

Release(c, held, next) ==
    /\ Go(c, held, next)
    /\ lock' = Free
    /\ UNCHANGED <<token, pidfile, ctl, hello, pipes, fd, srv, stop, kid, kidOf, budget>>

(* ensure_server: a server of another build is asked to go.                 *)

CompareBuild(c) ==
    /\ Go(c, "build", IF pidfile.build = Build[c] THEN "pipes" ELSE "retire")
    /\ UNCHANGED <<token, lock, pidfile, ctl, hello, pipes, fd, srv, stop, kid, kidOf, budget>>

\* SIGTERM sets g_stop once the handlers are in place; before that it kills.
Terminate(s) ==
    IF srv[s] \in {"armed", "serving", "leaving", "closing", "unlocking"}
    THEN stop' = stop \cup {s} /\ UNCHANGED <<srv, lock>>
    ELSE /\ srv' = [srv EXCEPT ![s] = "gone"]
         /\ lock' = LockWithout(s)
         /\ UNCHANGED stop

RetireServer(c) ==
    /\ IF pidfile.pid # Nobody /\ Alive(pidfile.pid)
       THEN Terminate(pidfile.pid) /\ Go(c, "retire", "retireWait")
       ELSE Go(c, "retire", "reprobe") /\ UNCHANGED <<srv, lock, stop>>
    /\ UNCHANGED <<token, pidfile, ctl, hello, pipes, fd, kid, kidOf, budget>>

\* About five seconds of polling, and then the old server is used after all.
RetireWait(c) ==
    \/ Probe(c, "retireWait", "retireHeld", "retireWait")
    \/ Release(c, "retireHeld", "reprobe")
    \/ /\ Go(c, "retireWait", "reprobe")
       /\ UNCHANGED <<token, lock, pidfile, ctl, hello, pipes, fd, srv, stop, kid,
                      kidOf, budget>>

ForkServer(c) ==
    /\ Go(c, "fork", "wait")
    /\ ServerGo(c, "none", "starting")
    /\ UNCHANGED <<token, lock, pidfile, ctl, hello, pipes, fd, stop, kid, kidOf, budget>>

\* "the background process did not start": the end of the hundred polls.
GiveUp(c) ==
    /\ Go(c, "wait", "failed")
    /\ UNCHANGED <<token, lock, pidfile, ctl, hello, pipes, fd, srv, stop, kid, kidOf, budget>>

\* Readiness: the FIFO exists, and then somebody holds the lock.
AwaitServer(c) ==
    \/ /\ ctl # Nobody
       /\ Go(c, "wait", "waitProbe")
       /\ UNCHANGED <<token, lock, pidfile, ctl, hello, pipes, fd, srv, stop, kid,
                      kidOf, budget>>
    \/ Probe(c, "waitProbe", "waitHeld", "pipes")
    \/ Release(c, "waitHeld", "wait")
    \/ GiveUp(c)

EnsureServer(c) ==
    \/ Probe(c, "probe", "probeHeld", "build")
    \/ Release(c, "probeHeld", "fork")
    \/ CompareBuild(c)
    \/ RetireServer(c)
    \/ RetireWait(c)
    \/ Probe(c, "reprobe", "reprobeHeld", "pipes")
    \/ Release(c, "reprobeHeld", "fork")
    \/ ForkServer(c)
    \/ AwaitServer(c)

-----------------------------------------------------------------------------
(* do_connect: the pipes, then the greeting on the control FIFO.            *)

MakePipes(c) ==
    /\ Go(c, "pipes", "resolve")
    /\ pipes' = [pipes EXCEPT ![c] = "made"]
    /\ UNCHANGED <<token, lock, pidfile, ctl, hello, fd, srv, stop, kid, kidOf, budget>>

\* open(control, O_WRONLY) looks the path up and, when the FIFO it found has
\* no reader yet, waits for one, whatever becomes of the path meanwhile.
ResolveControl(c) ==
    /\ Go(c, "resolve", IF ctl = Nobody THEN "failed"
                        ELSE IF HasReader(ctl) THEN "greet" ELSE "opening")
    /\ fd' = [fd EXCEPT ![c] = ctl]
    /\ UNCHANGED <<token, lock, pidfile, ctl, hello, pipes, srv, stop, kid, kidOf, budget>>

OpenControl(c) ==
    /\ con[c] = "opening"
    /\ HasReader(fd[c])
    /\ Go(c, "opening", "greet")
    /\ UNCHANGED <<token, lock, pidfile, ctl, hello, pipes, fd, srv, stop, kid, kidOf, budget>>

\* A write to a FIFO without readers is SIGPIPE, which ends the command.
Greet(c) ==
    /\ con[c] = "greet"
    /\ IF HasReader(fd[c])
       THEN /\ hello' = [hello EXCEPT ![fd[c]] = Append(@, c)]
            /\ Go(c, "greet", "done")
       ELSE /\ Go(c, "greet", "failed")
            /\ UNCHANGED hello
    /\ fd' = [fd EXCEPT ![c] = Nobody]
    /\ UNCHANGED <<token, lock, pidfile, ctl, pipes, srv, stop, kid, kidOf, budget>>

Connect(c) ==
    \/ CreateToken(c) \/ WriteToken(c) \/ ReadToken(c)
    \/ EnsureServer(c)
    \/ MakePipes(c) \/ ResolveControl(c) \/ OpenControl(c) \/ Greet(c)

-----------------------------------------------------------------------------
(* The server: the lock first, then server_loop.                            *)

\* A slip: the result of flock is not looked at.
TakeLockUntested(s) ==
    /\ ServerGo(s, "starting", "locked")
    /\ lock' = [by |-> "server", id |-> s]
    /\ UNCHANGED <<token, pidfile, ctl, hello, pipes, con, fd, stop, kid, kidOf, budget>>

\* A slip: the old FIFO is unlinked first and the lock tried afterwards.
TakeLockUnlinking(s) ==
    /\ ctl' = Nobody
    /\ IF lock = Free
       THEN lock' = [by |-> "server", id |-> s] /\ ServerGo(s, "starting", "locked")
       ELSE lock' = lock /\ ServerGo(s, "starting", "lost")
    /\ UNCHANGED <<token, pidfile, hello, pipes, con, fd, stop, kid, kidOf, budget>>

TakeLock(s) ==
    /\ IF lock = Free
       THEN lock' = [by |-> "server", id |-> s] /\ ServerGo(s, "starting", "locked")
       ELSE lock' = lock /\ ServerGo(s, "starting", "lost")
    /\ UNCHANGED <<token, pidfile, ctl, hello, pipes, con, fd, stop, kid, kidOf, budget>>

UnlinkControl(s) ==
    /\ ServerGo(s, "locked", "unlinked")
    /\ ctl' = Nobody
    /\ UNCHANGED <<token, lock, pidfile, hello, pipes, con, fd, stop, kid, kidOf, budget>>

\* mkfifo fails, and the server dies, when the path is taken.
MakeControl(s) ==
    /\ IF ctl = Nobody
       THEN ServerGo(s, "unlinked", "made") /\ ctl' = s /\ lock' = lock
       ELSE ServerGo(s, "unlinked", "gone") /\ ctl' = ctl /\ lock' = LockWithout(s)
    /\ UNCHANGED <<token, pidfile, hello, pipes, con, fd, stop, kid, kidOf, budget>>

\* ftruncate and write are two calls: a reader may find the file empty.
TruncatePid(s) ==
    /\ ServerGo(s, "made", "truncated")
    /\ pidfile' = [pid |-> Nobody, build |-> Nobody]
    /\ UNCHANGED <<token, lock, ctl, hello, pipes, con, fd, stop, kid, kidOf, budget>>

\* A slip: the second field is left out, as before mv_git#155.
RecordPidAlone(s) ==
    /\ ServerGo(s, "truncated", "recorded")
    /\ pidfile' = [pid |-> s]
    /\ UNCHANGED <<token, lock, ctl, hello, pipes, con, fd, stop, kid, kidOf, budget>>

RecordPid(s) ==
    /\ ServerGo(s, "truncated", "recorded")
    /\ pidfile' = [pid |-> s, build |-> Build[s]]
    /\ UNCHANGED <<token, lock, ctl, hello, pipes, con, fd, stop, kid, kidOf, budget>>

InstallHandlers(s) ==
    /\ ServerGo(s, "recorded", "armed")
    /\ UNCHANGED <<token, lock, pidfile, ctl, hello, pipes, con, fd, stop, kid, kidOf, budget>>

\* The server opens the path; nobody but itself can have changed it.
OpenOwnControl(s) ==
    /\ IF ctl = s
       THEN ServerGo(s, "armed", "serving") /\ lock' = lock
       ELSE ServerGo(s, "armed", "gone") /\ lock' = LockWithout(s)
    /\ UNCHANGED <<token, pidfile, ctl, hello, pipes, con, fd, stop, kid, kidOf, budget>>

\* A slip: the line buffer is not emptied after a greeting.
AcceptAgain(s) ==
    /\ srv[s] = "serving" /\ s \notin stop
    /\ hello[s] # <<>>
    /\ kid' = [kid EXCEPT ![Head(hello[s])] = "forked"]
    /\ kidOf' = [kidOf EXCEPT ![Head(hello[s])] = s]
    /\ UNCHANGED <<token, lock, pidfile, ctl, hello, pipes, con, fd, srv, stop, budget>>

\* A slip: the FIFO is read in blocks, and what follows the first line is lost.
AcceptFirstLine(s) ==
    /\ srv[s] = "serving" /\ s \notin stop
    /\ hello[s] # <<>>
    /\ kid' = [kid EXCEPT ![Head(hello[s])] = "forked"]
    /\ kidOf' = [kidOf EXCEPT ![Head(hello[s])] = s]
    /\ hello' = [hello EXCEPT ![s] = <<>>]
    /\ UNCHANGED <<token, lock, pidfile, ctl, pipes, con, fd, srv, stop, budget>>

\* One greeting read to its newline: a child is forked for the session.
Accept(s) ==
    /\ srv[s] = "serving" /\ s \notin stop
    /\ hello[s] # <<>>
    /\ LET c == Head(hello[s])
       IN  /\ kid' = [kid EXCEPT ![c] = "forked"]
           /\ kidOf' = [kidOf EXCEPT ![c] = s]
    /\ hello' = [hello EXCEPT ![s] = Tail(@)]
    /\ UNCHANGED <<token, lock, pidfile, ctl, pipes, con, fd, srv, stop, budget>>

\* The loop ends on g_stop, or on a poll that found nothing for the whole idle
\* limit while no child was left.
Leave(s) ==
    /\ ServerGo(s, "serving", "leaving")
    /\ \/ s \in stop
       \/ /\ IdleExit
          /\ hello[s] = <<>>
          /\ \A c \in Conn : kidOf[c] = s => kid[c] = "over"
    /\ UNCHANGED <<token, lock, pidfile, ctl, hello, pipes, con, fd, stop, kid, kidOf, budget>>

RemoveControl(s) ==
    /\ ServerGo(s, "leaving", "closing")
    /\ ctl' = Nobody
    /\ UNCHANGED <<token, lock, pidfile, hello, pipes, con, fd, stop, kid, kidOf, budget>>

CloseControl(s) ==
    /\ ServerGo(s, "closing", "unlocking")
    /\ UNCHANGED <<token, lock, pidfile, ctl, hello, pipes, con, fd, stop, kid, kidOf, budget>>

\* A server started by --connect unlocks; one started by hand just exits.
Unlock(s) ==
    /\ ServerGo(s, "unlocking", "gone")
    /\ lock' = IF s \in ByHand THEN LockWithout(s) ELSE Free
    /\ UNCHANGED <<token, pidfile, ctl, hello, pipes, con, fd, stop, kid, kidOf, budget>>

Server(s) ==
    \/ TakeLock(s) \/ UnlinkControl(s) \/ MakeControl(s) \/ TruncatePid(s)
    \/ RecordPid(s) \/ InstallHandlers(s) \/ OpenOwnControl(s) \/ Accept(s)
    \/ Leave(s) \/ RemoveControl(s) \/ CloseControl(s) \/ Unlock(s)

-----------------------------------------------------------------------------
(* The child of one session, from the fork to the end of serve_session.     *)

\* A slip: only the FIFO is closed.
CloseInheritedFifo(c) ==
    /\ kid[c] = "forked"
    /\ kid' = [kid EXCEPT ![c] = "serving"]
    /\ UNCHANGED <<token, lock, pidfile, ctl, hello, pipes, con, fd, srv, stop, kidOf, budget>>

\* A child closes both inherited descriptors before anything else, and the
\* lock goes with them when the server is no longer there to hold it.
CloseInherited(c) ==
    /\ kid[c] = "forked"
    /\ kid' = [kid EXCEPT ![c] = "serving"]
    /\ lock' = IF /\ lock = [by |-> "server", id |-> kidOf[c]]
                  /\ ~InCharge(kidOf[c])
                  /\ FreshKids(kidOf[c]) = {c}
               THEN Free ELSE lock
    /\ UNCHANGED <<token, pidfile, ctl, hello, pipes, con, fd, srv, stop, kidOf, budget>>

\* The session is over: BYE, a logout, silence or a stream out of frame.
EndSession(c) ==
    /\ kid[c] = "serving"
    /\ kid' = [kid EXCEPT ![c] = "over"]
    /\ pipes' = [pipes EXCEPT ![c] = "removed"]
    /\ UNCHANGED <<token, lock, pidfile, ctl, hello, con, fd, srv, stop, kidOf, budget>>

\* A slip: a session whose account cannot be opened is queued once more.
RequeueSession(c) ==
    /\ kid[c] = "serving"
    /\ kid' = [kid EXCEPT ![c] = "none"]
    /\ hello' = [hello EXCEPT ![kidOf[c]] = Append(@, c)]
    /\ UNCHANGED <<token, lock, pidfile, ctl, pipes, con, fd, srv, stop, kidOf, budget>>

\* The account directory or a pipe cannot be opened: the child leaves at once.
RefuseSession(c) ==
    /\ kid[c] = "serving"
    /\ kid' = [kid EXCEPT ![c] = "over"]
    /\ UNCHANGED <<token, lock, pidfile, ctl, hello, pipes, con, fd, srv, stop, kidOf, budget>>

\* SHUTDOWN signals the parent, if the parent is still the server.
Shutdown(c) ==
    /\ kid[c] = "serving"
    /\ budget.stops > 0
    /\ budget' = [budget EXCEPT !.stops = @ - 1]
    /\ kid' = [kid EXCEPT ![c] = "over"]
    /\ pipes' = [pipes EXCEPT ![c] = "removed"]
    /\ IF Alive(kidOf[c]) THEN Terminate(kidOf[c]) ELSE UNCHANGED <<srv, lock, stop>>
    /\ UNCHANGED <<token, pidfile, ctl, hello, con, fd, kidOf>>

Child(c) == CloseInherited(c) \/ EndSession(c) \/ RefuseSession(c) \/ Shutdown(c)

-----------------------------------------------------------------------------
(* The operator and the machine.                                            *)

\* do_stop signals whatever process the pid file names.
StopCommand ==
    /\ budget.stops > 0
    /\ budget' = [budget EXCEPT !.stops = @ - 1]
    /\ pidfile.pid # Nobody /\ Alive(pidfile.pid)
    /\ Terminate(pidfile.pid)
    /\ UNCHANGED <<token, pidfile, ctl, hello, pipes, con, fd, kid, kidOf>>

\* --status is one more trial flock.
StatusTake ==
    /\ budget.status > 0
    /\ budget' = [budget EXCEPT !.status = @ - 1]
    /\ lock = Free
    /\ lock' = [by |-> "probe", id |-> Nobody]
    /\ UNCHANGED <<token, pidfile, ctl, hello, pipes, con, fd, srv, stop, kid, kidOf>>

StatusRelease ==
    /\ lock = [by |-> "probe", id |-> Nobody]
    /\ lock' = Free
    /\ UNCHANGED <<token, pidfile, ctl, hello, pipes, con, fd, srv, stop, kid, kidOf, budget>>

\* A server killed outright leaves its files behind; the kernel drops the lock.
KillServer(s) ==
    /\ budget.kills > 0
    /\ budget' = [budget EXCEPT !.kills = @ - 1]
    /\ InCharge(s)
    /\ srv' = [srv EXCEPT ![s] = "gone"]
    /\ lock' = LockWithout(s)
    /\ UNCHANGED <<token, pidfile, ctl, hello, pipes, con, fd, stop, kid, kidOf>>

Environment == StopCommand \/ StatusTake \/ StatusRelease \/ \E s \in Conn : KillServer(s)

Next ==
    \/ \E c \in Conn : Connect(c) \/ Server(c) \/ Child(c)
    \/ Environment

Spec == Init /\ [][Next]_vars

\* Every process runs on, and the readiness loop is bounded, so that it cannot
\* come round for ever without giving up.  What the operator, the machine and
\* the users do is left to them: no fairness for the environment, for how a
\* session ends, or for reaching the idle limit.
Fairness ==
    /\ \A c \in Conn : WF_vars(Connect(c)) /\ SF_vars(GiveUp(c))
    /\ \A s \in Conn : WF_vars(Server(s) /\ ~(srv[s] = "serving" /\ s \notin stop
                                              /\ hello[s] = <<>>))
    /\ \A c \in Conn : WF_vars(CloseInherited(c))
    /\ WF_vars(StatusRelease)

FairSpec == Spec /\ Fairness

-----------------------------------------------------------------------------
\* Every variable keeps its type.
TypeOK ==
    /\ token \in {"absent", "empty", "written"}
    /\ lock \in LockState
    /\ pidfile \in PidRecord
    /\ ctl \in Conn \cup {Nobody}
    /\ hello \in [Conn -> Seq(Conn)]
    /\ pipes \in [Conn -> {"none", "made", "removed"}]
    /\ con \in [Conn -> ConState]
    /\ fd \in [Conn -> Conn \cup {Nobody}]
    /\ srv \in [Conn -> SrvState]
    /\ stop \subseteq Conn
    /\ kid \in [Conn -> KidState]
    /\ kidOf \in [Conn -> Conn \cup {Nobody}]
    /\ budget \in Allowance

\* "One process per user": however many sessions connect at once, and however
\* servers are retired, stopped or killed, at most one process is past its
\* flock and not yet past its unlock.
OneServer == \A s, t \in Conn : InCharge(s) /\ InCharge(t) => s = t

\* The path of the control FIFO leads to the FIFO of the server in charge from
\* the moment that server has made it until it removes it: no server on its
\* way out, and none that lost the race, ever unlinks or replaces the FIFO of
\* the one that is serving.
OwnControl ==
    \A s \in Conn :
        srv[s] \in {"made", "truncated", "recorded", "armed", "serving", "leaving"}
            => ctl = s

\* The lock of a server outlives it only in a child that has not yet run: what
\* a later session finds locked is a server, or is about to be released
\* (the comment at the fork in server_loop).
LockNotOrphaned ==
    lock.by = "server" => InCharge(lock.id) \/ FreshKids(lock.id) # {}

\* A session is served by one child, forked by the server that read its
\* greeting; one that has not been told it is connected has none, and its
\* pipes are there before anyone is told of them.
ServedOnce ==
    /\ \A c \in Conn : kid[c] # "none" => con[c] = "done" /\ kidOf[c] # Nobody
    /\ \A i \in Conn : \A c \in Waiting(i) :
           /\ con[c] = "done" /\ kid[c] = "none" /\ pipes[c] = "made"
           /\ \A j \in Conn : c \in Waiting(j) => i = j
    /\ \A i \in Conn : IsInjective(hello[i])

\* How far a session has come, for the one who asked for it.
Phase(c) ==
    CASE kid[c] = "over" -> "over"
      [] kid[c] \in {"forked", "serving"} -> "served"
      [] kid[c] = "none" /\ con[c] = "done" -> "told"
      [] OTHER -> "asking"

Service == INSTANCE SessionService WITH
    running <- {s \in Conn : InCharge(s)},
    past    <- {s \in Conn : srv[s] \in {"lost", "gone"}},
    phase   <- [c \in Conn |-> Phase(c)],
    by      <- kidOf

\* The run directory, its lock and its FIFOs give what SessionService says:
\* one server at a time that never returns, and each session taken on once by
\* the server then in charge, for every order of the processes' system calls.
ImplementsService == Service!Spec

\* The premise of the two promises below: no server goes away, because nothing
\* asks it to, kills it or lets it idle out.
ServersStay ==
    [](stop = {} /\ \A s \in Conn : srv[s] \notin {"leaving", "closing", "unlocking", "gone"})

\* A connect ends: it hands its session over, or it fails and says so.
EveryConnectSettles == \A c \in Conn : <>(con[c] \in {"done", "failed"})

\* A session that was told it is connected gets a child.
ConnectedIsServed ==
    \A c \in Conn : (con[c] = "done" /\ c \notin ByHand) ~> (kid[c] # "none")

\* While no server goes away no connect hangs - not in a trial lock, not in the
\* wait for readiness, not in the open of the FIFO - whoever starts the server.
SettlesWhileServersStay == ServersStay => EveryConnectSettles

\* While no server goes away every greeting that was sent is taken up.
ServedWhileServersStay == ServersStay => ConnectedIsServed

=============================================================================
