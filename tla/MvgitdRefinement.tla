-------------------------- MODULE MvgitdRefinement --------------------------
(***************************************************************************)
(* Mvgitd implements SessionService, for every set of invocations and      *)
(* every number of kills, stops and status calls: each step of a process   *)
(* is a step of the service or none, once it is known who holds the lock   *)
(* (LockFollows), that nobody greets twice (Session), and that a server    *)
(* with a child has its signal handlers in place (ParentArmed).            *)
(***************************************************************************)
EXTENDS MvgitdProofs

Running == {s \in Conn : InCharge(s)}
Past    == {s \in Conn : srv[s] \in {"lost", "gone"}}
Phases  == [c \in Conn |-> Phase(c)]

\* A server that has forked a child was serving, so that SIGTERM sets a flag
\* in it and never ends it at once.
ParentArmed ==
    \A c \in Conn : kid[c] # "none" =>
        srv[kidOf[c]] \in {"serving", "leaving", "closing", "unlocking", "gone"}

-----------------------------------------------------------------------------
LEMMA ParentsStayArmed ==
    ASSUME ParentArmed, TypeInv,
           UNCHANGED <<kidOf>>,
           \A c \in Conn : kid'[c] # "none" => kid[c] # "none",
           \A s \in Conn :
               srv[s] \in {"serving", "leaving", "closing", "unlocking", "gone"}
               => srv'[s] \in {"serving", "leaving", "closing", "unlocking", "gone"}
    PROVE  ParentArmed'
  BY DEF ParentArmed, TypeInv, Linked

\* No process goes back to a state before its first child.
LEMMA ParentArmedStep == TypeInv /\ Session /\ ParentArmed /\ [Next]_vars => ParentArmed'
<1> SUFFICES ASSUME TypeInv, Session, ParentArmed, [Next]_vars PROVE ParentArmed'
  OBVIOUS
<1>srv. srv \in [Conn -> SrvState]
  BY DEF TypeInv, TypeOK
<1>kid. kid \in [Conn -> KidState]
  BY DEF TypeInv, TypeOK
<1>kidOf. kidOf \in [Conn -> Conn \cup {Nobody}]
  BY DEF TypeInv, TypeOK
<1>hello. hello \in [Conn -> Seq(Conn)]
  BY DEF TypeInv, TypeOK
<1>pid. pidfile.pid \in Conn \cup {Nobody}
  BY DEF TypeInv, TypeOK, PidRecord
<1>linked. Linked
  BY DEF TypeInv
<1>type. TypeInv
  OBVIOUS
<1>armed. ParentArmed
  OBVIOUS
<1>0. CASE UNCHANGED vars
  BY <1>0, <1>armed, <1>type, ParentsStayArmed DEF vars
<1>1. ASSUME NEW c \in Conn, Connect(c) PROVE ParentArmed'
  <2>1. CASE CreateToken(c) \/ WriteToken(c) \/ MakePipes(c) \/ ResolveControl(c)
             \/ OpenControl(c) \/ Greet(c)
    BY <2>1, <1>armed, <1>type, ParentsStayArmed
       DEF CreateToken, WriteToken, MakePipes, ResolveControl, OpenControl, Greet
  <2>2. CASE ReadToken(c)
    <3>1. srv[c] = "none"
      BY <2>2, <1>linked DEF ReadToken, Linked
    <3>2. QED
      BY <2>2, <3>1, <1>srv, <1>armed, <1>type, ParentsStayArmed DEF ReadToken
  <2>3. CASE EnsureServer(c)
    <3>1. CASE RetireServer(c)
      BY <3>1, <1>srv, <1>armed, <1>type, ParentsStayArmed DEF RetireServer, Terminate
    <3>2. CASE ForkServer(c)
      BY <3>2, <1>srv, <1>armed, <1>type, ParentsStayArmed DEF ForkServer, ServerGo
    <3>3. CASE ~RetireServer(c) /\ ~ForkServer(c)
      <4>1. UNCHANGED <<srv, kid, kidOf>>
        BY <2>3, <3>3 DEF EnsureServer, Probe, Release, CompareBuild, RetireWait, AwaitServer,
           GiveUp
      <4>2. QED
        BY <4>1, <1>armed, <1>type, ParentsStayArmed
    <3>4. QED
      BY <3>1, <3>2, <3>3
  <2>4. QED
    BY <1>1, <2>1, <2>2, <2>3 DEF Connect
<1>2. ASSUME NEW s \in Conn, Server(s) PROVE ParentArmed'
  <2>1. CASE Accept(s)
    <3>1. Head(hello[s]) \in Conn
      BY <2>1, <1>hello DEF Accept
    <3>2. QED
      BY <2>1, <3>1, <1>kid, <1>kidOf, <1>armed DEF Accept, ParentArmed
  <2>2. CASE ~Accept(s)
    <3>1. UNCHANGED <<kid, kidOf>> /\
          \A t \in Conn :
              srv[t] \in {"serving", "leaving", "closing", "unlocking", "gone"}
              => srv'[t] \in {"serving", "leaving", "closing", "unlocking", "gone"}
      BY <1>2, <2>2, <1>srv
         DEF Server, TakeLock, UnlinkControl, MakeControl, TruncatePid, RecordPid,
             InstallHandlers, OpenOwnControl, Leave, RemoveControl, CloseControl, Unlock, ServerGo
    <3>2. QED
      BY <3>1, <1>armed, <1>type, ParentsStayArmed
  <2>3. QED
    BY <2>1, <2>2
<1>3. ASSUME NEW c \in Conn, Child(c) PROVE ParentArmed'
  BY <1>3, <1>srv, <1>kid, <1>armed, <1>type, ParentsStayArmed
     DEF Child, CloseInherited, EndSession, RefuseSession, Shutdown, Terminate
<1>4. CASE StopCommand \/ StatusTake \/ StatusRelease
  BY <1>4, <1>srv, <1>armed, <1>type, ParentsStayArmed
     DEF StopCommand, StatusTake, StatusRelease, Terminate
<1>5. ASSUME NEW s \in Conn, KillServer(s) PROVE ParentArmed'
  BY <1>5, <1>srv, <1>armed, <1>type, ParentsStayArmed DEF KillServer
<1> QED
  BY <1>0, <1>1, <1>2, <1>3, <1>4, <1>5 DEF Next, Environment

LEMMA ParentArmedInvariant == Spec => []ParentArmed
<1>1. Init => ParentArmed
  BY DEF Init, ParentArmed
<1>2. QED
  BY <1>1, ParentArmedStep, TypeInvariant, SessionInvariant, PTL DEF Spec

-----------------------------------------------------------------------------
\* What a server's move from one state to another is to the service.
LEMMA ServerStays ==
    ASSUME TypeInv, NEW s \in Conn, NEW from, NEW to, ServerGo(s, from, to),
           from \in {"locked", "unlinked", "made", "truncated", "recorded", "armed",
                     "serving", "leaving", "closing", "unlocking"},
           to \in {"locked", "unlinked", "made", "truncated", "recorded", "armed",
                   "serving", "leaving", "closing", "unlocking"}
    PROVE  Running' = Running /\ Past' = Past
  BY DEF TypeInv, TypeOK, ServerGo, Running, Past, InCharge

LEMMA ServerEnters ==
    ASSUME TypeInv, OneServer', NEW s \in Conn, srv[s] = "starting",
           srv' = [srv EXCEPT ![s] = "locked"]
    PROVE  Running = {} /\ Running' = {s} /\ Past' = Past /\ s \notin Past
<1>1. srv \in [Conn -> SrvState]
  BY DEF TypeInv, TypeOK
<1>2. InCharge(s)' /\ ~InCharge(s) /\ \A t \in Conn \ {s} : InCharge(t)' = InCharge(t)
  BY <1>1 DEF InCharge
<1>3. \A t \in Conn : InCharge(t)' => t = s
  BY <1>2 DEF OneServer
<1>4. Running = {} /\ Running' = {s}
  BY <1>2, <1>3 DEF Running
<1>5. Past' = Past /\ s \notin Past
  BY <1>1 DEF Past
<1>6. QED
  BY <1>4, <1>5

LEMMA ServerGoes ==
    ASSUME TypeInv, OneServer, NEW s \in Conn, InCharge(s),
           srv' = [srv EXCEPT ![s] = "gone"]
    PROVE  Running = {s} /\ Running' = {} /\ Past' = Past \cup {s}
<1>1. srv \in [Conn -> SrvState]
  BY DEF TypeInv, TypeOK
<1>2. \A t \in Conn : InCharge(t) => t = s
  BY DEF OneServer
<1>3. ~InCharge(s)' /\ \A t \in Conn \ {s} : InCharge(t)' = InCharge(t)
  BY <1>1 DEF InCharge
<1>4. Running = {s} /\ Running' = {}
  BY <1>2, <1>3 DEF Running
<1>5. Past' = Past \cup {s}
  BY <1>1 DEF Past
<1>6. QED
  BY <1>4, <1>5

LEMMA ServerDropsOut ==
    ASSUME TypeInv, NEW s \in Conn, NEW to \in {"lost", "gone"}, srv[s] = "starting",
           srv' = [srv EXCEPT ![s] = to]
    PROVE  s \notin Running /\ Running' = Running /\ Past' = Past \cup {s}
  BY DEF TypeInv, TypeOK, Running, Past, InCharge

LEMMA ServerAppears ==
    ASSUME TypeInv, NEW s \in Conn, srv[s] = "none", srv' = [srv EXCEPT ![s] = "starting"]
    PROVE  Running' = Running /\ Past' = Past
  BY DEF TypeInv, TypeOK, Running, Past, InCharge

LEMMA SameServers ==
    ASSUME UNCHANGED srv
    PROVE  Running' = Running /\ Past' = Past
  BY DEF Running, Past, InCharge

\* What a connect's or a child's move is to the service.
LEMMA SameSessions ==
    ASSUME UNCHANGED <<kid, kidOf>>, \A d \in Conn : con'[d] = "done" <=> con[d] = "done"
    PROVE  Phases' = Phases
  BY DEF Phases, Phase

LEMMA SessionTold ==
    ASSUME TypeInv, Session, NEW c \in Conn, con[c] # "done", con' = [con EXCEPT ![c] = "done"],
           UNCHANGED <<kid, kidOf>>
    PROVE  Phases[c] = "asking" /\ Phases' = [Phases EXCEPT ![c] = "told"]
<1>1. con \in [Conn -> ConState]
  BY DEF TypeInv, TypeOK
<1>2. kid[c] = "none"
  BY DEF Session, ServedOnce
<1>3. Phase(c) = "asking" /\ Phase(c)' = "told"
  BY <1>1, <1>2 DEF Phase
<1>4. \A d \in Conn \ {c} : Phase(d)' = Phase(d)
  BY <1>1 DEF Phase
<1>5. QED
  BY <1>3, <1>4 DEF Phases

LEMMA ChildMoves ==
    ASSUME TypeInv, NEW c \in Conn, NEW to \in {"serving", "over"}, kid[c] = "serving" \/ to = "serving",
           kid[c] \in {"forked", "serving"},
           kid' = [kid EXCEPT ![c] = to], UNCHANGED con
    PROVE  /\ Phases[c] = "served"
           /\ to = "serving" => Phases' = Phases
           /\ to = "over" => Phases' = [Phases EXCEPT ![c] = "over"]
<1>1. kid \in [Conn -> KidState]
  BY DEF TypeInv, TypeOK
<1>2. QED
  BY <1>1 DEF Phases, Phase

-----------------------------------------------------------------------------
\* Every step of a process is a step of the service, or none of its business.
LEMMA ServiceStep ==
    TypeInv /\ Session /\ ParentArmed /\ OneServer /\ OneServer' /\ [Next]_vars
        => [Service!Next]_(Service!vars)
<1> SUFFICES ASSUME TypeInv, Session, ParentArmed, OneServer, OneServer', [Next]_vars
             PROVE  [Service!Next]_(Service!vars)
  OBVIOUS
<1>srv. srv \in [Conn -> SrvState]
  BY DEF TypeInv, TypeOK
<1>con. con \in [Conn -> ConState]
  BY DEF TypeInv, TypeOK
<1>kid. kid \in [Conn -> KidState]
  BY DEF TypeInv, TypeOK
<1>kidOf. kidOf \in [Conn -> Conn \cup {Nobody}]
  BY DEF TypeInv, TypeOK
<1>hello. hello \in [Conn -> Seq(Conn)]
  BY DEF TypeInv, TypeOK
<1>pid. pidfile.pid \in Conn \cup {Nobody}
  BY DEF TypeInv, TypeOK, PidRecord
<1>linked. Linked
  BY DEF TypeInv
<1>served. ServedOnce
  BY DEF Session
<1> DEFINE Quiet == Running' = Running /\ Past' = Past /\ Phases' = Phases /\ kidOf' = kidOf
           Enter(s) == /\ Running = {} /\ s \notin Past /\ Running' = {s} /\ Past' = Past
                       /\ Phases' = Phases /\ kidOf' = kidOf
           DropOut(s) == /\ s \notin Running /\ Running' = Running /\ Past' = Past \cup {s}
                         /\ Phases' = Phases /\ kidOf' = kidOf
           Retire(s) == /\ Running = {s} /\ Running' = {} /\ Past' = Past \cup {s}
                     /\ Phases' = Phases /\ kidOf' = kidOf
           Told(c) == /\ Phases[c] = "asking" /\ Phases' = [Phases EXCEPT ![c] = "told"]
                      /\ Running' = Running /\ Past' = Past /\ kidOf' = kidOf
           Taken(c, s) == /\ Running = {s}
                          /\ Phases[c] = "told" /\ Phases' = [Phases EXCEPT ![c] = "served"]
                          /\ kidOf' = [kidOf EXCEPT ![c] = s]
                          /\ Running' = Running /\ Past' = Past
           Ended(c) == /\ Phases[c] = "served" /\ Phases' = [Phases EXCEPT ![c] = "over"]
                       /\ Running' = Running /\ Past' = Past /\ kidOf' = kidOf
           Maps == \/ Quiet
                   \/ \E s \in Conn : Enter(s) \/ DropOut(s) \/ Retire(s)
                   \/ \E c \in Conn : Told(c) \/ Ended(c) \/ \E s \in Conn : Taken(c, s)
<1>service. Maps => [Service!Next]_(Service!vars)
  BY DEF Service!Next, Service!vars, Service!TakeCharge, Service!Withdraw, Service!Resign,
         Service!Tell, Service!Serve, Service!Finish, Service!Pass, Running, Past, Phases
<1> HIDE DEF Maps, Quiet, Enter, DropOut, Retire, Told, Taken, Ended
<1> SUFFICES Maps
  BY <1>service
<1>0. CASE UNCHANGED vars
  BY <1>0, SameServers, SameSessions DEF vars, Maps, Quiet
<1>1. ASSUME NEW c \in Conn, Connect(c) PROVE Maps
  <2>1. CASE CreateToken(c) \/ WriteToken(c) \/ MakePipes(c) \/ ResolveControl(c) \/ OpenControl(c)
    <3>1. UNCHANGED <<srv, kid, kidOf>> /\ \A d \in Conn : con'[d] = "done" <=> con[d] = "done"
      BY <2>1, <1>con
         DEF CreateToken, WriteToken, MakePipes, ResolveControl, OpenControl, Go
    <3>2. QED
      BY <3>1, SameServers, SameSessions DEF Maps, Quiet
  <2>2. CASE ReadToken(c)
    <3>1. srv[c] = "none" /\ con[c] # "done" /\ UNCHANGED <<kid, kidOf>>
      BY <2>2, <1>linked DEF ReadToken, Linked
    <3>2. CASE token = "written" /\ c \in ByHand
      <4>1. con' = [con EXCEPT ![c] = "done"] /\ srv' = [srv EXCEPT ![c] = "starting"]
        BY <2>2, <3>2 DEF ReadToken
      <4>2. Phases[c] = "asking" /\ Phases' = [Phases EXCEPT ![c] = "told"]
        BY <3>1, <4>1, SessionTold
      <4>3. Running' = Running /\ Past' = Past
        BY <3>1, <4>1, ServerAppears
      <4>4. QED
        BY <3>1, <4>2, <4>3 DEF Maps, Told
    <3>3. CASE ~(token = "written" /\ c \in ByHand)
      <4>1. UNCHANGED srv /\ \E to \in {"failed", "probe"} : con' = [con EXCEPT ![c] = to]
        <5>1. CASE token # "written"
          <6>1. con' = [con EXCEPT ![c] = "failed"]
            BY <2>2, <5>1 DEF ReadToken
          <6>2. QED
            BY <2>2, <5>1, <6>1 DEF ReadToken
        <5>2. CASE token = "written" /\ c \notin ByHand
          <6>1. con' = [con EXCEPT ![c] = "probe"]
            BY <2>2, <5>2 DEF ReadToken
          <6>2. QED
            BY <2>2, <5>2, <6>1 DEF ReadToken
        <5>3. QED
          BY <3>3, <5>1, <5>2
      <4>2. \A d \in Conn : con'[d] = "done" <=> con[d] = "done"
        <5>1. PICK to \in {"failed", "probe"} : con' = [con EXCEPT ![c] = to]
          BY <4>1
        <5>2. con'[c] # "done" /\ \A d \in Conn \ {c} : con'[d] = con[d]
          BY <5>1, <1>con
        <5>3. QED
          BY <3>1, <5>2
      <4>3. QED
        BY <3>1, <4>1, <4>2, SameServers, SameSessions DEF Maps, Quiet
    <3>4. QED
      BY <3>2, <3>3
  <2>3. CASE EnsureServer(c)
    <3>1. UNCHANGED <<kid, kidOf>> /\ \A d \in Conn : con'[d] = "done" <=> con[d] = "done"
      BY <2>3, <1>con DEF EnsureServer, Probe, Release, CompareBuild, RetireServer, RetireWait,
         ForkServer, AwaitServer, GiveUp, Go
    <3>sessions. Phases' = Phases
      BY <3>1, SameSessions
    <3>2. CASE UNCHANGED srv
      BY <3>1, <3>2, <3>sessions, SameServers DEF Maps, Quiet
    <3>3. CASE RetireServer(c) /\ srv' # srv
      <4>1. pidfile.pid \in Conn /\ Alive(pidfile.pid)
            /\ srv[pidfile.pid] \notin {"armed", "serving", "leaving", "closing", "unlocking"}
            /\ srv' = [srv EXCEPT ![pidfile.pid] = "gone"]
        BY <3>3, <1>pid DEF RetireServer, Terminate
      <4>2. CASE InCharge(pidfile.pid)
        BY <3>1, <3>sessions, <4>1, <4>2, ServerGoes DEF Maps, Retire
      <4>3. CASE srv[pidfile.pid] = "starting"
        BY <3>1, <3>sessions, <4>1, <4>3, ServerDropsOut DEF Maps, DropOut
      <4>4. QED
        BY <4>1, <4>2, <4>3 DEF Alive
    <3>4. CASE ForkServer(c)
      BY <3>1, <3>4, <3>sessions, ServerAppears DEF ForkServer, ServerGo, Maps, Quiet
    <3>5. QED
      BY <2>3, <3>2, <3>3, <3>4
         DEF EnsureServer, Probe, Release, CompareBuild, RetireWait, AwaitServer, GiveUp
  <2>4. CASE Greet(c)
    <3>1. UNCHANGED <<srv, kid, kidOf>> /\ con[c] = "greet"
      BY <2>4, <1>con DEF Greet, Go
    <3>2. CASE con' = [con EXCEPT ![c] = "done"]
      BY <3>1, <3>2, SessionTold, SameServers DEF Maps, Told
    <3>3. CASE con' = [con EXCEPT ![c] = "failed"]
      <4>1. \A d \in Conn : con'[d] = "done" <=> con[d] = "done"
        BY <3>1, <3>3, <1>con
      <4>2. QED
        BY <3>1, <4>1, SameSessions, SameServers DEF Maps, Quiet
    <3>4. QED
      BY <2>4, <3>2, <3>3 DEF Greet, Go
  <2>5. QED
    BY <1>1, <2>1, <2>2, <2>3, <2>4 DEF Connect
<1>2. ASSUME NEW s \in Conn, Server(s) PROVE Maps
  <2>0. CASE ~Accept(s)
    <3>1. UNCHANGED <<con, kid, kidOf>>
      BY <1>2, <2>0 DEF Server, TakeLock, UnlinkControl, MakeControl, TruncatePid, RecordPid,
         InstallHandlers, OpenOwnControl, Leave, RemoveControl, CloseControl, Unlock
    <3>sessions. Phases' = Phases /\ kidOf' = kidOf
      BY <3>1, SameSessions
    <3>2. CASE TakeLock(s)
      <4>1. CASE srv' = [srv EXCEPT ![s] = "locked"]
        BY <3>2, <3>sessions, <4>1, ServerEnters DEF TakeLock, ServerGo, Maps, Enter
      <4>2. CASE srv' = [srv EXCEPT ![s] = "lost"]
        BY <3>2, <3>sessions, <4>2, ServerDropsOut DEF TakeLock, ServerGo, Maps, DropOut
      <4>3. QED
        BY <3>2, <4>1, <4>2 DEF TakeLock, ServerGo
    <3>3. CASE UnlinkControl(s) \/ TruncatePid(s) \/ RecordPid(s) \/ InstallHandlers(s)
               \/ Leave(s) \/ RemoveControl(s) \/ CloseControl(s)
      <4>1. Running' = Running /\ Past' = Past
        BY <3>3, ServerStays DEF UnlinkControl, TruncatePid, RecordPid, InstallHandlers, Leave,
           RemoveControl, CloseControl
      <4>2. QED
        BY <3>sessions, <4>1 DEF Maps, Quiet
    <3>4. CASE MakeControl(s) \/ OpenOwnControl(s) \/ Unlock(s)
      <4>1. CASE srv' = [srv EXCEPT ![s] = "gone"]
        <5>1. InCharge(s)
          BY <3>4 DEF MakeControl, OpenOwnControl, Unlock, ServerGo, InCharge
        <5>2. QED
          BY <3>sessions, <4>1, <5>1, ServerGoes DEF Maps, Retire
      <4>2. CASE ServerGo(s, "unlinked", "made") \/ ServerGo(s, "armed", "serving")
        BY <3>sessions, <4>2, ServerStays DEF Maps, Quiet
      <4>3. QED
        BY <3>4, <4>1, <4>2 DEF MakeControl, OpenOwnControl, Unlock, ServerGo
    <3>5. QED
      BY <1>2, <2>0, <3>2, <3>3, <3>4 DEF Server
  <2>1. CASE Accept(s)
    <3>1. PICK c \in Conn : c = Head(hello[s]) /\ c \in Waiting(s)
      <4>1. hello[s] \in Seq(Conn) /\ hello[s] # <<>>
        BY <2>1, <1>hello DEF Accept
      <4>2. IsInjective(hello[s])
        BY <1>served DEF ServedOnce
      <4>3. QED
        BY <4>1, <4>2, TailRange DEF Waiting
    <3>2. con[c] = "done" /\ kid[c] = "none"
      BY <3>1, <1>served DEF ServedOnce
    <3>3. kid' = [kid EXCEPT ![c] = "forked"] /\ kidOf' = [kidOf EXCEPT ![c] = s]
          /\ UNCHANGED <<con, srv>> /\ InCharge(s)
      BY <2>1, <3>1 DEF Accept, InCharge
    <3>4. Phases[c] = "told" /\ Phases' = [Phases EXCEPT ![c] = "served"]
      <4>1. Phase(c) = "told" /\ Phase(c)' = "served"
        BY <1>kid, <3>1, <3>2, <3>3 DEF Phase
      <4>2. \A d \in Conn \ {c} : Phase(d)' = Phase(d)
        BY <1>kid, <3>3 DEF Phase
      <4>3. QED
        BY <3>1, <4>1, <4>2 DEF Phases
    <3>5. Running = {s} /\ Running' = Running /\ Past' = Past
      BY <3>3, SameServers DEF OneServer, Running
    <3>6. QED
      BY <3>1, <3>3, <3>4, <3>5 DEF Maps, Taken
  <2>2. QED
    BY <2>0, <2>1
<1>3. ASSUME NEW c \in Conn, Child(c) PROVE Maps
  <2>1. CASE CloseInherited(c)
    <3>1. Phases' = Phases
      BY <2>1, ChildMoves DEF CloseInherited
    <3>2. QED
      BY <2>1, <3>1, SameServers DEF CloseInherited, Maps, Quiet
  <2>2. CASE EndSession(c) \/ RefuseSession(c)
    <3>1. Phases[c] = "served" /\ Phases' = [Phases EXCEPT ![c] = "over"]
      BY <2>2, ChildMoves DEF EndSession, RefuseSession
    <3>2. QED
      BY <2>2, <3>1, SameServers DEF EndSession, RefuseSession, Maps, Ended
  <2>3. CASE Shutdown(c)
    <3>1. Phases[c] = "served" /\ Phases' = [Phases EXCEPT ![c] = "over"]
      BY <2>3, ChildMoves DEF Shutdown
    <3>2. kidOf[c] \in Conn
          /\ srv[kidOf[c]] \in {"serving", "leaving", "closing", "unlocking", "gone"}
      BY <2>3, <1>linked DEF Shutdown, Linked, ParentArmed
    <3>3. UNCHANGED <<srv, kidOf>>
      BY <2>3, <3>2 DEF Shutdown, Terminate, Alive, InCharge
    <3>4. QED
      BY <3>1, <3>3, SameServers DEF Maps, Ended
  <2>4. QED
    BY <1>3, <2>1, <2>2, <2>3 DEF Child
<1>4. CASE StatusTake \/ StatusRelease
  BY <1>4, SameServers, SameSessions DEF StatusTake, StatusRelease, Maps, Quiet
<1>5. CASE StopCommand
  <2>1. UNCHANGED <<con, kid, kidOf>> /\ pidfile.pid \in Conn /\ Alive(pidfile.pid)
    BY <1>5, <1>pid DEF StopCommand
  <2>sessions. Phases' = Phases /\ kidOf' = kidOf
    BY <2>1, SameSessions
  <2>2. CASE UNCHANGED srv
    BY <2>2, <2>sessions, SameServers DEF Maps, Quiet
  <2>3. CASE srv' = [srv EXCEPT ![pidfile.pid] = "gone"]
    <3>1. CASE InCharge(pidfile.pid)
      BY <2>1, <2>3, <2>sessions, <3>1, ServerGoes DEF Maps, Retire
    <3>2. CASE srv[pidfile.pid] = "starting"
      BY <2>1, <2>3, <2>sessions, <3>2, ServerDropsOut DEF Maps, DropOut
    <3>3. QED
      BY <2>1, <3>1, <3>2 DEF Alive
  <2>4. QED
    BY <1>5, <2>2, <2>3 DEF StopCommand, Terminate
<1>6. ASSUME NEW s \in Conn, KillServer(s) PROVE Maps
  <2>1. Phases' = Phases /\ kidOf' = kidOf
    BY <1>6, SameSessions DEF KillServer
  <2>2. QED
    BY <1>6, <2>1, ServerGoes DEF KillServer, Maps, Retire
<1> QED
  BY <1>0, <1>1, <1>2, <1>3, <1>4, <1>5, <1>6 DEF Next, Environment

\* The run directory with its lock and its FIFOs gives the service that
\* SessionService describes: one server at a time that never comes back, each
\* session taken on once by the server then in charge.
THEOREM ServiceImplemented == Spec => ImplementsService
<1>1. Init => Service!Init
  BY DEF Init, Service!Init, InCharge, Phase
<1>2. Spec => [][Service!Next]_(Service!vars)
  BY ServiceStep, TypeInvariant, SessionInvariant, ParentArmedInvariant, AtMostOneServer, PTL
     DEF Spec
<1>3. QED
  BY <1>1, <1>2, PTL DEF Spec, ImplementsService, Service!Spec

=============================================================================
