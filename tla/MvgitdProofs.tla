---------------------------- MODULE MvgitdProofs ----------------------------
(***************************************************************************)
(* What TLAPS proves about Mvgitd, for every set of invocations and every  *)
(* number of kills, stops and status calls.                                *)
(*                                                                         *)
(* The typing invariant comes first.  OneServer then follows from          *)
(* LockFollows: whoever the control state says holds the flock is who the  *)
(* lock itself says holds it.                                              *)
(***************************************************************************)
EXTENDS Mvgitd, TLAPS

\* What TypeOK leaves out and the proofs need: a child has a server, a connect
\* that is past its lookup has a FIFO, and an invocation has no server before
\* it has read its token.
Linked ==
    /\ \A c \in Conn : kid[c] # "none" => kidOf[c] \in Conn
    /\ \A c \in Conn : con[c] \in {"opening", "greet"} => fd[c] \in Conn
    /\ \A c \in Conn : con[c] \in {"token", "tokenWrite", "tokenRead"} => srv[c] = "none"

TypeInv == TypeOK /\ Linked

-----------------------------------------------------------------------------
LEMMA LockRecords ==
    /\ Free \in LockState
    /\ \A c \in Conn \cup {Nobody} : /\ [by |-> "server", id |-> c] \in LockState
                                   /\ [by |-> "probe", id |-> c] \in LockState
  BY DEF Free, LockState

LEMMA LockWithoutTyped ==
    ASSUME lock \in LockState, NEW s
    PROVE  LockWithout(s) \in LockState
  BY LockRecords DEF LockWithout

LEMMA TerminateTyped ==
    ASSUME lock \in LockState, srv \in [Conn -> SrvState], stop \subseteq Conn,
           NEW s \in Conn, Terminate(s)
    PROVE  lock' \in LockState /\ srv' \in [Conn -> SrvState] /\ stop' \subseteq Conn
  BY LockWithoutTyped DEF Terminate, SrvState

\* Every action keeps the type of what it changes.
LEMMA TypeStep == TypeInv /\ [Next]_vars => TypeOK'
<1> SUFFICES ASSUME TypeInv, [Next]_vars PROVE TypeOK'
  OBVIOUS
<1>ok. TypeOK
  BY DEF TypeInv
<1>token. token \in {"absent", "empty", "written"}
  BY <1>ok DEF TypeOK
<1>lock. lock \in LockState
  BY <1>ok DEF TypeOK
<1>pidfile. pidfile \in PidRecord
  BY <1>ok DEF TypeOK
<1>ctl. ctl \in Conn \cup {Nobody}
  BY <1>ok DEF TypeOK
<1>hello. hello \in [Conn -> Seq(Conn)]
  BY <1>ok DEF TypeOK
<1>pipes. pipes \in [Conn -> {"none", "made", "removed"}]
  BY <1>ok DEF TypeOK
<1>con. con \in [Conn -> ConState]
  BY <1>ok DEF TypeOK
<1>fd. fd \in [Conn -> Conn \cup {Nobody}]
  BY <1>ok DEF TypeOK
<1>srv. srv \in [Conn -> SrvState]
  BY <1>ok DEF TypeOK
<1>stop. stop \subseteq Conn
  BY <1>ok DEF TypeOK
<1>kid. kid \in [Conn -> KidState]
  BY <1>ok DEF TypeOK
<1>kidOf. kidOf \in [Conn -> Conn \cup {Nobody}]
  BY <1>ok DEF TypeOK
<1>budget. budget \in Allowance
  BY <1>ok DEF TypeOK
<1>linked. Linked
  BY DEF TypeInv
<1>nobody. Nobody \notin Conn
  BY ConnAssumption
<1>0. CASE UNCHANGED vars
  BY <1>0, <1>ok DEF vars, TypeOK
<1>1. ASSUME NEW c \in Conn, Connect(c) PROVE TypeOK'
  <2>1. CASE CreateToken(c)
      <3>1. token' \in {"absent", "empty", "written"}
        BY <1>ok, <2>1, <1>token DEF CreateToken, Go
      <3>2. con' \in [Conn -> ConState]
        BY <1>ok, <2>1, <1>con DEF CreateToken, Go, ConState
      <3>3. QED
        BY <1>ok, <2>1, <3>1, <3>2 DEF CreateToken, TypeOK
  <2>2. CASE WriteToken(c)
      <3>1. token' \in {"absent", "empty", "written"}
        BY <1>ok, <2>2, <1>token DEF WriteToken, Go
      <3>2. con' \in [Conn -> ConState]
        BY <1>ok, <2>2, <1>con DEF WriteToken, Go, ConState
      <3>3. QED
        BY <1>ok, <2>2, <3>1, <3>2 DEF WriteToken, TypeOK
  <2>3. CASE ReadToken(c)
      <3>1. con' \in [Conn -> ConState]
        BY <1>ok, <2>3, <1>con DEF ReadToken, ConState
      <3>2. srv' \in [Conn -> SrvState]
        BY <1>ok, <2>3, <1>srv DEF ReadToken, SrvState
      <3>3. QED
        BY <1>ok, <2>3, <3>1, <3>2 DEF ReadToken, TypeOK
  <2>4. CASE Probe(c, "probe", "probeHeld", "build")
      <3>1. lock' \in LockState
        BY <1>ok, <2>4, <1>lock, LockRecords DEF Probe, Go
      <3>2. con' \in [Conn -> ConState]
        BY <1>ok, <2>4, <1>con DEF Probe, Go, ConState
      <3>3. QED
        BY <1>ok, <2>4, <3>1, <3>2 DEF Probe, TypeOK
  <2>5. CASE Release(c, "probeHeld", "fork")
      <3>1. lock' \in LockState
        BY <1>ok, <2>5, <1>lock, LockRecords DEF Release, Go
      <3>2. con' \in [Conn -> ConState]
        BY <1>ok, <2>5, <1>con DEF Release, Go, ConState
      <3>3. QED
        BY <1>ok, <2>5, <3>1, <3>2 DEF Release, TypeOK
  <2>6. CASE CompareBuild(c)
      <3>1. con' \in [Conn -> ConState]
        BY <1>ok, <2>6, <1>con DEF CompareBuild, Go, ConState
      <3>2. QED
        BY <1>ok, <2>6, <3>1 DEF CompareBuild, TypeOK
  <2>7. CASE RetireServer(c)
      <3>1. lock' \in LockState /\ srv' \in [Conn -> SrvState] /\ stop' \subseteq Conn
        <4>1. CASE pidfile.pid # Nobody /\ Alive(pidfile.pid)
          <5>1. pidfile.pid \in Conn
            BY <1>ok, <2>7, <4>1, <1>pidfile DEF RetireServer, PidRecord
          <5>2. QED
            BY <1>ok, <2>7, <4>1, <5>1, <1>lock, <1>srv, <1>stop, TerminateTyped DEF RetireServer
        <4>2. CASE ~(pidfile.pid # Nobody /\ Alive(pidfile.pid))
          BY <1>ok, <2>7, <4>2, <1>lock, <1>srv, <1>stop DEF RetireServer
        <4>3. QED
          BY <1>ok, <2>7, <4>1, <4>2 DEF RetireServer
      <3>2. con' \in [Conn -> ConState]
        BY <1>ok, <2>7, <1>con DEF RetireServer, Go, Terminate, ConState
      <3>3. QED
        BY <1>ok, <2>7, <3>1, <3>2 DEF RetireServer, TypeOK
  <2>8. CASE RetireWait(c)
      <3>1. lock' \in LockState
        BY <1>ok, <2>8, <1>lock, LockRecords DEF RetireWait, Probe, Release, Go
      <3>2. con' \in [Conn -> ConState]
        BY <1>ok, <2>8, <1>con DEF RetireWait, Probe, Release, Go, ConState
      <3>3. QED
        BY <1>ok, <2>8, <3>1, <3>2 DEF RetireWait, Probe, Release, TypeOK
  <2>9. CASE Probe(c, "reprobe", "reprobeHeld", "pipes")
      <3>1. lock' \in LockState
        BY <1>ok, <2>9, <1>lock, LockRecords DEF Probe, Go
      <3>2. con' \in [Conn -> ConState]
        BY <1>ok, <2>9, <1>con DEF Probe, Go, ConState
      <3>3. QED
        BY <1>ok, <2>9, <3>1, <3>2 DEF Probe, TypeOK
  <2>10. CASE Release(c, "reprobeHeld", "fork")
      <3>1. lock' \in LockState
        BY <1>ok, <2>10, <1>lock, LockRecords DEF Release, Go
      <3>2. con' \in [Conn -> ConState]
        BY <1>ok, <2>10, <1>con DEF Release, Go, ConState
      <3>3. QED
        BY <1>ok, <2>10, <3>1, <3>2 DEF Release, TypeOK
  <2>11. CASE ForkServer(c)
      <3>1. con' \in [Conn -> ConState]
        BY <1>ok, <2>11, <1>con DEF ForkServer, Go, ServerGo, ConState
      <3>2. srv' \in [Conn -> SrvState]
        BY <1>ok, <2>11, <1>srv DEF ForkServer, Go, ServerGo, SrvState
      <3>3. QED
        BY <1>ok, <2>11, <3>1, <3>2 DEF ForkServer, TypeOK
  <2>12. CASE AwaitServer(c)
      <3>1. lock' \in LockState
        BY <1>ok, <2>12, <1>lock, LockRecords DEF AwaitServer, Probe, Release, GiveUp, Go
      <3>2. con' \in [Conn -> ConState]
        BY <1>ok, <2>12, <1>con DEF AwaitServer, Probe, Release, GiveUp, Go, ConState
      <3>3. QED
        BY <1>ok, <2>12, <3>1, <3>2 DEF AwaitServer, Probe, Release, GiveUp, TypeOK
  <2>13. CASE MakePipes(c)
      <3>1. con' \in [Conn -> ConState]
        BY <1>ok, <2>13, <1>con DEF MakePipes, Go, ConState
      <3>2. pipes' \in [Conn -> {"none", "made", "removed"}]
        BY <1>ok, <2>13, <1>pipes DEF MakePipes, Go
      <3>3. QED
        BY <1>ok, <2>13, <3>1, <3>2 DEF MakePipes, TypeOK
  <2>14. CASE ResolveControl(c)
      <3>1. con' \in [Conn -> ConState]
        BY <1>ok, <2>14, <1>con DEF ResolveControl, Go, ConState
      <3>2. fd' \in [Conn -> Conn \cup {Nobody}]
        BY <1>ok, <2>14, <1>fd, <1>ctl DEF ResolveControl, Go
      <3>3. QED
        BY <1>ok, <2>14, <3>1, <3>2 DEF ResolveControl, TypeOK
  <2>15. CASE OpenControl(c)
      <3>1. con' \in [Conn -> ConState]
        BY <1>ok, <2>15, <1>con DEF OpenControl, Go, ConState
      <3>2. QED
        BY <1>ok, <2>15, <3>1 DEF OpenControl, TypeOK
  <2>16. CASE Greet(c)
      <3>1. hello' \in [Conn -> Seq(Conn)]
        <4>1. fd[c] \in Conn
          BY <1>ok, <2>16, <1>linked DEF Greet, Linked
        <4>2. CASE HasReader(fd[c])
          <5>1. hello' = [hello EXCEPT ![fd[c]] = Append(@, c)]
            BY <1>ok, <2>16, <4>2 DEF Greet
          <5>2. QED
            BY <4>1, <5>1, <1>hello
        <4>3. CASE ~HasReader(fd[c])
          BY <1>ok, <2>16, <4>3, <1>hello DEF Greet
        <4>4. QED
          BY <4>2, <4>3
      <3>2. con' \in [Conn -> ConState]
        BY <1>ok, <2>16, <1>con DEF Greet, Go, ConState
      <3>3. fd' \in [Conn -> Conn \cup {Nobody}]
        BY <1>ok, <2>16, <1>fd, <1>ctl DEF Greet, Go
      <3>4. QED
        BY <1>ok, <2>16, <3>1, <3>2, <3>3 DEF Greet, TypeOK
  <2> QED
    BY <1>1, <2>1, <2>2, <2>3, <2>4, <2>5, <2>6, <2>7, <2>8, <2>9, <2>10, <2>11, <2>12, <2>13, <2>14, <2>15, <2>16 DEF Connect, EnsureServer
<1>2. ASSUME NEW c \in Conn, Server(c) PROVE TypeOK'
  <2>1. CASE TakeLock(c)
      <3>1. lock' \in LockState
        BY <1>ok, <2>1, <1>lock, LockRecords DEF TakeLock, ServerGo
      <3>2. srv' \in [Conn -> SrvState]
        BY <1>ok, <2>1, <1>srv DEF TakeLock, ServerGo, SrvState
      <3>3. QED
        BY <1>ok, <2>1, <3>1, <3>2 DEF TakeLock, TypeOK
  <2>2. CASE UnlinkControl(c)
      <3>1. ctl' \in Conn \cup {Nobody}
        BY <1>ok, <2>2, <1>ctl DEF UnlinkControl, ServerGo
      <3>2. srv' \in [Conn -> SrvState]
        BY <1>ok, <2>2, <1>srv DEF UnlinkControl, ServerGo, SrvState
      <3>3. QED
        BY <1>ok, <2>2, <3>1, <3>2 DEF UnlinkControl, TypeOK
  <2>3. CASE MakeControl(c)
      <3>1. lock' \in LockState
        BY <1>ok, <2>3, <1>lock, LockRecords, LockWithoutTyped DEF MakeControl, ServerGo
      <3>2. ctl' \in Conn \cup {Nobody}
        BY <1>ok, <2>3, <1>ctl DEF MakeControl, ServerGo
      <3>3. srv' \in [Conn -> SrvState]
        BY <1>ok, <2>3, <1>srv DEF MakeControl, ServerGo, SrvState
      <3>4. QED
        BY <1>ok, <2>3, <3>1, <3>2, <3>3 DEF MakeControl, TypeOK
  <2>4. CASE TruncatePid(c)
      <3>1. pidfile' \in PidRecord
        BY <1>ok, <2>4, <1>pidfile, <1>nobody DEF TruncatePid, ServerGo, PidRecord
      <3>2. srv' \in [Conn -> SrvState]
        BY <1>ok, <2>4, <1>srv DEF TruncatePid, ServerGo, SrvState
      <3>3. QED
        BY <1>ok, <2>4, <3>1, <3>2 DEF TruncatePid, TypeOK
  <2>5. CASE RecordPid(c)
      <3>1. pidfile' \in PidRecord
        BY <1>ok, <2>5, <1>pidfile, <1>nobody DEF RecordPid, ServerGo, PidRecord
      <3>2. srv' \in [Conn -> SrvState]
        BY <1>ok, <2>5, <1>srv DEF RecordPid, ServerGo, SrvState
      <3>3. QED
        BY <1>ok, <2>5, <3>1, <3>2 DEF RecordPid, TypeOK
  <2>6. CASE InstallHandlers(c)
      <3>1. srv' \in [Conn -> SrvState]
        BY <1>ok, <2>6, <1>srv DEF InstallHandlers, ServerGo, SrvState
      <3>2. QED
        BY <1>ok, <2>6, <3>1 DEF InstallHandlers, TypeOK
  <2>7. CASE OpenOwnControl(c)
      <3>1. lock' \in LockState
        BY <1>ok, <2>7, <1>lock, LockRecords, LockWithoutTyped DEF OpenOwnControl, ServerGo
      <3>2. srv' \in [Conn -> SrvState]
        BY <1>ok, <2>7, <1>srv DEF OpenOwnControl, ServerGo, SrvState
      <3>3. QED
        BY <1>ok, <2>7, <3>1, <3>2 DEF OpenOwnControl, TypeOK
  <2>8. CASE Accept(c)
      <3>1. hello' \in [Conn -> Seq(Conn)]
        BY <1>ok, <2>8, <1>hello DEF Accept
      <3>2. kid' \in [Conn -> KidState]
        BY <1>ok, <2>8, <1>kid DEF Accept, KidState
      <3>3. kidOf' \in [Conn -> Conn \cup {Nobody}]
        BY <1>ok, <2>8, <1>kidOf DEF Accept
      <3>4. QED
        BY <1>ok, <2>8, <3>1, <3>2, <3>3 DEF Accept, TypeOK
  <2>9. CASE Leave(c)
      <3>1. srv' \in [Conn -> SrvState]
        BY <1>ok, <2>9, <1>srv DEF Leave, ServerGo, SrvState
      <3>2. QED
        BY <1>ok, <2>9, <3>1 DEF Leave, TypeOK
  <2>10. CASE RemoveControl(c)
      <3>1. ctl' \in Conn \cup {Nobody}
        BY <1>ok, <2>10, <1>ctl DEF RemoveControl, ServerGo
      <3>2. srv' \in [Conn -> SrvState]
        BY <1>ok, <2>10, <1>srv DEF RemoveControl, ServerGo, SrvState
      <3>3. QED
        BY <1>ok, <2>10, <3>1, <3>2 DEF RemoveControl, TypeOK
  <2>11. CASE CloseControl(c)
      <3>1. srv' \in [Conn -> SrvState]
        BY <1>ok, <2>11, <1>srv DEF CloseControl, ServerGo, SrvState
      <3>2. QED
        BY <1>ok, <2>11, <3>1 DEF CloseControl, TypeOK
  <2>12. CASE Unlock(c)
      <3>1. lock' \in LockState
        BY <1>ok, <2>12, <1>lock, LockRecords, LockWithoutTyped DEF Unlock, ServerGo
      <3>2. srv' \in [Conn -> SrvState]
        BY <1>ok, <2>12, <1>srv DEF Unlock, ServerGo, SrvState
      <3>3. QED
        BY <1>ok, <2>12, <3>1, <3>2 DEF Unlock, TypeOK
  <2> QED
    BY <1>2, <2>1, <2>2, <2>3, <2>4, <2>5, <2>6, <2>7, <2>8, <2>9, <2>10, <2>11, <2>12 DEF Server
<1>3. ASSUME NEW c \in Conn, Child(c) PROVE TypeOK'
  <2>1. CASE CloseInherited(c)
      <3>1. lock' \in LockState
        BY <1>ok, <2>1, <1>lock, LockRecords DEF CloseInherited
      <3>2. kid' \in [Conn -> KidState]
        BY <1>ok, <2>1, <1>kid DEF CloseInherited, KidState
      <3>3. QED
        BY <1>ok, <2>1, <3>1, <3>2 DEF CloseInherited, TypeOK
  <2>2. CASE EndSession(c)
      <3>1. kid' \in [Conn -> KidState]
        BY <1>ok, <2>2, <1>kid DEF EndSession, KidState
      <3>2. pipes' \in [Conn -> {"none", "made", "removed"}]
        BY <1>ok, <2>2, <1>pipes DEF EndSession
      <3>3. QED
        BY <1>ok, <2>2, <3>1, <3>2 DEF EndSession, TypeOK
  <2>3. CASE RefuseSession(c)
      <3>1. kid' \in [Conn -> KidState]
        BY <1>ok, <2>3, <1>kid DEF RefuseSession, KidState
      <3>2. QED
        BY <1>ok, <2>3, <3>1 DEF RefuseSession, TypeOK
  <2>4. CASE Shutdown(c)
      <3>1. lock' \in LockState /\ srv' \in [Conn -> SrvState] /\ stop' \subseteq Conn
        <4>1. CASE Alive(kidOf[c])
          <5>1. kidOf[c] \in Conn
            BY <1>ok, <2>4, <4>1, <1>linked DEF Shutdown, Linked
          <5>2. QED
            BY <1>ok, <2>4, <4>1, <5>1, <1>lock, <1>srv, <1>stop, TerminateTyped DEF Shutdown
        <4>2. CASE ~(Alive(kidOf[c]))
          BY <1>ok, <2>4, <4>2, <1>lock, <1>srv, <1>stop DEF Shutdown
        <4>3. QED
          BY <1>ok, <2>4, <4>1, <4>2 DEF Shutdown
      <3>2. kid' \in [Conn -> KidState]
        BY <1>ok, <2>4, <1>kid DEF Shutdown, Terminate, KidState
      <3>3. pipes' \in [Conn -> {"none", "made", "removed"}]
        BY <1>ok, <2>4, <1>pipes DEF Shutdown, Terminate
      <3>4. budget' \in Allowance
        BY <1>ok, <2>4, <1>budget DEF Shutdown, Terminate, Allowance
      <3>5. QED
        BY <1>ok, <2>4, <3>1, <3>2, <3>3, <3>4 DEF Shutdown, TypeOK
  <2> QED
    BY <1>3, <2>1, <2>2, <2>3, <2>4 DEF Child
<1>4. CASE StopCommand
  <2>1. lock' \in LockState /\ srv' \in [Conn -> SrvState] /\ stop' \subseteq Conn
    <3>1. CASE Terminate(pidfile.pid)
      <4>1. pidfile.pid \in Conn
        BY <1>ok, <1>4, <3>1, <1>pidfile DEF StopCommand, PidRecord
      <4>2. QED
        BY <1>ok, <1>4, <3>1, <4>1, <1>lock, <1>srv, <1>stop, TerminateTyped DEF StopCommand
    <3>3. QED
      BY <1>ok, <1>4, <3>1 DEF StopCommand
  <2>2. budget' \in Allowance
    BY <1>ok, <1>4, <1>budget DEF StopCommand, Terminate, Allowance
  <2>3. QED
    BY <1>ok, <1>4, <2>1, <2>2 DEF StopCommand, TypeOK
<1>5. CASE StatusTake
  <2>1. lock' \in LockState
    BY <1>ok, <1>5, <1>lock, LockRecords DEF StatusTake
  <2>2. budget' \in Allowance
    BY <1>ok, <1>5, <1>budget DEF StatusTake, Allowance
  <2>3. QED
    BY <1>ok, <1>5, <2>1, <2>2 DEF StatusTake, TypeOK
<1>6. CASE StatusRelease
  <2>1. lock' \in LockState
    BY <1>ok, <1>6, <1>lock, LockRecords DEF StatusRelease
  <2>2. QED
    BY <1>ok, <1>6, <2>1 DEF StatusRelease, TypeOK
<1>7. ASSUME NEW c \in Conn, KillServer(c) PROVE TypeOK'
  <2>1. lock' \in LockState
    BY <1>ok, <1>7, <1>lock, LockRecords, LockWithoutTyped DEF KillServer
  <2>2. srv' \in [Conn -> SrvState]
    BY <1>ok, <1>7, <1>srv DEF KillServer, SrvState
  <2>3. budget' \in Allowance
    BY <1>ok, <1>7, <1>budget DEF KillServer, Allowance
  <2>4. QED
    BY <1>ok, <1>7, <2>1, <2>2, <2>3 DEF KillServer, TypeOK
<1> QED
  BY <1>0, <1>1, <1>2, <1>3, <1>4, <1>5, <1>6, <1>7 DEF Next, Environment

\* No action breaks these links.
LEMMA LinkedStep == TypeInv /\ [Next]_vars => Linked'
<1> SUFFICES ASSUME TypeInv, [Next]_vars PROVE Linked'
  OBVIOUS
<1>con. con \in [Conn -> ConState]
  BY DEF TypeInv, TypeOK
<1>srv. srv \in [Conn -> SrvState]
  BY DEF TypeInv, TypeOK
<1>kid. kid \in [Conn -> KidState]
  BY DEF TypeInv, TypeOK
<1>fd. fd \in [Conn -> Conn \cup {Nobody}]
  BY DEF TypeInv, TypeOK
<1>kidOf. kidOf \in [Conn -> Conn \cup {Nobody}]
  BY DEF TypeInv, TypeOK
<1>ctl. ctl \in Conn \cup {Nobody}
  BY DEF TypeInv, TypeOK
<1>linked. Linked
  BY DEF TypeInv
<1>hello. hello \in [Conn -> Seq(Conn)]
  BY DEF TypeInv, TypeOK
<1>0. CASE UNCHANGED vars
  BY <1>0, <1>con, <1>srv, <1>kid, <1>fd, <1>kidOf, <1>ctl, <1>linked, <1>hello DEF vars, Linked, Alive, InCharge
<1>1. ASSUME NEW c \in Conn, Connect(c) PROVE Linked'
  <2>1. CASE CreateToken(c)
    BY <2>1, <1>con, <1>srv, <1>kid, <1>fd, <1>kidOf, <1>ctl, <1>linked, <1>hello DEF CreateToken, Go, Linked, Alive, InCharge
  <2>2. CASE WriteToken(c)
    BY <2>2, <1>con, <1>srv, <1>kid, <1>fd, <1>kidOf, <1>ctl, <1>linked, <1>hello DEF WriteToken, Go, Linked, Alive, InCharge
  <2>3. CASE ReadToken(c)
    BY <2>3, <1>con, <1>srv, <1>kid, <1>fd, <1>kidOf, <1>ctl, <1>linked, <1>hello DEF ReadToken, Linked, Alive, InCharge
  <2>4. CASE Probe(c, "probe", "probeHeld", "build")
    BY <2>4, <1>con, <1>srv, <1>kid, <1>fd, <1>kidOf, <1>ctl, <1>linked, <1>hello DEF Probe, Go, Linked, Alive, InCharge
  <2>5. CASE Release(c, "probeHeld", "fork")
    BY <2>5, <1>con, <1>srv, <1>kid, <1>fd, <1>kidOf, <1>ctl, <1>linked, <1>hello DEF Release, Go, Linked, Alive, InCharge
  <2>6. CASE CompareBuild(c)
    BY <2>6, <1>con, <1>srv, <1>kid, <1>fd, <1>kidOf, <1>ctl, <1>linked, <1>hello DEF CompareBuild, Go, Linked, Alive, InCharge
  <2>7. CASE RetireServer(c)
    BY <2>7, <1>con, <1>srv, <1>kid, <1>fd, <1>kidOf, <1>ctl, <1>linked, <1>hello DEF RetireServer, Go, Terminate, Linked, Alive, InCharge
  <2>8. CASE RetireWait(c)
    BY <2>8, <1>con, <1>srv, <1>kid, <1>fd, <1>kidOf, <1>ctl, <1>linked, <1>hello DEF RetireWait, Probe, Release, Go, Linked, Alive, InCharge
  <2>9. CASE Probe(c, "reprobe", "reprobeHeld", "pipes")
    BY <2>9, <1>con, <1>srv, <1>kid, <1>fd, <1>kidOf, <1>ctl, <1>linked, <1>hello DEF Probe, Go, Linked, Alive, InCharge
  <2>10. CASE Release(c, "reprobeHeld", "fork")
    BY <2>10, <1>con, <1>srv, <1>kid, <1>fd, <1>kidOf, <1>ctl, <1>linked, <1>hello DEF Release, Go, Linked, Alive, InCharge
  <2>11. CASE ForkServer(c)
    BY <2>11, <1>con, <1>srv, <1>kid, <1>fd, <1>kidOf, <1>ctl, <1>linked, <1>hello DEF ForkServer, Go, ServerGo, Linked, Alive, InCharge
  <2>12. CASE AwaitServer(c)
    BY <2>12, <1>con, <1>srv, <1>kid, <1>fd, <1>kidOf, <1>ctl, <1>linked, <1>hello DEF AwaitServer, Probe, Release, GiveUp, Go, Linked, Alive, InCharge
  <2>13. CASE MakePipes(c)
    BY <2>13, <1>con, <1>srv, <1>kid, <1>fd, <1>kidOf, <1>ctl, <1>linked, <1>hello DEF MakePipes, Go, Linked, Alive, InCharge
  <2>14. CASE ResolveControl(c)
    BY <2>14, <1>con, <1>srv, <1>kid, <1>fd, <1>kidOf, <1>ctl, <1>linked, <1>hello DEF ResolveControl, Go, Linked, Alive, InCharge
  <2>15. CASE OpenControl(c)
    BY <2>15, <1>con, <1>srv, <1>kid, <1>fd, <1>kidOf, <1>ctl, <1>linked, <1>hello DEF OpenControl, Go, Linked, Alive, InCharge
  <2>16. CASE Greet(c)
    BY <2>16, <1>con, <1>srv, <1>kid, <1>fd, <1>kidOf, <1>ctl, <1>linked, <1>hello DEF Greet, Go, Linked, Alive, InCharge
  <2> QED
    BY <1>1, <2>1, <2>2, <2>3, <2>4, <2>5, <2>6, <2>7, <2>8, <2>9, <2>10, <2>11, <2>12, <2>13, <2>14, <2>15, <2>16 DEF Connect, EnsureServer
<1>2. ASSUME NEW c \in Conn, Server(c) PROVE Linked'
  <2>1. CASE TakeLock(c)
    BY <2>1, <1>con, <1>srv, <1>kid, <1>fd, <1>kidOf, <1>ctl, <1>linked, <1>hello DEF TakeLock, ServerGo, Linked, Alive, InCharge
  <2>2. CASE UnlinkControl(c)
    BY <2>2, <1>con, <1>srv, <1>kid, <1>fd, <1>kidOf, <1>ctl, <1>linked, <1>hello DEF UnlinkControl, ServerGo, Linked, Alive, InCharge
  <2>3. CASE MakeControl(c)
    BY <2>3, <1>con, <1>srv, <1>kid, <1>fd, <1>kidOf, <1>ctl, <1>linked, <1>hello DEF MakeControl, ServerGo, Linked, Alive, InCharge
  <2>4. CASE TruncatePid(c)
    BY <2>4, <1>con, <1>srv, <1>kid, <1>fd, <1>kidOf, <1>ctl, <1>linked, <1>hello DEF TruncatePid, ServerGo, Linked, Alive, InCharge
  <2>5. CASE RecordPid(c)
    BY <2>5, <1>con, <1>srv, <1>kid, <1>fd, <1>kidOf, <1>ctl, <1>linked, <1>hello DEF RecordPid, ServerGo, Linked, Alive, InCharge
  <2>6. CASE InstallHandlers(c)
    BY <2>6, <1>con, <1>srv, <1>kid, <1>fd, <1>kidOf, <1>ctl, <1>linked, <1>hello DEF InstallHandlers, ServerGo, Linked, Alive, InCharge
  <2>7. CASE OpenOwnControl(c)
    BY <2>7, <1>con, <1>srv, <1>kid, <1>fd, <1>kidOf, <1>ctl, <1>linked, <1>hello DEF OpenOwnControl, ServerGo, Linked, Alive, InCharge
  <2>8. CASE Accept(c)
    BY <2>8, <1>con, <1>srv, <1>kid, <1>fd, <1>kidOf, <1>ctl, <1>linked, <1>hello DEF Accept, Linked, Alive, InCharge
  <2>9. CASE Leave(c)
    BY <2>9, <1>con, <1>srv, <1>kid, <1>fd, <1>kidOf, <1>ctl, <1>linked, <1>hello DEF Leave, ServerGo, Linked, Alive, InCharge
  <2>10. CASE RemoveControl(c)
    BY <2>10, <1>con, <1>srv, <1>kid, <1>fd, <1>kidOf, <1>ctl, <1>linked, <1>hello DEF RemoveControl, ServerGo, Linked, Alive, InCharge
  <2>11. CASE CloseControl(c)
    BY <2>11, <1>con, <1>srv, <1>kid, <1>fd, <1>kidOf, <1>ctl, <1>linked, <1>hello DEF CloseControl, ServerGo, Linked, Alive, InCharge
  <2>12. CASE Unlock(c)
    BY <2>12, <1>con, <1>srv, <1>kid, <1>fd, <1>kidOf, <1>ctl, <1>linked, <1>hello DEF Unlock, ServerGo, Linked, Alive, InCharge
  <2> QED
    BY <1>2, <2>1, <2>2, <2>3, <2>4, <2>5, <2>6, <2>7, <2>8, <2>9, <2>10, <2>11, <2>12 DEF Server
<1>3. ASSUME NEW c \in Conn, Child(c) PROVE Linked'
  <2>1. CASE CloseInherited(c)
    BY <2>1, <1>con, <1>srv, <1>kid, <1>fd, <1>kidOf, <1>ctl, <1>linked, <1>hello DEF CloseInherited, Linked, Alive, InCharge
  <2>2. CASE EndSession(c)
    BY <2>2, <1>con, <1>srv, <1>kid, <1>fd, <1>kidOf, <1>ctl, <1>linked, <1>hello DEF EndSession, Linked, Alive, InCharge
  <2>3. CASE RefuseSession(c)
    BY <2>3, <1>con, <1>srv, <1>kid, <1>fd, <1>kidOf, <1>ctl, <1>linked, <1>hello DEF RefuseSession, Linked, Alive, InCharge
  <2>4. CASE Shutdown(c)
    BY <2>4, <1>con, <1>srv, <1>kid, <1>fd, <1>kidOf, <1>ctl, <1>linked, <1>hello DEF Shutdown, Terminate, Linked, Alive, InCharge
  <2> QED
    BY <1>3, <2>1, <2>2, <2>3, <2>4 DEF Child
<1>4. CASE StopCommand
  BY <1>4, <1>con, <1>srv, <1>kid, <1>fd, <1>kidOf, <1>ctl, <1>linked, <1>hello DEF StopCommand, Terminate, Linked, Alive, InCharge
<1>5. CASE StatusTake
  BY <1>5, <1>con, <1>srv, <1>kid, <1>fd, <1>kidOf, <1>ctl, <1>linked, <1>hello DEF StatusTake, Linked, Alive, InCharge
<1>6. CASE StatusRelease
  BY <1>6, <1>con, <1>srv, <1>kid, <1>fd, <1>kidOf, <1>ctl, <1>linked, <1>hello DEF StatusRelease, Linked, Alive, InCharge
<1>7. ASSUME NEW c \in Conn, KillServer(c) PROVE Linked'
  BY <1>7, <1>con, <1>srv, <1>kid, <1>fd, <1>kidOf, <1>ctl, <1>linked, <1>hello DEF KillServer, Linked, Alive, InCharge
<1> QED
  BY <1>0, <1>1, <1>2, <1>3, <1>4, <1>5, <1>6, <1>7 DEF Next, Environment

LEMMA TypeInvariant == Spec => []TypeInv
<1>1. Init => TypeInv
  BY ConnAssumption, LockRecords DEF Init, TypeInv, TypeOK, Linked, ConState, SrvState, KidState,
     PidRecord, Allowance
<1>2. TypeInv /\ [Next]_vars => TypeInv'
  BY TypeStep, LinkedStep DEF TypeInv
<1>3. QED
  BY <1>1, <1>2, PTL DEF Spec

\* Every variable of the server's life cycle keeps its type, whoever starts,
\* retires, stops or kills servers.
THEOREM TypeCorrect == Spec => []TypeOK
<1>1. TypeInv => TypeOK
  BY DEF TypeInv
<1>2. QED
  BY <1>1, TypeInvariant, PTL

-----------------------------------------------------------------------------
\* Who the control states say holds the lock is who the lock says holds it: a
\* server from its flock to its unlock, a trial flock until its LOCK_UN.
LockFollows ==
    /\ \A s \in Conn : InCharge(s) => lock = [by |-> "server", id |-> s]
    /\ \A c \in Conn : con[c] \in {"probeHeld", "retireHeld", "reprobeHeld", "waitHeld"}
                           => lock = [by |-> "probe", id |-> c]

\* A signal takes the lock only from the server it ends.
LEMMA TerminateFollows ==
    ASSUME srv \in [Conn -> SrvState], LockFollows, NEW s \in Conn, Terminate(s),
           \A c \in Conn : con'[c] \in {"probeHeld", "retireHeld", "reprobeHeld", "waitHeld"}
                               => con'[c] = con[c]
    PROVE  LockFollows'
<1>1. CASE UNCHANGED <<srv, lock>>
  BY <1>1 DEF LockFollows, InCharge
<1>2. CASE srv' = [srv EXCEPT ![s] = "gone"] /\ lock' = LockWithout(s)
  <2>1. \A t \in Conn : InCharge(t)' => InCharge(t) /\ t # s
    BY <1>2 DEF InCharge
  <2>2. CASE lock = [by |-> "server", id |-> s]
    BY <2>1, <2>2 DEF LockFollows
  <2>3. CASE lock # [by |-> "server", id |-> s]
    BY <1>2, <2>1, <2>3 DEF LockFollows, LockWithout
  <2>4. QED
    BY <2>2, <2>3
<1>3. QED
  BY <1>1, <1>2 DEF Terminate

\* The lock changes hands only where the control state does.
LEMMA LockStep == TypeInv /\ LockFollows /\ [Next]_vars => LockFollows'
<1> SUFFICES ASSUME TypeInv, LockFollows, [Next]_vars PROVE LockFollows'
  OBVIOUS
<1>con. con \in [Conn -> ConState]
  BY DEF TypeInv, TypeOK
<1>srv. srv \in [Conn -> SrvState]
  BY DEF TypeInv, TypeOK
<1>follows. LockFollows
  BY DEF LockFollows
<1>nobody. Nobody \notin Conn
  BY ConnAssumption
<1>linked. Linked
  BY DEF TypeInv
<1>pid. pidfile.pid \in Conn \cup {Nobody}
  BY DEF TypeInv, TypeOK, PidRecord
<1>0. CASE UNCHANGED vars
  BY <1>0, <1>con, <1>srv, <1>follows, <1>nobody DEF vars, LockFollows, InCharge, Free
<1>1. ASSUME NEW c \in Conn, Connect(c) PROVE LockFollows'
  <2>1. CASE CreateToken(c)
    BY <2>1, <1>con, <1>srv, <1>follows, <1>nobody DEF CreateToken, Go, LockFollows, InCharge, Free
  <2>2. CASE WriteToken(c)
    BY <2>2, <1>con, <1>srv, <1>follows, <1>nobody DEF WriteToken, Go, LockFollows, InCharge, Free
  <2>3. CASE ReadToken(c)
    BY <2>3, <1>con, <1>srv, <1>follows, <1>nobody DEF ReadToken, LockFollows, InCharge, Free
  <2>4. CASE Probe(c, "probe", "probeHeld", "build")
    BY <2>4, <1>con, <1>srv, <1>follows, <1>nobody DEF Probe, Go, LockFollows, InCharge, Free
  <2>5. CASE Release(c, "probeHeld", "fork")
    BY <2>5, <1>con, <1>srv, <1>follows, <1>nobody DEF Release, Go, LockFollows, InCharge, Free
  <2>6. CASE CompareBuild(c)
    BY <2>6, <1>con, <1>srv, <1>follows, <1>nobody DEF CompareBuild, Go, LockFollows, InCharge, Free
  <2>7. CASE RetireServer(c)
    <3>1. con' \in [Conn -> ConState] /\ \A d \in Conn \ {c} : con'[d] = con[d]
      BY <2>7, <1>con DEF RetireServer, Go, ConState
    <3>2. con'[c] \in {"retireWait", "reprobe"}
      BY <2>7, <1>con DEF RetireServer, Go
    <3>3. CASE pidfile.pid # Nobody /\ Alive(pidfile.pid)
      BY <2>7, <3>1, <3>2, <3>3, <1>srv, <1>pid, <1>follows, TerminateFollows DEF RetireServer
    <3>4. CASE ~(pidfile.pid # Nobody /\ Alive(pidfile.pid))
      BY <2>7, <3>1, <3>2, <3>4, <1>follows DEF RetireServer, LockFollows, InCharge
    <3>5. QED
      BY <3>3, <3>4
  <2>8. CASE RetireWait(c)
    BY <2>8, <1>con, <1>srv, <1>follows, <1>nobody DEF RetireWait, Probe, Release, Go, LockFollows, InCharge, Free
  <2>9. CASE Probe(c, "reprobe", "reprobeHeld", "pipes")
    BY <2>9, <1>con, <1>srv, <1>follows, <1>nobody DEF Probe, Go, LockFollows, InCharge, Free
  <2>10. CASE Release(c, "reprobeHeld", "fork")
    BY <2>10, <1>con, <1>srv, <1>follows, <1>nobody DEF Release, Go, LockFollows, InCharge, Free
  <2>11. CASE ForkServer(c)
    BY <2>11, <1>con, <1>srv, <1>follows, <1>nobody DEF ForkServer, Go, ServerGo, LockFollows, InCharge, Free
  <2>12. CASE AwaitServer(c)
    BY <2>12, <1>con, <1>srv, <1>follows, <1>nobody DEF AwaitServer, Probe, Release, GiveUp, Go, LockFollows, InCharge, Free
  <2>13. CASE MakePipes(c)
    BY <2>13, <1>con, <1>srv, <1>follows, <1>nobody DEF MakePipes, Go, LockFollows, InCharge, Free
  <2>14. CASE ResolveControl(c)
    BY <2>14, <1>con, <1>srv, <1>follows, <1>nobody DEF ResolveControl, Go, LockFollows, InCharge, Free
  <2>15. CASE OpenControl(c)
    BY <2>15, <1>con, <1>srv, <1>follows, <1>nobody DEF OpenControl, Go, LockFollows, InCharge, Free
  <2>16. CASE Greet(c)
    BY <2>16, <1>con, <1>srv, <1>follows, <1>nobody DEF Greet, Go, LockFollows, InCharge, Free
  <2> QED
    BY <1>1, <2>1, <2>2, <2>3, <2>4, <2>5, <2>6, <2>7, <2>8, <2>9, <2>10, <2>11, <2>12, <2>13, <2>14, <2>15, <2>16 DEF Connect, EnsureServer
<1>2. ASSUME NEW c \in Conn, Server(c) PROVE LockFollows'
  <2>1. CASE TakeLock(c)
    BY <2>1, <1>con, <1>srv, <1>follows, <1>nobody DEF TakeLock, ServerGo, LockFollows, InCharge, Free
  <2>2. CASE UnlinkControl(c)
    BY <2>2, <1>con, <1>srv, <1>follows, <1>nobody DEF UnlinkControl, ServerGo, LockFollows, InCharge, Free
  <2>3. CASE MakeControl(c)
    BY <2>3, <1>con, <1>srv, <1>follows, <1>nobody DEF MakeControl, ServerGo, LockFollows, InCharge, Free
  <2>4. CASE TruncatePid(c)
    BY <2>4, <1>con, <1>srv, <1>follows, <1>nobody DEF TruncatePid, ServerGo, LockFollows, InCharge, Free
  <2>5. CASE RecordPid(c)
    BY <2>5, <1>con, <1>srv, <1>follows, <1>nobody DEF RecordPid, ServerGo, LockFollows, InCharge, Free
  <2>6. CASE InstallHandlers(c)
    BY <2>6, <1>con, <1>srv, <1>follows, <1>nobody DEF InstallHandlers, ServerGo, LockFollows, InCharge, Free
  <2>7. CASE OpenOwnControl(c)
    BY <2>7, <1>con, <1>srv, <1>follows, <1>nobody DEF OpenOwnControl, ServerGo, LockFollows, InCharge, Free
  <2>8. CASE Accept(c)
    BY <2>8, <1>con, <1>srv, <1>follows, <1>nobody DEF Accept, LockFollows, InCharge, Free
  <2>9. CASE Leave(c)
    BY <2>9, <1>con, <1>srv, <1>follows, <1>nobody DEF Leave, ServerGo, LockFollows, InCharge, Free
  <2>10. CASE RemoveControl(c)
    BY <2>10, <1>con, <1>srv, <1>follows, <1>nobody DEF RemoveControl, ServerGo, LockFollows, InCharge, Free
  <2>11. CASE CloseControl(c)
    BY <2>11, <1>con, <1>srv, <1>follows, <1>nobody DEF CloseControl, ServerGo, LockFollows, InCharge, Free
  <2>12. CASE Unlock(c)
    BY <2>12, <1>con, <1>srv, <1>follows, <1>nobody DEF Unlock, ServerGo, LockFollows, InCharge, Free
  <2> QED
    BY <1>2, <2>1, <2>2, <2>3, <2>4, <2>5, <2>6, <2>7, <2>8, <2>9, <2>10, <2>11, <2>12 DEF Server
<1>3. ASSUME NEW c \in Conn, Child(c) PROVE LockFollows'
  <2>1. CASE CloseInherited(c)
    BY <2>1, <1>con, <1>srv, <1>follows, <1>nobody DEF CloseInherited, LockFollows, InCharge, Free
  <2>2. CASE EndSession(c)
    BY <2>2, <1>con, <1>srv, <1>follows, <1>nobody DEF EndSession, LockFollows, InCharge, Free
  <2>3. CASE RefuseSession(c)
    BY <2>3, <1>con, <1>srv, <1>follows, <1>nobody DEF RefuseSession, LockFollows, InCharge, Free
  <2>4. CASE Shutdown(c)
    <3>1. CASE Alive(kidOf[c])
      BY <2>4, <3>1, <1>srv, <1>linked, <1>follows, TerminateFollows DEF Shutdown, Linked
    <3>2. CASE ~Alive(kidOf[c])
      BY <2>4, <3>2, <1>follows DEF Shutdown, LockFollows, InCharge
    <3>3. QED
      BY <3>1, <3>2
  <2> QED
    BY <1>3, <2>1, <2>2, <2>3, <2>4 DEF Child
<1>4. CASE StopCommand
  BY <1>4, <1>con, <1>srv, <1>pid, <1>follows, TerminateFollows DEF StopCommand
<1>5. CASE StatusTake
  BY <1>5, <1>con, <1>srv, <1>follows, <1>nobody DEF StatusTake, LockFollows, InCharge, Free
<1>6. CASE StatusRelease
  BY <1>6, <1>con, <1>srv, <1>follows, <1>nobody DEF StatusRelease, LockFollows, InCharge, Free
<1>7. ASSUME NEW c \in Conn, KillServer(c) PROVE LockFollows'
  BY <1>7, <1>con, <1>srv, <1>follows, <1>nobody DEF KillServer, LockFollows, InCharge, Free
<1> QED
  BY <1>0, <1>1, <1>2, <1>3, <1>4, <1>5, <1>6, <1>7 DEF Next, Environment

LEMMA LockInvariant == Spec => []LockFollows
<1>1. Init => LockFollows
  BY DEF Init, LockFollows, InCharge
<1>2. QED
  BY <1>1, LockStep, TypeInvariant, PTL DEF Spec

\* "One process per user": at most one server is past its flock and not yet
\* past its unlock.
THEOREM AtMostOneServer == Spec => []OneServer
<1>1. LockFollows => OneServer
  BY DEF LockFollows, OneServer
<1>2. QED
  BY <1>1, LockInvariant, PTL

-----------------------------------------------------------------------------
\* A queue without repetitions stays one when something new is appended ...
LEMMA AppendRange ==
    ASSUME NEW S, NEW q \in Seq(S), NEW e \in S
    PROVE  /\ Range(Append(q, e)) = Range(q) \cup {e}
           /\ IsInjective(q) /\ e \notin Range(q) => IsInjective(Append(q, e))
<1>1. Append(q, e) \in Seq(S) /\ Len(Append(q, e)) = Len(q) + 1
  OBVIOUS
<1>2. DOMAIN Append(q, e) = 1 .. Len(q) + 1 /\ DOMAIN q = 1 .. Len(q) /\ Len(q) \in Nat
  BY <1>1
<1>3. \A n \in 1 .. Len(q) + 1 : Append(q, e)[n] = IF n \in 1 .. Len(q) THEN q[n] ELSE e
  OBVIOUS
<1>4. Range(Append(q, e)) = Range(q) \cup {e}
  BY <1>2, <1>3 DEF Range
<1>5. IsInjective(q) /\ e \notin Range(q) => IsInjective(Append(q, e))
  BY <1>2, <1>3 DEF Range, IsInjective
<1>6. QED
  BY <1>4, <1>5

\* ... and loses exactly its head when that is taken off.
LEMMA TailRange ==
    ASSUME NEW S, NEW q \in Seq(S), q # <<>>, IsInjective(q)
    PROVE  /\ Head(q) \in Range(q) /\ Head(q) \in S
           /\ Range(Tail(q)) = Range(q) \ {Head(q)}
           /\ IsInjective(Tail(q))
<1>1. Tail(q) \in Seq(S) /\ Len(Tail(q)) = Len(q) - 1 /\ Len(q) \in Nat \ {0}
  OBVIOUS
<1>2. DOMAIN Tail(q) = 1 .. Len(q) - 1 /\ DOMAIN q = 1 .. Len(q)
  BY <1>1
<1>3. Head(q) = q[1] /\ \A n \in 1 .. Len(q) - 1 : Tail(q)[n] = q[n + 1]
  BY <1>1
<1>4. Range(Tail(q)) = Range(q) \ {Head(q)}
  <2>1. ASSUME NEW n \in 1 .. Len(q) - 1 PROVE Tail(q)[n] \in Range(q) \ {Head(q)}
    BY <1>1, <1>2, <1>3 DEF Range, IsInjective
  <2>2. ASSUME NEW n \in 1 .. Len(q), q[n] # q[1] PROVE q[n] \in Range(Tail(q))
    <3>1. n - 1 \in 1 .. Len(q) - 1 /\ Tail(q)[n - 1] = q[n]
      BY <1>1, <1>3, <2>2
    <3>2. QED
      BY <1>2, <3>1 DEF Range
  <2>3. QED
    BY <1>2, <1>3, <2>1, <2>2 DEF Range
<1>5. IsInjective(Tail(q))
  BY <1>1, <1>2, <1>3 DEF IsInjective
<1>6. Head(q) \in Range(q) /\ Head(q) \in S
  <2>1. 1 \in DOMAIN q /\ q[1] \in S
    BY <1>1, <1>2
  <2>2. QED
    BY <1>3, <2>1 DEF Range
<1>7. QED
  BY <1>4, <1>5, <1>6

-----------------------------------------------------------------------------
\* Only the server in charge makes or removes the FIFO.
LEMMA OwnControlStep == TypeInv /\ LockFollows /\ OwnControl /\ [Next]_vars => OwnControl'
<1> SUFFICES ASSUME TypeInv, LockFollows, OwnControl, [Next]_vars PROVE OwnControl'
  OBVIOUS
<1>srv. srv \in [Conn -> SrvState]
  BY DEF TypeInv, TypeOK
<1>follows. LockFollows
  BY DEF LockFollows
<1>own. OwnControl
  BY DEF OwnControl
<1>nobody. Nobody \notin Conn
  BY ConnAssumption
<1>0. CASE UNCHANGED vars
  BY <1>0, <1>srv, <1>follows, <1>own, <1>nobody DEF vars, OwnControl
<1>1. ASSUME NEW c \in Conn, Connect(c) PROVE OwnControl'
  <2>1. CASE CreateToken(c)
    BY <2>1, <1>srv, <1>follows, <1>own, <1>nobody DEF CreateToken, Go, OwnControl
  <2>2. CASE WriteToken(c)
    BY <2>2, <1>srv, <1>follows, <1>own, <1>nobody DEF WriteToken, Go, OwnControl
  <2>3. CASE ReadToken(c)
    BY <2>3, <1>srv, <1>follows, <1>own, <1>nobody DEF ReadToken, OwnControl
  <2>4. CASE Probe(c, "probe", "probeHeld", "build")
    BY <2>4, <1>srv, <1>follows, <1>own, <1>nobody DEF Probe, Go, OwnControl
  <2>5. CASE Release(c, "probeHeld", "fork")
    BY <2>5, <1>srv, <1>follows, <1>own, <1>nobody DEF Release, Go, OwnControl
  <2>6. CASE CompareBuild(c)
    BY <2>6, <1>srv, <1>follows, <1>own, <1>nobody DEF CompareBuild, Go, OwnControl
  <2>7. CASE RetireServer(c)
    BY <2>7, <1>srv, <1>follows, <1>own, <1>nobody DEF RetireServer, Go, Terminate, OwnControl
  <2>8. CASE RetireWait(c)
    BY <2>8, <1>srv, <1>follows, <1>own, <1>nobody DEF RetireWait, Probe, Release, Go, OwnControl
  <2>9. CASE Probe(c, "reprobe", "reprobeHeld", "pipes")
    BY <2>9, <1>srv, <1>follows, <1>own, <1>nobody DEF Probe, Go, OwnControl
  <2>10. CASE Release(c, "reprobeHeld", "fork")
    BY <2>10, <1>srv, <1>follows, <1>own, <1>nobody DEF Release, Go, OwnControl
  <2>11. CASE ForkServer(c)
    BY <2>11, <1>srv, <1>follows, <1>own, <1>nobody DEF ForkServer, Go, ServerGo, OwnControl
  <2>12. CASE AwaitServer(c)
    BY <2>12, <1>srv, <1>follows, <1>own, <1>nobody DEF AwaitServer, Probe, Release, GiveUp, Go, OwnControl
  <2>13. CASE MakePipes(c)
    BY <2>13, <1>srv, <1>follows, <1>own, <1>nobody DEF MakePipes, Go, OwnControl
  <2>14. CASE ResolveControl(c)
    BY <2>14, <1>srv, <1>follows, <1>own, <1>nobody DEF ResolveControl, Go, OwnControl
  <2>15. CASE OpenControl(c)
    BY <2>15, <1>srv, <1>follows, <1>own, <1>nobody DEF OpenControl, Go, OwnControl
  <2>16. CASE Greet(c)
    BY <2>16, <1>srv, <1>follows, <1>own, <1>nobody DEF Greet, Go, OwnControl
  <2> QED
    BY <1>1, <2>1, <2>2, <2>3, <2>4, <2>5, <2>6, <2>7, <2>8, <2>9, <2>10, <2>11, <2>12, <2>13, <2>14, <2>15, <2>16 DEF Connect, EnsureServer
<1>2. ASSUME NEW c \in Conn, Server(c) PROVE OwnControl'
  <2>1. CASE TakeLock(c)
    BY <2>1, <1>srv, <1>follows, <1>own, <1>nobody DEF TakeLock, ServerGo, OwnControl
  <2>2. CASE UnlinkControl(c)
    <3>1. \A s \in Conn : InCharge(s) => s = c
      BY <2>2, <1>follows DEF UnlinkControl, ServerGo, LockFollows, InCharge
    <3>2. QED
      BY <2>2, <3>1, <1>srv, <1>own DEF UnlinkControl, ServerGo, OwnControl, InCharge
  <2>3. CASE MakeControl(c)
    BY <2>3, <1>srv, <1>follows, <1>own, <1>nobody DEF MakeControl, ServerGo, OwnControl
  <2>4. CASE TruncatePid(c)
    BY <2>4, <1>srv, <1>follows, <1>own, <1>nobody DEF TruncatePid, ServerGo, OwnControl
  <2>5. CASE RecordPid(c)
    BY <2>5, <1>srv, <1>follows, <1>own, <1>nobody DEF RecordPid, ServerGo, OwnControl
  <2>6. CASE InstallHandlers(c)
    BY <2>6, <1>srv, <1>follows, <1>own, <1>nobody DEF InstallHandlers, ServerGo, OwnControl
  <2>7. CASE OpenOwnControl(c)
    BY <2>7, <1>srv, <1>follows, <1>own, <1>nobody DEF OpenOwnControl, ServerGo, OwnControl
  <2>8. CASE Accept(c)
    BY <2>8, <1>srv, <1>follows, <1>own, <1>nobody DEF Accept, OwnControl
  <2>9. CASE Leave(c)
    BY <2>9, <1>srv, <1>follows, <1>own, <1>nobody DEF Leave, ServerGo, OwnControl
  <2>10. CASE RemoveControl(c)
    BY <2>10, <1>srv, <1>follows, <1>own, <1>nobody DEF RemoveControl, ServerGo, OwnControl
  <2>11. CASE CloseControl(c)
    BY <2>11, <1>srv, <1>follows, <1>own, <1>nobody DEF CloseControl, ServerGo, OwnControl
  <2>12. CASE Unlock(c)
    BY <2>12, <1>srv, <1>follows, <1>own, <1>nobody DEF Unlock, ServerGo, OwnControl
  <2> QED
    BY <1>2, <2>1, <2>2, <2>3, <2>4, <2>5, <2>6, <2>7, <2>8, <2>9, <2>10, <2>11, <2>12 DEF Server
<1>3. ASSUME NEW c \in Conn, Child(c) PROVE OwnControl'
  <2>1. CASE CloseInherited(c)
    BY <2>1, <1>srv, <1>follows, <1>own, <1>nobody DEF CloseInherited, OwnControl
  <2>2. CASE EndSession(c)
    BY <2>2, <1>srv, <1>follows, <1>own, <1>nobody DEF EndSession, OwnControl
  <2>3. CASE RefuseSession(c)
    BY <2>3, <1>srv, <1>follows, <1>own, <1>nobody DEF RefuseSession, OwnControl
  <2>4. CASE Shutdown(c)
    BY <2>4, <1>srv, <1>follows, <1>own, <1>nobody DEF Shutdown, Terminate, OwnControl
  <2> QED
    BY <1>3, <2>1, <2>2, <2>3, <2>4 DEF Child
<1>4. CASE StopCommand
  BY <1>4, <1>srv, <1>follows, <1>own, <1>nobody DEF StopCommand, Terminate, OwnControl
<1>5. CASE StatusTake
  BY <1>5, <1>srv, <1>follows, <1>own, <1>nobody DEF StatusTake, OwnControl
<1>6. CASE StatusRelease
  BY <1>6, <1>srv, <1>follows, <1>own, <1>nobody DEF StatusRelease, OwnControl
<1>7. ASSUME NEW c \in Conn, KillServer(c) PROVE OwnControl'
  BY <1>7, <1>srv, <1>follows, <1>own, <1>nobody DEF KillServer, OwnControl
<1> QED
  BY <1>0, <1>1, <1>2, <1>3, <1>4, <1>5, <1>6, <1>7 DEF Next, Environment

\* The path of the control FIFO leads to the FIFO of the server in charge for
\* as long as that server has one.
THEOREM ControlIsOwn == Spec => []OwnControl
<1>1. Init => OwnControl
  BY DEF Init, OwnControl
<1>2. QED
  BY <1>1, OwnControlStep, LockInvariant, TypeInvariant, PTL DEF Spec

-----------------------------------------------------------------------------
\* The pipes of a session are there before its greeting can be sent.
PipesFirst ==
    \A c \in Conn : con[c] \in {"resolve", "opening", "greet"} => pipes[c] = "made"

Session == ServedOnce /\ PipesFirst

\* A connect that only moves on, and neither to nor from the announcement.
LEMMA MoveKeepsSession ==
    ASSUME Session, NEW c \in Conn, con[c] # "done",
           \A d \in Conn \ {c} : con'[d] = con[d],
           con'[c] \in {"resolve", "opening", "greet"} => con[c] \in {"resolve", "opening"},
           UNCHANGED <<hello, kid, kidOf, pipes>>,
           \A i \in Conn : Waiting(i) \subseteq Conn
    PROVE  Session'
<1>1. \A d \in Conn : con[d] = "done" => con'[d] = "done"
  OBVIOUS
<1>2. \A i \in Conn : Waiting(i)' = Waiting(i)
  BY DEF Waiting
<1>3. ServedOnce'
  BY <1>1, <1>2 DEF Session, ServedOnce
<1>4. PipesFirst'
  BY DEF Session, PipesFirst
<1>5. QED
  BY <1>3, <1>4 DEF Session

\* A greeting is queued once and taken once.
LEMMA SessionStep == TypeInv /\ Session /\ [Next]_vars => Session'
<1> SUFFICES ASSUME TypeInv, Session, [Next]_vars PROVE Session'
  OBVIOUS
<1>con. con \in [Conn -> ConState]
  BY DEF TypeInv, TypeOK
<1>kid. kid \in [Conn -> KidState]
  BY DEF TypeInv, TypeOK
<1>kidOf. kidOf \in [Conn -> Conn \cup {Nobody}]
  BY DEF TypeInv, TypeOK
<1>pipes. pipes \in [Conn -> {"none", "made", "removed"}]
  BY DEF TypeInv, TypeOK
<1>hello. hello \in [Conn -> Seq(Conn)]
  BY DEF TypeInv, TypeOK
<1>linked. Linked
  BY DEF TypeInv
<1>session. Session
  OBVIOUS
<1>served. ServedOnce
  BY DEF Session
<1>first. PipesFirst
  BY DEF Session
<1>nobody. Nobody \notin Conn
  BY ConnAssumption
<1>waiting. \A i \in Conn : Waiting(i) \subseteq Conn
  BY <1>hello DEF Waiting, Range
<1>0. CASE UNCHANGED vars
  BY <1>0, <1>con, <1>kid, <1>kidOf, <1>pipes, <1>served, <1>first DEF vars, Session, ServedOnce, PipesFirst, Waiting
<1>1. ASSUME NEW c \in Conn, Connect(c) PROVE Session'
  <2>1. CASE CreateToken(c)
    <3>1. /\ con[c] # "done" /\ \A d \in Conn \ {c} : con'[d] = con[d]
          /\ con'[c] \in {"resolve", "opening", "greet"} => con[c] \in {"resolve", "opening"}
          /\ UNCHANGED <<hello, kid, kidOf, pipes>>
      BY <2>1, <1>con DEF CreateToken, Go
    <3>2. QED
      BY <3>1, <1>session, <1>waiting, MoveKeepsSession
  <2>2. CASE WriteToken(c)
    <3>1. /\ con[c] # "done" /\ \A d \in Conn \ {c} : con'[d] = con[d]
          /\ con'[c] \in {"resolve", "opening", "greet"} => con[c] \in {"resolve", "opening"}
          /\ UNCHANGED <<hello, kid, kidOf, pipes>>
      BY <2>2, <1>con DEF WriteToken, Go
    <3>2. QED
      BY <3>1, <1>session, <1>waiting, MoveKeepsSession
  <2>3. CASE ReadToken(c)
    <3>1. /\ con[c] # "done" /\ \A d \in Conn \ {c} : con'[d] = con[d]
          /\ con'[c] \in {"resolve", "opening", "greet"} => con[c] \in {"resolve", "opening"}
          /\ UNCHANGED <<hello, kid, kidOf, pipes>>
      BY <2>3, <1>con DEF ReadToken
    <3>2. QED
      BY <3>1, <1>session, <1>waiting, MoveKeepsSession
  <2>4. CASE Probe(c, "probe", "probeHeld", "build")
    <3>1. /\ con[c] # "done" /\ \A d \in Conn \ {c} : con'[d] = con[d]
          /\ con'[c] \in {"resolve", "opening", "greet"} => con[c] \in {"resolve", "opening"}
          /\ UNCHANGED <<hello, kid, kidOf, pipes>>
      BY <2>4, <1>con DEF Probe, Go
    <3>2. QED
      BY <3>1, <1>session, <1>waiting, MoveKeepsSession
  <2>5. CASE Release(c, "probeHeld", "fork")
    <3>1. /\ con[c] # "done" /\ \A d \in Conn \ {c} : con'[d] = con[d]
          /\ con'[c] \in {"resolve", "opening", "greet"} => con[c] \in {"resolve", "opening"}
          /\ UNCHANGED <<hello, kid, kidOf, pipes>>
      BY <2>5, <1>con DEF Release, Go
    <3>2. QED
      BY <3>1, <1>session, <1>waiting, MoveKeepsSession
  <2>6. CASE CompareBuild(c)
    <3>1. /\ con[c] # "done" /\ \A d \in Conn \ {c} : con'[d] = con[d]
          /\ con'[c] \in {"resolve", "opening", "greet"} => con[c] \in {"resolve", "opening"}
          /\ UNCHANGED <<hello, kid, kidOf, pipes>>
      BY <2>6, <1>con DEF CompareBuild, Go
    <3>2. QED
      BY <3>1, <1>session, <1>waiting, MoveKeepsSession
  <2>7. CASE RetireServer(c)
    <3>1. /\ con[c] # "done" /\ \A d \in Conn \ {c} : con'[d] = con[d]
          /\ con'[c] \in {"resolve", "opening", "greet"} => con[c] \in {"resolve", "opening"}
          /\ UNCHANGED <<hello, kid, kidOf, pipes>>
      BY <2>7, <1>con DEF RetireServer, Go
    <3>2. QED
      BY <3>1, <1>session, <1>waiting, MoveKeepsSession
  <2>8. CASE RetireWait(c)
    <3>1. /\ con[c] # "done" /\ \A d \in Conn \ {c} : con'[d] = con[d]
          /\ con'[c] \in {"resolve", "opening", "greet"} => con[c] \in {"resolve", "opening"}
          /\ UNCHANGED <<hello, kid, kidOf, pipes>>
      BY <2>8, <1>con DEF RetireWait, Probe, Release, Go
    <3>2. QED
      BY <3>1, <1>session, <1>waiting, MoveKeepsSession
  <2>9. CASE Probe(c, "reprobe", "reprobeHeld", "pipes")
    <3>1. /\ con[c] # "done" /\ \A d \in Conn \ {c} : con'[d] = con[d]
          /\ con'[c] \in {"resolve", "opening", "greet"} => con[c] \in {"resolve", "opening"}
          /\ UNCHANGED <<hello, kid, kidOf, pipes>>
      BY <2>9, <1>con DEF Probe, Go
    <3>2. QED
      BY <3>1, <1>session, <1>waiting, MoveKeepsSession
  <2>10. CASE Release(c, "reprobeHeld", "fork")
    <3>1. /\ con[c] # "done" /\ \A d \in Conn \ {c} : con'[d] = con[d]
          /\ con'[c] \in {"resolve", "opening", "greet"} => con[c] \in {"resolve", "opening"}
          /\ UNCHANGED <<hello, kid, kidOf, pipes>>
      BY <2>10, <1>con DEF Release, Go
    <3>2. QED
      BY <3>1, <1>session, <1>waiting, MoveKeepsSession
  <2>11. CASE ForkServer(c)
    <3>1. /\ con[c] # "done" /\ \A d \in Conn \ {c} : con'[d] = con[d]
          /\ con'[c] \in {"resolve", "opening", "greet"} => con[c] \in {"resolve", "opening"}
          /\ UNCHANGED <<hello, kid, kidOf, pipes>>
      BY <2>11, <1>con DEF ForkServer, Go, ServerGo
    <3>2. QED
      BY <3>1, <1>session, <1>waiting, MoveKeepsSession
  <2>12. CASE AwaitServer(c)
    <3>1. /\ con[c] # "done" /\ \A d \in Conn \ {c} : con'[d] = con[d]
          /\ con'[c] \in {"resolve", "opening", "greet"} => con[c] \in {"resolve", "opening"}
          /\ UNCHANGED <<hello, kid, kidOf, pipes>>
      BY <2>12, <1>con DEF AwaitServer, Probe, Release, GiveUp, Go
    <3>2. QED
      BY <3>1, <1>session, <1>waiting, MoveKeepsSession
  <2>13. CASE MakePipes(c)
    <3>1. /\ con[c] = "pipes" /\ con' = [con EXCEPT ![c] = "resolve"]
          /\ pipes' = [pipes EXCEPT ![c] = "made"] /\ UNCHANGED <<hello, kid, kidOf>>
      BY <2>13 DEF MakePipes, Go
    <3>2. QED
      BY <3>1, <1>con, <1>pipes, <1>served, <1>first, <1>waiting DEF Session, ServedOnce, PipesFirst, Waiting
  <2>14. CASE ResolveControl(c)
    <3>1. /\ con[c] # "done" /\ \A d \in Conn \ {c} : con'[d] = con[d]
          /\ con'[c] \in {"resolve", "opening", "greet"} => con[c] \in {"resolve", "opening"}
          /\ UNCHANGED <<hello, kid, kidOf, pipes>>
      BY <2>14, <1>con DEF ResolveControl, Go
    <3>2. QED
      BY <3>1, <1>session, <1>waiting, MoveKeepsSession
  <2>15. CASE OpenControl(c)
    <3>1. /\ con[c] # "done" /\ \A d \in Conn \ {c} : con'[d] = con[d]
          /\ con'[c] \in {"resolve", "opening", "greet"} => con[c] \in {"resolve", "opening"}
          /\ UNCHANGED <<hello, kid, kidOf, pipes>>
      BY <2>15, <1>con DEF OpenControl, Go
    <3>2. QED
      BY <3>1, <1>session, <1>waiting, MoveKeepsSession
  <2>16. CASE Greet(c)
    <3>1. CASE HasReader(fd[c])
      <4>1. con[c] = "greet" /\ kid[c] = "none" /\ pipes[c] = "made" /\ fd[c] \in Conn
        BY <2>16, <1>served, <1>first, <1>linked DEF Greet, Go, ServedOnce, PipesFirst, Linked
      <4>2. hello' = [hello EXCEPT ![fd[c]] = Append(hello[fd[c]], c)]
        BY <2>16, <3>1 DEF Greet
      <4>3. con' = [con EXCEPT ![c] = "done"] /\ UNCHANGED <<kid, kidOf, pipes>>
        BY <2>16, <3>1 DEF Greet, Go
      <4>4. \A i \in Conn : c \notin Waiting(i)
        BY <4>1, <1>served DEF ServedOnce
      <4>5. /\ \A i \in Conn : Waiting(i)' = IF i = fd[c] THEN Waiting(i) \cup {c} ELSE Waiting(i)
            /\ \A i \in Conn : IsInjective(hello'[i])
        <5> DEFINE q == hello[fd[c]]
        <5>1. q \in Seq(Conn) /\ IsInjective(q) /\ c \notin Range(q)
          BY <4>1, <4>4, <1>hello, <1>served DEF Waiting, ServedOnce
        <5>2. Range(Append(q, c)) = Range(q) \cup {c} /\ IsInjective(Append(q, c))
          BY <5>1, AppendRange
        <5>3. \A i \in Conn : hello'[i] = IF i = fd[c] THEN Append(q, c) ELSE hello[i]
          BY <4>1, <4>2, <1>hello
        <5>4. QED
          BY <5>2, <5>3, <1>served DEF Waiting, ServedOnce
      <4>6. \A d \in Conn : con[d] = "done" => con'[d] = "done"
        BY <4>3, <1>con
      <4>7. con'[c] = "done"
        BY <4>3, <1>con
      <4>8. ServedOnce'
        BY <4>1, <4>3, <4>4, <4>5, <4>6, <4>7, <1>served, <1>waiting DEF ServedOnce
      <4>9. PipesFirst'
        BY <4>3, <1>con, <1>first DEF PipesFirst
      <4> QED
        BY <4>8, <4>9 DEF Session
    <3>2. CASE ~HasReader(fd[c])
      <4>1. con' = [con EXCEPT ![c] = "failed"] /\ con[c] = "greet" /\ UNCHANGED <<hello, kid, kidOf, pipes>>
        BY <2>16, <3>2 DEF Greet, Go
      <4>2. QED
        BY <4>1, <1>con, <1>served, <1>first DEF Session, ServedOnce, PipesFirst, Waiting
    <3>3. QED
      BY <3>1, <3>2
  <2> QED
    BY <1>1, <2>1, <2>2, <2>3, <2>4, <2>5, <2>6, <2>7, <2>8, <2>9, <2>10, <2>11, <2>12, <2>13, <2>14, <2>15, <2>16 DEF Connect, EnsureServer
<1>2. ASSUME NEW c \in Conn, Server(c) PROVE Session'
  <2>1. CASE TakeLock(c)
    BY <2>1, <1>con, <1>kid, <1>kidOf, <1>pipes, <1>served, <1>first DEF TakeLock, ServerGo, Session, ServedOnce, PipesFirst, Waiting
  <2>2. CASE UnlinkControl(c)
    BY <2>2, <1>con, <1>kid, <1>kidOf, <1>pipes, <1>served, <1>first DEF UnlinkControl, ServerGo, Session, ServedOnce, PipesFirst, Waiting
  <2>3. CASE MakeControl(c)
    BY <2>3, <1>con, <1>kid, <1>kidOf, <1>pipes, <1>served, <1>first DEF MakeControl, ServerGo, Session, ServedOnce, PipesFirst, Waiting
  <2>4. CASE TruncatePid(c)
    BY <2>4, <1>con, <1>kid, <1>kidOf, <1>pipes, <1>served, <1>first DEF TruncatePid, ServerGo, Session, ServedOnce, PipesFirst, Waiting
  <2>5. CASE RecordPid(c)
    BY <2>5, <1>con, <1>kid, <1>kidOf, <1>pipes, <1>served, <1>first DEF RecordPid, ServerGo, Session, ServedOnce, PipesFirst, Waiting
  <2>6. CASE InstallHandlers(c)
    BY <2>6, <1>con, <1>kid, <1>kidOf, <1>pipes, <1>served, <1>first DEF InstallHandlers, ServerGo, Session, ServedOnce, PipesFirst, Waiting
  <2>7. CASE OpenOwnControl(c)
    BY <2>7, <1>con, <1>kid, <1>kidOf, <1>pipes, <1>served, <1>first DEF OpenOwnControl, ServerGo, Session, ServedOnce, PipesFirst, Waiting
  <2>8. CASE Accept(c)
    <3> DEFINE h == Head(hello[c])
    <3>1. hello[c] # <<>> /\ IsInjective(hello[c]) /\ hello[c] \in Seq(Conn)
      BY <2>8, <1>served, <1>hello DEF Accept, ServedOnce
    <3>2. h \in Waiting(c) /\ h \in Conn
      BY <3>1, TailRange DEF Waiting
    <3>3. /\ kid' = [kid EXCEPT ![h] = "forked"] /\ kidOf' = [kidOf EXCEPT ![h] = c]
          /\ hello' = [hello EXCEPT ![c] = Tail(hello[c])]
          /\ UNCHANGED <<con, pipes>>
      BY <2>8 DEF Accept
    <3>4. /\ \A i \in Conn : Waiting(i)' = IF i = c THEN Waiting(i) \ {h} ELSE Waiting(i)
          /\ \A i \in Conn : IsInjective(hello'[i])
      BY <3>1, <3>3, <1>hello, <1>served, TailRange DEF Waiting, ServedOnce
    <3>5. con[h] = "done" /\ \A j \in Conn : h \in Waiting(j) => c = j
      BY <3>2, <1>served DEF ServedOnce
    <3>6. \A i \in Conn : h \notin Waiting(i)'
      BY <3>4, <3>5
    <3>7. ServedOnce'
      <4>1. \A d \in Conn : kid'[d] # "none" => con'[d] = "done" /\ kidOf'[d] # Nobody
        BY <3>2, <3>3, <3>5, <1>served, <1>nobody, <1>kid, <1>kidOf DEF ServedOnce
      <4>2. ASSUME NEW i \in Conn, NEW d \in Waiting(i)'
            PROVE  /\ con'[d] = "done" /\ kid'[d] = "none" /\ pipes'[d] = "made"
                   /\ \A j \in Conn : d \in Waiting(j)' => i = j
        <5>1. d \in Waiting(i) /\ d # h
          BY <3>4, <3>6
        <5>2. kid'[d] = kid[d]
          BY <3>3, <5>1, <1>kid, <1>waiting
        <5>3. QED
          BY <3>3, <3>4, <5>1, <5>2, <1>served DEF ServedOnce
      <4>3. QED
        BY <3>4, <4>1, <4>2 DEF ServedOnce
    <3>8. QED
      BY <3>3, <3>7, <1>first DEF Session, PipesFirst
  <2>9. CASE Leave(c)
    BY <2>9, <1>con, <1>kid, <1>kidOf, <1>pipes, <1>served, <1>first DEF Leave, ServerGo, Session, ServedOnce, PipesFirst, Waiting
  <2>10. CASE RemoveControl(c)
    BY <2>10, <1>con, <1>kid, <1>kidOf, <1>pipes, <1>served, <1>first DEF RemoveControl, ServerGo, Session, ServedOnce, PipesFirst, Waiting
  <2>11. CASE CloseControl(c)
    BY <2>11, <1>con, <1>kid, <1>kidOf, <1>pipes, <1>served, <1>first DEF CloseControl, ServerGo, Session, ServedOnce, PipesFirst, Waiting
  <2>12. CASE Unlock(c)
    BY <2>12, <1>con, <1>kid, <1>kidOf, <1>pipes, <1>served, <1>first DEF Unlock, ServerGo, Session, ServedOnce, PipesFirst, Waiting
  <2> QED
    BY <1>2, <2>1, <2>2, <2>3, <2>4, <2>5, <2>6, <2>7, <2>8, <2>9, <2>10, <2>11, <2>12 DEF Server
<1>3. ASSUME NEW c \in Conn, Child(c) PROVE Session'
  <2>1. CASE CloseInherited(c)
    BY <2>1, <1>con, <1>kid, <1>kidOf, <1>pipes, <1>served, <1>first DEF CloseInherited, Session, ServedOnce, PipesFirst, Waiting
  <2>2. CASE EndSession(c)
    BY <2>2, <1>con, <1>kid, <1>kidOf, <1>pipes, <1>served, <1>first DEF EndSession, Session, ServedOnce, PipesFirst, Waiting
  <2>3. CASE RefuseSession(c)
    BY <2>3, <1>con, <1>kid, <1>kidOf, <1>pipes, <1>served, <1>first DEF RefuseSession, Session, ServedOnce, PipesFirst, Waiting
  <2>4. CASE Shutdown(c)
    <3>1. /\ kid[c] = "serving" /\ kid' = [kid EXCEPT ![c] = "over"]
          /\ pipes' = [pipes EXCEPT ![c] = "removed"] /\ UNCHANGED <<con, hello, kidOf>>
      BY <2>4 DEF Shutdown
    <3>2. QED
      BY <3>1, <1>kid, <1>pipes, <1>served, <1>first DEF Session, ServedOnce, PipesFirst, Waiting
  <2> QED
    BY <1>3, <2>1, <2>2, <2>3, <2>4 DEF Child
<1>4. CASE StopCommand
  BY <1>4, <1>con, <1>kid, <1>kidOf, <1>pipes, <1>served, <1>first DEF StopCommand, Terminate, Session, ServedOnce, PipesFirst, Waiting
<1>5. CASE StatusTake
  BY <1>5, <1>con, <1>kid, <1>kidOf, <1>pipes, <1>served, <1>first DEF StatusTake, Session, ServedOnce, PipesFirst, Waiting
<1>6. CASE StatusRelease
  BY <1>6, <1>con, <1>kid, <1>kidOf, <1>pipes, <1>served, <1>first DEF StatusRelease, Session, ServedOnce, PipesFirst, Waiting
<1>7. ASSUME NEW c \in Conn, KillServer(c) PROVE Session'
  BY <1>7, <1>con, <1>kid, <1>kidOf, <1>pipes, <1>served, <1>first DEF KillServer, Session, ServedOnce, PipesFirst, Waiting
<1> QED
  BY <1>0, <1>1, <1>2, <1>3, <1>4, <1>5, <1>6, <1>7 DEF Next, Environment

LEMMA SessionInvariant == Spec => []Session
<1>1. Init => Session
  <2>1. Init => \A i \in Conn : hello[i] = <<>>
    BY DEF Init
  <2>2. Range(<<>>) = {} /\ IsInjective(<<>>)
    BY DEF Range, IsInjective
  <2>3. QED
    BY <2>1, <2>2 DEF Init, Session, ServedOnce, PipesFirst, Waiting
<1>2. QED
  BY <1>1, SessionStep, TypeInvariant, PTL DEF Spec

\* A session is in one queue at most, once, and has a child only after it has
\* left the queue; a child serves a connect that has succeeded.
THEOREM EverySessionServedOnce == Spec => []ServedOnce
<1>1. Session => ServedOnce
  BY DEF Session
<1>2. QED
  BY <1>1, SessionInvariant, PTL


-----------------------------------------------------------------------------
\* The lock belongs to an invocation's server, and not to one that has gone.
LockOwned ==
    /\ LockNotOrphaned
    /\ lock.by = "server" => lock.id \in Conn

\* Losing its server leaves a lock only with children that have just been born.
LEMMA LockWithoutOrphans ==
    ASSUME LockOwned, NEW s \in Conn, lock \in LockState,
           lock' = LockWithout(s), UNCHANGED <<kid, kidOf>>,
           \A t \in Conn \ {s} : srv'[t] = srv[t]
    PROVE  LockOwned'
<1>1. \A t \in Conn : FreshKids(t)' = FreshKids(t)
  BY DEF FreshKids
<1>2. CASE lock = [by |-> "server", id |-> s]
  <2>1. CASE FreshKids(s) = {}
    BY <1>2, <2>1 DEF LockWithout, LockOwned, LockNotOrphaned, Free
  <2>2. CASE FreshKids(s) # {}
    <3>1. lock' = lock /\ lock.id = s
      BY <1>2, <2>2 DEF LockWithout
    <3>2. QED
      BY <1>1, <2>2, <3>1 DEF LockOwned, LockNotOrphaned
  <2>3. QED
    BY <2>1, <2>2
<1>3. CASE lock # [by |-> "server", id |-> s]
  <2>1. lock' = lock
    BY <1>3 DEF LockWithout
  <2>2. lock.by = "server" => lock.id # s
    BY <1>3 DEF LockState
  <2>3. QED
    BY <1>1, <2>1, <2>2 DEF LockOwned, LockNotOrphaned, InCharge
<1>4. QED
  BY <1>2, <1>3

\* A step that leaves the lock, the children and who is in charge alone.
LEMMA SameOwners ==
    ASSUME LockOwned, UNCHANGED <<lock, kid, kidOf>>,
           \A t \in Conn : InCharge(t) => InCharge(t)'
    PROVE  LockOwned'
<1>1. \A t \in Conn : FreshKids(t)' = FreshKids(t)
  BY DEF FreshKids
<1>2. QED
  BY <1>1 DEF LockOwned, LockNotOrphaned

\* A step after which no server has the lock.
LEMMA NotAServersLock == ASSUME lock'.by # "server" PROVE LockOwned'
  BY DEF LockOwned, LockNotOrphaned

LEMMA TerminateOrphans ==
    ASSUME LockOwned, NEW s \in Conn, lock \in LockState, srv \in [Conn -> SrvState],
           Terminate(s), UNCHANGED <<kidOf>>,
           \A t \in Conn : FreshKids(t)' = FreshKids(t)
    PROVE  LockOwned'
<1>1. CASE UNCHANGED <<srv, lock>>
  BY <1>1 DEF LockOwned, LockNotOrphaned, InCharge
<1>2. CASE srv' = [srv EXCEPT ![s] = "gone"] /\ lock' = LockWithout(s)
  <2>1. \A t \in Conn \ {s} : srv'[t] = srv[t]
    BY <1>2
  <2>2. CASE lock = [by |-> "server", id |-> s]
    <3>1. CASE FreshKids(s) = {}
      BY <1>2, <2>2, <3>1 DEF LockWithout, LockOwned, LockNotOrphaned, Free
    <3>2. CASE FreshKids(s) # {}
      <4>1. lock' = lock /\ lock.id = s
        BY <1>2, <2>2, <3>2 DEF LockWithout
      <4>2. QED
        BY <3>2, <4>1 DEF LockOwned, LockNotOrphaned
    <3>3. QED
      BY <3>1, <3>2
  <2>3. CASE lock # [by |-> "server", id |-> s]
    <3>1. lock' = lock
      BY <1>2, <2>3 DEF LockWithout
    <3>2. lock.by = "server" => lock.id # s
      BY <2>3 DEF LockState
    <3>3. QED
      BY <2>1, <3>1, <3>2 DEF LockOwned, LockNotOrphaned, InCharge
  <2>4. QED
    BY <2>2, <2>3
<1>3. QED
  BY <1>1, <1>2 DEF Terminate

\* What each action does to the lock, to its server and to the newly born.
LEMMA LockOwnedStep == TypeInv /\ Session /\ LockOwned /\ [Next]_vars => LockOwned'
<1> SUFFICES ASSUME TypeInv, Session, LockOwned, [Next]_vars PROVE LockOwned'
  OBVIOUS
<1>lock. lock \in LockState
  BY DEF TypeInv, TypeOK
<1>srv. srv \in [Conn -> SrvState]
  BY DEF TypeInv, TypeOK
<1>kid. kid \in [Conn -> KidState]
  BY DEF TypeInv, TypeOK
<1>kidOf. kidOf \in [Conn -> Conn \cup {Nobody}]
  BY DEF TypeInv, TypeOK
<1>hello. hello \in [Conn -> Seq(Conn)]
  BY DEF TypeInv, TypeOK
<1>pid. pidfile.pid \in Conn \cup {Nobody}
  BY DEF TypeInv, TypeOK, PidRecord
<1>linked. Linked
  BY DEF TypeInv
<1>served. ServedOnce
  BY DEF Session
<1>owned. LockOwned
  OBVIOUS
<1>0. CASE UNCHANGED vars
  BY <1>0, <1>lock, <1>srv, <1>kid, <1>kidOf, <1>hello, <1>pid, <1>linked, <1>served, <1>owned DEF vars, LockOwned, LockNotOrphaned, InCharge, FreshKids
<1>1. ASSUME NEW c \in Conn, Connect(c) PROVE LockOwned'
  <2>1. CASE CreateToken(c)
    <3>1. UNCHANGED <<lock, kid, kidOf>> /\ \A t \in Conn : InCharge(t) => InCharge(t)'
      BY <2>1, <1>srv DEF CreateToken, Go, InCharge
    <3>2. QED
      BY <3>1, <1>owned, SameOwners
  <2>2. CASE WriteToken(c)
    <3>1. UNCHANGED <<lock, kid, kidOf>> /\ \A t \in Conn : InCharge(t) => InCharge(t)'
      BY <2>2, <1>srv DEF WriteToken, Go, InCharge
    <3>2. QED
      BY <3>1, <1>owned, SameOwners
  <2>3. CASE ReadToken(c)
    <3>1. UNCHANGED <<lock, kid, kidOf>> /\ \A t \in Conn : InCharge(t) => InCharge(t)'
      BY <2>3, <1>srv, <1>linked DEF ReadToken, Linked, InCharge
    <3>2. QED
      BY <3>1, <1>owned, SameOwners
  <2>4. CASE Probe(c, "probe", "probeHeld", "build")
    <3>1. CASE UNCHANGED lock
      <4>1. UNCHANGED <<lock, kid, kidOf>> /\ \A t \in Conn : InCharge(t) => InCharge(t)'
        BY <2>4, <3>1 DEF Probe, Go, InCharge
      <4>2. QED
        BY <4>1, <1>owned, SameOwners
    <3>2. CASE lock'.by # "server"
      BY <3>2, NotAServersLock
    <3>3. QED
      BY <2>4, <3>1, <3>2 DEF Probe, Go, Free
  <2>5. CASE Release(c, "probeHeld", "fork")
    <3>1. lock'.by # "server"
      BY <2>5 DEF Release, Free
    <3>2. QED
      BY <3>1, NotAServersLock
  <2>6. CASE CompareBuild(c)
    <3>1. UNCHANGED <<lock, kid, kidOf>> /\ \A t \in Conn : InCharge(t) => InCharge(t)'
      BY <2>6, <1>srv DEF CompareBuild, Go, InCharge
    <3>2. QED
      BY <3>1, <1>owned, SameOwners
  <2>7. CASE RetireServer(c)
    <3>1. UNCHANGED <<kid, kidOf>> /\ \A t \in Conn : FreshKids(t)' = FreshKids(t)
      BY <2>7 DEF RetireServer, FreshKids
    <3>2. CASE pidfile.pid # Nobody /\ Alive(pidfile.pid)
      BY <2>7, <3>1, <3>2, <1>lock, <1>srv, <1>pid, <1>owned, TerminateOrphans DEF RetireServer
    <3>3. CASE ~(pidfile.pid # Nobody /\ Alive(pidfile.pid))
      BY <2>7, <3>1, <3>3, <1>owned DEF RetireServer, LockOwned, LockNotOrphaned, InCharge
    <3>4. QED
      BY <3>2, <3>3
  <2>8. CASE RetireWait(c)
    <3>1. CASE UNCHANGED lock
      <4>1. UNCHANGED <<lock, kid, kidOf>> /\ \A t \in Conn : InCharge(t) => InCharge(t)'
        BY <2>8, <3>1 DEF RetireWait, Probe, Release, Go, InCharge
      <4>2. QED
        BY <4>1, <1>owned, SameOwners
    <3>2. CASE lock'.by # "server"
      BY <3>2, NotAServersLock
    <3>3. QED
      BY <2>8, <3>1, <3>2 DEF RetireWait, Probe, Release, Go, Free
  <2>9. CASE Probe(c, "reprobe", "reprobeHeld", "pipes")
    <3>1. CASE UNCHANGED lock
      <4>1. UNCHANGED <<lock, kid, kidOf>> /\ \A t \in Conn : InCharge(t) => InCharge(t)'
        BY <2>9, <3>1 DEF Probe, Go, InCharge
      <4>2. QED
        BY <4>1, <1>owned, SameOwners
    <3>2. CASE lock'.by # "server"
      BY <3>2, NotAServersLock
    <3>3. QED
      BY <2>9, <3>1, <3>2 DEF Probe, Go, Free
  <2>10. CASE Release(c, "reprobeHeld", "fork")
    <3>1. lock'.by # "server"
      BY <2>10 DEF Release, Free
    <3>2. QED
      BY <3>1, NotAServersLock
  <2>11. CASE ForkServer(c)
    <3>1. UNCHANGED <<lock, kid, kidOf>> /\ \A t \in Conn : InCharge(t) => InCharge(t)'
      BY <2>11, <1>srv DEF ForkServer, Go, ServerGo, InCharge
    <3>2. QED
      BY <3>1, <1>owned, SameOwners
  <2>12. CASE AwaitServer(c)
    <3>1. CASE UNCHANGED lock
      <4>1. UNCHANGED <<lock, kid, kidOf>> /\ \A t \in Conn : InCharge(t) => InCharge(t)'
        BY <2>12, <3>1 DEF AwaitServer, Probe, Release, GiveUp, Go, InCharge
      <4>2. QED
        BY <4>1, <1>owned, SameOwners
    <3>2. CASE lock'.by # "server"
      BY <3>2, NotAServersLock
    <3>3. QED
      BY <2>12, <3>1, <3>2 DEF AwaitServer, Probe, Release, GiveUp, Go, Free
  <2>13. CASE MakePipes(c)
    <3>1. UNCHANGED <<lock, kid, kidOf>> /\ \A t \in Conn : InCharge(t) => InCharge(t)'
      BY <2>13, <1>srv DEF MakePipes, Go, InCharge
    <3>2. QED
      BY <3>1, <1>owned, SameOwners
  <2>14. CASE ResolveControl(c)
    <3>1. UNCHANGED <<lock, kid, kidOf>> /\ \A t \in Conn : InCharge(t) => InCharge(t)'
      BY <2>14, <1>srv DEF ResolveControl, Go, InCharge
    <3>2. QED
      BY <3>1, <1>owned, SameOwners
  <2>15. CASE OpenControl(c)
    <3>1. UNCHANGED <<lock, kid, kidOf>> /\ \A t \in Conn : InCharge(t) => InCharge(t)'
      BY <2>15, <1>srv DEF OpenControl, Go, InCharge
    <3>2. QED
      BY <3>1, <1>owned, SameOwners
  <2>16. CASE Greet(c)
    <3>1. UNCHANGED <<lock, kid, kidOf>> /\ \A t \in Conn : InCharge(t) => InCharge(t)'
      BY <2>16, <1>srv DEF Greet, Go, InCharge
    <3>2. QED
      BY <3>1, <1>owned, SameOwners
  <2> QED
    BY <1>1, <2>1, <2>2, <2>3, <2>4, <2>5, <2>6, <2>7, <2>8, <2>9, <2>10, <2>11, <2>12, <2>13, <2>14, <2>15, <2>16 DEF Connect, EnsureServer
<1>2. ASSUME NEW c \in Conn, Server(c) PROVE LockOwned'
  <2>1. CASE TakeLock(c)
    <3>1. CASE lock = Free
      BY <2>1, <3>1, <1>srv DEF TakeLock, ServerGo, LockOwned, LockNotOrphaned, InCharge
    <3>2. CASE lock # Free
      <4>1. UNCHANGED <<lock, kid, kidOf>> /\ \A t \in Conn : InCharge(t) => InCharge(t)'
        BY <2>1, <3>2, <1>srv DEF TakeLock, ServerGo, InCharge
      <4>2. QED
        BY <4>1, <1>owned, SameOwners
    <3>3. QED
      BY <3>1, <3>2
  <2>2. CASE UnlinkControl(c)
    <3>1. UNCHANGED <<lock, kid, kidOf>> /\ \A t \in Conn : InCharge(t) => InCharge(t)'
      BY <2>2, <1>srv DEF UnlinkControl, ServerGo, InCharge
    <3>2. QED
      BY <3>1, <1>owned, SameOwners
  <2>3. CASE MakeControl(c)
    <3>1. CASE ctl = Nobody
      <4>1. UNCHANGED <<lock, kid, kidOf>> /\ \A t \in Conn : InCharge(t) => InCharge(t)'
        BY <2>3, <3>1, <1>srv DEF MakeControl, ServerGo, InCharge
      <4>2. QED
        BY <4>1, <1>owned, SameOwners
    <3>2. CASE ~(ctl = Nobody)
      BY <2>3, <3>2, <1>lock, <1>srv, <1>owned, LockWithoutOrphans DEF MakeControl, ServerGo
    <3>3. QED
      BY <3>1, <3>2
  <2>4. CASE TruncatePid(c)
    <3>1. UNCHANGED <<lock, kid, kidOf>> /\ \A t \in Conn : InCharge(t) => InCharge(t)'
      BY <2>4, <1>srv DEF TruncatePid, ServerGo, InCharge
    <3>2. QED
      BY <3>1, <1>owned, SameOwners
  <2>5. CASE RecordPid(c)
    <3>1. UNCHANGED <<lock, kid, kidOf>> /\ \A t \in Conn : InCharge(t) => InCharge(t)'
      BY <2>5, <1>srv DEF RecordPid, ServerGo, InCharge
    <3>2. QED
      BY <3>1, <1>owned, SameOwners
  <2>6. CASE InstallHandlers(c)
    <3>1. UNCHANGED <<lock, kid, kidOf>> /\ \A t \in Conn : InCharge(t) => InCharge(t)'
      BY <2>6, <1>srv DEF InstallHandlers, ServerGo, InCharge
    <3>2. QED
      BY <3>1, <1>owned, SameOwners
  <2>7. CASE OpenOwnControl(c)
    <3>1. CASE ctl = c
      <4>1. UNCHANGED <<lock, kid, kidOf>> /\ \A t \in Conn : InCharge(t) => InCharge(t)'
        BY <2>7, <3>1, <1>srv DEF OpenOwnControl, ServerGo, InCharge
      <4>2. QED
        BY <4>1, <1>owned, SameOwners
    <3>2. CASE ~(ctl = c)
      BY <2>7, <3>2, <1>lock, <1>srv, <1>owned, LockWithoutOrphans DEF OpenOwnControl, ServerGo
    <3>3. QED
      BY <3>1, <3>2
  <2>8. CASE Accept(c)
    <3>1. UNCHANGED <<lock, srv>> /\ \A t \in Conn : FreshKids(t) \subseteq FreshKids(t)'
      <4>1. kid[Head(hello[c])] = "none"
        <5>1. hello[c] # <<>> /\ IsInjective(hello[c]) /\ hello[c] \in Seq(Conn)
          BY <2>8, <1>served, <1>hello DEF Accept, ServedOnce
        <5>2. Head(hello[c]) \in Waiting(c)
          BY <5>1, TailRange DEF Waiting
        <5>3. QED
          BY <5>2, <1>served DEF ServedOnce
      <4>2. QED
        BY <2>8, <4>1, <1>kid, <1>kidOf DEF Accept, FreshKids
    <3>2. QED
      BY <3>1, <1>owned DEF LockOwned, LockNotOrphaned, InCharge
  <2>9. CASE Leave(c)
    <3>1. UNCHANGED <<lock, kid, kidOf>> /\ \A t \in Conn : InCharge(t) => InCharge(t)'
      BY <2>9, <1>srv DEF Leave, ServerGo, InCharge
    <3>2. QED
      BY <3>1, <1>owned, SameOwners
  <2>10. CASE RemoveControl(c)
    <3>1. UNCHANGED <<lock, kid, kidOf>> /\ \A t \in Conn : InCharge(t) => InCharge(t)'
      BY <2>10, <1>srv DEF RemoveControl, ServerGo, InCharge
    <3>2. QED
      BY <3>1, <1>owned, SameOwners
  <2>11. CASE CloseControl(c)
    <3>1. UNCHANGED <<lock, kid, kidOf>> /\ \A t \in Conn : InCharge(t) => InCharge(t)'
      BY <2>11, <1>srv DEF CloseControl, ServerGo, InCharge
    <3>2. QED
      BY <3>1, <1>owned, SameOwners
  <2>12. CASE Unlock(c)
    <3>1. CASE c \in ByHand
      BY <2>12, <3>1, <1>lock, <1>srv, <1>owned, LockWithoutOrphans DEF Unlock, ServerGo
    <3>2. CASE c \notin ByHand
      BY <2>12, <3>2, NotAServersLock DEF Unlock, Free
    <3>3. QED
      BY <3>1, <3>2
  <2> QED
    BY <1>2, <2>1, <2>2, <2>3, <2>4, <2>5, <2>6, <2>7, <2>8, <2>9, <2>10, <2>11, <2>12 DEF Server
<1>3. ASSUME NEW c \in Conn, Child(c) PROVE LockOwned'
  <2>1. CASE CloseInherited(c)
    <3>1. UNCHANGED srv /\ \A t \in Conn : FreshKids(t)' = FreshKids(t) \ {c}
      BY <2>1, <1>kid DEF CloseInherited, FreshKids
    <3>2. CASE lock' = Free
      BY <3>2, NotAServersLock DEF Free
    <3>3. CASE lock' = lock /\ lock.by = "server" /\ FreshKids(lock.id) = {c} /\ ~InCharge(lock.id)
      <4>1. kidOf[c] = lock.id
        BY <3>3 DEF FreshKids
      <4>2. lock = [by |-> "server", id |-> kidOf[c]]
        BY <3>3, <4>1, <1>lock DEF LockState
      <4>3. QED
        BY <2>1, <3>2, <3>3, <4>1, <4>2, NotAServersLock DEF CloseInherited, Free
    <3>4. CASE lock' = lock /\ ~(lock.by = "server" /\ FreshKids(lock.id) = {c} /\ ~InCharge(lock.id))
      BY <3>1, <3>4, <1>owned DEF LockOwned, LockNotOrphaned, InCharge
    <3>5. QED
      BY <2>1, <3>2, <3>3, <3>4 DEF CloseInherited
  <2>2. CASE EndSession(c)
    <3>1. UNCHANGED <<lock, srv>> /\ \A t \in Conn : FreshKids(t)' = FreshKids(t)
      BY <2>2, <1>kid DEF EndSession, FreshKids
    <3>2. QED
      BY <3>1, <1>owned DEF LockOwned, LockNotOrphaned, InCharge
  <2>3. CASE RefuseSession(c)
    <3>1. UNCHANGED <<lock, srv>> /\ \A t \in Conn : FreshKids(t)' = FreshKids(t)
      BY <2>3, <1>kid DEF RefuseSession, FreshKids
    <3>2. QED
      BY <3>1, <1>owned DEF LockOwned, LockNotOrphaned, InCharge
  <2>4. CASE Shutdown(c)
    <3>1. UNCHANGED kidOf /\ \A t \in Conn : FreshKids(t)' = FreshKids(t)
      BY <2>4, <1>kid DEF Shutdown, FreshKids
    <3>2. CASE Alive(kidOf[c])
      BY <2>4, <3>1, <3>2, <1>lock, <1>srv, <1>linked, <1>owned, TerminateOrphans DEF Shutdown, Linked
    <3>3. CASE ~Alive(kidOf[c])
      BY <2>4, <3>1, <3>3, <1>owned DEF Shutdown, LockOwned, LockNotOrphaned, InCharge
    <3>4. QED
      BY <3>2, <3>3
  <2> QED
    BY <1>3, <2>1, <2>2, <2>3, <2>4 DEF Child
<1>4. CASE StopCommand
  <2>1. UNCHANGED kidOf /\ \A t \in Conn : FreshKids(t)' = FreshKids(t)
    BY <1>4 DEF StopCommand, FreshKids
  <2>2. QED
    BY <1>4, <2>1, <1>lock, <1>srv, <1>pid, <1>owned, TerminateOrphans DEF StopCommand
<1>5. CASE StatusTake
  <2>1. lock'.by # "server"
    BY <1>5 DEF StatusTake, Free
  <2>2. QED
    BY <2>1, NotAServersLock
<1>6. CASE StatusRelease
  <2>1. lock'.by # "server"
    BY <1>6 DEF StatusRelease, Free
  <2>2. QED
    BY <2>1, NotAServersLock
<1>7. ASSUME NEW c \in Conn, KillServer(c) PROVE LockOwned'
  BY <1>7, <1>lock, <1>srv, <1>owned, LockWithoutOrphans DEF KillServer
<1> QED
  BY <1>0, <1>1, <1>2, <1>3, <1>4, <1>5, <1>6, <1>7 DEF Next, Environment

\* The lock of a server outlives the server only in a child that is about to
\* close it: what a later session finds locked has a server behind it, or soon
\* nobody.
THEOREM LockHasAnOwner == Spec => []LockNotOrphaned
<1>1. Init => LockOwned
  BY DEF Init, LockOwned, LockNotOrphaned, Free
<1>2. LockOwned => LockNotOrphaned
  BY DEF LockOwned
<1>3. QED
  BY <1>1, <1>2, LockOwnedStep, SessionInvariant, TypeInvariant, PTL DEF Spec

=============================================================================
