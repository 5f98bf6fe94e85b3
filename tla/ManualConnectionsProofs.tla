---------------------- MODULE ManualConnectionsProofs ----------------------
(***************************************************************************)
(* Proofs about the manual connections, for any descriptors, any peers and *)
(* any number of starts and stops.  First TCPConnection by itself: it      *)
(* leaks nothing.  Then ManualConnections: neither connection touches a    *)
(* socket of the other, a UDP message goes to a peer of its own start, and *)
(* data heard in time is noticed in spite of the truncated clock.          *)
(***************************************************************************)
EXTENDS ManualConnections, TLAPS

-----------------------------------------------------------------------------
(* TCPConnection                                                           *)

\* The values that a store of the time and a start begin with have their types.
LEMMA Zero ==
  0 \in 0..(AliveFor + 1) /\ AliveFor + 1 \in 0..(AliveFor + 1) /\ 0 \in 0..MaxStarts
  BY ConstantsAssumption DEF ConstantsAssumption

\* shutdown() and close() leave descriptors what they are, and open none.
LEMMA ShutdownAndRelease ==
  ASSUME fds \in [Fds -> States], NEW f, Shutdown(f) \/ Release(f)
  PROVE  /\ fds' \in [Fds -> States]
         /\ \A d \in Fds : IsConnection(d)' => IsConnection(d)
         /\ \A d \in Fds : d # f => fds'[d] = fds[d]
  <1>1. CASE Shutdown(f)
    <2>1. \A s \in States : WhenShut(s) \in States
      BY DEF States, WhenShut
    <2>2. \A d \in Fds : IsConnection(d)' => IsConnection(d)
      BY <1>1 DEF Shutdown, WhenShut, IsConnection
    <2> QED
      BY <1>1, <2>1, <2>2 DEF Shutdown
  <1>2. CASE Release(f)
    BY <1>2 DEF Release, IsConnection, States
  <1> QED
    BY <1>1, <1>2

\* Every step of the connection keeps the types.
LEMMA KeepsTypes ==
  ASSUME TypeOK, [Next]_vars
  PROVE  TypeOK'
  <1> USE DEF TypeOK
  <1>1. CASE StartLooping
    BY <1>1, ConstantsAssumption DEF StartLooping, ConstantsAssumption
  <1>2. CASE StopLooping
    BY <1>2 DEF StopLooping
  <1>3. CASE StopShutdown
    BY <1>3, ShutdownAndRelease DEF StopShutdown
  <1>4. CASE StopClose
    BY <1>4, ShutdownAndRelease DEF StopClose, Close
  <1>5. CASE StopJoin
    BY <1>5 DEF StopJoin
  <1>6. CASE LoopConnectReceive
    BY <1>6 DEF LoopConnectReceive
  <1>7. CASE TryConnect
    <2>1. CASE rx' = "test" /\ elapsed' = 0
      <3> PICK f \in Fds : socket' = f /\ Open(f, "stream") /\ live' = live \cup {f}
        BY <1>7, <2>1 DEF TryConnect
      <3> QED
        BY Zero, <1>7, <2>1 DEF TryConnect, Open, States
    <2>2. CASE socket' = NoFd /\ rx' = "wait" /\ UNCHANGED <<fds, live, elapsed>>
      BY <1>7, <2>2 DEF TryConnect
    <2> QED
      BY <1>7, <2>1, <2>2 DEF TryConnect
  <1>8. CASE Wait
    BY <1>8 DEF Wait
  <1>9. CASE TestKeep
    BY <1>9 DEF TestKeep
  <1>10. CASE ReceiveData \/ ReceiveNothing
    BY Zero, <1>10 DEF ReceiveData, ReceiveNothing
  <1>11. CASE CloseSocket
    BY <1>11, ShutdownAndRelease DEF CloseSocket, Close
  <1>12. CASE ServerToggles
    BY <1>12 DEF ServerToggles
  <1>13. CASE Tick
    BY <1>13, ConstantsAssumption DEF Tick, ConstantsAssumption
  <1>14. CASE UNCHANGED vars
    BY <1>14 DEF vars
  <1> QED
    BY <1>1, <1>2, <1>3, <1>4, <1>5, <1>6, <1>7, <1>8, <1>9, <1>10, <1>11, <1>12,
       <1>13, <1>14 DEF Next, Stops, Receives

\* Every variable of the connection keeps its type: m_socket_fd is the descriptor
\* of the last connection or "no socket", wherever a stop interrupts the thread.
THEOREM TypeCorrect == Spec => []TypeOK
  <1>1. Init => TypeOK
    BY Zero DEF Init, TypeOK, States
  <1>2. TypeOK /\ [Next]_vars => TypeOK'
    BY KeepsTypes
  <1> QED
    BY <1>1, <1>2, PTL DEF Spec

\* Closing m_socket_fd, from either thread, leaves no descriptor open, because it
\* is the only one that can be.
LEMMA CloseLeavesNone ==
  ASSUME NoLeak, Close(socket)
  PROVE  \A f \in Fds : ~IsConnection(f)'
  BY DEF NoLeak, Close, Release, IsConnection

\* A step that neither opens a descriptor nor changes m_socket_fd keeps NoLeak,
\* unless the receive thread leaves a connection behind.
LEMMA OpensNothing ==
  ASSUME NoLeak, socket' = socket,
         \A f \in Fds : IsConnection(f)' => IsConnection(f),
         \/ rx' = rx
         \/ \A f \in Fds : ~IsConnection(f)'
         \/ rx' \in {"test", "recv", "close"}
  PROVE  NoLeak'
  BY DEF NoLeak

\* Every step of the connection keeps NoLeak, wherever the stop meets the receive
\* thread.
LEMMA KeepsNoLeak ==
  ASSUME TypeOK, NoLeak, [Next]_vars
  PROVE  NoLeak'
  <1>1. CASE StartLooping
    BY <1>1, OpensNothing DEF StartLooping, NoLeak, IsConnection
  <1>2. CASE StopLooping \/ Tick \/ ServerToggles
    BY <1>2, OpensNothing DEF StopLooping, Tick, ServerToggles, IsConnection
  <1>3. CASE StopShutdown
    BY <1>3, OpensNothing, ShutdownAndRelease DEF StopShutdown, TypeOK
  <1>4. CASE StopClose
    BY <1>4, OpensNothing, CloseLeavesNone DEF StopClose
  <1>5. CASE StopJoin \/ LoopConnectReceive \/ Wait
    <2>1. \A f \in Fds : ~IsConnection(f)
      BY <1>5 DEF StopJoin, LoopConnectReceive, Wait, NoLeak
    <2> QED
      BY <1>5, <2>1, OpensNothing DEF StopJoin, LoopConnectReceive, Wait, IsConnection
  <1>6. CASE TryConnect
    <2>1. \A f \in Fds : ~IsConnection(f)
      BY <1>6 DEF TryConnect, NoLeak
    <2>2. CASE up /\ rx' = "test"
      <3> PICK g \in Fds : socket' = g /\ Open(g, "stream")
        BY <1>6, <2>2 DEF TryConnect
      <3> QED
        BY <2>1, <2>2 DEF NoLeak, TypeOK, Open, IsConnection
    <2>3. CASE UNCHANGED fds
      BY <2>1, <2>3 DEF NoLeak, IsConnection
    <2> QED
      BY <1>6, <2>2, <2>3 DEF TryConnect
  <1>7. CASE TestKeep \/ ReceiveData \/ ReceiveNothing
    BY <1>7, OpensNothing DEF TestKeep, ReceiveData, ReceiveNothing, IsConnection
  <1>8. CASE CloseSocket
    <2>1. \A f \in Fds : ~IsConnection(f)'
      BY <1>8, CloseLeavesNone DEF CloseSocket
    <2> QED
      BY <2>1 DEF NoLeak
  <1>9. CASE UNCHANGED vars
    BY <1>9, OpensNothing DEF vars, IsConnection
  <1> QED
    BY <1>1, <1>2, <1>3, <1>4, <1>5, <1>6, <1>7, <1>8, <1>9 DEF Next, Stops, Receives

\* However the stop meets the receive thread, no connection is left open: one
\* descriptor at most is open, the one in m_socket_fd, and none once it is stopped
\* (tcp_connection.cpp:189-204, 273-283).
THEOREM NothingLeaks == Spec => []NoLeak
  <1>1. Init => NoLeak
    BY DEF Init, NoLeak, IsConnection
  <1>2. TypeOK /\ NoLeak /\ [Next]_vars => NoLeak'
    BY KeepsNoLeak
  <1> QED
    BY <1>1, <1>2, TypeCorrect, PTL DEF Spec

-----------------------------------------------------------------------------
(* ManualConnections                                                       *)

IsDgram(f) == fds[f] \in {"dgram", "dgram_shut"}

\* The owner of an open descriptor is told by its kind.
OwnersAreKinds ==
    /\ owner \in [Fds -> {"tcp", "udp"}]
    /\ \A f \in Fds : IsConnection(f) => owner[f] = "tcp"
    /\ \A f \in Fds : IsDgram(f) => owner[f] = "udp"

\* One of the two is stopped at any time, and a stop is under way only where a
\* thread runs.
OneRuns ==
    /\ rx = "none" \/ urx = "none"
    /\ stop # "no" => rx # "none"
    /\ ustop # "no" => urx # "none"

\* m_socket_fd of the TCP connection is a connection, or free after a stop closed it.
SocketIsTcps ==
    /\ rx \notin {"test", "recv", "close"} => socket = NoFd
    /\ socket \in Fds => ~IsDgram(socket)

IInv == TypeOK /\ NoLeak /\ OwnersAreKinds /\ OneRuns /\ SocketIsTcps

OwnStep ==
    \A f \in Fds : fds[f] # "free" /\ fds'[f] # fds[f] =>
        IF owner[f] = "udp" THEN UNCHANGED tcpOnly ELSE UNCHANGED udpOnly

\* -1 is no descriptor.
LEMMA NoFdIsNone == NoFd \notin Fds
  BY ConstantsAssumption DEF ConstantsAssumption, NoFd

TcpNext == (StartLooping /\ MayStart(urx, ustop)) \/ Stops \/ Receives \/ ServerToggles \/ Tick
UdpNext ==
    \/ Udp!StartLooping /\ MayStart(rx, stop)
    \/ Udp!Stops
    \/ Udp!Receives \/ \E r \in Remotes : Udp!ReceiveData(r)
    \/ Udp!SendCopies \/ Udp!SendTo
    \/ Udp!PortTaken \/ Udp!Tick

\* The step of a connection, without the bookkeeping.
LEMMA Steps ==
  ASSUME ManualNext
  PROVE  \/ StepOf("tcp", TcpNext /\ TcpStep)
         \/ StepOf("udp", UdpNext /\ UdpStep)
  BY DEF ManualNext, StepOf, TcpNext, UdpNext

\* What a step of the TCP connection does to the descriptors: only the one in
\* m_socket_fd is shut down or closed, and only a connection is opened.
LEMMA TcpTouchesItsOwn ==
  ASSUME TypeOK, TcpNext
  PROVE  /\ \A f \in Fds : fds[f] # "free" /\ f # socket => fds'[f] = fds[f]
         /\ \A f \in Fds : fds[f] = "free" => fds'[f] \in {"free", "stream"}
         /\ \A f \in Fds : IsConnection(f) => fds'[f] = "free" \/ IsConnection(f)'
  <1> USE DEF TypeOK
  <1>1. CASE UNCHANGED fds
    BY <1>1 DEF IsConnection
  <1>2. CASE Shutdown(socket)
    BY <1>2 DEF Shutdown, WhenShut, IsConnection
  <1>3. CASE Release(socket)
    BY <1>3 DEF Release, IsConnection
  <1>4. CASE \E f \in Fds : IsLowest(f) /\ Open(f, "stream")
    BY <1>4 DEF IsLowest, Open, IsConnection
  <1>5. TcpNext => \/ UNCHANGED fds \/ Shutdown(socket) \/ Release(socket)
                   \/ \E f \in Fds : IsLowest(f) /\ Open(f, "stream")
    BY DEF TcpNext, StartLooping, Stops, StopLooping, StopShutdown, StopClose, StopJoin,
           Receives, LoopConnectReceive, TryConnect, Wait, TestKeep, ReceiveData,
           ReceiveNothing, CloseSocket, Close, ServerToggles, Tick
  <1> QED
    BY <1>1, <1>2, <1>3, <1>4, <1>5

\* What a step of the UDP connection does to the descriptors: only one that is
\* bound to be a UDP socket is opened, and without a thread, none is touched.
LEMMA UdpTouchesItsOwn ==
  ASSUME TypeOK, UdpNext
  PROVE  /\ fds' \in [Fds -> States]
         /\ \A f \in Fds : fds[f] = "free" => fds'[f] \in {"free", "dgram"}
         /\ \A f \in Fds : IsDgram(f) => fds'[f] = "free" \/ IsDgram(f)'
         /\ \A f \in Fds : IsConnection(f)' => IsConnection(f)
         /\ urx = "none" /\ ustop = "no" => UNCHANGED fds
  <1> USE DEF TypeOK
  <1>1. CASE UNCHANGED fds
    BY <1>1 DEF IsConnection, IsDgram
  <1>2. CASE Shutdown(usocket) \/ Release(usocket)
    <2>1. \A f \in Fds : IsDgram(f) => fds'[f] = "free" \/ IsDgram(f)'
      BY <1>2 DEF Shutdown, Release, WhenShut, IsDgram
    <2>2. \A f \in Fds : fds[f] = "free" => fds'[f] \in {"free", "dgram"}
      BY <1>2 DEF Shutdown, Release, WhenShut
    <2>3. urx # "none" \/ ustop # "no" \/ UNCHANGED fds
      BY DEF UdpNext, Udp!StartLooping, Udp!Stops, Udp!StopLooping, Udp!StopShutdown,
             Udp!StopClose, Udp!StopJoin, Udp!Receives, Udp!LoopReceive, Udp!SetupSocket,
             Udp!BindSocket, Udp!TestKeep, Udp!ReceiveNothing, Udp!ClearRemote,
             Udp!ReceiveData, Udp!SendCopies, Udp!SendTo, Udp!PortTaken, Udp!Tick, Udp!thread
    <2> QED
      BY <1>2, <2>1, <2>2, <2>3, ShutdownAndRelease
  <1>3. CASE urx # "none" /\ \E f \in Fds : IsLowest(f) /\ Open(f, "dgram")
    BY <1>3 DEF IsLowest, Open, IsConnection, IsDgram, States
  <1>4. UdpNext => \/ UNCHANGED fds \/ Shutdown(usocket) \/ Release(usocket)
                   \/ urx # "none" /\ \E f \in Fds : IsLowest(f) /\ Open(f, "dgram")
    BY DEF UdpNext, Udp!StartLooping, Udp!Stops, Udp!StopLooping, Udp!StopShutdown,
           Udp!StopClose, Udp!StopJoin, Udp!Receives, Udp!LoopReceive, Udp!SetupSocket,
           Udp!BindSocket, Udp!TestKeep, Udp!ReceiveNothing, Udp!ClearRemote,
           Udp!ReceiveData, Udp!SendCopies, Udp!SendTo, Udp!PortTaken, Udp!Tick, Udp!thread,
           Udp!Close, Udp!Shutdown, Shutdown, Udp!Release, Release, Udp!WhenShut, WhenShut, Udp!IsLowest, IsLowest,
           Udp!Open, Open
  <1> QED
    BY <1>1, <1>2, <1>3, <1>4

\* No step of either connection touches a descriptor of the other: the TCP connection
\* because its socket is no UDP socket, the UDP connection because no connection is
\* open while it runs.
LEMMA StepsAreOwn ==
  ASSUME IInv, [ManualNext]_allVars
  PROVE  OwnStep
  <1> USE DEF IInv
  <1>1. CASE StepOf("tcp", TcpNext /\ TcpStep)
    <2>1. ASSUME NEW f \in Fds, fds[f] # "free", fds'[f] # fds[f]
          PROVE  owner[f] # "udp" /\ UNCHANGED udpOnly
      <3>1. f = socket
        BY <1>1, <2>1, TcpTouchesItsOwn DEF StepOf
      <3>2. IsConnection(f)
        BY <2>1, <3>1 DEF SocketIsTcps, TypeOK, States, IsDgram, IsConnection
      <3> QED
        BY <1>1, <3>2 DEF OwnersAreKinds, StepOf, TcpStep
    <2> QED
      BY <2>1 DEF OwnStep
  <1>2. CASE StepOf("udp", UdpNext /\ UdpStep)
    <2>1. ASSUME NEW f \in Fds, fds[f] # "free", fds'[f] # fds[f]
          PROVE  owner[f] = "udp" /\ UNCHANGED tcpOnly
      <3>1. rx = "none"
        BY <1>2, <2>1, UdpTouchesItsOwn DEF StepOf, OneRuns
      <3>2. IsDgram(f)
        BY <2>1, <3>1 DEF NoLeak, TypeOK, States, IsDgram, IsConnection
      <3> QED
        BY <1>2, <3>2 DEF OwnersAreKinds, StepOf, UdpStep
    <2> QED
      BY <2>1 DEF OwnStep
  <1>3. CASE UNCHANGED allVars
    BY <1>3 DEF allVars, OwnStep
  <1> QED
    BY <1>1, <1>2, <1>3, Steps

\* Either connection keeps the kinds of the descriptors apart.
LEMMA KeepsOwners ==
  ASSUME IInv, [ManualNext]_allVars
  PROVE  OwnersAreKinds'
  <1> USE DEF IInv, OwnersAreKinds
  <1>1. CASE StepOf("tcp", TcpNext /\ TcpStep)
    <2>1. ASSUME NEW f \in Fds
          PROVE  /\ owner'[f] \in {"tcp", "udp"}
                 /\ IsConnection(f)' => owner'[f] = "tcp"
                 /\ IsDgram(f)' => owner'[f] = "udp"
      <3>1. owner'[f] = IF fds[f] = "free" /\ fds'[f] # "free" THEN "tcp" ELSE owner[f]
        BY <1>1 DEF StepOf
      <3>2. CASE fds[f] = "free"
        BY <1>1, <3>1, <3>2, TcpTouchesItsOwn DEF StepOf, IsConnection, IsDgram
      <3>3. CASE IsConnection(f)
        BY <1>1, <3>1, <3>3, TcpTouchesItsOwn DEF StepOf, IsConnection, IsDgram
      <3>4. CASE IsDgram(f)
        <4>1. f # socket
          BY <3>4 DEF SocketIsTcps
        <4> QED
          BY <1>1, <3>1, <3>4, <4>1, TcpTouchesItsOwn DEF StepOf, IsConnection, IsDgram
      <3> QED
        BY <3>2, <3>3, <3>4 DEF TypeOK, States, IsConnection, IsDgram
    <2> QED
      BY <1>1, <2>1 DEF StepOf
  <1>2. CASE StepOf("udp", UdpNext /\ UdpStep)
    <2>1. ASSUME NEW f \in Fds
          PROVE  /\ owner'[f] \in {"tcp", "udp"}
                 /\ IsConnection(f)' => owner'[f] = "tcp"
                 /\ IsDgram(f)' => owner'[f] = "udp"
      <3>1. owner'[f] = IF fds[f] = "free" /\ fds'[f] # "free" THEN "udp" ELSE owner[f]
        BY <1>2 DEF StepOf
      <3>2. CASE fds[f] = "free"
        BY <1>2, <3>1, <3>2, UdpTouchesItsOwn DEF StepOf, IsConnection, IsDgram
      <3>3. CASE IsConnection(f)
        <4>1. rx # "none"
          BY <3>3 DEF NoLeak
        <4>2. UNCHANGED fds
          BY <1>2, <4>1, UdpTouchesItsOwn DEF StepOf, OneRuns
        <4> QED
          BY <3>1, <3>3, <4>2 DEF IsConnection, IsDgram
      <3>4. CASE IsDgram(f)
        BY <1>2, <3>1, <3>4, UdpTouchesItsOwn DEF StepOf, IsConnection, IsDgram
      <3> QED
        BY <3>2, <3>3, <3>4 DEF TypeOK, States, IsConnection, IsDgram
    <2> QED
      BY <1>2, <2>1 DEF StepOf
  <1>3. CASE UNCHANGED allVars
    BY <1>3 DEF allVars, IsConnection, IsDgram
  <1> QED
    BY <1>1, <1>2, <1>3, Steps

\* One of the two stays stopped: a start finds the other one stopped.
LEMMA KeepsOneRuns ==
  ASSUME IInv, [ManualNext]_allVars
  PROVE  OneRuns'
  <1> USE DEF IInv, OneRuns
  <1>1. CASE StepOf("tcp", TcpNext /\ TcpStep)
    <2>1. UNCHANGED <<urx, ustop>>
      BY <1>1 DEF StepOf, TcpStep, udpOnly
    <2>2. CASE StartLooping /\ MayStart(urx, ustop)
      BY <2>1, <2>2 DEF StartLooping, MayStart
    <2>3. CASE Stops
      BY <2>1, <2>3 DEF Stops, StopLooping, StopShutdown, StopClose, StopJoin
    <2>4. CASE Receives
      BY <2>1, <2>4 DEF Receives, LoopConnectReceive, TryConnect, Wait, TestKeep,
         ReceiveData, ReceiveNothing, CloseSocket
    <2>5. CASE ServerToggles \/ Tick
      BY <2>1, <2>5 DEF ServerToggles, Tick
    <2> QED
      BY <1>1, <2>2, <2>3, <2>4, <2>5 DEF StepOf, TcpNext
  <1>2. CASE StepOf("udp", UdpNext /\ UdpStep)
    <2>1. UNCHANGED <<rx, stop>>
      BY <1>2 DEF StepOf, UdpStep, tcpOnly
    <2>2. CASE Udp!StartLooping /\ MayStart(rx, stop)
      BY <2>1, <2>2 DEF Udp!StartLooping, MayStart
    <2>3. CASE Udp!Stops
      BY <2>1, <2>3 DEF Udp!Stops, Udp!StopLooping, Udp!StopShutdown, Udp!StopClose,
         Udp!StopJoin
    <2>4. CASE Udp!Receives \/ \E r \in Remotes : Udp!ReceiveData(r)
      BY <2>1, <2>4 DEF Udp!Receives, Udp!LoopReceive, Udp!SetupSocket, Udp!BindSocket,
         Udp!TestKeep, Udp!ReceiveNothing, Udp!ClearRemote, Udp!ReceiveData
    <2>5. CASE Udp!SendCopies \/ Udp!SendTo \/ Udp!PortTaken \/ Udp!Tick
      BY <2>1, <2>5 DEF Udp!SendCopies, Udp!SendTo, Udp!PortTaken, Udp!Tick, Udp!thread
    <2> QED
      BY <1>2, <2>2, <2>3, <2>4, <2>5 DEF StepOf, UdpNext
  <1>3. CASE UNCHANGED allVars
    BY <1>3 DEF allVars, tcpOnly, udpOnly
  <1> QED
    BY <1>1, <1>2, <1>3, Steps

\* m_socket_fd of the TCP connection stays its own: no UDP socket is opened before
\* its threads are joined.
LEMMA KeepsSocket ==
  ASSUME IInv, [ManualNext]_allVars
  PROVE  SocketIsTcps'
  <1> USE DEF IInv, SocketIsTcps
  <1>1. CASE StepOf("tcp", TcpNext /\ TcpStep)
    <2>0. TcpNext
      BY <1>1 DEF StepOf
    <2>1. CASE TryConnect
      BY <2>1, NoFdIsNone DEF TryConnect, Open, IsDgram, TypeOK
    <2>2. CASE CloseSocket
      BY <2>2, NoFdIsNone DEF CloseSocket
    <2>3. CASE UNCHANGED socket /\ (rx' \notin {"test", "recv", "close"} => socket = NoFd)
      <3>1. ASSUME socket \in Fds PROVE ~IsDgram(socket)'
        <4>1. fds[socket] = "free" \/ IsConnection(socket)
          BY <3>1 DEF TypeOK, States, IsDgram, IsConnection
        <4> QED
          BY <2>0, <2>3, <3>1, <4>1, TcpTouchesItsOwn DEF IsDgram, IsConnection
      <3> QED
        BY <2>3, <3>1
    <2>4. TcpNext => \/ TryConnect \/ CloseSocket
                     \/ UNCHANGED socket /\ (rx' \notin {"test", "recv", "close"} => socket = NoFd)
      BY DEF TcpNext, StartLooping, Stops, StopLooping, StopShutdown, StopClose, StopJoin,
             Receives, LoopConnectReceive, Wait, TestKeep, ReceiveData, ReceiveNothing,
             ServerToggles, Tick
    <2> QED
      BY <2>0, <2>1, <2>2, <2>3, <2>4
  <1>2. CASE StepOf("udp", UdpNext /\ UdpStep)
    <2>1. UNCHANGED <<rx, socket>>
      BY <1>2 DEF StepOf, UdpStep, tcpOnly
    <2>2. socket \in Fds => urx = "none" /\ ustop = "no"
      BY NoFdIsNone DEF OneRuns
    <2>3. socket \in Fds => UNCHANGED fds
      BY <1>2, <2>2, UdpTouchesItsOwn DEF StepOf
    <2> QED
      BY <2>1, <2>3 DEF IsDgram
  <1>3. CASE UNCHANGED allVars
    BY <1>3 DEF allVars, tcpOnly, IsDgram
  <1> QED
    BY <1>1, <1>2, <1>3, Steps

\* The types and NoLeak of the TCP connection survive the steps of the other one,
\* which opens no connection.
LEMMA KeepsTcp ==
  ASSUME IInv, [ManualNext]_allVars
  PROVE  TypeOK' /\ NoLeak'
  <1> USE DEF IInv
  <1>1. CASE StepOf("tcp", TcpNext /\ TcpStep)
    <2>1. Next
      BY <1>1 DEF StepOf, TcpNext, Next
    <2> QED
      BY <2>1, KeepsTypes, KeepsNoLeak
  <1>2. CASE StepOf("udp", UdpNext /\ UdpStep)
    <2>1. UdpNext /\ UNCHANGED tcpOnly /\ live' \subseteq live
      BY <1>2 DEF StepOf, UdpStep
    <2>2. TypeOK'
      BY <2>1, UdpTouchesItsOwn DEF TypeOK, tcpOnly
    <2>3. NoLeak'
      BY <2>1, UdpTouchesItsOwn, OpensNothing DEF tcpOnly
    <2> QED
      BY <2>2, <2>3
  <1>3. CASE UNCHANGED allVars
    <2>1. UNCHANGED vars
      BY <1>3 DEF allVars, tcpOnly, vars
    <2> QED
      BY <2>1, KeepsTypes, KeepsNoLeak
  <1> QED
    BY <1>1, <1>2, <1>3, Steps

\* The invariant holds from the start on.
LEMMA InvHolds == ManualSpec => []IInv
  <1>1. ManualInit => IInv
    <2> SUFFICES ASSUME ManualInit PROVE IInv
      OBVIOUS
    <2>1. TypeOK /\ NoLeak
      BY Zero DEF ManualInit, Init, TypeOK, NoLeak, IsConnection, States
    <2>2. OwnersAreKinds /\ OneRuns /\ SocketIsTcps
      BY NoFdIsNone DEF ManualInit, Init, Udp!Init, OwnersAreKinds, OneRuns, SocketIsTcps,
         IsConnection, IsDgram
    <2> QED
      BY <2>1, <2>2 DEF IInv
  <1>2. IInv /\ [ManualNext]_allVars => IInv'
    BY KeepsTcp, KeepsOwners, KeepsOneRuns, KeepsSocket DEF IInv
  <1> QED
    BY <1>1, <1>2, PTL DEF ManualSpec

\* A descriptor is shut down and closed only by the connection that opened it,
\* although both keep numbers of descriptors they have closed, a stop and the
\* receive thread close the same one twice, and the numbers are used again
\* (udp_connection.cpp:55-63, tcp_connection.cpp:189-202, 278).
THEOREM TouchesItsOwn == ManualSpec => OwnDescriptors
  <1>1. IInv /\ [ManualNext]_allVars => OwnStep
    BY StepsAreOwn
  <1>2. OwnStep => [OwnStep]_allVars
    OBVIOUS
  <1> QED
    BY <1>1, InvHolds, PTL DEF ManualSpec, OwnDescriptors, OwnStep

\* However the stop meets the receive thread, and whatever the UDP connection does
\* in between, no connection is left open (tcp_connection.cpp:189-204, 273-283).
THEOREM NothingLeaksInTurn == ManualSpec => []NoLeak
  <1>1. IInv => NoLeak
    BY DEF IInv
  <1> QED
    BY <1>1, InvHolds, PTL

-----------------------------------------------------------------------------
(* The peers and the clock of the UDP connection                           *)

peersAndClock == <<urx, remote, heard, now, lastData, lastTime>>

\* The remote is a peer of this socket, and unknown until the socket is bound.
PeerInv ==
    /\ remote # NoRemote => remote \in heard
    /\ urx \in {"none", "loop", "socket", "bind", "ended"} => remote = NoRemote

\* m_last_data_ms is the truncated time of the last data.
ClockInv ==
    /\ now \in Nat
    /\ lastTime = -1 \/ (lastTime \in 0..now /\ lastData = Udp!Int32(lastTime))

\* What a step of the UDP connection does to its peers and its clock.
LEMMA UdpSteps ==
  ASSUME UdpNext
  PROVE  \/ \E r \in Remotes : Udp!ReceiveData(r)
         \/ Udp!ClearRemote
         \/ Udp!BindSocket /\ UNCHANGED <<now, lastData, lastTime>>
         \/ Udp!Tick /\ UNCHANGED <<urx, remote, heard>>
         \/ /\ UNCHANGED <<remote, heard, now, lastData, lastTime>>
            /\ \/ urx' = urx
               \/ urx' \in {"test", "recv", "clear"}
               \/ urx \in {"none", "loop", "socket", "ended"}
  BY DEF UdpNext, Udp!StartLooping, Udp!Stops, Udp!StopLooping, Udp!StopShutdown,
         Udp!StopClose, Udp!StopJoin, Udp!Receives, Udp!LoopReceive, Udp!SetupSocket,
         Udp!BindSocket, Udp!TestKeep, Udp!ReceiveNothing, Udp!SendCopies, Udp!SendTo,
         Udp!PortTaken, Udp!Tick, Udp!thread, Udp!clock, Udp!peers

\* Steps of the TCP connection leave them alone.
LEMMA TcpLeavesPeers ==
  ASSUME StepOf("tcp", TcpNext /\ TcpStep) \/ UNCHANGED allVars
  PROVE  UNCHANGED peersAndClock
  BY DEF StepOf, TcpStep, allVars, udpOnly, peersAndClock

\* Every step of the two connections keeps what is known of the peers.
LEMMA KeepsPeers ==
  ASSUME PeerInv, [ManualNext]_allVars
  PROVE  PeerInv'
  <1> USE DEF PeerInv
  <1>1. CASE UNCHANGED peersAndClock
    BY <1>1 DEF peersAndClock
  <1>2. CASE UdpNext
    <2>1. CASE \E r \in Remotes : Udp!ReceiveData(r)
      BY <2>1 DEF Udp!ReceiveData, Udp!set_remote
    <2>2. CASE Udp!ClearRemote
      BY <2>2 DEF Udp!ClearRemote
    <2>3. CASE Udp!BindSocket
      BY <2>3 DEF Udp!BindSocket
    <2> QED
      BY <1>2, <2>1, <2>2, <2>3, UdpSteps
  <1> QED
    BY <1>1, <1>2, Steps, TcpLeavesPeers DEF StepOf

\* The socket is bound for as long as the connection is not stopped, the peers are
\* forgotten with it, and a copy counts until the next start.
SenderInv ==
    /\ urx \in {"none", "loop", "socket", "bind", "test", "recv", "clear", "ended"}
    /\ ukeep => ustop = "no"
    /\ ukeep /\ urx = "bind" => usocket \in Fds /\ fds[usocket] = "dgram"
    /\ ukeep /\ urx \in {"test", "recv"} => Udp!IsBound
    /\ remote # NoRemote /\ urx = "clear" => ~ukeep
    /\ copied => /\ sending \in heard
                 /\ urx \notin {"socket", "bind"}
                 /\ ukeep => urx \in {"test", "recv"}

senderState == <<ukeep, usocket, urx, ustop, remote, heard, sending, copied, port, fds>>

\* Where nothing of it changes, it still holds.
LEMMA SenderStays ==
  ASSUME SenderInv, UNCHANGED senderState
  PROVE  SenderInv'
  BY DEF SenderInv, senderState, Udp!IsBound

\* The TCP connection, which is stopped while the UDP connection runs, leaves the
\* socket alone.
LEMMA TcpLeavesSocket ==
  ASSUME IInv, SenderInv, StepOf("tcp", TcpNext /\ TcpStep)
  PROVE  SenderInv'
  <1>1. UNCHANGED <<ukeep, usocket, urx, ustop, remote, heard, sending, copied>>
    BY DEF StepOf, TcpStep, udpOnly
  <1>2. CASE urx = "none"
    BY <1>1, <1>2 DEF SenderInv
  <1>3. CASE urx # "none"
    <2>1. UNCHANGED fds
      BY <1>3 DEF IInv, OneRuns, StepOf, TcpNext, MayStart, StartLooping, Stops,
         StopLooping, StopShutdown, StopClose, StopJoin, Receives, LoopConnectReceive,
         TryConnect, Wait, TestKeep, ReceiveData, ReceiveNothing, CloseSocket,
         ServerToggles, Tick
    <2>2. Udp!IsBound => Udp!IsBound'
      BY <1>1, <2>1 DEF Udp!IsBound, StepOf, TcpStep
    <2> QED
      BY <1>1, <2>1, <2>2 DEF SenderInv
  <1> QED
    BY <1>2, <1>3

\* Every step of the UDP connection keeps it: the peers are forgotten with the socket,
\* and a start makes the copy an earlier one.
LEMMA UdpKeepsSender ==
  ASSUME IInv, PeerInv, SenderInv, UdpNext
  PROVE  SenderInv'
  <1> USE DEF SenderInv
  <1>1. CASE Udp!StartLooping
    BY <1>1 DEF Udp!StartLooping
  <1>2. CASE Udp!Stops
    BY <1>2 DEF Udp!Stops, Udp!StopLooping, Udp!StopShutdown, Udp!StopClose, Udp!StopJoin,
       Udp!clock, Udp!peers, Udp!sender
  <1>3. CASE Udp!LoopReceive \/ Udp!TestKeep \/ Udp!ReceiveNothing
    BY <1>3 DEF Udp!LoopReceive, Udp!Again, Udp!TestKeep, Udp!ReceiveNothing, Udp!IsBound,
       Udp!peers, Udp!sender
  <1>4. CASE Udp!SetupSocket
    BY <1>4 DEF Udp!SetupSocket, Udp!Open, Udp!peers, Udp!sender, PeerInv, IInv, TypeOK
  <1>5. CASE Udp!BindSocket
    BY <1>5 DEF Udp!BindSocket, Udp!IsSocket, Udp!IsBound, Udp!sender, PeerInv
  <1>6. CASE \E r \in Remotes : Udp!ReceiveData(r)
    BY <1>6 DEF Udp!ReceiveData, Udp!IsBound, Udp!sender
  <1>7. CASE Udp!ClearRemote
    BY <1>7 DEF Udp!ClearRemote, Udp!sender, PeerInv
  <1>8. CASE Udp!SendCopies \/ Udp!SendTo
    BY <1>8 DEF Udp!SendCopies, Udp!SendTo, Udp!thread, Udp!IsBound, PeerInv
  <1>9. CASE Udp!PortTaken
    <2>1. usocket \in Fds => usocket # Udp!NoFd /\ usocket # Udp!Elsewhere
      BY ConstantsAssumption DEF ConstantsAssumption, Udp!NoFd, Udp!Elsewhere
    <2> QED
      BY <1>9, <2>1 DEF Udp!PortTaken, Udp!IsBound, Udp!peers, Udp!sender
  <1>10. CASE Udp!Tick
    BY <1>10 DEF Udp!Tick, Udp!thread, Udp!peers, Udp!sender, Udp!IsBound
  <1> QED
    BY <1>1, <1>2, <1>3, <1>4, <1>5, <1>6, <1>7, <1>8, <1>9, <1>10
       DEF UdpNext, Udp!Receives

\* Whenever sendto() comes after the copy of the remote, in any number of starts, stops
\* and failed binds: a message that is copied and sent in the same start goes to a peer
\* that supplied data since the socket was opened, and on this very socket if no stop
\* has begun meanwhile (udp_connection.cpp:74, 85, 226).
THEOREM NoStalePeer == ManualSpec => []SentToAPeer
  <1>1. ManualInit => PeerInv /\ SenderInv
    BY DEF ManualInit, Udp!Init, PeerInv, SenderInv
  <1>2. IInv /\ PeerInv /\ SenderInv /\ [ManualNext]_allVars => PeerInv' /\ SenderInv'
    <2> SUFFICES ASSUME IInv, PeerInv, SenderInv, [ManualNext]_allVars
                 PROVE  PeerInv' /\ SenderInv'
      OBVIOUS
    <2>1. CASE UNCHANGED allVars
      BY <2>1, KeepsPeers, SenderStays DEF allVars, udpOnly, senderState
    <2> QED
      BY <2>1, KeepsPeers, Steps, TcpLeavesSocket, UdpKeepsSender DEF StepOf
  <1>3. IInv /\ PeerInv /\ SenderInv => SentToAPeer
    BY DEF SenderInv, SentToAPeer, Udp!SentToAPeer
  <1> QED
    BY <1>1, <1>2, <1>3, InvHolds, PTL DEF ManualSpec

\* The truncated difference of two truncated times is at most the true one.
LEMMA TruncatedDifference ==
  ASSUME Half = 2147483648, NEW n \in Nat, NEW l \in 0..n
  PROVE  Udp!Int32(Udp!Int32(n) - Udp!Int32(l)) <= n - l
  BY DEF Udp!Int32

\* Every step keeps the time stamp behind the clock.
LEMMA KeepsClock ==
  ASSUME ClockInv, [ManualNext]_allVars
  PROVE  ClockInv'
  <1> USE DEF ClockInv
  <1>1. CASE UNCHANGED peersAndClock
    BY <1>1 DEF peersAndClock, Udp!Int32
  <1>2. CASE UdpNext
    <2>1. CASE \E r \in Remotes : Udp!ReceiveData(r)
      BY <2>1 DEF Udp!ReceiveData, Udp!Int32
    <2>2. CASE Udp!Tick
      BY <2>2 DEF Udp!Tick, Udp!Int32
    <2>3. CASE UNCHANGED <<now, lastData, lastTime>>
      BY <2>3 DEF Udp!Int32
    <2> QED
      BY <1>2, <2>1, <2>2, <2>3, UdpSteps DEF Udp!ClearRemote, Udp!clock
  <1> QED
    BY <1>1, <1>2, Steps, TcpLeavesPeers DEF StepOf

\* A peer that sent data in time is alive, on both sides of the wrap around of an
\* int32_t clock and for any limit (udp_connection.cpp:99-103).
THEOREM HeardIsAlive ==
  ASSUME Half = 2147483648
  PROVE  ManualSpec => []AliveWhileHeard
  <1>1. ManualInit => ClockInv
    BY UdpAssumption DEF ManualInit, Udp!Init, ClockInv, Udp!ConstantsAssumption
  <1>2. ClockInv /\ [ManualNext]_allVars => ClockInv'
    BY KeepsClock
  <1>3. ClockInv => AliveWhileHeard
    <2> SUFFICES ASSUME ClockInv, lastTime # -1, now - lastTime <= AliveFor
                 PROVE  Udp!Int32(Udp!Int32(now) - Udp!Int32(lastTime)) <= AliveFor
      BY DEF ClockInv, AliveWhileHeard, Udp!AliveWhileHeard, Udp!threadsafe_is_alive,
             Udp!Elapsed
    <2>1. Udp!Int32(Udp!Int32(now) - Udp!Int32(lastTime)) <= now - lastTime
      BY TruncatedDifference DEF ClockInv
    <2>2. Udp!Int32(Udp!Int32(now) - Udp!Int32(lastTime)) \in Int
      BY DEF Udp!Int32, ClockInv
    <2> QED
      BY <2>1, <2>2, ConstantsAssumption DEF ClockInv, ConstantsAssumption
  <1> QED
    BY <1>1, <1>2, <1>3, PTL DEF ManualSpec
=============================================================================
