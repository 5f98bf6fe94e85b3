------------------------- MODULE ManualConnections -------------------------
(***************************************************************************)
(* The UDP connection and the manual TCP connection of one process.  The   *)
(* heartbeat thread starts one when it has stopped the other               *)
(* (telemetry/MavlinkTelemetry.cpp:369-401); both take their descriptors   *)
(* from the same table.                                                    *)
(*                                                                         *)
(* TCPConnection is extended, UDPConnection instantiated with variables of *)
(* its own.  owner says which of them opened a descriptor (ghost).         *)
(***************************************************************************)
EXTENDS TCPConnection

CONSTANTS Remotes, NoRemote, StartTime, MaxTime

VARIABLES
    ukeep, usocket, urx, ustop, ustarts,      \* UDPConnection: its threads
    remote, heard,                            \* its peers
    sending, copied,                        \* its sender
    port,                                     \* the local port
    now, lastData, lastTime,                  \* its clock
    owner                                     \* [Fds -> {"tcp", "udp"}]

udpOnly == <<ukeep, usocket, urx, ustop, ustarts, remote, heard, sending, copied, now,
             lastData, lastTime>>
tcpOnly == <<keep, socket, rx, stop, up, elapsed, starts>>
allVars == <<tcpOnly, live, udpOnly, port, fds, owner>>

Udp == INSTANCE UDPConnection WITH
    keep <- ukeep, socket <- usocket, rx <- urx, stop <- ustop, starts <- ustarts

ASSUME UdpAssumption == Udp!ConstantsAssumption

ManualInit == Init /\ Udp!Init /\ owner \in [Fds -> {"tcp"}]

\* A step of one connection: what it opens is its own, and whoever closes a
\* descriptor ends what it was used for.
StepOf(c, step) ==
    /\ step
    /\ owner' = [f \in Fds |-> IF fds[f] = "free" /\ fds'[f] # "free" THEN c ELSE owner[f]]

TcpStep ==
    /\ port' = IF port \in Fds /\ fds'[port] = "free" THEN NoFd ELSE port
    /\ UNCHANGED udpOnly

UdpStep ==
    /\ live' = {f \in live : fds'[f] # "free"}
    /\ UNCHANGED tcpOnly

\* Fault: the receive thread of the other connection is not waited for; this is
\* what an automatic pass does.
MayStartAtOnce(otherRx, otherStop) == TRUE
\* The one thread that manages the connections stops the other one first, which
\* joins its receive thread.
MayStart(otherRx, otherStop) == otherRx = "none" /\ otherStop = "no"

ManualNext ==
    \/ StepOf("tcp", StartLooping /\ MayStart(urx, ustop) /\ TcpStep)
    \/ StepOf("tcp", Stops /\ TcpStep)
    \/ StepOf("tcp", Receives /\ TcpStep)
    \/ StepOf("tcp", (ServerToggles \/ Tick) /\ TcpStep)
    \/ StepOf("udp", Udp!StartLooping /\ MayStart(rx, stop) /\ UdpStep)
    \/ StepOf("udp", Udp!Stops /\ UdpStep)
    \/ StepOf("udp", (Udp!Receives \/ \E r \in Remotes : Udp!ReceiveData(r)) /\ UdpStep)
    \/ StepOf("udp", (Udp!SendCopies \/ Udp!SendTo) /\ UdpStep)
    \/ StepOf("udp", (Udp!PortTaken \/ Udp!Tick) /\ UdpStep)

ManualSpec == ManualInit /\ [][ManualNext]_allVars

ManualFairSpec == ManualSpec /\ Fairness /\ Udp!Fairness

-----------------------------------------------------------------------------
(* Properties                                                              *)

\* A descriptor is shut down and closed only by the connection that opened it,
\* although both keep numbers of descriptors they have closed, a stop and the
\* receive thread close the same one twice, and the numbers are used again
\* (udp_connection.cpp:55-63, tcp_connection.cpp:189-202, 278).
OwnDescriptors ==
    [][\A f \in Fds : fds[f] # "free" /\ fds'[f] # fds[f] =>
          IF owner[f] = "udp" THEN UNCHANGED tcpOnly ELSE UNCHANGED udpOnly]_allVars

\* Whenever sendto() comes after the copy of the remote: a message that is copied and
\* sent in the same start goes to a peer that supplied data since the socket was opened,
\* and on this very socket if no stop has begun meanwhile (udp_connection.cpp:74, 85, 226).
SentToAPeer == Udp!SentToAPeer

\* A peer that sent data in time is alive, on both sides of the wrap around of
\* the clock (udp_connection.cpp:99-103).
AliveWhileHeard == Udp!AliveWhileHeard

\* "This should interrupt a recv/recvfrom call" (udp_connection.cpp:59): wherever
\* the receive thread is, the stop of either connection comes to its end.
BothStopsReturn == StopReturns /\ Udp!StopReturns
=============================================================================
