--------------------------- MODULE UDPConnection ---------------------------
(***************************************************************************)
(* UDPConnection (telemetry/connection/udp_connection.cpp): listens on a   *)
(* local port and sends to whoever supplied data.                          *)
(*                                                                         *)
(* The connection management starts and stops it, loop_receive runs on its *)
(* own thread, send_message on any thread: it writes nothing the others    *)
(* read, so one sender stands for all.  The descriptors are those the      *)
(* connection opens; another program may hold the port.  The clock is an   *)
(* int32_t of 2 * Half values.                                             *)
(***************************************************************************)
EXTENDS Integers, Descriptors

CONSTANTS
    Remotes,       \* the peers that may send data
    NoRemote,      \* std::nullopt
    MaxStarts,     \* bound: calls of start_looping
    AliveFor,      \* limit of threadsafe_is_alive (3 s)
    Half,          \* 2^31, scaled
    StartTime,     \* the clock, which counts from boot, at the start
    MaxTime        \* bound: the clock stops here

\* Assumed by the module that gives the connection its constants.
ConstantsAssumption ==
    /\ Fds \subseteq Nat \ {0} /\ NoRemote \notin Remotes
    /\ MaxStarts \in Nat /\ AliveFor \in Nat /\ Half \in Nat \ {0}
    /\ MaxTime \in Nat /\ StartTime \in 0..MaxTime

Elsewhere == -2    \* another program

VARIABLES
    keep,          \* m_keep_receiving
    socket,        \* m_socket_fd
    remote,        \* m_curr_remote
    rx,            \* where the receive thread is, "none" without one
    stop,          \* where stop_looping is, "no" outside
    port,          \* the descriptor bound to the port, NoFd, or Elsewhere
    starts,        \* calls of start_looping
    now, lastData, \* the clock and m_last_data_ms
    sending,       \* the copy of the remote send_message has made, or NoRemote
    copied,        \* it was made since the last start (ghost)
    heard,         \* the peers that sent data since the socket was opened (ghost)
    lastTime       \* when, or -1 (ghost)

thread == <<keep, socket, rx, stop, fds, port, starts>>
clock  == <<now, lastData, lastTime>>
sender == <<sending, copied>>
peers  == <<remote, heard, sender>>
vars == <<thread, clock, peers>>

Init ==
    /\ keep = FALSE /\ socket = NoFd /\ remote = NoRemote
    /\ rx = "none" /\ stop = "no"
    /\ fds = [f \in Fds |-> "free"] /\ port = NoFd
    /\ starts = 0
    /\ now = StartTime /\ lastData = 0 /\ lastTime = -1
    /\ heard = {} /\ sending = NoRemote /\ copied = FALSE

IsSocket(f) == f \in Fds /\ fds[f] \in {"dgram", "dgram_shut"}
IsBound == socket \in Fds /\ fds[socket] = "dgram" /\ port = socket

\* close() of a descriptor gives its port back.
Close(f) ==
    /\ Release(f)
    /\ port' = IF port = f /\ f # NoFd THEN NoFd ELSE port

-----------------------------------------------------------------------------
(* start_looping and stop_looping                                          *)

StartLooping ==
    /\ rx = "none" /\ stop = "no" /\ starts < MaxStarts
    /\ keep' = TRUE /\ rx' = "loop" /\ starts' = starts + 1 /\ copied' = FALSE
    /\ UNCHANGED <<socket, stop, fds, port, clock, remote, heard, sending>>

StopLooping ==
    /\ rx # "none" /\ stop = "no"
    /\ keep' = FALSE /\ stop' = "shutdown"
    /\ UNCHANGED <<socket, rx, fds, port, starts, clock, peers>>

StopShutdown ==
    /\ stop = "shutdown" /\ stop' = "close"
    /\ Shutdown(socket)
    /\ UNCHANGED <<keep, socket, rx, port, starts, clock, peers>>

StopClose ==
    /\ stop = "close" /\ stop' = "join"
    /\ Close(socket)
    /\ UNCHANGED <<keep, socket, rx, starts, clock, peers>>

StopJoin ==
    /\ stop = "join" /\ rx = "ended"
    /\ stop' = "no" /\ rx' = "none"
    /\ UNCHANGED <<keep, socket, fds, port, starts, clock, peers>>

-----------------------------------------------------------------------------
(* loop_receive                                                            *)

\* Fault: the outer loop never ends.
AgainForever == TRUE
\* while(m_keep_receiving) of the outer loop
Again == keep

LoopReceive ==
    /\ rx = "loop"
    /\ rx' = IF Again THEN "socket" ELSE "ended"
    /\ UNCHANGED <<keep, socket, stop, fds, port, starts, clock, peers>>

\* setup_socket: socket() returns the lowest descriptor that is free.
SetupSocket ==
    /\ rx = "socket"
    /\ \/ \E f \in Fds :
            /\ IsLowest(f) /\ Open(f, "dgram")
            /\ socket' = f /\ rx' = "bind"
       \/ /\ NoneFree
          /\ socket' = NoFd /\ rx' = "clear" /\ UNCHANGED fds
    /\ UNCHANGED <<keep, stop, port, starts, clock, peers>>

\* ... bind() fails if the port is taken or the descriptor closed meanwhile; the
\* descriptor is closed then and m_socket_fd keeps its number.
BindSocket ==
    /\ rx = "bind"
    /\ \/ /\ port = NoFd /\ IsSocket(socket)
          /\ port' = socket /\ rx' = "test"
          /\ UNCHANGED fds
       \/ /\ port # NoFd \/ ~IsSocket(socket)
          /\ Close(socket) /\ rx' = "clear"
    /\ heard' = {}
    /\ UNCHANGED <<keep, socket, stop, starts, clock, remote, sender>>

\* while(m_keep_receiving) of the inner loop
TestKeep ==
    /\ rx = "test"
    /\ rx' = IF keep THEN "recv" ELSE "clear"
    /\ UNCHANGED <<keep, socket, stop, fds, port, starts, clock, peers>>

\* set_remote: the first peer is remembered; when another one sends data, the old
\* value is assigned to itself.
set_remote(r) == IF remote = NoRemote THEN r ELSE remote

\* The value an int32_t takes for x.
Int32(x) == ((x + Half) % (2 * Half)) - Half

\* recvfrom() returns data: the remote and the time are stored, the messages in
\* it processed.
ReceiveData(r) ==
    /\ rx = "recv" /\ IsBound
    /\ remote' = set_remote(r)
    /\ lastData' = Int32(now) /\ lastTime' = now
    /\ heard' = heard \cup {r}
    /\ rx' = "test"
    /\ UNCHANGED <<keep, socket, stop, fds, port, starts, now, sender>>

\* recvfrom() on a descriptor that was shut down or closed returns at once.
ReceiveNothing ==
    /\ rx = "recv" /\ ~IsBound
    /\ rx' = "test"
    /\ UNCHANGED <<keep, socket, stop, fds, port, starts, clock, peers>>

\* Fault: the remote outlives the socket.
ClearNothing ==
    /\ rx = "clear" /\ rx' = "loop"
    /\ UNCHANGED <<keep, socket, stop, fds, port, starts, clock, peers>>
\* connect_once ends with clear_remote; the socket is not closed here.
ClearRemote ==
    /\ rx = "clear" /\ rx' = "loop"
    /\ remote' = NoRemote
    /\ UNCHANGED <<keep, socket, stop, fds, port, starts, clock, heard, sender>>

-----------------------------------------------------------------------------
(* send_message                                                            *)

\* get_current_remote copies the remote under its mutex; without one nothing is sent.
SendCopies ==
    /\ sending = NoRemote /\ remote # NoRemote
    /\ sending' = remote /\ copied' = TRUE
    /\ UNCHANGED <<thread, clock, remote, heard>>

\* sendto() the copy, on the descriptor m_socket_fd has by now.
SendTo ==
    /\ sending # NoRemote
    /\ sending' = NoRemote /\ copied' = FALSE
    /\ UNCHANGED <<thread, clock, remote, heard>>

-----------------------------------------------------------------------------
(* The rest                                                                *)

\* Another program takes or releases the port.
PortTaken ==
    /\ port \in {NoFd, Elsewhere}
    /\ port' = IF port = NoFd THEN Elsewhere ELSE NoFd
    /\ UNCHANGED <<keep, socket, rx, stop, fds, starts, clock, peers>>

Tick ==
    /\ now < MaxTime /\ now' = now + 1
    /\ UNCHANGED <<lastData, lastTime, thread, peers>>

\* Fault: the unsigned difference.
ElapsedUnsigned == (Int32(now) - lastData) % (4 * Half)
\* The difference of two int32_t.
Elapsed == Int32(Int32(now) - lastData)
threadsafe_is_alive == Elapsed <= AliveFor

Stops == StopLooping \/ StopShutdown \/ StopClose \/ StopJoin
Receives ==
    \/ LoopReceive \/ SetupSocket \/ BindSocket \/ TestKeep \/ ReceiveNothing
    \/ ClearRemote

Next ==
    \/ StartLooping \/ Stops \/ Receives
    \/ \E r \in Remotes : ReceiveData(r)
    \/ SendCopies \/ SendTo
    \/ PortTaken \/ Tick

Spec == Init /\ [][Next]_vars

\* Both threads run; nobody owes data, time, or the port.
Fairness ==
    /\ WF_vars(StopShutdown) /\ WF_vars(StopClose) /\ WF_vars(StopJoin)
    /\ WF_vars(Receives)

FairSpec == Spec /\ Fairness

-----------------------------------------------------------------------------
(* Properties                                                              *)

TypeOK ==
    /\ keep \in BOOLEAN /\ socket \in Fds \cup {NoFd}
    /\ remote \in Remotes \cup {NoRemote}
    /\ heard \subseteq Remotes
    /\ sending \in Remotes \cup {NoRemote} /\ copied \in BOOLEAN
    /\ rx \in {"none", "loop", "socket", "bind", "test", "recv", "clear", "ended"}
    /\ stop \in {"no", "shutdown", "close", "join"}
    /\ fds \in [Fds -> States]
    /\ port \in Fds \cup {NoFd, Elsewhere} /\ starts \in 0..MaxStarts
    /\ now \in 0..MaxTime /\ lastTime \in -1..MaxTime /\ lastData \in (-Half)..(Half - 1)

\* Whenever sendto() comes after the copy: a message that is copied and sent in the same
\* start goes to a peer that supplied data since the socket was opened, not to one of an
\* earlier socket, and on this very socket if no stop has begun meanwhile
\* (udp_connection.cpp:74, 85, 226, "set the remote back to unknown").
SentToAPeer == copied => sending \in heard /\ (keep => IsBound)

\* The same for any copy.  Does not hold: a stop and a start do not wait for the sender.
AlwaysSentToAPeer == sending # NoRemote => sending \in heard /\ IsBound

\* "This should interrupt a recv/recvfrom call" (udp_connection.cpp:59): wherever
\* the receive thread is, stop_looping comes to its end.
StopReturns == (stop # "no") ~> (stop = "no")

\* A peer that sent data in time is alive, on both sides of the wrap around of
\* the clock (udp_connection.cpp:99-103).
AliveWhileHeard == lastTime # -1 /\ now - lastTime <= AliveFor => threadsafe_is_alive

\* "try again in X seconds" (udp_connection.cpp:136): as long as the connection
\* runs and nobody else has the port, it listens in the end.
\* Does not hold: a socket that is bound during a stop is never closed.
Listens ==
    [](rx = "loop" /\ keep => <>(rx = "recv" \/ ~keep \/ port = Elsewhere))

\* "Returns true if the last received message is not older than X seconds"
\* (udp_connection.h:32).  Does not hold once the truncated clock is negative.
AliveOnlyWhenHeard == threadsafe_is_alive => lastTime # -1 /\ now - lastTime <= AliveFor
=============================================================================
