--------------------------- MODULE TCPConnection ---------------------------
(***************************************************************************)
(* TCPConnection (telemetry/connection/tcp_connection.cpp): a client that  *)
(* connects to an OpenHD ground unit and reconnects when it is silent.     *)
(*                                                                         *)
(* The connection management starts and stops it; loop_connect_receive     *)
(* runs on its own thread.  The socket is not blocking: recvfrom always    *)
(* returns.  Time is what passed since m_last_data_ms was stored; Wrapped  *)
(* says that the clock, stored in an int32_t, has left its range.          *)
(***************************************************************************)
EXTENDS Integers, Descriptors

CONSTANTS
    MaxStarts,     \* bound: calls of start_looping
    AliveFor,      \* silence after which it disconnects (3 s)
    Wrapped,       \* the clock is past 2^31 ms
    Half           \* 2^31, scaled

ASSUME ConstantsAssumption ==
    /\ Fds \subseteq Nat \ {0} /\ MaxStarts \in Nat
    /\ AliveFor \in Nat /\ Half \in Nat /\ AliveFor < Half /\ Wrapped \in BOOLEAN

VARIABLES
    keep,          \* m_keep_receiving
    socket,        \* m_socket_fd
    rx,            \* where the receive thread is, "none" without one
    stop,          \* where stop_looping is, "no" outside
    live,          \* the descriptors whose peer is there
    up,            \* the server is available
    elapsed,       \* time since m_last_data_ms, up to AliveFor + 1
    starts         \* calls of start_looping

vars == <<keep, socket, rx, stop, fds, live, up, elapsed, starts>>

Init ==
    /\ keep = FALSE /\ socket = NoFd /\ rx = "none" /\ stop = "no"
    /\ fds = [f \in Fds |-> "free"] /\ live = {}
    /\ up = FALSE /\ elapsed = AliveFor + 1 /\ starts = 0

Close(f) == Release(f) /\ live' = live \ {f}

-----------------------------------------------------------------------------
(* start_looping and stop_looping                                          *)

StartLooping ==
    /\ rx = "none" /\ stop = "no" /\ starts < MaxStarts
    /\ keep' = TRUE /\ rx' = "loop" /\ starts' = starts + 1
    /\ UNCHANGED <<socket, stop, fds, live, up, elapsed>>

StopLooping ==
    /\ rx # "none" /\ stop = "no"
    /\ keep' = FALSE /\ stop' = "shutdown"
    /\ UNCHANGED <<socket, rx, fds, live, up, elapsed, starts>>

StopShutdown ==
    /\ stop = "shutdown" /\ stop' = "close"
    /\ Shutdown(socket)
    /\ UNCHANGED <<keep, socket, rx, live, up, elapsed, starts>>

StopClose ==
    /\ stop = "close" /\ stop' = "join"
    /\ Close(socket)
    /\ UNCHANGED <<keep, socket, rx, up, elapsed, starts>>

StopJoin ==
    /\ stop = "join" /\ rx = "ended"
    /\ stop' = "no" /\ rx' = "none"
    /\ UNCHANGED <<keep, socket, fds, live, up, elapsed, starts>>

-----------------------------------------------------------------------------
(* loop_connect_receive                                                    *)

\* while (m_keep_receiving)
Again == keep

LoopConnectReceive ==
    /\ rx = "loop"
    /\ rx' = IF Again THEN "connect" ELSE "ended"
    /\ UNCHANGED <<keep, socket, stop, fds, live, up, elapsed, starts>>

\* tcp_socket_try_connect closes its descriptor again unless it is connected;
\* m_socket_fd and m_last_data_ms are assigned after it.
TryConnect ==
    /\ rx = "connect"
    /\ \/ /\ up
          /\ \E f \in Fds :
                /\ IsLowest(f) /\ Open(f, "stream")
                /\ socket' = f
                /\ live' = live \cup {f}
          /\ rx' = "test" /\ elapsed' = 0
       \/ /\ ~up \/ NoneFree
          /\ socket' = NoFd /\ rx' = "wait"
          /\ UNCHANGED <<fds, live, elapsed>>
    /\ UNCHANGED <<keep, stop, up, starts>>

\* Three seconds, or less when it is stopped.
Wait ==
    /\ rx = "wait" /\ rx' = "loop"
    /\ UNCHANGED <<keep, socket, stop, fds, live, up, elapsed, starts>>

\* Fault: silence is not noticed.
NeverSilent == FALSE
\* The time is subtracted as a uint64_t from one that was stored as an int32_t:
\* past 2^31 ms the difference is 2^32 too large.
Silent == elapsed + (IF Wrapped THEN 2 * Half ELSE 0) > AliveFor

\* The head of the loop of receive_until_stopped.
TestKeep ==
    /\ rx = "test"
    /\ rx' = IF keep /\ ~Silent THEN "recv" ELSE "close"
    /\ UNCHANGED <<keep, socket, stop, fds, live, up, elapsed, starts>>

\* recvfrom returns data, or nothing.
ReceiveData ==
    /\ rx = "recv" /\ socket \in live /\ fds[socket] = "stream"
    /\ rx' = "test" /\ elapsed' = 0
    /\ UNCHANGED <<keep, socket, stop, fds, live, up, starts>>

ReceiveNothing ==
    /\ rx = "recv" /\ rx' = "test"
    /\ UNCHANGED <<keep, socket, stop, fds, live, up, elapsed, starts>>

\* Fault: the descriptor is left open.
CloseNothing ==
    /\ rx = "close" /\ rx' = "loop" /\ socket' = NoFd
    /\ UNCHANGED <<keep, stop, fds, live, up, elapsed, starts>>
CloseSocket ==
    /\ rx = "close" /\ rx' = "loop"
    /\ Close(socket)
    /\ socket' = NoFd
    /\ UNCHANGED <<keep, stop, up, elapsed, starts>>

-----------------------------------------------------------------------------
(* The server and time                                                     *)

\* The server disappears, and its connections with it, or comes back.
ServerToggles ==
    /\ up' = ~up
    /\ live' = IF up THEN {} ELSE live
    /\ UNCHANGED <<keep, socket, rx, stop, fds, elapsed, starts>>

Connected == rx \in {"test", "recv"} /\ socket \in live /\ fds[socket] = "stream"

\* A server that is there sends something before AliveFor has passed.
Tick ==
    /\ elapsed <= AliveFor /\ (Connected => elapsed < AliveFor)
    /\ elapsed' = elapsed + 1
    /\ UNCHANGED <<keep, socket, rx, stop, fds, live, up, starts>>

Stops == StopLooping \/ StopShutdown \/ StopClose \/ StopJoin
Receives ==
    \/ LoopConnectReceive \/ TryConnect \/ Wait \/ TestKeep \/ ReceiveData
    \/ ReceiveNothing \/ CloseSocket

Next == StartLooping \/ Stops \/ Receives \/ ServerToggles \/ Tick

Spec == Init /\ [][Next]_vars

\* Both threads run and time passes; the server owes nothing.
Fairness ==
    /\ WF_vars(StopShutdown) /\ WF_vars(StopClose) /\ WF_vars(StopJoin)
    /\ WF_vars(Receives) /\ WF_vars(Tick)

FairSpec == Spec /\ Fairness

-----------------------------------------------------------------------------
(* Properties                                                              *)

TypeOK ==
    /\ keep \in BOOLEAN /\ up \in BOOLEAN /\ socket \in Fds \cup {NoFd}
    /\ rx \in {"none", "loop", "connect", "wait", "test", "recv", "close", "ended"}
    /\ stop \in {"no", "shutdown", "close", "join"}
    /\ fds \in [Fds -> States] /\ live \subseteq Fds
    /\ elapsed \in 0..(AliveFor + 1) /\ starts \in 0..MaxStarts

IsConnection(f) == fds[f] \in {"stream", "stream_shut"}

\* However the stop meets the receive thread, no connection is left open: one
\* descriptor at most is open, the one in m_socket_fd, and none once it is stopped
\* (tcp_connection.cpp:189-204, 273-283).
NoLeak ==
    /\ \A f \in Fds : IsConnection(f) => f = socket
    /\ rx \in {"none", "loop", "connect", "wait", "ended"} => \A f \in Fds : ~IsConnection(f)

\* stop_looping comes to its end, wherever the receive thread is, even while it
\* connects or waits (tcp_connection.cpp:201).
StopReturns == (stop # "no") ~> (stop = "no")

\* "continously try re-connecting" (tcp_connection.h:15-16): with a server that
\* is there for good, a connection that is not stopped is there for good, too.
Reconnects == <>[](up /\ keep /\ stop = "no") => <>[]Connected

\* "If the server becomes unavailable (no message for more than X seconds)
\* disconnect" (tcp_connection.h:15): and only then, or when it is stopped.
DisconnectsWhenSilent == [][rx = "test" /\ rx' = "close" => ~keep \/ elapsed > AliveFor]_vars
=============================================================================
