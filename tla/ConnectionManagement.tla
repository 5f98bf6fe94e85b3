------------------------ MODULE ConnectionManagement ------------------------
(***************************************************************************)
(* The connections of MavlinkTelemetry (telemetry/MavlinkTelemetry.cpp):   *)
(* start, perform_connection_management on the heartbeat thread,           *)
(* sendMessage, and terminate on the UI thread.                            *)
(*                                                                         *)
(* A connection is UDPConnection or TCPConnection, seen from outside: its  *)
(* receive thread exists or not, it had data lately or not, and its        *)
(* message handler, which may send, is running or not.  A pass of the      *)
(* management is a sequence of calls; the UI thread, the senders and the   *)
(* handlers come in between.                                               *)
(***************************************************************************)
EXTENDS Naturals, Sequences

CONSTANTS
    Ips,           \* addresses for the manual TCP connection
    Start,         \* the address in the settings
    MaxChanges     \* bound: how often the user changes mode or address

ASSUME ConstantsAssumption == Start \in Ips /\ MaxChanges \in Nat

Conns == {"udp", "wifi", "eth", "custom"}
Modes == {"auto", "udp", "tcp"}

VARIABLES
    localOnly,     \* is_localhost_only_usage(), which never changes
    mode,          \* m_connection_mode
    ip,            \* m_connction_manual_tcp_ip
    userIp,        \* the copy of it a pass works with
    customIp,      \* m_tcp_connection_custom->m_remote_ip
    exists,        \* the connections whose unique_ptr is set
    looping,       \* those whose receive thread exists
    alive,         \* those with data in the last three seconds
    handling,      \* those whose receive thread is in process_mavlink_message
    pass,          \* the calls left of the current pass
    heartbeat,     \* the heartbeat thread: "sleeps", "manages" or "ended"
    term,          \* how far terminate is
    changes,       \* how often the user changed something
    sent,          \* a call of sendMessage: returned, connection, sent out
    crashed        \* a connection was used that is destroyed

user == <<localOnly, mode, ip, changes>>
conns == <<customIp, exists, looping>>
vars == <<user, userIp, conns, alive, handling, pass, heartbeat, term, sent, crashed>>

Call(op, c) == [op |-> op, conn |-> c]

\* start
Init ==
    /\ localOnly \in BOOLEAN
    /\ mode \in Modes /\ ip = Start /\ userIp = Start /\ changes = 0
    /\ customIp = Start /\ exists = Conns /\ looping = {"udp"}
    /\ alive = {} /\ handling = {}
    /\ pass = <<>> /\ heartbeat = "sleeps"
    /\ term = "no"
    /\ sent = [returned |-> FALSE, conn |-> "none", out |-> FALSE]
    /\ crashed = FALSE

-----------------------------------------------------------------------------
(* The heartbeat thread                                                    *)

\* Fault: the manual connection is left running.
AutoLocalKeepsCustom == <<Call("stop", "eth"), Call("stop", "wifi"), Call("start", "udp")>>
AutoLocal == <<Call("stop", "custom"), Call("stop", "eth"), Call("stop", "wifi"),
               Call("start", "udp")>>
Auto == <<Call("stop", "custom"), Call("start", "udp"), Call("choose", "udp")>>
ExplicitUdp == <<Call("stop", "wifi"), Call("stop", "eth"), Call("stop", "custom"),
                 Call("start", "udp")>>
ExplicitTcp == <<Call("stop", "wifi"), Call("stop", "eth"), Call("stop", "udp"),
                 Call("read_ip", "custom"), Call("start", "custom")>>

\* The last part of an automatic pass: "Prefer UDP if possible".
UdpOnly == <<Call("stop", "wifi"), Call("stop", "eth")>>
\* Fault: the hotspots are tried one after the other.
OneHotspot == <<Call("start", "wifi")>>
Hotspots == <<Call("start", "wifi"), Call("start", "eth")>>
Choose == IF "udp" \in alive THEN UdpOnly ELSE Hotspots

\* The manual connection gets a new address.
Retarget == <<Call("stop", "custom"), Call("set_remote", "custom")>>

\* perform_connection_management reads the mode, after the sleep.
BeginPass ==
    /\ heartbeat = "sleeps" /\ heartbeat' = "manages"
    /\ pass' = CASE mode = "auto" /\ localOnly  -> AutoLocal
                 [] mode = "auto" /\ ~localOnly -> Auto
                 [] mode = "udp" -> ExplicitUdp
                 [] mode = "tcp" -> ExplicitTcp
    /\ UNCHANGED <<user, userIp, conns, alive, handling, term, sent, crashed>>

\* One call of the pass.  A stop joins the receive thread.
PassStep ==
    /\ heartbeat = "manages" /\ pass # <<>>
    /\ LET c == Head(pass) IN
       \/ /\ c.op = "stop" /\ c.conn \notin handling
          /\ looping' = looping \ {c.conn} /\ pass' = Tail(pass)
          /\ UNCHANGED <<customIp, userIp>>
       \/ /\ c.op = "start"
          /\ looping' = looping \cup {c.conn} /\ pass' = Tail(pass)
          /\ UNCHANGED <<customIp, userIp>>
       \/ /\ c.op = "choose"
          /\ pass' = Choose
          /\ UNCHANGED <<looping, customIp, userIp>>
       \/ /\ c.op = "read_ip"
          /\ userIp' = ip
          /\ pass' = (IF customIp # ip THEN Retarget ELSE <<>>) \o Tail(pass)
          /\ UNCHANGED <<looping, customIp>>
       \/ /\ c.op = "set_remote"
          /\ customIp' = userIp /\ pass' = Tail(pass)
          /\ UNCHANGED <<looping, userIp>>
    /\ UNCHANGED <<user, exists, alive, handling, heartbeat, term, sent, crashed>>

\* Fault: the loop does not look at its flag.
HeartbeatRunsForever == TRUE
\* while(m_heartbeat_thread_run)
HeartbeatRuns == term = "no"

EndPass ==
    /\ heartbeat = "manages" /\ pass = <<>>
    /\ heartbeat' = IF HeartbeatRuns THEN "sleeps" ELSE "ended"
    /\ UNCHANGED <<user, userIp, conns, alive, handling, pass, term, sent, crashed>>

-----------------------------------------------------------------------------
(* Senders and receivers                                                   *)

\* "Prefer udp"
Preference == <<"udp", "wifi", "eth", "custom">>

\* The connection sendMessage uses.
Route ==
    LET usable == {i \in 1..4 : Preference[i] \in alive}
    IN  IF usable = {} THEN "none"
        ELSE Preference[CHOOSE i \in usable : \A j \in usable : i <= j]

\* sendMessage of the UI thread, before terminate.  A connection that was stopped
\* sends nothing; sendMessage returns true in every case.  One call is looked at.
SendMessage ==
    /\ term = "no" /\ ~sent.returned
    /\ sent' = [returned |-> TRUE, conn |-> Route, out |-> Route \in looping]
    /\ UNCHANGED <<user, userIp, conns, alive, handling, pass, heartbeat, term, crashed>>

\* A receive thread gets a message and enters process_mavlink_message, which a
\* mutex makes exclusive.
Deliver(c) ==
    /\ c \in looping /\ handling = {}
    /\ handling' = {c} /\ alive' = alive \cup {c}
    /\ UNCHANGED <<user, userIp, conns, pass, heartbeat, term, sent, crashed>>

\* The handler ends, with or without sending something.
HandlerEnds(c) ==
    /\ c \in handling /\ handling' = {}
    /\ UNCHANGED <<user, userIp, conns, alive, pass, heartbeat, term, sent, crashed>>

HandlerSends(c) ==
    /\ c \in handling /\ handling' = {}
    /\ crashed' = ("udp" \notin exists)
    /\ UNCHANGED <<user, userIp, conns, alive, pass, heartbeat, term, sent>>

\* Three seconds without data, whether the connection runs or not.
AliveEnds(c) ==
    /\ c \in alive /\ c \notin handling /\ alive' = alive \ {c}
    /\ UNCHANGED <<user, userIp, conns, handling, pass, heartbeat, term, sent, crashed>>

-----------------------------------------------------------------------------
(* The UI thread                                                           *)

\* change_telemetry_connection_mode, change_manual_tcp_ip
ChangeMode(m) ==
    /\ term = "no" /\ changes < MaxChanges /\ changes' = changes + 1
    /\ mode' = m
    /\ UNCHANGED <<localOnly, ip, userIp, conns, alive, handling, pass, heartbeat, term, sent, crashed>>

ChangeIp(a) ==
    /\ term = "no" /\ changes < MaxChanges /\ changes' = changes + 1
    /\ ip' = a
    /\ UNCHANGED <<localOnly, mode, userIp, conns, alive, handling, pass, heartbeat, term, sent, crashed>>

\* terminate: the heartbeat thread is joined, CmdSender and XParam are terminated,
\* then the connections are destroyed one after the other.
Order == <<"udp", "wifi", "eth", "custom">>

TerminateBegins ==
    /\ term = "no" /\ term' = "join"
    /\ UNCHANGED <<user, userIp, conns, alive, handling, pass, heartbeat, sent, crashed>>

TerminateJoined ==
    /\ term = "join" /\ heartbeat = "ended" /\ term' = "udp"
    /\ UNCHANGED <<user, userIp, conns, alive, handling, pass, heartbeat, sent, crashed>>

\* The unique_ptr is reset before the connection is destroyed ...
DestroyBegins(i) ==
    /\ term = Order[i] /\ Order[i] \in exists
    /\ exists' = exists \ {Order[i]}
    /\ UNCHANGED <<user, userIp, customIp, looping, alive, handling, pass, heartbeat, term,
                   sent, crashed>>

\* ... which joins its receive thread, if there is one.
DestroyEnds(i) ==
    /\ term = Order[i] /\ Order[i] \notin exists
    /\ Order[i] \notin handling
    /\ looping' = looping \ {Order[i]}
    /\ term' = IF i < 4 THEN Order[i + 1] ELSE "done"
    /\ UNCHANGED <<user, userIp, customIp, exists, alive, handling, pass, heartbeat, sent,
                   crashed>>

Next ==
    /\ ~crashed
    /\ \/ BeginPass \/ PassStep \/ EndPass
       \/ SendMessage
       \/ \E c \in Conns : Deliver(c) \/ HandlerEnds(c) \/ HandlerSends(c) \/ AliveEnds(c)
       \/ \E m \in Modes : ChangeMode(m)
       \/ \E a \in Ips : ChangeIp(a)
       \/ TerminateBegins \/ TerminateJoined
       \/ \E i \in 1..4 : DestroyBegins(i) \/ DestroyEnds(i)

Spec == Init /\ [][Next]_vars

\* The heartbeat thread runs, handlers end, terminate goes on.
Fairness ==
    /\ WF_vars(~crashed /\ (BeginPass \/ EndPass)) /\ SF_vars(~crashed /\ PassStep)
    /\ WF_vars(~crashed /\ \E c \in Conns : HandlerEnds(c) \/ HandlerSends(c))
    /\ WF_vars(~crashed /\ TerminateJoined)
    /\ WF_vars(~crashed /\ \E i \in 1..4 : DestroyBegins(i))
    /\ SF_vars(~crashed /\ \E i \in 1..4 : DestroyEnds(i))

FairSpec == Spec /\ Fairness

-----------------------------------------------------------------------------
(* Properties                                                              *)

TypeOK ==
    /\ localOnly \in BOOLEAN /\ mode \in Modes
    /\ {ip, userIp, customIp} \subseteq Ips /\ changes \in 0..MaxChanges
    /\ exists \subseteq Conns /\ looping \subseteq Conns
    /\ alive \subseteq Conns /\ handling \subseteq Conns
    /\ pass \in Seq([op : {"stop", "start", "choose", "read_ip", "set_remote"}, conn : Conns])
    /\ heartbeat \in {"sleeps", "manages", "ended"}
    /\ term \in {"no", "join", "done"} \cup Conns
    /\ sent \in [returned : BOOLEAN, conn : Conns \cup {"none"}, out : BOOLEAN]
    /\ crashed \in BOOLEAN

\* What should run in a mode.
Wanted ==
    CASE mode = "udp" \/ (mode = "auto" /\ localOnly) -> looping = {"udp"}
      [] mode = "tcp" -> looping = {"custom"} /\ customIp = ip
      [] mode = "auto" /\ ~localOnly -> "udp" \in looping /\ "custom" \notin looping

\* Whatever the user changed and when, the connections follow in the end: the
\* passes that worked with an old mode or address are made up for
\* (MavlinkTelemetry.cpp:321-401).
ModeIsFollowed == <>[]Wanted \/ <>(term # "no") \/ <>crashed

\* "Prefer UDP if possible" (MavlinkTelemetry.cpp:348): with UDP alive for good,
\* nothing else runs; without it, both hotspots are tried.
AutoChooses ==
    ~localOnly =>
      /\ <>[](mode = "auto" /\ term = "no" /\ "udp" \in alive) => <>[](looping = {"udp"})
      /\ <>[](mode = "auto" /\ term = "no" /\ "udp" \notin alive)
             => <>[](looping = {"udp", "wifi", "eth"})

\* terminate, which joins the heartbeat thread in the middle of a pass and every
\* receive thread in the middle of a message, comes to its end, or finds the crash
\* below (MavlinkTelemetry.cpp:46-61).
TerminateEnds == (term # "no") ~> (term = "done" \/ crashed)

\* "first stop any incoming telemetry" (MavlinkTelemetry.cpp:48): no handler of
\* incoming telemetry finds the connection it sends with destroyed.  Does not hold:
\* the connections are destroyed last, and one after the other.
HandlersFindTheConnection == ~crashed

\* "true on success (... the message was sent out via the lossy connection)"
\* (MavlinkTelemetry.h:48).  Does not hold without a connection that is alive.
TrueMeansSentOut == sent.returned => sent.out
=============================================================================
