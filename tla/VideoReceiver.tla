--------------------------- MODULE VideoReceiver ---------------------------
(***************************************************************************)
(* The video of the low latency parser: UDPReceiver and RTPReceiver with   *)
(* their receive thread, and the thread of AVCodecDecoder                  *)
(* (videostreaming/vscommon/udp/UDPReceiver.cpp, vscommon/rtp/             *)
(* rtpreceiver.cpp, avcodec/avcodec_decoder.cpp), on RtpDecoder.           *)
(*                                                                         *)
(* The receive thread queues frames and notices when the configuration of  *)
(* the stream changes; the decode thread takes them out, and destroys and  *)
(* re-creates the receiver.  The UI thread asks for restarts and           *)
(* terminates.  The encoder sends groups of the same units forever; the    *)
(* link loses and doubles packets, in order.                               *)
(***************************************************************************)
EXTENDS RtpDecoder

CONSTANTS
    None,
    QueueLen,          \* capacity of m_data_queue
    MaxGen             \* bound: changes of the configuration of the stream

ASSUME VideoAssumption ==
    /\ QueueLen \in Nat \ {0} /\ MaxGen \in Nat

VARIABLES
    pos, number, gen,  \* the stream: packet in its group, its sequence number,
                       \* configuration
    rx,                \* the receive thread, "none" without a receiver
    receiving,         \* m_receiving
    config,            \* m_keyframe_finder: [ConfigKinds -> configurations, None]
    config_has_changed_during_decode,
    queue,             \* m_data_queue: the configurations of its frames
    dec,               \* where the decode thread is
    fed,               \* the configuration the decoder got, None before
    request_restart, m_should_terminate,    \* flags of AVCodecDecoder
    term,              \* what terminate has still to do
    lateFrames         \* frames it got since the change was noticed (ghost)

stream == <<pos, number, gen>>
thread == <<rx, receiving>>
receiver == <<config, config_has_changed_during_decode, queue>>
flags == <<request_restart, m_should_terminate>>
vars == <<rtp, stream, thread, receiver, dec, fed, flags, term, lateFrames>>

ConfigKinds == IF IsH265 THEN {"vps", "sps", "pps"} ELSE {"sps", "pps"}
NoConfig == [k \in ConfigKinds |-> None]

\* Fault: the restart is requested before the termination.
AssignmentsSwapped == <<"request_restart", "m_should_terminate", "join">>
\* What terminate does, in order.
Assignments == <<"m_should_terminate", "request_restart", "join">>

-----------------------------------------------------------------------------
(* The encoder: parameter sets and a frame of two slices, the second one   *)
(* in three pieces                                                         *)

GroupLen == 5
Unit(type, size) == [type |-> type, size |-> size, gen |-> gen]
Whole(units) == [kind |-> "whole", seq |-> number, units |-> units, piece |-> StartCode]
Piece(kind, i) == [kind |-> kind, seq |-> number, units |-> <<>>, piece |-> <<Unit("idr", 3), i>>]

CurrentPacket ==
    CASE pos = 0 -> Whole(<<Unit("aud", 1)>> \o (IF IsH265 THEN <<Unit("vps", 1)>> ELSE <<>>)
                                               \o <<Unit("sps", 1)>>)
      [] pos = 1 -> Whole(<<Unit("pps", 1), Unit("idr", 1)>>)
      [] pos = 2 -> Piece("start", 1)
      [] pos = 3 -> Piece("middle", 2)
      [] pos = 4 -> Piece("end", 3)

\* What some encoders send in place of it: a type that is not supported.
UnsupportedPacket == [kind |-> "unsupported", seq |-> number, units |-> <<>>, piece |-> StartCode]

\* The configuration changes between groups, and then stays.
Advance ==
    /\ pos' = (pos + 1) % GroupLen
    /\ number' = (number + 1) % SeqNumbers
    /\ gen' = IF pos' = 0 /\ gen < MaxGen THEN gen + 1 ELSE gen

\* There is a packet next to each, and the frames fit into the buffer.
ASSUME SeqAssumption == SeqNumbers > 1 /\ MaxLen > 3

Init ==
    /\ RtpInit
    /\ pos = 0 /\ number = 0 /\ gen = 0
    /\ rx = "none" /\ receiving = FALSE
    /\ config = NoConfig /\ config_has_changed_during_decode = FALSE /\ queue = <<>>
    /\ dec = "while" /\ fed = None
    /\ request_restart = FALSE /\ m_should_terminate = FALSE
    /\ term = Assignments
    /\ lateFrames = 0

-----------------------------------------------------------------------------
(* queue_data, on the receive thread                                       *)

AllConfigAvailable(c) == \A k \in ConfigKinds : c[k] # None
DroppedTypes == {"aud", "sei", "dps"}

\* Fault: the picture parameters are not compared.
SpsIsSame(c, u) == u.type = "sps" => c[u.type] = u.gen
\* check_is_still_same_config_data
IsSameConfig(c, u) == u.type \in ConfigKinds => c[u.type] = u.gen

\* r: the configuration, the flag and the queue.
queue_data(r, nalu) ==
    LET u == nalu[1][1] IN
    IF ~AllConfigAvailable(r.config)
    THEN IF u.type \in ConfigKinds THEN [r EXCEPT !.config[u.type] = u.gen] ELSE r
    ELSE IF ~IsSameConfig(r.config, u) THEN [r EXCEPT !.changed = TRUE]
    ELSE IF u.type \in ConfigKinds \cup DroppedTypes \/ Len(r.queue) >= QueueLen THEN r
    ELSE [r EXCEPT !.queue = Append(@, u.gen)]

\* One unit after the other.
QueueUnits(start, nalus) ==
    LET r[k \in 0..Len(nalus)] == IF k = 0 THEN start ELSE queue_data(r[k - 1], nalus[k])
    IN  r[Len(nalus)]

QueueForwarded ==
    LET r == QueueUnits([config |-> config, changed |-> config_has_changed_during_decode,
                         queue |-> queue], forwarded')
    IN  /\ config' = r.config /\ config_has_changed_during_decode' = r.changed
        /\ queue' = r.queue

-----------------------------------------------------------------------------
(* receiveFromUDPLoop                                                      *)

\* The socket is made and bound, then m_receiving is tested.
RxBind ==
    /\ rx = "setup" /\ rx' = IF receiving THEN "recv" ELSE "ended"
    /\ UNCHANGED <<rtp, stream, receiving, receiver, dec, fed, flags, term, lateFrames>>

RxFails ==
    /\ rx = "setup" /\ rx' = "failed"
    /\ UNCHANGED <<rtp, stream, receiving, receiver, dec, fed, flags, term, lateFrames>>

\* A packet is received and parsed, its units queued; a copy of it may follow.
Deliver(p, copyFollows) ==
    /\ rx = "recv" /\ rx' = IF receiving THEN "recv" ELSE "ended"
    /\ ParseRTP(p) /\ QueueForwarded
    /\ IF copyFollows THEN UNCHANGED stream ELSE Advance
    /\ UNCHANGED <<receiving, dec, fed, flags, term, lateFrames>>

\* A packet is lost, but never all the numbers but one in a row (of 65536).
Lose ==
    /\ rx = "recv" => (number + 1) % SeqNumbers # lastSequenceNumber
    /\ Advance /\ forwarded' = <<>>
    /\ UNCHANGED <<lastSequenceNumber, flagPacketHasGoneMissing, m_curr_nalu, thread, receiver,
                   dec, fed, flags, term, lateFrames>>

\* recvfrom returns nothing after the shutdown of the socket.
RxEnds ==
    /\ rx = "recv" /\ ~receiving /\ rx' = "ended"
    /\ UNCHANGED <<rtp, stream, receiving, receiver, dec, fed, flags, term, lateFrames>>

-----------------------------------------------------------------------------
(* constant_decode and open_and_decode_until_error_custom_rtp              *)

ConstantDecode ==
    /\ dec = "while" /\ dec' = IF m_should_terminate THEN "ended" ELSE "open"
    /\ UNCHANGED <<rtp, stream, thread, receiver, fed, flags, term, lateFrames>>

\* The decoder is opened, the receiver made and its thread started.
OpenDecoder ==
    /\ dec = "open"
    /\ rx' = "setup" /\ receiving' = TRUE
    /\ dec' = "test"
    /\ UNCHANGED <<rtp, stream, receiver, fed, flags, term, lateFrames>>

OpenFails ==
    /\ dec = "open" /\ dec' = "while"
    /\ UNCHANGED <<rtp, stream, thread, receiver, fed, flags, term, lateFrames>>

\* Fault: the change is ignored.
IgnoresChange == FALSE
SeesChange == config_has_changed_during_decode

\* The two tests at the top of the loop.
TestFlags ==
    /\ dec = "test"
    /\ dec' = IF request_restart THEN "clear" ELSE IF SeesChange THEN "stop"
              ELSE IF fed = None THEN "config" ELSE "frame"
    /\ UNCHANGED <<rtp, stream, thread, receiver, fed, flags, term, lateFrames>>

ClearRestart ==
    /\ dec = "clear" /\ request_restart' = FALSE /\ dec' = "stop"
    /\ UNCHANGED <<rtp, stream, thread, receiver, fed, m_should_terminate, term, lateFrames>>

\* get_config_data, polled until all of it is there.
FeedConfig ==
    /\ dec = "config" /\ dec' = "test"
    /\ fed' = IF AllConfigAvailable(config) THEN config ELSE fed
    /\ UNCHANGED <<rtp, stream, thread, receiver, flags, term, lateFrames>>

\* get_next_frame, which may run into its timeout, and decode_and_wait_for_frame.
FeedFrame ==
    /\ dec = "frame" /\ dec' = "test"
    /\ IF queue = <<>> THEN UNCHANGED <<queue, lateFrames>>
       ELSE /\ queue' = Tail(queue)
            /\ lateFrames' = IF config_has_changed_during_decode THEN lateFrames + 1 ELSE lateFrames
    /\ UNCHANGED <<rtp, stream, thread, config, config_has_changed_during_decode, fed,
                   flags, term>>

\* m_rtp_receiver=nullptr: stopReceiving, with the shutdown of the socket ...
StopReceiving ==
    /\ dec = "stop" /\ receiving' = FALSE /\ dec' = "join"
    /\ UNCHANGED <<rtp, stream, rx, receiver, fed, flags, term, lateFrames>>

\* ... joins the thread, and the receiver is gone with all it has.
JoinAndDestroy ==
    /\ dec = "join" /\ rx \in {"ended", "failed"} /\ dec' = "while"
    /\ rx' = "none"
    /\ lastSequenceNumber' = NoSeq /\ flagPacketHasGoneMissing' = FALSE
    /\ m_curr_nalu' = <<>> /\ forwarded' = <<>>
    /\ config' = NoConfig /\ config_has_changed_during_decode' = FALSE /\ queue' = <<>>
    /\ fed' = None /\ lateFrames' = 0
    /\ UNCHANGED <<stream, receiving, flags, term>>

Decode == ConstantDecode \/ OpenDecoder \/ OpenFails \/ TestFlags \/ ClearRestart
          \/ FeedConfig \/ FeedFrame \/ StopReceiving \/ JoinAndDestroy

-----------------------------------------------------------------------------
(* The UI thread                                                           *)

\* timer_check_settings_changed_callback, until terminate stops the timer.
SettingsChange ==
    /\ term = Assignments /\ request_restart' = TRUE
    /\ UNCHANGED <<rtp, stream, thread, receiver, dec, fed, m_should_terminate, term, lateFrames>>

TerminateStep ==
    /\ term # <<>>
    /\ term' = Tail(term)
    /\ \/ Head(term) = "m_should_terminate" /\ m_should_terminate' = TRUE /\ UNCHANGED request_restart
       \/ Head(term) = "request_restart" /\ request_restart' = TRUE /\ UNCHANGED m_should_terminate
       \/ Head(term) = "join" /\ dec = "ended" /\ UNCHANGED flags
    /\ UNCHANGED <<rtp, stream, thread, receiver, dec, fed, lateFrames>>

Next ==
    \/ RxBind \/ RxFails \/ RxEnds
    \/ \E copyFollows \in BOOLEAN : Deliver(CurrentPacket, copyFollows)
    \/ pos = 0 /\ Deliver(UnsupportedPacket, FALSE)
    \/ Lose
    \/ Decode
    \/ SettingsChange \/ TerminateStep

Spec == Init /\ [][Next]_vars

\* The threads run, a decoder can be opened, the encoder goes on, and its parameter
\* sets get through again and again.
Fairness ==
    /\ WF_vars(RxBind \/ RxEnds) /\ WF_vars(Decode) /\ SF_vars(OpenDecoder)
    /\ WF_vars(term # Assignments /\ TerminateStep)
    /\ WF_vars(Deliver(CurrentPacket, FALSE) \/ Lose)
    /\ \A i \in 0..1 : SF_vars(pos = i /\ Deliver(CurrentPacket, FALSE))

FairSpec == Spec /\ Fairness

-----------------------------------------------------------------------------
(* Properties                                                              *)

\* "upper level needs to reconfigure the decoder" (rtpreceiver.cpp:148): once the
\* receive thread has noticed a change, one frame at most is still decoded with the
\* old configuration, although frames are queued on.
StopsAfterChange == lateFrames <= 1

\* Whatever was lost while the configuration changed, the decoder ends up with the
\* one of the stream, in all its parts: mixtures of two are noticed and made up for
\* (avcodec_decoder.cpp:795-799).
DecoderFollowsStream ==
    <>[](term = Assignments /\ ~request_restart /\ rx # "failed")
        => <>[](fed = [k \in ConfigKinds |-> gen])

\* "This will break out of a running ... loop" (avcodec_decoder.cpp:97): terminate
\* comes to its end wherever the decode and the receive thread are, also when a
\* restart that was requested before is just being answered.
TerminateReturns == (term # Assignments) ~> (term = <<>>)
=============================================================================
