# QOpenHD: a TLA+ model

QOpenHD is the ground station application of OpenHD: a Qt program that receives
MAVLink telemetry and video from the OpenHD ground unit (and through it from the air
unit and the flight controller, "FC"), shows them, and sends commands, parameters and
mission requests back over a lossy radio link. All paths below are relative to the
repository; the application is `app/`.

The project models the parts of QOpenHD where several threads, a lossy link and
retransmissions meet. It contains modules for TLC and modules with proofs for TLAPS.

## 1. Inventory

### Threads

| thread | started in | runs |
|---|---|---|
| Qt UI thread | `main.cpp` | QML, every `Q_INVOKABLE`, every queued slot |
| UDP receive thread | `telemetry/connection/udp_connection.cpp:40` | parsing, `MavlinkTelemetry::process_mavlink_message`, all message handlers |
| TCP connect/receive threads | `telemetry/connection/tcp_connection.cpp:179` | the same handlers, for a TCP link |
| heartbeat thread | `telemetry/MavlinkTelemetry.cpp:19` | heartbeats and connection management, once a second |
| command timeout thread | `telemetry/action/impl/cmdsender.cpp:10` | `handle_timeout`, every 100 ms |
| parameter timeout thread | `telemetry/action/impl/xparam.cpp:10` | `check_timeout_*`, every 100 ms |
| video receive thread | `videostreaming/vscommon/udp/UDPReceiver.cpp:41` | RTP reassembly, the frame queue |
| video decode thread | `videostreaming/avcodec/avcodec_decoder.cpp:84` | makes and destroys the receiver, decodes |

### Components, state, operations

* **CmdSender** (`telemetry/action/impl/cmdsender.cpp`). State: the list of running
  commands, each with its transmission count and last transmission time, behind one
  mutex. Operations: asynchronous and blocking send, ack handling, timeout scan,
  terminate. Correct when every accepted command completes exactly once, with the
  answer of its own recipient or after all retransmissions.
* **XParam** (`telemetry/action/impl/xparam.cpp`). State: running "set" and running
  "get all" actions behind one mutex. Same obligations, and a get-all reports success
  only with the whole parameter set.
* **FCMissionHandler** and **FCMavlinkMissionItemsModel**
  (`telemetry/action/fcmissionhandler.cpp`, `telemetry/models/`). State: the items of
  the FC's mission, which of them are missing, the rows the map shows. Correct when
  the fetch ends with the FC's mission and the map shows it.
* **FCMsgIntervalHandler** (`telemetry/action/fcmsgintervalhandler.cpp`). State: the
  index of the next rate and whether it may be sent. Sends one message interval command
  after the other, each after the previous one was accepted; a change of the rates
  starts again. Correct when no rate is skipped and nothing follows a failure.
* **FCAction, OHDAction** (`telemetry/action/`): single commands on behalf of the user.
  State of FCAction: a flag that a flight mode change is running. Correct when one
  change is in flight at a time and the flag follows it.
* **MavlinkSettingsModel** (`telemetry/settings/mavlinksettingsmodel.cpp`). State: the
  rows of one unit's parameters, a busy flag, whether they were fetched. Operations:
  fetch, automatic fetch, blocking and asynchronous set, queued replacement of the rows.
  Correct when the rows show the unit's values and a reported success is one.
* **WBLinkSettingsHelper** (`telemetry/settings/wblinksettingshelper.cpp`): single
  parameter sets and a sequence of them on the ground and the air unit, blocking and
  asynchronous; progress of a channel analysis. Correct when a failure in the middle of
  the sequence leaves no unit ahead of the one that must be first, and the user is told
  of every change once.
* **MavlinkTelemetry** (`telemetry/MavlinkTelemetry.cpp`). State: the four connections,
  the mode and the manual address, the id of the FC, the last ping. Operations: a
  management pass once a second, dispatch of every message, send, ping, terminate.
  Correct when the connections follow the user's choice, messages go to whom they are
  for, and one system is the FC for everybody.
* **UDPConnection, TCPConnection** (`telemetry/connection/`). State: the socket, the
  receive thread, the peer, the time of the last data. Correct when stop returns, no
  socket is left behind, a lost peer is noticed and a new one is found.
* **AOHDSystem, FCMavlinkSystem** (`telemetry/models/`). State: the time of the last
  message, the alive flag, the displayed values. Correct when silence is noticed.
* **RTPDecoder** (`videostreaming/vscommon/rtp/ParseRTP.cpp`). State: the last sequence
  number, a flag that a packet is missing, the buffer of the unit under way. Correct when
  a unit is handed on only if all its fragments arrived.
* **Video receive path** (`RTPReceiver`, `UDPReceiver`, `CodecConfigFinder`,
  `ThreadsafeQueue`, `AVCodecDecoder`). State: the stream's configuration, whether it
  changed, the frame queue, the flags that restart and terminate. Correct when the decoder
  follows the configuration of the stream and terminate returns.
* **ADSB, logging, OSD elements, platform code**: see section 8.

How they interact: a connection's receive thread calls
`MavlinkTelemetry::process_mavlink_message`, which under one mutex offers the message to
CmdSender and XParam (acks, parameters), then to the unit's or the FC's model, which may
start an automatic fetch (MavlinkSettingsModel), a mission request (FCMissionHandler) or
a message rate (FCMsgIntervalHandler). All of these send through CmdSender / XParam and
`MavlinkTelemetry::sendMessage`. Result callbacks run on the receive thread or on the
timeout thread of CmdSender / XParam. Models tell the UI through queued Qt signals.

### What is hard

Answers race timeouts: a command is removed by one of two threads and its callback is
called after the mutex was released. Lists are erased while they are walked. Answers
arrive twice, late, or for somebody else. Signals of the receive thread are queued for
the UI thread while the UI thread changes the same model directly. PROJECT.json lists
these under "hazards", each at its line.

## 2. Modules

| module | models | composed of |
|---|---|---|
| `RequestQueue` | abstract: what a sender of requests promises its callers | |
| `CmdSender` | `cmdsender.cpp` | implements `RequestQueue` |
| `XParam` | `xparam.cpp` | its sets implement `RequestQueue` |
| `FCMissionHandler` | `fcmissionhandler.cpp`, `fcmavlinkmissionitemsmodel.cpp` | |
| `FCMsgIntervalHandler` | `fcmsgintervalhandler.cpp` | uses `RequestQueue` |
| `FCAction` | `fcaction.cpp` | uses `RequestQueue` |
| `CommandClients` | both clients on one command queue | `FCMsgIntervalHandler`, `FCAction` |
| `MavlinkSettingsModel` | `mavlinksettingsmodel.cpp`, the autofetch of `aohdsystem.cpp` | uses `RequestQueue` |
| `WBLinkSettingsHelper` | `wblinksettingshelper.cpp` | extends `XParam` |
| `Descriptors` | socket(2), shutdown(2), close(2) | |
| `UDPConnection`, `TCPConnection` | `telemetry/connection/` | extend `Descriptors` |
| `ManualConnections` | the UDP and the manual TCP connection, which take turns | `TCPConnection`, `UDPConnection` on one descriptor table |
| `ConnectionManagement` | the connections of `MavlinkTelemetry.cpp` | connections seen from outside |
| `MavlinkTelemetry` | the dispatch of `MavlinkTelemetry.cpp` | |
| `AliveDetection` | `update_alive` of `aohdsystem.cpp`, `fcmavlinksystem.cpp` | |
| `SystemMonitor` | the dispatch feeding the alive detection of one unit | `MavlinkTelemetry`, `AliveDetection` |
| `RtpDecoder` | `ParseRTP.cpp` | |
| `RtpStream` | an RTP stream on a link that loses, repeats and reorders | `RtpDecoder` |
| `VideoReceiver` | `rtpreceiver.cpp`, `UDPReceiver.cpp`, `CodecConfigFinder.hpp`, `ThreadsafeQueue.hpp`, `avcodec_decoder.cpp` | `RtpDecoder` |
| `ListTheorems`, `CmdSenderProofs`, `XParamProofs`, `FCMissionHandlerProofs`, `ManualConnectionsProofs`, `SystemMonitorProofs`, `RtpDecoderProofs`, `MavlinkSettingsModelProofs` | proofs | |

`MC*.tla` give constants their values; every `MC*.cfg` is one run. Definitions whose
comment begins with "Fault:" are not part of any specification: they are the broken
variants of a definition with which each property was shown to be able to fail.
`PROJECT.json` maps every definition to its lines.

Conventions. A critical section with no intermediate state another thread can see is one
action. Where the code leaves the mutex between two effects (removing a command and
calling its callback; the three steps of `stop_looping`; the two reads of
`update_alive`; the calls of a management pass), the effects are separate actions. The
link is a set of messages: what is in it may be received any number of times, in any
order, or never. A clock that only decides "has this delay passed" is a set of those for
whom it has (`due`); where its width matters it is a number (`Int32`, `Word`).

### State and actions

* **CmdSender.** `running` is `m_running_commands` in list order, `due` the commands
  whose delay has passed, `timedOut` the local vector of the scan, `rx` / `rxResult` the
  command `handle_cmd_ack` has removed and not yet called back, `delivered` the calls of
  every callback. The scan is one action per element (`ScanSkip`, `ScanRetransmit`,
  `ScanGiveUp`) and holds the mutex (`MutexFree`); `Successor` is `++it` of a
  `std::list`: behind an erased element it skips one, and from `end()` it comes back to
  `begin()`, which is what libstdc++'s circular list does.
* **XParam.** The same for two lists; `size` and `got` are `server_param_set`. A
  get-all's transmission asks for the list or for the first indices (`RequestsList`,
  `ReadIndices`, with `READ_BATCH` for the ten).
* **FCMissionHandler.** `items`, `missing`, `hasCount`, `total`, `status` as in the
  class; `uiQueue` the queued signals, `ui` the rows of the map. `OptSendMessages` is
  the whole request step. The FC may get another mission (`uploads`).
* **FCMsgIntervalHandler, FCAction, CommandClients.** `phase` is the command queue as
  its contract `RequestQueue` describes it; all rate commands have one command id, so an
  ack completes the first one queued.
* **MavlinkSettingsModel.** `cache` is `m_data`, `uiQueue` the queued replacements,
  `uiWaits` the blocking call the UI thread is in. `list` is XParam's list of running sets
  and `acks` the acks on the link, which name a parameter and a result: whichever set one
  was meant for, it completes the first of that parameter in the list (`AckMatches`,
  `HandleParamExtAck`). `Others` are sets of the other users of XParam. The test of the autofetch and its
  start are two actions. Removing a fetched row and adding it is one.
* **WBLinkSettingsHelper.** A call of a blocking function is a call of XParam that keeps
  the UI thread (`UiIsFree`); `StbcLdpc` is the sequence of four sets, of which the next
  starts only behind a success (`GoesOn`). `hud` counts the messages shown.
* **UDPConnection, TCPConnection.** `rx` is where the receive thread is, `stop` where
  `stop_looping` is, `fds` the operating system's descriptors, `port` who holds the UDP
  port. `socket` keeps the number after a close, as `m_socket_fd` does. `send_message` of
  UDP is two actions: `SendCopies` copies the remote under its mutex, `SendTo` is the
  `sendto` on the descriptor `m_socket_fd` has by then; stops, starts and the receive
  thread come in between. `heard` and `copied` are ghosts: the peers of this socket, and
  that the copy was made since the last start.
* **ManualConnections.** Both connections on one `fds`: a number that one has closed may
  be given to the other. `MayStart` is what a pass in a manual mode does: the connection
  of the other mode is stopped, which joins its thread, before this one starts. `owner`
  is a ghost: who opened a descriptor.
* **ConnectionManagement.** A pass is the sequence of calls it is going to make
  (`pass`); the user, message handlers and `terminate` come in between. The heartbeat
  thread tests its flag before it sleeps (`HeartbeatRuns`), so a pass may still begin
  after `terminate` cleared it.
* **RtpDecoder.** A packet has a sequence number and carries whole units or one piece of
  a unit; `m_curr_nalu` is the buffer as a sequence of pieces, `forwarded` what the
  callback gets. The H264 and H265 decoders differ in `FuEnd` only.
* **RtpStream.** Any packet less than half the range of the sequence numbers away from
  the last one may come next.
* **VideoReceiver.** A unit is its type and the configuration (`gen`) it belongs to. `rx`
  is where the receive thread is, `dec` where the decode thread is, `term` what
  `terminate` has still to do. Destroying the receiver is two actions: the shutdown of
  the socket and the join.
* **MavlinkTelemetry, AliveDetection, SystemMonitor.** A message is its sender's ids and
  whether something before the models consumes it; ids are any `uint8_t`, and
  `set_system_id` refuses 255, which its caller does not notice. `timeRead` / `lastRead` are the
  operands `update_alive` has read.

## 3. Runs

| run | asks | bounds |
|---|---|---|
| `commands` | does every command complete once, truthfully, after the right number of transmissions, as `RequestQueue` says | 3 requests, one blocking, two with one command id, queue of 2 |
| `link` | are the sets of the link settings truthful, in order, reported once, as `RequestQueue` says | the sequence of 4 sets on 2 units, 2 asynchronous changes, 1 other blocking set, queue of 1 |
| `parameter_fetch` | is a fetched parameter set complete, does every call end | 1 set, 2 get-alls, 2 parameters, 2 impossible responses |
| `mission` | do items, missing list and map agree, does the fetch end | missions of 3, 1 and 0 items, requests in pairs, 1 upload, 1 resync |
| `clients` | rates and user commands on one queue | 2 rates, 1 change, 2 mode changes, 1 arming, queue of 2 |
| `settings` | are shown and reported values the unit's | 1 parameter, 2 sets to one value, another user's set to another one, 2 fetches, queue of 2 |
| `settings_stale` (violation) | do the rows show the unit's values in the end | 1 set, 2 fetches |
| `manual` | stop against receive and send, peers, clock, leak, reconnect, descriptors used twice | 2 descriptors, 2 peers, 1 sender, 2 starts of each, server on and off, clock over one wrap |
| `connections` | do the connections follow the user, does terminate end | 2 addresses, 2 changes |
| `monitor` | one FC, pings, alive flag | 8 systems, 2 pings, 4 ticks |
| `video` | whole units, configuration, terminate | groups of 5 packets, 3 fragments, 1 change, queue of 1 |
| `rtp_h265` (violation) | are units whole with H265 | 12 packets, 8 sequence numbers |

Why the bounds are enough. A queue needs two places and three requests to be full, to
have a first, a last and an erased element, and to be refused; two equal ids to confuse
acks. Two servers and one name tell apart a check of the name and of the sender; a queue
of one is full whenever an asynchronous change of the link settings is under way. A
mission longer than a request and a shorter one cover batches, growth and shrinking. Two
starts of a connection are needed for a leftover of the first; two descriptors for "the
lowest free one" to be another one, and for UDP and TCP to be given each other's. Two
changes of the mode let the second come in the pass that works with the first. Two pings
give a late answer; eight systems are all the kinds the discovery tells apart, one with
the id the FC model refuses among them. One parameter that is set twice to one value and
once to another lets every ack complete a set it was not meant for, and shows where
`Agreed` ends. A copy of the remote made in the first of two starts can be sent in the
second. A unit in three fragments has a first, a middle and a last one; five sequence
numbers make every gap but a whole round visible, which the run excludes as 65535 losses
in a row would be needed for it; one change of the configuration, with a parameter set
lost before or behind it, gives every mixture of two.

What the runs show. The command and parameter queues are sound: the scan that erases
under its own iterator skips elements but loses none, and no interleaving completes
anything twice. Success is reported only when the recipient accepted, as long as no two
running commands share an id. A fetched parameter set is complete. A mission is fetched
in spite of loss and reordering. A value shown or reported as set was the unit's, as
long as all who set the parameter agree on it. The rates are sent in order. However the
four sets of the link settings end, the air unit is not ahead of the ground unit. A stop
of a connection always returns; a message copied and sent within one start goes to a
peer of that start; TCP leaks no descriptor, and in the manual modes neither connection
closes one of the other. The connections converge to the user's last choice, and
terminate ends. There is one FC. Incomplete H264 units are dropped, H265 units are not
(`rtp_h265`). The decoder notices every change of the configuration, also one that
reaches it in pieces, and terminate returns although it and a restart share flags.

### Fairness

`commands`, `parameter_fetch`: the timeout thread runs, delays pass, a callback that was
started ends, a blocking caller whose future is set returns. The link and the recipients
owe nothing. `mission`: strong fairness of reception, because the code retries for good
and depends on an answer arriving in the end; the FC answers what it is asked, the UI
thread runs. `clients`, `settings`: the queue decides every request, which is what
`EveryCommandCompletes` shows of the module below. `manual`: both threads of both
connections run and the time of TCP passes; nobody owes data, a server or the port.
`connections`: strong fairness for a step of the pass, which waits for a handler that is
running to leave; handlers end and the heartbeat thread goes on. `monitor`: the one
second timer fires. `link` checks no liveness. `video`: the receive and the decode
thread and `terminate` run, a decoder can be opened in the end (strong, as opening may
fail), the encoder goes on, and its parameter sets get through again and again (strong,
for the link may lose them any number of times); `DecoderFollowsStream` says nothing of
a receiver whose bind failed. Nobody is assumed to send, answer or stop where this is
not said.

## 4. Proofs

Checked by TLAPS for every value of the constants, from the `ASSUME`s of the modules
(sizes are naturals, ids and sets disjoint); TLC evaluates these in the runs.

* `CmdSenderProofs`. `TypeCorrect`, then `IndInv`: `TypeOK`, `QueueBound`,
  `IteratorValid`, `CompletedOnce` and `GiveUpExhausted` are inductive only together and
  with `Bookkeeping`: a command that was not enqueued was not transmitted, and a timeout
  thread that sleeps holds no callbacks. Theorems: `CommandsCompleteOnce`,
  `QueueIsBounded`, `GivingUpIsExhausted`, `IteratorStaysValid`. `ListTheorems` has the
  facts about removal from lists without duplicates. `AcceptedIsTrue` adds that a
  positive ack on the link was preceded by the execution it reports.
  `ImplementsTheRequestQueue`: the hands that `CompletedOnce` separates are the phases of
  `RequestQueue` (`PhaseOf`), so each step moves one request from phase to phase or none;
  the number of queued requests is the length of a list without duplicates.
  The module also holds the proofs about the clients of the queue. `IntervalInv` joins
  `InFlightBound`, `NoRateSkipped` and `StopsAfterFailure`, which are inductive with a bound
  on the commands sent so far (`SentBound`, `GenBound`) and, before the first restart, with
  the fact that only the latest one is in flight (`OnlyLatestInFlight`). Theorems: `InFlightIsBounded`, `RatesAreComplete`,
  `FailureStopsTheHandler`. `ClientsImplementHandler` and `ClientsImplementFCAction`: in
  the composition each client makes steps of its own module, with the other's requests as
  the `Others` of the queue, so what is proved of one alone holds of both together.
  `OneFlightModeChange`: the plain busy flag is set as long as a change is in flight.
* `XParamProofs`. `TypeCorrect`; `CallsCompleteOnce` and `GivingUpIsExhausted` from an
  invariant like that of the commands, over two lists. `SuccessIsComplete`: at every
  moment the size and the values collected are right (`CollectInv`), because what passes
  the checks on an impossible response was sent by the server, and a get-all that left its
  list is not changed any more. From the same invariant: `NothingIsStoredOutside`, and
  `SmallSetsAreRequested` for servers with at most `READ_BATCH` parameters.
  `AcceptedIsApplied` for callers whose sets have targets of
  their own (`DistinctTargets`): an ack names the server and the parameter, not the call.
  `SetsImplementTheRequestQueue` adds that a pass of the timeout thread leaves nothing to
  the next one (`PassesAreSeparate`), which decides the result a callback is given.
  `LinkImplementsXParam`: the functions of the link settings make only steps of XParam,
  which carries all of this over to them. `GroundIsAlwaysFirst`, again for
  `DistinctTargets`: a set of the sequence is called only behind the true result of the one
  before (`InSequence`), and a true result means that the set was applied.
  `ToldExactlyOnce`: a change whose call is over was told of once, one under way not yet.
* `FCMissionHandlerProofs`. `TypeCorrect`; `MissingListIsExact` and `CountIsConsistent`;
  `FetchedItemsAreTheFCs`, whose invariant adds that every message on the link about the
  primary mission is the FC's. `MapAlwaysShowsMission`: while the UI thread is behind, the
  map shows neither the old nor the new mission. What is kept (`MapInv`) is that running
  the queued slots will give the handler's mission (`Leads`): there is a function of the
  place in the queue to the list at that place, from what is shown now, or from any
  resize in the queue, as a resize forgets what was there before. The latter is needed
  because a resync clears the list directly, past the queue.
* `ManualConnectionsProofs`. For TCP alone `TypeCorrect` and `NothingLeaks`: `NoLeak` is
  inductive, because both threads only ever close `m_socket_fd`, and the only open TCP
  descriptor is that one. For both connections `TouchesItsOwn`: a stop and the receive
  thread of TCP close the
  same number twice, so what protects UDP is that a number TCP still knows is free or
  TCP's (`SocketIsTcps`) while TCP runs, and that one connection runs at a time (`OneRuns`);
  `OwnersAreKinds` connects the ghost to the kind of socket. With them `NoLeak` is
  inductive for the two together, too: `NothingLeaksInTurn`. `NoStalePeer`: no remote is
  known before the socket is bound (`PeerInv`), the socket stays bound until a stop begins,
  as TCP does not run, and a thread that has been told to stop binds no other one before
  the next start (`SenderInv`), so a copy of the remote stays one of a peer of this socket. `HeardIsAlive`, for the real
  width of the clock (`Half` is 2^31): the truncated difference of two truncated times is
  at most the true one.
* `SystemMonitorProofs`. `TypeCorrect` of the dispatch; `OneFcAlways` and
  `FcIsAlwaysAnFc`: together inductive, the FC is chosen once, in one step, which the FC
  model follows unless the id is 255.
  `ConnectedIsAlwaysDiscovered`: its invariant adds that a stored time, and an
  `update_alive` under way, mean the unit was discovered. `HudIsAlwaysRight`.
  `PingsNeverGoBack`: no result is newer than the last ping that was sent (`PingInv`).
* `RtpDecoderProofs`. `Wholeness`, for any H264 stream (`Setting`: the developer's
  option to feed incomplete frames is off, pieces of a unit follow one another, sequence
  numbers of 16 bits). `BufferInv` says
  what the buffer holds between packets: when no packet is missing, exactly the pieces of
  one unit up to the one that came last. The stream and the link of `RtpStream` are more
  general than those of the run `video`, where packets keep their order; `VideoUnitsAreWhole`
  says the same of the composed receive path (`VideoSetting`), where the stream is
  produced group by group, the configuration changes and the receiver is made anew.
  `DecodingStopsAfterChange`: between the two flags that the receive thread sets and the
  decode thread tests, one frame may still be fed (`LateInv`).
* `MavlinkSettingsModelProofs`. `TypeCorrect`; `ShowsWhatWasServed` and `SuccessIsStored`
  from `ServedInv`: every value a fetch has read or a queued replacement holds is one the
  unit had or has, and a positive ack, on the link or taken by a set, means that some set of
  this parameter was stored, not which (`AcksAreTrue`). Its value is that of the set the ack
  completes if all sets of the parameter ask for one value (`Agreed`), and agreement now is
  agreement before, as no set is ever unmade (`HistoryGrew`). `FetchesAreComplete`: after
  a fetch the rows are whole, or a replacement, which is whole, is queued. `OneAsyncRequest`: one step that tests the flag and
  enqueues is not enough, callbacks of earlier requests clear it; what is kept is that at
  most one request is on its way and the flag is set while it is (`BusyInv`), until a
  blocking set or the autofetch, which do not take part in this, has begun (`OnlyAsync`).

Every invariant and action property of the passing runs is stated by a theorem. Only
model-checked: all liveness (fairness and ENABLED are outside the prover), so all three
questions of `connections`, and the counterexamples of `settings_stale` and `rtp_h265`.
Assumptions on constants that the code does not enforce by itself are named above, and are
the exceptions section 5 lists: shared targets, large parameter sets, H265.
Some properties are stated and were checked on the same instances without being part of a
run. Proved: the type invariants of the modules above, `GiveUpExhausted`, `IndexInRange`
and `RequestsSomethingMissing` of XParam, `StopsAfterFailure`, `OneChangeAtATime`,
`FetchedIsComplete`, `OneRequestAtATime`, `CountMatchesItems`. Not proved: the other type
invariants; `UserIsTold` and `EverySetIsReported`, which are liveness; and
`DisconnectsWhenSilent`, an action property of a single step.

## 5. Where the code and its documentation disagree

Two runs show a counterexample:

* `settings_stale`: a set that completes between the end of a fetch and the queued
  replacement of the rows is overwritten; the row shows the old value.
* `rtp_h265`: a unit whose middle fragment was lost is handed on. The end fragment of H265
  (`ParseRTP.cpp:262`) does not look at `flagPacketHasGoneMissing`, which the H264 decoder
  does (:133), although `ParseRTP.h:17` says "incomplete rtp fragments are dropped".

The following were met while modelling. Where a definition is named, TLC shows the
behaviour when it checks that definition (of its own module, where no run extends it);
its comment says "does not hold" or under which conditions it does.

* Acks name a command id only: with two running commands of one id the first is told the
  result of the other (`AcceptedWasExecuted` without `Unshared`).
* Acks of parameters name the parameter only (`xparam.cpp:253`). A blocking set does not
  look at the busy flag, other parts of the program set parameters, too, and an ack may
  come twice: the ack of one set completes another one of this parameter, whose value is
  then shown, and reported as a success, although the unit never had it
  (`ShowsOnlyServed`; `ShownWasServed` and `SuccessWasStored` without `Agreed`; `XParam`
  without `DistinctTargets`).
* `MavlinkTelemetry.cpp:138` does not look at the result of `set_system_id`, which refuses
  system id 255 (`fcmavlinksystem.cpp:521`). A sender 255 with the component id of an
  autopilot that talks before the FC is found for good: commands go to it, and the FC model
  shows nobody's messages (`FoundIsDiscovered`).
* `UDPConnection::stop_looping` does not wait for a `send_message` between its copy of the
  remote (`udp_connection.cpp:74`) and `sendto` (:85). After a stop and a start the message
  goes to the peer of the earlier start, and between them to a descriptor that is closed, or
  that TCP was given meanwhile (`AlwaysSentToAPeer`).
* `xparam.cpp:338` asks for the first ten indices instead of ten missing ones, although
  :337 says "Request up to X specific missing cmds"; with more than ten parameters and
  only later ones missing nothing useful is asked (`RequestsSomethingMissing` with a
  `READ_BATCH` below the count).
* A mission replaced by one of the same length is not noticed
  (`fcmissionhandler.cpp:141`). Items in another frame are requested for good (:168).
* `resync` clears the map's list directly while resizes of it are queued: one that is
  still queued fills it again. If the FC has no mission by then, its count of zero equals
  the size of the emptied items and resets nothing (:141), so the map keeps the rows of a
  mission that is gone (`MapShowsMission` without `items # <<>> \/ resyncs = 0`; the
  proof of `MapInv` needs exactly that exception).
* `FCMsgIntervalHandler::restart` while a command is in flight puts two in flight, and a
  failure of the old one clears the flag the restart has set (`RestartReapplies`).
* `FCAction`'s flag stays set when the queue is full (`BusyEnds` of `FCAction`), and
  MavlinkSettingsModel's when `try_set_param_async` refuses
  (`mavlinksettingsmodel.cpp:198`).
* A blocking set neither tests nor respects the busy flag (`OneRequestAtATime` without
  `OnlyAsync`); the autofetch tests it on another thread than the user's requests.
* `get_fc_mav_id` initialises `{comp_id, sys_id}` with `{sys, comp}`
  (`CommandsAddressTheFc`).
* `UDPConnection::connect_once` never closes its socket (`udp_connection.cpp:225`): a
  stop between `socket()` and the assignment, or while the socket is bound, leaves the
  port taken, and no later start listens (`Listens`).
* `TCPConnection` closes a descriptor in `stop_looping` and again in its receive thread
  (`tcp_connection.cpp:200`, `:278`). In the automatic mode UDP and TCP run side by
  side: the number may be UDP's by the second close (`OwnDescriptors` with
  `MayStartAtOnce`).
* `UDPConnection::set_remote` stores the old peer when a new one talks (:248), so
  commands go on to the old port. A clock truncated to a negative number is "alive"
  without data (`AliveOnlyWhenHeard`). `TCPConnection` subtracts a truncated time from
  an untruncated one (:245): past 2^31 ms every connection counts as silent at once
  (`Reconnects` with `Wrapped = TRUE`).
* `sendMessage` returns true without a connection (`TrueMeansSentOut`); `terminate`
  destroys the connections one by one while handlers send (`HandlersFindTheConnection`).
* `wblinksettingshelper.h:36-39` and `:76` promise that a value is changed on the air
  and then on the ground unit, with code -3 if the latter fails; the second half of
  `change_param_air_and_ground_blocking` is commented out
  (`wblinksettingshelper.cpp:199-206`).
* A receiver whose bind fails is not tried again until a restart is requested
  (`UDPReceiver.cpp:125`, `RxFails`). `config_has_changed_during_decode` and
  `m_should_terminate` are plain bools written on one thread and read on another.
* `update_alive` reads its operands in an unspecified order; a message in between makes
  the unsigned difference huge and the system dead for a second
  (`DeadOnlyAfterSilence`). Acks, parameters and ping answers do not count as a sign of
  life although `aohdsystem.cpp:775` says any message does.

## 6. Plan

Done: the telemetry core, the link settings, the connections on shared descriptors, the
video receive path (sections 2 to 4). What is left, in this order:

1. A server whose parameter count changes during a fetch; missions larger than a batch
   in the frame the handler ignores.
2. The automatic mode with its three TCP connections on one descriptor table.
3. ADSB table and expiry.

Proofs next: the type invariant of `ConnectionManagement` and the order of the calls of
its passes; the safety half of `UserIsTold` and `EverySetIsReported` (a call whose callback
ran was reported); that the system monitor implements the alive detection.

## 7. Running

`tlc -config MCCmdSender.cfg MCCmdSender` and so on, each under five minutes;
`tlapm CmdSenderProofs.tla`.

## 8. Not modelled

* Decoding and formatting of displayed values, logs, HUD texts, OSD painting: no
  control.
* Decoding and rendering of video, ffmpeg's own RTP input, gstreamer, Android code:
  behaviour of the libraries. `VideoReceiver` models the low latency parser only.
* `src/translations/*.ts` are texts for Qt's translation tool (XML), not TypeScript:
  they have no behaviour. All code modelled is C++.
* Data races on `QString` / `std::string` members and on `MavlinkSettingsModel::m_data`
  (undefined behaviour beyond the interleavings modelled).
* The parts listed in `PROJECT.json` as not modelled or partly modelled, with reasons.

