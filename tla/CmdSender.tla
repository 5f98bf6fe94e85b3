------------------------------ MODULE CmdSender ------------------------------
(***************************************************************************)
(* CmdSender (telemetry/action/impl/cmdsender.cpp): MAVLink COMMAND_LONG   *)
(* over a lossy link, with retransmissions.                                *)
(*                                                                         *)
(* Threads: any number of callers (UI thread, worker threads), the         *)
(* telemetry receive thread, which hands every COMMAND_ACK to              *)
(* process_message, and the timeout thread, which runs handle_timeout      *)
(* every 100 ms.  m_mutex protects m_running_commands.  A critical section *)
(* without an observable intermediate state is one step; handle_timeout,   *)
(* which holds the mutex while it walks the list, is one step per element. *)
(*                                                                         *)
(* The link is lossy, reordering and duplicating: an ack that was sent     *)
(* stays in acks, may be received any number of times, or never.           *)
(***************************************************************************)
EXTENDS Integers, SequencesExt

CONSTANTS
    Requests,     \* the calls of send_command_long_async / _blocking
    Blocking,     \* those made through send_command_long_blocking
    Commands,     \* MAV_CMD ids
    CommandId,    \* [Requests -> Commands]
    Wanted,       \* [Requests -> Nat \ {0}], n_wanted_retransmissions
    MAX_N_SIMULTANOEUS_COMMANDS,
    Answers,      \* <<r, result>>: the answers a recipient may give to r
    Foreign,      \* command ids another ground station sends to the recipients
    None          \* no request

ASSUME ConstantsAssumption ==
    /\ Blocking \subseteq Requests
    /\ CommandId \in [Requests -> Commands]
    /\ Wanted \in [Requests -> Nat \ {0}]
    /\ MAX_N_SIMULTANOEUS_COMMANDS \in Nat \ {0}
    /\ Answers \subseteq Requests \X {"accepted", "denied"}
    /\ Foreign \subseteq Commands
    /\ None \notin Requests

VARIABLES
    caller,       \* [Requests -> CallerStates], what the call has returned
    running,      \* m_running_commands, a list of requests
    nTx,          \* [Requests -> Nat], RunningCommand::n_transmissions
    due,          \* the requests whose retransmit_delay has elapsed since
                  \* their last transmission
    tpc,          \* where the timeout thread is; it holds m_mutex in "scan"
    it,           \* the iterator of handle_timeout, Len(running) + 1 is end()
    timedOut,     \* timed_out_commands of handle_timeout
    rx,           \* the command handle_cmd_ack has removed, its cb not called
    rxResult,     \* the ack's result for rx
    delivered,    \* [Requests -> Seq(Results)], the calls of each result cb
    threadRun,    \* m_timeout_thread_run
    acks,         \* every COMMAND_ACK that was ever put on the link
    executed      \* the requests their recipient has accepted (ghost)

vars == <<caller, running, nTx, due, tpc, it, timedOut, rx, rxResult,
          delivered, threadRun, acks, executed>>

AckResults == {"accepted", "denied"}
Results    == AckResults \cup {"no_ack"}         \* RunCommandResult::opt_ack
Acks       == [command : Commands, to : {"self", "other"}, result : AckResults]

BlockingResults == {"QUEUE_FULL", "NO_RESPONSE", "CMD_DENIED", "CMD_SUCCESS"}
CallerStates == {"idle", "false", "true", "waiting"} \cup BlockingResults

\* The requests that were enqueued: their caller was promised a callback.
Enqueued(r) == caller[r] \notin {"idle", "false", "QUEUE_FULL"}

\* Fault: a lock_guard was forgotten.
MutexIgnored == TRUE
\* m_mutex is held by handle_timeout only while it walks the list.
MutexFree == tpc # "scan"

-----------------------------------------------------------------------------
Init ==
    /\ caller = [r \in Requests |-> "idle"]
    /\ running = <<>>
    /\ nTx = [r \in Requests |-> 0]
    /\ due = {}
    /\ tpc = "sleep"
    /\ it = 1
    /\ timedOut = <<>>
    /\ rx = None
    /\ rxResult = "denied"
    /\ delivered = [r \in Requests |-> <<>>]
    /\ threadRun = TRUE
    /\ acks = {}
    /\ executed = {}

-----------------------------------------------------------------------------
(* Callers                                                                 *)

\* send_command: transmit, restart the delay, count the transmission.
send_command(r) ==
    /\ nTx' = [nTx EXCEPT ![r] = @ + 1]
    /\ due' = due \ {r}

\* Fault: one command too many.
QueueFullTooLate == Len(running) > MAX_N_SIMULTANOEUS_COMMANDS
\* The guard of the queue limit.
QueueFull == Len(running) >= MAX_N_SIMULTANOEUS_COMMANDS

\* send_command_long_async, and the first half of _blocking, which then waits
\* on the future its callback fulfils.
SendCommandLong(r) ==
    /\ caller[r] = "idle"
    /\ MutexFree
    /\ \/ /\ QueueFull
          /\ caller' = [caller EXCEPT
                          ![r] = IF r \in Blocking THEN "QUEUE_FULL" ELSE "false"]
          /\ UNCHANGED <<running, nTx, due>>
       \/ /\ ~QueueFull
          /\ caller' = [caller EXCEPT
                          ![r] = IF r \in Blocking THEN "waiting" ELSE "true"]
          /\ running' = Append(running, r)
          /\ send_command(r)
    /\ UNCHANGED <<tpc, it, timedOut, rx, rxResult, delivered, threadRun, acks, executed>>

\* How the callback of send_command_long_blocking maps a result.
BlockingResult(result) ==
    CASE result = "no_ack"   -> "NO_RESPONSE"
      [] result = "accepted" -> "CMD_SUCCESS"
      [] OTHER               -> "CMD_DENIED"

\* fut.get() of send_command_long_blocking: the first value of the promise.
BlockingReturn(r) ==
    /\ caller[r] = "waiting"
    /\ delivered[r] # <<>>
    /\ caller' = [caller EXCEPT ![r] = BlockingResult(Head(delivered[r]))]
    /\ UNCHANGED <<running, nTx, due, tpc, it, timedOut, rx, rxResult,
                   delivered, threadRun, acks, executed>>

\* terminate() stores false and joins; the thread sees it at its loop head.
Terminate ==
    /\ threadRun
    /\ threadRun' = FALSE
    /\ UNCHANGED <<caller, running, nTx, due, tpc, it, timedOut, rx, rxResult,
                   delivered, acks, executed>>

-----------------------------------------------------------------------------
(* The telemetry receive thread                                            *)

\* Fault: the target of the ack is not checked.
ForAnybody(ack) == TRUE
\* process_message ignores an ack for another ground station.
ForUs(ack) == ack.to = "self"

\* find_remove_running_command_threadsafe takes the first running command with
\* the ack's command id: position i of the list.
IsFirstMatch(i, command) ==
    /\ CommandId[running[i]] = command
    /\ \A j \in 1..(i - 1) : CommandId[running[j]] # command

\* Fault: the command is found but not erased.
HandleCmdAckKeeps(ack) ==
    /\ ack \in acks /\ ForUs(ack)
    /\ rx = None
    /\ MutexFree
    /\ \E i \in 1..Len(running) : IsFirstMatch(i, ack.command) /\ rx' = running[i]
    /\ rxResult' = ack.result
    /\ UNCHANGED <<caller, running, nTx, due, tpc, it, timedOut, delivered, threadRun, acks,
                   executed>>

\* handle_cmd_ack up to the release of the mutex.  (Without a match nothing
\* changes.)
HandleCmdAck(ack) ==
    /\ ack \in acks /\ ForUs(ack)
    /\ rx = None
    /\ MutexFree
    /\ \E i \in 1..Len(running) :
          /\ IsFirstMatch(i, ack.command)
          /\ rx' = running[i]
          /\ running' = RemoveAt(running, i)
    /\ rxResult' = ack.result
    /\ UNCHANGED <<caller, nTx, due, tpc, it, timedOut, delivered, threadRun, acks, executed>>

\* ... and its call of the result callback, without the mutex.
HandleCmdAckCallback ==
    /\ rx # None
    /\ delivered' = [delivered EXCEPT ![rx] = Append(@, rxResult)]
    /\ rx' = None
    /\ UNCHANGED <<caller, running, nTx, due, tpc, it, timedOut, rxResult,
                   threadRun, acks, executed>>

-----------------------------------------------------------------------------
(* The timeout thread                                                      *)

\* The thread wakes and handle_timeout takes the mutex.
TimeoutWake ==
    /\ tpc = "sleep"
    /\ tpc' = "scan"
    /\ it' = 1
    /\ timedOut' = <<>>
    /\ UNCHANGED <<caller, running, nTx, due, rx, rxResult, delivered,
                   threadRun, acks, executed>>

\* ++it on a list of n elements.  The iterator erase() returns may already be
\* end(); the list of the C++ library is circular, so end() moves to begin().
Successor(i, n) == IF i = n + 1 THEN 1 ELSE i + 1

\* One iteration of the loop in handle_timeout.
ScanSkip ==
    /\ tpc = "scan" /\ it <= Len(running)
    /\ running[it] \notin due
    /\ it' = Successor(it, Len(running))
    /\ UNCHANGED <<caller, running, nTx, due, tpc, timedOut, rx, rxResult,
                   delivered, threadRun, acks, executed>>

\* Fault: one retransmission too many.
ScanRetransmitOnceMore ==
    /\ tpc = "scan" /\ it <= Len(running)
    /\ running[it] \in due
    /\ nTx[running[it]] <= Wanted[running[it]]
    /\ send_command(running[it])
    /\ it' = Successor(it, Len(running))
    /\ UNCHANGED <<caller, running, tpc, timedOut, rx, rxResult, delivered,
                   threadRun, acks, executed>>

ScanRetransmit ==
    /\ tpc = "scan" /\ it <= Len(running)
    /\ running[it] \in due
    /\ nTx[running[it]] < Wanted[running[it]]
    /\ send_command(running[it])
    /\ it' = Successor(it, Len(running))
    /\ UNCHANGED <<caller, running, tpc, timedOut, rx, rxResult, delivered,
                   threadRun, acks, executed>>

ScanGiveUp ==
    /\ tpc = "scan" /\ it <= Len(running)
    /\ running[it] \in due
    /\ nTx[running[it]] >= Wanted[running[it]]
    /\ timedOut' = Append(timedOut, running[it])
    /\ running' = RemoveAt(running, it)
    /\ it' = Successor(it, Len(running) - 1)
    /\ UNCHANGED <<caller, nTx, due, tpc, rx, rxResult, delivered, threadRun,
                   acks, executed>>

\* The end of the list: the mutex is released.
ScanEnd ==
    /\ tpc = "scan" /\ it > Len(running)
    /\ tpc' = "callbacks"
    /\ UNCHANGED <<caller, running, nTx, due, it, timedOut, rx, rxResult,
                   delivered, threadRun, acks, executed>>

\* Fault: the command is dropped without its callback.
TimeoutDropped ==
    /\ tpc = "callbacks" /\ timedOut # <<>>
    /\ timedOut' = Tail(timedOut)
    /\ UNCHANGED <<caller, running, nTx, due, tpc, it, rx, rxResult, delivered,
                   threadRun, acks, executed>>

\* The callbacks of the timed out commands, one after the other, unlocked.
TimeoutCallback ==
    /\ tpc = "callbacks" /\ timedOut # <<>>
    /\ delivered' = [delivered EXCEPT ![Head(timedOut)] = Append(@, "no_ack")]
    /\ timedOut' = Tail(timedOut)
    /\ UNCHANGED <<caller, running, nTx, due, tpc, it, rx, rxResult,
                   threadRun, acks, executed>>

\* while(m_timeout_thread_run)
TimeoutLoop ==
    /\ tpc = "callbacks" /\ timedOut = <<>>
    /\ tpc' = IF threadRun THEN "sleep" ELSE "exited"
    /\ UNCHANGED <<caller, running, nTx, due, it, timedOut, rx, rxResult,
                   delivered, threadRun, acks, executed>>

TimeoutThread == \/ TimeoutWake \/ ScanSkip \/ ScanRetransmit \/ ScanGiveUp
                 \/ ScanEnd \/ TimeoutCallback \/ TimeoutLoop

-----------------------------------------------------------------------------
(* The environment                                                         *)

\* The retransmit delay of a running command elapses.
Elapse(r) ==
    /\ r \in ToSet(running) \ due
    /\ due' = due \cup {r}
    /\ UNCHANGED <<caller, running, nTx, tpc, it, timedOut, rx, rxResult,
                   delivered, threadRun, acks, executed>>

\* A transmission of r reaches its recipient, which accepts or denies it and
\* acknowledges.  What it answers carries the command id only.
RecipientAnswers(r, result) ==
    /\ <<r, result>> \in Answers
    /\ nTx[r] > 0
    /\ acks' = acks \cup {[command |-> CommandId[r], to |-> "self", result |-> result]}
    /\ executed' = IF result = "accepted" THEN executed \cup {r} ELSE executed
    /\ UNCHANGED <<caller, running, nTx, due, tpc, it, timedOut, rx, rxResult,
                   delivered, threadRun>>

\* A recipient acknowledges a command of another ground station.
OtherStationAnswered(command, result) ==
    /\ acks' = acks \cup {[command |-> command, to |-> "other", result |-> result]}
    /\ UNCHANGED <<caller, running, nTx, due, tpc, it, timedOut, rx, rxResult,
                   delivered, threadRun, executed>>

Next ==
    \/ \E r \in Requests : SendCommandLong(r) \/ BlockingReturn(r) \/ Elapse(r)
    \/ \E r \in Requests, result \in AckResults : RecipientAnswers(r, result)
    \/ \E c \in Foreign, result \in AckResults : OtherStationAnswered(c, result)
    \/ \E ack \in acks : HandleCmdAck(ack)
    \/ HandleCmdAckCallback
    \/ TimeoutThread
    \/ Terminate

Spec == Init /\ [][Next]_vars

\* The operating system schedules every thread, time passes, and a thread that
\* waits on a fulfilled future wakes.  Nothing is assumed of the link, the
\* recipients or the callers.
Fairness ==
    /\ WF_vars(TimeoutThread)
    /\ WF_vars(HandleCmdAckCallback)
    /\ \A r \in Requests : WF_vars(Elapse(r)) /\ WF_vars(BlockingReturn(r))

FairSpec == Spec /\ Fairness

-----------------------------------------------------------------------------
(* Properties                                                              *)

TypeOK ==
    /\ caller \in [Requests -> CallerStates]
    /\ running \in Seq(Requests)
    /\ nTx \in [Requests -> Nat]
    /\ due \subseteq Requests
    /\ tpc \in {"sleep", "scan", "callbacks", "exited"}
    /\ it \in Nat \ {0}
    /\ timedOut \in Seq(Requests)
    /\ rx \in Requests \cup {None}
    /\ rxResult \in AckResults
    /\ delivered \in [Requests -> Seq(Results)]
    /\ threadRun \in BOOLEAN
    /\ acks \subseteq Acks
    /\ executed \subseteq Requests

\* The limit of m_running_commands (cmdsender.cpp:68) is never passed, whatever
\* callers, acks and the timeout scan do to the list.
QueueBound == Len(running) <= MAX_N_SIMULTANOEUS_COMMANDS

\* A command is in exactly one place: running, removed by the timeout scan,
\* removed by handle_cmd_ack, or its callback was called (once).  One that was
\* not enqueued is in none.  The timeout thread and the receive thread
\* therefore never complete the same command twice, which would fulfil the
\* promise of a blocking call twice (cmdsender.cpp:87-99), after its frame may
\* be gone; and neither loses one.
InRunning(r)  == r \in ToSet(running)
InTimedOut(r) == r \in ToSet(timedOut)
Called(r)     == delivered[r] # <<>>

CompletedOnce ==
    /\ IsInjective(running) /\ IsInjective(timedOut)
    /\ \A r \in Requests :
          /\ Len(delivered[r]) <= 1
          /\ Enqueued(r) <=> \/ InRunning(r) \/ InTimedOut(r)
                             \/ rx = r \/ Called(r)
          /\ InRunning(r)  => ~InTimedOut(r) /\ rx # r /\ ~Called(r)
          /\ InTimedOut(r) => rx # r /\ ~Called(r)
          /\ rx = r        => ~Called(r)

\* A command is reported as unanswered only after all its transmissions, and is
\* never transmitted more often than wanted (cmdsender.h:41, cmdsender.cpp:138),
\* although the scan skips elements behind an erased one and revisits the list
\* from begin() after erasing the last.
GiveUpExhausted ==
    \A r \in Requests :
        /\ nTx[r] <= Wanted[r]
        /\ InTimedOut(r) \/ delivered[r] = <<"no_ack">> => nTx[r] = Wanted[r]

\* The iterator of handle_timeout stays inside the list or at its end() while
\* elements are erased under it (cmdsender.cpp:132-148).
IteratorValid == tpc = "scan" => it <= Len(running) + 1

\* A result callback that reports an accepted command tells the truth: the
\* recipient of this very command accepted it (cmdsender.h:41).  An ack names a
\* command id only, so this can be asked of the requests whose id nobody shares.
Unshared == {r \in Requests : \A q \in Requests \ {r} : CommandId[q] # CommandId[r]}
AcceptedWasExecuted ==
    \A r \in Unshared : delivered[r] = <<"accepted">> => r \in executed

\* The caller of an enqueued command gets its callback (cmdsender.h:40), and a
\* blocking call returns, unless the sender is terminated first.
EveryCommandCompletes ==
    \A r \in Requests : Enqueued(r) ~> (Called(r) /\ caller[r] # "waiting") \/ ~threadRun

\* The requests as the callers see them: CmdSender implements RequestQueue.
Phase(r) ==
    CASE caller[r] = "idle"                  -> "idle"
      [] caller[r] \in {"false", "QUEUE_FULL"} -> "refused"
      [] InRunning(r)                        -> "queued"
      [] InTimedOut(r)                       -> "exhausted"
      [] rx = r                              -> "answered"
      [] delivered[r] = <<"no_ack">>         -> "cb_exhausted"
      [] OTHER                               -> "cb_answered"

Abstract == INSTANCE RequestQueue WITH
                Limit <- MAX_N_SIMULTANOEUS_COMMANDS,
                phase <- [r \in Requests |-> Phase(r)]

\* The sequence of enqueue, retransmissions, acks and timeouts of every command
\* is one a bounded request queue allows.
ImplementsRequestQueue == Abstract!Spec
=============================================================================
