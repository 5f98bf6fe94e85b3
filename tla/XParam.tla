-------------------------------- MODULE XParam --------------------------------
(***************************************************************************)
(* XParam (telemetry/action/impl/xparam.cpp): the client of the MAVLink    *)
(* extended parameter protocol, over a lossy link.                         *)
(*                                                                         *)
(* Two kinds of actions are kept in two lists behind one mutex: "set" (one *)
(* parameter, like a command) and "get all" (the whole parameter set of a  *)
(* server, collected from PARAM_EXT_VALUE messages).  One timeout thread   *)
(* serves first the get-all list, then the set list, every 100 ms; the     *)
(* telemetry receive thread completes actions when answers arrive.         *)
(*                                                                         *)
(* The link loses, reorders and duplicates: what was sent may be received  *)
(* any number of times, or never.                                          *)
(***************************************************************************)
EXTENDS Integers, FiniteSets, SequencesExt

CONSTANTS
    Sets,         \* the calls of try_set_param_async / _blocking
    GetAlls,      \* the calls of try_get_param_all_async / _blocking
    Blocking,     \* those made through a _blocking function
    Servers,      \* parameter servers (system id and component id)
    ParamCount,   \* [Servers -> Nat \ {0}], the size of a server's set
    Server,       \* [Sets \cup GetAlls -> Servers], the target of a call
    Param,        \* [Sets -> parameter names (with their type)]
    Wanted,       \* [Sets \cup GetAlls -> Nat \ {0}], n_wanted_retransmissions
    MAX_N_SIMULTANOEUS_COMMANDS,
    READ_BATCH,   \* how many parameters are requested one by one (10)
    Answers,      \* <<s, result>>: the answers a server may give to a set
    Malformed,    \* PARAM_EXT_VALUE messages with an impossible index
    None

Calls == Sets \cup GetAlls
Responses == [from : Servers, count : Nat, index : Nat]

ASSUME ConstantsAssumption ==
    /\ Sets \cap GetAlls = {}
    /\ Blocking \subseteq Calls
    /\ ParamCount \in [Servers -> Nat \ {0}]
    /\ Server \in [Calls -> Servers]
    /\ DOMAIN Param = Sets
    /\ Wanted \in [Calls -> Nat \ {0}]
    /\ MAX_N_SIMULTANOEUS_COMMANDS \in Nat \ {0}
    /\ READ_BATCH \in Nat \ {0}
    /\ Answers \subseteq Sets \X {"accepted", "failed"}
    /\ Malformed \subseteq Responses
    /\ \A m \in Malformed : m.index >= m.count
    /\ None \notin Calls

VARIABLES
    caller,       \* [Calls -> CallerStates], what the call has returned
    sets,         \* m_running_commands
    getAlls,      \* m_running_get_all
    nTx,          \* [Calls -> Nat], n_transmissions
    due,          \* the calls whose retransmit_delay has elapsed
    size,         \* [GetAlls -> Nat], server_param_set.size(), 0 = not known
    got,          \* [GetAlls -> SUBSET Nat], the indices that have a value
    tpc,          \* where the timeout thread is; it holds m_mutex in a scan
    it,           \* the iterator of the scan
    timedOut,     \* timed_out_commands of the scan
    rx,           \* the call the receive thread has removed, cb not called
    rxResult,
    delivered,    \* [Calls -> Seq(Results)], the calls of each result cb
    threadRun,    \* m_timeout_thread_run
    acks,         \* every PARAM_EXT_ACK put on the link
    asked,        \* [Servers -> SUBSET Nat], the indices requested so far
    applied       \* the sets whose server has stored their value (ghost)

vars == <<caller, sets, getAlls, nTx, due, size, got, tpc, it, timedOut, rx,
          rxResult, delivered, threadRun, acks, asked, applied>>

linkVars   == <<acks, asked, applied>>
threadVars == <<tpc, it, timedOut, threadRun>>
rxVars     == <<rx, rxResult>>
setVars    == <<size, got>>

AckResults == {"accepted", "failed"}            \* mavlink_param_ext_ack_t
Results    == AckResults \cup {"no_ack"} \cup {"success", "failure"}
CallerStates == {"idle", "refused", "enqueued", "waiting",
                 "returned_true", "returned_false"}

Indices(srv) == 0..(ParamCount[srv] - 1)

\* The call has taken place and its caller was promised a callback.
Enqueued(c) == caller[c] \notin {"idle", "refused"}

\* The thread holds m_mutex while it walks a list.
MutexFree == tpc \notin {"scan_get_all", "scan_set"}

Init ==
    /\ caller = [c \in Calls |-> "idle"]
    /\ sets = <<>> /\ getAlls = <<>>
    /\ nTx = [c \in Calls |-> 0]
    /\ due = {}
    /\ size = [g \in GetAlls |-> 0]
    /\ got = [g \in GetAlls |-> {}]
    /\ tpc = "sleep" /\ it = 1 /\ timedOut = <<>>
    /\ rx = None /\ rxResult = "failed"
    /\ delivered = [c \in Calls |-> <<>>]
    /\ threadRun = TRUE
    /\ acks = {}
    /\ asked = [srv \in Servers |-> {}]
    /\ applied = {}

-----------------------------------------------------------------------------
(* Sending                                                                 *)

\* Fault: n_transmissions is not incremented.
Uncounted(c) == due' = due \ {c} /\ UNCHANGED nTx
\* Both send functions end with a new time stamp and a counted transmission.
CountTransmission(c) ==
    /\ nTx' = [nTx EXCEPT ![c] = @ + 1]
    /\ due' = due \ {c}

send_next_message_running_set(s) == CountTransmission(s) /\ UNCHANGED asked

\* get_missing_count as a set: the indices of server_param_set without a value.
Missing(g) == (0..(size[g] - 1)) \ got[g]

\* The list is requested (again) while its size is not known, or when many
\* parameters are missing.
RequestsList(g) ==
    LET n_missing == Cardinality(Missing(g))
    IN  size[g] = 0 \/ (n_missing > 2 /\ n_missing >= size[g] \div 2)

\* Otherwise the parameters 0..READ_BATCH-1 are requested one by one.
ReadIndices(g) == {i \in 0..(READ_BATCH - 1) : i < size[g]}

\* What the next message (or messages) of a running get-all asks for.
Requested(g) == IF RequestsList(g) THEN Indices(Server[g]) ELSE ReadIndices(g)

send_next_message_running_get_all(g) ==
    /\ CountTransmission(g)
    /\ asked' = [asked EXCEPT ![Server[g]] = @ \cup Requested(g)]

-----------------------------------------------------------------------------
(* Callers                                                                 *)

\* Fault: one set too many.
QueueFullTooLate == Len(sets) > MAX_N_SIMULTANOEUS_COMMANDS
QueueFull == Len(sets) >= MAX_N_SIMULTANOEUS_COMMANDS

Pending(c) == IF c \in Blocking THEN "waiting" ELSE "enqueued"

\* try_set_param_async and the first half of try_set_param_blocking.
TrySetParam(s) ==
    /\ caller[s] = "idle"
    /\ MutexFree
    /\ \/ /\ QueueFull
          /\ caller' = [caller EXCEPT ![s] = "refused"]
          /\ UNCHANGED <<sets, nTx, due, asked>>
       \/ /\ ~QueueFull
          /\ caller' = [caller EXCEPT ![s] = Pending(s)]
          /\ sets' = Append(sets, s)
          /\ send_next_message_running_set(s)
    /\ UNCHANGED <<getAlls, setVars, threadVars, rxVars, delivered, acks, applied>>

\* try_get_param_all_async: this list has no limit.
TryGetParamAll(g) ==
    /\ caller[g] = "idle"
    /\ MutexFree
    /\ caller' = [caller EXCEPT ![g] = Pending(g)]
    /\ getAlls' = Append(getAlls, g)
    /\ send_next_message_running_get_all(g)
    /\ UNCHANGED <<sets, setVars, threadVars, rxVars, delivered, acks, applied>>

\* fut.get() of a blocking call.
BlockingReturn(c) ==
    /\ caller[c] = "waiting"
    /\ delivered[c] # <<>>
    /\ caller' = [caller EXCEPT ![c] =
          IF Head(delivered[c]) \in {"accepted", "success"}
            THEN "returned_true" ELSE "returned_false"]
    /\ UNCHANGED <<sets, getAlls, nTx, due, setVars, threadVars, rxVars, delivered, linkVars>>

\* terminate() stores false and joins.
Terminate ==
    /\ threadRun
    /\ threadRun' = FALSE
    /\ UNCHANGED <<caller, sets, getAlls, nTx, due, setVars, tpc, it, timedOut, rxVars,
                   delivered, linkVars>>

-----------------------------------------------------------------------------
(* The telemetry receive thread                                            *)

\* Fault: the sender of the ack is not compared.
AckMatchesName(s, ack) == Param[s] = ack.param
\* A set is acknowledged by its own server, for its own parameter.
AckMatches(s, ack) == Param[s] = ack.param /\ Server[s] = ack.from

\* handle_param_ext_ack up to the release of the mutex: the first match of
\* find_remove_running_command_threadsafe is taken.
HandleParamExtAck(ack) ==
    /\ rx = None /\ MutexFree
    /\ \E i \in 1..Len(sets) :
          /\ AckMatches(sets[i], ack)
          /\ \A j \in 1..(i - 1) : ~AckMatches(sets[j], ack)
          /\ rx' = sets[i]
          /\ sets' = RemoveAt(sets, i)
    /\ rxResult' = ack.result
    /\ UNCHANGED <<caller, getAlls, nTx, due, setVars, threadVars, delivered, linkVars>>

\* The PARAM_EXT_VALUE messages that may arrive: the answers of the servers to
\* whatever they were asked for (external), and the impossible ones.
Served ==
    UNION {{[from |-> srv, count |-> ParamCount[srv], index |-> i] :
               i \in asked[srv]} : srv \in Servers}
OnLink == Served \cup {m \in Malformed : asked[m.from] # {}}

\* The two early returns on an impossible response.
ValidResponse(m) == m.count > 0 /\ m.index < m.count

\* What one running get-all does with a valid response.
SizeAfter(g, m) == IF size[g] = 0 THEN m.count ELSE size[g]
AlreadyHas(g, m) == size[g] > 0 /\ m.index \in got[g]
\* Fault: complete although one parameter is missing.
CompletesTooEarly(g, m) ==
    ~AlreadyHas(g, m)
    /\ Cardinality((0..(SizeAfter(g, m) - 1)) \ (got[g] \cup {m.index})) <= 1
Completes(g, m) == /\ ~AlreadyHas(g, m)
                   /\ got[g] \cup {m.index} = 0..(SizeAfter(g, m) - 1)

\* The loop of find_remove_running_command_get_all_threadsafe walks the get-alls
\* of the sender and returns at the first that has the parameter already or is
\* completed by it; every get-all it passes stores the response.
Stops(i, m) ==
    /\ i <= Len(getAlls) /\ Server[getAlls[i]] = m.from
    /\ AlreadyHas(getAlls[i], m) \/ Completes(getAlls[i], m)
ReturnsAt(i, m) ==
    /\ Stops(i, m) \/ i = Len(getAlls) + 1
    /\ \A j \in 1..(i - 1) : ~Stops(j, m)

StoredBy(i, m) ==
    {g \in GetAlls : /\ Server[g] = m.from
                     /\ \E j \in 1..Len(getAlls) : getAlls[j] = g /\ j <= i
                     /\ ~AlreadyHas(g, m)}

\* handle_param_ext_value up to the release of the mutex.
HandleParamExtValue(m) ==
    /\ rx = None /\ MutexFree
    /\ ValidResponse(m)
    /\ \E i \in 1..(Len(getAlls) + 1) :
          /\ ReturnsAt(i, m) /\ StoredBy(i, m) # {}
          /\ size' = [g \in GetAlls |-> IF g \in StoredBy(i, m) THEN SizeAfter(g, m) ELSE size[g]]
          /\ got' = [g \in GetAlls |-> IF g \in StoredBy(i, m) THEN got[g] \cup {m.index} ELSE got[g]]
          /\ \/ /\ i <= Len(getAlls) /\ Completes(getAlls[i], m)
                /\ rx' = getAlls[i] /\ rxResult' = "success"
                /\ getAlls' = RemoveAt(getAlls, i)
             \/ /\ ~(i <= Len(getAlls) /\ Completes(getAlls[i], m))
                /\ UNCHANGED <<rxVars, getAlls>>
    /\ UNCHANGED <<caller, sets, nTx, due, threadVars, delivered, linkVars>>

\* The call of the result callback, without the mutex.
ReceiveCallback ==
    /\ rx # None
    /\ delivered' = [delivered EXCEPT ![rx] = Append(@, rxResult)]
    /\ rx' = None
    /\ UNCHANGED <<caller, sets, getAlls, nTx, due, setVars, threadVars, rxResult, linkVars>>

-----------------------------------------------------------------------------
(* The timeout thread                                                      *)

\* ++it on a list of n elements; after erase() returned end() the circular list
\* of the C++ library moves on to begin().
Successor(i, n) == IF i = n + 1 THEN 1 ELSE i + 1

StartScan(where) ==
    /\ tpc' = where
    /\ it' = 1
    /\ timedOut' = <<>>
    /\ UNCHANGED <<caller, sets, getAlls, nTx, due, setVars, rxVars, delivered,
                   threadRun, linkVars>>

\* loop_timeout: sleep, then check_timeout_param_get_all.
TimeoutWake == tpc = "sleep" /\ StartScan("scan_get_all")

\* The element a scan of list is at, if it is at one.
At(where, list) == tpc = where /\ it <= Len(list)

ScanSkip(where, list) ==
    /\ At(where, list)
    /\ list[it] \notin due
    /\ it' = Successor(it, Len(list))
    /\ UNCHANGED <<caller, sets, getAlls, nTx, due, setVars, tpc, timedOut, threadRun,
                   rxVars, delivered, linkVars>>

\* n_transmissions < n_wanted_retransmissions
MayRetransmit(c) == nTx[c] < Wanted[c]

GetAllRetransmit ==
    /\ At("scan_get_all", getAlls)
    /\ getAlls[it] \in due /\ MayRetransmit(getAlls[it])
    /\ send_next_message_running_get_all(getAlls[it])
    /\ it' = Successor(it, Len(getAlls))
    /\ UNCHANGED <<caller, sets, getAlls, setVars, tpc, timedOut, threadRun, rxVars,
                   delivered, acks, applied>>

SetRetransmit ==
    /\ At("scan_set", sets)
    /\ sets[it] \in due /\ MayRetransmit(sets[it])
    /\ send_next_message_running_set(sets[it])
    /\ it' = Successor(it, Len(sets))
    /\ UNCHANGED <<caller, sets, getAlls, setVars, tpc, timedOut, threadRun, rxVars,
                   delivered, acks, applied>>

GiveUp(where, list) ==
    /\ At(where, list)
    /\ list[it] \in due /\ ~MayRetransmit(list[it])
    /\ timedOut' = Append(timedOut, list[it])
    /\ it' = Successor(it, Len(list) - 1)
    /\ UNCHANGED <<caller, nTx, due, setVars, tpc, threadRun, rxVars, delivered, linkVars>>

\* Fault: the timed out get-all is not erased.
GetAllGiveUpKeeps == GiveUp("scan_get_all", getAlls) /\ UNCHANGED <<sets, getAlls>>
GetAllGiveUp ==
    /\ GiveUp("scan_get_all", getAlls)
    /\ getAlls' = RemoveAt(getAlls, it)
    /\ UNCHANGED sets

SetGiveUp ==
    /\ GiveUp("scan_set", sets)
    /\ sets' = RemoveAt(sets, it)
    /\ UNCHANGED getAlls

\* End of a list: the mutex is released and the callbacks follow.
ScanEnd ==
    /\ \/ tpc = "scan_get_all" /\ it > Len(getAlls) /\ tpc' = "callbacks_get_all"
       \/ tpc = "scan_set" /\ it > Len(sets) /\ tpc' = "callbacks_set"
    /\ UNCHANGED <<caller, sets, getAlls, nTx, due, setVars, it, timedOut, threadRun,
                   rxVars, delivered, linkVars>>

TimeoutCallback ==
    /\ tpc \in {"callbacks_get_all", "callbacks_set"} /\ timedOut # <<>>
    /\ delivered' = [delivered EXCEPT ![Head(timedOut)] =
          Append(@, IF tpc = "callbacks_set" THEN "no_ack" ELSE "failure")]
    /\ timedOut' = Tail(timedOut)
    /\ UNCHANGED <<caller, sets, getAlls, nTx, due, setVars, tpc, it, threadRun, rxVars,
                   linkVars>>

\* After the get-alls come the sets, after the sets the loop condition.
TimeoutNext ==
    /\ timedOut = <<>>
    /\ \/ tpc = "callbacks_get_all" /\ StartScan("scan_set")
       \/ /\ tpc = "callbacks_set"
          /\ tpc' = IF threadRun THEN "sleep" ELSE "exited"
          /\ UNCHANGED <<caller, sets, getAlls, nTx, due, setVars, it, timedOut,
                         threadRun, rxVars, delivered, linkVars>>

TimeoutThread ==
    \/ TimeoutWake
    \/ ScanSkip("scan_get_all", getAlls) \/ GetAllRetransmit \/ GetAllGiveUp
    \/ ScanSkip("scan_set", sets) \/ SetRetransmit \/ SetGiveUp
    \/ ScanEnd \/ TimeoutCallback \/ TimeoutNext

-----------------------------------------------------------------------------
(* The environment: time and the parameter servers                         *)

Elapse(c) ==
    /\ c \in (ToSet(sets) \cup ToSet(getAlls)) \ due
    /\ due' = due \cup {c}
    /\ UNCHANGED <<caller, sets, getAlls, nTx, setVars, threadVars, rxVars, delivered,
                   linkVars>>

\* The server of a set receives it, stores the value or not, and acknowledges.
ServerSets(s, result) ==
    /\ <<s, result>> \in Answers
    /\ nTx[s] > 0
    /\ acks' = acks \cup {[from |-> Server[s], param |-> Param[s], result |-> result]}
    /\ applied' = IF result = "accepted" THEN applied \cup {s} ELSE applied
    /\ UNCHANGED <<caller, sets, getAlls, nTx, due, setVars, threadVars, rxVars, delivered, asked>>

Next ==
    \/ \E s \in Sets : TrySetParam(s)
    \/ \E g \in GetAlls : TryGetParamAll(g)
    \/ \E c \in Calls : BlockingReturn(c) \/ Elapse(c)
    \/ \E s \in Sets, result \in AckResults : ServerSets(s, result)
    \/ \E ack \in acks : HandleParamExtAck(ack)
    \/ \E m \in OnLink : HandleParamExtValue(m)
    \/ ReceiveCallback
    \/ TimeoutThread
    \/ Terminate

Spec == Init /\ [][Next]_vars

\* Threads are scheduled and time passes; the link and the servers owe nothing.
Fairness ==
    /\ WF_vars(TimeoutThread)
    /\ WF_vars(ReceiveCallback)
    /\ \A c \in Calls : WF_vars(Elapse(c)) /\ WF_vars(BlockingReturn(c))

FairSpec == Spec /\ Fairness

-----------------------------------------------------------------------------
(* Properties                                                              *)

TypeOK ==
    /\ caller \in [Calls -> CallerStates]
    /\ sets \in Seq(Sets) /\ getAlls \in Seq(GetAlls)
    /\ nTx \in [Calls -> Nat]
    /\ due \subseteq Calls
    /\ size \in [GetAlls -> Nat]
    /\ got \in [GetAlls -> SUBSET Nat]
    /\ tpc \in {"sleep", "scan_get_all", "callbacks_get_all", "scan_set",
                "callbacks_set", "exited"}
    /\ it \in Nat \ {0}
    /\ timedOut \in Seq(Calls)
    /\ rx \in Calls \cup {None}
    /\ rxResult \in AckResults \cup {"success"}
    /\ delivered \in [Calls -> Seq(Results)]
    /\ threadRun \in BOOLEAN
    /\ \A ack \in acks : ack.from \in Servers /\ ack.result \in AckResults
    /\ asked \in [Servers -> SUBSET Nat]
    /\ applied \subseteq Sets

InQueue(c)    == c \in ToSet(sets) \cup ToSet(getAlls)
InTimedOut(c) == c \in ToSet(timedOut)
Called(c)     == delivered[c] # <<>>

\* A call is in exactly one place: in its list, in the hands of the timeout
\* thread, in the hands of the receive thread, or its callback was called once.
\* A second call would fulfil the promise of a blocking call twice
\* (xparam.cpp:81-83, 111-117).
CompletedOnce ==
    /\ IsInjective(sets) /\ IsInjective(getAlls) /\ IsInjective(timedOut)
    /\ \A c \in Calls :
          /\ Len(delivered[c]) <= 1
          /\ Enqueued(c) <=> InQueue(c) \/ InTimedOut(c) \/ rx = c \/ Called(c)
          /\ InQueue(c)    => ~InTimedOut(c) /\ rx # c /\ ~Called(c)
          /\ InTimedOut(c) => rx # c /\ ~Called(c)
          /\ rx = c        => ~Called(c)

\* A set or get-all fails without an answer only after all its transmissions
\* (xparam.cpp:437-446, 464-472).
GiveUpExhausted ==
    \A c \in Calls :
        /\ nTx[c] <= Wanted[c]
        /\ \/ InTimedOut(c)
           \/ Called(c) /\ Head(delivered[c]) \in {"no_ack", "failure"}
           => nTx[c] = Wanted[c]

\* A get-all reports success with the complete parameter set of its own server:
\* the assertion of handle_param_ext_value (xparam.cpp:234) holds.
GetAllIsComplete ==
    \A g \in GetAlls : rx = g \/ delivered[g] = <<"success">> =>
        /\ size[g] = ParamCount[Server[g]]
        /\ got[g] = Indices(Server[g])

\* A response is never stored outside of server_param_set (xparam.cpp:294, 298):
\* a get-all with a known size is only given indices below it.
IndexInRange ==
    \A g \in GetAlls : got[g] \subseteq 0..(size[g] - 1)

\* While a get-all still misses parameters, its next transmission asks for at
\* least one of them (xparam.cpp:329 "request until we have all of them").  Does not
\* hold with more parameters than READ_BATCH, of which only later ones are missing.
RequestsSomethingMissing ==
    \A g \in ToSet(getAlls) : Missing(g) # {} => Requested(g) \cap Missing(g) # {}

\* A set is reported as accepted only if its server has stored the value.  It
\* holds when no two sets target the same parameter of a server.
AcceptedWasApplied ==
    \A s \in Sets : delivered[s] = <<"accepted">> => s \in applied

\* Every callback is eventually called, and every blocking call returns.
EveryCallCompletes ==
    \A c \in Calls : Enqueued(c) ~> (Called(c) /\ caller[c] # "waiting") \/ ~threadRun

\* The sets as their callers see them implement the abstract request queue.
Phase(s) ==
    CASE caller[s] = "idle"             -> "idle"
      [] caller[s] = "refused"          -> "refused"
      [] InQueue(s)                     -> "queued"
      [] InTimedOut(s)                  -> "exhausted"
      [] rx = s                         -> "answered"
      [] delivered[s] = <<"no_ack">>    -> "cb_exhausted"
      [] OTHER                          -> "cb_answered"

Abstract == INSTANCE RequestQueue WITH
                Requests <- Sets,
                Limit <- MAX_N_SIMULTANOEUS_COMMANDS,
                phase <- [s \in Sets |-> Phase(s)]

\* Refusal, retransmission, acknowledgement and timeout of the sets follow the
\* abstract queue, although the same threads serve the get-alls.
SetsImplementRequestQueue == Abstract!Spec
=============================================================================
