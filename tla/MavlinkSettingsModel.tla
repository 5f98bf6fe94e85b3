------------------------ MODULE MavlinkSettingsModel ------------------------
(***************************************************************************)
(* One MavlinkSettingsModel (telemetry/settings/mavlinksettingsmodel.cpp): *)
(* the parameters of an OpenHD unit as the user sees and edits them.       *)
(*                                                                         *)
(* The UI thread starts get-alls and sets, blocks in try_update_parameter, *)
(* and runs the queued replacements of the whole set; the receive thread   *)
(* starts get-alls, too (AOHDSystem's autofetch).  The callbacks of        *)
(* XParam run on the telemetry receive thread or on XParam's timeout       *)
(* thread; that of a set writes the cached value itself, that of a get-all *)
(* queues a replacement.  XParam's sets go through the phases of the       *)
(* RequestQueue it is shown to implement; its get-alls collect one value   *)
(* after the other.  An ack names a parameter and not the set it answers:  *)
(* it completes the first running set of that parameter, whoever made it.  *)
(***************************************************************************)
EXTENDS Naturals, Sequences, FiniteSets, SequencesExt

CONSTANTS
    Params,        \* parameter names
    Whitelisted,   \* those never shown (they need synchronization)
    Values,        \* parameter values
    Start,         \* [Params -> Values], what the server starts with
    CellsParam,    \* "FC_BATT_N_CELLS"
    Positive,      \* the values that are positive integers
    DefaultCells,  \* the default of the setting vehicle_battery_n_cells (3)
    GetAlls,       \* the calls of try_refetch_all_parameters_async
    Autofetch,     \* those made by the autofetch
    Sets,          \* the calls that change a parameter
    Blocking,      \* those made through try_update_parameter_int / _string
    Others,        \* sets made by other parts of the program
    Param,         \* the parameter a set is of, or Absent: one of another unit
    Value,         \* [Sets \cup Others -> Values]
    Limit,         \* MAX_N_SIMULTANOEUS_COMMANDS of XParam
    Absent         \* no row, no value

Requests == Sets \cup Others

ASSUME ConstantsAssumption ==
    /\ Whitelisted \subseteq Params
    /\ Start \in [Params -> Values]
    /\ CellsParam \in Params /\ Positive \subseteq Values /\ DefaultCells \notin Values
    /\ Autofetch \subseteq GetAlls
    /\ Blocking \subseteq Sets
    /\ Param \in [Requests -> Params \cup {Absent}]
    /\ \A s \in Sets : Param[s] \in Params \ Whitelisted
    /\ Value \in [Requests -> Values]
    /\ Sets \cap Others = {} /\ Sets \cap GetAlls = {}
    /\ Limit \in Nat \ {0}
    /\ Absent \notin Values \cup Params

VARIABLES
    phase,         \* of every set, see RequestQueue
    list,          \* m_running_commands of XParam
    result,        \* [Requests -> {"none"} \cup AckResults], of the ack that ended a set
    acks,          \* every PARAM_EXT_ACK put on the link
    outcome,       \* [Sets -> {"none", "success", "failure"}], what the user is told
    ready,         \* m_is_ready: the unit was discovered
    busy,          \* m_is_currently_busy
    fetched,       \* has_params_fetched
    cache,         \* m_data, [Params -> Values \cup {Absent}]
    cells,         \* the setting vehicle_battery_n_cells
    getall,        \* [GetAlls -> {"idle", "tested", "running", "done"}]
    collected,     \* [GetAlls -> [Params -> Values \cup {Absent}]], its answers
    uiQueue,       \* the queued signal_ui_thread_replace_param_set
    uiWaits,       \* the blocking set the UI thread waits for, or Absent
    server,        \* [Params -> Values], the parameters of the unit
    served         \* [Params -> SUBSET Values], all values they ever had (ghost)

rows == <<cache, cells>>
unit == <<server, served>>
xparam == <<list, result, acks>>
vars == <<phase, xparam, outcome, ready, busy, fetched, rows, getall, collected, uiQueue,
          uiWaits, unit>>

Queue == INSTANCE RequestQueue

AckResults == {"accepted", "failed"}

NoRows == [p \in Params |-> Absent]

Init ==
    /\ Queue!Init
    /\ list = <<>> /\ acks = {}
    /\ result = [r \in Requests |-> "none"] /\ outcome = [s \in Sets |-> "none"]
    /\ ready = FALSE /\ busy = FALSE /\ fetched = FALSE
    /\ cache = NoRows /\ cells = DefaultCells
    /\ getall = [g \in GetAlls |-> "idle"] /\ collected = [g \in GetAlls |-> NoRows]
    /\ uiQueue = <<>> /\ uiWaits = Absent
    /\ server = Start /\ served = [p \in Params |-> {Start[p]}]

-----------------------------------------------------------------------------
(* Rows of the model                                                       *)

\* perform_dirty_actions: the number of cells is taken over from the unit.
perform_dirty_actions(p, v) == IF p = CellsParam /\ v \in Positive THEN v ELSE cells

\* updateData: only a row that exists is changed.
updateData(p, v) ==
    /\ cells' = perform_dirty_actions(p, v)
    /\ cache' = IF cache[p] = Absent THEN cache ELSE [cache EXCEPT ![p] = v]

\* addData leaves out the whitelisted parameters.
AddedRows(set) == [p \in Params |-> IF p \in Whitelisted THEN Absent ELSE set[p]]

\* ui_thread_replace_param_set removes all rows and adds the new ones.
ui_thread_replace_param_set(set) ==
    /\ cells' = perform_dirty_actions(CellsParam, set[CellsParam])
    /\ cache' = AddedRows(set)

-----------------------------------------------------------------------------
(* try_set_param_async of XParam                                           *)

Enqueue(r) == Queue!Accept(r) /\ list' = Append(list, r)
Reject(r)  == Queue!Refuse(r) /\ UNCHANGED list

-----------------------------------------------------------------------------
(* Requests, of the UI thread unless stated otherwise                      *)

UiRuns == uiWaits = Absent

\* A message of the unit arrives: set_ready.
Discovered ==
    /\ ~ready /\ ready' = TRUE
    /\ UNCHANGED <<phase, xparam, outcome, busy, fetched, rows, getall, collected, uiQueue,
                   uiWaits, unit>>

\* The tests of try_refetch_all_parameters_async: discovered and not busy.
MayRefetch == ready /\ ~busy

StartGetAll(g) ==
    /\ busy' = TRUE
    /\ getall' = [getall EXCEPT ![g] = "running"]
    /\ UNCHANGED <<phase, xparam, outcome, ready, fetched, rows, collected, uiQueue, uiWaits,
                   unit>>

\* try_refetch_all_parameters_async of the user
TryRefetchAll(g) ==
    /\ UiRuns /\ g \notin Autofetch /\ getall[g] = "idle"
    /\ MayRefetch
    /\ StartGetAll(g)

\* Nothing makes the test and the assignment of the flag one step.  Those of the
\* receive thread are two here, so that those of the UI thread come in between.
AutofetchTests(g) ==
    /\ g \in Autofetch /\ getall[g] = "idle" /\ ~fetched
    /\ MayRefetch
    /\ getall' = [getall EXCEPT ![g] = "tested"]
    /\ UNCHANGED <<phase, xparam, outcome, ready, busy, fetched, rows, collected, uiQueue,
                   uiWaits, unit>>

AutofetchStarts(g) == getall[g] = "tested" /\ StartGetAll(g)

\* The early return of try_set_param_*_async.
RejectsAsBusy == busy

\* try_set_param_int_async, try_set_param_string_async.  What try_set_param_async
\* returns is not looked at.
TrySetParamAsync(s) ==
    /\ UiRuns /\ s \notin Blocking /\ phase[s] = "idle" /\ outcome[s] = "none"
    /\ \/ /\ RejectsAsBusy
          /\ outcome' = [outcome EXCEPT ![s] = "failure"]
          /\ UNCHANGED <<phase, list, busy>>
       \/ /\ ~RejectsAsBusy
          /\ busy' = TRUE
          /\ Enqueue(s) \/ Reject(s)
          /\ UNCHANGED outcome
    /\ UNCHANGED <<result, acks, ready, fetched, rows, getall, collected, uiQueue, uiWaits,
                   unit>>

\* try_update_parameter_int / _string up to the wait: busy is set, not tested.
TryUpdateParameter(s) ==
    /\ UiRuns /\ s \in Blocking /\ phase[s] = "idle"
    /\ \/ Enqueue(s) /\ uiWaits' = s /\ busy' = TRUE /\ UNCHANGED outcome
       \/ /\ Reject(s) /\ busy' = FALSE
          /\ outcome' = [outcome EXCEPT ![s] = "failure"]
          /\ UNCHANGED uiWaits
    /\ UNCHANGED <<result, acks, ready, fetched, rows, getall, collected, uiQueue, unit>>

\* Fault: any answer is taken for a success.
SucceedsWhenAnswered(s) == phase[s] = "cb_answered"
\* SetParamResult::SUCCESS of the blocking call.
Succeeds(s) == phase[s] = "cb_answered" /\ result[s] = "accepted"

\* ... and after it.
TryUpdateParameterReturns(s) ==
    /\ uiWaits = s /\ phase[s] \in {"cb_answered", "cb_exhausted"}
    /\ uiWaits' = Absent
    /\ busy' = FALSE
    /\ \/ /\ Succeeds(s)
          /\ outcome' = [outcome EXCEPT ![s] = "success"]
          /\ updateData(Param[s], Value[s])
       \/ /\ ~Succeeds(s)
          /\ outcome' = [outcome EXCEPT ![s] = "failure"]
          /\ UNCHANGED rows
    /\ UNCHANGED <<phase, xparam, ready, fetched, getall, collected, uiQueue, unit>>

\* The event loop runs ui_thread_replace_param_set.
UiReplace ==
    /\ UiRuns /\ uiQueue # <<>>
    /\ ui_thread_replace_param_set(Head(uiQueue))
    /\ uiQueue' = Tail(uiQueue)
    /\ UNCHANGED <<phase, xparam, outcome, ready, busy, fetched, getall, collected, uiWaits,
                   unit>>

-----------------------------------------------------------------------------
(* Callbacks of XParam                                                     *)

\* Fault: the cached value follows whatever the answer was.
CacheAlways(s) == updateData(Param[s], Value[s])
\* The cached parameters after the result callback of an asynchronous set.
CacheAfter(s) ==
    IF phase[s] = "answered" /\ result[s] = "accepted"
      THEN updateData(Param[s], Value[s]) ELSE UNCHANGED rows

\* What finalize_update_param is given.
OutcomeOf(s) ==
    IF phase[s] = "answered" /\ result[s] = "accepted" THEN "success" ELSE "failure"

\* The result callback of a set; that of a blocking one fulfils its promise.
SetCallback(s) ==
    /\ Queue!Call(s)
    /\ \/ s \in Blocking /\ UNCHANGED <<busy, outcome, rows>>
       \/ /\ s \notin Blocking
          /\ CacheAfter(s)
          /\ busy' = FALSE
          /\ outcome' = [outcome EXCEPT ![s] = OutcomeOf(s)]
    /\ UNCHANGED <<xparam, ready, fetched, getall, collected, uiQueue, uiWaits, unit>>

\* The result callback of a get-all that has all values, or gave up.
GetAllSuccess(g) ==
    /\ getall[g] = "running" /\ \A p \in Params : collected[g][p] # Absent
    /\ getall' = [getall EXCEPT ![g] = "done"]
    /\ uiQueue' = Append(uiQueue, collected[g])
    /\ fetched' = TRUE
    /\ busy' = FALSE
    /\ UNCHANGED <<phase, xparam, outcome, ready, rows, collected, uiWaits, unit>>

\* Fault: the flag is cleared on success only.
GetAllFailureStaysBusy(g) ==
    /\ getall[g] = "running" /\ getall' = [getall EXCEPT ![g] = "done"]
    /\ UNCHANGED <<phase, xparam, outcome, ready, busy, fetched, rows, collected, uiQueue, uiWaits,
                   unit>>

GetAllFailure(g) ==
    /\ getall[g] = "running"
    /\ getall' = [getall EXCEPT ![g] = "done"]
    /\ busy' = FALSE
    /\ UNCHANGED <<phase, xparam, outcome, ready, fetched, rows, collected, uiQueue, uiWaits, unit>>

-----------------------------------------------------------------------------
(* XParam, the server and the other users of XParam                        *)

\* A value of the parameter set arrives.
GetAllValue(g, p) ==
    /\ getall[g] = "running" /\ collected[g][p] = Absent
    /\ collected' = [collected EXCEPT ![g][p] = server[p]]
    /\ UNCHANGED <<phase, xparam, outcome, ready, busy, fetched, rows, getall, uiQueue, uiWaits, unit>>

\* The calls of try_set_param_async that enqueued something.
Made == {r \in Requests : phase[r] \notin {"idle", "refused"}}

\* The unit receives a transmission of a set, at any time after it was sent and any
\* number of times; it stores the value, or does not, and acknowledges the name.
ServerSets(r, answer) ==
    /\ r \in Made
    /\ acks' = acks \cup {[param |-> Param[r], result |-> answer]}
    /\ \/ /\ answer = "accepted" /\ Param[r] # Absent
          /\ server' = [server EXCEPT ![Param[r]] = Value[r]]
          /\ served' = [served EXCEPT ![Param[r]] = @ \cup {Value[r]}]
       \/ answer = "failed" /\ UNCHANGED unit
       \/ Param[r] = Absent /\ UNCHANGED unit
    /\ UNCHANGED <<phase, list, result, outcome, ready, busy, fetched, rows, getall, collected,
                   uiQueue, uiWaits>>

\* Name, type and sender are compared; neither the value nor a number of the set is.
AckMatches(r, a) == Param[r] = a.param

\* find_remove_running_command_threadsafe: the first match of the list is removed.
HandleParamExtAck(a) ==
    /\ \E i \in 1..Len(list) :
          /\ AckMatches(list[i], a)
          /\ \A j \in 1..(i - 1) : ~AckMatches(list[j], a)
          /\ Queue!Decide(list[i]) /\ phase'[list[i]] = "answered"
          /\ result' = [result EXCEPT ![list[i]] = a.result]
          /\ list' = RemoveAt(list, i)
    /\ UNCHANGED <<acks, outcome, ready, busy, fetched, rows, getall, collected, uiQueue,
                   uiWaits, unit>>

\* The transmissions of a set are exhausted.
XParamGivesUp(r) ==
    /\ \E i \in 1..Len(list) : list[i] = r /\ list' = RemoveAt(list, i)
    /\ Queue!Decide(r) /\ phase'[r] = "exhausted"
    /\ UNCHANGED <<result, acks, outcome, ready, busy, fetched, rows, getall, collected, uiQueue,
                   uiWaits, unit>>

\* A set of another user of XParam; what it does with the result changes nothing here.
OtherSet(o) ==
    /\ Enqueue(o)
    /\ UNCHANGED <<result, acks, outcome, ready, busy, fetched, rows, getall, collected, uiQueue,
                   uiWaits, unit>>

Next ==
    \/ Discovered
    \/ \E g \in GetAlls : TryRefetchAll(g) \/ GetAllSuccess(g) \/ GetAllFailure(g)
    \/ \E g \in Autofetch : AutofetchTests(g) \/ AutofetchStarts(g)
    \/ \E g \in GetAlls, p \in Params : GetAllValue(g, p)
    \/ \E s \in Sets : TrySetParamAsync(s) \/ SetCallback(s)
    \/ \E s \in Blocking : TryUpdateParameter(s) \/ TryUpdateParameterReturns(s)
    \/ \E r \in Requests, answer \in AckResults : ServerSets(r, answer)
    \/ \E a \in acks : HandleParamExtAck(a)
    \/ \E r \in Requests : XParamGivesUp(r)
    \/ \E o \in Others : OtherSet(o)
    \/ UiReplace

Spec == Init /\ [][Next]_vars

\* XParam gives up what is not answered (EveryCallCompletes of XParam) and the UI
\* thread runs; the server owes nothing.
Fairness ==
    /\ \A s \in Sets : /\ WF_vars(XParamGivesUp(s)) /\ WF_vars(SetCallback(s))
                       /\ WF_vars(TryUpdateParameterReturns(s))
    /\ \A g \in GetAlls : WF_vars(GetAllSuccess(g) \/ GetAllFailure(g))
    /\ WF_vars(UiReplace)

FairSpec == Spec /\ Fairness

-----------------------------------------------------------------------------
(* Properties                                                              *)

TypeOK ==
    /\ phase \in [Requests -> Queue!Phases]
    /\ list \in Seq(Requests)
    /\ result \in [Requests -> {"none"} \cup AckResults]
    /\ acks \subseteq [param : Params \cup {Absent}, result : AckResults]
    /\ outcome \in [Sets -> {"none", "success", "failure"}]
    /\ ready \in BOOLEAN /\ busy \in BOOLEAN /\ fetched \in BOOLEAN
    /\ cells \in Positive \cup {DefaultCells}
    /\ cache \in [Params -> Values \cup {Absent}]
    /\ getall \in [GetAlls -> {"idle", "tested", "running", "done"}]
    /\ collected \in [GetAlls -> [Params -> Values \cup {Absent}]]
    /\ uiQueue \in Seq([Params -> Values])
    /\ uiWaits \in Blocking \cup {Absent}
    /\ server \in [Params -> Values]
    /\ served \in [Params -> SUBSET Values]

InFlight ==
    {s \in Sets : phase[s] \in {"queued", "answered", "exhausted"}}
    \cup {g \in GetAlls : getall[g] = "running"}

\* As long as only the asynchronous functions are used and the autofetch has not
\* begun, one request of the model is in flight at a time, and busy is set as
\* long as it is, although the flag is cleared by callbacks on other threads
\* (mavlinksettingsmodel.cpp:115, 177).
OnlyAsync == /\ \A s \in Blocking : phase[s] = "idle"
             /\ \A g \in Autofetch : getall[g] = "idle"
OneRequestAtATime ==
    OnlyAsync => Cardinality(InFlight) <= 1 /\ (InFlight # {} => busy)

\* All sets of p made so far ask for one value: retries, and what another part of the
\* program changes alike.
Agreed(p) == \A q, r \in Made : Param[q] = p /\ Param[r] = p => Value[q] = Value[r]

\* Every value shown was at some time the unit's: a value that the unit rejected or never
\* received is not, whatever ack of whose set, late or repeated, completed the set
\* (mavlinksettingsmodel.cpp:186-192, xparam.cpp:253).  The same holds for the number of
\* cells that is stored in the settings (line 675).  For parameters of which different
\* values are asked it does not hold, see ShowsOnlyServed.
ShownWasServed ==
    /\ \A p \in Params : cache[p] # Absent /\ Agreed(p) => cache[p] \in served[p]
    /\ cells # DefaultCells /\ Agreed(CellsParam) => cells \in served[CellsParam]

\* After a fetch, exactly the parameters that are not whitelisted have a row.
FetchedIsComplete ==
    fetched /\ uiQueue = <<>> =>
        \A p \in Params : (cache[p] = Absent) <=> (p \in Whitelisted)

\* A success the user is told of is one: the unit stored the value (lines 162, 196), if
\* all who changed the parameter asked for that value.
SuccessWasStored ==
    \A s \in Sets : outcome[s] = "success" /\ Agreed(Param[s]) => Value[s] \in served[Param[s]]

\* The same without the condition.  Does not hold: the ack of another set of the
\* parameter, or a second one of an earlier set, completes this one (xparam.cpp:253).
ShowsOnlyServed == \A p \in Params : cache[p] # Absent => cache[p] \in served[p]

\* "first updates the parameter on the server via XParam ... then updates the
\* internal cached parameter" (mavlinksettingsmodel.h:59-60): once everything has
\* settled, the rows show the parameters of the unit, if no set went unanswered.  Does not
\* hold: a queued replacement of the rows may overwrite a later set.
Quiet == InFlight = {} /\ uiQueue = <<>> /\ uiWaits = Absent
Unanswered == \E r \in Requests : phase[r] \in {"exhausted", "cb_exhausted"}
RowsAreTheUnits ==
    Quiet /\ ~Unanswered => \A p \in Params : cache[p] # Absent => cache[p] = server[p]

\* "Busy, please try again later" (mavlinksettingsmodel.cpp:117): later it works,
\* unless XParam refused an asynchronous set, which leaves the flag set (line 198).
BusyEnds == busy ~> (~busy \/ \E s \in Sets \ Blocking : phase[s] = "refused")

\* The user is told how every asynchronous set ended
\* (finalize_update_param, mavlinksettingsmodel.cpp:652).
EverySetIsReported ==
    \A s \in Sets \ Blocking : (phase[s] = "queued") ~> (outcome[s] # "none")
=============================================================================
