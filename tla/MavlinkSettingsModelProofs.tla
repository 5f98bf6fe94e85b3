--------------------- MODULE MavlinkSettingsModelProofs ---------------------
(***************************************************************************)
(* Proofs about MavlinkSettingsModel, for any parameters, values, requests *)
(* and limit of XParam: what the user is shown and told of the parameters  *)
(* of a unit is, or was, true of the unit.                                 *)
(***************************************************************************)
EXTENDS MavlinkSettingsModel, ListTheorems

-----------------------------------------------------------------------------
(* Types                                                                   *)

\* The queue of XParam moves requests between the phases.
LEMMA QueueTypes ==
    ASSUME phase \in [Requests -> Queue!Phases], NEW r \in Requests,
           Queue!Accept(r) \/ Queue!Refuse(r) \/ Queue!Decide(r) \/ Queue!Call(r)
    PROVE  /\ phase' \in [Requests -> Queue!Phases]
           /\ \A q \in Requests \ {r} : phase'[q] = phase[q]
  BY DEF Queue!Phases, Queue!Accept, Queue!Refuse, Queue!Decide, Queue!Call

\* The list of XParam, too, when a request is handed over.
LEMMA EnqueueTypes ==
    ASSUME TypeOK, NEW r \in Requests, Enqueue(r) \/ Reject(r)
    PROVE  /\ phase' \in [Requests -> Queue!Phases] /\ list' \in Seq(Requests)
           /\ \A q \in Requests \ {r} : phase'[q] = phase[q]
  <1>1. Queue!Accept(r) \/ Queue!Refuse(r)
    BY DEF Enqueue, Reject
  <1>2. list \in Seq(Requests) /\ (list' = Append(list, r) \/ list' = list)
    BY DEF TypeOK, Enqueue, Reject
  <1>3. list' \in Seq(Requests)
    BY <1>2
  <1> QED
    BY <1>1, <1>3, QueueTypes DEF TypeOK

\* What the decision of a set changes.
LEMMA DecideFacts ==
    ASSUME TypeOK, NEW a \in acks, HandleParamExtAck(a)
    PROVE  \E r \in Requests :
              /\ Queue!Decide(r) /\ phase'[r] = "answered" /\ AckMatches(r, a)
              /\ result' = [result EXCEPT ![r] = a.result]
              /\ list' \in Seq(Requests)
  <1>1. PICK i \in 1..Len(list) :
            /\ AckMatches(list[i], a)
            /\ Queue!Decide(list[i]) /\ phase'[list[i]] = "answered"
            /\ result' = [result EXCEPT ![list[i]] = a.result]
            /\ list' = RemoveAt(list, i)
    BY DEF HandleParamExtAck
  <1>2. list[i] \in Requests /\ list' \in Seq(Requests)
    BY <1>1, RemoveAtFacts DEF TypeOK
  <1> QED
    BY <1>1, <1>2

\* What giving up changes.
LEMMA GiveUpFacts ==
    ASSUME TypeOK, NEW r \in Requests, XParamGivesUp(r)
    PROVE  list' \in Seq(Requests) /\ Queue!Decide(r)
  BY RemoveAtFacts DEF XParamGivesUp, TypeOK

\* The number of cells is a positive value or the default.
LEMMA CellsTypes ==
    ASSUME TypeOK, NEW p, NEW v
    PROVE  perform_dirty_actions(p, v) \in Positive \cup {DefaultCells}
  BY DEF TypeOK, perform_dirty_actions

\* Both ways to change the rows keep their types.
LEMMA UpdateTypes ==
    ASSUME TypeOK, NEW p \in Params, NEW v \in Values, updateData(p, v)
    PROVE  cells' \in Positive \cup {DefaultCells} /\ cache' \in [Params -> Values \cup {Absent}]
  BY CellsTypes DEF TypeOK, updateData

\* A replaced set of rows, and the cells it sets.
LEMMA ReplaceTypes ==
    ASSUME TypeOK, NEW set \in [Params -> Values], ui_thread_replace_param_set(set)
    PROVE  cells' \in Positive \cup {DefaultCells} /\ cache' \in [Params -> Values \cup {Absent}]
  BY CellsTypes DEF ui_thread_replace_param_set, AddedRows

\* The model before its unit is discovered has the types.
LEMMA InitTypeOK == Init => TypeOK
  <1> SUFFICES ASSUME Init PROVE TypeOK
    OBVIOUS
  <1>1. phase \in [Requests -> Queue!Phases]
    BY DEF Init, Queue!Init, Queue!Phases
  <1>2. NoRows \in [Params -> Values \cup {Absent}]
    BY DEF NoRows
  <1>3. /\ cache \in [Params -> Values \cup {Absent}]
        /\ collected \in [GetAlls -> [Params -> Values \cup {Absent}]]
    BY <1>2 DEF Init
  <1>4. server \in [Params -> Values] /\ served \in [Params -> SUBSET Values]
    BY ConstantsAssumption DEF Init
  <1>5. uiQueue \in Seq([Params -> Values]) /\ list \in Seq(Requests)
    BY DEF Init
  <1> QED
    BY <1>1, <1>3, <1>4, <1>5 DEF Init, TypeOK

\* Every variable keeps its type.
LEMMA NextTypeOK == TypeOK /\ [Next]_vars => TypeOK'
  <1> SUFFICES ASSUME TypeOK, [Next]_vars PROVE TypeOK'
    OBVIOUS
  <1> USE DEF rows, unit, xparam
  <1>0. Sets \subseteq Requests /\ Others \subseteq Requests /\ Blocking \subseteq Sets /\ Autofetch \subseteq GetAlls
    BY ConstantsAssumption DEF Requests
  <1>1. CASE Discovered
    BY <1>1 DEF Discovered, TypeOK
  <1>2. ASSUME NEW g \in GetAlls, StartGetAll(g) PROVE TypeOK'
    BY <1>2 DEF StartGetAll, TypeOK
  <1>3. ASSUME NEW g \in GetAlls, TryRefetchAll(g) PROVE TypeOK'
    BY <1>2, <1>3 DEF TryRefetchAll
  <1>4. ASSUME NEW g \in Autofetch, AutofetchTests(g) PROVE TypeOK'
    BY <1>0, <1>4 DEF AutofetchTests, TypeOK
  <1>5. ASSUME NEW g \in Autofetch, AutofetchStarts(g) PROVE TypeOK'
    BY <1>0, <1>2, <1>5 DEF AutofetchStarts
  <1>6. ASSUME NEW s \in Sets, TrySetParamAsync(s) PROVE TypeOK'
    <2>1. phase' \in [Requests -> Queue!Phases] /\ busy' \in BOOLEAN
          /\ outcome' \in [Sets -> {"none", "success", "failure"}]
          /\ list' \in Seq(Requests)
      BY <1>0, <1>6, EnqueueTypes DEF TrySetParamAsync, TypeOK
    <2> QED
      BY <1>6, <2>1 DEF TrySetParamAsync, TypeOK
  <1>7. ASSUME NEW s \in Blocking, TryUpdateParameter(s) PROVE TypeOK'
    <2>1. phase' \in [Requests -> Queue!Phases] /\ busy' \in BOOLEAN
          /\ outcome' \in [Sets -> {"none", "success", "failure"}]
          /\ uiWaits' \in Blocking \cup {Absent} /\ list' \in Seq(Requests)
      BY <1>0, <1>7, EnqueueTypes DEF TryUpdateParameter, TypeOK
    <2> QED
      BY <1>7, <2>1 DEF TryUpdateParameter, TypeOK
  <1>8. ASSUME NEW s \in Blocking, TryUpdateParameterReturns(s) PROVE TypeOK'
    <2>1. Param[s] \in Params /\ Value[s] \in Values
      BY <1>0, ConstantsAssumption
    <2>2. cells' \in Positive \cup {DefaultCells} /\ cache' \in [Params -> Values \cup {Absent}]
      BY <1>8, <2>1, UpdateTypes DEF TryUpdateParameterReturns, TypeOK
    <2>3. outcome' \in [Sets -> {"none", "success", "failure"}]
      BY <1>8 DEF TryUpdateParameterReturns, TypeOK
    <2> QED
      BY <1>8, <2>2, <2>3 DEF TryUpdateParameterReturns, TypeOK
  <1>9. CASE UiReplace
    <2>1. Head(uiQueue) \in [Params -> Values] /\ uiQueue' \in Seq([Params -> Values])
      BY <1>9 DEF UiReplace, TypeOK
    <2>2. cells' \in Positive \cup {DefaultCells} /\ cache' \in [Params -> Values \cup {Absent}]
      BY <1>9, <2>1, ReplaceTypes DEF UiReplace
    <2> QED
      BY <1>9, <2>1, <2>2 DEF UiReplace, TypeOK
  <1>10. ASSUME NEW s \in Sets, SetCallback(s) PROVE TypeOK'
    <2>1. Param[s] \in Params /\ Value[s] \in Values
      BY <1>0, ConstantsAssumption
    <2>2. phase' \in [Requests -> Queue!Phases]
      BY <1>0, <1>10, QueueTypes DEF SetCallback, TypeOK
    <2>3. cells' \in Positive \cup {DefaultCells} /\ cache' \in [Params -> Values \cup {Absent}]
      BY <1>10, <2>1, UpdateTypes DEF SetCallback, CacheAfter, TypeOK
    <2>4. busy' \in BOOLEAN /\ outcome' \in [Sets -> {"none", "success", "failure"}]
      BY <1>10 DEF SetCallback, OutcomeOf, TypeOK
    <2> QED
      BY <1>10, <2>2, <2>3, <2>4 DEF SetCallback, TypeOK
  <1>11. ASSUME NEW g \in GetAlls, GetAllSuccess(g) PROVE TypeOK'
    <2>1. collected[g] \in [Params -> Values]
      BY <1>11 DEF GetAllSuccess, TypeOK
    <2>2. uiQueue' \in Seq([Params -> Values])
      BY <1>11, <2>1 DEF GetAllSuccess, TypeOK
    <2> QED
      BY <1>11, <2>2 DEF GetAllSuccess, TypeOK
  <1>12. ASSUME NEW g \in GetAlls, GetAllFailure(g) PROVE TypeOK'
    BY <1>12 DEF GetAllFailure, TypeOK
  <1>13. ASSUME NEW g \in GetAlls, NEW p \in Params, GetAllValue(g, p) PROVE TypeOK'
    <2>1. server[p] \in Values \cup {Absent}
      BY DEF TypeOK
    <2>2. collected' \in [GetAlls -> [Params -> Values \cup {Absent}]]
      BY <1>13, <2>1 DEF GetAllValue, TypeOK
    <2> QED
      BY <1>13, <2>2 DEF GetAllValue, TypeOK
  <1>14. ASSUME NEW r \in Requests, NEW answer \in AckResults, ServerSets(r, answer)
         PROVE  TypeOK'
    <2>1. Param[r] \in Params \cup {Absent} /\ Value[r] \in Values
      BY ConstantsAssumption
    <2> DEFINE unitTypes == server' \in [Params -> Values] /\ served' \in [Params -> SUBSET Values]
    <2>2. ASSUME Param[r] \in Params /\ server' = [server EXCEPT ![Param[r]] = Value[r]]
                 /\ served' = [served EXCEPT ![Param[r]] = @ \cup {Value[r]}]
          PROVE  unitTypes
      BY <2>1, <2>2 DEF TypeOK
    <2>3. ASSUME UNCHANGED unit PROVE unitTypes
      BY <2>3 DEF TypeOK
    <2>4. unitTypes
      BY <1>14, <2>1, <2>2, <2>3 DEF ServerSets
    <2>5. acks' = acks \cup {[param |-> Param[r], result |-> answer]}
      BY <1>14 DEF ServerSets
    <2>6. acks' \subseteq [param : Params \cup {Absent}, result : AckResults]
      BY <2>1, <2>5 DEF TypeOK
    <2>7. UNCHANGED <<phase, list, result, outcome, ready, busy, fetched, rows, getall, collected,
                      uiQueue, uiWaits>>
      BY <1>14 DEF ServerSets
    <2> QED
      BY <2>4, <2>6, <2>7 DEF TypeOK
  <1>15. ASSUME NEW a \in acks, HandleParamExtAck(a) PROVE TypeOK'
    <2>1. PICK r \in Requests : /\ Queue!Decide(r) /\ list' \in Seq(Requests)
                               /\ result' = [result EXCEPT ![r] = a.result]
      BY <1>15, DecideFacts
    <2>2. phase' \in [Requests -> Queue!Phases]
      BY <2>1, QueueTypes DEF TypeOK
    <2>3. result' \in [Requests -> {"none"} \cup AckResults]
      BY <2>1 DEF TypeOK
    <2> QED
      BY <1>15, <2>1, <2>2, <2>3 DEF HandleParamExtAck, TypeOK
  <1>16. ASSUME NEW r \in Requests, XParamGivesUp(r) PROVE TypeOK'
    <2>1. phase' \in [Requests -> Queue!Phases] /\ list' \in Seq(Requests)
      BY <1>16, GiveUpFacts, QueueTypes DEF TypeOK
    <2> QED
      BY <1>16, <2>1 DEF XParamGivesUp, TypeOK
  <1>17. ASSUME NEW o \in Others, OtherSet(o) PROVE TypeOK'
    <2>1. phase' \in [Requests -> Queue!Phases] /\ list' \in Seq(Requests)
      BY <1>0, <1>17, EnqueueTypes DEF OtherSet
    <2> QED
      BY <1>17, <2>1 DEF OtherSet, TypeOK
  <1>18. CASE UNCHANGED vars
    BY <1>18 DEF vars, TypeOK
  <1> QED
    BY <1>1, <1>3, <1>4, <1>5, <1>6, <1>7, <1>8, <1>9, <1>10, <1>11, <1>12, <1>13, <1>14,
       <1>15, <1>16, <1>18, <1>17 DEF Next

\* Every variable of the settings model keeps its type: a queued replacement is a whole
\* parameter set, and the number of cells stored is a positive one or the default.
THEOREM TypeCorrect == Spec => []TypeOK
  BY InitTypeOK, NextTypeOK, PTL DEF Spec

-----------------------------------------------------------------------------
(***************************************************************************)
(* What is shown.  Every copy of a value on its way from the unit to the   *)
(* user is one the unit had: collected, queued or shown.  An ack says less *)
(* than that: some set of the parameter it names was stored, whichever set *)
(* it completes.  If all sets of the parameter ask for one value, that is  *)
(* the value of the completed one.                                         *)
(***************************************************************************)
WasServed(set) == \A p \in Params : set[p] # Absent => set[p] \in served[p]

CopiesWereServed ==
    /\ WasServed(server)
    /\ \A g \in GetAlls : WasServed(collected[g])
    /\ \A i \in 1..Len(uiQueue) : WasServed(uiQueue[i])

\* A set of p that the unit stored.
StoredBy(q, p) == q \in Made /\ Param[q] = p /\ Value[q] \in served[p]

AcksAreTrue ==
    /\ \A a \in acks : a.result = "accepted" /\ a.param # Absent =>
           \E q \in Requests : StoredBy(q, a.param)
    /\ \A r \in Requests : result[r] = "accepted" /\ Param[r] # Absent =>
           r \in Made /\ \E q \in Requests : StoredBy(q, Param[r])

ServedInv == CopiesWereServed /\ AcksAreTrue /\ ShownWasServed /\ SuccessWasStored

\* There are no copies yet.
LEMMA InitServedInv == Init => ServedInv
  <1> SUFFICES ASSUME Init PROVE ServedInv
    OBVIOUS
  <1>1. uiQueue = <<>> /\ Len(<<>>) = 0
    BY DEF Init
  <1>2. CopiesWereServed
    BY <1>1, ConstantsAssumption DEF Init, CopiesWereServed, WasServed, NoRows
  <1>3. ShownWasServed /\ SuccessWasStored /\ AcksAreTrue
    BY ConstantsAssumption DEF Init, ShownWasServed, SuccessWasStored, AcksAreTrue, NoRows
  <1> QED
    BY <1>2, <1>3 DEF ServedInv

\* The history only grows: what was made stays made, what was served stays served.
HistoryGrew == Made \subseteq Made' /\ \A p \in Params : served[p] \subseteq served'[p]

\* No step makes a call undone.
LEMMA MadeGrows ==
    ASSUME TypeOK, NEW r \in Requests,
           phase' = phase \/ Queue!Accept(r) \/ Queue!Refuse(r) \/ Queue!Decide(r) \/ Queue!Call(r)
    PROVE  Made \subseteq Made'
  BY DEF TypeOK, Made, Queue!Accept, Queue!Refuse, Queue!Decide, Queue!Call

\* Which request a step moves.
LEMMA StepsOfPhase ==
    ASSUME TypeOK, [Next]_vars
    PROVE  \/ phase' = phase
           \/ \E r \in Requests : \/ Queue!Accept(r) \/ Queue!Refuse(r)
                                  \/ Queue!Decide(r) \/ Queue!Call(r)
  <1>0. Blocking \subseteq Sets /\ Sets \subseteq Requests /\ Others \subseteq Requests
    BY ConstantsAssumption DEF Requests
  <1>1. CASE \E a \in acks : HandleParamExtAck(a)
    BY <1>1, DecideFacts
  <1>2. CASE \E r \in Requests : XParamGivesUp(r)
    BY <1>2, GiveUpFacts
  <1>4. ASSUME NEW r \in Requests, Enqueue(r) \/ Reject(r)
        PROVE  Queue!Accept(r) \/ Queue!Refuse(r)
    BY <1>4 DEF Enqueue, Reject
  <1>3. CASE ~(\E a \in acks : HandleParamExtAck(a)) /\ ~(\E r \in Requests : XParamGivesUp(r))
    BY <1>0, <1>3, <1>4
    DEF Next, Discovered, TryRefetchAll, StartGetAll, GetAllSuccess, GetAllFailure, AutofetchTests,
        AutofetchStarts, GetAllValue, TrySetParamAsync, SetCallback, TryUpdateParameter,
        TryUpdateParameterReturns, ServerSets, OtherSet, UiReplace, vars
  <1> QED
    BY <1>1, <1>2, <1>3

\* Every step keeps the history.
LEMMA HistoryGrows ==
    ASSUME TypeOK, [Next]_vars
    PROVE  HistoryGrew
  <1>1. Made \subseteq Made'
    <2>1. CASE phase' = phase
      BY <2>1 DEF Made
    <2> QED
      BY <2>1, StepsOfPhase, MadeGrows
  <1>2. ASSUME NEW r \in Requests, NEW answer \in AckResults, ServerSets(r, answer)
        PROVE  \A p \in Params : served[p] \subseteq served'[p]
    BY <1>2 DEF ServerSets, TypeOK, unit
  <1>3. CASE ~(\E r \in Requests, answer \in AckResults : ServerSets(r, answer))
    <2>1. ASSUME \/ \E a \in acks : HandleParamExtAck(a)
                 \/ \E r \in Requests : XParamGivesUp(r)
                 \/ \E o \in Others : OtherSet(o)
          PROVE  UNCHANGED unit
      BY <2>1 DEF HandleParamExtAck, XParamGivesUp, OtherSet
    <2>2. ASSUME \/ \E g \in GetAlls : TryRefetchAll(g) \/ GetAllSuccess(g) \/ GetAllFailure(g)
                 \/ \E g \in Autofetch : AutofetchTests(g) \/ AutofetchStarts(g)
                 \/ \E g \in GetAlls, p \in Params : GetAllValue(g, p)
                 \/ Discovered \/ UiReplace \/ UNCHANGED vars
          PROVE  UNCHANGED unit
      BY <2>2 DEF Discovered, TryRefetchAll, StartGetAll, GetAllSuccess, GetAllFailure,
                  AutofetchTests, AutofetchStarts, GetAllValue, UiReplace, vars
    <2>3. ASSUME \/ \E s \in Sets : TrySetParamAsync(s) \/ SetCallback(s)
                 \/ \E s \in Blocking : TryUpdateParameter(s) \/ TryUpdateParameterReturns(s)
          PROVE  UNCHANGED unit
      BY <2>3 DEF TrySetParamAsync, SetCallback, TryUpdateParameter, TryUpdateParameterReturns
    <2>4. UNCHANGED unit
      BY <1>3, <2>1, <2>2, <2>3 DEF Next
    <2> QED
      BY <1>1, <2>4 DEF HistoryGrew, unit
  <1> QED
    BY <1>1, <1>2, <1>3 DEF HistoryGrew

\* Sets that agree now have always agreed.
LEMMA AgreedBefore ==
    ASSUME HistoryGrew, NEW p, Agreed(p)'
    PROVE  Agreed(p)
  BY DEF HistoryGrew, Agreed

\* The parts of the invariant outlive a step that does not touch their copies.
LEMMA CopiesStay ==
    ASSUME TypeOK, CopiesWereServed, HistoryGrew, UNCHANGED <<server, collected, uiQueue>>
    PROVE  CopiesWereServed'
  BY DEF CopiesWereServed, WasServed, HistoryGrew

LEMMA AcksStay ==
    ASSUME AcksAreTrue, HistoryGrew, UNCHANGED <<acks, result>>
    PROVE  AcksAreTrue'
  <1>1. ASSUME NEW p \in Params, NEW q \in Requests, StoredBy(q, p) PROVE StoredBy(q, p)'
    BY <1>1 DEF StoredBy, HistoryGrew
  <1>2. ASSUME NEW q \in Requests, NEW p, StoredBy(q, p), p # Absent PROVE p \in Params
    BY <1>2, ConstantsAssumption DEF StoredBy
  <1> QED
    BY <1>1, <1>2 DEF AcksAreTrue, HistoryGrew

LEMMA ShownStays ==
    ASSUME ShownWasServed, HistoryGrew, UNCHANGED rows
    PROVE  ShownWasServed'
  BY AgreedBefore, ConstantsAssumption DEF ShownWasServed, HistoryGrew, rows

LEMMA OutcomesStay ==
    ASSUME TypeOK, SuccessWasStored, HistoryGrew, NEW s \in Sets,
           outcome' = outcome \/ outcome' = [outcome EXCEPT ![s] = "failure"]
    PROVE  SuccessWasStored'
  BY AgreedBefore, ConstantsAssumption DEF SuccessWasStored, HistoryGrew, TypeOK

\* The value of a set whose ack was an accepted one, if all sets agree.
LEMMA AcceptedValue ==
    ASSUME AcksAreTrue, NEW s \in Sets, result[s] = "accepted", Agreed(Param[s])
    PROVE  Value[s] \in served[Param[s]]
  <1>1. s \in Requests /\ Param[s] # Absent
    BY ConstantsAssumption DEF Requests
  <1>2. PICK q \in Requests : StoredBy(q, Param[s])
    BY <1>1 DEF AcksAreTrue
  <1>3. s \in Made
    BY <1>1 DEF AcksAreTrue
  <1> QED
    BY <1>2, <1>3 DEF StoredBy, Agreed

\* A row is changed to the value of an accepted set.
LEMMA UpdateShows ==
    ASSUME TypeOK, ShownWasServed, AcksAreTrue, HistoryGrew, NEW s \in Sets,
           result[s] = "accepted", updateData(Param[s], Value[s])
    PROVE  ShownWasServed'
  <1>0. Param[s] \in Params /\ CellsParam \in Params
    BY ConstantsAssumption
  <1>1. ASSUME NEW p \in Params, cache'[p] # Absent, Agreed(p)' PROVE cache'[p] \in served'[p]
    <2>1. Agreed(p)
      BY <1>1, AgreedBefore
    <2>2. CASE cache'[p] = cache[p]
      BY <1>1, <2>1, <2>2 DEF ShownWasServed, HistoryGrew
    <2>3. CASE cache'[p] # cache[p]
      <3>1. p = Param[s] /\ cache'[p] = Value[s]
        BY <1>0, <2>3 DEF updateData, TypeOK
      <3> QED
        BY <2>1, <3>1, AcceptedValue DEF HistoryGrew
    <2> QED
      BY <2>2, <2>3
  <1>2. ASSUME cells' # DefaultCells, Agreed(CellsParam)' PROVE cells' \in served'[CellsParam]
    <2>1. Agreed(CellsParam)
      BY <1>2, AgreedBefore
    <2>2. CASE cells' = cells
      BY <1>0, <1>2, <2>1, <2>2 DEF ShownWasServed, HistoryGrew
    <2>3. CASE cells' # cells
      <3>1. Param[s] = CellsParam /\ cells' = Value[s]
        BY <2>3 DEF updateData, perform_dirty_actions
      <3> QED
        BY <1>0, <2>1, <3>1, AcceptedValue DEF HistoryGrew
    <2> QED
      BY <2>2, <2>3
  <1> QED
    BY <1>1, <1>2 DEF ShownWasServed

\* All rows are replaced by a set the unit had.
LEMMA ReplaceShows ==
    ASSUME TypeOK, ShownWasServed, HistoryGrew, NEW set \in [Params -> Values], WasServed(set),
           ui_thread_replace_param_set(set)
    PROVE  ShownWasServed'
  BY AgreedBefore, ConstantsAssumption
  DEF ShownWasServed, ui_thread_replace_param_set, AddedRows, perform_dirty_actions, WasServed,
      HistoryGrew

\* Every step.
LEMMA NextServedInv == TypeOK /\ ServedInv /\ [Next]_vars => ServedInv'
  <1> SUFFICES ASSUME TypeOK, ServedInv, [Next]_vars PROVE ServedInv'
    OBVIOUS
  <1>0. /\ Blocking \subseteq Sets /\ Autofetch \subseteq GetAlls /\ Sets \subseteq Requests
        /\ Absent \notin Values
    BY ConstantsAssumption DEF Requests
  <1>g. HistoryGrew
    BY HistoryGrows
  <1>c. ASSUME UNCHANGED <<server, collected, uiQueue>> PROVE CopiesWereServed'
    BY <1>g, <1>c, CopiesStay DEF ServedInv
  <1>a. ASSUME UNCHANGED <<acks, result>> PROVE AcksAreTrue'
    BY <1>g, <1>a, AcksStay DEF ServedInv
  <1>r. ASSUME UNCHANGED rows PROVE ShownWasServed'
    BY <1>g, <1>r, ShownStays DEF ServedInv
  <1>o. ASSUME NEW s \in Sets, outcome' = outcome \/ outcome' = [outcome EXCEPT ![s] = "failure"]
        PROVE  SuccessWasStored'
    BY <1>g, <1>o, OutcomesStay DEF ServedInv
  <1>u. ASSUME UNCHANGED outcome PROVE SuccessWasStored'
    BY <1>u, <1>o DEF SuccessWasStored
  <1>1. CASE \/ Discovered
             \/ \E g \in GetAlls : TryRefetchAll(g) \/ GetAllFailure(g)
             \/ \E g \in Autofetch : AutofetchTests(g) \/ AutofetchStarts(g)
             \/ \E r \in Requests : XParamGivesUp(r)
             \/ \E o \in Others : OtherSet(o)
             \/ UNCHANGED vars
    <2>1. UNCHANGED <<acks, result, outcome, rows, collected, uiQueue, unit>>
      BY <1>1 DEF Discovered, TryRefetchAll, StartGetAll, GetAllFailure, AutofetchTests,
                  AutofetchStarts, XParamGivesUp, OtherSet, vars, xparam
    <2> QED
      BY <1>c, <1>a, <1>r, <1>u, <2>1 DEF ServedInv, unit
  <1>2. ASSUME NEW s \in Sets, TrySetParamAsync(s) PROVE ServedInv'
    BY <1>c, <1>a, <1>r, <1>o, <1>2 DEF TrySetParamAsync, ServedInv, unit
  <1>3. ASSUME NEW s \in Blocking, TryUpdateParameter(s) PROVE ServedInv'
    BY <1>0, <1>c, <1>a, <1>r, <1>o, <1>3 DEF TryUpdateParameter, ServedInv, unit
  <1>4. ASSUME NEW s \in Sets, result[s] = "accepted", outcome' = [outcome EXCEPT ![s] = "success"],
               updateData(Param[s], Value[s]), UNCHANGED <<xparam, collected, uiQueue, unit>>
        PROVE  ServedInv'
    <2>1. ShownWasServed'
      BY <1>g, <1>4, UpdateShows DEF ServedInv
    <2>2. ASSUME NEW q \in Sets, outcome'[q] = "success", Agreed(Param[q])'
          PROVE  Value[q] \in served'[Param[q]]
      <3>1. Agreed(Param[q]) /\ Param[q] \in Params
        BY <1>g, <2>2, AgreedBefore, ConstantsAssumption
      <3>2. q = s \/ outcome[q] = "success"
        BY <1>4, <2>2 DEF TypeOK
      <3>3. Value[q] \in served[Param[q]]
        BY <1>4, <3>1, <3>2, AcceptedValue DEF ServedInv, SuccessWasStored
      <3> QED
        BY <1>g, <3>1, <3>3 DEF HistoryGrew
    <2>3. SuccessWasStored'
      BY <2>2 DEF SuccessWasStored
    <2> QED
      BY <1>c, <1>a, <1>4, <2>1, <2>3 DEF ServedInv, unit, xparam
  <1>5. ASSUME NEW s \in Sets, UNCHANGED <<xparam, collected, uiQueue, unit, rows>>,
               outcome' = outcome \/ outcome' = [outcome EXCEPT ![s] = "failure"]
        PROVE  ServedInv'
    BY <1>c, <1>a, <1>r, <1>o, <1>5 DEF ServedInv, unit, xparam
  <1>6. ASSUME NEW s \in Blocking, TryUpdateParameterReturns(s) PROVE ServedInv'
    <2>1. CASE Succeeds(s)
      BY <1>0, <1>4, <1>6, <2>1 DEF TryUpdateParameterReturns, Succeeds
    <2>2. CASE ~Succeeds(s)
      BY <1>0, <1>5, <1>6, <2>2 DEF TryUpdateParameterReturns
    <2> QED
      BY <2>1, <2>2
  <1>7. ASSUME NEW s \in Sets, SetCallback(s) PROVE ServedInv'
    <2>0. UNCHANGED <<xparam, collected, uiQueue, unit>>
      BY <1>7 DEF SetCallback
    <2>1. CASE s \in Blocking
      BY <1>5, <1>7, <2>1 DEF SetCallback
    <2>2. CASE s \notin Blocking /\ phase[s] = "answered" /\ result[s] = "accepted"
      BY <1>4, <1>7, <2>2 DEF SetCallback, CacheAfter, OutcomeOf
    <2>3. CASE s \notin Blocking /\ ~(phase[s] = "answered" /\ result[s] = "accepted")
      BY <1>5, <1>7, <2>3 DEF SetCallback, CacheAfter, OutcomeOf
    <2> QED
      BY <2>1, <2>2, <2>3
  <1>8. CASE UiReplace
    <2>1. /\ uiQueue \in Seq([Params -> Values]) /\ uiQueue # <<>> /\ uiQueue' = Tail(uiQueue)
          /\ ui_thread_replace_param_set(Head(uiQueue))
          /\ UNCHANGED <<acks, result, outcome, collected, unit>>
      BY <1>8 DEF UiReplace, TypeOK, xparam
    <2>2. /\ Head(uiQueue) = uiQueue[1] /\ Head(uiQueue) \in [Params -> Values]
          /\ 1 \in 1..Len(uiQueue) /\ Len(uiQueue') = Len(uiQueue) - 1
          /\ \A i \in 1..Len(uiQueue') : uiQueue'[i] = uiQueue[i + 1] /\ i + 1 \in 1..Len(uiQueue)
      BY <2>1
    <2>3. WasServed(Head(uiQueue))
      BY <2>2 DEF ServedInv, CopiesWereServed
    <2>4. ShownWasServed'
      BY <1>g, <2>1, <2>2, <2>3, ReplaceShows DEF ServedInv
    <2>5. \A i \in 1..Len(uiQueue') : WasServed(uiQueue'[i])
      BY <2>2 DEF ServedInv, CopiesWereServed
    <2>6. CopiesWereServed'
      BY <2>1, <2>5 DEF ServedInv, CopiesWereServed, WasServed, unit
    <2> QED
      BY <1>a, <1>u, <2>1, <2>4, <2>6 DEF ServedInv
  <1>9. ASSUME NEW g \in GetAlls, GetAllSuccess(g) PROVE ServedInv'
    <2>1. /\ collected[g] \in [Params -> Values] /\ uiQueue \in Seq([Params -> Values])
          /\ uiQueue' = Append(uiQueue, collected[g])
          /\ UNCHANGED <<acks, result, outcome, rows, collected, unit>>
      BY <1>9 DEF GetAllSuccess, TypeOK, xparam
    <2>2. \A i \in 1..Len(uiQueue') :
              (i \in 1..Len(uiQueue) /\ uiQueue'[i] = uiQueue[i]) \/ uiQueue'[i] = collected[g]
      BY <2>1
    <2>3. \A i \in 1..Len(uiQueue') : WasServed(uiQueue'[i])
      BY <2>2 DEF ServedInv, CopiesWereServed
    <2>4. CopiesWereServed'
      BY <2>1, <2>3 DEF ServedInv, CopiesWereServed, WasServed, unit
    <2> QED
      BY <1>a, <1>r, <1>u, <2>1, <2>4 DEF ServedInv
  <1>10. ASSUME NEW g \in GetAlls, NEW p \in Params, GetAllValue(g, p) PROVE ServedInv'
    <2>1. /\ collected' = [collected EXCEPT ![g][p] = server[p]]
          /\ UNCHANGED <<acks, result, outcome, rows, uiQueue, unit>>
      BY <1>10 DEF GetAllValue, xparam
    <2>2. server[p] \in served[p]
      BY <1>0 DEF ServedInv, CopiesWereServed, WasServed, TypeOK
    <2>3. ASSUME NEW h \in GetAlls, NEW q \in Params, collected'[h][q] # Absent
          PROVE  collected'[h][q] \in served[q]
      <3>1. CASE h = g /\ q = p
        BY <2>1, <2>2, <3>1 DEF TypeOK
      <3>2. CASE ~(h = g /\ q = p)
        BY <2>1, <2>3, <3>2 DEF TypeOK, ServedInv, CopiesWereServed, WasServed
      <3> QED
        BY <3>1, <3>2
    <2>4. CopiesWereServed'
      BY <2>1, <2>3 DEF ServedInv, CopiesWereServed, WasServed, unit
    <2> QED
      BY <1>a, <1>r, <1>u, <2>1, <2>4 DEF ServedInv
  <1>11. ASSUME NEW r \in Requests, NEW answer \in AckResults, ServerSets(r, answer)
         PROVE  ServedInv'
    <2> DEFINE ackOfR == [param |-> Param[r], result |-> answer]
    <2>1. /\ r \in Made /\ acks' = acks \cup {ackOfR}
          /\ UNCHANGED <<phase, result, outcome, rows, collected, uiQueue>>
      BY <1>11 DEF ServerSets
    <2>2. Param[r] \in Params \cup {Absent}
      BY ConstantsAssumption
    <2>3. CASE answer = "accepted" /\ Param[r] # Absent
      <3>1. /\ Param[r] \in Params
            /\ server' = [server EXCEPT ![Param[r]] = Value[r]]
            /\ served' = [served EXCEPT ![Param[r]] = @ \cup {Value[r]}]
        BY <1>11, <2>2, <2>3 DEF ServerSets
      <3>2. StoredBy(r, Param[r])'
        BY <1>g, <2>1, <3>1 DEF TypeOK, StoredBy, HistoryGrew
      <3>3. \A q \in Requests, p \in Params : StoredBy(q, p) => StoredBy(q, p)'
        BY <1>g DEF StoredBy, HistoryGrew
      <3>4. WasServed(server)'
        BY <1>g, <3>1 DEF TypeOK, ServedInv, CopiesWereServed, WasServed, HistoryGrew
      <3>5. CopiesWereServed'
        BY <1>g, <2>1, <3>4 DEF ServedInv, CopiesWereServed, WasServed, HistoryGrew, TypeOK
      <3>6. ASSUME NEW a \in acks', a.result = "accepted", a.param # Absent
            PROVE  \E q \in Requests : StoredBy(q, a.param)'
        <4>1. CASE a = ackOfR
          BY <3>2, <4>1
        <4>2. CASE a \in acks
          BY <3>3, <3>6, <4>2 DEF ServedInv, AcksAreTrue, TypeOK
        <4> QED
          BY <2>1, <3>6, <4>1, <4>2
      <3>7. ASSUME NEW q \in Requests, result'[q] = "accepted", Param[q] # Absent
            PROVE  q \in Made' /\ \E o \in Requests : StoredBy(o, Param[q])'
        BY <1>g, <2>1, <3>3, <3>7, ConstantsAssumption DEF ServedInv, AcksAreTrue, HistoryGrew
      <3>8. AcksAreTrue'
        BY <3>6, <3>7 DEF AcksAreTrue
      <3> QED
        BY <1>r, <1>u, <2>1, <3>5, <3>8 DEF ServedInv
    <2>4. CASE ~(answer = "accepted" /\ Param[r] # Absent)
      <3>1. UNCHANGED unit
        BY <1>11, <2>4 DEF ServerSets, AckResults
      <3>2. \A a \in acks' : a.result = "accepted" /\ a.param # Absent => a \in acks
        BY <2>1, <2>4 DEF AckResults
      <3>3. UNCHANGED <<Made, served>>
        BY <2>1, <3>1 DEF Made, unit
      <3>4. AcksAreTrue'
        BY <2>1, <3>2, <3>3 DEF ServedInv, AcksAreTrue, StoredBy
      <3> QED
        BY <1>c, <1>r, <1>u, <2>1, <3>1, <3>4 DEF ServedInv, unit
    <2> QED
      BY <2>3, <2>4
  <1>12. ASSUME NEW a \in acks, HandleParamExtAck(a) PROVE ServedInv'
    <2>1. PICK r \in Requests : /\ Queue!Decide(r) /\ AckMatches(r, a)
                               /\ result' = [result EXCEPT ![r] = a.result]
      BY <1>12, DecideFacts
    <2>2. UNCHANGED <<acks, outcome, rows, collected, uiQueue, unit>>
      BY <1>12 DEF HandleParamExtAck
    <2>3. r \in Made /\ Param[r] = a.param
      BY <2>1 DEF Made, AckMatches, Queue!Decide
    <2>4. \A q \in Requests : \A p : StoredBy(q, p) => StoredBy(q, p)'
      BY <1>g, <2>2 DEF StoredBy, HistoryGrew, unit
    <2>5. ASSUME NEW q \in Requests, result'[q] = "accepted", Param[q] # Absent
          PROVE  q \in Made /\ \E o \in Requests : StoredBy(o, Param[q])
      <3>1. CASE q = r
        BY <2>1, <2>3, <2>5, <3>1 DEF ServedInv, AcksAreTrue, TypeOK
      <3>2. CASE q # r
        BY <2>1, <2>5, <3>2 DEF ServedInv, AcksAreTrue, TypeOK
      <3> QED
        BY <3>1, <3>2
    <2>6. AcksAreTrue'
      BY <1>g, <2>2, <2>4, <2>5 DEF ServedInv, AcksAreTrue, HistoryGrew
    <2> QED
      BY <1>c, <1>r, <1>u, <2>2, <2>6 DEF ServedInv, unit
  <1> QED
    BY <1>1, <1>2, <1>3, <1>6, <1>7, <1>8, <1>9, <1>10, <1>11, <1>12 DEF Next

\* The inductive invariant holds in every reachable state.
LEMMA SpecServedInv == Spec => [](TypeOK /\ ServedInv)
  BY InitTypeOK, NextTypeOK, InitServedInv, NextServedInv, PTL DEF Spec

\* For any parameters and requests: of a parameter that all who set it agree on, a value
\* that the unit rejected or never received is never shown nor stored in the settings,
\* whichever set's ack completed the set (mavlinksettingsmodel.cpp:186-192, 675;
\* xparam.cpp:244-262).
THEOREM ShowsWhatWasServed == Spec => []ShownWasServed
  <1>1. TypeOK /\ ServedInv => ShownWasServed
    BY DEF ServedInv
  <1> QED
    BY <1>1, SpecServedInv, PTL

\* For any parameters and requests: of a parameter that all who set it agree on, the user
\* is told of a success only if the unit stored the value, by the blocking and the
\* asynchronous functions (lines 157-173, 186-192), although acks are matched by name.
THEOREM SuccessIsStored == Spec => []SuccessWasStored
  <1>1. TypeOK /\ ServedInv => SuccessWasStored
    BY DEF ServedInv
  <1> QED
    BY <1>1, SpecServedInv, PTL

-----------------------------------------------------------------------------
(* The rows after a fetch                                                  *)

RowsAreComplete == \A p \in Params : (cache[p] = Absent) <=> (p \in Whitelisted)

\* The rows are those of a whole set, or one will replace them.
FetchInv == fetched => RowsAreComplete \/ uiQueue # <<>>

\* A changed value leaves the rows that exist, a replacement makes them complete.
LEMMA RowsStayComplete ==
    ASSUME TypeOK, NEW p \in Params, NEW v \in Values, updateData(p, v), RowsAreComplete
    PROVE  RowsAreComplete'
  BY ConstantsAssumption DEF TypeOK, updateData, RowsAreComplete

\* A replacement has a row for every parameter but the whitelisted ones.
LEMMA ReplacedRowsAreComplete ==
    ASSUME NEW set \in [Params -> Values], ui_thread_replace_param_set(set)
    PROVE  RowsAreComplete'
  BY ConstantsAssumption DEF ui_thread_replace_param_set, AddedRows, RowsAreComplete

\* Every step.
LEMMA NextFetchInv == TypeOK /\ FetchInv /\ [Next]_vars => FetchInv'
  <1> SUFFICES ASSUME TypeOK, FetchInv, [Next]_vars PROVE FetchInv'
    OBVIOUS
  <1> USE DEF rows
  <1>0. /\ Blocking \subseteq Sets
        /\ \A s \in Sets : Param[s] \in Params /\ Value[s] \in Values
    BY ConstantsAssumption DEF Requests
  <1>1. ASSUME fetched' = fetched, uiQueue' = uiQueue, RowsAreComplete => RowsAreComplete'
        PROVE  FetchInv'
    BY <1>1 DEF FetchInv
  <1>2. CASE \/ Discovered
             \/ \E g \in GetAlls : TryRefetchAll(g) \/ GetAllFailure(g)
             \/ \E g \in Autofetch : AutofetchTests(g) \/ AutofetchStarts(g)
             \/ \E g \in GetAlls, p \in Params : GetAllValue(g, p)
             \/ \E s \in Sets : TrySetParamAsync(s)
             \/ \E s \in Blocking : TryUpdateParameter(s)
             \/ \E r \in Requests, answer \in AckResults : ServerSets(r, answer)
             \/ \E a \in acks : HandleParamExtAck(a)
             \/ \E r \in Requests : XParamGivesUp(r)
             \/ \E o \in Others : OtherSet(o)
             \/ UNCHANGED vars
    <2>1. UNCHANGED <<fetched, uiQueue, cache>>
      BY <1>2 DEF Discovered, TryRefetchAll, StartGetAll, GetAllFailure, AutofetchTests,
                  AutofetchStarts, GetAllValue, HandleParamExtAck, XParamGivesUp,
                  TrySetParamAsync, TryUpdateParameter, ServerSets, OtherSet, vars
    <2> QED
      BY <1>1, <2>1 DEF RowsAreComplete
  <1>3. ASSUME NEW s \in Blocking, TryUpdateParameterReturns(s) PROVE FetchInv'
    <2>1. RowsAreComplete => RowsAreComplete'
      BY <1>0, <1>3, RowsStayComplete DEF TryUpdateParameterReturns, RowsAreComplete
    <2> QED
      BY <1>1, <1>3, <2>1 DEF TryUpdateParameterReturns
  <1>4. ASSUME NEW s \in Sets, SetCallback(s) PROVE FetchInv'
    <2>1. updateData(Param[s], Value[s]) \/ cache' = cache
      BY <1>4 DEF SetCallback, CacheAfter
    <2>2. RowsAreComplete => RowsAreComplete'
      BY <1>0, <2>1, RowsStayComplete DEF RowsAreComplete
    <2> QED
      BY <1>1, <1>4, <2>2 DEF SetCallback
  <1>5. CASE UiReplace
    <2>1. Head(uiQueue) \in [Params -> Values]
      BY <1>5 DEF UiReplace, TypeOK
    <2> QED
      BY <1>5, <2>1, ReplacedRowsAreComplete DEF UiReplace, FetchInv
  <1>6. ASSUME NEW g \in GetAlls, GetAllSuccess(g) PROVE FetchInv'
    <2>1. uiQueue \in Seq([Params -> Values]) /\ uiQueue' = Append(uiQueue, collected[g])
          /\ collected[g] \in [Params -> Values]
      BY <1>6 DEF GetAllSuccess, TypeOK
    <2>2. uiQueue' # <<>>
      BY <2>1
    <2> QED
      BY <2>2 DEF FetchInv
  <1> QED
    BY <1>2, <1>3, <1>4, <1>5, <1>6 DEF Next

\* For any parameters and whitelist: after a fetch, once its replacement ran, exactly the
\* parameters that are not whitelisted have a row, whatever sets come in between
\* (mavlinksettingsmodel.cpp:88-105, 240-260).
THEOREM FetchesAreComplete == Spec => []FetchedIsComplete
  <1>1. Init => FetchInv
    BY DEF Init, FetchInv
  <1>2. FetchInv => FetchedIsComplete
    BY DEF FetchInv, RowsAreComplete, FetchedIsComplete
  <1> QED
    BY <1>1, <1>2, SpecServedInv, NextFetchInv, PTL DEF Spec

-----------------------------------------------------------------------------
(***************************************************************************)
(* One request at a time.  While nothing but the asynchronous functions    *)
(* was used, whoever starts a request found the flag cleared, and only the *)
(* callback of the request in flight clears it.                            *)
(***************************************************************************)
IsInFlight(s) == phase[s] \in {"queued", "answered", "exhausted"}
IsRunning(g)  == getall[g] = "running"

AtMostOne ==
    /\ \A r, s \in Sets : IsInFlight(r) /\ IsInFlight(s) => r = s
    /\ \A g, h \in GetAlls : IsRunning(g) /\ IsRunning(h) => g = h
    /\ \A s \in Sets, g \in GetAlls : ~(IsInFlight(s) /\ IsRunning(g))
    /\ (\E s \in Sets : IsInFlight(s)) \/ (\E g \in GetAlls : IsRunning(g)) => busy

BusyInv == OnlyAsync => AtMostOne

\* A request that was made stays made.
LEMMA OnlyAsyncBefore ==
    ASSUME TypeOK, [Next]_vars, OnlyAsync'
    PROVE  OnlyAsync
  <1>0. Blocking \subseteq Sets /\ Autofetch \subseteq GetAlls /\ Sets \subseteq Requests /\ Others \subseteq Requests
    BY ConstantsAssumption DEF Requests
  <1>1. ASSUME NEW r \in Requests, phase' = phase \/ Queue!Accept(r) \/ Queue!Refuse(r)
                                   \/ Queue!Decide(r) \/ Queue!Call(r)
        PROVE  \A s \in Requests : phase'[s] = "idle" => phase[s] = "idle"
    BY <1>1 DEF TypeOK, Queue!Accept, Queue!Refuse, Queue!Decide, Queue!Call
  <1>2. \/ phase' = phase
        \/ \E r \in Requests : \/ Queue!Accept(r) \/ Queue!Refuse(r)
                               \/ Queue!Decide(r) \/ Queue!Call(r)
    BY StepsOfPhase
  <1>3. \A s \in Blocking : phase'[s] = "idle" => phase[s] = "idle"
    BY <1>0, <1>1, <1>2
  <1>4. \A g \in Autofetch : getall'[g] = "idle" => getall[g] = "idle"
    BY <1>0
    DEF Next, Discovered, TryRefetchAll, StartGetAll, GetAllSuccess, GetAllFailure, AutofetchTests,
        AutofetchStarts, GetAllValue, TrySetParamAsync, SetCallback,
        HandleParamExtAck, XParamGivesUp, TryUpdateParameter, TryUpdateParameterReturns, ServerSets,
        OtherSet, UiReplace, vars, TypeOK
  <1> QED
    BY <1>3, <1>4 DEF OnlyAsync

\* Every step.
LEMMA NextBusyInv == TypeOK /\ BusyInv /\ [Next]_vars => BusyInv'
  <1> SUFFICES ASSUME TypeOK, BusyInv, [Next]_vars, OnlyAsync' PROVE AtMostOne'
    BY DEF BusyInv
  <1>0. /\ Blocking \subseteq Sets /\ Autofetch \subseteq GetAlls
        /\ Sets \subseteq Requests /\ Others \subseteq Requests
        /\ Sets \cap Others = {} /\ Sets \cap GetAlls = {}
    BY ConstantsAssumption DEF Requests
  <1>1. AtMostOne /\ OnlyAsync
    BY OnlyAsyncBefore DEF BusyInv
  <1>2. ASSUME UNCHANGED <<getall, busy>>,
               \A s \in Sets : IsInFlight(s)' => IsInFlight(s)
        PROVE  AtMostOne'
    BY <1>1, <1>2 DEF AtMostOne, IsRunning
  <1>3. CASE Discovered \/ UiReplace \/ UNCHANGED vars
             \/ (\E g \in GetAlls, p \in Params : GetAllValue(g, p))
             \/ (\E r \in Requests, answer \in AckResults : ServerSets(r, answer))
    <2>1. UNCHANGED <<phase, getall, busy>>
      BY <1>3 DEF Discovered, UiReplace, GetAllValue, ServerSets, vars
    <2> QED
      BY <1>2, <2>1 DEF IsInFlight
  <1>4. ASSUME NEW r \in Requests, Queue!Decide(r), UNCHANGED <<getall, busy>> PROVE AtMostOne'
    BY <1>0, <1>2, <1>4 DEF Queue!Decide, IsInFlight, TypeOK
  <1>13. ASSUME NEW a \in acks, HandleParamExtAck(a) PROVE AtMostOne'
    BY <1>4, <1>13, DecideFacts DEF HandleParamExtAck
  <1>14. ASSUME NEW r \in Requests, XParamGivesUp(r) PROVE AtMostOne'
    BY <1>4, <1>14 DEF XParamGivesUp
  <1>5. ASSUME NEW o \in Others, OtherSet(o) PROVE AtMostOne'
    <2>1. \A s \in Sets : phase'[s] = phase[s]
      BY <1>0, <1>5, EnqueueTypes DEF OtherSet
    <2> QED
      BY <1>2, <1>5, <2>1 DEF OtherSet, IsInFlight
  <1>6. ASSUME NEW g \in GetAlls, TryRefetchAll(g) PROVE AtMostOne'
    <2>1. /\ ~busy /\ busy' = TRUE /\ phase' = phase
          /\ \A h \in GetAlls \ {g} : getall'[h] = getall[h]
      BY <1>6 DEF TryRefetchAll, MayRefetch, StartGetAll, TypeOK
    <2> QED
      BY <1>1, <2>1 DEF AtMostOne, IsInFlight, IsRunning
  <1>7. ASSUME NEW g \in Autofetch, AutofetchTests(g) \/ AutofetchStarts(g) PROVE AtMostOne'
    <2>1. getall'[g] # "idle"
      BY <1>0, <1>7 DEF AutofetchTests, AutofetchStarts, StartGetAll, TypeOK
    <2> QED
      BY <2>1 DEF OnlyAsync
  <1>8. ASSUME NEW g \in GetAlls, GetAllSuccess(g) \/ GetAllFailure(g) PROVE AtMostOne'
    <2>1. /\ IsRunning(g) /\ getall'[g] = "done" /\ phase' = phase
          /\ \A h \in GetAlls \ {g} : getall'[h] = getall[h]
      BY <1>8 DEF GetAllSuccess, GetAllFailure, IsRunning, TypeOK
    <2>2. \A h \in GetAlls : ~IsRunning(h)'
      BY <1>1, <2>1 DEF AtMostOne, IsRunning
    <2>3. \A s \in Sets : ~IsInFlight(s)'
      BY <1>1, <2>1 DEF AtMostOne, IsInFlight
    <2> QED
      BY <2>2, <2>3 DEF AtMostOne
  <1>9. ASSUME NEW s \in Sets, TrySetParamAsync(s) PROVE AtMostOne'
    <2>1. CASE RejectsAsBusy
      BY <1>2, <1>9, <2>1 DEF TrySetParamAsync, IsInFlight
    <2>2. CASE ~RejectsAsBusy
      <3>1. ~busy /\ busy' = TRUE /\ getall' = getall
        BY <1>9, <2>2 DEF TrySetParamAsync, RejectsAsBusy
      <3>2. \A r \in Sets \ {s} : phase'[r] = phase[r]
        BY <1>0, <1>9, <2>2, EnqueueTypes DEF TrySetParamAsync
      <3> QED
        BY <1>1, <3>1, <3>2 DEF AtMostOne, IsInFlight, IsRunning
    <2> QED
      BY <2>1, <2>2
  <1>10. ASSUME NEW s \in Sets, SetCallback(s) PROVE AtMostOne'
    <2>1. /\ IsInFlight(s) /\ ~IsInFlight(s)' /\ getall' = getall
          /\ \A r \in Sets \ {s} : phase'[r] = phase[r]
      BY <1>0, <1>10 DEF SetCallback, Queue!Call, IsInFlight, TypeOK
    <2>2. \A r \in Sets : ~IsInFlight(r)'
      BY <1>1, <2>1 DEF AtMostOne, IsInFlight
    <2>3. \A g \in GetAlls : ~IsRunning(g)'
      BY <1>1, <2>1 DEF AtMostOne, IsRunning
    <2> QED
      BY <2>2, <2>3 DEF AtMostOne
  <1>11. ASSUME NEW s \in Blocking, TryUpdateParameter(s) PROVE AtMostOne'
    <2>1. phase'[s] # "idle"
      BY <1>0, <1>11 DEF TryUpdateParameter, Enqueue, Reject, Queue!Accept, Queue!Refuse, TypeOK
    <2> QED
      BY <2>1 DEF OnlyAsync
  <1>12. ASSUME NEW s \in Blocking, TryUpdateParameterReturns(s) PROVE AtMostOne'
    <2>1. phase'[s] # "idle"
      BY <1>12 DEF TryUpdateParameterReturns
    <2> QED
      BY <2>1 DEF OnlyAsync
  <1> QED
    BY <1>3, <1>5, <1>6, <1>7, <1>8, <1>9, <1>10, <1>11, <1>12, <1>13, <1>14 DEF Next

\* A set of which any two members are equal has at most one.
LEMMA AtMostOneMember ==
    ASSUME NEW S, \A x, y \in S : x = y
    PROVE  Cardinality(S) <= 1
  <1>1. CASE S = {}
    BY <1>1, FS_EmptySet
  <1>2. CASE S # {}
    <2>1. PICK x \in S : TRUE
      BY <1>2
    <2>2. S = {x}
      BY <2>1
    <2> QED
      BY <2>2, FS_Singleton
  <1> QED
    BY <1>1, <1>2

\* For any number of asynchronous sets and fetches of the user: one request of the model
\* is in flight at a time and the flag is set as long as it is, although it is cleared by
\* callbacks of other threads (mavlinksettingsmodel.cpp:115, 177).
THEOREM OneAsyncRequest == Spec => []OneRequestAtATime
  <1>1. Init => BusyInv
    <2> SUFFICES ASSUME Init PROVE AtMostOne
      BY DEF BusyInv
    <2>1. Sets \subseteq Requests
      BY DEF Requests
    <2> QED
      BY <2>1 DEF Init, Queue!Init, AtMostOne, IsInFlight, IsRunning
  <1>2. BusyInv => OneRequestAtATime
    <2> SUFFICES ASSUME BusyInv, OnlyAsync
                 PROVE  Cardinality(InFlight) <= 1 /\ (InFlight # {} => busy)
      BY DEF OneRequestAtATime
    <2>1. AtMostOne
      BY DEF BusyInv
    <2>2. \A x, y \in InFlight : x = y
      BY <2>1 DEF AtMostOne, InFlight, IsInFlight, IsRunning
    <2>3. InFlight # {} => busy
      BY <2>1 DEF AtMostOne, InFlight, IsInFlight, IsRunning
    <2> QED
      BY <2>2, <2>3, AtMostOneMember
  <1> QED
    BY <1>1, <1>2, SpecServedInv, NextBusyInv, PTL DEF Spec
=============================================================================
