---------------------------- MODULE XParamProofs ----------------------------
(***************************************************************************)
(* Proofs about XParam, for any calls, servers, sizes of parameter sets    *)
(* and any queue limit, and about its caller WBLinkSettingsHelper.  What   *)
(* is said of Spec uses ConstantsAssumption only: any sets are the calls   *)
(* of some functions of the helper.                                        *)
(***************************************************************************)
EXTENDS WBLinkSettingsHelper, ListTheorems, TLAPS

-----------------------------------------------------------------------------
(* Types                                                                   *)

\* The iterator of a scan never becomes a number that is no position.
LEMMA SuccessorFacts ==
    ASSUME NEW n \in Nat, NEW i \in Nat \ {0}
    PROVE  Successor(i, n) \in Nat \ {0}
  BY DEF Successor

\* Counting a transmission of a call.
LEMMA CountFacts ==
    ASSUME TypeOK, NEW c \in Calls, CountTransmission(c)
    PROVE  /\ nTx' \in [Calls -> Nat]
           /\ nTx'[c] = nTx[c] + 1
           /\ \A d \in Calls \ {c} : nTx'[d] = nTx[d]
           /\ due' \subseteq Calls
  BY DEF TypeOK, CountTransmission

\* What a get-all asks for are indices.
LEMMA AskedFacts ==
    ASSUME TypeOK, NEW g \in GetAlls, send_next_message_running_get_all(g)
    PROVE  asked' \in [Servers -> SUBSET Nat]
  <1>1. Server[g] \in Servers /\ ParamCount[Server[g]] \in Nat
    BY ConstantsAssumption DEF Calls
  <1>2. Indices(Server[g]) \subseteq Nat /\ ReadIndices(g) \subseteq Nat
    BY <1>1, ConstantsAssumption DEF Indices, ReadIndices
  <1>3. Requested(g) \subseteq Nat
    BY <1>2 DEF Requested
  <1> HIDE DEF Requested
  <1> QED
    BY <1>1, <1>3 DEF TypeOK, send_next_message_running_get_all

\* A response on the link is a response of a server.
LEMMA OnLinkFacts ==
    ASSUME TypeOK, NEW m \in OnLink
    PROVE  m.from \in Servers /\ m.count \in Nat /\ m.index \in Nat
  <1>1. CASE m \in Malformed
    BY <1>1, ConstantsAssumption DEF Responses
  <1>2. CASE m \in Served
    <2>1. PICK srv \in Servers :
              m \in {[from |-> srv, count |-> ParamCount[srv], index |-> i] : i \in asked[srv]}
      BY <1>2 DEF Served
    <2>2. PICK i \in asked[srv] : m = [from |-> srv, count |-> ParamCount[srv], index |-> i]
      BY <2>1
    <2> QED
      BY <2>1, <2>2, ConstantsAssumption DEF TypeOK
  <1> QED
    BY <1>1, <1>2 DEF OnLink

\* The empty client has the types.
LEMMA InitTypeOK == Init => TypeOK
  BY ConstantsAssumption DEF Init, TypeOK, CallerStates, AckResults

\* A step of the scan of a list keeps the types.
LEMMA ScanTypes ==
    ASSUME TypeOK, NEW S \in {Sets, GetAlls}, NEW list \in Seq(S), NEW where, At(where, list)
    PROVE  /\ it \in 1..Len(list) /\ list[it] \in S /\ list[it] \in Calls
           /\ Successor(it, Len(list)) \in Nat \ {0}
           /\ Successor(it, Len(list) - 1) \in Nat \ {0}
           /\ RemoveAt(list, it) \in Seq(S)
           /\ Append(timedOut, list[it]) \in Seq(Calls)
  <1>1. it \in 1..Len(list) /\ timedOut \in Seq(Calls)
    BY DEF At, TypeOK
  <1>2. list[it] \in S /\ list[it] \in Calls
    BY <1>1 DEF Calls
  <1>3. Len(list) \in Nat /\ Len(list) - 1 \in Nat /\ it \in Nat \ {0}
    BY <1>1
  <1>4. /\ Successor(it, Len(list)) \in Nat \ {0}
        /\ Successor(it, Len(list) - 1) \in Nat \ {0}
    BY <1>3, SuccessorFacts
  <1>5. RemoveAt(list, it) \in Seq(S)
    BY <1>1, RemoveAtFacts
  <1>6. Append(timedOut, list[it]) \in Seq(Calls)
    BY <1>1, <1>2, AppendProperties
  <1> QED
    BY <1>1, <1>2, <1>4, <1>5, <1>6

\* A response is stored as a number, and moves at most one get-all.
LEMMA HandleParamExtValueTypes ==
    ASSUME TypeOK, NEW m \in OnLink, HandleParamExtValue(m)
    PROVE  TypeOK'
  <1>1. PICK i \in 1..(Len(getAlls) + 1) :
          /\ size' = [g \in GetAlls |-> IF g \in StoredBy(i, m) THEN SizeAfter(g, m) ELSE size[g]]
          /\ got' = [g \in GetAlls |-> IF g \in StoredBy(i, m) THEN got[g] \cup {m.index} ELSE got[g]]
          /\ \/ /\ i <= Len(getAlls)
                /\ rx' = getAlls[i] /\ rxResult' = "success" /\ getAlls' = RemoveAt(getAlls, i)
             \/ UNCHANGED <<rxVars, getAlls>>
    BY DEF HandleParamExtValue
  <1>2. m.count \in Nat /\ m.index \in Nat
    BY OnLinkFacts
  <1>3. size' \in [GetAlls -> Nat]
    <2>1. \A g \in GetAlls : SizeAfter(g, m) \in Nat /\ size[g] \in Nat
      BY <1>2 DEF SizeAfter, TypeOK
    <2> QED
      BY <1>1, <2>1
  <1>4. got' \in [GetAlls -> SUBSET Nat]
    <2>1. \A g \in GetAlls : got[g] \subseteq Nat /\ got[g] \cup {m.index} \subseteq Nat
      BY <1>2 DEF TypeOK
    <2> QED
      BY <1>1, <2>1
  <1>5. rx' \in Calls \cup {None} /\ rxResult' \in AckResults \cup {"success"} /\ getAlls' \in Seq(GetAlls)
    <2>1. CASE /\ i <= Len(getAlls)
               /\ rx' = getAlls[i] /\ rxResult' = "success" /\ getAlls' = RemoveAt(getAlls, i)
      <3>1. getAlls \in Seq(GetAlls) /\ i \in 1..Len(getAlls)
        BY <2>1 DEF TypeOK
      <3>2. getAlls[i] \in GetAlls /\ RemoveAt(getAlls, i) \in Seq(GetAlls)
        BY <3>1, RemoveAtFacts
      <3> QED
        BY <2>1, <3>2 DEF Calls
    <2>2. CASE UNCHANGED <<rxVars, getAlls>>
      BY <2>2 DEF TypeOK, rxVars
    <2> QED
      BY <1>1, <2>1, <2>2
  <1>6. UNCHANGED <<caller, sets, nTx, due, threadVars, delivered, linkVars>>
    BY DEF HandleParamExtValue
  <1> QED
    BY <1>3, <1>4, <1>5, <1>6 DEF TypeOK, threadVars, linkVars

\* Every variable keeps its type.
LEMMA NextTypeOK == TypeOK /\ [Next]_vars => TypeOK'
  <1> SUFFICES ASSUME TypeOK, [Next]_vars PROVE TypeOK'
    OBVIOUS
  <1> USE ConstantsAssumption DEF setVars, threadVars, rxVars, linkVars
  <1>1. ASSUME NEW s \in Sets, TrySetParam(s) PROVE TypeOK'
    <2>1. s \in Calls /\ caller' \in [Calls -> CallerStates]
      BY <1>1 DEF TrySetParam, Pending, CallerStates, Calls, TypeOK
    <2>2. Append(sets, s) \in Seq(Sets)
      BY AppendProperties DEF TypeOK
    <2>3. sets' \in Seq(Sets) /\ nTx' \in [Calls -> Nat] /\ due' \subseteq Calls /\ asked' = asked
      BY <1>1, <2>1, <2>2, CountFacts DEF TrySetParam, send_next_message_running_set, TypeOK
    <2> QED
      BY <1>1, <2>1, <2>3 DEF TrySetParam, TypeOK
  <1>2. ASSUME NEW g \in GetAlls, TryGetParamAll(g) PROVE TypeOK'
    <2>1. g \in Calls /\ caller' \in [Calls -> CallerStates]
      BY <1>2 DEF TryGetParamAll, Pending, CallerStates, Calls, TypeOK
    <2>2. getAlls' \in Seq(GetAlls)
      BY <1>2, AppendProperties DEF TryGetParamAll, TypeOK
    <2>3. nTx' \in [Calls -> Nat] /\ due' \subseteq Calls
      BY <1>2, <2>1, CountFacts DEF TryGetParamAll, send_next_message_running_get_all
    <2>4. asked' \in [Servers -> SUBSET Nat]
      BY <1>2, AskedFacts DEF TryGetParamAll
    <2> QED
      BY <1>2, <2>1, <2>2, <2>3, <2>4 DEF TryGetParamAll, TypeOK
  <1>3. ASSUME NEW c \in Calls, BlockingReturn(c) PROVE TypeOK'
    BY <1>3 DEF BlockingReturn, CallerStates, TypeOK
  <1>4. ASSUME NEW c \in Calls, Elapse(c) PROVE TypeOK'
    BY <1>4 DEF Elapse, TypeOK
  <1>5. ASSUME NEW s \in Sets, NEW result \in AckResults, ServerSets(s, result) PROVE TypeOK'
    <2>1. Server[s] \in Servers
      BY DEF Calls
    <2>2. \A ack \in acks' : ack.from \in Servers /\ ack.result \in AckResults
      BY <1>5, <2>1 DEF ServerSets, TypeOK
    <2>3. applied' \subseteq Sets
      BY <1>5 DEF ServerSets, TypeOK
    <2> QED
      BY <1>5, <2>2, <2>3 DEF ServerSets, TypeOK
  <1>6. ASSUME NEW ack \in acks, HandleParamExtAck(ack) PROVE TypeOK'
    <2>1. PICK i \in 1..Len(sets) : rx' = sets[i] /\ sets' = RemoveAt(sets, i)
      BY <1>6 DEF HandleParamExtAck
    <2>2. rx' \in Calls /\ sets' \in Seq(Sets)
      BY <2>1, RemoveAtFacts DEF TypeOK, Calls
    <2>3. rxResult' \in AckResults
      BY <1>6 DEF HandleParamExtAck, TypeOK
    <2> QED
      BY <1>6, <2>2, <2>3 DEF HandleParamExtAck, TypeOK
  <1>7. ASSUME NEW m \in OnLink, HandleParamExtValue(m) PROVE TypeOK'
    BY <1>7, HandleParamExtValueTypes
  <1>8. CASE ReceiveCallback
    <2>1. rx \in Calls /\ rxResult \in Results /\ delivered \in [Calls -> Seq(Results)]
      BY <1>8 DEF ReceiveCallback, Results, TypeOK
    <2>2. Append(delivered[rx], rxResult) \in Seq(Results)
      BY <2>1, AppendProperties
    <2> QED
      BY <1>8, <2>1, <2>2 DEF ReceiveCallback, TypeOK
  <1>9. ASSUME NEW where \in {"scan_get_all", "scan_set"}, StartScan(where) PROVE TypeOK'
    BY <1>9 DEF StartScan, TypeOK
  <1>10. ASSUME NEW S \in {Sets, GetAlls}, NEW list \in Seq(S), NEW where, ScanSkip(where, list)
         PROVE  TypeOK'
    BY <1>10, ScanTypes DEF ScanSkip, TypeOK
  <1>11. CASE GetAllRetransmit
    <2>1. getAlls[it] \in GetAlls /\ getAlls[it] \in Calls /\ it' \in Nat \ {0}
      BY <1>11, ScanTypes DEF GetAllRetransmit, TypeOK
    <2>2. asked' \in [Servers -> SUBSET Nat]
      BY <1>11, <2>1, AskedFacts DEF GetAllRetransmit
    <2>3. nTx' \in [Calls -> Nat] /\ due' \subseteq Calls
      BY <1>11, <2>1, CountFacts DEF GetAllRetransmit, send_next_message_running_get_all
    <2> QED
      BY <1>11, <2>1, <2>2, <2>3 DEF GetAllRetransmit, TypeOK
  <1>12. CASE SetRetransmit
    <2>1. sets[it] \in Calls /\ it' \in Nat \ {0}
      BY <1>12, ScanTypes DEF SetRetransmit, TypeOK
    <2>2. nTx' \in [Calls -> Nat] /\ due' \subseteq Calls /\ asked' = asked
      BY <1>12, <2>1, CountFacts DEF SetRetransmit, send_next_message_running_set
    <2> QED
      BY <1>12, <2>1, <2>2 DEF SetRetransmit, TypeOK
  <1>13. CASE GetAllGiveUp
    <2>1. getAlls' \in Seq(GetAlls) /\ it' \in Nat \ {0} /\ timedOut' \in Seq(Calls)
      BY <1>13, ScanTypes DEF GetAllGiveUp, GiveUp, TypeOK
    <2> QED
      BY <1>13, <2>1 DEF GetAllGiveUp, GiveUp, TypeOK
  <1>14. CASE SetGiveUp
    <2>1. sets' \in Seq(Sets) /\ it' \in Nat \ {0} /\ timedOut' \in Seq(Calls)
      BY <1>14, ScanTypes DEF SetGiveUp, GiveUp, TypeOK
    <2> QED
      BY <1>14, <2>1 DEF SetGiveUp, GiveUp, TypeOK
  <1>15. CASE ScanEnd
    BY <1>15 DEF ScanEnd, TypeOK
  <1>16. CASE TimeoutCallback
    <2>1. Head(timedOut) \in Calls /\ Tail(timedOut) \in Seq(Calls)
      BY <1>16, HeadTailProperties DEF TimeoutCallback, TypeOK
    <2>2. delivered \in [Calls -> Seq(Results)]
      BY DEF TypeOK
    <2>3. \A res \in {"no_ack", "failure"} : Append(delivered[Head(timedOut)], res) \in Seq(Results)
      BY <2>1, <2>2, AppendProperties DEF Results
    <2>4. delivered' \in [Calls -> Seq(Results)]
      BY <1>16, <2>1, <2>2, <2>3 DEF TimeoutCallback
    <2> QED
      BY <1>16, <2>1, <2>4 DEF TimeoutCallback, TypeOK
  <1>17. CASE TimeoutNext
    <2>1. CASE StartScan("scan_set")
      BY <1>9, <2>1
    <2>2. CASE ~StartScan("scan_set")
      BY <1>17, <2>2 DEF TimeoutNext, TypeOK
    <2> QED
      BY <2>1, <2>2
  <1>18. CASE Terminate
    BY <1>18 DEF Terminate, TypeOK
  <1>19. CASE UNCHANGED vars
    BY <1>19 DEF vars, TypeOK
  <1>20. TimeoutThread => TypeOK'
    <2>1. sets \in Seq(Sets) /\ getAlls \in Seq(GetAlls)
      BY DEF TypeOK
    <2>2. TimeoutWake => StartScan("scan_get_all")
      BY DEF TimeoutWake
    <2> QED
      BY <1>9, <1>10, <1>11, <1>12, <1>13, <1>14, <1>15, <1>16, <1>17, <2>1, <2>2 DEF TimeoutThread
  <1> QED
    BY <1>1, <1>2, <1>3, <1>4, <1>5, <1>6, <1>7, <1>8, <1>18, <1>19, <1>20 DEF Next

\* Every variable of the parameter client keeps its type, for any number of calls and
\* servers: the lists hold calls of their own kind, the indices stored are numbers.
THEOREM TypeCorrect == Spec => []TypeOK
  BY InitTypeOK, NextTypeOK, PTL DEF Spec

-----------------------------------------------------------------------------
(***************************************************************************)
(* The invariant.  As for CmdSender, it adds that a call that was not      *)
(* enqueued was not transmitted, and that a timeout thread outside of its  *)
(* pass holds no callbacks.                                                *)
(***************************************************************************)
QueueBound == Len(sets) <= MAX_N_SIMULTANOEUS_COMMANDS

Bookkeeping ==
    /\ \A c \in Calls : ~Enqueued(c) => nTx[c] = 0
    /\ tpc \in {"sleep", "exited"} => timedOut = <<>>

IndInv == TypeOK /\ QueueBound /\ CompletedOnce /\ GiveUpExhausted /\ Bookkeeping

\* No call has been made.
LEMMA InitIndInv == Init => IndInv
  <1> SUFFICES ASSUME Init PROVE IndInv
    OBVIOUS
  <1>1. TypeOK
    BY InitTypeOK
  <1>2. /\ ToSet(<<>>) = {} /\ IsInjective(<<>>) /\ Len(<<>>) = 0
    BY DEF ToSet, IsInjective
  <1>3. QueueBound /\ Bookkeeping
    BY <1>2, ConstantsAssumption DEF Init, QueueBound, Bookkeeping
  <1>4. CompletedOnce
    BY <1>2, ConstantsAssumption
    DEF Init, CompletedOnce, InQueue, InTimedOut, Called, Enqueued
  <1>5. GiveUpExhausted
    BY <1>2, ConstantsAssumption DEF Init, GiveUpExhausted, InTimedOut, Called
  <1> QED
    BY <1>1, <1>3, <1>4, <1>5 DEF IndInv

\* A step that moves no call and transmits nothing.
LEMMA NothingMoves ==
    ASSUME IndInv, TypeOK', UNCHANGED <<sets, getAlls, nTx, timedOut, rx, delivered>>,
           \A c \in Calls : Enqueued(c)' = Enqueued(c),
           tpc' = tpc \/ timedOut = <<>> \/ tpc' \notin {"sleep", "exited"}
    PROVE  IndInv'
  BY DEF IndInv, QueueBound, CompletedOnce, GiveUpExhausted, Bookkeeping, InQueue, InTimedOut, Called

\* A call joins its list and is transmitted.
LEMMA Joins ==
    ASSUME IndInv, TypeOK', NEW c \in Calls, caller[c] = "idle",
           caller' = [caller EXCEPT ![c] = Pending(c)],
           \A d \in Calls : InQueue(d)' <=> InQueue(d) \/ d = c,
           IsInjective(sets'), IsInjective(getAlls'), QueueBound',
           nTx'[c] = nTx[c] + 1, \A d \in Calls \ {c} : nTx'[d] = nTx[d],
           UNCHANGED <<tpc, timedOut, rx, delivered>>
    PROVE  IndInv'
  <1>1. TypeOK /\ ~Enqueued(c) /\ nTx[c] = 0
    BY DEF IndInv, Bookkeeping, Enqueued
  <1>2. \A d \in Calls : Enqueued(d)' <=> Enqueued(d) \/ d = c
    BY <1>1 DEF TypeOK, Enqueued, Pending
  <1>3. ~InQueue(c) /\ ~InTimedOut(c) /\ rx # c /\ ~Called(c)
    BY <1>1 DEF IndInv, CompletedOnce
  <1>4. CompletedOnce'
    BY <1>2, <1>3 DEF IndInv, CompletedOnce, InTimedOut, Called
  <1>5. GiveUpExhausted'
    <2>1. nTx'[c] <= Wanted[c]
      BY <1>1, ConstantsAssumption
    <2>2. ~InTimedOut(c)' /\ ~Called(c)'
      BY <1>3 DEF InTimedOut, Called
    <2>3. ASSUME NEW d \in Calls, d # c
          PROVE  /\ nTx'[d] <= Wanted[d]
                 /\ InTimedOut(d)' \/ (Called(d)' /\ Head(delivered'[d]) \in {"no_ack", "failure"})
                      => nTx'[d] = Wanted[d]
      BY <2>3 DEF IndInv, GiveUpExhausted, InTimedOut, Called
    <2> QED
      BY <2>1, <2>2, <2>3 DEF GiveUpExhausted
  <1>6. Bookkeeping'
    BY <1>2 DEF IndInv, Bookkeeping
  <1> QED
    BY <1>4, <1>5, <1>6 DEF IndInv

\* A list loses the call at one position.
LEMMA SetRemoved ==
    ASSUME IndInv, NEW i \in 1..Len(sets), sets' = RemoveAt(sets, i), getAlls' = getAlls
    PROVE  /\ sets[i] \in Sets /\ sets[i] \in Calls /\ InQueue(sets[i])
           /\ IsInjective(sets') /\ IsInjective(getAlls') /\ QueueBound'
           /\ \A d \in Calls : InQueue(d)' <=> InQueue(d) /\ d # sets[i]
  <1>1. sets \in Seq(Sets) /\ getAlls \in Seq(GetAlls) /\ IsInjective(sets) /\ IsInjective(getAlls)
    BY DEF IndInv, TypeOK, CompletedOnce
  <1>2. sets[i] \in Sets /\ sets[i] \in Calls /\ sets[i] \in ToSet(sets)
    BY <1>1 DEF Calls, ToSet
  <1>3. sets[i] \notin ToSet(getAlls)
    BY <1>1, <1>2, ConstantsAssumption DEF ToSet
  <1>4. ToSet(sets') = ToSet(sets) \ {sets[i]} /\ IsInjective(sets')
    BY <1>1, RemoveAtDistinct
  <1>5. Len(sets') = Len(sets) - 1
    BY <1>1, RemoveAtFacts
  <1>6. QueueBound'
    BY <1>1, <1>5, ConstantsAssumption DEF QueueBound, IndInv
  <1> QED
    BY <1>1, <1>2, <1>3, <1>4, <1>6 DEF InQueue

\* The same for the list of get-alls.
LEMMA GetAllRemoved ==
    ASSUME IndInv, NEW i \in 1..Len(getAlls), getAlls' = RemoveAt(getAlls, i), sets' = sets
    PROVE  /\ getAlls[i] \in GetAlls /\ getAlls[i] \in Calls /\ InQueue(getAlls[i])
           /\ IsInjective(sets') /\ IsInjective(getAlls') /\ QueueBound'
           /\ \A d \in Calls : InQueue(d)' <=> InQueue(d) /\ d # getAlls[i]
  <1>1. sets \in Seq(Sets) /\ getAlls \in Seq(GetAlls) /\ IsInjective(sets) /\ IsInjective(getAlls)
    BY DEF IndInv, TypeOK, CompletedOnce
  <1>2. getAlls[i] \in GetAlls /\ getAlls[i] \in Calls /\ getAlls[i] \in ToSet(getAlls)
    BY <1>1 DEF Calls, ToSet
  <1>3. getAlls[i] \notin ToSet(sets)
    BY <1>1, <1>2, ConstantsAssumption DEF ToSet
  <1>4. ToSet(getAlls') = ToSet(getAlls) \ {getAlls[i]} /\ IsInjective(getAlls')
    BY <1>1, RemoveAtDistinct
  <1>5. QueueBound'
    BY DEF QueueBound, IndInv
  <1> QED
    BY <1>1, <1>2, <1>3, <1>4, <1>5 DEF InQueue

\* A call goes from its list to the receive thread.
LEMMA ToReceiver ==
    ASSUME IndInv, TypeOK', NEW c \in Calls, InQueue(c),
           IsInjective(sets'), IsInjective(getAlls'), QueueBound',
           \A d \in Calls : InQueue(d)' <=> InQueue(d) /\ d # c,
           rx = None, rx' = c, UNCHANGED <<caller, nTx, tpc, timedOut, delivered>>
    PROVE  IndInv'
  <1>1. \A d \in Calls : rx # d /\ (rx' = d <=> d = c)
    BY ConstantsAssumption
  <1>2. CompletedOnce'
    BY <1>1 DEF IndInv, CompletedOnce, InTimedOut, Called, Enqueued
  <1>3. GiveUpExhausted' /\ Bookkeeping'
    BY DEF IndInv, GiveUpExhausted, Bookkeeping, InTimedOut, Called, Enqueued
  <1> QED
    BY <1>2, <1>3 DEF IndInv

\* A call goes from its list to the timeout thread, which gives it up.
LEMMA ToTimeoutThread ==
    ASSUME IndInv, TypeOK', NEW c \in Calls, InQueue(c),
           IsInjective(sets'), IsInjective(getAlls'), QueueBound',
           \A d \in Calls : InQueue(d)' <=> InQueue(d) /\ d # c,
           timedOut' = Append(timedOut, c), ~MayRetransmit(c), tpc \notin {"sleep", "exited"},
           UNCHANGED <<caller, nTx, tpc, rx, delivered>>
    PROVE  IndInv'
  <1>1. ~InTimedOut(c) /\ timedOut \in Seq(Calls) /\ IsInjective(timedOut)
    BY DEF IndInv, CompletedOnce, TypeOK
  <1>2. IsInjective(timedOut') /\ ToSet(timedOut') = ToSet(timedOut) \cup {c}
    BY <1>1, AppendDistinct DEF InTimedOut
  <1>3. \A d \in Calls : InTimedOut(d)' <=> InTimedOut(d) \/ d = c
    BY <1>2 DEF InTimedOut
  <1>4. CompletedOnce'
    BY <1>2, <1>3 DEF IndInv, CompletedOnce, Called, Enqueued
  <1>5. nTx[c] = Wanted[c]
    <2>1. nTx[c] \in Nat /\ Wanted[c] \in Nat /\ nTx[c] <= Wanted[c]
      BY ConstantsAssumption DEF IndInv, TypeOK, GiveUpExhausted
    <2> QED
      BY <2>1 DEF MayRetransmit
  <1>6. GiveUpExhausted'
    BY <1>3, <1>5 DEF IndInv, GiveUpExhausted, Called
  <1>7. Bookkeeping'
    BY DEF IndInv, Bookkeeping, Enqueued
  <1> QED
    BY <1>4, <1>6, <1>7 DEF IndInv

\* A call is transmitted again.
LEMMA Retransmitted ==
    ASSUME IndInv, TypeOK', NEW c \in Calls, InQueue(c), MayRetransmit(c), CountTransmission(c),
           UNCHANGED <<caller, sets, getAlls, tpc, timedOut, rx, delivered>>
    PROVE  IndInv'
  <1>1. nTx'[c] = nTx[c] + 1 /\ \A d \in Calls \ {c} : nTx'[d] = nTx[d]
    BY CountFacts DEF IndInv
  <1>2. ~InTimedOut(c) /\ ~Called(c) /\ Enqueued(c)
    BY DEF IndInv, CompletedOnce
  <1>3. nTx[c] + 1 <= Wanted[c]
    BY ConstantsAssumption DEF MayRetransmit, IndInv, TypeOK
  <1>4. QueueBound' /\ CompletedOnce'
    BY DEF IndInv, QueueBound, CompletedOnce, InQueue, InTimedOut, Called, Enqueued
  <1>5. GiveUpExhausted'
    BY <1>1, <1>2, <1>3 DEF IndInv, GiveUpExhausted, InTimedOut, Called
  <1>6. Bookkeeping'
    BY <1>1, <1>2 DEF IndInv, Bookkeeping, Enqueued
  <1> QED
    BY <1>4, <1>5, <1>6 DEF IndInv

\* The result callback of a call is called.
LEMMA FirstResult ==
    ASSUME TypeOK, NEW c \in Calls, delivered[c] = <<>>, NEW res,
           delivered' = [delivered EXCEPT ![c] = Append(@, res)]
    PROVE  /\ delivered'[c] = <<res>> /\ Len(delivered'[c]) = 1
           /\ Called(c)' /\ Head(delivered'[c]) = res
           /\ \A d \in Calls \ {c} : delivered'[d] = delivered[d]
  <1>1. /\ delivered'[c] = <<res>>
        /\ \A d \in Calls \ {c} : delivered'[d] = delivered[d]
    BY DEF TypeOK
  <1>2. Len(<<res>>) = 1 /\ <<res>> # <<>> /\ Head(<<res>>) = res
    OBVIOUS
  <1> QED
    BY <1>1, <1>2 DEF Called

\* The result of the receive thread goes to the call it holds.
LEMMA ReceiveCallbackIndInv ==
    ASSUME IndInv, TypeOK', ReceiveCallback
    PROVE  IndInv'
  <1>1. PICK c \in Calls : c = rx
    BY DEF ReceiveCallback, IndInv, TypeOK
  <1>2. /\ rx' = None /\ delivered' = [delivered EXCEPT ![c] = Append(@, rxResult)]
        /\ UNCHANGED <<caller, sets, getAlls, nTx, tpc, timedOut>>
    BY <1>1 DEF ReceiveCallback, threadVars
  <1>3. TypeOK /\ delivered[c] = <<>> /\ ~InQueue(c) /\ ~InTimedOut(c) /\ Enqueued(c)
    BY <1>1 DEF IndInv, CompletedOnce, Called
  <1>4. /\ Len(delivered'[c]) = 1 /\ Called(c)' /\ Head(delivered'[c]) = rxResult
        /\ \A d \in Calls \ {c} : delivered'[d] = delivered[d]
    BY <1>2, <1>3, FirstResult
  <1>5. \A d \in Calls : rx' # d /\ (rx = d <=> d = c)
    BY <1>1, <1>2, ConstantsAssumption
  <1>6. CompletedOnce'
    <2>1. ASSUME NEW d \in Calls \ {c}
          PROVE  Called(d)' = Called(d) /\ Len(delivered'[d]) = Len(delivered[d])
      BY <1>4 DEF Called
    <2> QED
      BY <1>2, <1>3, <1>4, <1>5, <2>1 DEF IndInv, CompletedOnce, InQueue, InTimedOut, Enqueued
  <1>7. GiveUpExhausted'
    <2>1. rxResult \notin {"no_ack", "failure"}
      BY <1>3 DEF TypeOK, AckResults
    <2> QED
      BY <1>2, <1>3, <1>4, <2>1 DEF IndInv, GiveUpExhausted, InTimedOut, Called
  <1>8. QueueBound' /\ Bookkeeping'
    BY <1>2 DEF IndInv, QueueBound, Bookkeeping, Enqueued
  <1> QED
    BY <1>6, <1>7, <1>8 DEF IndInv

\* The timeout thread reports the first call it gave up.
LEMMA TimeoutCallbackIndInv ==
    ASSUME IndInv, TypeOK', TimeoutCallback
    PROVE  IndInv'
  <1>1. /\ timedOut # <<>> /\ timedOut' = Tail(timedOut) /\ tpc \notin {"sleep", "exited"}
        /\ timedOut \in Seq(Calls) /\ IsInjective(timedOut)
        /\ UNCHANGED <<caller, sets, getAlls, nTx, tpc, rx>>
    BY DEF TimeoutCallback, IndInv, TypeOK, CompletedOnce, rxVars
  <1>2. PICK c \in Calls : c = Head(timedOut)
    BY <1>1, HeadTailProperties
  <1>3. PICK res \in {"no_ack", "failure"} : delivered' = [delivered EXCEPT ![c] = Append(@, res)]
    BY <1>2 DEF TimeoutCallback
  <1>4. /\ InTimedOut(c) /\ IsInjective(timedOut')
        /\ \A d \in Calls : InTimedOut(d)' <=> InTimedOut(d) /\ d # c
    BY <1>1, <1>2, TailDistinct DEF InTimedOut
  <1>5. TypeOK /\ delivered[c] = <<>> /\ ~InQueue(c) /\ rx # c /\ Enqueued(c) /\ nTx[c] = Wanted[c]
    BY <1>4 DEF IndInv, CompletedOnce, Called, GiveUpExhausted
  <1>6. /\ Len(delivered'[c]) = 1 /\ Called(c)'
        /\ \A d \in Calls \ {c} : delivered'[d] = delivered[d]
    BY <1>3, <1>5, FirstResult
  <1>7. ASSUME NEW d \in Calls \ {c}
        PROVE  Called(d)' = Called(d) /\ delivered'[d] = delivered[d]
    BY <1>6 DEF Called
  <1>8. CompletedOnce'
    <2>1. \A d \in Calls : InQueue(d)' = InQueue(d) /\ Enqueued(d)' = Enqueued(d)
      BY <1>1 DEF InQueue, Enqueued
    <2>2. /\ Len(delivered'[c]) <= 1 /\ Enqueued(c)' /\ Called(c)'
          /\ ~InQueue(c)' /\ ~InTimedOut(c)' /\ rx' # c
      BY <1>1, <1>4, <1>5, <1>6, <2>1
    <2>3. ASSUME NEW d \in Calls \ {c}
          PROVE  (InTimedOut(d)' <=> InTimedOut(d)) /\ Called(d)' = Called(d) /\ rx' = rx
                 /\ Len(delivered'[d]) = Len(delivered[d])
      BY <1>1, <1>4, <1>7
    <2>4. IsInjective(sets') /\ IsInjective(getAlls')
      BY <1>1 DEF IndInv, CompletedOnce
    <2> QED
      BY <1>4, <2>1, <2>2, <2>3, <2>4 DEF IndInv, CompletedOnce
  <1>9. GiveUpExhausted'
    BY <1>1, <1>4, <1>5, <1>7 DEF IndInv, GiveUpExhausted
  <1>10. QueueBound' /\ Bookkeeping'
    BY <1>1 DEF IndInv, QueueBound, Bookkeeping, Enqueued
  <1> QED
    BY <1>8, <1>9, <1>10 DEF IndInv

\* A set is refused, or joins a list that was not full.
LEMMA TrySetParamIndInv ==
    ASSUME IndInv, TypeOK', NEW s \in Sets, TrySetParam(s)
    PROVE  IndInv'
  <1>1. s \in Calls /\ caller[s] = "idle" /\ TypeOK
    BY DEF TrySetParam, Calls, IndInv
  <1>2. UNCHANGED <<getAlls, tpc, timedOut, rx, delivered>>
    BY DEF TrySetParam, threadVars, rxVars
  <1>3. CASE QueueFull
    <2>1. caller' = [caller EXCEPT ![s] = "refused"] /\ UNCHANGED <<sets, nTx>>
      BY <1>3 DEF TrySetParam
    <2>2. \A c \in Calls : Enqueued(c)' = Enqueued(c)
      BY <1>1, <2>1 DEF Enqueued, TypeOK
    <2> QED
      BY <1>2, <2>1, <2>2, NothingMoves
  <1>4. CASE ~QueueFull
    <2>1. /\ caller' = [caller EXCEPT ![s] = Pending(s)] /\ sets' = Append(sets, s)
          /\ CountTransmission(s)
      BY <1>4 DEF TrySetParam, send_next_message_running_set
    <2>2. sets \in Seq(Sets) /\ IsInjective(sets) /\ IsInjective(getAlls) /\ s \notin ToSet(sets)
      BY <1>1 DEF IndInv, TypeOK, CompletedOnce, InQueue, Enqueued
    <2>3. IsInjective(sets') /\ ToSet(sets') = ToSet(sets) \cup {s}
      BY <2>1, <2>2, AppendDistinct
    <2>4. \A d \in Calls : InQueue(d)' <=> InQueue(d) \/ d = s
      BY <1>2, <2>3 DEF InQueue
    <2>5. nTx'[s] = nTx[s] + 1 /\ \A d \in Calls \ {s} : nTx'[d] = nTx[d]
      BY <1>1, <2>1, CountFacts
    <2>6. QueueBound'
      <3>1. Len(sets') = Len(sets) + 1
        BY <2>1, <2>2, AppendProperties
      <3> QED
        BY <1>4, <2>2, <3>1, ConstantsAssumption DEF QueueFull, QueueBound
    <2> QED
      BY <1>1, <1>2, <2>1, <2>2, <2>3, <2>4, <2>5, <2>6, Joins
  <1> QED
    BY <1>3, <1>4

\* A get-all joins its list.
LEMMA TryGetParamAllIndInv ==
    ASSUME IndInv, TypeOK', NEW g \in GetAlls, TryGetParamAll(g)
    PROVE  IndInv'
  <1>1. g \in Calls /\ caller[g] = "idle" /\ TypeOK
    BY DEF TryGetParamAll, Calls, IndInv
  <1>2. /\ UNCHANGED <<sets, tpc, timedOut, rx, delivered>>
        /\ caller' = [caller EXCEPT ![g] = Pending(g)] /\ getAlls' = Append(getAlls, g)
        /\ CountTransmission(g)
    BY DEF TryGetParamAll, threadVars, rxVars, send_next_message_running_get_all
  <1>3. /\ getAlls \in Seq(GetAlls) /\ IsInjective(sets) /\ IsInjective(getAlls)
        /\ g \notin ToSet(getAlls)
    BY <1>1 DEF IndInv, TypeOK, CompletedOnce, InQueue, Enqueued
  <1>4. IsInjective(getAlls') /\ ToSet(getAlls') = ToSet(getAlls) \cup {g}
    BY <1>2, <1>3, AppendDistinct
  <1>5. \A d \in Calls : InQueue(d)' <=> InQueue(d) \/ d = g
    BY <1>2, <1>4 DEF InQueue
  <1>6. nTx'[g] = nTx[g] + 1 /\ \A d \in Calls \ {g} : nTx'[d] = nTx[d]
    BY <1>1, <1>2, CountFacts
  <1>7. QueueBound' /\ IsInjective(sets')
    BY <1>2, <1>3 DEF IndInv, QueueBound
  <1> QED
    BY <1>1, <1>2, <1>4, <1>5, <1>6, <1>7, Joins

\* A completed get-all, or none, leaves its list.
LEMMA HandleParamExtValueIndInv ==
    ASSUME IndInv, TypeOK', NEW m \in OnLink, HandleParamExtValue(m)
    PROVE  IndInv'
  <1>1. rx = None /\ UNCHANGED <<caller, sets, nTx, tpc, timedOut, delivered>>
    BY DEF HandleParamExtValue, threadVars
  <1>2. PICK i \in 1..(Len(getAlls) + 1) :
          \/ i <= Len(getAlls) /\ rx' = getAlls[i] /\ getAlls' = RemoveAt(getAlls, i)
          \/ UNCHANGED <<rx, getAlls>>
    BY DEF HandleParamExtValue, rxVars
  <1>3. CASE UNCHANGED <<rx, getAlls>>
    BY <1>1, <1>3, NothingMoves DEF Enqueued
  <1>4. CASE i <= Len(getAlls) /\ rx' = getAlls[i] /\ getAlls' = RemoveAt(getAlls, i)
    <2>1. i \in 1..Len(getAlls)
      BY <1>4 DEF IndInv, TypeOK
    <2>2. /\ getAlls[i] \in Calls /\ InQueue(getAlls[i])
          /\ IsInjective(sets') /\ IsInjective(getAlls') /\ QueueBound'
          /\ \A d \in Calls : InQueue(d)' <=> InQueue(d) /\ d # getAlls[i]
      BY <1>1, <1>4, <2>1, GetAllRemoved
    <2>3. PICK c \in Calls : c = getAlls[i]
      BY <2>2
    <2> QED
      BY <1>1, <1>4, <2>2, <2>3, ToReceiver
  <1> QED
    BY <1>2, <1>3, <1>4

\* An ack moves one set to the receive thread.
LEMMA HandleParamExtAckIndInv ==
    ASSUME IndInv, TypeOK', NEW ack \in acks, HandleParamExtAck(ack)
    PROVE  IndInv'
  <1>1. rx = None /\ UNCHANGED <<caller, getAlls, nTx, tpc, timedOut, delivered>>
    BY DEF HandleParamExtAck, threadVars
  <1>2. PICK i \in 1..Len(sets) : rx' = sets[i] /\ sets' = RemoveAt(sets, i)
    BY DEF HandleParamExtAck
  <1>3. /\ sets[i] \in Calls /\ InQueue(sets[i])
        /\ IsInjective(sets') /\ IsInjective(getAlls') /\ QueueBound'
        /\ \A d \in Calls : InQueue(d)' <=> InQueue(d) /\ d # sets[i]
    BY <1>1, <1>2, SetRemoved
  <1>4. PICK c \in Calls : c = sets[i]
    BY <1>3
  <1> QED
    BY <1>1, <1>2, <1>3, <1>4, ToReceiver

\* Both scans give up the same way.
LEMMA GiveUpIndInv ==
    ASSUME IndInv, TypeOK', GetAllGiveUp \/ SetGiveUp
    PROVE  IndInv'
  <1>1. CASE GetAllGiveUp
    <2>1. it \in 1..Len(getAlls) /\ getAlls' = RemoveAt(getAlls, it) /\ sets' = sets
      BY <1>1 DEF GetAllGiveUp, GiveUp, At, IndInv, TypeOK
    <2>2. /\ getAlls[it] \in Calls /\ InQueue(getAlls[it])
          /\ IsInjective(sets') /\ IsInjective(getAlls') /\ QueueBound'
          /\ \A d \in Calls : InQueue(d)' <=> InQueue(d) /\ d # getAlls[it]
      BY <2>1, GetAllRemoved
    <2>3. PICK c \in Calls : c = getAlls[it]
      BY <2>2
    <2>4. /\ timedOut' = Append(timedOut, c) /\ ~MayRetransmit(c) /\ tpc \notin {"sleep", "exited"}
          /\ UNCHANGED <<caller, nTx, tpc, rx, delivered>>
      BY <1>1, <2>3 DEF GetAllGiveUp, GiveUp, At, rxVars
    <2> QED
      BY <2>2, <2>3, <2>4, ToTimeoutThread
  <1>2. CASE SetGiveUp
    <2>1. it \in 1..Len(sets) /\ sets' = RemoveAt(sets, it) /\ getAlls' = getAlls
      BY <1>2 DEF SetGiveUp, GiveUp, At, IndInv, TypeOK
    <2>2. /\ sets[it] \in Calls /\ InQueue(sets[it])
          /\ IsInjective(sets') /\ IsInjective(getAlls') /\ QueueBound'
          /\ \A d \in Calls : InQueue(d)' <=> InQueue(d) /\ d # sets[it]
      BY <2>1, SetRemoved
    <2>3. PICK c \in Calls : c = sets[it]
      BY <2>2
    <2>4. /\ timedOut' = Append(timedOut, c) /\ ~MayRetransmit(c) /\ tpc \notin {"sleep", "exited"}
          /\ UNCHANGED <<caller, nTx, tpc, rx, delivered>>
      BY <1>2, <2>3 DEF SetGiveUp, GiveUp, At, rxVars
    <2> QED
      BY <2>2, <2>3, <2>4, ToTimeoutThread
  <1> QED
    BY <1>1, <1>2

\* A retransmission is counted below the limit.
LEMMA RetransmitIndInv ==
    ASSUME IndInv, TypeOK', GetAllRetransmit \/ SetRetransmit
    PROVE  IndInv'
  <1>1. CASE GetAllRetransmit
    <2>1. getAlls \in Seq(GetAlls) /\ it \in 1..Len(getAlls)
      BY <1>1 DEF GetAllRetransmit, At, IndInv, TypeOK
    <2>2. getAlls[it] \in Calls /\ InQueue(getAlls[it])
      BY <2>1 DEF Calls, InQueue, ToSet
    <2>3. PICK c \in Calls : c = getAlls[it] /\ InQueue(c)
      BY <2>2
    <2>4. /\ MayRetransmit(c) /\ CountTransmission(c)
          /\ UNCHANGED <<caller, sets, getAlls, tpc, timedOut, rx, delivered>>
      BY <1>1, <2>3 DEF GetAllRetransmit, send_next_message_running_get_all, rxVars
    <2> QED
      BY <2>3, <2>4, Retransmitted
  <1>2. CASE SetRetransmit
    <2>1. sets \in Seq(Sets) /\ it \in 1..Len(sets)
      BY <1>2 DEF SetRetransmit, At, IndInv, TypeOK
    <2>2. sets[it] \in Calls /\ InQueue(sets[it])
      BY <2>1 DEF Calls, InQueue, ToSet
    <2>3. PICK c \in Calls : c = sets[it] /\ InQueue(c)
      BY <2>2
    <2>4. /\ MayRetransmit(c) /\ CountTransmission(c)
          /\ UNCHANGED <<caller, sets, getAlls, tpc, timedOut, rx, delivered>>
      BY <1>2, <2>3 DEF SetRetransmit, send_next_message_running_set, rxVars
    <2> QED
      BY <2>3, <2>4, Retransmitted
  <1> QED
    BY <1>1, <1>2

\* Every step keeps the invariant.
LEMMA NextIndInv == IndInv /\ [Next]_vars => IndInv'
  <1> SUFFICES ASSUME IndInv, [Next]_vars PROVE IndInv'
    OBVIOUS
  <1>0. TypeOK'
    BY NextTypeOK DEF IndInv
  <1>1. ASSUME NEW s \in Sets, TrySetParam(s) PROVE IndInv'
    BY <1>0, <1>1, TrySetParamIndInv
  <1>2. ASSUME NEW g \in GetAlls, TryGetParamAll(g) PROVE IndInv'
    BY <1>0, <1>2, TryGetParamAllIndInv
  <1>3. ASSUME NEW c \in Calls, BlockingReturn(c) PROVE IndInv'
    <2>1. \A d \in Calls : Enqueued(d)' = Enqueued(d)
      BY <1>3 DEF BlockingReturn, Enqueued, IndInv, TypeOK
    <2> QED
      BY <1>0, <1>3, <2>1, NothingMoves DEF BlockingReturn, threadVars, rxVars
  <1>4. ASSUME NEW c \in Calls, Elapse(c) PROVE IndInv'
    BY <1>0, <1>4, NothingMoves DEF Elapse, Enqueued, threadVars, rxVars
  <1>5. ASSUME NEW s \in Sets, NEW result \in AckResults, ServerSets(s, result) PROVE IndInv'
    BY <1>0, <1>5, NothingMoves DEF ServerSets, Enqueued, threadVars, rxVars
  <1>6. ASSUME NEW ack \in acks, HandleParamExtAck(ack) PROVE IndInv'
    BY <1>0, <1>6, HandleParamExtAckIndInv
  <1>7. ASSUME NEW m \in OnLink, HandleParamExtValue(m) PROVE IndInv'
    BY <1>0, <1>7, HandleParamExtValueIndInv
  <1>8. CASE ReceiveCallback
    BY <1>0, <1>8, ReceiveCallbackIndInv
  <1>9. CASE Terminate \/ UNCHANGED vars
    <2>1. UNCHANGED <<caller, sets, getAlls, nTx, tpc, timedOut, rx, delivered>>
      BY <1>9 DEF Terminate, vars, rxVars
    <2> QED
      BY <1>0, <2>1, NothingMoves DEF Enqueued
  <1>10. ASSUME NEW where \in {"scan_get_all", "scan_set"}, StartScan(where), timedOut = <<>>
         PROVE  IndInv'
    <2>1. UNCHANGED <<caller, sets, getAlls, nTx, timedOut, rx, delivered>>
      BY <1>10 DEF StartScan, rxVars
    <2> QED
      BY <1>0, <1>10, <2>1, NothingMoves DEF Enqueued
  <1>11. CASE TimeoutWake
    BY <1>10, <1>11 DEF TimeoutWake, IndInv, Bookkeeping
  <1>12. CASE ScanSkip("scan_get_all", getAlls) \/ ScanSkip("scan_set", sets) \/ ScanEnd
    <2>1. /\ UNCHANGED <<caller, sets, getAlls, nTx, timedOut, rx, delivered>>
          /\ tpc' = tpc \/ tpc' \notin {"sleep", "exited"}
      BY <1>12 DEF ScanSkip, ScanEnd, rxVars
    <2> QED
      BY <1>0, <2>1, NothingMoves DEF Enqueued
  <1>13. CASE GetAllRetransmit \/ SetRetransmit
    BY <1>0, <1>13, RetransmitIndInv
  <1>14. CASE GetAllGiveUp \/ SetGiveUp
    BY <1>0, <1>14, GiveUpIndInv
  <1>15. CASE TimeoutCallback
    BY <1>0, <1>15, TimeoutCallbackIndInv
  <1>16. CASE TimeoutNext
    <2>1. CASE StartScan("scan_set")
      BY <1>10, <1>16, <2>1 DEF TimeoutNext
    <2>2. CASE ~StartScan("scan_set")
      <3>1. UNCHANGED <<caller, sets, getAlls, nTx, timedOut, rx, delivered>> /\ timedOut = <<>>
        BY <1>16, <2>2 DEF TimeoutNext, rxVars
      <3> QED
        BY <1>0, <3>1, NothingMoves DEF Enqueued
    <2> QED
      BY <2>1, <2>2
  <1> QED
    BY <1>1, <1>2, <1>3, <1>4, <1>5, <1>6, <1>7, <1>8, <1>9, <1>11, <1>12, <1>13, <1>14, <1>15,
       <1>16 DEF Next, TimeoutThread

\* The inductive invariant holds in every reachable state.
LEMMA SpecIndInv == Spec => []IndInv
  BY InitIndInv, NextIndInv, PTL DEF Spec

\* For any calls and servers: a set or get-all is in exactly one of the hands that may
\* complete it, so its callback is called at most once (xparam.cpp:81-83, 111-117)
\* and no call is lost between the threads.
THEOREM CallsCompleteOnce == Spec => []CompletedOnce
  <1>1. IndInv => CompletedOnce
    BY DEF IndInv
  <1> QED
    BY <1>1, SpecIndInv, PTL

\* A call is reported unanswered only after all its transmissions, and never sent more
\* often than its caller wanted.
THEOREM GivingUpIsExhausted == Spec => []GiveUpExhausted
  <1>1. IndInv => GiveUpExhausted
    BY DEF IndInv
  <1> QED
    BY <1>1, SpecIndInv, PTL

-----------------------------------------------------------------------------
(***************************************************************************)
(* What a get-all collects.  Only valid responses of its own server are    *)
(* stored, so what is known of the size and the values is right at every   *)
(* moment; a get-all that left its list is not changed any more.           *)
(***************************************************************************)
CollectsRight(g) ==
    \/ size[g] = 0 /\ got[g] = {}
    \/ size[g] = ParamCount[Server[g]] /\ got[g] \subseteq Indices(Server[g])

HasAll(g) == size[g] = ParamCount[Server[g]] /\ got[g] = Indices(Server[g])

Succeeded(g) == rx = g \/ delivered[g] = <<"success">>

CollectInv ==
    /\ \A g \in GetAlls : CollectsRight(g) /\ (Succeeded(g) => HasAll(g))
    /\ \A srv \in Servers : asked[srv] \subseteq Indices(srv)

\* Nothing is known of any set.
LEMMA InitCollectInv == Init => CollectInv
  BY ConstantsAssumption
  DEF Init, CollectInv, CollectsRight, Succeeded, Calls

\* Valid responses are those of the servers.
LEMMA ValidIsServed ==
    ASSUME CollectInv, NEW m \in OnLink, ValidResponse(m)
    PROVE  m.from \in Servers /\ m.count = ParamCount[m.from] /\ m.index \in Indices(m.from)
  <1>1. m \in Served
    <2>1. \A x \in Malformed : x.index >= x.count /\ x.index \in Nat /\ x.count \in Nat
      BY ConstantsAssumption DEF Responses
    <2>2. m \notin Malformed
      BY <2>1 DEF ValidResponse
    <2> QED
      BY <2>2 DEF OnLink
  <1>2. PICK srv \in Servers :
            m \in {[from |-> srv, count |-> ParamCount[srv], index |-> i] : i \in asked[srv]}
    BY <1>1 DEF Served
  <1>3. PICK i \in asked[srv] : m = [from |-> srv, count |-> ParamCount[srv], index |-> i]
    BY <1>2
  <1> QED
    BY <1>2, <1>3 DEF CollectInv

\* A request asks for indices its server has.
LEMMA AsksForIndices ==
    ASSUME IndInv, CollectInv, NEW g \in GetAlls, send_next_message_running_get_all(g)
    PROVE  \A srv \in Servers : asked'[srv] \subseteq Indices(srv)
  <1>1. Server[g] \in Servers /\ ParamCount[Server[g]] \in Nat
    BY ConstantsAssumption DEF Calls
  <1>2. Requested(g) \subseteq Indices(Server[g])
    <2>1. CASE RequestsList(g)
      BY <2>1 DEF Requested
    <2>2. CASE ~RequestsList(g)
      <3>1. size[g] # 0
        BY <2>2 DEF RequestsList
      <3>2. size[g] = ParamCount[Server[g]]
        BY <3>1 DEF CollectInv, CollectsRight
      <3>3. ReadIndices(g) \subseteq Indices(Server[g])
        BY <1>1, <3>2, ConstantsAssumption DEF ReadIndices, Indices
      <3> QED
        BY <2>2, <3>3 DEF Requested
    <2> QED
      BY <2>1, <2>2
  <1>3. asked' = [asked EXCEPT ![Server[g]] = @ \cup Requested(g)] /\ asked \in [Servers -> SUBSET Nat]
    BY DEF send_next_message_running_get_all, IndInv, TypeOK
  <1> HIDE DEF Requested
  <1>4. ASSUME NEW srv \in Servers PROVE asked'[srv] \subseteq Indices(srv)
    <2>1. asked[srv] \subseteq Indices(srv)
      BY DEF CollectInv
    <2>2. CASE srv = Server[g]
      BY <1>2, <1>3, <2>1, <2>2
    <2>3. CASE srv # Server[g]
      BY <1>3, <2>1, <2>3
    <2> QED
      BY <2>2, <2>3
  <1> QED
    BY <1>4

\* A valid response is stored by get-alls of its server that do not have it, and
\* completes at most one.
LEMMA ValueCollectInv ==
    ASSUME IndInv, CollectInv, NEW m \in OnLink, HandleParamExtValue(m)
    PROVE  CollectInv'
  <1>1. PICK i \in 1..(Len(getAlls) + 1) :
          /\ ReturnsAt(i, m)
          /\ size' = [g \in GetAlls |-> IF g \in StoredBy(i, m) THEN SizeAfter(g, m) ELSE size[g]]
          /\ got' = [g \in GetAlls |-> IF g \in StoredBy(i, m) THEN got[g] \cup {m.index} ELSE got[g]]
          /\ \/ i <= Len(getAlls) /\ Completes(getAlls[i], m) /\ rx' = getAlls[i]
             \/ rx' = rx
    BY DEF HandleParamExtValue, rxVars
  <1>2. rx = None /\ UNCHANGED <<delivered, asked>>
    BY DEF HandleParamExtValue, linkVars
  <1>3. m.from \in Servers /\ m.count = ParamCount[m.from] /\ m.index \in Indices(m.from)
    BY ValidIsServed DEF HandleParamExtValue
  <1>4. getAlls \in Seq(GetAlls)
    BY DEF IndInv, TypeOK
  <1>5. ASSUME NEW g \in GetAlls, g \in StoredBy(i, m)
        PROVE  /\ SizeAfter(g, m) = ParamCount[Server[g]] /\ InQueue(g)
               /\ got[g] \cup {m.index} \subseteq Indices(Server[g])
    <2>1. Server[g] = m.from /\ \E j \in 1..Len(getAlls) : getAlls[j] = g
      BY <1>5 DEF StoredBy
    <2>2. InQueue(g)
      BY <1>4, <2>1 DEF InQueue, ToSet
    <2>3. CollectsRight(g)
      BY DEF CollectInv
    <2> QED
      BY <1>3, <2>1, <2>2, <2>3 DEF CollectsRight, SizeAfter
  <1>6. ASSUME NEW g \in GetAlls PROVE CollectsRight(g)'
    <2>1. CASE g \in StoredBy(i, m)
      BY <1>1, <1>5, <2>1 DEF CollectsRight
    <2>2. CASE g \notin StoredBy(i, m)
      BY <1>1, <2>2 DEF CollectInv, CollectsRight
    <2> QED
      BY <2>1, <2>2
  <1>7. ASSUME NEW g \in GetAlls, Succeeded(g)' PROVE HasAll(g)'
    <2>1. CASE delivered[g] = <<"success">>
      <3>1. ~InQueue(g)
        BY <2>1 DEF IndInv, CompletedOnce, Called, Calls
      <3>2. size'[g] = size[g] /\ got'[g] = got[g]
        BY <1>1, <1>5, <3>1
      <3> QED
        BY <2>1, <3>2 DEF CollectInv, Succeeded, HasAll
    <2>2. CASE delivered[g] # <<"success">>
      <3>1. /\ i <= Len(getAlls) /\ Completes(getAlls[i], m) /\ g = getAlls[i]
            /\ i \in 1..Len(getAlls)
        BY <1>1, <1>2, <1>4, <1>7, <2>2, ConstantsAssumption DEF Succeeded, Calls
      <3>2. Server[g] = m.from
        BY <1>1, <1>4, <3>1 DEF ReturnsAt, Stops
      <3>3. g \in StoredBy(i, m)
        BY <3>1, <3>2 DEF StoredBy, Completes
      <3>4. size'[g] = SizeAfter(g, m) /\ got'[g] = 0..(SizeAfter(g, m) - 1)
        BY <1>1, <3>1, <3>3 DEF Completes
      <3> QED
        BY <1>5, <3>3, <3>4 DEF HasAll, Indices
    <2> QED
      BY <2>1, <2>2
  <1> QED
    BY <1>2, <1>6, <1>7 DEF CollectInv

\* The other steps store nothing, and none but the receive thread reports success.
LEMMA OthersCollectInv ==
    ASSUME CollectInv, UNCHANGED <<size, got>>,
           \A g \in GetAlls : Succeeded(g)' => Succeeded(g),
           asked' = asked
    PROVE  CollectInv'
  BY DEF CollectInv, CollectsRight, HasAll

\* Every step keeps what is collected right.
LEMMA NextCollectInv ==
    ASSUME IndInv, CollectInv, [Next]_vars
    PROVE  CollectInv'
  <1> USE DEF setVars, threadVars, rxVars, linkVars
  <1>1. ASSUME UNCHANGED <<size, got, rx, delivered, asked>> PROVE CollectInv'
    BY <1>1, OthersCollectInv DEF Succeeded
  <1>2. ASSUME NEW g \in GetAlls, send_next_message_running_get_all(g),
               UNCHANGED <<size, got, rx, delivered>>
        PROVE  CollectInv'
    <2>1. \A srv \in Servers : asked'[srv] \subseteq Indices(srv)
      BY <1>2, AsksForIndices
    <2> QED
      BY <1>2, <2>1 DEF CollectInv, CollectsRight, HasAll, Succeeded
  <1>3. ASSUME NEW s \in Sets, TrySetParam(s) PROVE CollectInv'
    BY <1>1, <1>3 DEF TrySetParam, send_next_message_running_set
  <1>4. ASSUME NEW g \in GetAlls, TryGetParamAll(g) PROVE CollectInv'
    BY <1>2, <1>4 DEF TryGetParamAll
  <1>5. ASSUME NEW c \in Calls, BlockingReturn(c) \/ Elapse(c) PROVE CollectInv'
    BY <1>1, <1>5 DEF BlockingReturn, Elapse
  <1>6. ASSUME NEW s \in Sets, NEW result \in AckResults, ServerSets(s, result) PROVE CollectInv'
    BY <1>1, <1>6 DEF ServerSets
  <1>7. ASSUME NEW ack \in acks, HandleParamExtAck(ack) PROVE CollectInv'
    <2>1. rx' \in Sets /\ UNCHANGED <<size, got, delivered, asked>>
      BY <1>7 DEF HandleParamExtAck, IndInv, TypeOK
    <2>2. \A g \in GetAlls : rx' # g
      BY <2>1, ConstantsAssumption
    <2> QED
      BY <2>1, <2>2, OthersCollectInv DEF Succeeded
  <1>8. ASSUME NEW m \in OnLink, HandleParamExtValue(m) PROVE CollectInv'
    BY <1>8, ValueCollectInv
  <1>9. CASE ReceiveCallback
    <2>1. PICK c \in Calls : c = rx
      BY <1>9 DEF ReceiveCallback, IndInv, TypeOK
    <2>2. /\ rx' = None /\ delivered' = [delivered EXCEPT ![c] = Append(@, rxResult)]
          /\ UNCHANGED <<size, got, asked>>
      BY <1>9, <2>1 DEF ReceiveCallback
    <2>3. ASSUME NEW g \in GetAlls, Succeeded(g)' PROVE Succeeded(g)
      BY <2>1, <2>2, <2>3, ConstantsAssumption DEF Succeeded, Calls, IndInv, TypeOK
    <2> QED
      BY <2>2, <2>3, OthersCollectInv
  <1>10. CASE TimeoutCallback
    <2>1. PICK c \in Calls : c = Head(timedOut)
      BY <1>10, HeadTailProperties DEF TimeoutCallback, IndInv, TypeOK
    <2>2. PICK res \in {"no_ack", "failure"} : delivered' = [delivered EXCEPT ![c] = Append(@, res)]
      BY <1>10, <2>1 DEF TimeoutCallback
    <2>3. UNCHANGED <<rx, size, got, asked>> /\ TypeOK /\ InTimedOut(c)
      BY <1>10, <2>1, TailDistinct DEF TimeoutCallback, IndInv, TypeOK, CompletedOnce, InTimedOut
    <2>4. delivered[c] = <<>>
      BY <2>3 DEF IndInv, CompletedOnce, Called
    <2>5. delivered'[c] = <<res>> /\ \A d \in Calls \ {c} : delivered'[d] = delivered[d]
      BY <2>2, <2>3, <2>4, FirstResult
    <2>6. <<res>> # <<"success">>
      OBVIOUS
    <2>7. ASSUME NEW g \in GetAlls, Succeeded(g)' PROVE Succeeded(g)
      BY <2>3, <2>5, <2>6, <2>7 DEF Succeeded, Calls
    <2> QED
      BY <2>3, <2>7, OthersCollectInv
  <1>11. CASE GetAllRetransmit
    <2>1. PICK g \in GetAlls : g = getAlls[it]
      BY <1>11 DEF GetAllRetransmit, At, IndInv, TypeOK
    <2> QED
      BY <1>2, <1>11, <2>1 DEF GetAllRetransmit
  <1>12. CASE \/ TimeoutWake \/ TimeoutNext \/ ScanSkip("scan_get_all", getAlls)
              \/ ScanSkip("scan_set", sets) \/ SetRetransmit \/ GetAllGiveUp \/ SetGiveUp \/ ScanEnd
              \/ Terminate \/ UNCHANGED vars
    <2>1. UNCHANGED <<size, got, rx, delivered, asked>>
      BY <1>12 DEF TimeoutWake, TimeoutNext, StartScan, ScanSkip, SetRetransmit, GetAllGiveUp,
                   SetGiveUp, GiveUp, ScanEnd, Terminate, vars, send_next_message_running_set
    <2> QED
      BY <1>1, <2>1
  <1> QED
    BY <1>3, <1>4, <1>5, <1>6, <1>7, <1>8, <1>9, <1>10, <1>11, <1>12 DEF Next, TimeoutThread

\* What is collected is right at every moment.
LEMMA SpecCollectInv == Spec => []CollectInv
  <1>1. IndInv /\ CollectInv /\ [Next]_vars => CollectInv'
    BY NextCollectInv
  <1> QED
    BY <1>1, InitCollectInv, SpecIndInv, PTL DEF Spec

\* For any servers, sizes of their parameter sets and lost, repeated, late or impossible
\* responses: a get-all reports success with the complete set of its own server, the
\* assertion of handle_param_ext_value (xparam.cpp:234).
THEOREM SuccessIsComplete == Spec => []GetAllIsComplete
  <1>1. CollectInv => GetAllIsComplete
    BY DEF CollectInv, Succeeded, HasAll, GetAllIsComplete
  <1> QED
    BY <1>1, SpecCollectInv, PTL

\* The index of a response was compared with the count that came with it, and is used
\* in a vector of the size of the first count (xparam.cpp:294, 298).  With servers whose
\* count does not change it is inside of the vector, also for impossible responses.
THEOREM NothingIsStoredOutside == Spec => []IndexInRange
  <1>1. CollectInv => IndexInRange
    <2>1. SUFFICES ASSUME CollectInv, NEW g \in GetAlls
                   PROVE  got[g] \subseteq 0..(size[g] - 1)
      BY DEF IndexInRange
    <2>2. CollectsRight(g)
      BY <2>1 DEF CollectInv
    <2> QED
      BY <2>2 DEF CollectsRight, Indices
  <1> QED
    BY <1>1, SpecCollectInv, PTL

\* The retransmission of a get-all asks for the first READ_BATCH indices, missing or not
\* (xparam.cpp:338).  Servers with no more parameters than that are always asked for
\* something that is missing; READ_BATCH is what decides it, not the interleaving.
THEOREM SmallSetsAreRequested ==
    ASSUME \A srv \in Servers : ParamCount[srv] <= READ_BATCH
    PROVE  Spec => []RequestsSomethingMissing
  <1>1. TypeOK /\ CollectInv => RequestsSomethingMissing
    <2>1. SUFFICES ASSUME TypeOK, CollectInv, NEW g \in ToSet(getAlls), Missing(g) # {}
                   PROVE  Requested(g) \cap Missing(g) # {}
      BY DEF RequestsSomethingMissing
    <2>2. g \in GetAlls /\ Server[g] \in Servers /\ ParamCount[Server[g]] \in Nat
      <3>1. getAlls \in Seq(GetAlls)
        BY <2>1 DEF TypeOK
      <3> QED
        BY <3>1, ConstantsAssumption DEF ToSet, Calls
    <2>3. size[g] = ParamCount[Server[g]]
      BY <2>1, <2>2 DEF CollectInv, CollectsRight, Missing
    <2>4. Missing(g) \subseteq Requested(g)
      <3>1. CASE RequestsList(g)
        BY <2>3, <3>1 DEF Requested, Missing, Indices
      <3>2. CASE ~RequestsList(g)
        BY <2>2, <2>3, <3>2, ConstantsAssumption DEF Requested, Missing, ReadIndices
      <3> QED
        BY <3>1, <3>2
    <2> QED
      BY <2>1, <2>4
  <1> QED
    BY <1>1, SpecCollectInv, TypeCorrect, PTL

-----------------------------------------------------------------------------
(***************************************************************************)
(* What an acceptance means.  An ack names the server and the parameter,   *)
(* not the call, so two sets of the same parameter are told apart by       *)
(* nothing: the theorem assumes that the callers make no such two.         *)
(***************************************************************************)
DistinctTargets ==
    \A s, t \in Sets : Server[s] = Server[t] /\ Param[s] = Param[t] => s = t

AckIsHonest(ack) ==
    ack.result = "accepted" => \E s \in applied : Server[s] = ack.from /\ Param[s] = ack.param

Accepted(s) == (rx = s /\ rxResult = "accepted") \/ delivered[s] = <<"accepted">>

AppliedInv ==
    /\ \A ack \in acks : AckIsHonest(ack)
    /\ \A s \in Sets : Accepted(s) => s \in applied

\* Nothing was sent, nothing accepted.
LEMMA InitAppliedInv == Init => AppliedInv
  BY ConstantsAssumption DEF Init, AppliedInv, AckIsHonest, Accepted, Calls

\* A server may store and answer at any time; no set becomes accepted by another step.
LEMMA OthersAppliedInv ==
    ASSUME AppliedInv, acks' = acks, applied \subseteq applied',
           \A s \in Sets : Accepted(s)' => Accepted(s)
    PROVE  AppliedInv'
  BY DEF AppliedInv, AckIsHonest

\* An acceptance taken from the link is that of the set it is given to.
LEMMA NextAppliedInv ==
    ASSUME DistinctTargets, IndInv, AppliedInv, [Next]_vars
    PROVE  AppliedInv'
  <1> USE DEF setVars, threadVars, rxVars, linkVars
  <1>1. ASSUME UNCHANGED <<acks, applied, rx, rxResult, delivered>> PROVE AppliedInv'
    BY <1>1, OthersAppliedInv DEF Accepted
  <1>2. ASSUME NEW s \in Sets, NEW result \in AckResults, ServerSets(s, result)
        PROVE  AppliedInv'
    <2>1. /\ acks' = acks \cup {[from |-> Server[s], param |-> Param[s], result |-> result]}
          /\ applied \subseteq applied' /\ (result = "accepted" => s \in applied')
          /\ UNCHANGED <<rx, rxResult, delivered>>
      BY <1>2 DEF ServerSets
    <2>2. ASSUME NEW ack \in acks' PROVE AckIsHonest(ack)'
      <3>1. CASE ack \in acks
        BY <2>1, <3>1 DEF AppliedInv, AckIsHonest
      <3>2. CASE ack \notin acks
        BY <2>1, <3>2 DEF AckIsHonest
      <3> QED
        BY <3>1, <3>2
    <2> QED
      BY <2>1, <2>2 DEF AppliedInv, Accepted
  <1>3. ASSUME NEW ack \in acks, HandleParamExtAck(ack) PROVE AppliedInv'
    <2>1. PICK i \in 1..Len(sets) : AckMatches(sets[i], ack) /\ rx' = sets[i]
      BY <1>3 DEF HandleParamExtAck
    <2>2. PICK s \in Sets : s = sets[i]
      BY <2>1 DEF IndInv, TypeOK
    <2>3. /\ rx' = s /\ rxResult' = ack.result /\ Server[s] = ack.from /\ Param[s] = ack.param
          /\ UNCHANGED <<acks, applied, delivered>>
      BY <1>3, <2>1, <2>2 DEF HandleParamExtAck, AckMatches
    <2>4. ack.result = "accepted" => s \in applied
      BY <2>3 DEF AppliedInv, AckIsHonest, DistinctTargets, IndInv, TypeOK
    <2>5. ASSUME NEW t \in Sets, Accepted(t)' PROVE t \in applied'
      BY <2>3, <2>4, <2>5 DEF Accepted, AppliedInv
    <2> QED
      BY <2>3, <2>5 DEF AppliedInv, AckIsHonest
  <1>4. ASSUME NEW m \in OnLink, HandleParamExtValue(m) PROVE AppliedInv'
    <2>1. UNCHANGED <<acks, applied, delivered>>
      BY <1>4 DEF HandleParamExtValue
    <2>2. UNCHANGED <<rx, rxResult>> \/ rx' \in GetAlls
      BY <1>4 DEF HandleParamExtValue, IndInv, TypeOK
    <2>3. ASSUME NEW s \in Sets, Accepted(s)' PROVE Accepted(s)
      BY <2>1, <2>2, <2>3, ConstantsAssumption DEF Accepted
    <2> QED
      BY <2>1, <2>3, OthersAppliedInv
  <1>5. CASE ReceiveCallback
    <2>1. PICK c \in Calls : c = rx
      BY <1>5 DEF ReceiveCallback, IndInv, TypeOK
    <2>2. /\ rx' = None /\ delivered' = [delivered EXCEPT ![c] = Append(@, rxResult)]
          /\ UNCHANGED <<acks, applied>> /\ TypeOK
      BY <1>5, <2>1 DEF ReceiveCallback, IndInv
    <2>3. delivered[c] = <<>>
      BY <2>1 DEF IndInv, CompletedOnce, Called
    <2>4. delivered'[c] = <<rxResult>> /\ \A d \in Calls \ {c} : delivered'[d] = delivered[d]
      BY <2>2, <2>3, FirstResult DEF TypeOK, Results
    <2>5. ASSUME NEW s \in Sets, Accepted(s)' PROVE Accepted(s)
      <3>1. delivered'[s] = <<"accepted">> /\ s \in Calls
        BY <2>2, <2>5, ConstantsAssumption DEF Accepted, Calls
      <3>2. CASE s = c
        BY <2>1, <2>4, <3>1, <3>2 DEF Accepted
      <3>3. CASE s # c
        BY <2>4, <3>1, <3>3 DEF Accepted
      <3> QED
        BY <3>2, <3>3
    <2> QED
      BY <2>2, <2>5, OthersAppliedInv
  <1>6. CASE TimeoutCallback
    <2>1. PICK c \in Calls : c = Head(timedOut)
      BY <1>6, HeadTailProperties DEF TimeoutCallback, IndInv, TypeOK
    <2>2. PICK res \in {"no_ack", "failure"} : delivered' = [delivered EXCEPT ![c] = Append(@, res)]
      BY <1>6, <2>1 DEF TimeoutCallback
    <2>3. UNCHANGED <<rx, rxResult, acks, applied>> /\ TypeOK /\ InTimedOut(c)
      BY <1>6, <2>1, TailDistinct DEF TimeoutCallback, IndInv, TypeOK, CompletedOnce, InTimedOut
    <2>4. delivered[c] = <<>>
      BY <2>3 DEF IndInv, CompletedOnce, Called
    <2>5. delivered'[c] = <<res>> /\ \A d \in Calls \ {c} : delivered'[d] = delivered[d]
      BY <2>2, <2>3, <2>4, FirstResult
    <2>6. <<res>> # <<"accepted">>
      OBVIOUS
    <2>7. ASSUME NEW s \in Sets, Accepted(s)' PROVE Accepted(s)
      BY <2>3, <2>5, <2>6, <2>7 DEF Accepted, Calls
    <2> QED
      BY <2>3, <2>7, OthersAppliedInv
  <1>7. ASSUME NEW c \in Calls, BlockingReturn(c) \/ Elapse(c) PROVE AppliedInv'
    BY <1>1, <1>7 DEF BlockingReturn, Elapse
  <1>8. CASE \/ \E s \in Sets : TrySetParam(s)
             \/ \E g \in GetAlls : TryGetParamAll(g)
             \/ TimeoutWake \/ TimeoutNext
             \/ ScanSkip("scan_get_all", getAlls) \/ ScanSkip("scan_set", sets)
             \/ GetAllRetransmit \/ SetRetransmit \/ GetAllGiveUp \/ SetGiveUp \/ ScanEnd
             \/ Terminate \/ UNCHANGED vars
    <2>1. UNCHANGED <<acks, applied, rx, rxResult, delivered>>
      BY <1>8 DEF TrySetParam, TryGetParamAll, TimeoutWake, TimeoutNext, StartScan, ScanSkip,
                  GetAllRetransmit, SetRetransmit, GetAllGiveUp, SetGiveUp, GiveUp, ScanEnd,
                  Terminate, vars
    <2> QED
      BY <1>1, <2>1
  <1> QED
    BY <1>2, <1>3, <1>4, <1>5, <1>6, <1>7, <1>8 DEF Next, TimeoutThread

\* For callers whose sets have targets of their own, and whatever the link repeats or
\* delays: a set is reported as accepted only if its server has stored the value
\* (xparam.cpp:253, the ack is matched by its sender and the parameter).
THEOREM AcceptedIsApplied ==
    ASSUME DistinctTargets
    PROVE  Spec => []AcceptedWasApplied
  <1>1. IndInv /\ AppliedInv /\ [Next]_vars => AppliedInv'
    BY NextAppliedInv
  <1>2. AppliedInv => AcceptedWasApplied
    BY DEF AppliedInv, Accepted, AcceptedWasApplied
  <1> QED
    BY <1>1, <1>2, InitAppliedInv, SpecIndInv, PTL DEF Spec

-----------------------------------------------------------------------------
(***************************************************************************)
(* The sets implement the abstract request queue, although one thread      *)
(* serves both lists.  The fate of a set the timeout thread has given up   *)
(* is "no_ack" because its pass over the get-alls leaves nothing behind    *)
(* for its pass over the sets.                                             *)
(***************************************************************************)
PassesAreSeparate ==
    tpc \in {"scan_get_all", "callbacks_get_all"} => ToSet(timedOut) \cap Sets = {}

\* No pass has begun.
LEMMA InitPasses == Init => PassesAreSeparate
  BY DEF Init, PassesAreSeparate

\* A pass begins with an empty list and collects calls of its own kind.
LEMMA NextPasses ==
    ASSUME IndInv, PassesAreSeparate, [Next]_vars
    PROVE  PassesAreSeparate'
  <1> USE DEF setVars, threadVars, rxVars
  <1>1. ToSet(<<>>) = {}
    BY DEF ToSet
  <1>2. CASE TimeoutWake \/ TimeoutNext
    BY <1>1, <1>2 DEF TimeoutWake, TimeoutNext, StartScan, PassesAreSeparate
  <1>3. CASE GetAllGiveUp
    <2>1. getAlls[it] \in GetAlls /\ getAlls[it] \in Calls /\ getAlls[it] \in ToSet(getAlls)
      BY <1>3 DEF GetAllGiveUp, GiveUp, At, IndInv, TypeOK, Calls, ToSet
    <2>2. timedOut \in Seq(Calls) /\ IsInjective(timedOut) /\ getAlls[it] \notin ToSet(timedOut)
      BY <2>1 DEF IndInv, TypeOK, CompletedOnce, InQueue, InTimedOut
    <2>3. ToSet(timedOut') = ToSet(timedOut) \cup {getAlls[it]}
      BY <1>3, <2>1, <2>2, AppendDistinct DEF GetAllGiveUp, GiveUp
    <2> QED
      BY <1>3, <2>1, <2>3, ConstantsAssumption DEF GetAllGiveUp, GiveUp, At, PassesAreSeparate
  <1>4. CASE SetGiveUp
    BY <1>4 DEF SetGiveUp, GiveUp, At, PassesAreSeparate
  <1>5. CASE TimeoutCallback
    <2>1. ToSet(timedOut') \subseteq ToSet(timedOut)
      BY <1>5, TailDistinct DEF TimeoutCallback, IndInv, TypeOK, CompletedOnce
    <2> QED
      BY <1>5, <2>1 DEF TimeoutCallback, PassesAreSeparate
  <1>6. CASE ScanEnd
    BY <1>6 DEF ScanEnd, PassesAreSeparate
  <1>7. CASE \/ \E s \in Sets : TrySetParam(s)
             \/ \E g \in GetAlls : TryGetParamAll(g)
             \/ \E c \in Calls : BlockingReturn(c) \/ Elapse(c)
             \/ \E s \in Sets, result \in AckResults : ServerSets(s, result)
             \/ \E ack \in acks : HandleParamExtAck(ack)
             \/ \E m \in OnLink : HandleParamExtValue(m)
             \/ ReceiveCallback \/ Terminate \/ UNCHANGED vars
             \/ ScanSkip("scan_get_all", getAlls) \/ ScanSkip("scan_set", sets)
             \/ GetAllRetransmit \/ SetRetransmit
    <2>1. UNCHANGED <<tpc, timedOut>>
      BY <1>7 DEF TrySetParam, TryGetParamAll, BlockingReturn, Elapse, ServerSets,
                  HandleParamExtAck, HandleParamExtValue, ReceiveCallback, Terminate, vars,
                  ScanSkip, GetAllRetransmit, SetRetransmit
    <2> QED
      BY <2>1 DEF PassesAreSeparate
  <1> QED
    BY <1>2, <1>3, <1>4, <1>5, <1>6, <1>7 DEF Next, TimeoutThread

\* The variable of RequestQueue, as XParam implements it.
phases == [s \in Sets |-> Phase(s)]

\* Where a set is decides its phase.
PlaceIsPhase(s) ==
    /\ caller[s] = "idle" => Phase(s) = "idle"
    /\ caller[s] = "refused" => Phase(s) = "refused"
    /\ InQueue(s) <=> Phase(s) = "queued"
    /\ InTimedOut(s) => Phase(s) = "exhausted"
    /\ rx = s => Phase(s) = "answered"
    /\ delivered[s] = <<"no_ack">> => Phase(s) = "cb_exhausted"
    /\ Called(s) /\ delivered[s] # <<"no_ack">> => Phase(s) = "cb_answered"

\* The hands CompletedOnce separates are the phases of the abstract queue.
LEMMA PhaseOf == IndInv => \A s \in Sets : PlaceIsPhase(s)
  <1> SUFFICES ASSUME IndInv, NEW s \in Sets PROVE PlaceIsPhase(s)
    OBVIOUS
  <1>0. s \in Calls
    BY DEF Calls
  <1>1. /\ InQueue(s)    => Enqueued(s) /\ ~InTimedOut(s) /\ rx # s /\ ~Called(s)
        /\ InTimedOut(s) => Enqueued(s) /\ ~InQueue(s) /\ rx # s /\ ~Called(s)
        /\ rx = s        => Enqueued(s) /\ ~InQueue(s) /\ ~InTimedOut(s) /\ ~Called(s)
        /\ Called(s)     => Enqueued(s) /\ ~InQueue(s) /\ ~InTimedOut(s) /\ rx # s
    BY <1>0 DEF IndInv, CompletedOnce
  <1>2. Enqueued(s) <=> caller[s] \notin {"idle", "refused"}
    BY DEF Enqueued
  <1>3. delivered[s] = <<"no_ack">> => Called(s)
    BY DEF Called
  <1> USE DEF PlaceIsPhase
  <1>4. CASE ~Enqueued(s)
    <2>1. /\ ~InQueue(s) /\ ~InTimedOut(s) /\ rx # s /\ ~Called(s)
          /\ delivered[s] # <<"no_ack">>
      BY <1>1, <1>3, <1>4
    <2>2. CASE caller[s] = "idle"
      <3>1. Phase(s) = "idle"
        BY <2>1, <2>2 DEF Phase
      <3> QED
        BY <2>1, <2>2, <3>1
    <2>3. CASE caller[s] = "refused"
      <3>1. Phase(s) = "refused"
        BY <2>1, <2>3 DEF Phase
      <3> QED
        BY <2>1, <2>3, <3>1
    <2> QED
      BY <1>2, <1>4, <2>2, <2>3
  <1>5. CASE Enqueued(s)
    <2>1. caller[s] # "idle" /\ caller[s] # "refused"
      BY <1>2, <1>5
    <2>2. InQueue(s) => Phase(s) = "queued"
      BY <1>1, <1>3, <2>1 DEF Phase
    <2>3. InTimedOut(s) => Phase(s) = "exhausted"
      BY <1>1, <1>3, <2>1 DEF Phase
    <2>4. rx = s => Phase(s) = "answered"
      BY <1>1, <1>3, <2>1 DEF Phase
    <2>5. delivered[s] = <<"no_ack">> => Phase(s) = "cb_exhausted"
      BY <1>1, <1>3, <2>1 DEF Phase
    <2>6. Called(s) /\ delivered[s] # <<"no_ack">> => Phase(s) = "cb_answered"
      BY <1>1, <2>1 DEF Phase
    <2>7. InQueue(s) \/ InTimedOut(s) \/ rx = s \/ Called(s)
      BY <1>0, <1>5 DEF IndInv, CompletedOnce
    <2> QED
      BY <1>1, <2>1, <2>2, <2>3, <2>4, <2>5, <2>6, <2>7
  <1> QED
    BY <1>4, <1>5

\* ... and so it is after a step.
LEMMA PhaseOfNext == IndInv' => \A s \in Sets : PlaceIsPhase(s)'
  <1>1. (IndInv => \A s \in Sets : PlaceIsPhase(s))'
    BY PhaseOf, PTL
  <1> QED
    BY <1>1

\* A set whose place does not change keeps its phase.
LEMMA SamePhase ==
    ASSUME NEW s \in Sets,
           caller'[s] = caller[s] \/ (Enqueued(s) /\ Enqueued(s)'),
           InQueue(s)' = InQueue(s), InTimedOut(s)' = InTimedOut(s),
           (rx' = s) = (rx = s), delivered'[s] = delivered[s]
    PROVE  Phase(s)' = Phase(s)
  <1>1. /\ (caller'[s] = "idle") = (caller[s] = "idle")
        /\ (caller'[s] = "refused") = (caller[s] = "refused")
    BY DEF Enqueued
  <1> QED
    BY <1>1 DEF Phase

\* RequestQueue counts with its own instance of FiniteSets.
LEMMA SameCardinality == \A S : Abstract!Cardinality(S) = Cardinality(S)
  BY DEF Abstract!Cardinality, Cardinality

\* The queued requests of RequestQueue are the running sets.
LEMMA QueuedAreRunning ==
    ASSUME IndInv
    PROVE  Abstract!Cardinality(Abstract!Queued) = Len(sets)
  <1>1. /\ sets \in Seq(Sets) /\ IsInjective(sets)
        /\ getAlls \in Seq(GetAlls)
    BY DEF IndInv, TypeOK, CompletedOnce
  <1>2. ToSet(sets) \subseteq Sets /\ ToSet(getAlls) \subseteq GetAlls
    BY <1>1 DEF ToSet
  <1>3. \A s \in Sets : phases[s] = "queued" <=> s \in ToSet(sets)
    BY <1>2, PhaseOf, ConstantsAssumption DEF PlaceIsPhase, phases, InQueue
  <1>4. {s \in Sets : phases[s] = "queued"} = ToSet(sets)
    BY <1>2, <1>3
  <1>5. Abstract!Queued = ToSet(sets)
    BY <1>4 DEF Abstract!Queued, phases
  <1> QED
    BY <1>1, <1>5, DistinctCardinality, SameCardinality

\* A step that moves one set from phase to phase, and no other.
LEMMA OneMoves ==
    ASSUME NEW s \in Sets, NEW q, Phase(s)' = q,
           \A t \in Sets \ {s} : Phase(t)' = Phase(t)
    PROVE  phases' = [phases EXCEPT ![s] = q]
  BY DEF phases

\* A step that moves none.
LEMMA NoneMoves ==
    ASSUME \A s \in Sets : Phase(s)' = Phase(s)
    PROVE  phases' = phases
  BY DEF phases

-----------------------------------------------------------------------------
(* Every step is a step of the abstract queue, or none                     *)

\* A caller hands a set over: accepted while there is room, or refused.
LEMMA TrySetParamRefines ==
    ASSUME IndInv, IndInv', NEW s \in Sets, TrySetParam(s)
    PROVE  Abstract!Accept(s) \/ Abstract!Refuse(s)
  <1>1. caller[s] = "idle" /\ phases[s] = "idle" /\ s \in Calls /\ Sets \subseteq Calls
    BY PhaseOf DEF TrySetParam, PlaceIsPhase, phases, Calls
  <1>2. TypeOK /\ s \notin ToSet(sets)
    BY <1>1 DEF IndInv, CompletedOnce, Enqueued, InQueue
  <1>3. UNCHANGED <<getAlls, timedOut, rx, delivered>>
    BY DEF TrySetParam, threadVars, rxVars
  <1>4. CASE QueueFull
    <2>1. sets' = sets /\ caller' = [caller EXCEPT ![s] = "refused"]
      BY <1>4 DEF TrySetParam
    <2>2. caller'[s] = "refused" /\ \A t \in Sets \ {s} : caller'[t] = caller[t]
      BY <1>1, <1>2, <2>1 DEF TypeOK
    <2>3. Phase(s)' = "refused"
      BY <2>2, PhaseOfNext DEF PlaceIsPhase
    <2>4. \A t \in Sets \ {s} : Phase(t)' = Phase(t)
      BY <1>3, <2>1, <2>2, SamePhase DEF InQueue, InTimedOut
    <2>5. phases' = [phases EXCEPT ![s] = "refused"]
      BY <2>3, <2>4, OneMoves
    <2>6. Len(sets) = MAX_N_SIMULTANOEUS_COMMANDS
      BY <1>2, <1>4, ConstantsAssumption DEF QueueFull, IndInv, QueueBound, TypeOK
    <2> QED
      BY <1>1, <2>5, <2>6, QueuedAreRunning DEF Abstract!Refuse, phases
  <1>5. CASE ~QueueFull
    <2>1. sets' = Append(sets, s) /\ caller' = [caller EXCEPT ![s] = Pending(s)]
      BY <1>5 DEF TrySetParam
    <2>2. \A t \in Sets \ {s} : caller'[t] = caller[t]
      BY <1>1, <1>2, <2>1 DEF TypeOK
    <2>3. ToSet(sets') = ToSet(sets) \cup {s}
      BY <1>2, <2>1, AppendDistinct DEF IndInv, CompletedOnce, TypeOK
    <2>4. Phase(s)' = "queued"
      <3>1. InQueue(s)'
        BY <2>3 DEF InQueue
      <3> QED
        BY <3>1, PhaseOfNext DEF PlaceIsPhase
    <2>5. ASSUME NEW t \in Sets \ {s} PROVE Phase(t)' = Phase(t)
      BY <1>3, <2>2, <2>3, SamePhase DEF InQueue, InTimedOut
    <2>6. phases' = [phases EXCEPT ![s] = "queued"]
      BY <2>4, <2>5, OneMoves
    <2>7. Len(sets) < MAX_N_SIMULTANOEUS_COMMANDS
      BY <1>2, <1>5, ConstantsAssumption DEF QueueFull, TypeOK
    <2> QED
      BY <1>1, <2>6, <2>7, QueuedAreRunning DEF Abstract!Accept, phases
  <1> QED
    BY <1>4, <1>5

\* A set that leaves the list for the receive thread or the timeout thread is decided.
LEMMA LeavesTheList ==
    ASSUME IndInv, NEW s \in Sets, InQueue(s), NEW fate \in {"answered", "exhausted"},
           Phase(s)' = fate,
           \A d \in Calls : InQueue(d)' <=> InQueue(d) /\ d # s,
           \A t \in Sets \ {s} : InTimedOut(t)' = InTimedOut(t) /\ (rx' = t) = (rx = t),
           UNCHANGED <<caller, delivered>>
    PROVE  Abstract!Decide(s)
  <1>1. phases[s] = "queued"
    BY PhaseOf DEF PlaceIsPhase, phases
  <1>2. ASSUME NEW t \in Sets \ {s} PROVE Phase(t)' = Phase(t)
    BY SamePhase DEF Calls, InQueue
  <1>3. phases' = [phases EXCEPT ![s] = fate]
    BY <1>2, OneMoves
  <1> QED
    BY <1>1, <1>3 DEF Abstract!Decide, phases

\* An ack decides the set it takes out of the list.
LEMMA HandleParamExtAckRefines ==
    ASSUME IndInv, IndInv', NEW ack \in acks, HandleParamExtAck(ack)
    PROVE  \E s \in Sets : Abstract!Decide(s)
  <1>1. PICK i \in 1..Len(sets) : rx' = sets[i] /\ sets' = RemoveAt(sets, i)
    BY DEF HandleParamExtAck
  <1>2. rx = None /\ UNCHANGED <<caller, getAlls, timedOut, delivered>>
    BY DEF HandleParamExtAck, threadVars
  <1>3. /\ sets[i] \in Sets /\ InQueue(sets[i])
        /\ \A d \in Calls : InQueue(d)' <=> InQueue(d) /\ d # sets[i]
    BY <1>1, <1>2, SetRemoved
  <1>4. PICK s \in Sets : s = sets[i]
    BY <1>3
  <1>5. Phase(s)' = "answered"
    BY <1>1, <1>4, PhaseOfNext DEF PlaceIsPhase
  <1>6. \A t \in Sets \ {s} : InTimedOut(t)' = InTimedOut(t) /\ (rx' = t) = (rx = t)
    BY <1>1, <1>2, <1>4, ConstantsAssumption DEF InTimedOut, Calls
  <1> QED
    BY <1>2, <1>3, <1>4, <1>5, <1>6, LeavesTheList

\* The timeout scan decides the set it gives up.
LEMMA SetGiveUpRefines ==
    ASSUME IndInv, IndInv', SetGiveUp
    PROVE  \E s \in Sets : Abstract!Decide(s)
  <1>1. /\ it \in 1..Len(sets) /\ sets' = RemoveAt(sets, it) /\ getAlls' = getAlls
        /\ timedOut' = Append(timedOut, sets[it])
        /\ UNCHANGED <<caller, rx, delivered>>
    BY DEF SetGiveUp, GiveUp, At, IndInv, TypeOK, rxVars
  <1>2. /\ sets[it] \in Sets /\ sets[it] \in Calls /\ InQueue(sets[it])
        /\ \A d \in Calls : InQueue(d)' <=> InQueue(d) /\ d # sets[it]
    BY <1>1, SetRemoved
  <1>3. PICK s \in Sets : s = sets[it]
    BY <1>2
  <1>4. ToSet(timedOut') = ToSet(timedOut) \cup {s}
    <2>1. timedOut \in Seq(Calls) /\ IsInjective(timedOut) /\ s \notin ToSet(timedOut)
      BY <1>2, <1>3 DEF IndInv, TypeOK, CompletedOnce, InTimedOut
    <2> QED
      BY <1>1, <1>2, <1>3, <2>1, AppendDistinct
  <1>5. Phase(s)' = "exhausted"
    BY <1>4, PhaseOfNext DEF PlaceIsPhase, InTimedOut
  <1>6. \A t \in Sets \ {s} : InTimedOut(t)' = InTimedOut(t) /\ (rx' = t) = (rx = t)
    BY <1>1, <1>4 DEF InTimedOut
  <1> QED
    BY <1>1, <1>2, <1>3, <1>5, <1>6, LeavesTheList

\* The other steps leave every set where it is.
LEMMA OthersStutter ==
    ASSUME \A s \in Sets :
              /\ caller'[s] = caller[s] \/ (Enqueued(s) /\ Enqueued(s)')
              /\ InQueue(s)' = InQueue(s) /\ InTimedOut(s)' = InTimedOut(s)
              /\ (rx' = s) = (rx = s) /\ delivered'[s] = delivered[s]
    PROVE  phases' = phases
  <1>1. ASSUME NEW s \in Sets PROVE Phase(s)' = Phase(s)
    BY SamePhase
  <1> QED
    BY <1>1, NoneMoves

\* A callback is called with the fate that was decided, or belongs to a get-all.
LEMMA CallbackRefines ==
    ASSUME IndInv, IndInv', NEW c \in Calls, NEW res,
           delivered[c] = <<>>, delivered' = [delivered EXCEPT ![c] = Append(@, res)],
           \A t \in Sets \ {c} : InTimedOut(t)' = InTimedOut(t) /\ (rx' = t) = (rx = t),
           c \in Sets => \/ rx = c /\ res # "no_ack"
                         \/ InTimedOut(c) /\ res = "no_ack",
           UNCHANGED <<caller, sets, getAlls>>
    PROVE  Abstract!Next \/ phases' = phases
  <1>1. /\ delivered'[c] = <<res>> /\ Called(c)'
        /\ \A d \in Calls \ {c} : delivered'[d] = delivered[d]
    BY FirstResult DEF IndInv
  <1>2. ASSUME NEW t \in Sets \ {c} PROVE Phase(t)' = Phase(t)
    BY <1>1, SamePhase DEF Calls, InQueue
  <1>3. CASE c \notin Sets
    BY <1>2, <1>3, NoneMoves
  <1>4. CASE c \in Sets /\ rx = c /\ res # "no_ack"
    <2>1. phases[c] = "answered"
      BY <1>4, PhaseOf DEF PlaceIsPhase, phases
    <2>2. <<res>> # <<"no_ack">>
      BY <1>4
    <2>3. Phase(c)' = "cb_answered"
      BY <1>1, <1>4, <2>2, PhaseOfNext DEF PlaceIsPhase
    <2>4. phases' = [phases EXCEPT ![c] = "cb_answered"]
      BY <1>2, <1>4, <2>3, OneMoves
    <2> QED
      BY <1>4, <2>1, <2>4 DEF Abstract!Next, Abstract!Call, phases
  <1>5. CASE c \in Sets /\ InTimedOut(c) /\ res = "no_ack"
    <2>1. phases[c] = "exhausted"
      BY <1>5, PhaseOf DEF PlaceIsPhase, phases
    <2>2. Phase(c)' = "cb_exhausted"
      BY <1>1, <1>5, PhaseOfNext DEF PlaceIsPhase
    <2>3. phases' = [phases EXCEPT ![c] = "cb_exhausted"]
      BY <1>2, <1>5, <2>2, OneMoves
    <2> QED
      BY <1>5, <2>1, <2>3 DEF Abstract!Next, Abstract!Call, phases
  <1> QED
    BY <1>3, <1>4, <1>5

\* Every step, thread by thread.
LEMMA NextRefines ==
    ASSUME IndInv, IndInv', PassesAreSeparate, [Next]_vars
    PROVE  [Abstract!Next]_phases
  <1> USE DEF setVars, threadVars, rxVars
  <1>0. Sets \subseteq Calls /\ TypeOK /\ \A s \in Sets : s \notin GetAlls /\ s # None
    BY ConstantsAssumption DEF Calls, IndInv
  <1>1. ASSUME NEW s \in Sets, TrySetParam(s) PROVE Abstract!Next
    BY <1>1, TrySetParamRefines DEF Abstract!Next
  <1>2. ASSUME NEW g \in GetAlls, TryGetParamAll(g) PROVE phases' = phases
    <2>1. /\ \A s \in Sets : caller'[s] = caller[s]
          /\ getAlls' = Append(getAlls, g) /\ UNCHANGED <<sets, timedOut, rx, delivered>>
      BY <1>0, <1>2 DEF TryGetParamAll, TypeOK
    <2>2. /\ getAlls \in Seq(GetAlls) /\ getAlls' \in Seq(GetAlls)
      BY <1>0 DEF IndInv, TypeOK
    <2>3. \A s \in Sets : s \notin ToSet(getAlls) /\ s \notin ToSet(getAlls')
      BY <1>0, <2>2 DEF ToSet
    <2> QED
      BY <2>1, <2>3, OthersStutter DEF InQueue, InTimedOut
  <1>3. ASSUME NEW c \in Calls, BlockingReturn(c) PROVE phases' = phases
    <2>1. \A s \in Sets : caller'[s] = caller[s] \/ (Enqueued(s) /\ Enqueued(s)')
      BY <1>0, <1>3 DEF BlockingReturn, Enqueued, TypeOK
    <2> QED
      BY <1>3, <2>1, OthersStutter DEF BlockingReturn, InQueue, InTimedOut
  <1>4. ASSUME NEW ack \in acks, HandleParamExtAck(ack) PROVE Abstract!Next
    BY <1>4, HandleParamExtAckRefines DEF Abstract!Next
  <1>5. ASSUME NEW m \in OnLink, HandleParamExtValue(m) PROVE phases' = phases
    <2>1. rx = None /\ UNCHANGED <<caller, sets, timedOut, delivered>>
      BY <1>5 DEF HandleParamExtValue
    <2>2. rx' = rx \/ rx' \in GetAlls
      BY <1>0, <1>5 DEF HandleParamExtValue, TypeOK
    <2>3. getAlls \in Seq(GetAlls) /\ getAlls' \in Seq(GetAlls)
      BY DEF IndInv, TypeOK
    <2>4. \A s \in Sets : s \notin ToSet(getAlls) /\ s \notin ToSet(getAlls')
      BY <1>0, <2>3 DEF ToSet
    <2>5. \A s \in Sets : rx # s /\ rx' # s
      BY <1>0, <2>1, <2>2
    <2> QED
      BY <2>1, <2>4, <2>5, OthersStutter DEF InQueue, InTimedOut
  <1>6. CASE ReceiveCallback
    <2>1. PICK c \in Calls : c = rx
      BY <1>0, <1>6 DEF ReceiveCallback, TypeOK
    <2>2. /\ rx' = None /\ delivered' = [delivered EXCEPT ![c] = Append(@, rxResult)]
          /\ UNCHANGED <<caller, sets, getAlls, timedOut>>
      BY <1>6, <2>1 DEF ReceiveCallback
    <2>3. delivered[c] = <<>> /\ rxResult # "no_ack"
      BY <1>0, <2>1 DEF IndInv, CompletedOnce, Called, TypeOK, AckResults
    <2>4. \A t \in Sets \ {c} : InTimedOut(t)' = InTimedOut(t) /\ (rx' = t) = (rx = t)
      BY <1>0, <2>1, <2>2 DEF InTimedOut
    <2> QED
      BY <2>1, <2>2, <2>3, <2>4, CallbackRefines
  <1>7. CASE TimeoutCallback
    <2>1. PICK c \in Calls : c = Head(timedOut)
      BY <1>0, <1>7, HeadTailProperties DEF TimeoutCallback, TypeOK
    <2>2. PICK res : /\ res = IF tpc = "callbacks_set" THEN "no_ack" ELSE "failure"
                     /\ delivered' = [delivered EXCEPT ![c] = Append(@, res)]
      BY <1>7, <2>1 DEF TimeoutCallback
    <2>3. /\ ToSet(timedOut') = ToSet(timedOut) \ {c} /\ c \in ToSet(timedOut)
          /\ UNCHANGED <<caller, sets, getAlls, rx>>
      BY <1>0, <1>7, <2>1, TailDistinct DEF TimeoutCallback, IndInv, TypeOK, CompletedOnce
    <2>4. delivered[c] = <<>> /\ InTimedOut(c)
      BY <2>3 DEF IndInv, CompletedOnce, Called, InTimedOut
    <2>5. c \in Sets => res = "no_ack"
      BY <1>7, <2>2, <2>3 DEF TimeoutCallback, PassesAreSeparate
    <2>6. \A t \in Sets \ {c} : InTimedOut(t)' = InTimedOut(t) /\ (rx' = t) = (rx = t)
      BY <2>3 DEF InTimedOut
    <2> QED
      BY <2>2, <2>3, <2>4, <2>5, <2>6, CallbackRefines
  <1>8. CASE GetAllGiveUp
    <2>1. /\ it \in 1..Len(getAlls) /\ getAlls' = RemoveAt(getAlls, it)
          /\ timedOut' = Append(timedOut, getAlls[it])
          /\ UNCHANGED <<caller, sets, rx, delivered>>
      BY <1>0, <1>8 DEF GetAllGiveUp, GiveUp, At, TypeOK
    <2>2. /\ getAlls[it] \in GetAlls /\ getAlls[it] \in Calls /\ InQueue(getAlls[it])
          /\ \A d \in Calls : InQueue(d)' <=> InQueue(d) /\ d # getAlls[it]
      BY <2>1, GetAllRemoved
    <2>3. ToSet(timedOut') = ToSet(timedOut) \cup {getAlls[it]}
      <3>1. timedOut \in Seq(Calls) /\ IsInjective(timedOut) /\ getAlls[it] \notin ToSet(timedOut)
        BY <1>0, <2>2 DEF IndInv, TypeOK, CompletedOnce, InTimedOut
      <3> QED
        BY <2>1, <2>2, <3>1, AppendDistinct
    <2>4. ASSUME NEW s \in Sets PROVE InQueue(s)' = InQueue(s) /\ InTimedOut(s)' = InTimedOut(s)
      <3>1. s # getAlls[it] /\ s \in Calls
        BY <1>0, <2>2
      <3> QED
        BY <2>2, <2>3, <3>1 DEF InQueue, InTimedOut
    <2> QED
      BY <2>1, <2>4, OthersStutter
  <1>9. CASE SetGiveUp
    BY <1>9, SetGiveUpRefines DEF Abstract!Next
  <1>10. ASSUME UNCHANGED <<caller, sets, getAlls, timedOut, rx, delivered>> PROVE phases' = phases
    BY <1>10, OthersStutter DEF InQueue, InTimedOut
  <1>11. CASE \/ \E c \in Calls : Elapse(c)
              \/ \E s \in Sets, result \in AckResults : ServerSets(s, result)
              \/ TimeoutWake \/ TimeoutNext
              \/ ScanSkip("scan_get_all", getAlls) \/ ScanSkip("scan_set", sets)
              \/ GetAllRetransmit \/ SetRetransmit \/ ScanEnd \/ Terminate \/ UNCHANGED vars
    <2>1. TimeoutWake => timedOut' = timedOut
      BY DEF TimeoutWake, StartScan, IndInv, Bookkeeping
    <2>2. TimeoutNext => timedOut' = timedOut
      BY DEF TimeoutNext, StartScan
    <2>3. UNCHANGED <<caller, sets, getAlls, timedOut, rx, delivered>>
      BY <1>11, <2>1, <2>2 DEF Elapse, ServerSets, TimeoutWake, TimeoutNext, StartScan, ScanSkip,
            GetAllRetransmit, SetRetransmit, ScanEnd, Terminate, vars
    <2> QED
      BY <1>10, <2>3
  <1> QED
    BY <1>1, <1>2, <1>3, <1>4, <1>5, <1>6, <1>7, <1>8, <1>9, <1>11 DEF Next, TimeoutThread

\* No set was handed over yet.
LEMMA InitRefines == Init => Abstract!Init
  <1> SUFFICES ASSUME Init PROVE Abstract!Init
    OBVIOUS
  <1>1. \A s \in Sets : Phase(s) = "idle"
    BY InitIndInv, PhaseOf DEF PlaceIsPhase, Init, Calls
  <1> QED
    BY <1>1 DEF Abstract!Init

\* For any sets and get-alls and every limit, what the callers of the parameter sets see
\* (xparam.cpp:52-84, 210-222, 428-457) is what a bounded request queue allows: refused
\* only at the limit, decided once, its callback called once and with that fate.
THEOREM SetsImplementTheRequestQueue == Spec => SetsImplementRequestQueue
  <1>1. IndInv /\ PassesAreSeparate /\ [Next]_vars => PassesAreSeparate'
    BY NextPasses
  <1>2. IndInv /\ IndInv' /\ PassesAreSeparate /\ [Next]_vars => [Abstract!Next]_phases
    BY NextRefines
  <1> QED
    BY <1>1, <1>2, InitPasses, InitRefines, SpecIndInv, PTL
    DEF Spec, SetsImplementRequestQueue, Abstract!Spec, phases

-----------------------------------------------------------------------------
(***************************************************************************)
(* What a blocking set means to its caller.  The receive thread has        *)
(* "success" for get-alls only, so a blocking set that returned true was   *)
(* accepted.                                                               *)
(***************************************************************************)
ReturnInv ==
    \A s \in Sets :
        /\ rx = s => rxResult # "success"
        /\ delivered[s] # <<"success">>
        /\ caller[s] = "returned_true" => delivered[s] = <<"accepted">>

\* No set has returned.
LEMMA InitReturnInv == Init => ReturnInv
  BY ConstantsAssumption DEF Init, ReturnInv, Calls

\* A step that calls no callback and lets no call return.
LEMMA OthersReturnInv ==
    ASSUME ReturnInv, UNCHANGED <<rx, rxResult, delivered>>,
           \A s \in Sets : caller'[s] = "returned_true" => caller[s] = "returned_true"
    PROVE  ReturnInv'
  BY DEF ReturnInv

\* A call that takes place has not returned yet.
LEMMA CallsReturnInv ==
    ASSUME TypeOK, NEW c \in Calls, NEW state, state # "returned_true",
           caller' = [caller EXCEPT ![c] = state]
    PROVE  \A s \in Sets : caller'[s] = "returned_true" => caller[s] = "returned_true"
  BY DEF TypeOK, Calls

\* A callback is called with a result that is not that of a get-all.
LEMMA CallbackReturnInv ==
    ASSUME TypeOK, ReturnInv, NEW c \in Calls, NEW res, c \in Sets => res # "success",
           delivered[c] = <<>>, delivered' = [delivered EXCEPT ![c] = Append(@, res)],
           caller' = caller, rx' = None \/ (rx' = rx /\ rxResult' = rxResult)
    PROVE  ReturnInv'
  <1>1. delivered'[c] = <<res>> /\ \A d \in Calls \ {c} : delivered'[d] = delivered[d]
    BY FirstResult
  <1>2. ASSUME NEW s \in Sets
        PROVE  /\ rx' = s => rxResult' # "success"
               /\ delivered'[s] # <<"success">>
               /\ caller'[s] = "returned_true" => delivered'[s] = <<"accepted">>
    <2>1. s \in Calls /\ s # None
      BY ConstantsAssumption DEF Calls
    <2>2. rx' = s => rxResult' # "success"
      BY <2>1 DEF ReturnInv
    <2>3. CASE s = c
      <3>1. <<res>> # <<"success">> /\ <<"accepted">> # <<>>
        BY <2>3
      <3> QED
        BY <1>1, <2>2, <2>3, <3>1 DEF ReturnInv
    <2>4. CASE s # c
      BY <1>1, <2>1, <2>2, <2>4 DEF ReturnInv
    <2> QED
      BY <2>3, <2>4
  <1> QED
    BY <1>2 DEF ReturnInv

\* Every step.
LEMMA NextReturnInv ==
    ASSUME IndInv, ReturnInv, [Next]_vars
    PROVE  ReturnInv'
  <1> USE DEF setVars, threadVars, rxVars
  <1>0. TypeOK /\ Sets \subseteq Calls /\ GetAlls \subseteq Calls
    BY DEF IndInv, Calls
  <1>1. ASSUME NEW s \in Sets, TrySetParam(s) PROVE ReturnInv'
    <2>1. \E state \in {"refused", Pending(s), caller[s]} :
              state # "returned_true" /\ caller' = [caller EXCEPT ![s] = state]
      BY <1>0, <1>1 DEF TrySetParam, Pending
    <2> QED
      BY <1>0, <1>1, <2>1, CallsReturnInv, OthersReturnInv DEF TrySetParam
  <1>2. ASSUME NEW g \in GetAlls, TryGetParamAll(g) PROVE ReturnInv'
    <2>1. Pending(g) # "returned_true" /\ caller' = [caller EXCEPT ![g] = Pending(g)]
      BY <1>2 DEF TryGetParamAll, Pending
    <2> QED
      BY <1>0, <1>2, <2>1, CallsReturnInv, OthersReturnInv DEF TryGetParamAll
  <1>3. ASSUME NEW c \in Calls, BlockingReturn(c) PROVE ReturnInv'
    <2>1. ASSUME NEW s \in Sets, caller'[s] = "returned_true"
          PROVE  delivered[s] = <<"accepted">>
      <3>1. CASE s = c
        <4>1. Called(s) /\ Len(delivered[s]) <= 1 /\ delivered[s] \in Seq(Results)
          BY <1>0, <1>3, <3>1 DEF BlockingReturn, IndInv, CompletedOnce, Called, TypeOK
        <4>2. PICK res \in Results : delivered[s] = <<res>> /\ Head(delivered[s]) = res
          BY <4>1 DEF Called
        <4>3. Head(delivered[s]) \in {"accepted", "success"}
          BY <1>0, <1>3, <2>1, <3>1 DEF BlockingReturn, TypeOK
        <4> QED
          BY <4>2, <4>3 DEF ReturnInv
      <3>2. CASE s # c
        BY <1>0, <1>3, <2>1, <3>2 DEF BlockingReturn, TypeOK, ReturnInv
      <3> QED
        BY <3>1, <3>2
    <2> QED
      BY <1>3, <2>1 DEF BlockingReturn, ReturnInv
  <1>4. ASSUME NEW ack \in acks, HandleParamExtAck(ack) PROVE ReturnInv'
    <2>1. rxResult' # "success" /\ UNCHANGED <<caller, delivered>>
      BY <1>0, <1>4 DEF HandleParamExtAck, TypeOK, AckResults
    <2> QED
      BY <2>1 DEF ReturnInv
  <1>5. ASSUME NEW m \in OnLink, HandleParamExtValue(m) PROVE ReturnInv'
    <2>1. UNCHANGED <<rx, rxResult>> \/ rx' \in GetAlls
      BY <1>0, <1>5 DEF HandleParamExtValue, TypeOK
    <2>2. \A s \in Sets : rx' = s => rxResult' # "success"
      BY <2>1, ConstantsAssumption DEF ReturnInv
    <2> QED
      BY <1>5, <2>2 DEF HandleParamExtValue, ReturnInv
  <1>6. CASE ReceiveCallback
    <2>1. PICK c \in Calls : c = rx
      BY <1>6 DEF ReceiveCallback, IndInv, TypeOK
    <2>2. /\ rx' = None /\ delivered' = [delivered EXCEPT ![c] = Append(@, rxResult)]
          /\ caller' = caller
      BY <1>6, <2>1 DEF ReceiveCallback
    <2>3. delivered[c] = <<>> /\ (c \in Sets => rxResult # "success")
      BY <2>1 DEF IndInv, CompletedOnce, Called, ReturnInv
    <2> QED
      BY <1>0, <2>1, <2>2, <2>3, CallbackReturnInv
  <1>7. CASE TimeoutCallback
    <2>1. PICK c \in Calls : c = Head(timedOut)
      BY <1>7, HeadTailProperties DEF TimeoutCallback, IndInv, TypeOK
    <2>2. PICK res \in {"no_ack", "failure"} : delivered' = [delivered EXCEPT ![c] = Append(@, res)]
      BY <1>7, <2>1 DEF TimeoutCallback
    <2>3. UNCHANGED <<caller, rx, rxResult>> /\ InTimedOut(c) /\ res # "success"
      BY <1>7, <2>1, TailDistinct DEF TimeoutCallback, IndInv, TypeOK, CompletedOnce, InTimedOut
    <2>4. delivered[c] = <<>>
      BY <2>3 DEF IndInv, CompletedOnce, Called
    <2> QED
      BY <1>0, <2>2, <2>3, <2>4, CallbackReturnInv
  <1>8. CASE \/ \E c \in Calls : Elapse(c)
             \/ \E s \in Sets, result \in AckResults : ServerSets(s, result)
             \/ TimeoutWake \/ TimeoutNext
             \/ ScanSkip("scan_get_all", getAlls) \/ ScanSkip("scan_set", sets)
             \/ GetAllRetransmit \/ SetRetransmit \/ GetAllGiveUp \/ SetGiveUp \/ ScanEnd
             \/ Terminate \/ UNCHANGED vars
    <2>1. UNCHANGED <<caller, rx, rxResult, delivered>>
      BY <1>8 DEF Elapse, ServerSets, TimeoutWake, TimeoutNext, StartScan, ScanSkip,
                  GetAllRetransmit, SetRetransmit, GetAllGiveUp, SetGiveUp, GiveUp, ScanEnd,
                  Terminate, vars
    <2> QED
      BY <2>1, OthersReturnInv
  <1> QED
    BY <1>1, <1>2, <1>3, <1>4, <1>5, <1>6, <1>7, <1>8 DEF Next, TimeoutThread

\* A server stores what it was sent: a set that was applied was called.
SentInv == \A s \in applied : nTx[s] > 0

\* Nothing was applied.
LEMMA InitSentInv == Init => SentInv
  BY DEF Init, SentInv

\* The number of transmissions of a set never goes down.
LEMMA NextSentInv ==
    ASSUME IndInv, SentInv, [Next]_vars
    PROVE  SentInv'
  <1> USE DEF setVars, threadVars, rxVars, linkVars
  <1>0. TypeOK /\ Sets \subseteq Calls /\ GetAlls \subseteq Calls
    BY DEF IndInv, Calls
  <1>1. ASSUME NEW c \in Calls, CountTransmission(c), applied' = applied PROVE SentInv'
    <2>1. nTx'[c] = nTx[c] + 1 /\ nTx[c] \in Nat /\ \A d \in Calls \ {c} : nTx'[d] = nTx[d]
      BY <1>0, <1>1, CountFacts DEF TypeOK
    <2>2. applied \subseteq Calls
      BY <1>0 DEF TypeOK
    <2> QED
      BY <1>1, <2>1, <2>2 DEF SentInv
  <1>2. ASSUME UNCHANGED <<nTx, applied>> PROVE SentInv'
    BY <1>2 DEF SentInv
  <1>3. ASSUME NEW s \in Sets, TrySetParam(s) PROVE SentInv'
    BY <1>0, <1>1, <1>2, <1>3 DEF TrySetParam, send_next_message_running_set
  <1>4. ASSUME NEW g \in GetAlls, TryGetParamAll(g) PROVE SentInv'
    BY <1>0, <1>1, <1>4 DEF TryGetParamAll, send_next_message_running_get_all
  <1>5. ASSUME NEW s \in Sets, NEW result \in AckResults, ServerSets(s, result) PROVE SentInv'
    BY <1>5 DEF ServerSets, SentInv
  <1>6. CASE GetAllRetransmit
    <2>1. getAlls[it] \in Calls
      BY <1>0, <1>6, ScanTypes DEF GetAllRetransmit, TypeOK
    <2> QED
      BY <1>1, <1>6, <2>1 DEF GetAllRetransmit, send_next_message_running_get_all
  <1>7. CASE SetRetransmit
    <2>1. sets[it] \in Calls
      BY <1>0, <1>7, ScanTypes DEF SetRetransmit, TypeOK
    <2> QED
      BY <1>1, <1>7, <2>1 DEF SetRetransmit, send_next_message_running_set
  <1>8. CASE \/ \E c \in Calls : BlockingReturn(c) \/ Elapse(c)
             \/ \E ack \in acks : HandleParamExtAck(ack)
             \/ \E m \in OnLink : HandleParamExtValue(m)
             \/ ReceiveCallback \/ TimeoutCallback \/ TimeoutWake \/ TimeoutNext
             \/ ScanSkip("scan_get_all", getAlls) \/ ScanSkip("scan_set", sets)
             \/ GetAllGiveUp \/ SetGiveUp \/ ScanEnd \/ Terminate \/ UNCHANGED vars
    <2>1. UNCHANGED <<nTx, applied>>
      BY <1>8 DEF BlockingReturn, Elapse, HandleParamExtAck, HandleParamExtValue, ReceiveCallback,
                  TimeoutCallback, TimeoutWake, TimeoutNext, StartScan, ScanSkip, GetAllGiveUp,
                  SetGiveUp, GiveUp, ScanEnd, Terminate, vars
    <2> QED
      BY <1>2, <2>1
  <1> QED
    BY <1>3, <1>4, <1>5, <1>6, <1>7, <1>8 DEF Next, TimeoutThread

\* For sets with targets of their own: a blocking set that returned true was stored by its
\* server, and what a server stored had been handed over.
LEMMA TrueWasApplied ==
    ASSUME IndInv, AppliedInv, ReturnInv, SentInv, NEW s \in Sets
    PROVE  /\ caller[s] = "returned_true" => s \in applied
           /\ s \in applied => caller[s] # "idle"
  <1>1. s \in Calls /\ s # None
    BY ConstantsAssumption DEF Calls
  <1>2. caller[s] = "returned_true" => s \in applied
    BY DEF ReturnInv, AppliedInv, Accepted
  <1>3. s \in applied => Enqueued(s)
    BY <1>1 DEF SentInv, IndInv, Bookkeeping
  <1> QED
    BY <1>2, <1>3 DEF Enqueued

-----------------------------------------------------------------------------
(***************************************************************************)
(* WBLinkSettingsHelper, the caller of the sets that change the link.  To  *)
(* XParam its calls are calls like any other, so its steps are steps of    *)
(* XParam and all invariants above hold for it.                            *)
(***************************************************************************)
LinkCalls ==
    /\ ToSet(StbcLdpc) \subseteq Sets /\ AirAsync \subseteq Sets /\ OneSet \subseteq Sets
    /\ AirAsync \cap Blocking = {} /\ AirAsync \cap ToSet(StbcLdpc) = {}
    /\ OneSet \cap ToSet(StbcLdpc) = {}

\* The three functions share no call.
LEMMA LinkCallsFacts == LinkCalls
  BY LinkAssumption DEF LinkCalls

\* The sequence consists of sets.
LEMMA SequenceFacts ==
    /\ DOMAIN StbcLdpc = 1..Len(StbcLdpc) /\ Len(StbcLdpc) \in Nat
    /\ \A i \in DOMAIN StbcLdpc : StbcLdpc[i] \in ToSet(StbcLdpc) /\ StbcLdpc[i] \in Sets
    /\ \A i, j \in DOMAIN StbcLdpc : StbcLdpc[i] = StbcLdpc[j] => i = j
    /\ \A s \in ToSet(StbcLdpc) : \E i \in DOMAIN StbcLdpc : s = StbcLdpc[i]
  BY LinkAssumption DEF IsInjective, ToSet

\* Every step of the helper is one of XParam.
LEMMA LinkStepIsXParamStep == [LinkNext]_<<vars, hud>> => [Next]_vars
  <1> SUFFICES ASSUME [LinkNext]_<<vars, hud>> PROVE [Next]_vars
    OBVIOUS
  <1>1. CASE SetStbcLdpc
    BY <1>1, SequenceFacts DEF SetStbcLdpc, Next
  <1>2. ASSUME NEW c \in AirAsync, ChangeParamAirAsync(c) PROVE [Next]_vars
    BY <1>2, LinkCallsFacts DEF ChangeParamAirAsync, LinkCalls, Next
  <1>3. ASSUME NEW c \in OneSet, ChangeParamBlocking(c) PROVE [Next]_vars
    BY <1>3, LinkCallsFacts DEF ChangeParamBlocking, LinkCalls, Next
  <1>4. CASE XParamStep
    BY <1>4 DEF XParamStep, Next
  <1>5. CASE UNCHANGED <<vars, hud>>
    BY <1>5
  <1> QED
    BY <1>1, <1>2, <1>3, <1>4, <1>5 DEF LinkNext

\* The parameter client behind the helper behaves as XParam: whatever is proved of
\* XParam holds for the changes of the link (wblinksettingshelper.cpp:270-360).
THEOREM LinkImplementsXParam == LinkSpec => Spec
  BY LinkStepIsXParamStep, PTL DEF LinkSpec, LinkInit, Spec

-----------------------------------------------------------------------------
(* The sequence of sets                                                    *)

\* A set of the sequence is called only after the one before it returned true.
InSequence ==
    \A i, j \in DOMAIN StbcLdpc :
        i < j /\ caller[StbcLdpc[j]] # "idle" => caller[StbcLdpc[i]] = "returned_true"

\* Nothing has been called.
LEMMA InitInSequence == Init => InSequence
  BY SequenceFacts DEF Init, InSequence, Calls

\* Who takes the first step of a call, and what becomes of a call that returned true.
LEMMA LinkCallers ==
    ASSUME IndInv, [LinkNext]_<<vars, hud>>, NEW s \in Sets
    PROVE  /\ caller[s] = "returned_true" => caller'[s] = "returned_true"
           /\ \/ caller'[s] = "idle" <=> caller[s] = "idle"
              \/ s \in AirAsync \cup OneSet
              \/ \E i \in DOMAIN StbcLdpc : s = StbcLdpc[i] /\ IsNext(i)
  <1>0. TypeOK /\ s \in Calls
    BY DEF IndInv, Calls
  <1>1. ASSUME NEW t \in Sets, TrySetParam(t)
        PROVE  \/ caller'[s] = caller[s]
               \/ s = t /\ caller[s] = "idle"
    BY <1>0, <1>1 DEF TrySetParam, TypeOK
  <1>2. CASE SetStbcLdpc
    <2>1. PICK i \in DOMAIN StbcLdpc : IsNext(i) /\ TrySetParam(StbcLdpc[i])
      BY <1>2 DEF SetStbcLdpc
    <2> QED
      BY <1>1, <2>1, SequenceFacts
  <1>3. ASSUME NEW c \in AirAsync, ChangeParamAirAsync(c) PROVE caller'[s] = caller[s] \/ (s = c /\ caller[s] = "idle")
    BY <1>1, <1>3, LinkCallsFacts DEF ChangeParamAirAsync, LinkCalls, vars
  <1>4. ASSUME NEW c \in OneSet, ChangeParamBlocking(c) PROVE caller'[s] = caller[s] \/ (s = c /\ caller[s] = "idle")
    BY <1>1, <1>4, LinkCallsFacts DEF ChangeParamBlocking, LinkCalls
  <1>5. ASSUME NEW c \in Calls, BlockingReturn(c)
        PROVE  caller'[s] = caller[s] \/ (caller[s] = "waiting" /\ caller'[s] # "idle")
    BY <1>0, <1>5 DEF BlockingReturn, TypeOK
  <1>6. CASE XParamStep \/ UNCHANGED <<vars, hud>>
    <2>1. (\E c \in Calls : BlockingReturn(c)) \/ caller' = caller
      BY <1>6 DEF XParamStep, Elapse, ServerSets, HandleParamExtAck, ReceiveCallback, TimeoutThread,
                  TimeoutCallback, TimeoutWake, TimeoutNext, StartScan, ScanSkip, GetAllRetransmit,
                  SetRetransmit, GetAllGiveUp, SetGiveUp, GiveUp, ScanEnd, vars
    <2> QED
      BY <1>5, <2>1
  <1> QED
    BY <1>2, <1>3, <1>4, <1>6 DEF LinkNext

\* Every step.
LEMMA NextInSequence ==
    ASSUME IndInv, InSequence, [LinkNext]_<<vars, hud>>
    PROVE  InSequence'
  <1> SUFFICES ASSUME NEW i \in DOMAIN StbcLdpc, NEW j \in DOMAIN StbcLdpc, i < j,
                      caller'[StbcLdpc[j]] # "idle"
               PROVE  caller'[StbcLdpc[i]] = "returned_true"
    BY DEF InSequence
  <1>1. /\ StbcLdpc[i] \in Sets /\ StbcLdpc[j] \in Sets
        /\ StbcLdpc[j] \notin AirAsync \cup OneSet
    BY SequenceFacts, LinkCallsFacts DEF LinkCalls
  <1>2. CASE caller[StbcLdpc[j]] # "idle"
    BY <1>1, <1>2, LinkCallers DEF InSequence
  <1>3. CASE caller[StbcLdpc[j]] = "idle"
    <2>1. PICK k \in DOMAIN StbcLdpc : StbcLdpc[j] = StbcLdpc[k] /\ IsNext(k)
      BY <1>1, <1>3, LinkCallers
    <2>2. IsNext(j) /\ i \in Nat /\ j \in Nat /\ i >= 1 /\ j - 1 \in DOMAIN StbcLdpc /\ i <= j - 1
      BY <2>1, SequenceFacts
    <2>3. caller[StbcLdpc[j - 1]] = "returned_true"
      BY <2>2 DEF IsNext, GoesOn
    <2>4. caller[StbcLdpc[i]] = "returned_true"
      <3>1. CASE i = j - 1
        BY <2>3, <3>1
      <3>2. CASE i < j - 1
        BY <2>2, <2>3, <3>2 DEF InSequence
      <3> QED
        BY <2>2, <3>1, <3>2
    <2> QED
      BY <1>1, <2>4, LinkCallers
  <1> QED
    BY <1>2, <1>3

\* What was applied was called, and what was called came after what was applied.
LEMMA SequenceIsApplied ==
    ASSUME IndInv, AppliedInv, ReturnInv, SentInv, InSequence
    PROVE  GroundBeforeAir
  <1>1. ASSUME NEW i \in DOMAIN StbcLdpc, NEW j \in DOMAIN StbcLdpc, i < j,
               caller[StbcLdpc[j]] # "idle"
        PROVE  StbcLdpc[i] \in applied
    BY <1>1, SequenceFacts, TrueWasApplied DEF InSequence
  <1>2. ASSUME NEW i \in DOMAIN StbcLdpc, NEW j \in DOMAIN StbcLdpc, i < j, StbcLdpc[j] \in applied
        PROVE  StbcLdpc[i] \in applied
    BY <1>1, <1>2, SequenceFacts, TrueWasApplied
  <1>3. ASSUME caller[Last(StbcLdpc)] = "returned_true" PROVE ToSet(StbcLdpc) \subseteq applied
    <2> SUFFICES ASSUME NEW i \in DOMAIN StbcLdpc PROVE StbcLdpc[i] \in applied
      BY SequenceFacts
    <2>1. Len(StbcLdpc) \in DOMAIN StbcLdpc /\ Last(StbcLdpc) = StbcLdpc[Len(StbcLdpc)]
      BY SequenceFacts DEF Last
    <2>2. CASE i = Len(StbcLdpc)
      BY <1>3, <2>1, <2>2, SequenceFacts, TrueWasApplied
    <2>3. CASE i < Len(StbcLdpc)
      BY <1>1, <1>3, <2>1, <2>3
    <2> QED
      BY <2>1, <2>2, <2>3, SequenceFacts
  <1> QED
    BY <1>2, <1>3 DEF GroundBeforeAir

\* The air unit never transmits with what the ground unit was not told to receive, for a
\* sequence of any length, whatever is lost, late or repeated and wherever it is given up
\* (wblinksettingshelper.cpp:289-308), if no two sets have the same target.
THEOREM GroundIsAlwaysFirst ==
    ASSUME DistinctTargets
    PROVE  LinkSpec => []GroundBeforeAir
  <1> DEFINE LinkInv == AppliedInv /\ ReturnInv /\ SentInv /\ InSequence
  <1>1. LinkInit => LinkInv
    BY InitAppliedInv, InitReturnInv, InitSentInv, InitInSequence DEF LinkInit
  <1>2. IndInv /\ LinkInv /\ [LinkNext]_<<vars, hud>> => LinkInv'
    BY LinkStepIsXParamStep, NextAppliedInv, NextReturnInv, NextSentInv, NextInSequence
  <1>3. IndInv /\ LinkInv => GroundBeforeAir
    BY SequenceIsApplied
  <1> HIDE DEF LinkInv
  <1> QED
    BY <1>1, <1>2, <1>3, LinkImplementsXParam, SpecIndInv, PTL DEF LinkSpec

-----------------------------------------------------------------------------
(* What the user is told                                                   *)

ToldInv == hud \in [AirAsync -> Int] /\ ToldOnce

\* A call that has been decided was enqueued.
LEMMA DecidedOnce ==
    ASSUME IndInv, NEW c \in AirAsync
    PROVE  /\ Len(delivered[c]) = (IF Called(c) THEN 1 ELSE 0)
           /\ Called(c) => caller[c] \notin {"idle", "refused"}
  <1>1. c \in Calls /\ delivered[c] \in Seq(Results) /\ Len(delivered[c]) <= 1
    BY LinkCallsFacts DEF LinkCalls, Calls, IndInv, TypeOK, CompletedOnce
  <1>2. Called(c) => Enqueued(c)
    BY <1>1 DEF IndInv, CompletedOnce
  <1>3. Len(delivered[c]) = (IF Called(c) THEN 1 ELSE 0)
    BY <1>1, EmptySeq DEF Called
  <1> QED
    BY <1>2, <1>3 DEF Enqueued

\* The same after a step.
LEMMA DecidedOnceNext ==
    ASSUME IndInv', NEW c \in AirAsync
    PROVE  /\ Len(delivered'[c]) = (IF Called(c)' THEN 1 ELSE 0)
           /\ Called(c)' => caller'[c] \notin {"idle", "refused"}
  <1>1. c \in Calls /\ delivered'[c] \in Seq(Results) /\ Len(delivered'[c]) <= 1
    BY LinkCallsFacts DEF LinkCalls, Calls, IndInv, TypeOK, CompletedOnce
  <1>2. Called(c)' => Enqueued(c)'
    BY <1>1 DEF IndInv, CompletedOnce
  <1>3. Len(delivered'[c]) = (IF Called(c)' THEN 1 ELSE 0)
    BY <1>1, EmptySeq DEF Called
  <1> QED
    BY <1>2, <1>3 DEF Enqueued

\* Nothing was changed, nothing was said.
LEMMA InitToldInv == LinkInit => ToldInv
  <1> SUFFICES ASSUME LinkInit PROVE ToldInv
    OBVIOUS
  <1>1. \A c \in AirAsync : hud[c] = 0 /\ caller[c] = "idle" /\ ~Called(c)
    BY LinkCallsFacts DEF LinkInit, Init, LinkCalls, Calls, Called
  <1> QED
    BY <1>1 DEF ToldInv, ToldOnce, LinkInit

\* A step that neither tells anything nor calls, refuses or decides an asynchronous change.
LEMMA OthersToldInv ==
    ASSUME ToldInv, hud' = hud, delivered' = delivered,
           \A c \in AirAsync : caller'[c] = caller[c]
    PROVE  ToldInv'
  BY DEF ToldInv, ToldOnce, Called

\* Every step.
LEMMA NextToldInv ==
    ASSUME IndInv, IndInv', ToldInv, [LinkNext]_<<vars, hud>>
    PROVE  ToldInv'
  <1> USE DEF threadVars, rxVars
  <1>0. TypeOK /\ AirAsync \subseteq Calls /\ AirAsync \subseteq Sets
    BY LinkCallsFacts DEF IndInv, LinkCalls, Calls
  <1>1. ASSUME NEW s \in Sets \ AirAsync, TrySetParam(s), hud' = hud PROVE ToldInv'
    <2>1. \A c \in AirAsync : caller'[c] = caller[c]
      BY <1>0, <1>1 DEF TrySetParam, TypeOK
    <2> QED
      BY <1>1, <2>1, OthersToldInv DEF TrySetParam
  <1>2. CASE SetStbcLdpc
    BY <1>1, <1>2, SequenceFacts, LinkCallsFacts DEF SetStbcLdpc, LinkCalls
  <1>3. ASSUME NEW c \in OneSet, ChangeParamBlocking(c) PROVE ToldInv'
    <2>1. c \in Sets \ AirAsync
      BY LinkAssumption, LinkCallsFacts DEF LinkCalls
    <2> QED
      BY <1>1, <1>3, <2>1 DEF ChangeParamBlocking
  <1>4. ASSUME NEW c \in AirAsync, ChangeParamAirAsync(c) PROVE ToldInv'
    <2>1. caller[c] = "idle" /\ hud[c] = 0 /\ ~Called(c)
      BY <1>4, DecidedOnce DEF ChangeParamAirAsync
    <2>2. CASE hud' = [hud EXCEPT ![c] = 1] /\ UNCHANGED vars
      BY <2>1, <2>2 DEF ToldInv, ToldOnce, Called, vars
    <2>3. CASE TrySetParam(c) /\ hud' = [hud EXCEPT ![c] = BusyMessages(c)]
      <3>1. /\ delivered' = delivered /\ caller'[c] # "idle"
            /\ \A d \in AirAsync \ {c} : caller'[d] = caller[d]
        BY <1>0, <2>3 DEF TrySetParam, Pending, TypeOK
      <3>2. BusyMessages(c) \in Int /\ hud'[c] = BusyMessages(c)
        BY <2>3 DEF BusyMessages, ToldInv
      <3>3. hud' \in [AirAsync -> Int] /\ \A d \in AirAsync \ {c} : hud'[d] = hud[d]
        BY <2>3, <3>2 DEF ToldInv
      <3>4. ~Called(c)'
        BY <2>1, <3>1 DEF Called
      <3>5. hud'[c] = (IF caller'[c] = "refused" \/ Called(c)' THEN 1 ELSE 0)
        BY <3>2, <3>4 DEF BusyMessages
      <3> QED
        BY <3>1, <3>3, <3>5 DEF ToldInv, ToldOnce, Called
    <2> QED
      BY <1>4, <2>2, <2>3 DEF ChangeParamAirAsync
  <1>5. CASE XParamStep
    <2>1. ASSUME NEW c \in AirAsync
          PROVE  (caller'[c] = "idle" <=> caller[c] = "idle")
                 /\ (caller'[c] = "refused" <=> caller[c] = "refused")
      <3>1. ASSUME NEW d \in Calls, BlockingReturn(d)
            PROVE  caller'[c] = caller[c] \/ (caller[c] = "waiting" /\ caller'[c] \notin {"idle", "refused"})
        BY <1>0, <3>1 DEF BlockingReturn, TypeOK
      <3>2. (\E d \in Calls : BlockingReturn(d)) \/ caller' = caller
        BY <1>5 DEF XParamStep, Elapse, ServerSets, HandleParamExtAck, ReceiveCallback, TimeoutThread,
                    TimeoutCallback, TimeoutWake, TimeoutNext, StartScan, ScanSkip, GetAllRetransmit,
                    SetRetransmit, GetAllGiveUp, SetGiveUp, GiveUp, ScanEnd
      <3> QED
        BY <3>1, <3>2
    <2>2. ASSUME NEW c \in AirAsync
          PROVE  /\ Len(delivered[c]) = (IF Called(c) THEN 1 ELSE 0)
                 /\ Len(delivered'[c]) = (IF Called(c)' THEN 1 ELSE 0)
                 /\ Called(c) => caller[c] \notin {"idle", "refused"}
                 /\ Called(c)' => caller'[c] \notin {"idle", "refused"}
      BY DecidedOnce, DecidedOnceNext
    <2>3. hud' = [c \in AirAsync |-> hud[c] + Len(delivered'[c]) - Len(delivered[c])]
      BY <1>5 DEF XParamStep
    <2>4. ASSUME NEW c \in AirAsync, Called(c) PROVE Called(c)'
      <3>1. CompletedOnce' /\ c \in Calls /\ TypeOK'
        BY <1>0 DEF IndInv
      <3>2. \/ delivered'[c] = delivered[c]
            \/ \E res : delivered'[c] = Append(delivered[c], res)
        BY <1>0, <1>5
        DEF XParamStep, BlockingReturn, Elapse, ServerSets, HandleParamExtAck, ReceiveCallback, TimeoutThread,
            TimeoutCallback, TimeoutWake, TimeoutNext, StartScan, ScanSkip, GetAllRetransmit,
            SetRetransmit, GetAllGiveUp, SetGiveUp, GiveUp, ScanEnd, TypeOK
      <3> QED
        BY <1>0, <2>4, <3>2, AppendProperties DEF Called, TypeOK
    <2>5. ASSUME NEW c \in AirAsync
          PROVE  /\ hud'[c] \in Int
                 /\ \/ hud'[c] = (IF caller'[c] = "refused" \/ Called(c)' THEN 1 ELSE 0)
                    \/ hud'[c] = 1 /\ caller'[c] = "idle"
      <3>1. \/ hud[c] = (IF caller[c] = "refused" \/ Called(c) THEN 1 ELSE 0)
            \/ hud[c] = 1 /\ caller[c] = "idle"
        BY DEF ToldInv, ToldOnce
      <3>2. hud'[c] = hud[c] + Len(delivered'[c]) - Len(delivered[c])
        BY <2>3
      <3>3. ASSUME Called(c) PROVE hud[c] = 1 /\ hud'[c] = 1 + Len(delivered'[c]) - 1
        BY <2>2, <3>1, <3>2, <3>3
      <3>4. ASSUME ~Called(c) PROVE hud'[c] = hud[c] + Len(delivered'[c]) - 0
        BY <2>2, <3>2, <3>4
      <3>5. CASE Called(c)'
        <4>1. Len(delivered'[c]) = 1 /\ caller'[c] \notin {"idle", "refused"}
          BY <2>2, <3>5
        <4>2. Called(c) \/ hud[c] = 0
          BY <2>1, <3>1, <4>1
        <4>3. hud'[c] = 1
          BY <3>3, <3>4, <4>1, <4>2
        <4> QED
          BY <3>5, <4>3
      <3>6. CASE ~Called(c)'
        <4>1. Len(delivered'[c]) = 0
          BY <2>2, <3>6
        <4>2. ~Called(c)
          BY <2>4, <3>6
        <4>3. hud'[c] = hud[c]
          BY <3>1, <3>4, <4>1, <4>2
        <4> QED
          BY <2>1, <3>1, <3>6, <4>2, <4>3
      <3> QED
        BY <3>5, <3>6
    <2>6. hud' \in [AirAsync -> Int]
      BY <2>3, <2>5
    <2> QED
      BY <2>5, <2>6 DEF ToldInv, ToldOnce
  <1>6. CASE UNCHANGED <<vars, hud>>
    BY <1>6, OthersToldInv DEF vars
  <1> QED
    BY <1>2, <1>3, <1>4, <1>5, <1>6 DEF LinkNext

\* The user is told once of every asynchronous change, for any number of changes and
\* every interleaving with the threads of XParam (wblinksettingshelper.cpp:320-360).
THEOREM ToldExactlyOnce == LinkSpec => []ToldOnce
  <1>1. IndInv /\ IndInv' /\ ToldInv /\ [LinkNext]_<<vars, hud>> => ToldInv'
    BY NextToldInv
  <1>2. ToldInv => ToldOnce
    BY DEF ToldInv
  <1> QED
    BY <1>1, <1>2, InitToldInv, LinkImplementsXParam, SpecIndInv, PTL DEF LinkSpec
=============================================================================
