-------------------------- MODULE CmdSenderProofs --------------------------
(***************************************************************************)
(* Proofs about CmdSender, for any set of requests and any queue limit:    *)
(* the inductive invariant, what callers are told, and that CmdSender      *)
(* implements RequestQueue.  Then about its clients, FCMsgIntervalHandler  *)
(* and FCAction, for any number of rates, restarts and commands.           *)
(***************************************************************************)
EXTENDS CmdSender, CommandClients, ListTheorems, TLAPS

\* The iterator of handle_timeout advances to a position of the list or end().
LEMMA SuccessorFacts ==
    ASSUME NEW n \in Nat, NEW i \in Nat \ {0}
    PROVE  /\ Successor(i, n) \in Nat \ {0}
           /\ i <= n + 1 => Successor(i, n) <= n + 1
  BY DEF Successor

\* send_command counts one transmission of its command.
LEMMA SendCommandFacts ==
    ASSUME TypeOK, NEW r \in Requests, send_command(r)
    PROVE  /\ nTx' \in [Requests -> Nat]
           /\ nTx'[r] = nTx[r] + 1
           /\ \A q \in Requests \ {r} : nTx'[q] = nTx[q]
           /\ due' \subseteq Requests
  BY DEF TypeOK, send_command

-----------------------------------------------------------------------------
\* Every variable of the command sender keeps its type: in particular the list,
\* the vector of timed out commands and the command in the receive thread's
\* hands only ever hold requests.
LEMMA InitTypeOK == Init => TypeOK
  BY ConstantsAssumption DEF Init, TypeOK, CallerStates, AckResults

\* Every step of a caller, the receive thread or the timeout thread keeps the types.
LEMMA NextTypeOK == TypeOK /\ [Next]_vars => TypeOK'
  <1> SUFFICES ASSUME TypeOK, [Next]_vars PROVE TypeOK'
    OBVIOUS
  <1> USE ConstantsAssumption DEF TypeOK
  <1>1. ASSUME NEW r \in Requests, SendCommandLong(r) PROVE TypeOK'
    <2>1. Append(running, r) \in Seq(Requests)
      BY AppendProperties
    <2> QED
      BY <1>1, <2>1, SendCommandFacts DEF SendCommandLong, CallerStates, BlockingResults
  <1>2. ASSUME NEW r \in Requests, BlockingReturn(r) PROVE TypeOK'
    BY <1>2 DEF BlockingReturn, BlockingResult, CallerStates, BlockingResults
  <1>3. ASSUME NEW r \in Requests, Elapse(r) PROVE TypeOK'
    BY <1>3 DEF Elapse
  <1>4. ASSUME NEW r \in Requests, NEW answer \in AckResults,
               RecipientAnswers(r, answer) PROVE TypeOK'
    BY <1>4 DEF RecipientAnswers, Acks
  <1>5. ASSUME NEW c \in Foreign, NEW answer \in AckResults,
               OtherStationAnswered(c, answer) PROVE TypeOK'
    BY <1>5 DEF OtherStationAnswered, Acks
  <1>6. ASSUME NEW ack \in acks, HandleCmdAck(ack) PROVE TypeOK'
    <2> PICK i \in 1..Len(running) : rx' = running[i] /\ running' = RemoveAt(running, i)
      BY <1>6 DEF HandleCmdAck
    <2>1. running' \in Seq(Requests) /\ rx' \in Requests
      BY RemoveAtFacts
    <2>2. rxResult' \in AckResults
      BY <1>6 DEF HandleCmdAck, Acks
    <2> QED
      BY <1>6, <2>1, <2>2 DEF HandleCmdAck
  <1>7. CASE HandleCmdAckCallback
    <2>1. rx \in Requests /\ rxResult \in Results
      BY <1>7 DEF HandleCmdAckCallback, Results
    <2>2. Append(delivered[rx], rxResult) \in Seq(Results)
      BY <2>1, AppendProperties
    <2> QED
      BY <1>7, <2>1, <2>2 DEF HandleCmdAckCallback
  <1>8. CASE TimeoutWake
    BY <1>8 DEF TimeoutWake
  <1>9. CASE ScanSkip
    BY <1>9, SuccessorFacts, Len(running) \in Nat DEF ScanSkip
  <1>10. CASE ScanRetransmit
    <2>1. running[it] \in Requests /\ Len(running) \in Nat
      BY <1>10 DEF ScanRetransmit
    <2>2. it' \in Nat \ {0}
      BY <1>10, <2>1, SuccessorFacts DEF ScanRetransmit
    <2> QED
      BY <1>10, <2>1, <2>2, SendCommandFacts DEF ScanRetransmit
  <1>11. CASE ScanGiveUp
    <2>1. it \in 1..Len(running) /\ running' = RemoveAt(running, it)
      BY <1>11 DEF ScanGiveUp
    <2>2. running' \in Seq(Requests)
      BY <2>1, RemoveAtFacts
    <2>3. running[it] \in Requests
      BY <2>1
    <2>4. Append(timedOut, running[it]) \in Seq(Requests)
      BY <2>3, AppendProperties
    <2>5. it' \in Nat \ {0}
      BY <1>11, <2>1, SuccessorFacts, Len(running) - 1 \in Nat DEF ScanGiveUp
    <2> QED
      BY <1>11, <2>2, <2>4, <2>5 DEF ScanGiveUp
  <1>12. CASE ScanEnd
    BY <1>12 DEF ScanEnd
  <1>13. CASE TimeoutCallback
    <2>1. Head(timedOut) \in Requests /\ Tail(timedOut) \in Seq(Requests)
      BY <1>13, HeadTailProperties DEF TimeoutCallback
    <2>2. Append(delivered[Head(timedOut)], "no_ack") \in Seq(Results)
      BY <2>1, AppendProperties DEF Results
    <2> QED
      BY <1>13, <2>1, <2>2 DEF TimeoutCallback
  <1>14. CASE TimeoutLoop
    BY <1>14 DEF TimeoutLoop
  <1>15. CASE Terminate
    BY <1>15 DEF Terminate
  <1>16. CASE UNCHANGED vars
    BY <1>16 DEF vars
  <1> QED
    BY <1>1, <1>2, <1>3, <1>4, <1>5, <1>6, <1>7, <1>8, <1>9, <1>10, <1>11,
       <1>12, <1>13, <1>14, <1>15, <1>16 DEF Next, TimeoutThread

\* Every variable keeps its type, for any requests, recipients and limit; among others,
\* the list holds no command twice (cmdsender.h:52-74).
THEOREM TypeCorrect == Spec => []TypeOK
  BY InitTypeOK, NextTypeOK, PTL DEF Spec

-----------------------------------------------------------------------------
(***************************************************************************)
(* The safety invariants together are almost inductive.  What is missing:  *)
(* a command that was never enqueued was never transmitted (so the first   *)
(* transmission cannot exceed the wanted number), and the timeout thread   *)
(* has no callbacks left when it sleeps (so waking drops none).            *)
(***************************************************************************)
Bookkeeping ==
    /\ \A r \in Requests : ~Enqueued(r) => nTx[r] = 0
    /\ tpc \in {"sleep", "exited"} => timedOut = <<>>

IndInv == /\ TypeOK /\ QueueBound /\ IteratorValid
          /\ CompletedOnce /\ GiveUpExhausted /\ Bookkeeping

\* Nothing is enqueued at first.
LEMMA InitIndInv == Init => IndInv
  <1> SUFFICES ASSUME Init PROVE IndInv
    OBVIOUS
  <1>1. TypeOK
    BY InitTypeOK
  <1>2. /\ Len(running) = 0 /\ ToSet(running) = {} /\ ToSet(timedOut) = {}
        /\ IsInjective(running) /\ IsInjective(timedOut)
    BY DEF Init, ToSet, IsInjective
  <1>3. QueueBound /\ IteratorValid /\ Bookkeeping
    BY <1>2, ConstantsAssumption DEF Init, QueueBound, IteratorValid, Bookkeeping
  <1>4. CompletedOnce
    BY <1>2, ConstantsAssumption
    DEF Init, CompletedOnce, InRunning, InTimedOut, Called, Enqueued
  <1>5. GiveUpExhausted
    BY <1>2, ConstantsAssumption DEF Init, GiveUpExhausted, InTimedOut
  <1> QED
    BY <1>1, <1>3, <1>4, <1>5 DEF IndInv

\* A step that changes none of the variables of the invariants keeps them.
LEMMA UnchangedIndInv ==
    ASSUME IndInv, TypeOK',
           UNCHANGED <<running, nTx, tpc, it, timedOut, rx, delivered>>,
           \A r \in Requests : Enqueued(r)' = Enqueued(r)
    PROVE  IndInv'
  BY DEF IndInv, QueueBound, IteratorValid, CompletedOnce, GiveUpExhausted,
         Bookkeeping, InRunning, InTimedOut, Called

\* A command is enqueued, or refused.
LEMMA SendCommandLongIndInv ==
    ASSUME IndInv, TypeOK', NEW r \in Requests, SendCommandLong(r)
    PROVE  IndInv'
  <1> USE DEF IndInv
  <1>1. TypeOK /\ ~Enqueued(r)
    BY DEF SendCommandLong, Enqueued
  <1>2. UNCHANGED <<tpc, it, timedOut, rx, delivered>>
    BY DEF SendCommandLong
  <1>3. CASE QueueFull
    <2>1. UNCHANGED <<running, nTx>> /\ caller' = [caller EXCEPT
              ![r] = IF r \in Blocking THEN "QUEUE_FULL" ELSE "false"]
      BY <1>3 DEF SendCommandLong
    <2>2. \A q \in Requests : Enqueued(q)' = Enqueued(q)
      BY <1>1, <2>1 DEF Enqueued, TypeOK
    <2> QED
      BY <1>2, <2>1, <2>2, UnchangedIndInv
  <1>4. CASE ~QueueFull
    <2>1. /\ running' = Append(running, r)
          /\ caller' = [caller EXCEPT ![r] = IF r \in Blocking THEN "waiting" ELSE "true"]
          /\ send_command(r)
      BY <1>4 DEF SendCommandLong
    <2>2. \A q \in Requests : Enqueued(q)' = (Enqueued(q) \/ q = r)
      BY <1>1, <2>1 DEF Enqueued, TypeOK
    <2>3. nTx'[r] = nTx[r] + 1 /\ \A q \in Requests \ {r} : nTx'[q] = nTx[q]
      BY <1>1, <2>1, SendCommandFacts
    <2>4. r \notin ToSet(running) /\ r \notin ToSet(timedOut) /\ rx # r /\ ~Called(r)
      BY <1>1 DEF CompletedOnce, InRunning, InTimedOut
    <2>5. IsInjective(running') /\ ToSet(running') = ToSet(running) \cup {r}
      BY <1>1, <2>1, <2>4, AppendDistinct DEF CompletedOnce, TypeOK
    <2>6. Len(running') = Len(running) + 1
      BY <1>1, <2>1, AppendProperties DEF TypeOK
    <2>7. QueueBound' /\ IteratorValid'
      BY <1>1, <1>2, <1>4, <2>6, ConstantsAssumption
      DEF QueueBound, QueueFull, IteratorValid, TypeOK, SendCommandLong, MutexFree
    <2>8. CompletedOnce'
      BY <1>2, <2>2, <2>4, <2>5 DEF CompletedOnce, InRunning, InTimedOut, Called
    <2>9. GiveUpExhausted'
      <3>1. nTx'[r] = 1 /\ 1 <= Wanted[r]
        BY <1>1, <2>3, ConstantsAssumption DEF Bookkeeping
      <3>2. ~InTimedOut(r)' /\ delivered'[r] = <<>>
        BY <1>2, <2>4 DEF InTimedOut, Called
      <3>3. ASSUME NEW q \in Requests, q # r
            PROVE  /\ nTx'[q] <= Wanted[q]
                   /\ InTimedOut(q)' \/ delivered'[q] = <<"no_ack">> => nTx'[q] = Wanted[q]
        BY <1>2, <2>3, <3>3 DEF GiveUpExhausted, InTimedOut
      <3>4. <<>> # <<"no_ack">>
        OBVIOUS
      <3> QED
        BY <3>1, <3>2, <3>3, <3>4 DEF GiveUpExhausted
    <2>10. Bookkeeping'
      BY <1>2, <2>2, <2>3 DEF Bookkeeping
    <2> QED
      BY <2>7, <2>8, <2>9, <2>10
  <1> QED
    BY <1>3, <1>4

\* handle_cmd_ack takes the acknowledged command out of the list.
LEMMA HandleCmdAckIndInv ==
    ASSUME IndInv, TypeOK', NEW ack \in acks, HandleCmdAck(ack)
    PROVE  IndInv'
  <1> USE DEF IndInv
  <1>1. PICK i \in 1..Len(running) : rx' = running[i] /\ running' = RemoveAt(running, i)
    BY DEF HandleCmdAck
  <1>2. /\ rx = None /\ UNCHANGED <<caller, nTx, tpc, it, timedOut, delivered>>
        /\ tpc # "scan"
    BY DEF HandleCmdAck, MutexFree
  <1>3. TypeOK /\ running[i] \in Requests /\ InRunning(running[i])
    <2>1. DOMAIN running = 1..Len(running) /\ running[i] \in Requests
      BY DEF TypeOK
    <2> QED
      BY <2>1 DEF InRunning, ToSet
  <1>4. /\ IsInjective(running') /\ ToSet(running') = ToSet(running) \ {running[i]}
        /\ Len(running') = Len(running) - 1
    BY <1>1, <1>3, RemoveAtFacts, RemoveAtDistinct DEF CompletedOnce, TypeOK
  <1>5. QueueBound' /\ IteratorValid'
    BY <1>2, <1>3, <1>4, ConstantsAssumption DEF QueueBound, IteratorValid, TypeOK
  <1>6. CompletedOnce'
    BY <1>1, <1>2, <1>3, <1>4, ConstantsAssumption
    DEF CompletedOnce, InRunning, InTimedOut, Called, Enqueued
  <1>7. GiveUpExhausted' /\ Bookkeeping'
    BY <1>2 DEF GiveUpExhausted, Bookkeeping, InTimedOut, Enqueued
  <1> QED
    BY <1>5, <1>6, <1>7

\* ... and calls its callback.
LEMMA HandleCmdAckCallbackIndInv ==
    ASSUME IndInv, TypeOK', HandleCmdAckCallback
    PROVE  IndInv'
  <1> USE DEF IndInv
  <1>1. /\ rx \in Requests /\ rx' = None
        /\ delivered' = [delivered EXCEPT ![rx] = Append(@, rxResult)]
        /\ UNCHANGED <<caller, running, nTx, tpc, it, timedOut>>
    BY DEF HandleCmdAckCallback, TypeOK
  <1>2. delivered[rx] = <<>>
    BY <1>1 DEF CompletedOnce, Called
  <1>3. /\ delivered'[rx] = <<rxResult>>
        /\ \A q \in Requests \ {rx} : delivered'[q] = delivered[q]
    BY <1>1, <1>2 DEF TypeOK
  <1>4. Len(delivered'[rx]) = 1 /\ delivered'[rx] # <<>> /\ delivered'[rx] # <<"no_ack">>
    BY <1>3 DEF TypeOK, AckResults
  <1>5. CompletedOnce'
    BY <1>1, <1>2, <1>3, <1>4, ConstantsAssumption
    DEF CompletedOnce, InRunning, InTimedOut, Called, Enqueued
  <1>6. GiveUpExhausted'
    BY <1>1, <1>3, <1>4 DEF GiveUpExhausted, InTimedOut
  <1>7. QueueBound' /\ IteratorValid' /\ Bookkeeping'
    BY <1>1 DEF QueueBound, IteratorValid, Bookkeeping, Enqueued
  <1> QED
    BY <1>5, <1>6, <1>7

\* The timeout scan retransmits a command.
LEMMA ScanRetransmitIndInv ==
    ASSUME IndInv, TypeOK', ScanRetransmit
    PROVE  IndInv'
  <1> USE DEF IndInv
  <1> DEFINE r == running[it]
  <1>1. /\ it \in 1..Len(running) /\ nTx[r] < Wanted[r] /\ send_command(r)
        /\ it' = Successor(it, Len(running))
        /\ UNCHANGED <<caller, running, tpc, timedOut, rx, delivered>>
    BY DEF ScanRetransmit, TypeOK
  <1>2. TypeOK /\ r \in Requests /\ InRunning(r)
    <2>1. running \in Seq(Requests) /\ it \in 1..Len(running)
      BY <1>1 DEF TypeOK
    <2>2. DOMAIN running = 1..Len(running) /\ r \in Requests
      BY <2>1
    <2>3. InRunning(r)
      BY <2>1, <2>2 DEF InRunning, ToSet
    <2> QED
      BY <2>2, <2>3
  <1> HIDE DEF r
  <1>3. nTx'[r] = nTx[r] + 1 /\ \A q \in Requests \ {r} : nTx'[q] = nTx[q]
    BY <1>1, <1>2, SendCommandFacts
  <1>4. QueueBound' /\ CompletedOnce'
    BY <1>1 DEF QueueBound, CompletedOnce, InRunning, InTimedOut, Called, Enqueued
  <1>5. IteratorValid'
    BY <1>1, <1>2, SuccessorFacts DEF IteratorValid, TypeOK
  <1>6. ~InTimedOut(r) /\ ~Called(r) /\ Enqueued(r)
    BY <1>2 DEF CompletedOnce
  <1>7. nTx[r] \in Nat /\ Wanted[r] \in Nat
    BY <1>2, ConstantsAssumption DEF TypeOK
  <1>8. GiveUpExhausted'
    BY <1>1, <1>2, <1>3, <1>6, <1>7 DEF GiveUpExhausted, InTimedOut, Called
  <1>9. Bookkeeping'
    BY <1>1, <1>3, <1>6 DEF Bookkeeping, Enqueued
  <1> QED
    BY <1>4, <1>5, <1>8, <1>9

\* The timeout scan gives a command up.
LEMMA ScanGiveUpIndInv ==
    ASSUME IndInv, TypeOK', ScanGiveUp
    PROVE  IndInv'
  <1> USE DEF IndInv
  <1> DEFINE r == running[it]
  <1>1. /\ it \in 1..Len(running) /\ nTx[r] >= Wanted[r]
        /\ timedOut' = Append(timedOut, r) /\ running' = RemoveAt(running, it)
        /\ it' = Successor(it, Len(running) - 1) /\ tpc = "scan"
        /\ UNCHANGED <<caller, nTx, tpc, rx, delivered>>
    BY DEF ScanGiveUp, TypeOK
  <1>2. TypeOK /\ r \in Requests /\ InRunning(r)
    <2>1. running \in Seq(Requests) /\ it \in 1..Len(running)
      BY <1>1 DEF TypeOK
    <2>2. DOMAIN running = 1..Len(running) /\ r \in Requests
      BY <2>1
    <2>3. InRunning(r)
      BY <2>1, <2>2 DEF InRunning, ToSet
    <2> QED
      BY <2>2, <2>3
  <1>3. /\ IsInjective(running') /\ ToSet(running') = ToSet(running) \ {r}
        /\ Len(running') = Len(running) - 1
    BY <1>1, <1>2, RemoveAtFacts, RemoveAtDistinct DEF CompletedOnce, TypeOK
  <1>4. IsInjective(timedOut') /\ ToSet(timedOut') = ToSet(timedOut) \cup {r}
    BY <1>1, <1>2, AppendDistinct DEF CompletedOnce, InTimedOut, TypeOK
  <1> HIDE DEF r
  <1>5. QueueBound'
    BY <1>1, <1>2, <1>3, ConstantsAssumption DEF QueueBound, TypeOK
  <1>6. IteratorValid'
    <2>1. Len(running) - 1 \in Nat /\ it <= (Len(running) - 1) + 1 /\ it \in Nat \ {0}
      BY <1>1, <1>2 DEF TypeOK
    <2>2. Successor(it, Len(running) - 1) <= (Len(running) - 1) + 1
      BY <2>1, SuccessorFacts
    <2> QED
      BY <1>1, <1>3, <2>2 DEF IteratorValid
  <1>7. CompletedOnce'
    BY <1>1, <1>2, <1>3, <1>4
    DEF CompletedOnce, InRunning, InTimedOut, Called, Enqueued
  <1>8. nTx[r] = Wanted[r]
    BY <1>1, <1>2, ConstantsAssumption DEF GiveUpExhausted, TypeOK
  <1>9. GiveUpExhausted'
    BY <1>1, <1>4, <1>8 DEF GiveUpExhausted, InTimedOut
  <1>10. Bookkeeping'
    BY <1>1 DEF Bookkeeping, Enqueued
  <1> QED
    BY <1>5, <1>6, <1>7, <1>9, <1>10

\* The timeout thread calls the callback of a command it gave up.
LEMMA TimeoutCallbackIndInv ==
    ASSUME IndInv, TypeOK', TimeoutCallback
    PROVE  IndInv'
  <1> USE DEF IndInv
  <1> DEFINE r == Head(timedOut)
  <1>1. /\ timedOut # <<>> /\ timedOut' = Tail(timedOut) /\ tpc = "callbacks"
        /\ delivered' = [delivered EXCEPT ![r] = Append(@, "no_ack")]
        /\ UNCHANGED <<caller, running, nTx, tpc, it, rx>>
    BY DEF TimeoutCallback
  <1>2. /\ TypeOK /\ r \in Requests /\ InTimedOut(r)
        /\ IsInjective(timedOut') /\ ToSet(timedOut') = ToSet(timedOut) \ {r}
    BY <1>1, TailDistinct, HeadTailProperties DEF TypeOK, InTimedOut, CompletedOnce
  <1> HIDE DEF r
  <1>3. delivered[r] = <<>> /\ ~InRunning(r) /\ rx # r
    BY <1>2 DEF CompletedOnce, Called
  <1>4. /\ delivered'[r] = <<"no_ack">>
        /\ \A q \in Requests \ {r} : delivered'[q] = delivered[q]
    BY <1>1, <1>2, <1>3 DEF TypeOK
  <1>5. Len(delivered'[r]) = 1 /\ delivered'[r] # <<>>
    BY <1>4
  <1>6. CompletedOnce'
    BY <1>1, <1>2, <1>3, <1>4, <1>5
    DEF CompletedOnce, InRunning, InTimedOut, Called, Enqueued
  <1>7. GiveUpExhausted'
    BY <1>1, <1>2, <1>4 DEF GiveUpExhausted, InTimedOut
  <1>8. QueueBound' /\ IteratorValid' /\ Bookkeeping'
    BY <1>1 DEF QueueBound, IteratorValid, Bookkeeping, Enqueued
  <1> QED
    BY <1>6, <1>7, <1>8

\* Every step keeps the invariant: the lemmas above, action by action.
LEMMA NextIndInv == IndInv /\ [Next]_vars => IndInv'
  <1> SUFFICES ASSUME IndInv, [Next]_vars PROVE IndInv'
    OBVIOUS
  <1>0. TypeOK'
    BY NextTypeOK DEF IndInv
  <1>1. ASSUME NEW r \in Requests, SendCommandLong(r) PROVE IndInv'
    BY <1>0, <1>1, SendCommandLongIndInv
  <1>2. ASSUME NEW r \in Requests, BlockingReturn(r) PROVE IndInv'
    <2>1. \A q \in Requests : Enqueued(q)' = Enqueued(q)
      BY <1>2 DEF BlockingReturn, BlockingResult, Enqueued, IndInv, TypeOK
    <2> QED
      BY <1>0, <1>2, <2>1, UnchangedIndInv DEF BlockingReturn
  <1>3. ASSUME NEW r \in Requests, Elapse(r) PROVE IndInv'
    BY <1>0, <1>3, UnchangedIndInv DEF Elapse, Enqueued
  <1>4. ASSUME NEW r \in Requests, NEW answer \in AckResults,
               RecipientAnswers(r, answer) PROVE IndInv'
    BY <1>0, <1>4, UnchangedIndInv DEF RecipientAnswers, Enqueued
  <1>5. ASSUME NEW c \in Foreign, NEW answer \in AckResults,
               OtherStationAnswered(c, answer) PROVE IndInv'
    BY <1>0, <1>5, UnchangedIndInv DEF OtherStationAnswered, Enqueued
  <1>6. ASSUME NEW ack \in acks, HandleCmdAck(ack) PROVE IndInv'
    BY <1>0, <1>6, HandleCmdAckIndInv
  <1>7. CASE HandleCmdAckCallback
    BY <1>0, <1>7, HandleCmdAckCallbackIndInv
  <1>8. CASE TimeoutWake
    <2>1. timedOut' = timedOut /\ it' = 1 /\ tpc' = "scan"
      BY <1>8 DEF TimeoutWake, IndInv, Bookkeeping
    <2>2. UNCHANGED <<caller, running, nTx, rx, delivered>>
      BY <1>8 DEF TimeoutWake
    <2>3. Len(running) \in Nat
      BY DEF IndInv, TypeOK
    <2> QED
      BY <1>0, <2>1, <2>2, <2>3
      DEF IndInv, QueueBound, IteratorValid, CompletedOnce, GiveUpExhausted,
          Bookkeeping, InRunning, InTimedOut, Called, Enqueued
  <1>9. CASE ScanSkip
    <2>1. it' <= Len(running) + 1
      BY <1>9, SuccessorFacts DEF ScanSkip, IndInv, TypeOK
    <2> QED
      BY <1>0, <1>9, <2>1
      DEF ScanSkip, IndInv, QueueBound, IteratorValid, CompletedOnce, GiveUpExhausted,
          Bookkeeping, InRunning, InTimedOut, Called, Enqueued
  <1>10. CASE ScanRetransmit
    BY <1>0, <1>10, ScanRetransmitIndInv
  <1>11. CASE ScanGiveUp
    BY <1>0, <1>11, ScanGiveUpIndInv
  <1>12. CASE ScanEnd
    BY <1>0, <1>12
    DEF ScanEnd, IndInv, QueueBound, IteratorValid, CompletedOnce, GiveUpExhausted,
        Bookkeeping, InRunning, InTimedOut, Called, Enqueued
  <1>13. CASE TimeoutCallback
    BY <1>0, <1>13, TimeoutCallbackIndInv
  <1>14. CASE TimeoutLoop
    BY <1>0, <1>14
    DEF TimeoutLoop, IndInv, QueueBound, IteratorValid, CompletedOnce, GiveUpExhausted,
        Bookkeeping, InRunning, InTimedOut, Called, Enqueued
  <1>15. CASE Terminate
    BY <1>0, <1>15, UnchangedIndInv DEF Terminate, Enqueued
  <1>16. CASE UNCHANGED vars
    BY <1>0, <1>16, UnchangedIndInv DEF vars, Enqueued
  <1> QED
    BY <1>1, <1>2, <1>3, <1>4, <1>5, <1>6, <1>7, <1>8, <1>9, <1>10, <1>11,
       <1>12, <1>13, <1>14, <1>15, <1>16 DEF Next, TimeoutThread

\* The inductive invariant holds in every reachable state.
LEMMA SpecIndInv == Spec => []IndInv
  BY InitIndInv, NextIndInv, PTL DEF Spec

\* For every set of requests and every queue limit: a command is in exactly one
\* of the hands that may complete it, so its callback is called at most once
\* and no command is lost between the threads.
THEOREM CommandsCompleteOnce == Spec => []CompletedOnce
  <1>1. IndInv => CompletedOnce
    BY DEF IndInv
  <1> QED
    BY <1>1, SpecIndInv, PTL

\* The list of running commands respects its limit.
THEOREM QueueIsBounded == Spec => []QueueBound
  <1>1. IndInv => QueueBound
    BY DEF IndInv
  <1> QED
    BY <1>1, SpecIndInv, PTL

\* A command is given up only after all its transmissions, and never sent more
\* often than its caller wanted.
THEOREM GivingUpIsExhausted == Spec => []GiveUpExhausted
  <1>1. IndInv => GiveUpExhausted
    BY DEF IndInv
  <1> QED
    BY <1>1, SpecIndInv, PTL

\* Erasing under the iterator of handle_timeout leaves it inside the list.
THEOREM IteratorStaysValid == Spec => []IteratorValid
  <1>1. IndInv => IteratorValid
    BY DEF IndInv
  <1> QED
    BY <1>1, SpecIndInv, PTL

-----------------------------------------------------------------------------
(***************************************************************************)
(* What callers are told.  An ack for us that says "accepted" stays on the *)
(* link, and its result in the receive thread's hands, so both are part of *)
(* the invariant.                                                          *)
(***************************************************************************)
AckIsTrue(r) ==
    \A ack \in acks :
        ack.to = "self" /\ ack.result = "accepted" /\ ack.command = CommandId[r] => r \in executed

ToldTheTruth(r) ==
    /\ AckIsTrue(r)
    /\ rx = r /\ rxResult = "accepted" => r \in executed
    /\ delivered[r] = <<"accepted">> => r \in executed

TruthInv == \A r \in Unshared : ToldTheTruth(r)

\* No command was executed and none was accepted.
LEMMA InitTruthInv == Init => TruthInv
  BY ConstantsAssumption DEF Init, TruthInv, ToldTheTruth, AckIsTrue, Unshared

\* Every step keeps the meaning of an acceptance.
LEMMA NextTruthInv ==
    ASSUME IndInv, TruthInv, [Next]_vars
    PROVE  TruthInv'
  <1> SUFFICES ASSUME NEW r \in Unshared PROVE ToldTheTruth(r)'
    BY DEF TruthInv, Unshared
  <1>0. ToldTheTruth(r) /\ r \in Requests /\ TypeOK
    BY DEF TruthInv, Unshared, IndInv
  <1>1. ASSUME NEW q \in Requests, NEW answer \in AckResults, RecipientAnswers(q, answer)
        PROVE  ToldTheTruth(r)'
    <2>1. UNCHANGED <<rx, rxResult, delivered>> /\ executed \subseteq executed'
      BY <1>1 DEF RecipientAnswers
    <2>2. ASSUME NEW ack \in acks', ack.to = "self", ack.result = "accepted",
                 ack.command = CommandId[r]
          PROVE  r \in executed'
      <3>1. CASE ack \in acks
        BY <1>0, <2>1, <2>2, <3>1 DEF ToldTheTruth, AckIsTrue
      <3>2. CASE ack = [command |-> CommandId[q], to |-> "self", result |-> answer]
        <4>1. q = r /\ answer = "accepted"
          BY <2>2, <3>2 DEF Unshared
        <4> QED
          BY <1>1, <4>1 DEF RecipientAnswers
      <3> QED
        BY <1>1, <2>2, <3>1, <3>2 DEF RecipientAnswers
    <2> QED
      BY <1>0, <2>1, <2>2 DEF ToldTheTruth, AckIsTrue
  <1>2. ASSUME NEW c \in Foreign, NEW answer \in AckResults, OtherStationAnswered(c, answer)
        PROVE  ToldTheTruth(r)'
    <2>1. UNCHANGED <<rx, rxResult, delivered, executed>>
      BY <1>2 DEF OtherStationAnswered
    <2>2. \A ack \in acks' : ack.to = "self" => ack \in acks
      BY <1>2 DEF OtherStationAnswered
    <2> QED
      BY <1>0, <2>1, <2>2 DEF ToldTheTruth, AckIsTrue
  <1>3. ASSUME NEW ack \in acks, HandleCmdAck(ack) PROVE ToldTheTruth(r)'
    <2>1. /\ ack.to = "self" /\ rxResult' = ack.result /\ CommandId[rx'] = ack.command
          /\ UNCHANGED <<delivered, acks, executed>>
      BY <1>3 DEF HandleCmdAck, ForUs, IsFirstMatch
    <2> QED
      BY <1>0, <2>1 DEF ToldTheTruth, AckIsTrue
  <1>4. CASE HandleCmdAckCallback
    <2>1. /\ rx \in Requests /\ rx' = None /\ UNCHANGED <<rxResult, acks, executed>>
          /\ delivered' = [delivered EXCEPT ![rx] = Append(@, rxResult)]
      BY <1>0, <1>4 DEF HandleCmdAckCallback, TypeOK
    <2>2. rx' # r
      BY <1>0, <2>1, ConstantsAssumption
    <2>3. CASE rx = r
      <3>1. delivered[r] = <<>>
        BY <1>0, <2>3 DEF IndInv, CompletedOnce, Called
      <3>2. delivered'[r] = <<rxResult>>
        BY <1>0, <2>1, <2>3, <3>1 DEF TypeOK
      <3>3. delivered'[r] = <<"accepted">> => rxResult = "accepted"
        BY <3>2
      <3> QED
        BY <1>0, <2>1, <2>2, <2>3, <3>3 DEF ToldTheTruth, AckIsTrue
    <2>4. CASE rx # r
      <3>1. delivered'[r] = delivered[r]
        BY <1>0, <2>1, <2>4 DEF TypeOK
      <3> QED
        BY <1>0, <2>1, <2>2, <3>1 DEF ToldTheTruth, AckIsTrue
    <2> QED
      BY <2>3, <2>4
  <1>5. CASE TimeoutCallback
    <2>1. /\ UNCHANGED <<rx, rxResult, acks, executed>>
          /\ delivered' = [delivered EXCEPT ![Head(timedOut)] = Append(@, "no_ack")]
          /\ timedOut # <<>> /\ timedOut \in Seq(Requests) /\ IsInjective(timedOut)
      BY <1>0, <1>5 DEF TimeoutCallback, TypeOK, IndInv, CompletedOnce
    <2>2. CASE Head(timedOut) = r
      <3>1. delivered[r] = <<>>
        <4>1. InTimedOut(r)
          BY <2>1, <2>2, TailDistinct DEF InTimedOut
        <4> QED
          BY <1>0, <4>1 DEF IndInv, CompletedOnce, Called
      <3>2. delivered'[r] = <<"no_ack">>
        <4>1. delivered' = [delivered EXCEPT ![r] = Append(@, "no_ack")]
          BY <2>1, <2>2
        <4>2. delivered \in [Requests -> Seq(Results)]
          BY <1>0 DEF TypeOK
        <4> QED
          BY <1>0, <3>1, <4>1, <4>2
      <3>3. <<"no_ack">> # <<"accepted">>
        OBVIOUS
      <3>4. delivered'[r] # <<"accepted">>
        BY <3>2, <3>3
      <3> QED
        BY <1>0, <2>1, <3>4 DEF ToldTheTruth, AckIsTrue
    <2>3. CASE Head(timedOut) # r
      <3>1. delivered'[r] = delivered[r]
        BY <1>0, <2>1, <2>3 DEF TypeOK
      <3> QED
        BY <1>0, <2>1, <3>1 DEF ToldTheTruth, AckIsTrue
    <2> QED
      BY <2>2, <2>3
  <1>6. CASE UNCHANGED <<rx, rxResult, delivered, acks, executed>>
    BY <1>0, <1>6 DEF ToldTheTruth, AckIsTrue
  <1>7. ASSUME NEW q \in Requests, SendCommandLong(q) \/ BlockingReturn(q) \/ Elapse(q)
        PROVE  ToldTheTruth(r)'
    BY <1>6, <1>7 DEF SendCommandLong, BlockingReturn, Elapse
  <1>8. CASE TimeoutWake \/ ScanSkip \/ ScanRetransmit \/ ScanGiveUp \/ ScanEnd \/ TimeoutLoop
             \/ Terminate \/ UNCHANGED vars
    BY <1>6, <1>8 DEF TimeoutWake, ScanSkip, ScanRetransmit, ScanGiveUp, ScanEnd, TimeoutLoop,
                      Terminate, vars
  <1> QED
    BY <1>1, <1>2, <1>3, <1>4, <1>5, <1>7, <1>8 DEF Next, TimeoutThread

\* For every set of requests, recipients and other ground stations: a command that
\* is reported as accepted was accepted by its own recipient, if its id is not
\* shared (handle_cmd_ack, cmdsender.cpp:107-121).
THEOREM AcceptedIsTrue == Spec => []AcceptedWasExecuted
  <1>1. IndInv /\ TruthInv /\ [Next]_vars => TruthInv'
    BY NextTruthInv
  <1>2. TruthInv => AcceptedWasExecuted
    BY DEF TruthInv, ToldTheTruth, AcceptedWasExecuted
  <1> QED
    BY <1>1, <1>2, InitTruthInv, SpecIndInv, PTL DEF Spec

-----------------------------------------------------------------------------
(***************************************************************************)
(* CmdSender implements RequestQueue: every step of the callers, the       *)
(* receive thread and the timeout thread is a step of the abstract queue,  *)
(* or none.                                                                *)
(***************************************************************************)

\* The variable of RequestQueue, as CmdSender implements it.
phases == [r \in Requests |-> Phase(r)]

-----------------------------------------------------------------------------
(* The phase of a request                                                  *)

\* Where a request is decides its phase: the hands CompletedOnce separates are
\* the phases of the abstract queue.
PlaceIsPhase(r) ==
    /\ caller[r] = "idle" => Phase(r) = "idle"
    /\ caller[r] \in {"false", "QUEUE_FULL"} => Phase(r) = "refused"
    /\ InRunning(r) <=> Phase(r) = "queued"
    /\ InTimedOut(r) => Phase(r) = "exhausted"
    /\ rx = r => Phase(r) = "answered"
    /\ delivered[r] = <<"no_ack">> => Phase(r) = "cb_exhausted"
    /\ Called(r) /\ delivered[r] # <<"no_ack">> => Phase(r) = "cb_answered"

\* The place of a command determines its phase in the abstract queue.
LEMMA PhaseOf == IndInv => \A r \in Requests : PlaceIsPhase(r)
  <1> SUFFICES ASSUME IndInv, NEW r \in Requests PROVE PlaceIsPhase(r)
    OBVIOUS
  <1>1. /\ InRunning(r)  => Enqueued(r) /\ ~InTimedOut(r) /\ rx # r /\ ~Called(r)
        /\ InTimedOut(r) => Enqueued(r) /\ ~InRunning(r) /\ rx # r /\ ~Called(r)
        /\ rx = r        => Enqueued(r) /\ ~InRunning(r) /\ ~InTimedOut(r) /\ ~Called(r)
        /\ Called(r)     => Enqueued(r) /\ ~InRunning(r) /\ ~InTimedOut(r) /\ rx # r
    BY DEF IndInv, CompletedOnce
  <1>2. Enqueued(r) <=> caller[r] \notin {"idle", "false", "QUEUE_FULL"}
    BY DEF Enqueued
  <1>3. delivered[r] = <<"no_ack">> => Called(r)
    BY DEF Called
  <1> USE DEF PlaceIsPhase
  <1>4. CASE ~Enqueued(r)
    <2>1. /\ ~InRunning(r) /\ ~InTimedOut(r) /\ rx # r /\ ~Called(r)
          /\ delivered[r] # <<"no_ack">>
      BY <1>1, <1>3, <1>4
    <2>2. CASE caller[r] = "idle"
      <3>1. Phase(r) = "idle"
        BY <2>1, <2>2 DEF Phase
      <3> QED
        BY <2>1, <2>2, <3>1
    <2>3. CASE caller[r] \in {"false", "QUEUE_FULL"}
      <3>1. Phase(r) = "refused"
        BY <2>1, <2>3 DEF Phase
      <3> QED
        BY <2>1, <2>3, <3>1
    <2> QED
      BY <1>2, <1>4, <2>2, <2>3
  <1>5. CASE Enqueued(r)
    <2>1. caller[r] # "idle" /\ caller[r] \notin {"false", "QUEUE_FULL"}
      BY <1>2, <1>5
    <2>2. InRunning(r) => Phase(r) = "queued"
      BY <1>1, <1>3, <2>1 DEF Phase
    <2>3. InTimedOut(r) => Phase(r) = "exhausted"
      BY <1>1, <1>3, <2>1 DEF Phase
    <2>4. rx = r => Phase(r) = "answered"
      BY <1>1, <1>3, <2>1 DEF Phase
    <2>5. delivered[r] = <<"no_ack">> => Phase(r) = "cb_exhausted"
      BY <1>1, <1>3, <2>1 DEF Phase
    <2>6. Called(r) /\ delivered[r] # <<"no_ack">> => Phase(r) = "cb_answered"
      BY <1>1, <2>1 DEF Phase
    <2>7. InRunning(r) \/ InTimedOut(r) \/ rx = r \/ Called(r)
      BY <1>5 DEF IndInv, CompletedOnce
    <2> QED
      BY <1>1, <2>1, <2>2, <2>3, <2>4, <2>5, <2>6, <2>7
  <1> QED
    BY <1>4, <1>5

\* ... and so it is after a step.
LEMMA PhaseOfNext == IndInv' => \A r \in Requests : PlaceIsPhase(r)'
  <1>1. (IndInv => \A r \in Requests : PlaceIsPhase(r))'
    BY PhaseOf, PTL
  <1> QED
    BY <1>1

\* A request whose place does not change keeps its phase.
LEMMA SamePhase ==
    ASSUME NEW r \in Requests,
           caller'[r] = caller[r] \/ (Enqueued(r) /\ Enqueued(r)'),
           InRunning(r)' = InRunning(r), InTimedOut(r)' = InTimedOut(r),
           (rx' = r) = (rx = r), delivered'[r] = delivered[r]
    PROVE  Phase(r)' = Phase(r)
  <1>1. /\ (caller'[r] = "idle") = (caller[r] = "idle")
        /\ (caller'[r] \in {"false", "QUEUE_FULL"}) = (caller[r] \in {"false", "QUEUE_FULL"})
    BY DEF Enqueued
  <1> QED
    BY <1>1 DEF Phase

\* RequestQueue counts with its own instance of FiniteSets.
LEMMA SameCardinality == \A S : Abstract!Cardinality(S) = Cardinality(S)
  BY DEF Abstract!Cardinality, Cardinality

\* The queued requests of RequestQueue are the running commands.
LEMMA QueuedAreRunning ==
    ASSUME IndInv
    PROVE  Abstract!Cardinality(Abstract!Queued) = Len(running)
  <1>1. running \in Seq(Requests) /\ IsInjective(running)
    BY DEF IndInv, TypeOK, CompletedOnce
  <1>2. ToSet(running) \subseteq Requests
    BY <1>1 DEF ToSet
  <1>3. \A r \in Requests : phases[r] = "queued" <=> r \in ToSet(running)
    BY PhaseOf DEF PlaceIsPhase, phases, InRunning
  <1>4. {r \in Requests : phases[r] = "queued"} = ToSet(running)
    BY <1>2, <1>3
  <1>5. Abstract!Queued = ToSet(running)
    BY <1>4 DEF Abstract!Queued, phases
  <1> QED
    BY <1>1, <1>5, DistinctCardinality, SameCardinality

\* A step that moves one request from phase to phase, and no other.
LEMMA OneMoves ==
    ASSUME NEW r \in Requests, NEW q, Phase(r)' = q,
           \A s \in Requests \ {r} : Phase(s)' = Phase(s)
    PROVE  phases' = [phases EXCEPT ![r] = q]
  BY DEF phases

\* A step that moves none.
LEMMA NoneMoves ==
    ASSUME \A s \in Requests : Phase(s)' = Phase(s)
    PROVE  phases' = phases
  BY DEF phases

-----------------------------------------------------------------------------
(* Every step is a step of the abstract queue, or none                     *)

\* A caller hands a command over: accepted while there is room, or refused.
LEMMA SendCommandLongRefines ==
    ASSUME IndInv, IndInv', NEW r \in Requests, SendCommandLong(r)
    PROVE  Abstract!Accept(r) \/ Abstract!Refuse(r)
  <1>1. caller[r] = "idle" /\ phases[r] = "idle"
    BY PhaseOf DEF SendCommandLong, PlaceIsPhase, phases
  <1>2. TypeOK /\ ~Enqueued(r) /\ r \notin ToSet(running)
    BY <1>1 DEF IndInv, CompletedOnce, Enqueued, InRunning
  <1>3. UNCHANGED <<timedOut, rx, delivered>>
    BY DEF SendCommandLong
  <1>4. CASE QueueFull
    <2>1. running' = running /\ caller' = [caller EXCEPT
              ![r] = IF r \in Blocking THEN "QUEUE_FULL" ELSE "false"]
      BY <1>4 DEF SendCommandLong
    <2>2. caller'[r] \in {"false", "QUEUE_FULL"} /\ \A s \in Requests \ {r} : caller'[s] = caller[s]
      BY <1>2, <2>1 DEF TypeOK
    <2>3. Phase(r)' = "refused"
      BY <2>2, PhaseOfNext DEF PlaceIsPhase
    <2>4. \A s \in Requests \ {r} : Phase(s)' = Phase(s)
      BY <1>3, <2>1, <2>2, SamePhase DEF InRunning, InTimedOut
    <2>5. phases' = [phases EXCEPT ![r] = "refused"]
      BY <2>3, <2>4, OneMoves
    <2>6. Len(running) = MAX_N_SIMULTANOEUS_COMMANDS
      BY <1>2, <1>4, ConstantsAssumption DEF QueueFull, IndInv, QueueBound, TypeOK
    <2> QED
      BY <1>1, <2>5, <2>6, QueuedAreRunning DEF Abstract!Refuse, phases
  <1>5. CASE ~QueueFull
    <2>1. running' = Append(running, r) /\ caller' = [caller EXCEPT
              ![r] = IF r \in Blocking THEN "waiting" ELSE "true"]
      BY <1>5 DEF SendCommandLong
    <2>2. \A s \in Requests \ {r} : caller'[s] = caller[s]
      BY <1>2, <2>1 DEF TypeOK
    <2>3. ToSet(running') = ToSet(running) \cup {r}
      BY <1>2, <2>1, AppendDistinct DEF IndInv, CompletedOnce, TypeOK
    <2>4. Phase(r)' = "queued"
      <3>1. InRunning(r)'
        BY <2>3 DEF InRunning
      <3> QED
        BY <3>1, PhaseOfNext DEF PlaceIsPhase
    <2>5. ASSUME NEW s \in Requests \ {r} PROVE Phase(s)' = Phase(s)
      BY <1>3, <2>2, <2>3, SamePhase DEF InRunning, InTimedOut
    <2>6. phases' = [phases EXCEPT ![r] = "queued"]
      BY <2>4, <2>5, OneMoves
    <2>7. Len(running) < MAX_N_SIMULTANOEUS_COMMANDS
      BY <1>2, <1>5, ConstantsAssumption DEF QueueFull, TypeOK
    <2> QED
      BY <1>1, <2>6, <2>7, QueuedAreRunning DEF Abstract!Accept, phases
  <1> QED
    BY <1>4, <1>5

\* An ack decides the command it takes out of the list.
LEMMA HandleCmdAckRefines ==
    ASSUME IndInv, IndInv', NEW ack \in acks, HandleCmdAck(ack)
    PROVE  \E r \in Requests : Abstract!Decide(r)
  <1>1. PICK i \in 1..Len(running) : rx' = running[i] /\ running' = RemoveAt(running, i)
    BY DEF HandleCmdAck
  <1>2. rx = None /\ UNCHANGED <<caller, timedOut, delivered>>
    BY DEF HandleCmdAck
  <1>3. running \in Seq(Requests) /\ IsInjective(running)
    BY DEF IndInv, TypeOK, CompletedOnce
  <1>4. PICK r \in Requests : r = running[i]
    BY <1>3
  <1>5. InRunning(r) /\ ToSet(running') = ToSet(running) \ {r} /\ rx' = r
    <2>1. ToSet(running') = ToSet(running) \ {running[i]}
      BY <1>1, <1>3, RemoveAtDistinct
    <2>2. running[i] \in ToSet(running)
      BY <1>3 DEF ToSet
    <2> QED
      BY <1>1, <1>4, <2>1, <2>2 DEF InRunning
  <1>6. phases[r] = "queued"
    BY <1>5, PhaseOf DEF PlaceIsPhase, phases
  <1>7. Phase(r)' = "answered"
    BY <1>5, PhaseOfNext DEF PlaceIsPhase
  <1>8. ASSUME NEW s \in Requests \ {r} PROVE Phase(s)' = Phase(s)
    BY <1>2, <1>5, SamePhase, ConstantsAssumption DEF InRunning, InTimedOut
  <1>9. phases' = [phases EXCEPT ![r] = "answered"]
    BY <1>7, <1>8, OneMoves
  <1> QED
    BY <1>6, <1>9 DEF Abstract!Decide, phases

\* ... and its callback is called with that fate.
LEMMA HandleCmdAckCallbackRefines ==
    ASSUME IndInv, IndInv', HandleCmdAckCallback
    PROVE  \E r \in Requests : Abstract!Call(r)
  <1>1. PICK r \in Requests : r = rx
    BY DEF HandleCmdAckCallback, IndInv, TypeOK
  <1>2. /\ rx' = None /\ delivered' = [delivered EXCEPT ![r] = Append(@, rxResult)]
        /\ UNCHANGED <<caller, running, timedOut>>
    BY <1>1 DEF HandleCmdAckCallback
  <1>3. delivered[r] = <<>> /\ delivered \in [Requests -> Seq(Results)] /\ rxResult \in AckResults
    BY <1>1 DEF IndInv, TypeOK, CompletedOnce, Called
  <1>4. /\ delivered'[r] = <<rxResult>>
        /\ \A s \in Requests \ {r} : delivered'[s] = delivered[s]
    BY <1>2, <1>3
  <1>5. Called(r)' /\ delivered'[r] # <<"no_ack">>
    BY <1>3, <1>4 DEF Called, AckResults
  <1>6. phases[r] = "answered"
    BY <1>1, PhaseOf DEF PlaceIsPhase, phases
  <1>7. Phase(r)' = "cb_answered"
    BY <1>5, PhaseOfNext DEF PlaceIsPhase
  <1>8. ASSUME NEW s \in Requests \ {r} PROVE Phase(s)' = Phase(s)
    BY <1>1, <1>2, <1>4, SamePhase, ConstantsAssumption DEF InRunning, InTimedOut
  <1>9. phases' = [phases EXCEPT ![r] = "cb_answered"]
    BY <1>7, <1>8, OneMoves
  <1> QED
    BY <1>6, <1>9 DEF Abstract!Call, phases

\* The timeout scan decides the command it gives up.
LEMMA ScanGiveUpRefines ==
    ASSUME IndInv, IndInv', ScanGiveUp
    PROVE  \E r \in Requests : Abstract!Decide(r)
  <1>1. /\ it \in 1..Len(running) /\ running' = RemoveAt(running, it)
        /\ timedOut' = Append(timedOut, running[it])
        /\ UNCHANGED <<caller, rx, delivered>>
    BY DEF ScanGiveUp, IndInv, TypeOK
  <1>2. /\ running \in Seq(Requests) /\ IsInjective(running)
        /\ timedOut \in Seq(Requests) /\ IsInjective(timedOut)
    BY DEF IndInv, TypeOK, CompletedOnce
  <1>3. PICK r \in Requests : r = running[it]
    BY <1>1, <1>2
  <1>4. InRunning(r) /\ ToSet(running') = ToSet(running) \ {r}
    <2>1. ToSet(running') = ToSet(running) \ {running[it]}
      BY <1>1, <1>2, RemoveAtDistinct
    <2>2. running[it] \in ToSet(running)
      BY <1>1, <1>2 DEF ToSet
    <2> QED
      BY <1>3, <2>1, <2>2 DEF InRunning
  <1>5. ToSet(timedOut') = ToSet(timedOut) \cup {r}
    <2>1. r \notin ToSet(timedOut)
      BY <1>4 DEF IndInv, CompletedOnce, InTimedOut
    <2> QED
      BY <1>1, <1>2, <1>3, <2>1, AppendDistinct
  <1>6. phases[r] = "queued"
    BY <1>4, PhaseOf DEF PlaceIsPhase, phases
  <1>7. InTimedOut(r)'
    BY <1>5 DEF InTimedOut
  <1>8. Phase(r)' = "exhausted"
    BY <1>7, PhaseOfNext DEF PlaceIsPhase
  <1>9. ASSUME NEW s \in Requests \ {r} PROVE Phase(s)' = Phase(s)
    BY <1>1, <1>4, <1>5, SamePhase DEF InRunning, InTimedOut
  <1>10. phases' = [phases EXCEPT ![r] = "exhausted"]
    BY <1>8, <1>9, OneMoves
  <1> QED
    BY <1>6, <1>10 DEF Abstract!Decide, phases

\* ... and its callback is called with that fate.
LEMMA TimeoutCallbackRefines ==
    ASSUME IndInv, IndInv', TimeoutCallback
    PROVE  \E r \in Requests : Abstract!Call(r)
  <1>1. /\ timedOut # <<>> /\ timedOut' = Tail(timedOut)
        /\ timedOut \in Seq(Requests) /\ IsInjective(timedOut)
        /\ UNCHANGED <<caller, running, rx>>
    BY DEF TimeoutCallback, IndInv, TypeOK, CompletedOnce
  <1>2. PICK r \in Requests : r = Head(timedOut)
    BY <1>1, HeadTailProperties
  <1>3. InTimedOut(r) /\ ToSet(timedOut') = ToSet(timedOut) \ {r}
    BY <1>1, <1>2, TailDistinct DEF InTimedOut
  <1>4. delivered[r] = <<>> /\ delivered \in [Requests -> Seq(Results)]
    BY <1>3 DEF IndInv, TypeOK, CompletedOnce, Called
  <1>5. delivered' = [delivered EXCEPT ![r] = Append(@, "no_ack")]
    BY <1>2 DEF TimeoutCallback
  <1>6. /\ delivered'[r] = <<"no_ack">>
        /\ \A s \in Requests \ {r} : delivered'[s] = delivered[s]
    BY <1>4, <1>5
  <1>7. phases[r] = "exhausted"
    BY <1>3, PhaseOf DEF PlaceIsPhase, phases
  <1>8. Phase(r)' = "cb_exhausted"
    BY <1>6, PhaseOfNext DEF PlaceIsPhase
  <1>9. ASSUME NEW s \in Requests \ {r} PROVE Phase(s)' = Phase(s)
    BY <1>1, <1>3, <1>6, SamePhase DEF InRunning, InTimedOut
  <1>10. phases' = [phases EXCEPT ![r] = "cb_exhausted"]
    BY <1>8, <1>9, OneMoves
  <1> QED
    BY <1>7, <1>10 DEF Abstract!Call, phases

\* The other steps leave every request where it is.
LEMMA OthersStutter ==
    ASSUME UNCHANGED <<running, timedOut, rx, delivered>>,
           \A r \in Requests : caller'[r] = caller[r] \/ (Enqueued(r) /\ Enqueued(r)')
    PROVE  phases' = phases
  <1>1. ASSUME NEW r \in Requests PROVE Phase(r)' = Phase(r)
    BY SamePhase DEF InRunning, InTimedOut
  <1> QED
    BY <1>1, NoneMoves

\* Every step, thread by thread.
LEMMA NextRefines ==
    ASSUME IndInv, IndInv', [Next]_vars
    PROVE  [Abstract!Next]_phases
  <1>1. ASSUME NEW r \in Requests, SendCommandLong(r) PROVE Abstract!Next
    BY <1>1, SendCommandLongRefines DEF Abstract!Next
  <1>2. ASSUME NEW r \in Requests, BlockingReturn(r) PROVE phases' = phases
    <2>1. caller[r] = "waiting" /\ caller' = [caller EXCEPT ![r] = BlockingResult(Head(delivered[r]))]
      BY <1>2 DEF BlockingReturn
    <2>2. BlockingResult(Head(delivered[r])) \in {"NO_RESPONSE", "CMD_SUCCESS", "CMD_DENIED"}
      BY DEF BlockingResult
    <2>3. \A q \in Requests : caller'[q] = caller[q] \/ (Enqueued(q) /\ Enqueued(q)')
      BY <2>1, <2>2 DEF Enqueued, IndInv, TypeOK
    <2> QED
      BY <1>2, <2>3, OthersStutter DEF BlockingReturn
  <1>3. ASSUME NEW r \in Requests, Elapse(r) PROVE phases' = phases
    BY <1>3, OthersStutter DEF Elapse
  <1>4. ASSUME NEW r \in Requests, NEW answer \in AckResults,
               RecipientAnswers(r, answer) PROVE phases' = phases
    BY <1>4, OthersStutter DEF RecipientAnswers
  <1>5. ASSUME NEW c \in Foreign, NEW answer \in AckResults,
               OtherStationAnswered(c, answer) PROVE phases' = phases
    BY <1>5, OthersStutter DEF OtherStationAnswered
  <1>6. ASSUME NEW ack \in acks, HandleCmdAck(ack) PROVE Abstract!Next
    BY <1>6, HandleCmdAckRefines DEF Abstract!Next
  <1>7. CASE HandleCmdAckCallback
    BY <1>7, HandleCmdAckCallbackRefines DEF Abstract!Next
  <1>8. CASE TimeoutWake
    <2>1. timedOut' = timedOut
      BY <1>8 DEF TimeoutWake, IndInv, Bookkeeping
    <2> QED
      BY <1>8, <2>1, OthersStutter DEF TimeoutWake
  <1>9. CASE ScanSkip \/ ScanRetransmit \/ ScanEnd \/ TimeoutLoop \/ Terminate \/ UNCHANGED vars
    <2>1. UNCHANGED <<caller, running, timedOut, rx, delivered>>
      BY <1>9 DEF ScanSkip, ScanRetransmit, ScanEnd, TimeoutLoop, Terminate, vars
    <2> QED
      BY <2>1, OthersStutter
  <1>10. CASE ScanGiveUp
    BY <1>10, ScanGiveUpRefines DEF Abstract!Next
  <1>11. CASE TimeoutCallback
    BY <1>11, TimeoutCallbackRefines DEF Abstract!Next
  <1> QED
    BY <1>1, <1>2, <1>3, <1>4, <1>5, <1>6, <1>7, <1>8, <1>9, <1>10, <1>11 DEF Next, TimeoutThread

\* No command was handed over yet.
LEMMA InitRefines == Init => Abstract!Init
  <1> SUFFICES ASSUME Init PROVE Abstract!Init
    OBVIOUS
  <1>1. \A r \in Requests : Phase(r) = "idle"
    BY InitIndInv, PhaseOf DEF PlaceIsPhase, Init
  <1> QED
    BY <1>1 DEF Abstract!Init

\* For every set of requests and every queue limit, the sequence of enqueue,
\* retransmissions, acks and timeouts of the commands (cmdsender.cpp) is one that
\* a bounded request queue allows: refused only at the limit, decided once, its
\* callback called once and with the fate that was decided.
THEOREM ImplementsTheRequestQueue == Spec => ImplementsRequestQueue
  <1>1. IndInv /\ IndInv' /\ [Next]_vars => [Abstract!Next]_phases
    BY NextRefines
  <1> QED
    BY <1>1, InitRefines, SpecIndInv, PTL DEF Spec, ImplementsRequestQueue, Abstract!Spec, phases

-----------------------------------------------------------------------------
(* The message interval handler                                            *)

\* A generation of rates has at most N commands, and the latest has sent next.
SentBound == sent <= N * restarts + next

\* A command belongs to rates the user has asked for.
GenBound == \A r \in Rates : gen[r] <= restarts

\* While the rates were never changed, the command in flight is the latest, and
\* there is none when the next may be sent or all were; a failure is the last.
OnlyLatestInFlight ==
    restarts = 0 => /\ \A r \in InFlight : r = sent
                    /\ ready \/ reported => InFlight = {}
                    /\ ~(ready /\ reported)

IntervalInv ==
    /\ IntervalTypeOK
    /\ SentBound
    /\ GenBound
    /\ InFlightBound
    /\ NoRateSkipped
    /\ OnlyLatestInFlight
    /\ StopsAfterFailure

\* How many commands there are, of one generation more and of all.
LEMMA RateCounts ==
    /\ N \in Nat \ {0} /\ MaxRestarts \in Nat
    /\ \A m \in Nat : N * m \in Nat /\ N * (m + 1) = N * m + N
    /\ \A m \in 0..MaxRestarts : N * m + N <= N * (MaxRestarts + 1)
  <1>1. N \in Nat \ {0} /\ MaxRestarts \in Nat
    BY IntervalAssumption
  <1>2. ASSUME NEW m \in Nat PROVE N * m \in Nat /\ N * (m + 1) = N * m + N
    BY <1>1
  <1>3. ASSUME NEW m \in 0..MaxRestarts PROVE N * m + N <= N * (MaxRestarts + 1)
    <2>1. PICK k \in Nat : MaxRestarts = m + k
      BY <1>1
    <2>2. N * (MaxRestarts + 1) = N * m + N + N * k
      BY <1>1, <2>1
    <2>3. N * k \in Nat /\ N * m \in Nat
      BY <1>1, <1>2
    <2> QED
      BY <1>1, <2>2, <2>3
  <1> QED
    BY <1>1, <1>2, <1>3

\* Only finitely many commands are in flight.
LEMMA InFlightIsFinite == IsFiniteSet(Rates) /\ IsFiniteSet(InFlight) /\ Cardinality(InFlight) \in Nat
  <1>1. IsFiniteSet(Rates)
    BY RateCounts, FS_Interval, IntervalAssumption DEF Rates
  <1>2. InFlight \in SUBSET Rates
    BY DEF InFlight
  <1> QED
    BY <1>1, <1>2, FS_Subset, FS_CardinalityType

\* Nothing was sent yet.
LEMMA InitIntervalInv == IntervalInit => IntervalInv
  <1> SUFFICES ASSUME IntervalInit PROVE IntervalInv
    OBVIOUS
  <1> USE DEF IntervalInit
  <1>1. phase = [r \in AllRequests |-> "idle"]
    BY DEF Queue!Init
  <1>2. IntervalTypeOK
    <2>1. 0 \in 0..N /\ 0 \in 0..(N - 1) /\ 0 \in 0..MaxRestarts /\ 0 \in 0..(N * (MaxRestarts + 1))
      <3>1. N * (MaxRestarts + 1) \in Nat
        BY RateCounts
      <3> QED
        BY <3>1, RateCounts
    <2>2. phase \in [AllRequests -> Queue!Phases]
      BY <1>1 DEF Queue!Phases
    <2> QED
      BY <2>1, <2>2 DEF IntervalTypeOK
  <1>3. InFlight = {}
    BY <1>1 DEF InFlight, AllRequests
  <1>4. SentBound /\ GenBound
    BY RateCounts DEF SentBound, GenBound
  <1>5. InFlightBound
    BY <1>3, FS_EmptySet DEF InFlightBound
  <1>6. {index[r] : r \in {q \in 1..sent : gen[q] = restarts}} = {} /\ 0..(next - 1) = {}
    BY 1..0 = {}
  <1>7. NoRateSkipped
    BY <1>6 DEF NoRateSkipped
  <1>8. OnlyLatestInFlight /\ StopsAfterFailure
    BY <1>3 DEF OnlyLatestInFlight, StopsAfterFailure
  <1> QED
    BY <1>2, <1>4, <1>5, <1>7, <1>8 DEF IntervalInv

\* opt_send_messages enqueues the command of the next rate: there is a number
\* left for it, and it is in flight in the place of the flag.
LEMMA SendNextIntervalInv ==
    ASSUME IntervalInv, OptSendMessages, SendNext
    PROVE  IntervalInv'
  <1> USE DEF IntervalInv
  <1>1. /\ enabled' = enabled /\ restarts' = restarts /\ ready /\ ready' = FALSE
        /\ next < N /\ next' = next + 1 /\ reported' = reported
        /\ sent' = sent + 1 /\ Queue!Accept(sent')
        /\ index' = [index EXCEPT ![sent'] = next]
        /\ gen' = [gen EXCEPT ![sent'] = restarts]
        /\ result' = result
    BY DEF OptSendMessages, SendNext, MoreRates, Enqueue
  <1>2. /\ next \in 0..N /\ sent \in Nat /\ restarts \in 0..MaxRestarts
        /\ phase \in [AllRequests -> Queue!Phases]
        /\ index \in [Rates -> 0..(N - 1)] /\ gen \in [Rates -> 0..MaxRestarts]
        /\ sent <= N * (MaxRestarts + 1)
    BY RateCounts DEF IntervalTypeOK
  <1>3. N * restarts \in Nat /\ N * restarts + N <= N * (MaxRestarts + 1)
    BY <1>2, RateCounts, IntervalAssumption
  <1>4. sent + 1 <= N * (MaxRestarts + 1) /\ SentBound'
    <2>1. sent + 1 <= N * restarts + (next + 1)
      BY <1>2, <1>3 DEF SentBound
    <2>2. next + 1 <= N
      BY <1>1, <1>2, RateCounts
    <2> QED
      BY <1>1, <1>2, <1>3, <2>1, <2>2, RateCounts DEF SentBound
  <1>5. sent' \in Rates
    BY <1>1, <1>2, <1>4, RateCounts DEF Rates
  <1>6. sent' \in AllRequests
    BY <1>5 DEF AllRequests
  <1>7. phase[sent'] = "idle" /\ phase' = [phase EXCEPT ![sent'] = "queued"]
    BY <1>1 DEF Queue!Accept
  <1>8. IntervalTypeOK'
    <2>1. phase' \in [AllRequests -> Queue!Phases]
      BY <1>2, <1>6, <1>7 DEF Queue!Phases
    <2>2. next' \in 0..N /\ sent' \in 0..(N * (MaxRestarts + 1))
      BY <1>1, <1>2, <1>4, RateCounts
    <2>3. index' \in [Rates -> 0..(N - 1)] /\ gen' \in [Rates -> 0..MaxRestarts]
      BY <1>1, <1>2, <1>5, RateCounts
    <2> QED
      BY <1>1, <2>1, <2>2, <2>3 DEF IntervalTypeOK
  <1>9. GenBound'
    BY <1>1, <1>2, <1>5 DEF GenBound
  <1>10. InFlight' = InFlight \cup {sent'} /\ sent' \notin InFlight
    BY <1>2, <1>5, <1>6, <1>7 DEF InFlight, AllRequests
  <1>11. InFlightBound'
    <2>1. Cardinality(InFlight') = Cardinality(InFlight) + 1
      BY <1>10, InFlightIsFinite, FS_AddElement
    <2> QED
      BY <1>1, <1>2, <2>1, InFlightIsFinite DEF InFlightBound
  <1>12. NoRateSkipped'
    <2>1. \A q \in 1..sent : q \in Rates /\ index'[q] = index[q] /\ gen'[q] = gen[q]
      BY <1>1, <1>2, RateCounts DEF Rates
    <2>2. index'[sent'] = next /\ gen'[sent'] = restarts
      BY <1>1, <1>2, <1>5
    <2>3. 1..sent' = (1..sent) \cup {sent'}
      BY <1>1, <1>2
    <2>4. {index'[r] : r \in {q \in 1..sent' : gen'[q] = restarts}}
              = {index[r] : r \in {q \in 1..sent : gen[q] = restarts}} \cup {next}
      BY <2>1, <2>2, <2>3
    <2>5. 0..(next' - 1) = (0..(next - 1)) \cup {next}
      BY <1>1, <1>2
    <2> QED
      BY <1>1, <2>4, <2>5 DEF NoRateSkipped
  <1>13. OnlyLatestInFlight'
    <2> SUFFICES ASSUME restarts = 0
                 PROVE  InFlight' = {sent'} /\ ~reported'
      BY <1>1 DEF OnlyLatestInFlight
    <2>1. InFlight = {}
      BY <1>1 DEF OnlyLatestInFlight
    <2> QED
      BY <1>1, <1>10, <2>1 DEF OnlyLatestInFlight
  <1>14. StopsAfterFailure'
    <2> SUFFICES ASSUME restarts = 0, NEW r \in 1..sent', Failed(r)'
                 PROVE  FALSE
      BY <1>1 DEF StopsAfterFailure
    <2>1. r # sent'
      BY <1>2, <1>6, <1>7 DEF Failed
    <2>2. r \in 1..sent /\ r \in AllRequests
      BY <2>1, <1>1, <1>2, RateCounts DEF AllRequests, Rates
    <2>3. Failed(r)
      BY <1>1, <1>2, <1>7, <2>1, <2>2 DEF Failed
    <2> QED
      BY <1>1, <2>2, <2>3 DEF StopsAfterFailure
  <1> QED
    BY <1>4, <1>8, <1>9, <1>11, <1>12, <1>13, <1>14

\* The result callback of a command takes it out of flight and may set the flag.
LEMMA ResultCallbackIntervalInv ==
    ASSUME IntervalInv, NEW r \in Rates, ResultCallback(r)
    PROVE  IntervalInv'
  <1> USE DEF IntervalInv
  <1>1. /\ phase[r] \in {"answered", "exhausted"} /\ phase'[r] \in {"cb_answered", "cb_exhausted"}
        /\ phase' = [phase EXCEPT ![r] = phase'[r]]
        /\ phase'[r] = "cb_answered" <=> phase[r] = "answered"
        /\ ready' = (phase[r] = "answered" /\ result[r] = "accepted")
        /\ UNCHANGED <<next, enabled, sent, index, gen, result, reported, restarts>>
    <2>1. r \in AllRequests /\ phase \in [AllRequests -> Queue!Phases]
      BY DEF AllRequests, IntervalTypeOK
    <2> QED
      BY <2>1 DEF ResultCallback, Queue!Call, ReadyAfter
  <1>2. IntervalTypeOK'
    BY <1>1 DEF IntervalTypeOK, Queue!Phases
  <1>3. SentBound' /\ GenBound' /\ NoRateSkipped'
    BY <1>1 DEF SentBound, GenBound, NoRateSkipped
  <1>4. InFlight' = InFlight \ {r} /\ r \in InFlight
    BY <1>1 DEF InFlight, AllRequests, IntervalTypeOK
  <1>5. InFlightBound'
    <2>1. Cardinality(InFlight') = Cardinality(InFlight) - 1
      BY <1>4, InFlightIsFinite, FS_RemoveElement
    <2>2. restarts \in Nat
      BY DEF IntervalTypeOK
    <2> QED
      BY <1>1, <2>1, <2>2, InFlightIsFinite DEF InFlightBound
  <1>6. OnlyLatestInFlight' /\ StopsAfterFailure'
    <2> SUFFICES ASSUME restarts = 0
                 PROVE  OnlyLatestInFlight' /\ StopsAfterFailure'
      BY <1>1 DEF OnlyLatestInFlight, StopsAfterFailure
    <2>1. r = sent /\ InFlight' = {} /\ ~reported
      BY <1>4 DEF OnlyLatestInFlight
    <2>2. OnlyLatestInFlight'
      BY <1>1, <2>1 DEF OnlyLatestInFlight
    <2>3. ASSUME NEW q \in 1..sent, Failed(q)' PROVE q = sent /\ ~ready' /\ ~reported'
      <3>1. CASE q = r
        BY <1>1, <2>1, <2>3, <3>1 DEF Failed
      <3>2. CASE q # r
        <4>1. Failed(q)
          <5>1. q \in AllRequests
            BY RateCounts DEF AllRequests, Rates, IntervalTypeOK
          <5> QED
            BY <1>1, <2>3, <3>2, <5>1 DEF Failed, IntervalTypeOK
        <4> QED
          BY <2>1, <3>2, <4>1 DEF StopsAfterFailure
      <3> QED
        BY <3>1, <3>2
    <2> QED
      BY <1>1, <2>2, <2>3 DEF StopsAfterFailure
  <1> QED
    BY <1>2, <1>3, <1>5, <1>6

\* CmdSender decides the fate of a command: it stays in flight, and it has not
\* failed before its callback is called.
LEMMA DecideIntervalInv ==
    ASSUME IntervalInv, NEW r \in Rates, phase[r] = "queued",
           NEW fate \in {"answered", "exhausted"}, phase' = [phase EXCEPT ![r] = fate],
           \/ result' = result
           \/ \E a \in {"accepted", "denied"} : result' = [result EXCEPT ![r] = a],
           UNCHANGED <<sent, index, gen, ready, next, enabled, reported, restarts>>
    PROVE  IntervalInv'
  <1> USE DEF IntervalInv
  <1>1. r \in AllRequests /\ phase \in [AllRequests -> Queue!Phases]
    BY DEF AllRequests, IntervalTypeOK
  <1>2. IntervalTypeOK'
    BY <1>1 DEF IntervalTypeOK, Queue!Phases
  <1>3. SentBound' /\ GenBound' /\ NoRateSkipped'
    BY DEF SentBound, GenBound, NoRateSkipped
  <1>4. InFlight' = InFlight
    BY <1>1 DEF InFlight
  <1>5. InFlightBound' /\ OnlyLatestInFlight'
    BY <1>4 DEF InFlightBound, OnlyLatestInFlight
  <1>6. ASSUME NEW q \in 1..sent, Failed(q)' PROVE Failed(q)
    <2>1. q \in Rates /\ q \in AllRequests
      BY RateCounts DEF AllRequests, Rates, IntervalTypeOK
    <2>2. q # r
      BY <1>1, <1>6 DEF Failed
    <2> QED
      BY <1>1, <1>6, <2>1, <2>2 DEF Failed, IntervalTypeOK
  <1>7. StopsAfterFailure'
    BY <1>6 DEF StopsAfterFailure
  <1> QED
    BY <1>2, <1>3, <1>5, <1>7

\* The requests of the other clients are none of the handler's commands.
LEMMA OtherRequestIntervalInv ==
    ASSUME IntervalInv, NEW o \in Others, OtherRequest(o)
    PROVE  IntervalInv'
  <1> USE DEF IntervalInv
  <1>1. UNCHANGED <<sent, index, gen, result, ready, next, enabled, reported, restarts>>
    BY DEF OtherRequest
  <1>2. o \in AllRequests /\ phase \in [AllRequests -> Queue!Phases]
    BY DEF AllRequests, IntervalTypeOK
  <1>3. PICK p \in Queue!Phases : phase' = [phase EXCEPT ![o] = p]
    BY DEF OtherRequest, Queue!Accept, Queue!Refuse, Queue!Decide, Queue!Call, Queue!Phases
  <1>4. \A r \in Rates : phase'[r] = phase[r]
    <2>1. \A r \in Rates : r # o /\ r \in AllRequests
      BY IntervalAssumption, RateCounts DEF Rates, AllRequests
    <2> QED
      BY <1>2, <1>3, <2>1
  <1>5. IntervalTypeOK'
    BY <1>1, <1>2, <1>3 DEF IntervalTypeOK
  <1>6. InFlight' = InFlight
    BY <1>4 DEF InFlight
  <1>7. SentBound' /\ GenBound' /\ NoRateSkipped' /\ InFlightBound' /\ OnlyLatestInFlight'
    BY <1>1, <1>6 DEF SentBound, GenBound, NoRateSkipped, InFlightBound, OnlyLatestInFlight
  <1>8. 1..sent \subseteq Rates
    BY RateCounts DEF Rates, IntervalTypeOK
  <1>9. StopsAfterFailure'
    BY <1>1, <1>4, <1>8 DEF StopsAfterFailure, Failed
  <1> QED
    BY <1>5, <1>7, <1>9

\* A restart begins a generation no command belongs to yet.
LEMMA RestartIntervalInv ==
    ASSUME IntervalInv, Restart
    PROVE  IntervalInv'
  <1> USE DEF IntervalInv
  <1>1. /\ restarts < MaxRestarts /\ restarts' = restarts + 1
        /\ next' = 0 /\ ready' = TRUE /\ reported' = FALSE
        /\ UNCHANGED <<phase, sent, index, gen, result, enabled>>
    BY DEF Restart, queueVars
  <1>2. /\ restarts \in 0..MaxRestarts /\ next \in 0..N /\ sent \in Nat
        /\ sent <= N * (MaxRestarts + 1) /\ gen \in [Rates -> 0..MaxRestarts]
    BY RateCounts DEF IntervalTypeOK
  <1>3. IntervalTypeOK'
    <2>1. restarts' \in 0..MaxRestarts /\ next' \in 0..N
      BY <1>1, <1>2, RateCounts
    <2> QED
      BY <1>1, <2>1 DEF IntervalTypeOK
  <1>4. SentBound'
    <2>1. N * (restarts + 1) = N * restarts + N /\ N * restarts \in Nat
      BY <1>2, RateCounts
    <2> QED
      BY <1>1, <1>2, <2>1, RateCounts DEF SentBound
  <1>5. GenBound'
    BY <1>1, <1>2 DEF GenBound
  <1>6. InFlight' = InFlight
    BY <1>1 DEF InFlight
  <1>7. InFlightBound'
    BY <1>1, <1>2, <1>6, InFlightIsFinite DEF InFlightBound
  <1>8. NoRateSkipped'
    <2>1. \A q \in 1..sent : q \in Rates /\ gen[q] # restarts + 1
      BY <1>2, RateCounts DEF GenBound, Rates
    <2>2. {index'[q] : q \in {p \in 1..sent' : gen'[p] = restarts'}} = {}
      BY <1>1, <2>1
    <2>3. 0..(next' - 1) = {}
      BY <1>1
    <2> QED
      BY <2>2, <2>3 DEF NoRateSkipped
  <1>9. restarts' # 0
    BY <1>1, <1>2
  <1> QED
    BY <1>3, <1>4, <1>5, <1>7, <1>8, <1>9 DEF OnlyLatestInFlight, StopsAfterFailure

\* A step that changes the flag of the user, or the flags of the handler after the
\* last rate, or nothing.
LEMMA FlagsIntervalInv ==
    ASSUME IntervalInv,
           \/ UNCHANGED intervalVars
           \/ ToggleSetting
           \/ OptSendMessages /\ ReportDone
    PROVE  IntervalInv'
  <1> USE DEF IntervalInv
  <1>1. /\ UNCHANGED <<phase, sent, index, gen, result, next, restarts>>
        /\ enabled' \in BOOLEAN
        /\ \/ ready' = ready /\ reported' = reported
           \/ ready /\ ready' = FALSE /\ reported' = TRUE
    BY DEF intervalVars, queueVars, ToggleSetting, OptSendMessages, ReportDone, IntervalTypeOK
  <1>2. IntervalTypeOK'
    BY <1>1 DEF IntervalTypeOK
  <1>3. InFlight' = InFlight
    BY <1>1 DEF InFlight
  <1>4. SentBound' /\ GenBound' /\ NoRateSkipped'
    BY <1>1 DEF SentBound, GenBound, NoRateSkipped
  <1>5. InFlightBound'
    <2>1. restarts \in Nat
      BY DEF IntervalTypeOK
    <2> QED
      BY <1>1, <1>3, <2>1, InFlightIsFinite DEF InFlightBound
  <1>6. OnlyLatestInFlight' /\ StopsAfterFailure'
    BY <1>1, <1>3 DEF OnlyLatestInFlight, StopsAfterFailure, Failed
  <1> QED
    BY <1>2, <1>4, <1>5, <1>6

\* Every step of the handler, of CmdSender and of the other clients keeps the
\* invariant.
LEMMA NextIntervalInv == IntervalInv /\ [IntervalNext]_intervalVars => IntervalInv'
  <1> SUFFICES ASSUME IntervalInv, [IntervalNext]_intervalVars PROVE IntervalInv'
    OBVIOUS
  <1>1. CASE OptSendMessages
    <2>1. SendNext \/ ReportDone
      BY <1>1 DEF OptSendMessages
    <2> QED
      BY <1>1, <2>1, SendNextIntervalInv, FlagsIntervalInv
  <1>2. ASSUME NEW r \in Rates, GiveUp(r) PROVE IntervalInv'
    BY <1>2, DecideIntervalInv DEF GiveUp
  <1>3. ASSUME NEW a \in {"accepted", "denied"}, HandleAck(a) PROVE IntervalInv'
    <2>1. PICK r \in Rates : /\ phase[r] = "queued"
                             /\ phase' = [phase EXCEPT ![r] = "answered"]
                             /\ result' = [result EXCEPT ![r] = a]
      BY <1>3 DEF HandleAck
    <2>2. UNCHANGED <<sent, index, gen, ready, next, enabled, reported, restarts>>
      BY <1>3 DEF HandleAck
    <2> QED
      BY <2>1, <2>2, DecideIntervalInv
  <1> QED
    BY <1>1, <1>2, <1>3, RestartIntervalInv, ResultCallbackIntervalInv, OtherRequestIntervalInv,
       FlagsIntervalInv DEF IntervalNext

\* The invariant holds throughout.
LEMMA SpecIntervalInv == IntervalSpec => []IntervalInv
  BY InitIntervalInv, NextIntervalInv, PTL DEF IntervalSpec

\* For any number of rates and restarts and any other clients, a restart may put
\* one more rate command in flight, and nothing else does: not a full queue, an
\* old ack or a late callback (fcmsgintervalhandler.cpp:22, 44, 55, 73).
THEOREM InFlightIsBounded == IntervalSpec => []InFlightBound
  BY SpecIntervalInv, PTL DEF IntervalInv

\* The commands of the latest rates are those for the messages 0 .. next - 1, none
\* left out (fcmsgintervalhandler.cpp:31-44).
THEOREM RatesAreComplete == IntervalSpec => []NoRateSkipped
  BY SpecIntervalInv, PTL DEF IntervalInv

\* "stop in case one of them times out" (fcmsgintervalhandler.h:16), while the
\* rates were never changed: nothing is sent or reported after a failure.
THEOREM FailureStopsTheHandler == IntervalSpec => []StopsAfterFailure
  BY SpecIntervalInv, PTL DEF IntervalInv

-----------------------------------------------------------------------------
(* The clients next to each other                                          *)

\* FCAction and the handler mean the same requests, and count them alike.
LEMMA SameRequests ==
    /\ User!Requests = AllRequests /\ User!Calls = Others
    /\ FlightModes \subseteq Others /\ Arms \subseteq Others
    /\ Rates \cap Others = {}
    /\ Queue!Phases = User!Queue!Phases
    /\ \A r : /\ User!Queue!Accept(r) <=> Queue!Accept(r)
              /\ User!Queue!Refuse(r) <=> Queue!Refuse(r)
              /\ User!Queue!Decide(r) <=> Queue!Decide(r)
              /\ User!Queue!Call(r) <=> Queue!Call(r)
  <1>1. User!Requests = AllRequests /\ User!Calls = Others
    BY UserAssumption DEF User!Requests, User!Calls, AllRequests
  <1>2. User!Queue!Queued = Queue!Queued
    BY <1>1 DEF User!Queue!Queued, Queue!Queued
  <1>3. User!Queue!Cardinality(Queue!Queued) = Queue!Cardinality(Queue!Queued)
    BY DEF User!Queue!Cardinality, Queue!Cardinality
  <1>4. Rates \subseteq Nat
    BY RateCounts DEF Rates
  <1>5. \A r : /\ User!Queue!Accept(r) <=> Queue!Accept(r)
               /\ User!Queue!Refuse(r) <=> Queue!Refuse(r)
    BY <1>2, <1>3 DEF User!Queue!Accept, Queue!Accept, User!Queue!Refuse, Queue!Refuse
  <1>6. \A r : /\ User!Queue!Decide(r) <=> Queue!Decide(r)
               /\ User!Queue!Call(r) <=> Queue!Call(r)
    BY DEF User!Queue!Decide, Queue!Decide, User!Queue!Call, Queue!Call
  <1> QED
    BY <1>1, <1>4, <1>5, <1>6, UserAssumption, IntervalAssumption DEF User!Queue!Phases, Queue!Phases

\* The commands of the user are the requests of other clients to the handler,
\* and a step of the user that gives no command is none of the handler.
LEMMA UserStepIsAnotherClient ==
    ASSUME UserStep
    PROVE  [IntervalNext]_intervalVars
  <1>1. UNCHANGED rateVars
    BY DEF UserStep
  <1>2. ASSUME NEW o \in Others,
               \/ User!Queue!Accept(o) \/ User!Queue!Refuse(o) \/ User!Queue!Call(o)
               \/ Queue!Decide(o)
        PROVE  [IntervalNext]_intervalVars
    BY <1>1, <1>2, SameRequests DEF IntervalNext, OtherRequest, rateVars
  <1>3. ASSUME phase' = phase PROVE [IntervalNext]_intervalVars
    BY <1>1, <1>3 DEF rateVars, intervalVars, queueVars
  <1>4. ASSUME NEW f \in FlightModes, User!FlightModeCmdAsync(f) PROVE [IntervalNext]_intervalVars
    BY <1>2, <1>3, <1>4, SameRequests DEF User!FlightModeCmdAsync
  <1>5. ASSUME NEW c \in Arms, User!ArmFcAsync(c) PROVE [IntervalNext]_intervalVars
    BY <1>2, <1>3, <1>5, SameRequests DEF User!ArmFcAsync
  <1>6. ASSUME NEW c \in Others, User!ResultCallback(c) PROVE [IntervalNext]_intervalVars
    BY <1>2, <1>6 DEF User!ResultCallback
  <1>7. ASSUME NEW c \in Others, UserDecided(c) PROVE [IntervalNext]_intervalVars
    BY <1>2, <1>7 DEF UserDecided
  <1> QED
    BY <1>4, <1>5, <1>6, <1>7 DEF UserStep

\* The message interval handler behaves among the other clients as it is specified
\* to alone: what FCAction does is what other clients may do.
THEOREM ClientsImplementHandler == ClientsSpec => IntervalSpec
  <1>1. ClientsInit => IntervalInit
    BY DEF ClientsInit
  <1>2. ASSUME [ClientsNext]_clientVars PROVE [IntervalNext]_intervalVars
    <2>1. CASE RateStep
      BY <2>1 DEF RateStep, IntervalNext
    <2>2. CASE UserStep
      BY <2>2, UserStepIsAnotherClient
    <2>3. CASE UNCHANGED clientVars
      BY <2>3 DEF clientVars
    <2> QED
      BY <1>2, <2>1, <2>2, <2>3 DEF ClientsNext
  <1> QED
    BY <1>1, <1>2, PTL DEF ClientsSpec, IntervalSpec

\* The rate commands are the requests of other clients to FCAction.
LEMMA RateStepIsAnotherClient ==
    ASSUME IntervalInv, IntervalInv', RateStep
    PROVE  [User!Next]_User!vars
  <1>1. UNCHANGED userVars /\ phase \in [AllRequests -> Queue!Phases]
    BY DEF RateStep, IntervalInv, IntervalTypeOK
  <1>2. ASSUME NEW r \in Rates, Queue!Accept(r) \/ Queue!Decide(r) \/ Queue!Call(r)
        PROVE  User!Next
    <2>1. User!QueueStep
      BY <1>1, <1>2, SameRequests DEF User!QueueStep, userVars
    <2> QED
      BY <2>1 DEF User!Next
  <1>3. ASSUME phase' = phase PROVE [User!Next]_User!vars
    BY <1>1, <1>3 DEF User!vars, userVars
  <1>4. CASE OptSendMessages
    <2>1. CASE SendNext
      <3>1. Queue!Accept(sent')
        BY <2>1 DEF SendNext, Enqueue
      <3>2. sent' \in Rates
        <4>1. sent' \in 0..(N * (MaxRestarts + 1)) /\ sent \in Nat
          BY RateCounts DEF IntervalInv, IntervalTypeOK
        <4>2. sent' = sent + 1
          BY <2>1 DEF SendNext, Enqueue
        <4> QED
          BY <4>1, <4>2, RateCounts DEF Rates
      <3> QED
        BY <1>2, <3>1, <3>2
    <2>2. CASE ReportDone
      BY <1>3, <2>2 DEF ReportDone, queueVars
    <2> QED
      BY <1>4, <2>1, <2>2 DEF OptSendMessages
  <1>5. CASE Restart \/ ToggleSetting
    BY <1>3, <1>5 DEF Restart, ToggleSetting, queueVars
  <1>6. ASSUME NEW r \in Rates, ResultCallback(r) \/ GiveUp(r) PROVE User!Next
    BY <1>2, <1>6 DEF ResultCallback, GiveUp, Queue!Decide
  <1>7. ASSUME NEW a \in {"accepted", "denied"}, HandleAck(a) PROVE User!Next
    <2>1. PICK r \in Rates : phase[r] = "queued" /\ phase' = [phase EXCEPT ![r] = "answered"]
      BY <1>7 DEF HandleAck
    <2> QED
      BY <1>2, <2>1 DEF Queue!Decide
  <1> QED
    BY <1>4, <1>5, <1>6, <1>7 DEF RateStep

\* The steps of the user are those of FCAction.
LEMMA UserStepIsUserNext ==
    ASSUME UserStep
    PROVE  User!Next
  <1>1. ASSUME NEW c \in Others, UserDecided(c) PROVE User!Next
    <2>1. User!QueueStep
      BY <1>1, SameRequests DEF UserDecided, User!QueueStep, userVars
    <2> QED
      BY <2>1 DEF User!Next
  <1> QED
    BY <1>1, SameRequests DEF UserStep, User!Next

\* FCAction behaves next to the message interval handler as it is specified to
\* alone: the rate commands are what other clients may do.
THEOREM ClientsImplementFCAction == ClientsSpec => User!Spec
  <1>1. ClientsInit => User!Init
    BY DEF ClientsInit
  <1>2. ASSUME IntervalInv, IntervalInv', [ClientsNext]_clientVars PROVE [User!Next]_User!vars
    <2>1. CASE UNCHANGED clientVars
      BY <2>1 DEF clientVars, intervalVars, queueVars, userVars, User!vars
    <2> QED
      BY <1>2, <2>1, RateStepIsAnotherClient, UserStepIsUserNext DEF ClientsNext
  <1> QED
    BY <1>1, <1>2, ClientsImplementHandler, SpecIntervalInv, PTL DEF ClientsSpec, User!Spec

\* A call that was made has its result or waits for it: two flight mode changes
\* are never in flight together, nor one while the flag is clear.
UserInv ==
    /\ User!TypeOK
    /\ \A f, g \in User!InFlight : f = g
    /\ User!InFlight # {} => busy

\* The commands of the user may start.
LEMMA InitUserInv == User!Init => UserInv
  <1> SUFFICES ASSUME User!Init PROVE UserInv
    OBVIOUS
  <1>1. phase = [r \in User!Requests |-> "idle"]
    BY DEF User!Init, User!Queue!Init
  <1>2. User!TypeOK
    BY <1>1 DEF User!Init, User!TypeOK, User!Messages, User!Queue!Phases
  <1>3. User!InFlight = {}
    BY <1>1 DEF User!InFlight, User!Requests, User!Calls
  <1> QED
    BY <1>2, <1>3 DEF UserInv

\* A request of which the phase changes, and no other.
LEMMA OnePhaseChanges ==
    ASSUME UserInv, NEW r \in AllRequests, NEW p \in Queue!Phases,
           phase' = [phase EXCEPT ![r] = p],
           busy' \in BOOLEAN, told' \in [User!Calls -> User!Messages]
    PROVE  /\ User!TypeOK'
           /\ User!InFlight' = IF r \in FlightModes /\ p \in {"queued", "answered", "exhausted"}
                               THEN User!InFlight \cup {r} ELSE User!InFlight \ {r}
  <1>1. phase \in [AllRequests -> Queue!Phases] /\ FlightModes \subseteq AllRequests
    BY SameRequests DEF UserInv, User!TypeOK, AllRequests
  <1>2. User!TypeOK'
    BY <1>1, SameRequests DEF User!TypeOK
  <1> QED
    BY <1>1, <1>2 DEF User!InFlight

\* Every step of FCAction and of the other clients keeps the invariant.
LEMMA NextUserInv == UserInv /\ [User!Next]_User!vars => UserInv'
  <1> SUFFICES ASSUME UserInv, [User!Next]_User!vars PROVE UserInv'
    OBVIOUS
  <1> USE DEF UserInv
  <1>0. /\ busy \in BOOLEAN /\ told \in [User!Calls -> User!Messages]
        /\ User!InFlight \subseteq FlightModes
        /\ \A c : \A m \in User!Messages :
              User!Tell(c, m) => told' \in [User!Calls -> User!Messages]
    BY DEF User!TypeOK, User!InFlight, User!Tell
  <1>1. ASSUME phase' = phase, busy' = busy, told' \in [User!Calls -> User!Messages]
        PROVE  UserInv'
    BY <1>0, <1>1 DEF User!TypeOK, User!InFlight
  <1>2. ASSUME NEW f \in FlightModes, User!FlightModeCmdAsync(f) PROVE UserInv'
    <2>1. f \in AllRequests
      BY SameRequests DEF AllRequests
    <2>2. CASE phase' = phase /\ busy' = busy /\ (User!Tell(f, "invalid") \/ User!Tell(f, "busy"))
      BY <1>0, <1>1, <2>2 DEF User!Messages
    <2>3. CASE /\ ~busy /\ busy' = TRUE
               /\ \/ User!Queue!Accept(f) /\ User!Tell(f, "none")
                  \/ User!Queue!Refuse(f) /\ User!Tell(f, "try_again_later")
      <3>1. PICK p \in Queue!Phases : phase' = [phase EXCEPT ![f] = p]
        BY <2>3 DEF User!Queue!Accept, User!Queue!Refuse, Queue!Phases
      <3>2. told' \in [User!Calls -> User!Messages]
        BY <1>0, <2>3 DEF User!Messages
      <3>3. User!TypeOK' /\ User!InFlight' \subseteq {f}
        BY <2>1, <2>3, <3>1, <3>2, OnePhaseChanges
      <3> QED
        BY <2>3, <3>3
    <2> QED
      BY <1>2, <2>2, <2>3 DEF User!FlightModeCmdAsync, User!RejectsAsBusy
  <1>3. ASSUME NEW c \in Arms, User!ArmFcAsync(c) PROVE UserInv'
    <2>1. c \in AllRequests /\ c \notin FlightModes
      BY SameRequests, UserAssumption DEF AllRequests
    <2>2. busy' = busy /\ told' \in [User!Calls -> User!Messages]
      BY <1>0, <1>3 DEF User!ArmFcAsync, User!Messages
    <2>3. CASE phase' = phase
      BY <1>1, <2>2, <2>3
    <2>4. CASE User!Queue!Accept(c) \/ User!Queue!Refuse(c)
      <3>1. PICK p \in Queue!Phases : phase' = [phase EXCEPT ![c] = p]
        BY <2>4 DEF User!Queue!Accept, User!Queue!Refuse, Queue!Phases
      <3>2. User!TypeOK' /\ User!InFlight' = User!InFlight \ {c}
        BY <1>0, <2>1, <2>2, <3>1, OnePhaseChanges
      <3> QED
        BY <2>2, <3>2
    <2> QED
      BY <1>3, <2>3, <2>4 DEF User!ArmFcAsync
  <1>4. ASSUME NEW c \in User!Calls, User!ResultCallback(c) PROVE UserInv'
    <2>1. c \in AllRequests /\ phase \in [AllRequests -> Queue!Phases]
      BY SameRequests DEF AllRequests, User!TypeOK
    <2>2. /\ phase[c] \in {"answered", "exhausted"}
          /\ phase' = [phase EXCEPT ![c] = "cb_answered"] \/ phase' = [phase EXCEPT ![c] = "cb_exhausted"]
          /\ busy' = (busy /\ c \notin FlightModes)
      BY <1>4 DEF User!ResultCallback, User!Queue!Call
    <2>3. told' \in [User!Calls -> User!Messages]
      BY <1>0, <1>4 DEF User!ResultCallback, User!Outcome, User!Messages
    <2>4. User!TypeOK' /\ User!InFlight' = User!InFlight \ {c}
      <3>1. PICK p \in {"cb_answered", "cb_exhausted"} : phase' = [phase EXCEPT ![c] = p]
        BY <2>2
      <3> QED
        BY <1>0, <2>1, <2>2, <2>3, <3>1, OnePhaseChanges DEF Queue!Phases
    <2>5. CASE c \in FlightModes
      <3>1. c \in User!InFlight
        BY <2>2, <2>5 DEF User!InFlight
      <3> QED
        BY <2>4, <3>1
    <2>6. CASE c \notin FlightModes
      BY <1>0, <2>2, <2>4, <2>6
    <2> QED
      BY <2>5, <2>6
  <1>5. ASSUME User!QueueStep PROVE UserInv'
    <2>1. busy' = busy /\ told' = told
      BY <1>5 DEF User!QueueStep
    <2>2. CASE \E c \in User!Calls : User!Queue!Decide(c)
      <3>1. PICK c \in User!Calls : User!Queue!Decide(c)
        BY <2>2
      <3>2. PICK p \in {"answered", "exhausted"} : phase' = [phase EXCEPT ![c] = p]
        BY <3>1 DEF User!Queue!Decide
      <3>3. c \in AllRequests /\ p \in Queue!Phases /\ phase[c] = "queued"
        BY <3>1, SameRequests DEF AllRequests, Queue!Phases, User!Queue!Decide
      <3>4. User!TypeOK' /\ User!InFlight' = User!InFlight
        <4>1. c \in FlightModes => c \in User!InFlight
          BY <3>3 DEF User!InFlight
        <4>2. /\ User!TypeOK'
              /\ User!InFlight' = IF c \in FlightModes THEN User!InFlight \cup {c}
                                                      ELSE User!InFlight \ {c}
          BY <1>0, <2>1, <3>2, <3>3, OnePhaseChanges
        <4>3. c \notin FlightModes => c \notin User!InFlight
          BY <1>0
        <4> QED
          BY <4>1, <4>2, <4>3
      <3> QED
        BY <2>1, <3>4
    <2>3. CASE \E o \in Rates : User!Queue!Accept(o) \/ User!Queue!Decide(o) \/ User!Queue!Call(o)
      <3>1. PICK o \in Rates : User!Queue!Accept(o) \/ User!Queue!Decide(o) \/ User!Queue!Call(o)
        BY <2>3
      <3>2. PICK p \in Queue!Phases : phase' = [phase EXCEPT ![o] = p]
        BY <3>1 DEF User!Queue!Accept, User!Queue!Decide, User!Queue!Call, Queue!Phases
      <3>3. o \in AllRequests /\ o \notin FlightModes
        BY SameRequests DEF AllRequests
      <3>4. User!TypeOK' /\ User!InFlight' = User!InFlight
        <4>1. User!TypeOK' /\ User!InFlight' = User!InFlight \ {o}
          BY <1>0, <2>1, <3>2, <3>3, OnePhaseChanges
        <4> QED
          BY <1>0, <3>3, <4>1
      <3> QED
        BY <2>1, <3>4
    <2> QED
      BY <1>5, <2>2, <2>3 DEF User!QueueStep
  <1>6. CASE UNCHANGED User!vars
    BY <1>0, <1>1, <1>6 DEF User!vars
  <1> QED
    BY <1>2, <1>3, <1>4, <1>5, <1>6 DEF User!Next

\* Two changes of the flight mode are never in flight together, and while one is,
\* the flag is set (fcaction.cpp:56, 70, 72), for any number of calls of the user,
\* next to the message interval handler.
THEOREM OneFlightModeChange == ClientsSpec => []OneChangeAtATime
  <1>1. UserInv => OneChangeAtATime
    <2> SUFFICES ASSUME UserInv PROVE User!OneChangeAtATime
      BY DEF OneChangeAtATime
    <2>1. User!Cardinality(User!InFlight) = Cardinality(User!InFlight)
      BY DEF User!Cardinality, Cardinality
    <2>2. Cardinality(User!InFlight) <= 1
      <3>1. CASE User!InFlight = {}
        BY <3>1, FS_EmptySet
      <3>2. CASE User!InFlight # {}
        <4>1. PICK f : User!InFlight = {f}
          BY <3>2 DEF UserInv
        <4>2. Cardinality({f}) = 1
          BY FS_Singleton
        <4> QED
          BY <4>1, <4>2
      <3> QED
        BY <3>1, <3>2
    <2> QED
      BY <2>1, <2>2 DEF UserInv, User!OneChangeAtATime
  <1>2. User!Spec => []UserInv
    BY InitUserInv, NextUserInv, PTL DEF User!Spec
  <1> QED
    BY <1>1, <1>2, ClientsImplementFCAction, PTL
=============================================================================
