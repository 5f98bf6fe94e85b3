---------------------------- MODULE RequestQueue ----------------------------
(***************************************************************************)
(* What a sender of requests over a lossy link promises to its callers.    *)
(*                                                                         *)
(* A request is refused at once when the queue is at its limit.  Otherwise *)
(* it is queued, its fate is decided once (an answer arrived, or every     *)
(* transmission went unanswered), and its result callback is then called   *)
(* once with that fate.  CmdSender and XParam (parameter set) are shown to *)
(* implement this specification.                                           *)
(***************************************************************************)
EXTENDS Naturals, FiniteSets

CONSTANTS Requests,   \* the calls made during a behaviour
          Limit       \* how many requests may be queued at a time

VARIABLE phase        \* [Requests -> Phases], how far each request has come

Phases == {"idle", "refused", "queued",
           "answered", "exhausted",              \* decided, callback pending
           "cb_answered", "cb_exhausted"}        \* callback called

Queued == {r \in Requests : phase[r] = "queued"}

Init == phase = [r \in Requests |-> "idle"]

\* The caller hands a request over and the queue has room.
Accept(r) ==
    /\ phase[r] = "idle"
    /\ Cardinality(Queued) < Limit
    /\ phase' = [phase EXCEPT ![r] = "queued"]

\* The caller hands a request over and the queue is at its limit.
Refuse(r) ==
    /\ phase[r] = "idle"
    /\ Cardinality(Queued) = Limit
    /\ phase' = [phase EXCEPT ![r] = "refused"]

\* The request leaves the queue: an answer arrived or the sender gave up.
Decide(r) ==
    /\ phase[r] = "queued"
    /\ \E fate \in {"answered", "exhausted"} : phase' = [phase EXCEPT ![r] = fate]

\* The result callback is called with the fate that was decided.
Call(r) ==
    \/ phase[r] = "answered"  /\ phase' = [phase EXCEPT ![r] = "cb_answered"]
    \/ phase[r] = "exhausted" /\ phase' = [phase EXCEPT ![r] = "cb_exhausted"]

Next == \E r \in Requests : Accept(r) \/ Refuse(r) \/ Decide(r) \/ Call(r)

Spec == Init /\ [][Next]_phase

\* With the guarantee that a queued request is decided and its callback called.
FairSpec == Spec /\ \A r \in Requests : WF_phase(Decide(r)) /\ WF_phase(Call(r))
=============================================================================
