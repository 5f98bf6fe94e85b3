------------------------- MODULE WBLinkSettingsHelper -------------------------
(***************************************************************************)
(* WBLinkSettingsHelper (telemetry/settings/wblinksettingshelper.cpp): how *)
(* the user changes the parameters of the wifibroadcast link on the ground *)
(* and on the air unit, by sets of XParam.                                 *)
(*                                                                         *)
(* Its functions run on the UI thread.  The blocking ones keep it until    *)
(* the set is decided; the results of the asynchronous ones are shown in   *)
(* the HUD from the threads of XParam.                                     *)
(***************************************************************************)
EXTENDS XParam

CONSTANTS
    StbcLdpc,      \* the sets of set_param_stbc_ldpc_enable_air_ground, in order
    AirAsync,      \* the sets of change_param_air_async
    OneSet         \* those of the functions that make one blocking set

\* A call belongs to one function.
ASSUME LinkAssumption ==
    /\ StbcLdpc \in Seq(Sets) /\ IsInjective(StbcLdpc)
    /\ Sets = ToSet(StbcLdpc) \cup AirAsync \cup OneSet
    /\ Blocking \cap Sets = ToSet(StbcLdpc) \cup OneSet
    /\ OneSet \cap ToSet(StbcLdpc) = {} /\ AirAsync \cap Blocking = {}

VARIABLE hud       \* [AirAsync -> Nat], messages in the HUD about a change

LinkInit == Init /\ hud = [c \in AirAsync |-> 0]

-----------------------------------------------------------------------------
(* set_param_stbc_ldpc_enable_air_ground                                   *)

\* Fault: a result is not looked at.
GoesOnAnyway(i) == caller[StbcLdpc[i]] \in {"refused", "returned_true", "returned_false"}
\* if(!result)return false
GoesOn(i) == caller[StbcLdpc[i]] = "returned_true"

IsNext(i) == caller[StbcLdpc[i]] = "idle" /\ (i > 1 => GoesOn(i - 1))

\* The UI thread is in none of the functions.
UiIsFree ==
    /\ \A c \in Blocking : caller[c] # "waiting"
    /\ \A i \in 2..Len(StbcLdpc) : ~IsNext(i)

SetStbcLdpc ==
    /\ \E i \in DOMAIN StbcLdpc :
          /\ IsNext(i) /\ (i = 1 => UiIsFree)
          /\ TrySetParam(StbcLdpc[i])
    /\ UNCHANGED hud

-----------------------------------------------------------------------------
(* The other functions                                                     *)

\* Fault: nothing is said of a set that was refused.
BusySilently(c) == 0
\* "Busy - cannot change ..., try again later"
BusyMessages(c) == IF caller'[c] = "refused" THEN 1 ELSE 0

\* change_param_air_async, and change_param_air_channel_width_async, which tests
\* twice whether the air unit is alive; it may be or not.
ChangeParamAirAsync(c) ==
    /\ UiIsFree /\ caller[c] = "idle" /\ hud[c] = 0
    /\ \/ hud' = [hud EXCEPT ![c] = 1] /\ UNCHANGED vars
       \/ TrySetParam(c) /\ hud' = [hud EXCEPT ![c] = BusyMessages(c)]

\* change_param_air_and_ground_blocking (which sets the air unit only),
\* change_param_ground_only_blocking, set_param_tx_power.
ChangeParamBlocking(c) ==
    UiIsFree /\ TrySetParam(c) /\ UNCHANGED hud

-----------------------------------------------------------------------------
(* XParam                                                                  *)

\* res_cb of an asynchronous change shows how it ended.
XParamStep ==
    /\ \/ \E c \in Calls : BlockingReturn(c) \/ Elapse(c)
       \/ \E s \in Sets, result \in AckResults : ServerSets(s, result)
       \/ \E ack \in acks : HandleParamExtAck(ack)
       \/ ReceiveCallback \/ TimeoutThread
    /\ hud' = [c \in AirAsync |-> hud[c] + Len(delivered'[c]) - Len(delivered[c])]

LinkNext ==
    \/ SetStbcLdpc
    \/ \E c \in AirAsync : ChangeParamAirAsync(c)
    \/ \E c \in OneSet : ChangeParamBlocking(c)
    \/ XParamStep

LinkSpec == LinkInit /\ [][LinkNext]_<<vars, hud>>

-----------------------------------------------------------------------------
(* Properties                                                              *)

\* The air unit never transmits with what the ground unit was not told to receive:
\* wherever the sequence ends, every set before one that was applied was applied,
\* too, and all of them if the user is told that it worked
\* (wblinksettingshelper.cpp:289-308).
GroundBeforeAir ==
    /\ \A i, j \in DOMAIN StbcLdpc :
          i < j /\ StbcLdpc[j] \in applied => StbcLdpc[i] \in applied
    /\ caller[Last(StbcLdpc)] = "returned_true" => ToSet(StbcLdpc) \subseteq applied

\* The user is told once of every change: that the air unit is not alive, that
\* XParam is busy, or how it ended (wblinksettingshelper.cpp:320-360).
ToldOnce ==
    \A c \in AirAsync : hud[c] = (IF caller[c] = "refused" \/ Called(c) THEN 1 ELSE 0)
                        \/ (hud[c] = 1 /\ caller[c] = "idle")
=============================================================================
