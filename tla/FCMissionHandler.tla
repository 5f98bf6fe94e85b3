-------------------------- MODULE FCMissionHandler --------------------------
(***************************************************************************)
(* FCMissionHandler (telemetry/action/fcmissionhandler.cpp) fetches the    *)
(* mission of the flight controller over a lossy link and mirrors it into  *)
(* FCMavlinkMissionItemsModel, the list the map shows.                     *)
(*                                                                         *)
(* The telemetry receive thread runs process_message and, on every FC      *)
(* message, opt_send_messages; the UI thread runs resync.  m_mutex makes   *)
(* each of them one step.  The model's slots run on the UI thread: a       *)
(* signal of the receive thread is queued, a signal resync emits on the UI *)
(* thread itself is delivered at once, ahead of what is queued.            *)
(*                                                                         *)
(* Sequence positions are seq + 1.  A message once sent may arrive any     *)
(* number of times, in any order, or never.                                *)
(***************************************************************************)
EXTENDS Integers, Sequences, FiniteSets

CONSTANTS
    Positions,    \* latitude / longitude pairs
    Zero,         \* the pair (0, 0) a new item starts with
    OtherFrame,   \* positions the FC sends in a frame that is not global
    Missions,     \* the missions the FC may hold, sequences of positions
    MaxUploads,   \* how often a new mission is uploaded to the FC
    MaxResyncs,   \* how often the user asks for a resync
    BATCH,        \* how many items are requested at a time (10)
    MaxQueue,     \* how many signals may wait for the UI thread
    OtherCounts,  \* counts of missions of another type (fences, rally points)
    OtherItems    \* and their items, <<seq, position>>

ASSUME ConstantsAssumption ==
    /\ Zero \in Positions
    /\ OtherFrame \subseteq Positions
    /\ Missions \subseteq Seq(Positions)
    /\ MaxUploads \in Nat /\ MaxResyncs \in Nat
    /\ BATCH \in Nat \ {0} /\ MaxQueue \in Nat \ {0}
    /\ OtherCounts \subseteq Nat /\ OtherItems \subseteq Nat \X Positions

VARIABLES
    items,        \* m_mission_items
    missing,      \* m_missing_items (kept in ascending order by the code)
    hasCount,     \* m_has_mission_count
    total,        \* mission_waypoints_current_total, -1 before any count
    status,       \* current_status
    countDue,     \* more than 1 s since m_last_count_request
    itemDue,      \* more than 1 s since m_last_item_request
    ui,           \* m_data of FCMavlinkMissionItemsModel
    uiQueue,      \* the queued signals of the UI thread
    link,         \* every mission message ever sent by the FC
    askedCount,   \* a MISSION_REQUEST_LIST was sent to the FC
    askedItems,   \* the indices a MISSION_REQUEST_INT was sent for
    mission,      \* the mission the FC holds
    uploads, resyncs

vars == <<items, missing, hasCount, total, status, countDue, itemDue, ui, uiQueue,
          link, askedCount, askedItems, mission, uploads, resyncs>>

asked  == <<askedCount, askedItems>>
fcVars == <<link, mission, uploads>>

Item(pos, updated) == [pos |-> pos, updated |-> updated]
Element(pos, valid) == [pos |-> pos, valid |-> valid]

CountMsg(n, primary) == [kind |-> "count", n |-> n, primary |-> primary]
ItemMsg(i, pos, primary) ==
    [kind |-> "item", seq |-> i, pos |-> pos, primary |-> primary]

\* The two slots of the model, as functions of its rows.
qt_ui_resize(n) == [i \in 1..n |-> Element(Zero, FALSE)]
\* Fault: the rows are counted from one.
qt_ui_update_element_from_one(rows, i, pos) ==
    IF i \in 1..Len(rows) THEN [rows EXCEPT ![i] = Element(pos, TRUE)] ELSE rows
qt_ui_update_element(rows, i, pos) ==
    IF i + 1 \in 1..Len(rows) THEN [rows EXCEPT ![i + 1] = Element(pos, TRUE)] ELSE rows

\* Fault: the last item is left out.
recalculate_all_but_last(its) == {i \in 0..(Len(its) - 2) : ~its[i + 1].updated}
\* m_missing_items after recalculate_missing().
recalculate_missing(its) == {i \in 0..(Len(its) - 1) : ~its[i + 1].updated}

Init ==
    /\ items = <<>> /\ missing = {} /\ hasCount = FALSE /\ total = -1
    /\ status = "N/A"
    /\ countDue = FALSE /\ itemDue = FALSE
    /\ ui = <<>> /\ uiQueue = <<>>
    /\ link = {CountMsg(n, FALSE) : n \in OtherCounts}
              \cup {ItemMsg(i[1], i[2], FALSE) : i \in OtherItems}
    /\ askedCount = FALSE /\ askedItems = {}
    /\ mission \in Missions
    /\ uploads = 0 /\ resyncs = 0

-----------------------------------------------------------------------------
(* The telemetry receive thread                                            *)

\* Fault: indices below BATCH, not the first BATCH of the list.
FirstIndices == {i \in missing : i < BATCH}
\* The first BATCH elements of m_missing_items.
FirstMissing == {i \in missing : Cardinality({j \in missing : j < i}) < BATCH}

\* opt_send_messages
OptSendMessages ==
    /\ \/ /\ ~hasCount
          /\ status' = "Requesting"
          /\ askedCount' = (askedCount \/ countDue)
          /\ countDue' = FALSE
          /\ UNCHANGED <<itemDue, askedItems>>
       \/ /\ hasCount /\ missing = {}
          /\ status' = "Done"
          /\ UNCHANGED <<asked, countDue, itemDue>>
       \/ /\ hasCount /\ missing # {} /\ itemDue
          /\ status' = "missing"
          /\ askedItems' = askedItems \cup FirstMissing
          /\ itemDue' = FALSE
          /\ UNCHANGED <<countDue, askedCount>>
    /\ UNCHANGED <<items, missing, hasCount, total, ui, uiQueue, resyncs, fcVars>>

\* Fault: counts and items of fences and rally points are taken, too.
OfAnyType(m) == TRUE
\* "We are only interested in primary mission"
OfPrimaryMission(m) == m.primary

\* update_mission_count.  (The count is published before the mutex is taken,
\* which no other operation on it can tell.)
UpdateMissionCount(m) ==
    /\ OfPrimaryMission(m)
    /\ total' = m.n
    /\ \/ /\ m.n = Len(items)
          /\ hasCount' = (hasCount \/ m.n = 0)
          /\ UNCHANGED <<items, missing, uiQueue>>
       \/ /\ m.n # Len(items)
          /\ items' = [i \in 1..m.n |-> Item(Zero, FALSE)]
          /\ hasCount' = TRUE
          /\ missing' = recalculate_missing(items')
          /\ uiQueue' = Append(uiQueue, [slot |-> "resize", n |-> m.n])
    /\ UNCHANGED <<status, countDue, itemDue, ui, asked, resyncs, fcVars>>

\* The frames update_mission accepts.
FrameOk(m) == m.pos \notin OtherFrame

\* update_mission
UpdateMission(m) ==
    /\ OfPrimaryMission(m)
    /\ FrameOk(m)
    /\ m.seq < Len(items)
    /\ items' = [items EXCEPT ![m.seq + 1] = Item(m.pos, TRUE)]
    /\ uiQueue' = IF items[m.seq + 1].pos # m.pos
                    THEN Append(uiQueue, [slot |-> "update", seq |-> m.seq, pos |-> m.pos])
                    ELSE uiQueue
    /\ missing' = recalculate_missing(items')
    /\ UNCHANGED <<hasCount, total, status, countDue, itemDue, ui, asked, resyncs, fcVars>>

\* process_message.  The bound stands for a UI thread that keeps up.
ProcessMessage(m) ==
    /\ Len(uiQueue) < MaxQueue
    /\ \/ m.kind = "count" /\ UpdateMissionCount(m)
       \/ m.kind = "item"  /\ UpdateMission(m)

-----------------------------------------------------------------------------
(* The UI thread                                                           *)

\* resync: p_initialize(0) runs its slot directly.
Resync ==
    /\ resyncs < MaxResyncs /\ resyncs' = resyncs + 1
    /\ items' = <<>> /\ missing' = {} /\ hasCount' = FALSE
    /\ ui' = qt_ui_resize(0)
    /\ UNCHANGED <<total, status, countDue, itemDue, uiQueue, asked, fcVars>>

\* The event loop runs the slot of the oldest queued signal.
UiSlot ==
    /\ uiQueue # <<>>
    /\ LET s == Head(uiQueue)
       IN  ui' = IF s.slot = "resize" THEN qt_ui_resize(s.n)
                 ELSE qt_ui_update_element(ui, s.seq, s.pos)
    /\ uiQueue' = Tail(uiQueue)
    /\ UNCHANGED <<items, missing, hasCount, total, status, countDue, itemDue, asked,
                   resyncs, fcVars>>

-----------------------------------------------------------------------------
(* Time and the flight controller                                          *)

\* The two intervals of one second elapse.
SecondPasses ==
    /\ ~(countDue /\ itemDue)
    /\ countDue' = TRUE /\ itemDue' = TRUE
    /\ UNCHANGED <<items, missing, hasCount, total, status, ui, uiQueue, asked, resyncs,
                   fcVars>>

FcSends(m) ==
    /\ m \notin link
    /\ link' = link \cup {m}
    /\ UNCHANGED <<items, missing, hasCount, total, status, countDue, itemDue, ui, uiQueue,
                   asked, mission, uploads, resyncs>>

\* The FC answers a request it received with what it holds.
FcAnswers ==
    \/ askedCount /\ FcSends(CountMsg(Len(mission), TRUE))
    \/ \E i \in 1..Len(mission) :
          i - 1 \in askedItems /\ FcSends(ItemMsg(i - 1, mission[i], TRUE))

\* Somebody uploads another mission to the FC.
FcUpload(m) ==
    /\ uploads < MaxUploads /\ uploads' = uploads + 1
    /\ mission' = m
    /\ UNCHANGED <<items, missing, hasCount, total, status, countDue, itemDue, ui, uiQueue,
                   link, asked, resyncs>>

Next ==
    \/ OptSendMessages
    \/ \E m \in link : ProcessMessage(m)
    \/ Resync
    \/ UiSlot
    \/ SecondPasses
    \/ FcAnswers
    \/ \E m \in Missions : FcUpload(m)

Spec == Init /\ [][Next]_vars

\* The FC keeps sending messages (each runs opt_send_messages), the UI thread
\* runs, time passes, the FC answers what reaches it, and a message that is
\* sent again and again eventually gets through.
Messages == {CountMsg(Len(m), TRUE) : m \in Missions}
            \cup UNION {{ItemMsg(i - 1, m[i], TRUE) : i \in 1..Len(m)} : m \in Missions}

Fairness ==
    /\ WF_vars(OptSendMessages)
    /\ WF_vars(UiSlot)
    /\ WF_vars(SecondPasses)
    /\ WF_vars(FcAnswers)
    /\ \A m \in Messages : SF_vars(m \in link /\ ProcessMessage(m))

FairSpec == Spec /\ Fairness

-----------------------------------------------------------------------------
(* Properties                                                              *)

MissionMessages == [kind : {"count"}, n : Nat, primary : BOOLEAN]
                   \cup [kind : {"item"}, seq : Nat, pos : Positions, primary : BOOLEAN]
Signals == [slot : {"resize"}, n : Nat] \cup [slot : {"update"}, seq : Nat, pos : Positions]

TypeOK ==
    /\ items \in Seq([pos : Positions, updated : BOOLEAN])
    /\ missing \subseteq Nat
    /\ hasCount \in BOOLEAN
    /\ total \in Int
    /\ status \in {"N/A", "Requesting", "missing", "Done"}
    /\ countDue \in BOOLEAN /\ itemDue \in BOOLEAN
    /\ ui \in Seq([pos : Positions, valid : BOOLEAN])
    /\ uiQueue \in Seq(Signals)
    /\ link \subseteq MissionMessages
    /\ askedCount \in BOOLEAN /\ askedItems \subseteq Nat
    /\ mission \in Missions
    /\ uploads \in Nat /\ resyncs \in Nat

\* m_missing_items, which decides what is requested and when the fetch is done,
\* always agrees with the updated flags, through resyncs, changed counts, and
\* items that arrive late, twice or out of order (fcmissionhandler.cpp:217).
MissingIsExact ==
    missing = {i \in 0..(Len(items) - 1) : ~items[i + 1].updated}

\* Without a mission count there are no items, and with one there are as many
\* as the count shown to the user.
CountMatchesItems ==
    /\ ~hasCount => items = <<>>
    /\ hasCount  => total = Len(items)

\* While the FC keeps its mission, no item the handler holds as received
\* differs from the FC's, and none lies outside of the FC's mission.
ItemsAreTheFCs ==
    uploads = 0 /\ hasCount =>
        /\ Len(items) = Len(mission)
        /\ \A i \in 1..Len(items) : items[i].updated => items[i].pos = mission[i]

\* When the UI thread has caught up and a count is known, the list the map
\* shows has the handler's size, and shows every received position
\* (fcmavlinkmissionitemsmodel.h:16-17).  An empty mission after a resync is left
\* out: a resize still queued then fills the list again behind the resync, and a
\* count of zero, the size of the emptied items, resets nothing (fcmissionhandler.cpp:141).
MapShowsMission ==
    uiQueue = <<>> /\ hasCount /\ (items # <<>> \/ resyncs = 0) =>
        /\ Len(ui) = Len(items)
        /\ \A i \in 1..Len(ui) :
              items[i].updated /\ items[i].pos # Zero => ui[i] = Element(items[i].pos, TRUE)

\* The fetch finishes: "get all the mission waypoints from the FC"
\* (fcmissionhandler.h:19), whatever was lost, and after any resync, as long as
\* the FC keeps its mission and all of it is in a global frame (an item in another
\* frame is ignored, line 168, and requested for good).
Fetchable == uploads = 0 /\ \A i \in 1..Len(mission) : mission[i] \notin OtherFrame
FetchFinishes ==
    []Fetchable => <>[](status = "Done" /\ missing = {} /\ Len(items) = Len(mission))
=============================================================================
