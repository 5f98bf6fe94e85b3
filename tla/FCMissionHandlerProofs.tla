----------------------- MODULE FCMissionHandlerProofs -----------------------
(* Proofs about FCMissionHandler, for any missions and any bounds.         *)
EXTENDS FCMissionHandler, SequenceTheorems, TLAPS

ItemSet    == [pos : Positions, updated : BOOLEAN]
ElementSet == [pos : Positions, valid : BOOLEAN]

\* A vector of n equal elements, as resize and the rebuilt item list make them.
LEMMA ConstantVector ==
    ASSUME NEW S, NEW e \in S, NEW n \in Nat
    PROVE  /\ [i \in 1..n |-> e] \in Seq(S)
           /\ Len([i \in 1..n |-> e]) = n
  OBVIOUS

\* The slots of the list model keep its rows well formed.
LEMMA SlotTypes ==
    ASSUME TypeOK, NEW n \in Nat, NEW i \in Nat, NEW pos \in Positions
    PROVE  /\ qt_ui_resize(n) \in Seq(ElementSet)
           /\ qt_ui_update_element(ui, i, pos) \in Seq(ElementSet)
  <1>1. Element(Zero, FALSE) \in ElementSet /\ Element(pos, TRUE) \in ElementSet
    BY ConstantsAssumption DEF Element, ElementSet
  <1>2. qt_ui_resize(n) \in Seq(ElementSet)
    BY <1>1, ConstantVector DEF qt_ui_resize
  <1>3. ui \in Seq(ElementSet)
    BY DEF TypeOK, ElementSet
  <1>4. qt_ui_update_element(ui, i, pos) \in Seq(ElementSet)
    BY <1>1, <1>3, ExceptSeq DEF qt_ui_update_element
  <1> QED
    BY <1>2, <1>4

\* The missing items are indices of the item list.
LEMMA RecalculateType ==
    ASSUME NEW its \in Seq(ItemSet)
    PROVE  recalculate_missing(its) \subseteq Nat
  BY DEF recalculate_missing

\* A changed count rebuilds the items.
LEMMA RebuiltItems ==
    ASSUME NEW n \in Nat
    PROVE  /\ [i \in 1..n |-> Item(Zero, FALSE)] \in Seq(ItemSet)
           /\ Len([i \in 1..n |-> Item(Zero, FALSE)]) = n
           /\ \A i \in 1..n : ~[j \in 1..n |-> Item(Zero, FALSE)][i].updated
  <1>1. Item(Zero, FALSE) \in ItemSet /\ ~Item(Zero, FALSE).updated
    BY ConstantsAssumption DEF Item, ItemSet
  <1> QED
    BY <1>1, ConstantVector

\* A received item is replaced in place.
LEMMA UpdatedItems ==
    ASSUME TypeOK, NEW k \in 1..Len(items), NEW pos \in Positions
    PROVE  LET its == [items EXCEPT ![k] = Item(pos, TRUE)]
           IN  /\ its \in Seq(ItemSet) /\ Len(its) = Len(items)
               /\ its[k] = Item(pos, TRUE)
               /\ \A i \in 1..Len(items) : i # k => its[i] = items[i]
  <1>1. Item(pos, TRUE) \in ItemSet /\ items \in Seq(ItemSet)
    BY DEF Item, ItemSet, TypeOK
  <1>2. ASSUME NEW e \in ItemSet
        PROVE  /\ [items EXCEPT ![k] = e] \in Seq(ItemSet)
               /\ Len([items EXCEPT ![k] = e]) = Len(items)
               /\ [items EXCEPT ![k] = e][k] = e
               /\ \A i \in 1..Len(items) : i # k => [items EXCEPT ![k] = e][i] = items[i]
    BY <1>1, ExceptSeq
  <1> QED
    BY <1>1, <1>2

-----------------------------------------------------------------------------
\* A handler that has heard nothing has the types.
LEMMA InitTypeOK == Init => TypeOK
  <1> SUFFICES ASSUME Init PROVE TypeOK
    OBVIOUS
  <1>1. \A n \in OtherCounts : CountMsg(n, FALSE) \in MissionMessages
    BY ConstantsAssumption DEF MissionMessages, CountMsg
  <1>1a. \A i \in OtherItems : ItemMsg(i[1], i[2], FALSE) \in MissionMessages
    BY ConstantsAssumption DEF MissionMessages, ItemMsg
  <1>2. link \subseteq MissionMessages
    BY <1>1, <1>1a DEF Init
  <1>3. /\ items \in Seq([pos : Positions, updated : BOOLEAN])
        /\ ui \in Seq([pos : Positions, valid : BOOLEAN])
        /\ uiQueue \in Seq(Signals)
    BY DEF Init
  <1>4. /\ missing \subseteq Nat /\ askedItems \subseteq Nat /\ total \in Int
        /\ uploads \in Nat /\ resyncs \in Nat /\ mission \in Missions
        /\ status \in {"N/A", "Requesting", "missing", "Done"}
    BY DEF Init
  <1>5. /\ hasCount \in BOOLEAN /\ countDue \in BOOLEAN /\ itemDue \in BOOLEAN
        /\ askedCount \in BOOLEAN
    BY DEF Init
  <1> QED
    BY <1>2, <1>3, <1>4, <1>5 DEF TypeOK

\* Every step keeps the types.
LEMMA NextTypeOK == TypeOK /\ [Next]_vars => TypeOK'
  <1> SUFFICES ASSUME TypeOK, [Next]_vars PROVE TypeOK'
    OBVIOUS
  <1> USE ConstantsAssumption DEF TypeOK, fcVars, asked
  <1>1. CASE OptSendMessages
    BY <1>1 DEF OptSendMessages, FirstMissing
  <1>2. ASSUME NEW m \in link, m.kind = "count", UpdateMissionCount(m) PROVE TypeOK'
    <2>1. m.n \in Nat
      BY <1>2 DEF MissionMessages
    <2>2. CASE m.n = Len(items)
      <3>1. UNCHANGED <<items, missing, uiQueue>> /\ hasCount' \in BOOLEAN
        BY <1>2, <2>2 DEF UpdateMissionCount
      <3>2. total' \in Int
        BY <1>2, <2>1 DEF UpdateMissionCount
      <3> QED
        BY <1>2, <3>1, <3>2 DEF UpdateMissionCount
    <2>3. CASE m.n # Len(items)
      <3>1. /\ items' = [i \in 1..m.n |-> Item(Zero, FALSE)]
            /\ missing' = recalculate_missing(items')
            /\ uiQueue' = Append(uiQueue, [slot |-> "resize", n |-> m.n])
        BY <1>2, <2>3 DEF UpdateMissionCount
      <3>2. items' \in Seq(ItemSet)
        BY <2>1, <3>1, RebuiltItems
      <3>3. missing' \subseteq Nat
        BY <3>1, <3>2, RecalculateType
      <3>4. [slot |-> "resize", n |-> m.n] \in Signals
        BY <2>1 DEF Signals
      <3>5. uiQueue' \in Seq(Signals)
        BY <3>1, <3>4, AppendProperties
      <3>6. total' \in Int
        BY <1>2, <2>1 DEF UpdateMissionCount
      <3>7. hasCount' \in BOOLEAN
        BY <1>2, <2>3 DEF UpdateMissionCount
      <3>8. UNCHANGED <<status, countDue, itemDue, ui, asked, resyncs, fcVars>>
        BY <1>2 DEF UpdateMissionCount
      <3> QED
        BY <3>2, <3>3, <3>5, <3>6, <3>7, <3>8 DEF ItemSet
    <2> QED
      BY <2>2, <2>3
  <1>3. ASSUME NEW m \in link, m.kind = "item", UpdateMission(m) PROVE TypeOK'
    <2>1. m.seq \in Nat /\ m.pos \in Positions /\ m.seq + 1 \in 1..Len(items)
      BY <1>3 DEF MissionMessages, UpdateMission
    <2>2. /\ items' = [items EXCEPT ![m.seq + 1] = Item(m.pos, TRUE)]
          /\ missing' = recalculate_missing(items')
      BY <1>3 DEF UpdateMission
    <2>3. items' \in Seq(ItemSet)
      BY <2>1, <2>2, UpdatedItems
    <2>4. missing' \subseteq Nat
      BY <2>2, <2>3, RecalculateType
    <2>5. [slot |-> "update", seq |-> m.seq, pos |-> m.pos] \in Signals
      BY <2>1 DEF Signals
    <2>6. uiQueue' \in Seq(Signals)
      BY <1>3, <2>5, AppendProperties DEF UpdateMission
    <2> QED
      BY <1>3, <2>3, <2>4, <2>6 DEF UpdateMission, ItemSet
  <1>4. CASE Resync
    <2>1. ui' \in Seq(ElementSet)
      BY <1>4, SlotTypes DEF Resync
    <2>2. items' \in Seq([pos : Positions, updated : BOOLEAN])
      BY <1>4 DEF Resync
    <2>3. hasCount' \in BOOLEAN
      BY <1>4 DEF Resync
    <2>4. missing' \subseteq Nat /\ resyncs' \in Nat
      BY <1>4 DEF Resync
    <2>5. UNCHANGED <<total, status, countDue, itemDue, uiQueue, asked, fcVars>>
      BY <1>4 DEF Resync
    <2> QED
      BY <2>1, <2>2, <2>3, <2>4, <2>5 DEF ElementSet
  <1>5. CASE UiSlot
    <2>1. Head(uiQueue) \in Signals /\ uiQueue' \in Seq(Signals)
      BY <1>5, HeadTailProperties DEF UiSlot
    <2>2. ui' \in Seq(ElementSet)
      BY <1>5, <2>1, SlotTypes DEF UiSlot, Signals
    <2> QED
      BY <1>5, <2>1, <2>2 DEF UiSlot, ElementSet
  <1>6. CASE SecondPasses
    BY <1>6 DEF SecondPasses
  <1>7. ASSUME NEW m \in MissionMessages, FcSends(m) PROVE TypeOK'
    BY <1>7 DEF FcSends
  <1>8. CASE FcAnswers
    <2>1. CASE FcSends(CountMsg(Len(mission), TRUE))
      <3>1. CountMsg(Len(mission), TRUE) \in MissionMessages
        BY DEF CountMsg, MissionMessages
      <3> QED
        BY <1>7, <2>1, <3>1
    <2>2. ASSUME NEW i \in 1..Len(mission), FcSends(ItemMsg(i - 1, mission[i], TRUE)) PROVE TypeOK'
      <3>1. ItemMsg(i - 1, mission[i], TRUE) \in MissionMessages
        BY DEF ItemMsg, MissionMessages
      <3> QED
        BY <1>7, <2>2, <3>1
    <2> QED
      BY <1>8, <2>1, <2>2 DEF FcAnswers
  <1>9. ASSUME NEW m \in Missions, FcUpload(m) PROVE TypeOK'
    BY <1>9 DEF FcUpload
  <1>10. CASE UNCHANGED vars
    BY <1>10 DEF vars
  <1> QED
    BY <1>1, <1>2, <1>3, <1>4, <1>5, <1>6, <1>8, <1>9, <1>10 DEF Next, ProcessMessage

\* Every variable keeps its type; all messages, signals and items are well
\* formed, for missions of any length.
THEOREM TypeCorrect == Spec => []TypeOK
  BY InitTypeOK, NextTypeOK, PTL DEF Spec

-----------------------------------------------------------------------------
(* The bookkeeping of the fetch.  Each part is inductive given TypeOK.     *)

\* Whatever writes the items recalculates the missing ones (lines 155, 199), or clears
\* both (lines 124-125).
LEMMA NextMissingIsExact ==
    TypeOK /\ MissingIsExact /\ [Next]_vars => MissingIsExact'
  <1> SUFFICES ASSUME TypeOK, MissingIsExact, [Next]_vars PROVE MissingIsExact'
    OBVIOUS
  <1>1. ASSUME missing' = recalculate_missing(items') PROVE MissingIsExact'
    BY <1>1 DEF MissingIsExact, recalculate_missing
  <1>2. ASSUME UNCHANGED <<items, missing>> PROVE MissingIsExact'
    BY <1>2 DEF MissingIsExact
  <1>3. ASSUME NEW m \in link, UpdateMissionCount(m) PROVE MissingIsExact'
    BY <1>1, <1>2, <1>3 DEF UpdateMissionCount
  <1>4. ASSUME NEW m \in link, UpdateMission(m) PROVE MissingIsExact'
    BY <1>1, <1>4 DEF UpdateMission
  <1>5. CASE Resync
    <2>1. items' = <<>> /\ missing' = {}
      BY <1>5 DEF Resync
    <2>2. 0..(Len(items') - 1) = {}
      BY <2>1
    <2> QED
      BY <2>1, <2>2 DEF MissingIsExact
  <1>6. CASE OptSendMessages \/ UiSlot \/ SecondPasses \/ FcAnswers
             \/ (\E m \in Missions : FcUpload(m)) \/ UNCHANGED vars
    BY <1>2, <1>6 DEF OptSendMessages, UiSlot, SecondPasses, FcAnswers, FcSends, FcUpload,
                      vars
  <1> QED
    BY <1>3, <1>4, <1>5, <1>6 DEF Next, ProcessMessage

\* The list of missing items, on which both the requests and "Done" rest, is
\* exact for missions of any length and any order of answers.
THEOREM MissingListIsExact == Spec => []MissingIsExact
  <1>1. Init => MissingIsExact
    <2> SUFFICES ASSUME Init PROVE MissingIsExact
      OBVIOUS
    <2>1. items = <<>> /\ missing = {}
      BY DEF Init
    <2>2. 0..(Len(items) - 1) = {}
      BY <2>1
    <2> QED
      BY <2>1, <2>2 DEF MissingIsExact
  <1> QED
    BY <1>1, TypeCorrect, NextMissingIsExact, PTL DEF Spec

\* Only a count changes the number of items, and it is what is shown (lines 138-156).
LEMMA NextCountMatchesItems ==
    TypeOK /\ CountMatchesItems /\ [Next]_vars => CountMatchesItems'
  <1> SUFFICES ASSUME TypeOK, CountMatchesItems, [Next]_vars PROVE CountMatchesItems'
    OBVIOUS
  <1>1. ASSUME NEW m \in link, m.kind = "count", UpdateMissionCount(m)
        PROVE  CountMatchesItems'
    <2>1. m.n \in Nat /\ total' = m.n
      BY <1>1 DEF MissionMessages, TypeOK, UpdateMissionCount
    <2>2. CASE m.n = Len(items)
      <3>1. items' = items /\ hasCount' = (hasCount \/ m.n = 0)
        BY <1>1, <2>2 DEF UpdateMissionCount
      <3> QED
        BY <2>1, <2>2, <3>1 DEF CountMatchesItems
    <2>3. CASE m.n # Len(items)
      <3>1. items' = [i \in 1..m.n |-> Item(Zero, FALSE)] /\ hasCount' = TRUE
        BY <1>1, <2>3 DEF UpdateMissionCount
      <3>2. Len(items') = m.n
        BY <2>1, <3>1, RebuiltItems
      <3> QED
        BY <2>1, <3>1, <3>2 DEF CountMatchesItems
    <2> QED
      BY <2>2, <2>3
  <1>2. ASSUME NEW m \in link, m.kind = "item", UpdateMission(m)
        PROVE  CountMatchesItems'
    <2>1. m.seq \in Nat /\ m.pos \in Positions /\ m.seq + 1 \in 1..Len(items)
      BY <1>2 DEF MissionMessages, TypeOK, UpdateMission
    <2>2. Len(items') = Len(items)
      <3>1. items' = [items EXCEPT ![m.seq + 1] = Item(m.pos, TRUE)]
        BY <1>2 DEF UpdateMission
      <3> QED
        BY <2>1, <3>1, UpdatedItems
    <2>3. items # <<>>
      BY <2>1
    <2> QED
      BY <1>2, <2>2, <2>3 DEF CountMatchesItems, UpdateMission
  <1>3. CASE Resync
    BY <1>3 DEF Resync, CountMatchesItems
  <1>4. CASE OptSendMessages \/ UiSlot \/ SecondPasses \/ FcAnswers
             \/ (\E m \in Missions : FcUpload(m)) \/ UNCHANGED vars
    <2>1. UNCHANGED <<items, hasCount, total>>
      BY <1>4 DEF OptSendMessages, UiSlot, SecondPasses, FcAnswers, FcSends, FcUpload, vars
    <2> QED
      BY <2>1 DEF CountMatchesItems
  <1> QED
    BY <1>1, <1>2, <1>3, <1>4 DEF Next, ProcessMessage

\* The count shown to the user is the number of items the handler holds, and
\* a handler that waits for a count holds none.
THEOREM CountIsConsistent == Spec => []CountMatchesItems
  <1>1. Init => CountMatchesItems
    BY DEF Init, CountMatchesItems
  <1> QED
    BY <1>1, TypeCorrect, NextCountMatchesItems, PTL DEF Spec

-----------------------------------------------------------------------------
(* While the FC keeps its mission, what is on the link, however old, is true *)
(* of that mission; so is, then, what the handler took from it.              *)

TrueOfMission(m) ==
    /\ m.kind = "count" /\ m.primary => m.n = Len(mission)
    /\ m.kind = "item" /\ m.primary => m.seq + 1 \in 1..Len(mission) /\ m.pos = mission[m.seq + 1]

LinkIsTrue == uploads = 0 => \A m \in link : TrueOfMission(m)

FetchInv == TypeOK /\ CountMatchesItems /\ LinkIsTrue /\ ItemsAreTheFCs

\* At first the link carries counts and items of other mission types only.
LEMMA InitFetchInv == Init => LinkIsTrue /\ ItemsAreTheFCs
  <1> SUFFICES ASSUME Init PROVE LinkIsTrue /\ ItemsAreTheFCs
    OBVIOUS
  <1>1. \A m \in link : m.primary = FALSE
    BY DEF Init, CountMsg, ItemMsg
  <1>2. LinkIsTrue
    BY <1>1 DEF LinkIsTrue, TrueOfMission
  <1>3. ItemsAreTheFCs
    BY DEF Init, ItemsAreTheFCs
  <1> QED
    BY <1>2, <1>3

\* The FC sends what it holds.
LEMMA NextLinkIsTrue == TypeOK /\ LinkIsTrue /\ [Next]_vars => LinkIsTrue'
  <1> SUFFICES ASSUME TypeOK, LinkIsTrue, [Next]_vars PROVE LinkIsTrue'
    OBVIOUS
  <1>1. ASSUME UNCHANGED fcVars PROVE LinkIsTrue'
    BY <1>1 DEF fcVars, LinkIsTrue, TrueOfMission
  <1>2. ASSUME NEW m, TrueOfMission(m), FcSends(m) PROVE LinkIsTrue'
    <2>1. UNCHANGED <<mission, uploads>> /\ link' = link \cup {m}
      BY <1>2 DEF FcSends
    <2> QED
      BY <1>2, <2>1 DEF LinkIsTrue, TrueOfMission
  <1>3. CASE FcAnswers
    <2>1. CASE FcSends(CountMsg(Len(mission), TRUE))
      <3>1. TrueOfMission(CountMsg(Len(mission), TRUE))
        BY DEF TrueOfMission, CountMsg
      <3> QED
        BY <1>2, <2>1, <3>1
    <2>2. ASSUME NEW i \in 1..Len(mission), FcSends(ItemMsg(i - 1, mission[i], TRUE))
          PROVE  LinkIsTrue'
      <3>1. i \in Int /\ (i - 1) + 1 = i
        BY DEF TypeOK
      <3>2. TrueOfMission(ItemMsg(i - 1, mission[i], TRUE))
        BY <3>1 DEF TrueOfMission, ItemMsg
      <3> QED
        BY <1>2, <2>2, <3>2
    <2> QED
      BY <1>3, <2>1, <2>2 DEF FcAnswers
  <1>4. ASSUME NEW m \in Missions, FcUpload(m) PROVE LinkIsTrue'
    <2>1. uploads' # 0
      BY <1>4 DEF FcUpload, TypeOK
    <2> QED
      BY <2>1 DEF LinkIsTrue
  <1>5. CASE OptSendMessages \/ UiSlot \/ SecondPasses \/ Resync
             \/ (\E m \in link : ProcessMessage(m)) \/ UNCHANGED vars
    BY <1>1, <1>5 DEF OptSendMessages, UiSlot, SecondPasses, Resync, ProcessMessage,
                      UpdateMissionCount, UpdateMission, vars, fcVars
  <1> QED
    BY <1>3, <1>4, <1>5 DEF Next

\* A count has the size of the mission, an item is one of the mission: so are the items.
LEMMA NextItemsAreTheFCs == FetchInv /\ [Next]_vars => ItemsAreTheFCs'
  <1> SUFFICES ASSUME FetchInv, [Next]_vars PROVE ItemsAreTheFCs'
    OBVIOUS
  <1> USE DEF FetchInv
  <1>1. ASSUME NEW m \in link, m.kind = "count", UpdateMissionCount(m), uploads = 0
        PROVE  ItemsAreTheFCs'
    <2>1. /\ m.n \in Nat /\ m.n = Len(mission)
          /\ UNCHANGED <<mission, uploads>>
      BY <1>1 DEF MissionMessages, TypeOK, UpdateMissionCount, OfPrimaryMission, LinkIsTrue,
         TrueOfMission, fcVars
    <2>2. CASE m.n = Len(items)
      <3>1. items' = items /\ hasCount' = (hasCount \/ m.n = 0)
        BY <1>1, <2>2 DEF UpdateMissionCount
      <3>2. CASE hasCount
        BY <1>1, <2>1, <3>1, <3>2 DEF ItemsAreTheFCs
      <3>3. CASE m.n = 0
        BY <2>1, <2>2, <3>1, <3>3 DEF ItemsAreTheFCs
      <3>4. CASE ~hasCount /\ m.n # 0
        BY <3>1, <3>4 DEF ItemsAreTheFCs
      <3> QED
        BY <3>2, <3>3, <3>4
    <2>3. CASE m.n # Len(items)
      <3>1. items' = [i \in 1..m.n |-> Item(Zero, FALSE)]
        BY <1>1, <2>3 DEF UpdateMissionCount
      <3>2. Len(items') = m.n /\ \A i \in 1..m.n : ~items'[i].updated
        BY <2>1, <3>1, RebuiltItems
      <3> QED
        BY <2>1, <3>2 DEF ItemsAreTheFCs
    <2> QED
      BY <2>2, <2>3
  <1>2. ASSUME NEW m \in link, m.kind = "item", UpdateMission(m), uploads = 0
        PROVE  ItemsAreTheFCs'
    <2>1. m.seq \in Nat /\ m.pos \in Positions /\ m.seq + 1 \in 1..Len(items)
      BY <1>2 DEF MissionMessages, TypeOK, UpdateMission
    <2>2. m.pos = mission[m.seq + 1]
      BY <1>2 DEF UpdateMission, OfPrimaryMission, LinkIsTrue, TrueOfMission
    <2>3. UNCHANGED <<mission, uploads, hasCount>>
      BY <1>2 DEF UpdateMission, fcVars
    <2>4. items # <<>>
      BY <2>1
    <2>5. hasCount
      BY <2>4 DEF CountMatchesItems
    <2>6. /\ Len(items') = Len(items)
          /\ items'[m.seq + 1] = Item(m.pos, TRUE)
          /\ \A i \in 1..Len(items) : i # m.seq + 1 => items'[i] = items[i]
      <3>1. items' = [items EXCEPT ![m.seq + 1] = Item(m.pos, TRUE)]
        BY <1>2 DEF UpdateMission
      <3>2. TypeOK
        BY DEF FetchInv
      <3> QED
        BY <2>1, <3>1, <3>2, UpdatedItems
    <2>7. Item(m.pos, TRUE).pos = m.pos
      BY DEF Item
    <2>8. ASSUME NEW i \in 1..Len(items), items'[i].updated PROVE items'[i].pos = mission[i]
      BY <1>2, <2>2, <2>5, <2>6, <2>7, <2>8 DEF ItemsAreTheFCs
    <2> QED
      BY <1>2, <2>3, <2>5, <2>6, <2>8 DEF ItemsAreTheFCs
  <1>3. ASSUME NEW m \in link, ProcessMessage(m), uploads # 0 PROVE ItemsAreTheFCs'
    BY <1>3 DEF ProcessMessage, UpdateMissionCount, UpdateMission, fcVars, ItemsAreTheFCs
  <1>4. CASE Resync
    BY <1>4 DEF Resync, ItemsAreTheFCs
  <1>5. ASSUME NEW m \in Missions, FcUpload(m) PROVE ItemsAreTheFCs'
    <2>1. uploads' # 0
      BY <1>5 DEF FcUpload, TypeOK
    <2> QED
      BY <2>1 DEF ItemsAreTheFCs
  <1>6. CASE OptSendMessages \/ UiSlot \/ SecondPasses \/ FcAnswers \/ UNCHANGED vars
    <2>1. UNCHANGED <<items, hasCount, mission, uploads>>
      BY <1>6 DEF OptSendMessages, UiSlot, SecondPasses, FcAnswers, FcSends, vars, fcVars
    <2> QED
      BY <2>1 DEF ItemsAreTheFCs
  <1> QED
    BY <1>1, <1>2, <1>3, <1>4, <1>5, <1>6 DEF Next, ProcessMessage

\* As long as nobody changes the mission of the FC, everything the handler
\* holds as received is the FC's mission, whatever was lost, repeated,
\* reordered or resynced.
THEOREM FetchedItemsAreTheFCs == Spec => []ItemsAreTheFCs
  <1>1. Spec => []LinkIsTrue
    BY InitFetchInv, TypeCorrect, NextLinkIsTrue, PTL DEF Spec
  <1> QED
    BY <1>1, InitFetchInv, TypeCorrect, CountIsConsistent, NextItemsAreTheFCs, PTL
       DEF Spec, FetchInv

-----------------------------------------------------------------------------
(* The list on the map.  The UI thread is behind the handler: what the list *)
(* shows once the queued slots have run is what the handler holds.          *)

\* The rows after the slot of signal s ran on them.
AfterSlot(rows, s) ==
    IF s.slot = "resize" THEN qt_ui_resize(s.n) ELSE qt_ui_update_element(rows, s.seq, s.pos)

\* The rows show the items: an item at Zero was not received, or is not told.
Shows(rows, its) ==
    /\ Len(rows) = Len(its)
    /\ \A i \in 1..Len(its) : its[i].pos # Zero => rows[i] = Element(its[i].pos, TRUE)

\* f[k] is the list after k of the queued slots, from slot r on: what was shown
\* before a resize does not matter, so a list that is replaced behind the back of
\* the queue, which resync does, is of no consequence once a resize follows.
Leads(r, f) ==
    /\ IF r = 0 THEN f[0] = ui
                ELSE uiQueue[r].slot = "resize" /\ f[r] = qt_ui_resize(uiQueue[r].n)
    /\ \A k \in r..(Len(uiQueue) - 1) : f[k + 1] = AfterSlot(f[k], uiQueue[k + 1])
    /\ Shows(f[Len(uiQueue)], items)

\* With MapShowsMission's exception it holds in every state, and is inductive.
MapInv ==
    items # <<>> \/ resyncs = 0 =>
        \E r \in 0..Len(uiQueue), f \in [0..Len(uiQueue) -> Seq(ElementSet)] : Leads(r, f)

\* An update in place changes one row, whatever the rows are.
LEMMA UpdatedRows ==
    ASSUME NEW rows \in Seq(ElementSet), NEW i \in Nat, NEW pos \in Positions
    PROVE  /\ qt_ui_update_element(rows, i, pos) \in Seq(ElementSet)
           /\ Len(qt_ui_update_element(rows, i, pos)) = Len(rows)
           /\ i + 1 \in 1..Len(rows) =>
                 qt_ui_update_element(rows, i, pos)[i + 1] = Element(pos, TRUE)
           /\ \A k \in 1..Len(rows) : k # i + 1 =>
                 qt_ui_update_element(rows, i, pos)[k] = rows[k]
  <1>1. Element(pos, TRUE) \in ElementSet
    BY DEF Element, ElementSet
  <1>4. ASSUME NEW e \in ElementSet, i + 1 \in 1..Len(rows)
        PROVE  /\ [rows EXCEPT ![i + 1] = e] \in Seq(ElementSet)
               /\ Len([rows EXCEPT ![i + 1] = e]) = Len(rows)
               /\ [rows EXCEPT ![i + 1] = e][i + 1] = e
               /\ \A k \in 1..Len(rows) : k # i + 1 => [rows EXCEPT ![i + 1] = e][k] = rows[k]
    BY <1>4, ExceptSeq
  <1>2. CASE i + 1 \in 1..Len(rows)
    <2>1. qt_ui_update_element(rows, i, pos) = [rows EXCEPT ![i + 1] = Element(pos, TRUE)]
      BY <1>2 DEF qt_ui_update_element
    <2> DEFINE u == [rows EXCEPT ![i + 1] = Element(pos, TRUE)]
    <2>2. /\ u \in Seq(ElementSet) /\ Len(u) = Len(rows) /\ u[i + 1] = Element(pos, TRUE)
          /\ \A k \in 1..Len(rows) : k # i + 1 => u[k] = rows[k]
      BY <1>1, <1>2, <1>4
    <2> HIDE DEF u
    <2>3. qt_ui_update_element(rows, i, pos) = u
      BY <2>1 DEF u
    <2> QED
      BY <2>2, <2>3
  <1>3. CASE i + 1 \notin 1..Len(rows)
    BY <1>3 DEF qt_ui_update_element
  <1> QED
    BY <1>2, <1>3

\* A resized list shows rebuilt items: both know of no position.
LEMMA ResizedRows ==
    ASSUME NEW n \in Nat
    PROVE  /\ qt_ui_resize(n) \in Seq(ElementSet)
           /\ Shows(qt_ui_resize(n), [i \in 1..n |-> Item(Zero, FALSE)])
  <1>1. Element(Zero, FALSE) \in ElementSet
    BY ConstantsAssumption DEF Element, ElementSet
  <1>2. qt_ui_resize(n) \in Seq(ElementSet) /\ Len(qt_ui_resize(n)) = n
    BY <1>1, ConstantVector DEF qt_ui_resize
  <1>3. Len([i \in 1..n |-> Item(Zero, FALSE)]) = n
    BY RebuiltItems
  <1>4. \A i \in 1..n : [j \in 1..n |-> Item(Zero, FALSE)][i].pos = Zero
    BY DEF Item
  <1> QED
    BY <1>2, <1>3, <1>4 DEF Shows

\* Only the items and the queue, the list and the resyncs matter; an item that
\* is received once more at the same place changes nothing.
LEMMA SameLeads ==
    ASSUME MapInv, UNCHANGED <<ui, uiQueue, resyncs>>,
           Len(items') = Len(items), items # <<>> <=> items' # <<>>,
           \A i \in 1..Len(items) : items'[i].pos = items[i].pos
    PROVE  MapInv'
  <1> SUFFICES ASSUME items' # <<>> \/ resyncs' = 0
               PROVE  (\E r \in 0..Len(uiQueue),
                          f \in [0..Len(uiQueue) -> Seq(ElementSet)] : Leads(r, f))'
    BY DEF MapInv
  <1>1. PICK r \in 0..Len(uiQueue), f \in [0..Len(uiQueue) -> Seq(ElementSet)] : Leads(r, f)
    BY DEF MapInv
  <1>2. Shows(f[Len(uiQueue)], items')
    BY <1>1 DEF Leads, Shows
  <1>3. Leads(r, f)'
    BY <1>1, <1>2 DEF Leads
  <1> QED
    BY <1>3

\* A new count: whatever leads up to it, the resize it queues is the last word.
LEMMA CountKeepsMap ==
    ASSUME TypeOK, NEW n \in Nat,
           items' = [i \in 1..n |-> Item(Zero, FALSE)],
           uiQueue' = Append(uiQueue, [slot |-> "resize", n |-> n])
    PROVE  MapInv'
  <1> DEFINE s == [slot |-> "resize", n |-> n]
  <1>1. uiQueue \in Seq(Signals) /\ s \in Signals
    BY DEF TypeOK, Signals
  <1>2. PICK last \in Nat : Len(uiQueue') = last /\ uiQueue'[last] = s /\ last # 0
    BY <1>1, AppendProperties
  <1>3. PICK g \in [0..last -> Seq(ElementSet)] : g[last] = qt_ui_resize(n)
    <2>1. qt_ui_resize(n) \in Seq(ElementSet)
      BY ResizedRows
    <2> DEFINE h == [k \in 0..last |-> qt_ui_resize(n)]
    <2>2. h \in [0..last -> Seq(ElementSet)] /\ h[last] = qt_ui_resize(n)
      BY <2>1
    <2> HIDE DEF h
    <2> QED
      BY <2>2
  <1>4. Shows(g[last], items')
    BY <1>3, ResizedRows
  <1>5. Leads(last, g)'
    <2>1. last..(Len(uiQueue') - 1) = {}
      BY <1>2
    <2>2. uiQueue'[last].slot = "resize" /\ g[last] = qt_ui_resize(uiQueue'[last].n)
      BY <1>2, <1>3
    <2> QED
      BY <1>2, <1>4, <2>1, <2>2 DEF Leads
  <1>6. last \in 0..last
    BY <1>2
  <1> QED
    BY <1>2, <1>3, <1>5, <1>6 DEF MapInv

\* A received item whose position is new: the update it queues follows.
LEMMA ItemKeepsMap ==
    ASSUME TypeOK, MapInv, NEW seq \in Nat, NEW pos \in Positions, seq + 1 \in 1..Len(items),
           items' = [items EXCEPT ![seq + 1] = Item(pos, TRUE)],
           uiQueue' = Append(uiQueue, [slot |-> "update", seq |-> seq, pos |-> pos]),
           UNCHANGED ui
    PROVE  MapInv'
  <1>0. PICK n \in Nat : n = Len(uiQueue)
    BY DEF TypeOK
  <1> DEFINE s == [slot |-> "update", seq |-> seq, pos |-> pos]
  <1>1. uiQueue \in Seq(Signals) /\ s \in Signals
    BY DEF TypeOK, Signals
  <1>2. items # <<>>
    BY DEF TypeOK
  <1>3. PICK r \in 0..n, f \in [0..n -> Seq(ElementSet)] : Leads(r, f)
    BY <1>0, <1>2 DEF MapInv
  <1> DEFINE rows == AfterSlot(f[n], s)
  <1>4. /\ Len(uiQueue') = n + 1 /\ uiQueue'[n + 1] = s
        /\ \A k \in 1..n : uiQueue'[k] = uiQueue[k]
    BY <1>0, <1>1, AppendProperties
  <1>5. f[n] \in Seq(ElementSet)
    OBVIOUS
  <1>6. rows = qt_ui_update_element(f[n], seq, pos)
    BY DEF AfterSlot
  <1>7. rows \in Seq(ElementSet)
    BY <1>5, <1>6, UpdatedRows
  <1>8. Shows(rows, items')
    <2>1. Shows(f[n], items)
      BY <1>0, <1>3 DEF Leads
    <2>2. /\ Len(items') = Len(items) /\ items'[seq + 1] = Item(pos, TRUE)
          /\ \A i \in 1..Len(items) : i # seq + 1 => items'[i] = items[i]
      BY UpdatedItems
    <2>3. Item(pos, TRUE).pos = pos
      BY DEF Item
    <2>4. /\ Len(rows) = Len(f[n]) /\ rows[seq + 1] = Element(pos, TRUE)
          /\ \A i \in 1..Len(items) : i # seq + 1 => rows[i] = f[n][i]
      <3>1. Len(f[n]) = Len(items)
        BY <2>1 DEF Shows
      <3>2. /\ Len(qt_ui_update_element(f[n], seq, pos)) = Len(f[n])
            /\ seq + 1 \in 1..Len(f[n]) =>
                  qt_ui_update_element(f[n], seq, pos)[seq + 1] = Element(pos, TRUE)
            /\ \A i \in 1..Len(f[n]) : i # seq + 1 =>
                  qt_ui_update_element(f[n], seq, pos)[i] = f[n][i]
        BY <1>5, UpdatedRows
      <3> HIDE DEF rows
      <3> QED
        BY <1>6, <3>1, <3>2
    <2> HIDE DEF rows
    <2> QED
      BY <2>1, <2>2, <2>3, <2>4 DEF Shows
  <1> HIDE DEF rows, s
  <1>9. PICK g \in [0..(n + 1) -> Seq(ElementSet)] :
            g[n + 1] = rows /\ \A k \in 0..n : g[k] = f[k]
    <2> DEFINE h == [k \in 0..(n + 1) |-> IF k = n + 1 THEN rows ELSE f[k]]
    <2>1. h \in [0..(n + 1) -> Seq(ElementSet)]
      BY <1>7
    <2>2. h[n + 1] = rows
      OBVIOUS
    <2>3. \A k \in 0..n : h[k] = f[k]
      OBVIOUS
    <2> HIDE DEF h
    <2> QED
      BY <2>1, <2>2, <2>3
  <1>10. rows = AfterSlot(f[n], s)
    BY DEF rows
  <1>11. Leads(r, g)'
    <2>1. IF r = 0 THEN g[0] = ui'
                   ELSE uiQueue'[r].slot = "resize" /\ g[r] = qt_ui_resize(uiQueue'[r].n)
      <3>1. IF r = 0 THEN f[0] = ui
                     ELSE uiQueue[r].slot = "resize" /\ f[r] = qt_ui_resize(uiQueue[r].n)
        BY <1>3 DEF Leads
      <3> QED
        BY <1>4, <1>9, <3>1
    <2>2. \A k \in r..n : g[k + 1] = AfterSlot(g[k], uiQueue'[k + 1])
      <3> SUFFICES ASSUME NEW k \in r..n PROVE g[k + 1] = AfterSlot(g[k], uiQueue'[k + 1])
        OBVIOUS
      <3>1. CASE k = n
        BY <1>1, <1>4, <1>9, <1>10, <3>1
      <3>2. CASE k # n
        <4>1. k \in r..(n - 1) /\ k + 1 \in 1..n /\ k \in 0..n
          BY <1>1, <3>2
        <4>2. f[k + 1] = AfterSlot(f[k], uiQueue[k + 1])
          BY <1>0, <1>3, <4>1 DEF Leads
        <4>3. g[k + 1] = f[k + 1] /\ g[k] = f[k]
          BY <1>9, <4>1
        <4> QED
          BY <1>4, <4>1, <4>2, <4>3
      <3> QED
        BY <3>1, <3>2
    <2>3. Shows(g[n + 1], items')
      BY <1>8, <1>9
    <2>4. (n + 1) - 1 = n
      BY <1>1
    <2> QED
      BY <1>4, <2>1, <2>2, <2>3, <2>4 DEF Leads
  <1>12. r \in 0..(n + 1)
    BY <1>1
  <1> QED
    BY <1>4, <1>9, <1>11, <1>12 DEF MapInv

\* The oldest slot runs: the rest of the queue leads to the same list.
LEMMA SlotKeepsMap ==
    ASSUME TypeOK, MapInv, UiSlot
    PROVE  MapInv'
  <1> SUFFICES ASSUME items' # <<>> \/ resyncs' = 0
               PROVE  (\E r \in 0..Len(uiQueue),
                          f \in [0..Len(uiQueue) -> Seq(ElementSet)] : Leads(r, f))'
    BY DEF MapInv
  <1>0. PICK n \in Nat : n = Len(uiQueue)
    BY DEF TypeOK
  <1>1. UNCHANGED <<items, resyncs>>
    BY DEF UiSlot
  <1>2. PICK r \in 0..n, f \in [0..n -> Seq(ElementSet)] : Leads(r, f)
    BY <1>0, <1>1 DEF MapInv
  <1>3. uiQueue \in Seq(Signals) /\ uiQueue # <<>> /\ uiQueue' = Tail(uiQueue)
    BY DEF TypeOK, UiSlot
  <1>4. /\ n # 0 /\ Len(uiQueue') = n - 1
        /\ \A k \in 1..(n - 1) : uiQueue'[k] = uiQueue[k + 1]
        /\ Head(uiQueue) = uiQueue[1]
    BY <1>0, <1>3, HeadTailProperties
  <1>5. ui' = AfterSlot(ui, uiQueue[1])
    BY <1>4 DEF UiSlot, AfterSlot
  <1>6. PICK g \in [0..(n - 1) -> Seq(ElementSet)] : \A k \in 0..(n - 1) : g[k] = f[k + 1]
    <2>1. [k \in 0..(n - 1) |-> f[k + 1]] \in [0..(n - 1) -> Seq(ElementSet)]
      BY <1>4
    <2> QED
      BY <2>1
  <1>7. ASSUME NEW k \in 0..(n - 2), k + 1 \in r..(n - 1)
        PROVE  g[k + 1] = AfterSlot(g[k], uiQueue'[k + 1])
    <2>1. f[(k + 1) + 1] = AfterSlot(f[k + 1], uiQueue[(k + 1) + 1])
      BY <1>0, <1>2, <1>7 DEF Leads
    <2>2. k + 1 \in 0..(n - 1) /\ k \in 0..(n - 1) /\ k + 1 \in 1..(n - 1)
      BY <1>4
    <2> QED
      BY <1>4, <1>6, <2>1, <2>2
  <1>8. Shows(g[n - 1], items')
    <2>1. g[n - 1] = f[(n - 1) + 1] /\ (n - 1) + 1 = n
      BY <1>4, <1>6
    <2> QED
      BY <1>0, <1>1, <1>2, <2>1 DEF Leads
  <1>9. CASE r \in {0, 1}
    <2>1. g[0] = ui'
      <3>1. g[0] = f[1]
        BY <1>4, <1>6
      <3>2. CASE r = 0
        <4>1. f[0] = ui
          BY <1>2, <3>2 DEF Leads
        <4>2. 0 \in r..(n - 1)
          BY <1>4, <3>2
        <4>3. f[0 + 1] = AfterSlot(f[0], uiQueue[0 + 1])
          BY <1>0, <1>2, <4>2 DEF Leads
        <4> QED
          BY <1>5, <3>1, <4>1, <4>3
      <3>3. CASE r = 1
        <4>1. uiQueue[1].slot = "resize" /\ f[1] = qt_ui_resize(uiQueue[1].n)
          BY <1>2, <3>3 DEF Leads
        <4> QED
          BY <1>5, <3>1, <4>1 DEF AfterSlot
      <3> QED
        BY <1>9, <3>2, <3>3
    <2>2. \A k \in 0..((n - 1) - 1) : g[k + 1] = AfterSlot(g[k], uiQueue'[k + 1])
      <3> SUFFICES ASSUME NEW k \in 0..((n - 1) - 1)
                   PROVE  g[k + 1] = AfterSlot(g[k], uiQueue'[k + 1])
        OBVIOUS
      <3>1. k \in 0..(n - 2) /\ k + 1 \in r..(n - 1)
        BY <1>9
      <3> QED
        BY <1>7, <3>1
    <2>3. Leads(0, g)'
      BY <1>4, <1>8, <2>1, <2>2 DEF Leads
    <2>4. 0 \in 0..(n - 1)
      BY <1>4
    <2> QED
      BY <1>4, <1>6, <2>3, <2>4
  <1>10. CASE r \notin {0, 1}
    <2>1. r - 1 \in 1..(n - 1) /\ r - 1 \in 0..(n - 1) /\ (r - 1) + 1 = r /\ r - 1 # 0
      BY <1>4, <1>10
    <2>2. uiQueue[r].slot = "resize" /\ f[r] = qt_ui_resize(uiQueue[r].n)
      BY <1>2, <1>10 DEF Leads
    <2>3. uiQueue'[r - 1] = uiQueue[r] /\ g[r - 1] = f[r]
      BY <1>4, <1>6, <2>1
    <2>4. \A k \in (r - 1)..((n - 1) - 1) : g[k + 1] = AfterSlot(g[k], uiQueue'[k + 1])
      BY <1>4, <1>7, <1>10
    <2>5. Leads(r - 1, g)'
      BY <1>4, <1>8, <2>1, <2>2, <2>3, <2>4 DEF Leads
    <2> QED
      BY <1>4, <1>6, <2>1, <2>5
  <1> QED
    BY <1>9, <1>10

\* Every step: a count or a new position is queued behind what is there, a slot takes
\* the first away, a resync empties the items.
LEMMA NextMapInv == TypeOK /\ MapInv /\ [Next]_vars => MapInv'
  <1> SUFFICES ASSUME TypeOK, MapInv, [Next]_vars PROVE MapInv'
    OBVIOUS
  <1>1. ASSUME UNCHANGED <<items, ui, uiQueue, resyncs>> PROVE MapInv'
    BY <1>1, SameLeads
  <1>2. ASSUME NEW m \in link, m.kind = "count", UpdateMissionCount(m) PROVE MapInv'
    <2>1. m.n \in Nat /\ UNCHANGED <<ui, resyncs>>
      BY <1>2 DEF MissionMessages, TypeOK, UpdateMissionCount
    <2>2. CASE m.n = Len(items)
      BY <1>1, <1>2, <2>1, <2>2 DEF UpdateMissionCount
    <2>3. CASE m.n # Len(items)
      BY <1>2, <2>1, <2>3, CountKeepsMap DEF UpdateMissionCount
    <2> QED
      BY <2>2, <2>3
  <1>3. ASSUME NEW m \in link, m.kind = "item", UpdateMission(m) PROVE MapInv'
    <2>1. m.seq \in Nat /\ m.pos \in Positions /\ m.seq + 1 \in 1..Len(items)
      BY <1>3 DEF MissionMessages, TypeOK, UpdateMission
    <2>2. items' = [items EXCEPT ![m.seq + 1] = Item(m.pos, TRUE)]
      BY <1>3 DEF UpdateMission
    <2>3. UNCHANGED <<ui, resyncs>>
      BY <1>3 DEF UpdateMission
    <2>4. CASE items[m.seq + 1].pos # m.pos
      <3>1. uiQueue' = Append(uiQueue, [slot |-> "update", seq |-> m.seq, pos |-> m.pos])
        BY <1>3, <2>4 DEF UpdateMission
      <3> QED
        BY <2>1, <2>2, <2>3, <3>1, ItemKeepsMap
    <2>5. CASE items[m.seq + 1].pos = m.pos
      <3>1. uiQueue' = uiQueue
        BY <1>3, <2>5 DEF UpdateMission
      <3>2. /\ Len(items') = Len(items) /\ items'[m.seq + 1] = Item(m.pos, TRUE)
            /\ \A i \in 1..Len(items) : i # m.seq + 1 => items'[i] = items[i]
        BY <2>1, <2>2, UpdatedItems
      <3>3. Item(m.pos, TRUE).pos = m.pos
        BY DEF Item
      <3>4. \A i \in 1..Len(items) : items'[i].pos = items[i].pos
        BY <2>5, <3>2, <3>3
      <3>5. items # <<>> /\ items' # <<>>
        BY <2>1, <3>2
      <3> QED
        BY <2>3, <3>1, <3>2, <3>4, <3>5, SameLeads
    <2> QED
      BY <2>4, <2>5
  <1>4. CASE Resync
    <2>1. items' = <<>> /\ resyncs' # 0
      BY <1>4 DEF Resync, TypeOK
    <2> QED
      BY <2>1 DEF MapInv
  <1>5. CASE UiSlot
    BY <1>5, SlotKeepsMap
  <1>6. CASE OptSendMessages \/ SecondPasses \/ FcAnswers
             \/ (\E m \in Missions : FcUpload(m)) \/ UNCHANGED vars
    BY <1>1, <1>6 DEF OptSendMessages, SecondPasses, FcAnswers, FcSends, FcUpload, vars
  <1> QED
    BY <1>2, <1>3, <1>4, <1>5, <1>6 DEF Next, ProcessMessage

\* However far the UI thread is behind, and however counts, items and resyncs
\* interleave, the map ends up with the handler's mission once the queue is empty;
\* only an empty mission after a resync is not told to it
\* (fcmissionhandler.cpp:121-127, 130-158, fcmavlinkmissionitemsmodel.cpp:20-28).
THEOREM MapAlwaysShowsMission == Spec => []MapShowsMission
  <1>1. Init => MapInv
    <2> SUFFICES ASSUME Init PROVE MapInv
      OBVIOUS
    <2> DEFINE f == [k \in 0..0 |-> <<>>]
    <2>1. ui = <<>> /\ uiQueue = <<>> /\ items = <<>> /\ Len(uiQueue) = 0
      BY DEF Init
    <2>2. f \in [0..0 -> Seq(ElementSet)] /\ f[0] = <<>>
      OBVIOUS
    <2> HIDE DEF f
    <2>3. Shows(f[0], items)
      BY <2>1, <2>2 DEF Shows
    <2>4. Leads(0, f)
      BY <2>1, <2>2, <2>3 DEF Leads
    <2> QED
      BY <2>1, <2>2, <2>4 DEF MapInv
  <1>2. TypeOK /\ MapInv => MapShowsMission
    <2> SUFFICES ASSUME TypeOK, MapInv, uiQueue = <<>>, items # <<>> \/ resyncs = 0
                 PROVE  Shows(ui, items)
      BY DEF MapShowsMission, Shows
    <2>1. Len(uiQueue) = 0
      OBVIOUS
    <2>2. PICK r \in 0..0, f \in [0..0 -> Seq(ElementSet)] : Leads(r, f)
      BY <2>1 DEF MapInv
    <2> QED
      BY <2>1, <2>2 DEF Leads
  <1> QED
    BY <1>1, <1>2, TypeCorrect, NextMapInv, PTL DEF Spec
=============================================================================
