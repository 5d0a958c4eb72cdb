---------------------------- MODULE LightSelection ----------------------------
(***************************************************************************)
(* The array of buttons, the lists that are shown page by page (ALLE RUM,  *)
(* RUM, ALLE LAMPER) and the lights selected for a behaviour.              *)
(*                                                                         *)
(* The first page of a list clears the array; the pagers draw over it from *)
(* a fixed index and set buttonCount by hand.  selectLight adds or removes *)
(* a light according to the isSelected of its button.  The dial may open a *)
(* light, and clear the array, between a tap that hit a button and the     *)
(* handler that reads it: `races' counts that.  No size is tested before   *)
(* an element is written.  An access outside an array or a call through a  *)
(* cleared button stops the model until the reset.                         *)
(***************************************************************************)
EXTENDS Integers, Sequences

CONSTANTS
    Behaviors,     \* indices of behaviors[]
    PerPage,       \* items on a page of a list: 4
    RoomsSize,     \* elements of rooms: 50
    ListSize,      \* elements of entertainmentLights and of Room's and Behavior's
                   \* lightIds: 20
    LightsSize,    \* elements of the array lightIds of all lights: 50
    ButtonsSize,   \* elements of buttons: 30
    U8,            \* uint8_t counts modulo this: 256
    Groups, RoomLights, Listed, Known,
                   \* how many groups, lights in a room, lights in the
                   \* entertainment area and lights the bridge may report;
                   \* the lights of a room and of the area as counted in a uint8_t
    TrailLost,     \* Back may lead to any page: see derailed in Navigation
    MaxRaces       \* bound: taps overtaken by the dial

ASSUME BehaviorsAssumption == 0 \in Behaviors
ASSUME SizeAssumption ==
    /\ PerPage \in Nat \ {0}
    /\ RoomsSize \in Nat /\ RoomsSize >= PerPage
    /\ ListSize \in Nat /\ \E k \in 1..ListSize : ListSize = k * PerPage
    /\ U8 \in Nat /\ \E k \in 1..U8 : U8 = k * PerPage
    /\ LightsSize \in Nat
    /\ U8 > RoomsSize + PerPage /\ U8 > ListSize + PerPage /\ U8 > LightsSize
    /\ ButtonsSize \in Nat
    /\ ButtonsSize >= 4 + 2 * PerPage /\ ButtonsSize >= ListSize + 2
    /\ ButtonsSize >= 6
    /\ MaxRaces \in Nat /\ TrailLost \in BOOLEAN
ASSUME HouseholdAssumption ==
    /\ Groups \subseteq Nat /\ Known \subseteq Nat
    /\ RoomLights \subseteq 0..(U8 - 1) /\ Listed \subseteq 0..(U8 - 1)
    \* the lights of the entertainment area are lights of the bridge
    /\ \A l \in Listed, k \in Known : l <= k

VARIABLES
    pc, hit, pressed,      \* touch task: location, button it hit, light id
    page,                  \* title of the page on the screen
    currentScreenType,
    buttons, buttonCount, topIndex,
    shown,                 \* history: buttons with an icon on the screen
    groups, roomLights, listed, known,   \* what the bridge reported last
    filledRooms, filledLights,           \* elements ever written to the arrays
    lastRoom, currentRoom,
    lightIds,              \* per behaviour, the first lightCounter elements
    lastBehaviorId,
    races,                 \* history: taps overtaken since the last refresh
    crash                  \* "", or what corrupted memory or panicked

touchVars == <<pc, hit, pressed>>
buttonVars == <<buttons, buttonCount, shown>>
screenVars == <<page, currentScreenType, topIndex>>
bridgeVars == <<groups, roomLights, listed, known, filledRooms, filledLights>>
roomVars == <<lastRoom, currentRoom>>
vars == <<touchVars, buttonVars, screenVars, bridgeVars, roomVars, lightIds,
          lastBehaviorId, races, crash>>

Lists == {"ALLE RUM", "RUM", "ALLE LAMPER"}
Pages == Lists \cup {"HJEM", "behavior", "light"}
Events == {"none", "plain", "drawRoom", "drawLight", "selectLight",
           "drawNextPage", "drawPrevPage"}

Slots == 0..(ButtonsSize - 1)
Lights == 1..ListSize
Button == [event : Events, id : Nat, isSelected : BOOLEAN]
NewButton(e, id) == [event |-> e, id |-> id, isSelected |-> FALSE]
Cleared == NewButton("none", 0)
Plain == NewButton("plain", 0)   \* Back, Home and what else is no list item

\* Mutant: one more room is left out.
roomsCountShort == (groups + U8 - 2) % U8

\* roomsCount = i - 1, in eight bits.
roomsCount == (groups + U8 - 1) % U8

\* roomPagination, allLightsPagination, and the test in drawRoom.
Paginated(list) ==
    IF list = "ALLE RUM" THEN roomsCount > PerPage
    ELSE IF list = "RUM" THEN currentRoom.lights > PerPage
    ELSE known > PerPage

\* The counter given to drawPaginationButtons on the first page, and later.
FirstCounter(list) ==
    IF list = "ALLE RUM" THEN roomsCount
    ELSE IF list = "RUM" THEN currentRoom.lights
    ELSE listed

\* Mutant: a rounded-up counter offers a page behind the last one.
LaterCounterUp(list) ==
    IF list = "ALLE LAMPER" THEN known ELSE FirstCounter(list) + 2 * PerPage

LaterCounter(list) == IF list = "ALLE LAMPER" THEN known ELSE FirstCounter(list)

\* Where the loop over the list stops at the latest.
Limit(list) ==
    IF list = "ALLE RUM" THEN filledRooms
    ELSE IF list = "RUM" THEN currentRoom.lights
    ELSE filledLights
ListEnd(list) == IF list = "ALLE RUM" THEN RoomsSize ELSE ListSize

Least(a, b) == IF a <= b THEN a ELSE b

\* Items the loop from start to end draws; it stops at an empty name.
Drawn(list, start, end) ==
    IF Limit(list) <= start THEN 0 ELSE Least(end, Limit(list)) - start

\* It reads the name of an element behind the array.
ReadsOutside(list, start, end) ==
    /\ list # "RUM" /\ start < end
    /\ start < 0 \/ start >= ListEnd(list) \/ (Limit(list) = ListEnd(list) /\ end > ListEnd(list))

Selected(b) == {lightIds[b][k] : k \in DOMAIN lightIds[b]} \ {0}

\* Mutant: the page is drawn with no light selected.
ItemUnselected(list, i) ==
    IF list = "ALLE RUM" THEN NewButton("drawRoom", i)
    ELSE NewButton(IF list = "RUM" THEN "drawLight" ELSE "selectLight", i + 1)

\* The button drawn for element i of a list.
Item(list, i) ==
    IF list = "ALLE RUM" THEN NewButton("drawRoom", i)
    ELSE IF list = "RUM" THEN NewButton("drawLight", i + 1)
    ELSE [event |-> "selectLight", id |-> i + 1,
          isSelected |-> i + 1 \in Selected(lastBehaviorId)]

NoRoom == [index |-> RoomsSize, lights |-> 0]

\* The bridge reported more than rooms, entertainmentLights or lightIds hold.
Overfull == groups > RoomsSize \/ listed > ListSize \/ known > LightsSize

Init ==
    /\ pc = "idle" /\ hit = 0 /\ pressed = 0
    /\ page = "HJEM" /\ currentScreenType = "HOME"
    /\ buttons = [i \in Slots |-> IF i < 2 THEN Plain ELSE Cleared]
    /\ buttonCount = 2 /\ shown = {0, 1} /\ topIndex = 0
    /\ groups \in Groups /\ roomLights \in RoomLights
    /\ listed \in Listed /\ known \in Known
    /\ filledRooms = Least(groups, RoomsSize) /\ filledLights = Least(listed, ListSize)
    /\ lastRoom = 0 /\ currentRoom = NoRoom
    /\ lightIds = [b \in Behaviors |-> <<>>]
    /\ lastBehaviorId = 0
    /\ races = 0
    /\ crash = IF Overfull THEN "store" ELSE ""

-----------------------------------------------------------------------------
(* Drawing.                                                                *)

\* A page without a list has n buttons.
ShowPlain(g, n) ==
    /\ page' = g
    /\ buttons' = [i \in Slots |-> IF i < n THEN Plain ELSE Cleared]
    /\ buttonCount' = n
    /\ shown' = 0..(n - 1)

\* The first page of a list (drawAllGroups, drawRoom, drawAllLights): the items
\* follow the pager buttons.
ShowList(g) ==
    LET end == IF g = "ALLE LAMPER" /\ ~Paginated(g) THEN listed ELSE PerPage
        next == Paginated(g) /\ PerPage < FirstCounter(g)
        at == IF ~Paginated(g) THEN 2 ELSE IF next THEN PerPage + 4 ELSE PerPage + 3
        n == Drawn(g, 0, end)
    IN  /\ page' = g
        /\ buttons' = [i \in Slots |->
              IF i < 2 THEN Plain
              ELSE IF next /\ i = PerPage + 3 THEN NewButton("drawNextPage", 1)
              ELSE IF i >= at /\ i < at + n THEN Item(g, i - at)
              ELSE Cleared]
        /\ buttonCount' = at + n
        /\ shown' = {0, 1} \cup (IF next THEN {PerPage + 3} ELSE {}) \cup at..(at + n - 1)
        /\ topIndex' = end

\* drawNextPage and drawPrevPage, from element start on: items at the indices
\* from 3, pager buttons behind the room for a full page.
TurnPage(start) ==
    LET end == start + PerPage
        top == end % U8
        n == Drawn(page, start, end)
        prev == top # PerPage
        next == top < LaterCounter(page)
        nextAt == IF prev THEN PerPage + 4 ELSE PerPage + 3
        count == IF next THEN nextAt + 1 ELSE nextAt
    IN  /\ buttons' = [i \in Slots |->
              IF i >= 3 /\ i < 3 + n THEN Item(page, start + i - 3)
              ELSE IF prev /\ i = PerPage + 3 THEN NewButton("drawPrevPage", 1)
              ELSE IF next /\ i = nextAt THEN NewButton("drawNextPage", 1)
              ELSE buttons[i]]
        /\ buttonCount' = count
        /\ shown' = {0, 1} \cup 3..(2 + n) \cup (PerPage + 3)..(count - 1)
        /\ topIndex' = top
        /\ crash' = IF ReadsOutside(page, start, end) THEN "list" ELSE ""

-----------------------------------------------------------------------------
(* Taps.                                                                   *)

\* Mutant: a cleared button can be hit.
TapCleared(i) ==
    /\ pc = "idle"
    /\ i < buttonCount
    /\ pc' = "hit" /\ hit' = i
    /\ UNCHANGED <<pressed, buttonVars, screenVars, bridgeVars, roomVars,
                   lightIds, lastBehaviorId, races, crash>>

\* onTouchEvent: a button was hit; it is printed before it is called.
Tap(i) ==
    /\ pc = "idle"
    /\ i < buttonCount /\ buttons[i].event # "none"
    /\ pc' = "hit" /\ hit' = i
    /\ UNCHANGED <<pressed, buttonVars, screenVars, bridgeVars, roomVars,
                   lightIds, lastBehaviorId, races, crash>>

\* The tap calls the handler of the button as it is now.
Calls(e) == pc = "hit" /\ buttons[hit].event = e

Return == pc' = "idle" /\ hit' = 0 /\ pressed' = 0

\* The handler was cleared meanwhile: a jump to address zero.
CallNothing ==
    /\ Calls("none")
    /\ crash' = "event"
    /\ UNCHANGED <<touchVars, buttonVars, screenVars, bridgeVars, roomVars,
                   lightIds, lastBehaviorId, races>>

\* The pages that links and Back of page g lead to.  Back from a light returns
\* to where it was opened: by the dial that may be any page but a light.  Home
\* has no Back; that of any other page may lead anywhere once the trail is lost.
Leads(g) ==
    IF g = "HJEM" THEN {"HJEM", "ALLE RUM", "behavior"}
    ELSE IF TrailLost THEN Pages
    ELSE IF g = "ALLE RUM" THEN {"HJEM"}
    ELSE IF g = "RUM" THEN {"HJEM", "ALLE RUM"}
    ELSE IF g = "behavior" THEN {"HJEM", "behavior", "ALLE LAMPER"}
    ELSE IF g = "ALLE LAMPER" THEN {"HJEM", "behavior"}
    ELSE Pages \ {"light"}

\* The behaviour pages and their list of lights leave it as it is.
ScreenTypeOf(g) ==
    IF g = "HJEM" THEN "HOME"
    ELSE IF g = "ALLE RUM" THEN "ROOMS"
    ELSE currentScreenType

\* A link, Back or Home; drawBehavior also notes the behaviour.
OpenPlain(g) ==
    /\ Calls("plain") /\ g \in Leads(page) \cap {"HJEM", "behavior"}
    /\ lastBehaviorId' \in (IF g = "behavior" THEN Behaviors ELSE {lastBehaviorId})
    /\ currentScreenType' = ScreenTypeOf(g)
    /\ ShowPlain(g, IF g = "HJEM" THEN 4 ELSE 6)
    /\ Return
    /\ UNCHANGED <<topIndex, bridgeVars, roomVars, lightIds, races, crash>>

OpenList(g) ==
    /\ Calls("plain") /\ g \in Leads(page) \cap {"ALLE RUM", "ALLE LAMPER"}
    /\ currentScreenType' = ScreenTypeOf(g)
    /\ ShowList(g)
    /\ Return
    /\ UNCHANGED <<bridgeVars, roomVars, lightIds, lastBehaviorId, races, crash>>

\* A button whose handler changes nothing here: Switch, START, the bars.
PressOther ==
    /\ Calls("plain")
    /\ Return
    /\ UNCHANGED <<buttonVars, screenVars, bridgeVars, roomVars, lightIds,
                   lastBehaviorId, races, crash>>

\* drawRoom: the room is loaded unless it was the last one drawn; then the
\* states of its lights are requested.
LoadRoom(r) ==
    /\ lastRoom # r => roomLights <= ListSize
    /\ currentRoom' = IF lastRoom # r THEN [index |-> r, lights |-> roomLights]
                      ELSE currentRoom
    /\ lastRoom' = r
    /\ currentScreenType' = "ROOM"
    /\ ShowPlain("RUM", 2)
    /\ pc' = "room"
    /\ UNCHANGED <<hit, pressed, topIndex, bridgeVars, lightIds, lastBehaviorId,
                   races, crash>>

\* A room with more lights than its lightIds: getLightStates reads behind them.
LoadRoomWild(r) ==
    /\ lastRoom # r /\ roomLights > ListSize
    /\ crash' = "store"
    /\ UNCHANGED <<touchVars, buttonVars, screenVars, bridgeVars, roomVars,
                   lightIds, lastBehaviorId, races>>

drawRoom ==
    \/ /\ Calls("drawRoom")
       /\ LoadRoom(buttons[hit].id) \/ LoadRoomWild(buttons[hit].id)
    \/ Calls("plain") /\ "RUM" \in Leads(page) /\ LoadRoom(lastRoom)

drawRoomLights ==
    /\ pc = "room"
    /\ ShowList("RUM")
    /\ Return
    /\ UNCHANGED <<currentScreenType, bridgeVars, roomVars, lightIds,
                   lastBehaviorId, races, crash>>

drawLight ==
    /\ Calls("drawLight") \/ (Calls("plain") /\ "light" \in Leads(page))
    /\ currentScreenType' = "LIGHT"
    /\ ShowPlain("light", 5)
    /\ Return
    /\ UNCHANGED <<topIndex, bridgeVars, roomVars, lightIds, lastBehaviorId,
                   races, crash>>

drawNextPage ==
    /\ Calls("drawNextPage")
    /\ TurnPage(topIndex)
    /\ Return
    /\ UNCHANGED <<page, currentScreenType, bridgeVars, roomVars, lightIds,
                   lastBehaviorId, races>>

drawPrevPage ==
    /\ Calls("drawPrevPage")
    /\ TurnPage(topIndex - 2 * PerPage)
    /\ Return
    /\ UNCHANGED <<page, currentScreenType, bridgeVars, roomVars, lightIds,
                   lastBehaviorId, races>>

-----------------------------------------------------------------------------
(* Selecting lights.                                                       *)

\* selectLight was called with the light of the button.
CallSelect ==
    /\ Calls("selectLight")
    /\ pc' = "select" /\ pressed' = buttons[hit].id
    /\ UNCHANGED <<hit, buttonVars, screenVars, bridgeVars, roomVars, lightIds,
                   lastBehaviorId, races, crash>>

Edited == lightIds[lastBehaviorId]
SetEdited(ids) == lightIds' = [lightIds EXCEPT ![lastBehaviorId] = ids]
SetSelected(v) == buttons' = [buttons EXCEPT ![hit].isSelected = v]

\* The button tells whether to remove the light.
StartRemoving ==
    /\ pc = "select" /\ buttons[hit].isSelected
    /\ pc' = "shift"
    /\ UNCHANGED <<hit, pressed, buttonVars, screenVars, bridgeVars, roomVars,
                   lightIds, lastBehaviorId, races, crash>>

\* Mutant: the light is appended whatever lightCounter is.
AddLightUnbounded ==
    /\ pc = "select" /\ ~buttons[hit].isSelected
    /\ SetEdited(Append(Edited, pressed))
    /\ SetSelected(TRUE)
    /\ Return
    /\ UNCHANGED <<buttonCount, shown, screenVars, bridgeVars, roomVars,
                   lastBehaviorId, races, crash>>

AddLight ==
    /\ pc = "select" /\ ~buttons[hit].isSelected
    /\ Len(Edited) < ListSize
    /\ SetEdited(Append(Edited, pressed))
    /\ SetSelected(TRUE)
    /\ Return
    /\ UNCHANGED <<buttonCount, shown, screenVars, bridgeVars, roomVars,
                   lastBehaviorId, races, crash>>

AddLightWild ==
    /\ pc = "select" /\ ~buttons[hit].isSelected
    /\ Len(Edited) >= ListSize
    /\ crash' = "ids"
    /\ UNCHANGED <<touchVars, buttonVars, screenVars, bridgeVars, roomVars,
                   lightIds, lastBehaviorId, races>>

\* Mutant: the elements after the removed one are not moved down.
ShiftFromClears(ids, j) ==
    [k \in 1..Len(ids) |-> IF k < j THEN ids[k] ELSE 0]

\* One round of arrayShift: the elements after index j move down, zero fills up.
ShiftFrom(ids, j) ==
    [k \in 1..Len(ids) |-> IF k < j THEN ids[k]
                           ELSE IF k < Len(ids) THEN ids[k + 1] ELSE 0]

arrayShift ==
    /\ pc = "shift"
    /\ \E j \in DOMAIN Edited :
          /\ Edited[j] = pressed
          /\ \A k \in 1..(j - 1) : Edited[k] # pressed
          /\ SetEdited(ShiftFrom(Edited, j))
    /\ UNCHANGED <<touchVars, buttonVars, screenVars, bridgeVars, roomVars,
                   lastBehaviorId, races, crash>>

\* lightCounter-- once no element holds the light.
RemoveLight ==
    /\ pc = "shift"
    /\ \A j \in DOMAIN Edited : Edited[j] # pressed
    /\ SetEdited(SubSeq(Edited, 1, Len(Edited) - 1))
    /\ SetSelected(FALSE)
    /\ Return
    /\ UNCHANGED <<buttonCount, shown, screenVars, bridgeVars, roomVars,
                   lastBehaviorId, races, crash>>

-----------------------------------------------------------------------------
(* The rest of the device.                                                 *)

Largest(a, b) == IF a >= b THEN a ELSE b

\* What the requests of a refresh bring: one that fails reads as nothing.
Fetched ==
    /\ Calls("plain") /\ page = "HJEM"
    /\ groups' \in Groups \cup {0} /\ listed' \in Listed \cup {0}
    /\ known' \in Known \cup {0} /\ roomLights' \in RoomLights

fetchData ==
    /\ Fetched /\ ~Overfull'
    /\ filledRooms' = Largest(filledRooms, groups')
    /\ filledLights' = Largest(filledLights, listed')
    /\ lightIds' = [b \in Behaviors |-> <<>>]
    /\ races' = 0
    /\ ShowPlain("HJEM", 4)
    /\ currentScreenType' = "HOME"
    /\ Return
    /\ UNCHANGED <<topIndex, roomVars, lastBehaviorId, crash>>

\* Elements are written behind rooms, entertainmentLights or lightIds.
fetchDataWild ==
    /\ Fetched /\ Overfull'
    /\ crash' = "store"
    /\ UNCHANGED <<touchVars, buttonVars, screenVars, filledRooms, filledLights,
                   roomVars, lightIds, lastBehaviorId, races>>

\* encoder_task opens a light of currentRoom, whatever a tap is doing.
DialOpensLight ==
    /\ currentScreenType \in {"HOME", "ROOMS"}
    /\ currentRoom.lights > 0
    /\ races < MaxRaces
    /\ races' = IF pc = "idle" THEN races ELSE races + 1
    /\ currentScreenType' = "LIGHT"
    /\ ShowPlain("light", 5)
    /\ UNCHANGED <<touchVars, topIndex, bridgeVars, roomVars, lightIds,
                   lastBehaviorId, crash>>

\* Memory is corrupted, or the panic handler runs; nothing is claimed any more.
Stopped == crash # "" /\ UNCHANGED vars

Work ==
    \/ \E i \in Slots : Tap(i)
    \/ CallNothing \/ PressOther \/ drawRoom \/ drawRoomLights \/ drawLight
    \/ \E g \in Pages : OpenPlain(g) \/ OpenList(g)
    \/ drawNextPage \/ drawPrevPage
    \/ CallSelect \/ StartRemoving \/ AddLight \/ AddLightWild
    \/ arrayShift \/ RemoveLight
    \/ fetchData \/ fetchDataWild \/ DialOpensLight

Next == (crash = "" /\ Work) \/ Stopped

Spec == Init /\ [][Next]_vars

-----------------------------------------------------------------------------
(* Properties                                                              *)

\* Every variable keeps its type; the buttons drawn fit their array.
TypeOK ==
    /\ pc \in {"idle", "hit", "room", "select", "shift"}
    /\ hit \in Slots /\ pressed \in 0..ListSize
    /\ page \in Pages
    /\ currentScreenType \in {"HOME", "ROOMS", "ROOM", "LIGHT"}
    /\ buttons \in [Slots -> Button]
    /\ buttonCount \in 0..ButtonsSize /\ shown \subseteq Slots
    /\ topIndex \in 0..(U8 - 1)
    /\ groups \in Nat /\ known \in Nat
    /\ listed \in 0..(U8 - 1) /\ roomLights \in 0..(U8 - 1)
    /\ filledRooms \in 0..RoomsSize /\ filledLights \in 0..ListSize
    /\ ~Overfull => groups <= filledRooms /\ listed <= filledLights
    /\ crash # "store" => ~Overfull
    /\ lastRoom \in Nat /\ currentRoom \in [index : Nat, lights : 0..ListSize]
    /\ lastBehaviorId \in Behaviors
    /\ lightIds \in [Behaviors -> Seq(0..ListSize)]
    /\ \A b \in Behaviors : Len(lightIds[b]) <= ListSize
    /\ races \in 0..MaxRaces
    /\ crash \in {"", "event", "list", "ids", "store"}

Live(i) == i < buttonCount /\ buttons[i].event # "none"

\* Unless the dial overtook a tap, no light is in lightIds twice, and every
\* button that selects a light, the leftovers of an earlier page included,
\* knows whether its light is in the lightIds of the behaviour a tap would
\* change (selectLight, drawSelectableLightsFromArray, drawNextPage).
SelectionSound ==
    races = 0 /\ pc # "shift" =>
        /\ \A b \in Behaviors : \A j, k \in DOMAIN lightIds[b] :
              lightIds[b][j] = lightIds[b][k] => j = k
        /\ \A i \in Slots : Live(i) /\ buttons[i].event = "selectLight" =>
              (buttons[i].isSelected <=> buttons[i].id \in Selected(lastBehaviorId))

\* A cleared handler is called, or the lightIds of a behaviour overrun, only if
\* the dial drew a light between a tap and its handler, or the bridge reports
\* more than the arrays hold: that, or a room with too many lights, overruns them
\* without any race (onTouchEvent, selectLight, getGroups, getLightStates).
OverrunNeedsRace ==
    /\ crash \in {"event", "ids"} => races > 0 \/ Overfull
    /\ crash = "store" => Overfull \/ roomLights > ListSize

\* The pagers read before or behind a list only if the bridge reported no groups
\* (roomsCount wraps), if the groups fill an array that ends within a page, if
\* the bridge knows more lights than entertainmentLights holds (its number is
\* the counter of the later pages), or if it reports more than the arrays hold
\* at all (drawNextPage, drawPaginationButtons, getGroups, getLightIds).
ListReadsInside ==
    crash = "list" =>
        \/ page = "ALLE RUM" /\ groups = 0
        \/ page = "ALLE RUM" /\ filledRooms = RoomsSize /\ RoomsSize % PerPage # 0
        \/ page = "ALLE LAMPER" /\ known > ListSize
        \/ Overfull

\* A list without a Next button is complete, except for the last of 1 + k *
\* PerPage groups (getGroups counts one room less than it stores).
ListComplete ==
    page \in Lists /\ pc = "idle" /\ (\A i \in Slots : Live(i) => buttons[i].event # "drawNextPage") =>
        IF page = "ALLE RUM" THEN groups <= topIndex \/ (groups = topIndex + 1)
        ELSE IF page = "RUM" THEN currentRoom.lights <= topIndex
        ELSE listed <= topIndex

Promise == INSTANCE Selection WITH
    chosen <- [b \in Behaviors |-> Selected(b)], edited <- lastBehaviorId

\* lightIds implement a set of lights per behaviour, of which a tap changes one
\* light of the behaviour opened last (selectLight, arrayShift, initBehaviors).
ImplementsSelection == Promise!Spec

\* "A button represents a pressable icon on the screen": every button that reacts
\* to taps has an icon (drawNextPage and drawPrevPage keep the buttons of a
\* fuller page before), whatever the bridge reported.
ButtonsOnScreen ==
    crash = "" /\ groups > 0 => \A i \in Slots : Live(i) => i \in shown

\* "ID of a room can never be zero": drawRoom loads the room that was tapped,
\* also when it is the first of the list.
RoomPageShowsRoom == pc = "room" => currentRoom.index = lastRoom
=============================================================================
