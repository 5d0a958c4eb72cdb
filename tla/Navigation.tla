------------------------------ MODULE Navigation ------------------------------
(***************************************************************************)
(* The page history behind the Back and Home buttons.  Every page draws a  *)
(* header, and the header records the page in pagePath unless the page was *)
(* reached by Back (isGoingBack).  Two tasks draw pages: arduino_task, for *)
(* a tap, and encoder_task, when the dial's button opens a light.  Nothing *)
(* locks the history, and pagePath is an array of fixed size.              *)
(*                                                                         *)
(* A step ends where the code prints or refreshes the e-ink display, which *)
(* takes long, and where it reads what the other task writes.  An access   *)
(* outside pagePath, or a race for an element, corrupts memory: the model  *)
(* stops until the reset.                                                  *)
(***************************************************************************)
EXTENDS Naturals, Sequences

CONSTANTS
    PathSize,      \* elements of pagePath
    MaxRefreshes   \* bound: refreshes between two taps on Home

ASSUME PathAssumption == PathSize \in Nat
ASSUME RefreshAssumption == MaxRefreshes \in Nat

VARIABLES
    pc, page,              \* per task: control location, page being drawn
    pagePath,              \* the first pagePageCounter elements of the array
    isGoingBack, currentRoomID, currentScreenType, uiLevel,
    roomChosen,            \* currentRoom holds a room of the bridge
    buttons,               \* pages whose buttons are in the button array
    refreshes,             \* history: refreshes since pagePath was emptied
    derailed,              \* history: the trail was lost, and not found again
    wild                   \* pagePath was accessed out of bounds or raced for

screenVars == <<currentRoomID, currentScreenType, roomChosen>>
vars == <<pc, page, pagePath, isGoingBack, currentRoomID, currentScreenType,
          uiLevel, roomChosen, buttons, refreshes, derailed, wild>>

drawHomeID == 0
drawAllRoomsID == 1
drawRoomID == 2
drawLightID == 3
drawAllLightsID == 4
drawAllBehaviorID == 5
drawBehaviorID == 6
changeBehaviorID == 7
PageIds == 0..7

\* <<g, h>>: page g has a button that opens page h, at the highest UI level.
Links ==
    {<<drawHomeID, drawAllRoomsID>>, <<drawAllRoomsID, drawRoomID>>,
     <<drawRoomID, drawLightID>>,
     <<drawHomeID, drawAllBehaviorID>>, <<drawAllBehaviorID, drawBehaviorID>>,
     <<drawBehaviorID, drawAllLightsID>>, <<drawBehaviorID, changeBehaviorID>>}

\* drawHome: level 1 has no links, level 2 has no behaviours.
Opens(g, h) ==
    /\ <<g, h>> \in Links
    /\ g = drawHomeID => uiLevel = 3 \/ (uiLevel = 2 /\ h = drawAllRoomsID)

Tasks == {"touch", "encoder"}
Other(p) == IF p = "touch" THEN "encoder" ELSE "touch"
Locations == {"idle", "fetch", "draw", "header", "add", "body"}
Idle(p) == pc[p] = "idle"

\* initEink draws home through fetchData before it registers touchEvent.
Init ==
    /\ pc = [p \in Tasks |-> IF p = "touch" THEN "fetch" ELSE "idle"]
    /\ page = [p \in Tasks |-> drawHomeID]
    /\ pagePath = <<>>
    /\ isGoingBack = FALSE
    /\ currentRoomID = drawHomeID
    /\ currentScreenType = ""
    /\ uiLevel = 3
    /\ roomChosen = FALSE
    /\ buttons = {}
    /\ refreshes = 0
    /\ derailed = FALSE
    /\ wild = FALSE

Goto(p, where) == pc' = [pc EXCEPT ![p] = where]

\* Task p begins to draw page g; two drawings at once lose the trail.
StartDrawing(p, g, where) ==
    /\ Idle(p)
    /\ Goto(p, where)
    /\ page' = [page EXCEPT ![p] = g]

Overlap(p) == ~Idle(Other(p))

-----------------------------------------------------------------------------
(* Taps.                                                                   *)

TapPage ==
    /\ \E b \in buttons, g \in PageIds :
          Opens(b, g) /\ StartDrawing("touch", g, "draw")
    /\ derailed' = (derailed \/ Overlap("touch"))
    /\ UNCHANGED <<pagePath, isGoingBack, screenVars, uiLevel, buttons,
                   refreshes, wild>>

\* Mutant: the Home button does not empty the history.
TapHomeKeepsPath ==
    /\ buttons # {}
    /\ StartDrawing("touch", drawHomeID, "draw")
    /\ refreshes' = 0
    /\ derailed' = (Overlap("touch") \/ (derailed /\ isGoingBack))
    /\ UNCHANGED <<pagePath, isGoingBack, screenVars, uiLevel, buttons, wild>>

\* drawHomeFromHomeButton; it makes a lost trail sound again.
TapHome ==
    /\ buttons # {}
    /\ StartDrawing("touch", drawHomeID, "draw")
    /\ pagePath' = <<>>
    /\ refreshes' = 0
    /\ derailed' = (Overlap("touch") \/ (derailed /\ isGoingBack))
    /\ UNCHANGED <<isGoingBack, screenVars, uiLevel, buttons, wild>>

\* fetchData.
TapRefresh ==
    /\ drawHomeID \in buttons
    /\ refreshes < MaxRefreshes
    /\ StartDrawing("touch", drawHomeID, "fetch")
    /\ refreshes' = refreshes + 1
    /\ derailed' = (derailed \/ Overlap("touch"))
    /\ UNCHANGED <<pagePath, isGoingBack, screenVars, uiLevel, buttons, wild>>

\* Mutant: the entry below the top is looked up after the decrement.
BackTargetTop == pagePath[Len(pagePath)]

BackTarget == pagePath[Len(pagePath) - 1]

\* Every page but home has a Back button.
BackButton == Idle("touch") /\ buttons \ {drawHomeID} # {}

\* goBack: nothing is drawn for changeBehaviorID, yet isGoingBack is set.
goBack ==
    /\ BackButton
    /\ Len(pagePath) >= 2
    /\ pagePath' = SubSeq(pagePath, 1, Len(pagePath) - 1)
    /\ isGoingBack' = TRUE
    /\ IF BackTarget = changeBehaviorID
       THEN UNCHANGED <<pc, page>>
       ELSE StartDrawing("touch", BackTarget, "draw")
    /\ derailed' = (derailed \/ Overlap("touch") \/ BackTarget = changeBehaviorID)
    /\ UNCHANGED <<screenVars, uiLevel, buttons, refreshes, wild>>

\* goBack reads before the array.
goBackWild ==
    /\ BackButton
    /\ Len(pagePath) < 2
    /\ wild' = TRUE
    /\ derailed' = (derailed \/ Overlap("touch"))
    /\ UNCHANGED <<pc, page, pagePath, isGoingBack, screenVars, uiLevel,
                   buttons, refreshes>>

\* Mutant: a value that is not an integer is taken for a level.
getUILevelUnchecked ==
    /\ pc["touch"] = "fetch"
    /\ uiLevel' \in 0..3
    /\ Goto("touch", "draw")
    /\ UNCHANGED <<page, pagePath, isGoingBack, screenVars, buttons,
                   refreshes, derailed, wild>>

\* fetchData has read the UI level, or kept the one it had, and calls
\* drawHome.
getUILevel ==
    /\ pc["touch"] = "fetch"
    /\ uiLevel' \in 1..3
    /\ Goto("touch", "draw")
    /\ UNCHANGED <<page, pagePath, isGoingBack, screenVars, buttons,
                   refreshes, derailed, wild>>

-----------------------------------------------------------------------------
(* The dial.                                                               *)

\* chooseAndAlterLightInRoom: the loop has tested currentScreenType, the dial
\* was turned to a light of currentRoom and its button is down.
DialPressed ==
    /\ currentScreenType \in {"HOME", "ROOMS"}
    /\ uiLevel # 1
    /\ roomChosen
    /\ StartDrawing("encoder", drawLightID, "draw")
    /\ derailed' = (derailed \/ Overlap("encoder"))
    /\ UNCHANGED <<pagePath, isGoingBack, screenVars, uiLevel, buttons,
                   refreshes, wild>>

-----------------------------------------------------------------------------
(* Drawing a page, by either task.                                         *)

\* The behaviour pages leave currentScreenType as it is.
ScreenTypeOf(g) ==
    IF g = drawHomeID THEN "HOME"
    ELSE IF g = drawAllRoomsID THEN "ROOMS"
    ELSE IF g = drawRoomID THEN "ROOM"
    ELSE IF g = drawLightID THEN "LIGHT"
    ELSE currentScreenType

\* The home page of level 1 uses currentRoomID for the index of its room.
DrawPage(p) ==
    /\ pc[p] = "draw"
    /\ currentScreenType' = ScreenTypeOf(page[p])
    /\ currentRoomID' = IF page[p] = drawHomeID /\ uiLevel = 1 THEN 1 ELSE page[p]
    /\ roomChosen' = (roomChosen \/ page[p] = drawRoomID
                                 \/ (page[p] = drawHomeID /\ uiLevel = 1))
    /\ Goto(p, "header")
    /\ UNCHANGED <<page, pagePath, isGoingBack, uiLevel, buttons, refreshes,
                   derailed, wild>>

\* Mutant: isGoingBack is not reset once it has been obeyed.
drawHeaderSticky(p) ==
    /\ pc[p] = "header"
    /\ buttons' = {}
    /\ Goto(p, IF isGoingBack THEN "body" ELSE "add")
    /\ UNCHANGED <<isGoingBack, page, pagePath, screenVars, uiLevel, refreshes,
                   derailed, wild>>

\* drawHeader clears the buttons; addPageToPagePath tests isGoingBack.
drawHeader(p) ==
    /\ pc[p] = "header"
    /\ buttons' = {}
    /\ isGoingBack' = FALSE
    /\ Goto(p, IF isGoingBack THEN "body" ELSE "add")
    /\ UNCHANGED <<page, pagePath, screenVars, uiLevel, refreshes, derailed,
                   wild>>

\* The rest of addPageToPagePath.
addPageToPagePath(p) ==
    /\ pc[p] = "add"
    /\ Len(pagePath) < PathSize
    /\ pagePath' = Append(pagePath, currentRoomID)
    /\ isGoingBack' = FALSE
    /\ Goto(p, "body")
    /\ UNCHANGED <<page, screenVars, uiLevel, buttons, refreshes, derailed,
                   wild>>

\* It writes behind the array, or to the element the other task writes to.
addPageWild(p) ==
    /\ pc[p] = "add"
    /\ Len(pagePath) >= PathSize \/ pc[Other(p)] = "add"
    /\ wild' = TRUE
    /\ UNCHANGED <<pc, page, pagePath, isGoingBack, screenVars, uiLevel,
                   buttons, refreshes, derailed>>

\* The body adds its buttons and refreshes the display.
DrawBody(p) ==
    /\ pc[p] = "body"
    /\ buttons' = buttons \cup {page[p]}
    /\ Goto(p, "idle")
    /\ UNCHANGED <<page, pagePath, isGoingBack, screenVars, uiLevel,
                   refreshes, derailed, wild>>

Draw(p) == DrawPage(p) \/ drawHeader(p) \/ addPageToPagePath(p) \/ addPageWild(p) \/ DrawBody(p)

Tap == TapPage \/ TapHome \/ TapRefresh \/ goBack \/ goBackWild

\* Memory beside pagePath is corrupted: the device is switched off and on.
Reset ==
    /\ wild
    /\ pc' = [p \in Tasks |-> IF p = "touch" THEN "fetch" ELSE "idle"]
    /\ page' = [p \in Tasks |-> drawHomeID]
    /\ pagePath' = <<>>
    /\ isGoingBack' = FALSE
    /\ currentRoomID' = drawHomeID
    /\ currentScreenType' = ""
    /\ uiLevel' = 3
    /\ roomChosen' = FALSE
    /\ buttons' = {}
    /\ refreshes' = 0
    /\ derailed' = FALSE
    /\ wild' = FALSE

Next ==
    \/ ~wild /\ (Tap \/ getUILevel \/ DialPressed \/ \E p \in Tasks : Draw(p))
    \/ Reset

Spec == Init /\ [][Next]_vars

-----------------------------------------------------------------------------
(* Properties                                                              *)

FlagsOK ==
    /\ isGoingBack \in BOOLEAN /\ roomChosen \in BOOLEAN
    /\ derailed \in BOOLEAN /\ wild \in BOOLEAN

DataOK ==
    /\ pc \in [Tasks -> Locations]
    /\ page \in [Tasks -> PageIds]
    /\ pagePath \in Seq(PageIds) /\ Len(pagePath) <= PathSize
    /\ currentRoomID \in PageIds
    /\ currentScreenType \in {"", "HOME", "ROOMS", "ROOM", "LIGHT"}
    /\ uiLevel \in 1..3
    /\ buttons \subseteq PageIds
    /\ refreshes \in 0..MaxRefreshes

\* Every variable keeps its type; the UI level stays one of those drawHome
\* knows, and the history fits the array.
TypeOK == FlagsOK /\ DataOK

Quiet == \A p \in Tasks : Idle(p)

\* Between drawings the top of pagePath is the page whose buttons are on the
\* screen, and isGoingBack has been consumed, unless the trail was lost
\* (addPageToPagePath, goBack).
HistoryMatchesScreen ==
    ~derailed /\ Quiet /\ ~wild /\ uiLevel # 1 =>
        /\ pagePath # <<>>
        /\ buttons = {pagePath[Len(pagePath)]}
        /\ ~isGoingBack

\* pagePath is accessed out of bounds only after the trail was lost, or after
\* so many refreshes without Home that they fill the array (fetchData pushes
\* home each time; five more pages fit on top of the last one).
HistoryInBounds == wild => derailed \/ refreshes + 5 > PathSize

\* The pages since the last home; there is one whenever the trail is not lost.
LastHome ==
    CHOOSE k \in DOMAIN pagePath :
        /\ pagePath[k] = drawHomeID
        /\ \A j \in DOMAIN pagePath : pagePath[j] = drawHomeID => j <= k

Trail ==
    IF derailed \/ uiLevel = 1 \/ (page["touch"] = drawHomeID /\ ~Idle("touch"))
    THEN <<drawHomeID>>
    ELSE SubSeq(pagePath, LastHome, Len(pagePath))

History == INSTANCE PageHistory WITH
    Pages <- PageIds, HomePage <- drawHomeID, DialPage <- drawLightID,
    trail <- Trail, lost <- derailed \/ wild

\* The array, the counter and isGoingBack implement the trail of pages that
\* Back and Home promise, until two tasks draw at once or Back meets a page it
\* cannot draw; Home makes it sound again.
BackReturnsToOpener == History!Spec

\* "Page ids to navigate": Back draws one of the pages listed there.
BackAlwaysNavigates ==
    [][goBack /\ ~derailed => page'["touch"] = BackTarget /\ ~Idle("touch")']_vars

=============================================================================
