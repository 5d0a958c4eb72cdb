--------------------------- MODULE NavigationProofs ---------------------------
(***************************************************************************)
(* The page history stays inside pagePath, for an array of any size.       *)
(***************************************************************************)
EXTENDS Navigation, TLAPS

\* How many entries of pagePath a page can be away from the home page it was
\* reached from, that page included; a light may be opened over any other.
Depth(g) ==
    IF g = drawHomeID THEN 1
    ELSE IF g \in {drawAllRoomsID, drawAllBehaviorID} THEN 2
    ELSE IF g \in {drawRoomID, drawBehaviorID} THEN 3
    ELSE IF g = drawLightID THEN 5 ELSE 4

\* Entry number n of history s may show page g after r refreshes, with a home
\* page below it.
Fits(s, r, g, n) ==
    /\ n <= r + Depth(g)
    /\ g # drawHomeID => \E h \in 1..(n - 1) : s[h] = drawHomeID

\* The entry on top of s stands for page g; at UI level 1 home is recorded as
\* another page.
OnTop(s, r, u, g) ==
    /\ s # <<>>
    /\ Fits(s, r, g, Len(s))
    /\ g # drawHomeID \/ u # 1 => s[Len(s)] = g

\* Every entry of s lies where its page can be.
Placed(s, r) == \A k \in 1..Len(s) : k <= r + Depth(s[k])

\* What the pages set besides the history.
Shown(g) ==
    /\ uiLevel = 1 => g = drawHomeID
    /\ g = drawLightID => currentScreenType = "LIGHT"

Recorded(u, g) == IF g = drawHomeID /\ u = 1 THEN drawAllRoomsID ELSE g

\* Nobody draws: the page on the screen is on top.
Resting ==
    \E g \in PageIds : /\ buttons = {g} /\ ~isGoingBack
                       /\ OnTop(pagePath, refreshes, uiLevel, g) /\ Shown(g)

\* A task at location l draws page g.
Drawing(l, g) ==
    /\ l = "fetch" => g = drawHomeID /\ ~isGoingBack
    /\ l # "fetch" => (uiLevel = 1 => g = drawHomeID)
    /\ l \in {"header", "add", "body"} => Shown(g)
    /\ l \in {"header", "add"} => currentRoomID = Recorded(uiLevel, g)
    /\ l \in {"add", "body"} => ~isGoingBack /\ buttons = {}
    /\ IF isGoingBack \/ l = "body" THEN OnTop(pagePath, refreshes, uiLevel, g)
                                    ELSE Fits(pagePath, refreshes, g, Len(pagePath) + 1)

\* The trail: every entry lies where its page can be, and at most one task
\* draws.
TrailOK ==
    /\ Placed(pagePath, refreshes)
    /\ pc["touch"] = "idle" \/ pc["encoder"] = "idle"
    /\ pc["touch"] = "idle" /\ pc["encoder"] = "idle" => Resting
    /\ pc["touch"] # "idle" => Drawing(pc["touch"], page["touch"])
    /\ pc["encoder"] # "idle" => Drawing(pc["encoder"], page["encoder"])

TrailInv == ~derailed /\ ~wild => TrailOK

NavInv == TypeOK /\ TrailInv /\ HistoryInBounds

USE PathAssumption, RefreshAssumption

\* One step keeps the flags Boolean.
LEMMA FlagsStep == FlagsOK /\ [Next]_vars => FlagsOK'
<1> SUFFICES ASSUME FlagsOK, [Next]_vars PROVE FlagsOK'
  OBVIOUS
<1> USE DEF FlagsOK, screenVars
<1>1. CASE TapPage \/ TapHome \/ TapRefresh
  BY <1>1, Zenon DEF TapPage, TapHome, TapRefresh
<1>2. CASE goBack \/ goBackWild
  BY <1>2, Zenon DEF goBack, goBackWild
<1>3. CASE getUILevel \/ DialPressed
  BY <1>3, Zenon DEF getUILevel, DialPressed
<1>4. ASSUME NEW p, Draw(p) PROVE FlagsOK'
  BY <1>4, Zenon DEF Draw, DrawPage, drawHeader, addPageToPagePath, addPageWild, DrawBody
<1>5. CASE Reset \/ UNCHANGED vars
  BY <1>5, Zenon DEF Reset, vars
<1> QED
  BY <1>1, <1>2, <1>3, <1>4, <1>5 DEF Next, Tap

\* The constants of the program are page ids.
LEMMA Ids == {drawHomeID, drawAllRoomsID, drawRoomID, drawLightID, drawAllLightsID,
              drawAllBehaviorID, drawBehaviorID, changeBehaviorID} \subseteq PageIds
  BY DEF PageIds, drawHomeID, drawAllRoomsID, drawRoomID, drawLightID, drawAllLightsID,
         drawAllBehaviorID, drawBehaviorID, changeBehaviorID

\* pagePageCounter = 0 leaves an empty history.
LEMMA Emptied == <<>> \in Seq(PageIds) /\ Len(<<>>) = 0
  OBVIOUS

\* goBack drops the last entry of a history and keeps the others.
LEMMA Popped ==
    ASSUME NEW s \in Seq(PageIds), Len(s) >= 2
    PROVE  LET t == SubSeq(s, 1, Len(s) - 1) IN
           /\ t \in Seq(PageIds)
           /\ Len(t) = Len(s) - 1
           /\ \A k \in 1..(Len(s) - 1) : t[k] = s[k]
           /\ s[Len(s) - 1] \in PageIds
  OBVIOUS

\* addPageToPagePath adds one entry on top and keeps the others.
LEMMA Pushed ==
    ASSUME NEW s \in Seq(PageIds), NEW g \in PageIds
    PROVE  LET t == Append(s, g) IN
           /\ t \in Seq(PageIds)
           /\ Len(t) = Len(s) + 1
           /\ \A k \in 1..Len(s) : t[k] = s[k]
           /\ t[Len(s) + 1] = g
  OBVIOUS

\* One step keeps the control locations and the pages being drawn.
LEMMA ControlStep == DataOK /\ [Next]_vars => pc' \in [Tasks -> Locations]
                                            /\ page' \in [Tasks -> PageIds]
<1> SUFFICES ASSUME DataOK, [Next]_vars
             PROVE  pc' \in [Tasks -> Locations] /\ page' \in [Tasks -> PageIds]
  OBVIOUS
<1> USE Ids DEF StartDrawing, Goto, Tasks, Locations
<1>1. pc \in [Tasks -> Locations] /\ page \in [Tasks -> PageIds]
  BY DEF DataOK
<1>2. CASE TapPage \/ TapHome \/ TapRefresh \/ goBackWild \/ getUILevel \/ DialPressed
  BY <1>1, <1>2 DEF TapPage, TapHome, TapRefresh, goBackWild, getUILevel, DialPressed
<1>3. CASE goBack
  <2>1. BackTarget \in PageIds
    BY <1>3, Popped DEF goBack, BackTarget, DataOK
  <2> QED
    BY <1>1, <1>3, <2>1 DEF goBack
<1>4. ASSUME NEW p \in Tasks, Draw(p)
      PROVE  pc' \in [Tasks -> Locations] /\ page' \in [Tasks -> PageIds]
  BY <1>1, <1>4 DEF Draw, DrawPage, drawHeader, addPageToPagePath, addPageWild, DrawBody
<1>5. CASE Reset \/ UNCHANGED vars
  BY <1>1, <1>5 DEF Reset, vars
<1> QED
  BY <1>2, <1>3, <1>4, <1>5 DEF Next, Tap

\* One step keeps the history a sequence of page ids that fits the array.
LEMMA PathStep == DataOK /\ [Next]_vars => pagePath' \in Seq(PageIds) /\ Len(pagePath') <= PathSize
<1> SUFFICES ASSUME DataOK, [Next]_vars
             PROVE  pagePath' \in Seq(PageIds) /\ Len(pagePath') <= PathSize
  OBVIOUS
<1>1. pagePath \in Seq(PageIds) /\ Len(pagePath) <= PathSize /\ currentRoomID \in PageIds
  BY DEF DataOK
<1>2. CASE pagePath' = <<>>
  BY <1>2, Emptied
<1>3. CASE UNCHANGED pagePath
  BY <1>1, <1>3
<1>4. CASE goBack
  <2>1. Len(pagePath) >= 2 /\ pagePath' = SubSeq(pagePath, 1, Len(pagePath) - 1)
    BY <1>4 DEF goBack
  <2> QED
    BY <1>1, <2>1, Popped
<1>5. ASSUME NEW p \in Tasks, addPageToPagePath(p)
      PROVE  pagePath' \in Seq(PageIds) /\ Len(pagePath') <= PathSize
  <2>1. Len(pagePath) < PathSize /\ pagePath' = Append(pagePath, currentRoomID)
    BY <1>5 DEF addPageToPagePath
  <2> QED
    BY <1>1, <2>1, Pushed
<1> QED
  BY <1>2, <1>3, <1>4, <1>5
     DEF Next, Tap, TapPage, TapHome, TapRefresh, goBackWild, getUILevel, DialPressed, Draw,
         DrawPage, drawHeader, addPageWild, DrawBody, Reset, vars

\* One step keeps the other variables in their types.
LEMMA DataStep == DataOK /\ [Next]_vars => DataOK'
<1> SUFFICES ASSUME DataOK, [Next]_vars PROVE DataOK'
  OBVIOUS
<1>1. refreshes' \in 0..MaxRefreshes /\ uiLevel' \in 1..3
  <2>1. refreshes \in 0..MaxRefreshes /\ uiLevel \in 1..3
    BY DEF DataOK
  <2>2. CASE TapRefresh
    <3>1. refreshes < MaxRefreshes /\ refreshes' = refreshes + 1 /\ UNCHANGED uiLevel
      BY <2>2 DEF TapRefresh
    <3> QED
      BY <2>1, <3>1
  <2>3. (refreshes' \in {0, refreshes} /\ uiLevel' \in {uiLevel, 3} \cup 1..3) \/ TapRefresh
    BY DEF Next, Tap, TapPage, TapHome, goBack, goBackWild, getUILevel, DialPressed, Draw,
           DrawPage, drawHeader, addPageToPagePath, addPageWild, DrawBody, Reset, vars
  <2> QED
    BY <2>1, <2>2, <2>3
<1>2. currentScreenType' \in {"", "HOME", "ROOMS", "ROOM", "LIGHT"}
  <2>1. currentScreenType \in {"", "HOME", "ROOMS", "ROOM", "LIGHT"}
    BY DEF DataOK
  <2>2. ASSUME NEW p \in Tasks, DrawPage(p)
        PROVE  currentScreenType' \in {"", "HOME", "ROOMS", "ROOM", "LIGHT"}
    <3>1. currentScreenType' = ScreenTypeOf(page[p])
      BY <2>2 DEF DrawPage
    <3> QED
      BY <2>1, <3>1 DEF ScreenTypeOf
  <2> QED
    BY <2>1, <2>2
       DEF Next, Tap, TapPage, TapHome, TapRefresh, goBack, goBackWild, getUILevel, DialPressed,
           Draw, drawHeader, addPageToPagePath, addPageWild, DrawBody, Reset, vars, screenVars
<1>3. currentRoomID' \in PageIds /\ buttons' \subseteq PageIds
  <2>1. /\ currentRoomID \in PageIds /\ buttons \subseteq PageIds
        /\ page \in [Tasks -> PageIds]
    BY DEF DataOK
  <2>2. ASSUME NEW p \in Tasks, Draw(p)
        PROVE  currentRoomID' \in PageIds /\ buttons' \subseteq PageIds
    BY <2>1, <2>2, Ids DEF Draw, DrawPage, drawHeader, addPageToPagePath, addPageWild, DrawBody,
                           drawAllRoomsID, screenVars
  <2> QED
    BY <2>1, <2>2, Ids
       DEF Next, Tap, TapPage, TapHome, TapRefresh, goBack, goBackWild, getUILevel, DialPressed,
           Reset, vars, screenVars
<1> QED
  BY <1>1, <1>2, <1>3, ControlStep, PathStep DEF DataOK

\* Every variable keeps its type, for an array of any size.
THEOREM TypeCorrect == Spec => []TypeOK
<1>1. Init => TypeOK
  <2> SUFFICES ASSUME Init PROVE TypeOK
    OBVIOUS
  <2>1. FlagsOK
    BY Zenon DEF Init, FlagsOK
  <2>2. pagePath = <<>> /\ uiLevel = 3 /\ refreshes = 0 /\ buttons = {}
    BY DEF Init
  <2>3. pagePath \in Seq(PageIds) /\ Len(pagePath) <= PathSize
    BY <2>2, Emptied
  <2>4. pc \in [Tasks -> Locations] /\ page \in [Tasks -> PageIds]
    BY Ids DEF Init, Locations
  <2>5. uiLevel \in 1..3 /\ refreshes \in 0..MaxRefreshes
    BY <2>2
  <2>6. currentRoomID \in PageIds /\ currentScreenType = "" /\ buttons \subseteq PageIds
    BY <2>2, Ids DEF Init
  <2>7. DataOK
    BY <2>3, <2>4, <2>5, <2>6 DEF DataOK
  <2> QED
    BY <2>1, <2>7 DEF TypeOK
<1>2. TypeOK /\ [Next]_vars => TypeOK'
  BY FlagsStep, DataStep DEF TypeOK
<1> QED
  BY <1>1, <1>2, PTL DEF Spec

-----------------------------------------------------------------------------
(* The trail.                                                              *)

\* No page but a light is more than three links away from home.
LEMMA DepthRange ==
    \A g \in PageIds : /\ Depth(g) \in 1..5
                       /\ g # drawLightID => Depth(g) <= 4
  BY DEF Depth

\* A link leads one level down.
LEMMA DepthOpens ==
    ASSUME NEW b \in PageIds, NEW g \in PageIds, <<b, g>> \in Links
    PROVE  Depth(g) >= Depth(b) + 1 /\ g # drawHomeID
  BY DEF Links, Depth, PageIds, drawHomeID, drawAllRoomsID, drawRoomID, drawLightID,
         drawAllLightsID, drawAllBehaviorID, drawBehaviorID, changeBehaviorID

\* Opening a deeper page over the one on top leaves room for it.
LEMMA OpenTrail ==
    ASSUME NEW s \in Seq(PageIds), NEW r \in Nat, NEW u \in 1..3,
           NEW b \in PageIds, NEW g \in PageIds,
           OnTop(s, r, u, b), b = drawHomeID => u # 1, Depth(g) >= Depth(b) + 1
    PROVE  Fits(s, r, g, Len(s) + 1)
<1>1. Len(s) \in Nat /\ Depth(b) \in Nat /\ Depth(g) \in Nat
  BY DepthRange
<1>2. Len(s) <= r + Depth(b)
  BY DEF OnTop, Fits
<1>3. Len(s) + 1 <= r + Depth(g)
  BY <1>1, <1>2
<1>4. \E h \in 1..Len(s) : s[h] = drawHomeID
  <2>1. CASE b = drawHomeID
    <3>1. s # <<>> /\ s[Len(s)] = drawHomeID
      BY <2>1 DEF OnTop
    <3>2. Len(s) \in 1..Len(s)
      BY <3>1
    <3> QED
      BY <3>1, <3>2
  <2>2. CASE b # drawHomeID
    <3>1. \E h \in 1..(Len(s) - 1) : s[h] = drawHomeID
      BY <2>2 DEF OnTop, Fits
    <3> QED
      BY <1>1, <3>1
  <2> QED
    BY <2>1, <2>2
<1>5. 1..Len(s) = 1..((Len(s) + 1) - 1)
  BY <1>1
<1> QED
  BY <1>3, <1>4, <1>5 DEF Fits

\* addPageToPagePath records a page that fits.
LEMMA PushTrail ==
    ASSUME NEW s \in Seq(PageIds), NEW r \in Nat, NEW u \in 1..3, NEW g \in PageIds,
           Placed(s, r), Fits(s, r, g, Len(s) + 1)
    PROVE  LET t == Append(s, Recorded(u, g)) IN Placed(t, r) /\ OnTop(t, r, u, g)
<1> DEFINE e == Recorded(u, g)
           t == Append(s, e)
<1>1. e \in PageIds /\ Depth(g) <= Depth(e)
  BY Ids DEF Recorded, Depth, drawHomeID, drawAllRoomsID, drawAllBehaviorID
<1> HIDE DEF e
<1>2. /\ t \in Seq(PageIds) /\ Len(t) = Len(s) + 1 /\ t[Len(s) + 1] = e
      /\ \A k \in 1..Len(s) : t[k] = s[k]
  BY <1>1, Pushed
<1> HIDE DEF t
<1>3. Len(s) \in Nat /\ Depth(e) \in Nat /\ Depth(g) \in Nat
  BY <1>1, DepthRange
<1>4. Len(s) + 1 <= r + Depth(g)
  BY DEF Fits
<1>5. Placed(t, r)
  <2> SUFFICES ASSUME NEW k \in 1..Len(t) PROVE k <= r + Depth(t[k])
    BY DEF Placed
  <2>1. CASE k = Len(s) + 1
    BY <1>1, <1>2, <1>3, <1>4, <2>1
  <2>2. CASE k # Len(s) + 1
    <3>1. k \in 1..Len(s)
      BY <1>2, <1>3, <2>2
    <3>2. k <= r + Depth(s[k])
      BY <3>1 DEF Placed
    <3> QED
      BY <1>2, <3>1, <3>2
  <2> QED
    BY <2>1, <2>2
<1>6. ASSUME g # drawHomeID
      PROVE  \E h \in 1..(Len(t) - 1) : t[h] = drawHomeID
  <2>1. \E h \in 1..((Len(s) + 1) - 1) : s[h] = drawHomeID
    BY <1>6 DEF Fits
  <2>2. (Len(s) + 1) - 1 = Len(s) /\ Len(t) - 1 = Len(s)
    BY <1>2, <1>3
  <2> QED
    BY <1>2, <2>1, <2>2
<1>7. g # drawHomeID \/ u # 1 => t[Len(t)] = g
  BY <1>2 DEF e, Recorded
<1>8. t # <<>>
  BY <1>2, <1>3
<1>9. Fits(t, r, g, Len(t))
  BY <1>2, <1>4, <1>6 DEF Fits
<1> QED
  BY <1>5, <1>7, <1>8, <1>9 DEF OnTop, t, e

\* Under a page that is not home lies another one, which Back finds on top.
LEMMA PopTrail ==
    ASSUME NEW s \in Seq(PageIds), NEW r \in Nat, NEW u \in 1..3, NEW g \in PageIds,
           Placed(s, r), OnTop(s, r, u, g), g # drawHomeID
    PROVE  LET t == SubSeq(s, 1, Len(s) - 1) IN
           Len(s) >= 2 /\ Placed(t, r) /\ OnTop(t, r, u, s[Len(s) - 1])
<1> DEFINE t == SubSeq(s, 1, Len(s) - 1)
           b == s[Len(s) - 1]
<1>1. PICK h \in 1..(Len(s) - 1) : s[h] = drawHomeID
  BY DEF OnTop, Fits
<1>2. Len(s) \in Nat /\ Len(s) >= 2
  BY <1>1
<1>3. /\ t \in Seq(PageIds) /\ Len(t) = Len(s) - 1 /\ b \in PageIds
      /\ \A k \in 1..(Len(s) - 1) : t[k] = s[k]
  BY <1>2, Popped
<1> HIDE DEF t
<1>4. Placed(t, r)
  <2> SUFFICES ASSUME NEW k \in 1..Len(t) PROVE k <= r + Depth(t[k])
    BY DEF Placed
  <2>1. k \in 1..Len(s) /\ k \in 1..(Len(s) - 1)
    BY <1>2, <1>3
  <2>2. k <= r + Depth(s[k])
    BY <2>1 DEF Placed
  <2> QED
    BY <1>3, <2>1, <2>2
<1>5. t[Len(t)] = b /\ Len(t) \in 1..Len(t) /\ t # <<>>
  BY <1>2, <1>3
<1>6. Len(t) <= r + Depth(b)
  BY <1>4, <1>5 DEF Placed
<1>7. ASSUME b # drawHomeID
      PROVE  \E k \in 1..(Len(t) - 1) : t[k] = drawHomeID
  <2>1. h # Len(s) - 1
    BY <1>1, <1>7
  <2>2. h \in 1..(Len(t) - 1) /\ t[h] = drawHomeID
    BY <1>1, <1>2, <1>3, <2>1
  <2> QED
    BY <2>2
<1>8. Fits(t, r, b, Len(t))
  BY <1>6, <1>7 DEF Fits
<1> QED
  BY <1>2, <1>4, <1>5, <1>8 DEF OnTop, t

\* What the step lemmas below start from: the trail is sound and stays so, and
\* the device runs.
Sound == TypeOK /\ TrailOK /\ ~derailed' /\ ~wild'

\* The types the trail lemmas need.
LEMMA TrailTypes ==
    TypeOK => pagePath \in Seq(PageIds) /\ refreshes \in Nat /\ uiLevel \in 1..3
<1> SUFFICES ASSUME TypeOK
             PROVE  pagePath \in Seq(PageIds) /\ refreshes \in Nat /\ uiLevel \in 1..3
  OBVIOUS
<1>1. pagePath \in Seq(PageIds) /\ refreshes \in 0..MaxRefreshes /\ uiLevel \in 1..3
  BY DEF TypeOK, DataOK
<1>2. refreshes \in Nat
  BY <1>1
<1> QED
  BY <1>1, <1>2

\* A task that begins to draw while the other one draws loses the trail.
LEMMA StartAlone ==
    ASSUME NEW p \in Tasks, NEW g, NEW l \in Locations \ {"idle"}, TypeOK,
           StartDrawing(p, g, l), ~Overlap(p), Placed(pagePath, refreshes)', Drawing(l, g)'
    PROVE  TrailOK'
<1>1. pc \in [Tasks -> Locations] /\ page \in [Tasks -> PageIds]
  BY DEF TypeOK, DataOK
<1>2. pc'[p] = l /\ page'[p] = g /\ pc'[Other(p)] = "idle"
  BY <1>1 DEF StartDrawing, Goto, Overlap, Idle, Other, Tasks
<1>3. p = "touch" \/ p = "encoder"
  BY DEF Tasks
<1> QED
  BY <1>2, <1>3, Zenon DEF TrailOK, Other, Locations

\* A tap on a link of the page on the screen.
LEMMA TapPageStep == Sound /\ TapPage => TrailOK'
<1> SUFFICES ASSUME Sound, TapPage PROVE TrailOK'
  OBVIOUS
<1>1. PICK b \in buttons, g \in PageIds : Opens(b, g) /\ StartDrawing("touch", g, "draw")
  BY DEF TapPage
<1>2. ~Overlap("touch") /\ pc["touch"] = "idle" /\ pc["encoder"] = "idle"
  BY <1>1 DEF Sound, TapPage, StartDrawing, Overlap, Idle, Other
<1>3. b \in PageIds /\ ~isGoingBack /\ OnTop(pagePath, refreshes, uiLevel, b) /\ Shown(b)
  BY <1>1, <1>2 DEF Sound, TrailOK, Resting
<1>4. pagePath \in Seq(PageIds) /\ refreshes \in Nat /\ uiLevel \in 1..3
  BY TrailTypes DEF Sound
<1>5. Depth(g) >= Depth(b) + 1 /\ uiLevel # 1
  BY <1>1, <1>3, <1>4, DepthOpens DEF Opens, Shown
<1>6. Fits(pagePath, refreshes, g, Len(pagePath) + 1)
  BY <1>3, <1>4, <1>5, OpenTrail
<1>7. UNCHANGED <<pagePath, isGoingBack, currentScreenType, uiLevel, refreshes>>
  BY DEF TapPage, screenVars
<1>8. Drawing("draw", g)'
  BY <1>3, <1>5, <1>6, <1>7 DEF Drawing
<1>9. Placed(pagePath, refreshes)'
  BY <1>7 DEF Sound, TrailOK
<1> QED
  BY <1>1, <1>2, <1>8, <1>9, StartAlone DEF Sound, Tasks, Locations

\* The Home button empties the history, and finds a lost trail again.
LEMMA TapHomeStep == TypeOK /\ TrailInv /\ ~wild /\ TapHome /\ ~derailed' => TrailOK'
<1> SUFFICES ASSUME TypeOK, TrailInv, ~wild, TapHome, ~derailed' PROVE TrailOK'
  OBVIOUS
<1>1. ~Overlap("touch") /\ pc["touch"] = "idle" /\ pc["encoder"] = "idle"
  BY DEF TapHome, StartDrawing, Overlap, Idle, Other
<1>2. ~isGoingBack
  <2>1. CASE derailed
    BY <2>1 DEF TapHome
  <2>2. CASE ~derailed
    BY <1>1, <2>2 DEF TrailInv, TrailOK, Resting
  <2> QED
    BY <2>1, <2>2
<1>3. /\ StartDrawing("touch", drawHomeID, "draw") /\ pagePath' = <<>> /\ refreshes' = 0
      /\ UNCHANGED isGoingBack
  BY DEF TapHome
<1>4. Depth(drawHomeID) = 1 /\ Len(<<>>) = 0
  BY DEF Depth
<1>5. Fits(<<>>, 0, drawHomeID, 0 + 1) /\ Placed(<<>>, 0)
  BY <1>4 DEF Fits, Placed
<1>6. Drawing("draw", drawHomeID)'
  BY <1>2, <1>3, <1>4, <1>5 DEF Drawing
<1>7. Placed(pagePath, refreshes)'
  BY <1>3, <1>5
<1> QED
  BY <1>1, <1>3, <1>6, <1>7, StartAlone DEF Tasks, Locations

\* A refresh records home once more.
LEMMA TapRefreshStep == Sound /\ TapRefresh => TrailOK'
<1> SUFFICES ASSUME Sound, TapRefresh PROVE TrailOK'
  OBVIOUS
<1>1. /\ StartDrawing("touch", drawHomeID, "fetch") /\ drawHomeID \in buttons
      /\ refreshes' = refreshes + 1 /\ UNCHANGED <<pagePath, isGoingBack>>
  BY DEF TapRefresh
<1>2. ~Overlap("touch") /\ pc["touch"] = "idle" /\ pc["encoder"] = "idle"
  BY <1>1 DEF Sound, TapRefresh, StartDrawing, Overlap, Idle, Other
<1>3. ~isGoingBack /\ OnTop(pagePath, refreshes, uiLevel, drawHomeID)
  BY <1>1, <1>2 DEF Sound, TrailOK, Resting
<1>4. pagePath \in Seq(PageIds) /\ refreshes \in Nat
  BY TrailTypes DEF Sound
<1>5. Len(pagePath) \in Nat /\ Len(pagePath) <= refreshes + 1 /\ Depth(drawHomeID) = 1
  BY <1>3, <1>4 DEF OnTop, Fits, Depth
<1>6. Len(pagePath) + 1 <= (refreshes + 1) + 1
  BY <1>4, <1>5
<1>7. Fits(pagePath, refreshes + 1, drawHomeID, Len(pagePath) + 1)
  BY <1>5, <1>6 DEF Fits
<1>8. Drawing("fetch", drawHomeID)'
  BY <1>1, <1>3, <1>7 DEF Drawing
<1>9. Placed(pagePath, refreshes)'
  <2> SUFFICES ASSUME NEW k \in 1..Len(pagePath) PROVE k <= (refreshes + 1) + Depth(pagePath[k])
    BY <1>1 DEF Placed
  <2>1. k <= refreshes + Depth(pagePath[k])
    BY DEF Sound, TrailOK, Placed
  <2>2. Depth(pagePath[k]) \in Nat /\ k \in Nat
    BY <1>4, DepthRange
  <2> QED
    BY <1>4, <2>1, <2>2
<1> QED
  BY <1>1, <1>2, <1>8, <1>9, StartAlone DEF Sound, Tasks, Locations

\* On a page with a Back button something lies below the top.
LEMMA BackFinds ==
    ASSUME TypeOK, TrailOK, BackButton, ~Overlap("touch")
    PROVE  /\ Len(pagePath) >= 2 /\ uiLevel # 1
           /\ LET t == SubSeq(pagePath, 1, Len(pagePath) - 1) IN
              Placed(t, refreshes) /\ OnTop(t, refreshes, uiLevel, BackTarget)
<1>1. pc["touch"] = "idle" /\ pc["encoder"] = "idle"
  BY DEF BackButton, Overlap, Idle, Other
<1>2. PICK g \in PageIds : buttons = {g} /\ OnTop(pagePath, refreshes, uiLevel, g) /\ Shown(g)
  BY <1>1 DEF TrailOK, Resting
<1>3. g # drawHomeID /\ uiLevel # 1
  BY <1>2 DEF BackButton, Shown
<1>4. pagePath \in Seq(PageIds) /\ refreshes \in Nat /\ uiLevel \in 1..3
  BY TrailTypes
<1> QED
  BY <1>2, <1>3, <1>4, PopTrail DEF TrailOK, BackTarget

\* goBack draws the page it found, with isGoingBack set.
LEMMA goBackStep == Sound /\ goBack => TrailOK'
<1> SUFFICES ASSUME Sound, goBack PROVE TrailOK'
  OBVIOUS
<1>1. ~Overlap("touch") /\ BackTarget # changeBehaviorID
  BY DEF goBack, Sound
<1>2. /\ StartDrawing("touch", BackTarget, "draw") /\ isGoingBack' = TRUE
      /\ pagePath' = SubSeq(pagePath, 1, Len(pagePath) - 1)
      /\ UNCHANGED <<uiLevel, refreshes>>
  BY <1>1 DEF goBack
<1>3. /\ uiLevel # 1 /\ Placed(pagePath', refreshes)
      /\ OnTop(pagePath', refreshes, uiLevel, BackTarget)
  BY <1>1, <1>2, BackFinds DEF goBack, Sound
<1> DEFINE g == BackTarget
<1> HIDE DEF g
<1>4. StartDrawing("touch", g, "draw") /\ OnTop(pagePath', refreshes, uiLevel, g)
  BY <1>2, <1>3 DEF g
<1>5. Placed(pagePath, refreshes)'
  BY <1>2, <1>3
<1>6. pc \in [Tasks -> Locations] /\ page \in [Tasks -> PageIds]
  BY DEF Sound, TypeOK, DataOK
<1>7. pc'["touch"] = "draw" /\ page'["touch"] = g /\ pc'["encoder"] = "idle"
  BY <1>1, <1>4, <1>6 DEF StartDrawing, Goto, Overlap, Idle, Other, Tasks
<1>8. Drawing(pc["touch"], page["touch"])'
  BY <1>2, <1>3, <1>4, <1>7 DEF Drawing
<1> QED
  BY <1>5, <1>7, <1>8 DEF TrailOK

\* fetchData goes on to draw home at whatever level it read.
LEMMA getUILevelStep == Sound /\ getUILevel => TrailOK'
<1> SUFFICES ASSUME Sound, getUILevel PROVE TrailOK'
  OBVIOUS
<1>1. /\ pc["touch"] = "fetch" /\ pc' = [pc EXCEPT !["touch"] = "draw"]
      /\ UNCHANGED <<page, pagePath, isGoingBack, refreshes>>
  BY DEF getUILevel, Goto
<1>2. pc["encoder"] = "idle" /\ Drawing("fetch", page["touch"]) /\ Placed(pagePath, refreshes)
  BY <1>1 DEF Sound, TrailOK
<1>3. pc'["touch"] = "draw" /\ pc'["encoder"] = "idle"
  BY <1>1, <1>2 DEF Sound, TypeOK, DataOK, Tasks
<1>4. Drawing("draw", page["touch"])'
  BY <1>1, <1>2 DEF Drawing
<1> QED
  BY <1>1, <1>2, <1>3, <1>4 DEF TrailOK

\* The dial opens a light over any page but a light.
LEMMA DialStep == Sound /\ DialPressed => TrailOK'
<1> SUFFICES ASSUME Sound, DialPressed PROVE TrailOK'
  OBVIOUS
<1>1. /\ StartDrawing("encoder", drawLightID, "draw") /\ uiLevel # 1
      /\ currentScreenType \in {"HOME", "ROOMS"}
      /\ UNCHANGED <<pagePath, isGoingBack, uiLevel, refreshes>>
  BY DEF DialPressed
<1>2. ~Overlap("encoder") /\ pc["touch"] = "idle" /\ pc["encoder"] = "idle"
  BY <1>1 DEF Sound, DialPressed, StartDrawing, Overlap, Idle, Other
<1>3. PICK b \in PageIds : ~isGoingBack /\ OnTop(pagePath, refreshes, uiLevel, b) /\ Shown(b)
  BY <1>2 DEF Sound, TrailOK, Resting
<1>4. pagePath \in Seq(PageIds) /\ refreshes \in Nat /\ uiLevel \in 1..3
  BY TrailTypes DEF Sound
<1>5. b # drawLightID
  BY <1>1, <1>3 DEF Shown
<1>6. Depth(drawLightID) >= Depth(b) + 1 /\ drawLightID \in PageIds
  BY <1>5, DepthRange, Ids DEF Depth, drawLightID, drawHomeID, drawAllRoomsID,
                               drawAllBehaviorID, drawRoomID, drawBehaviorID
<1>7. Fits(pagePath, refreshes, drawLightID, Len(pagePath) + 1)
  BY <1>1, <1>3, <1>4, <1>6, OpenTrail
<1>8. Drawing("draw", drawLightID)'
  BY <1>1, <1>3, <1>7 DEF Drawing
<1>9. Placed(pagePath, refreshes)'
  BY <1>1 DEF Sound, TrailOK
<1> QED
  BY <1>1, <1>2, <1>8, <1>9, StartAlone DEF Sound, Tasks, Locations

\* The task that draws is alone, and it may go on alone.
LEMMA DrawsAlone ==
    ASSUME NEW p \in Tasks, TypeOK, TrailOK, pc[p] # "idle"
    PROVE  /\ pc[Other(p)] = "idle" /\ Drawing(pc[p], page[p])
           /\ \A l \in Locations \ {"idle"} :
                 Goto(p, l) /\ Placed(pagePath, refreshes)' /\ Drawing(l, page[p])' => TrailOK'
<1>1. p = "touch" \/ p = "encoder"
  BY DEF Tasks
<1>2. pc[Other(p)] = "idle" /\ Drawing(pc[p], page[p])
  BY <1>1 DEF TrailOK, Other
<1>3. ASSUME NEW l \in Locations \ {"idle"},
             Goto(p, l), Placed(pagePath, refreshes)', Drawing(l, page[p])'
      PROVE  TrailOK'
  <2>1. pc'[p] = l /\ pc'[Other(p)] = "idle"
    BY <1>1, <1>2, <1>3 DEF Goto, TypeOK, DataOK, Tasks, Other
  <2> QED
    BY <1>1, <1>3, <2>1, Zenon DEF TrailOK, Other, Locations
<1> QED
  BY <1>2, <1>3

\* Each page sets the screen type and the id that drawHeader will record.
LEMMA DrawPageStep == ASSUME NEW p \in Tasks PROVE Sound /\ DrawPage(p) => TrailOK'
<1> SUFFICES ASSUME Sound, DrawPage(p) PROVE TrailOK'
  OBVIOUS
<1> DEFINE g == page[p]
<1>1. /\ pc[p] = "draw" /\ Goto(p, "header")
      /\ currentScreenType' = ScreenTypeOf(g) /\ currentRoomID' = Recorded(uiLevel, g)
      /\ UNCHANGED <<page, pagePath, isGoingBack, uiLevel, refreshes>>
  BY DEF DrawPage, Recorded, drawAllRoomsID
<1>2. Drawing("draw", g) /\ Placed(pagePath, refreshes)
  BY <1>1, DrawsAlone DEF Sound, TrailOK
<1>3. g = drawLightID => ScreenTypeOf(g) = "LIGHT"
  BY DEF ScreenTypeOf, drawLightID, drawHomeID, drawAllRoomsID, drawRoomID
<1>4. Drawing("header", g)'
  BY <1>1, <1>2, <1>3 DEF Drawing, Shown
<1> QED
  BY <1>1, <1>2, <1>4, DrawsAlone DEF Sound, Locations

\* drawHeader consumes isGoingBack: the page is on top already, or is to be
\* recorded.
LEMMA drawHeaderStep == ASSUME NEW p \in Tasks PROVE Sound /\ drawHeader(p) => TrailOK'
<1> SUFFICES ASSUME Sound, drawHeader(p) PROVE TrailOK'
  OBVIOUS
<1> DEFINE g == page[p]
<1>1. /\ pc[p] = "header" /\ buttons' = {} /\ isGoingBack' = FALSE
      /\ UNCHANGED <<page, pagePath, uiLevel, refreshes, currentRoomID, currentScreenType>>
  BY DEF drawHeader, screenVars
<1>2. Drawing("header", g) /\ Placed(pagePath, refreshes)
  BY <1>1, DrawsAlone DEF Sound, TrailOK
<1>3. Placed(pagePath, refreshes)'
  BY <1>1, <1>2
<1>4. CASE isGoingBack
  <2>1. Goto(p, "body")
    BY <1>4 DEF drawHeader
  <2>2. Drawing("body", g)'
    BY <1>1, <1>2, <1>4 DEF Drawing, Shown
  <2> QED
    BY <1>1, <1>3, <2>1, <2>2, DrawsAlone DEF Sound, Locations
<1>5. CASE ~isGoingBack
  <2>1. Goto(p, "add")
    BY <1>5 DEF drawHeader
  <2>2. Drawing("add", g)'
    BY <1>1, <1>2, <1>5 DEF Drawing, Shown
  <2> QED
    BY <1>1, <1>3, <2>1, <2>2, DrawsAlone DEF Sound, Locations
<1> QED
  BY <1>4, <1>5

\* addPageToPagePath puts the page on top.
LEMMA addPageStep == ASSUME NEW p \in Tasks PROVE Sound /\ addPageToPagePath(p) => TrailOK'
<1> SUFFICES ASSUME Sound, addPageToPagePath(p) PROVE TrailOK'
  OBVIOUS
<1> DEFINE g == page[p]
<1>1. /\ pc[p] = "add" /\ Goto(p, "body") /\ isGoingBack' = FALSE
      /\ pagePath' = Append(pagePath, currentRoomID)
      /\ UNCHANGED <<page, buttons, uiLevel, refreshes, currentScreenType>>
  BY DEF addPageToPagePath, screenVars
<1>2. Drawing("add", g) /\ Placed(pagePath, refreshes)
  BY <1>1, DrawsAlone DEF Sound, TrailOK
<1>3. /\ currentRoomID = Recorded(uiLevel, g) /\ Shown(g) /\ buttons = {}
      /\ Fits(pagePath, refreshes, g, Len(pagePath) + 1) /\ (uiLevel = 1 => g = drawHomeID)
  BY <1>2 DEF Drawing
<1>4. pagePath \in Seq(PageIds) /\ refreshes \in Nat /\ uiLevel \in 1..3 /\ g \in PageIds
  BY TrailTypes DEF Sound, TypeOK, DataOK
<1>5. Placed(pagePath', refreshes) /\ OnTop(pagePath', refreshes, uiLevel, g)
  BY <1>1, <1>2, <1>3, <1>4, PushTrail
<1>6. Drawing("body", g)'
  BY <1>1, <1>3, <1>5 DEF Drawing, Shown
<1>7. Placed(pagePath, refreshes)'
  BY <1>1, <1>5
<1> QED
  BY <1>1, <1>6, <1>7, DrawsAlone DEF Sound, Locations

\* The body leaves the page on the screen and nobody drawing.
LEMMA DrawBodyStep == ASSUME NEW p \in Tasks PROVE Sound /\ DrawBody(p) => TrailOK'
<1> SUFFICES ASSUME Sound, DrawBody(p) PROVE TrailOK'
  OBVIOUS
<1> DEFINE g == page[p]
<1>1. /\ pc[p] = "body" /\ Goto(p, "idle") /\ buttons' = buttons \cup {g}
      /\ UNCHANGED <<pagePath, isGoingBack, uiLevel, refreshes, currentScreenType>>
  BY DEF DrawBody, screenVars
<1>2. /\ pc[Other(p)] = "idle" /\ Drawing("body", g) /\ Placed(pagePath, refreshes)
  BY <1>1, DrawsAlone DEF Sound, TrailOK
<1>3. /\ buttons = {} /\ ~isGoingBack /\ OnTop(pagePath, refreshes, uiLevel, g) /\ Shown(g)
  BY <1>2 DEF Drawing
<1>4. g \in PageIds /\ pc \in [Tasks -> Locations]
  BY DEF Sound, TypeOK, DataOK
<1>5. pc'["touch"] = "idle" /\ pc'["encoder"] = "idle"
  BY <1>1, <1>2, <1>4 DEF Goto, Tasks, Other
<1>6. Resting'
  BY <1>1, <1>3, <1>4 DEF Resting, Shown
<1> QED
  BY <1>1, <1>2, <1>5, <1>6 DEF TrailOK

\* The first page drawn is home, on an empty history.
LEMMA BootTrail ==
    /\ Init => TrailOK
    /\ Reset => TrailOK'
<1>1. Depth(drawHomeID) = 1 /\ Len(<<>>) = 0
  BY DEF Depth
<1>2. Fits(<<>>, 0, drawHomeID, 0 + 1) /\ Placed(<<>>, 0)
  BY <1>1 DEF Fits, Placed
<1>3. ASSUME Init PROVE TrailOK
  <2>1. /\ pc["touch"] = "fetch" /\ pc["encoder"] = "idle" /\ page["touch"] = drawHomeID
        /\ pagePath = <<>> /\ refreshes = 0 /\ ~isGoingBack
    BY <1>3 DEF Init, Tasks
  <2>2. Drawing("fetch", drawHomeID)
    BY <1>1, <1>2, <2>1 DEF Drawing
  <2> QED
    BY <1>2, <2>1, <2>2 DEF TrailOK
<1>4. ASSUME Reset PROVE TrailOK'
  <2>1. /\ pc'["touch"] = "fetch" /\ pc'["encoder"] = "idle" /\ page'["touch"] = drawHomeID
        /\ pagePath' = <<>> /\ refreshes' = 0 /\ ~isGoingBack'
    BY <1>4 DEF Reset, Tasks
  <2>2. Drawing("fetch", drawHomeID)'
    BY <1>1, <1>2, <2>1 DEF Drawing
  <2> QED
    BY <1>2, <2>1, <2>2 DEF TrailOK
<1> QED
  BY <1>3, <1>4

\* The trail stays sound until it is lost.
LEMMA TrailStep == TypeOK /\ TrailInv /\ [Next]_vars => TrailInv'
<1> SUFFICES ASSUME TypeOK, TrailInv, [Next]_vars, ~derailed', ~wild' PROVE TrailOK'
  BY DEF TrailInv
<1>1. CASE TapHome /\ ~wild
  BY <1>1, TapHomeStep
<1>2. CASE Reset
  BY <1>2, BootTrail
<1>3. CASE UNCHANGED vars
  <2>1. TrailOK
    BY <1>3 DEF TrailInv, vars
  <2> QED
    BY <1>3, <2>1 DEF vars, TrailOK, Resting, Drawing, Shown
<1>4. CASE /\ ~wild
           /\ TapPage \/ TapRefresh \/ goBack \/ goBackWild \/ getUILevel \/ DialPressed
              \/ \E p \in Tasks : Draw(p)
  <2>1. ~derailed
    BY <1>4, Zenon DEF TapPage, TapRefresh, goBack, goBackWild, getUILevel, DialPressed, Draw,
                DrawPage, drawHeader, addPageToPagePath, addPageWild, DrawBody
  <2>2. Sound
    BY <1>4, <2>1 DEF TrailInv, Sound
  <2>3. ~goBackWild /\ \A p \in Tasks : ~addPageWild(p)
    BY DEF goBackWild, addPageWild
  <2> QED
    BY <1>4, <2>2, <2>3, TapPageStep, TapRefreshStep, goBackStep, getUILevelStep, DialStep,
       DrawPageStep, drawHeaderStep, addPageStep, DrawBodyStep DEF Draw
<1> QED
  BY <1>1, <1>2, <1>3, <1>4 DEF Next, Tap

\* pagePath is left only once the trail is lost or the refreshes fill it.
LEMMA BoundsStep == NavInv /\ [Next]_vars => HistoryInBounds'
<1> SUFFICES ASSUME NavInv, [Next]_vars, wild', ~derailed'
             PROVE  refreshes' + 5 > PathSize
  BY DEF HistoryInBounds
<1>1. CASE UNCHANGED vars
  BY <1>1 DEF vars, NavInv, HistoryInBounds
<1>2. CASE ~wild /\ goBackWild
  <2>1. ~derailed /\ ~Overlap("touch") /\ BackButton /\ Len(pagePath) < 2
    BY <1>2, Zenon DEF goBackWild
  <2>2. TypeOK /\ TrailOK
    BY <1>2, <2>1 DEF NavInv, TrailInv
  <2>3. pagePath \in Seq(PageIds)
    BY <2>2, TrailTypes
  <2> QED
    BY <2>1, <2>2, <2>3, BackFinds
<1>3. ASSUME NEW p \in Tasks, ~wild, addPageWild(p)
      PROVE  refreshes' + 5 > PathSize
  <2>1. /\ ~derailed /\ pc[p] = "add" /\ refreshes' = refreshes
        /\ Len(pagePath) >= PathSize \/ pc[Other(p)] = "add"
    BY <1>3 DEF addPageWild
  <2>2. TypeOK /\ TrailOK
    BY <1>3, <2>1 DEF NavInv, TrailInv
  <2>3. pc[Other(p)] = "idle" /\ Drawing("add", page[p])
    BY <2>1, <2>2, DrawsAlone
  <2>4. Len(pagePath) >= PathSize
    BY <2>1, <2>3
  <2>5. Len(pagePath) + 1 <= refreshes + Depth(page[p])
    BY <2>3 DEF Drawing, Fits
  <2>6. pagePath \in Seq(PageIds) /\ refreshes \in Nat /\ page[p] \in PageIds
    BY <2>2, TrailTypes DEF TypeOK, DataOK
  <2>7. Depth(page[p]) \in 1..5 /\ Len(pagePath) \in Nat
    BY <2>6, DepthRange
  <2> QED
    BY <2>1, <2>4, <2>5, <2>6, <2>7
<1> QED
  <2>1. CASE wild
    BY <1>1, <2>1 DEF Next, Reset
  <2>2. CASE ~wild
    BY <1>1, <1>2, <1>3, <2>2, Zenon
       DEF Next, Tap, TapPage, TapHome, TapRefresh, goBack, getUILevel, DialPressed, Draw,
           DrawPage, drawHeader, addPageToPagePath, DrawBody, Reset, vars
  <2> QED
    BY <2>1, <2>2

\* The inductive invariant behind the two theorems below.
THEOREM NavCorrect == Spec => []NavInv
<1>1. Init => TrailInv /\ HistoryInBounds
  BY BootTrail DEF TrailInv, HistoryInBounds, Init
<1>2. NavInv /\ [Next]_vars => TrailInv' /\ HistoryInBounds'
  BY TrailStep, BoundsStep DEF NavInv
<1> QED
  BY TypeCorrect, <1>1, <1>2, PTL DEF Spec, NavInv

\* For every size of pagePath: it is accessed out of bounds only after the trail
\* was lost, or after refreshes that fill it (addPageToPagePath, goBack).
THEOREM HistoryBoundsSafe == Spec => []HistoryInBounds
  BY NavCorrect, PTL DEF NavInv

\* For every size of pagePath: between drawings the top of the history is the
\* page on the screen, unless the trail was lost.
THEOREM HistoryMatchesSafe == Spec => []HistoryMatchesScreen
<1>1. NavInv => HistoryMatchesScreen
  <2> SUFFICES ASSUME NavInv, ~derailed, Quiet, ~wild, uiLevel # 1
               PROVE  /\ pagePath # <<>>
                      /\ buttons = {pagePath[Len(pagePath)]}
                      /\ ~isGoingBack
    BY DEF HistoryMatchesScreen
  <2>1. Resting
    BY DEF NavInv, TrailInv, TrailOK, Quiet, Idle, Tasks
  <2> QED
    BY <2>1 DEF Resting, OnTop
<1> QED
  BY NavCorrect, <1>1, PTL

=============================================================================
