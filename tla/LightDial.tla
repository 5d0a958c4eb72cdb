------------------------------- MODULE LightDial -------------------------------
(***************************************************************************)
(* encoder_task against the touch task.  On the home page and the list of  *)
(* rooms the dials choose a light of currentRoom, switch it, change its    *)
(* brightness or open its page; on the page of a light they change the     *)
(* light the loop was entered with.  Each request to the bridge blocks the *)
(* dial, and taps replace currentRoom, currentLight and the screen type    *)
(* meanwhile: `moved' records that they did so under a loop that runs.     *)
(***************************************************************************)
EXTENDS DialScale

CONSTANTS
    Rooms,         \* elements of rooms[]; the empty room of the boot is apart
    FirstRoom,     \* rooms[0], where lastRoom stands at the boot
    RoomLights,    \* the lights of each
    NoRoom

Lights == UNION {{RoomLights[r][i] : i \in DOMAIN RoomLights[r]} : r \in Rooms}
Nothing == 0       \* an element of Room.lightIds that was never set

ASSUME RoomAssumption ==
    /\ NoRoom \notin Rooms /\ FirstRoom \in Rooms
    /\ RoomLights \in [Rooms -> Seq(Nat \ {Nothing})]

VARIABLES
    screen,        \* currentScreenType: "HOME" (or "ROOMS"), "ROOM", "LIGHT"
    touch,         \* where the touch task is in drawRoom, drawLight, Switch
    target,        \* what the touch task opens
    currentRoom, currentLight,
    loaded,        \* the room whose lights are in lights[]
    shownOn,       \* the bulb drawn on the page of the light
    RGBMode,
    at,            \* where encoder_task is
    counter, chosen, dialTurned,   \* locals of chooseAndAlterLightInRoom
    lightId, lightBrightness, hueCounter, tempCounter,   \* of adjustLight
    reads,         \* Switch of the dial: the state it read
    missed,        \* history: the last turn chose a light that is not in lightIds[]
    moved,         \* history: a tap replaced what the loop works on
    under,         \* history: a counter was turned below zero in this loop
    mixed          \* history: the bulb of the page was drawn by two at once

touchVars == <<touch, target>>
lightVars == <<currentLight, shownOn>>
chooseVars == <<counter, chosen, dialTurned, missed>>
adjustVars == <<lightId, lightBrightness, hueCounter, tempCounter>>
dialVars == <<at, chooseVars, adjustVars, reads>>
vars == <<screen, touchVars, currentRoom, lightVars, loaded, RGBMode, dialVars,
          moved, under, mixed>>

LightsOf(r) == IF r = NoRoom THEN <<>> ELSE RoomLights[r]
lightCounter == Len(LightsOf(currentRoom))
lightIds(i) == IF i < lightCounter THEN LightsOf(currentRoom)[i + 1] ELSE Nothing
InRoom(l, r) == \E i \in DOMAIN LightsOf(r) : LightsOf(r)[i] = l

\* What the bridge reported of a light, now or at the last refresh.
Reported(l) == [id : {l}, on : BOOLEAN, brightness : Brightness]

\* drawLight looks in lights[0 .. allLightCount), which holds lights of rooms opened
\* earlier, too, and none if the refresh failed.  Elements never set have the id 0.
NoLight == [id |-> Nothing, on |-> FALSE, brightness |-> 0]
Drawn(l) == {currentLight} \cup (IF l = Nothing THEN {NoLight} ELSE Reported(l))

Init ==
    /\ screen = "HOME" /\ touch = "idle" /\ target = Nothing
    /\ currentRoom = NoRoom /\ loaded = NoRoom
    /\ currentLight = NoLight
    /\ shownOn = FALSE /\ RGBMode = FALSE
    /\ at = "loop" /\ counter = 0 /\ chosen = Nothing /\ dialTurned = FALSE
    /\ lightId = Nothing /\ lightBrightness = 0 /\ hueCounter = 0 /\ tempCounter = 0
    /\ reads = FALSE /\ missed = FALSE /\ moved = FALSE /\ under = FALSE /\ mixed = FALSE

-----------------------------------------------------------------------------
(* Taps.                                                                   *)

Looping == at # "loop"

TapRoom(r) ==
    /\ touch = "idle" /\ screen = "HOME"
    /\ screen' = "ROOM" /\ touch' = "room" /\ target' = r
    /\ UNCHANGED <<currentRoom, lightVars, loaded, RGBMode, dialVars, moved, under, mixed>>

\* The room is taken from rooms[] if it is not the last one; until another was
\* opened the first one passes for it, and the room stays empty.
ReplaceRoom ==
    /\ touch = "room"
    /\ currentRoom' = IF currentRoom = NoRoom /\ target = FirstRoom THEN NoRoom ELSE target
    /\ touch' = "load"
    /\ moved' = (moved \/ (Looping /\ currentRoom' # currentRoom))
    /\ UNCHANGED <<screen, target, lightVars, loaded, RGBMode, dialVars, under, mixed>>

LoadLights ==
    /\ touch = "load"
    /\ loaded' = currentRoom /\ touch' = "idle" /\ target' = Nothing
    /\ UNCHANGED <<screen, currentRoom, lightVars, RGBMode, dialVars, moved, under, mixed>>

\* A light of the page of its room.
TapLight(l) ==
    /\ touch = "idle" /\ screen = "ROOM" /\ InRoom(l, loaded)
    /\ currentLight' \in Drawn(l)
    /\ touch' = "light" /\ moved' = (moved \/ Looping)
    /\ UNCHANGED <<screen, target, currentRoom, shownOn, loaded, RGBMode, dialVars, under, mixed>>

ShowLight ==
    /\ touch = "light"
    /\ screen' = "LIGHT" /\ shownOn' = currentLight.on /\ touch' = "idle"
    /\ mixed' = (at \in {"switch", "toggle", "flash"})
    /\ UNCHANGED <<target, currentRoom, currentLight, loaded, RGBMode, dialVars, moved, under>>

\* Back and Home; Back may lead anywhere once its trail was lost.  Pages without a
\* screen type of their own keep HOME.
TapBack ==
    /\ touch = "idle"
    /\ screen' \in {"HOME", "ROOM"}
    /\ UNCHANGED <<touchVars, currentRoom, lightVars, loaded, RGBMode, dialVars, moved, under, mixed>>

\* Back to drawLight looks for the id of the Back button (12), or for 0 once the
\* dial has opened a page.
BackToLight ==
    /\ touch = "idle"
    /\ \E l \in Lights \cup {Nothing} : currentLight' \in Drawn(l)
    /\ touch' = "light" /\ moved' = (moved \/ Looping)
    /\ UNCHANGED <<screen, target, currentRoom, shownOn, loaded, RGBMode, dialVars, under, mixed>>

TapMode ==
    /\ touch = "idle" /\ screen = "LIGHT"
    /\ RGBMode' \in BOOLEAN
    /\ UNCHANGED <<screen, touchVars, currentRoom, lightVars, loaded, dialVars, moved, under, mixed>>

\* Switch by a tap: the state is read, the bulb drawn, the bridge asked.
TapSwitch ==
    /\ touch = "idle" /\ screen = "LIGHT"
    /\ touch' = "switch" /\ target' = (IF currentLight.on THEN 1 ELSE Nothing)
    /\ shownOn' = ~currentLight.on
    /\ mixed' = (mixed \/ at \in {"switch", "toggle"})
    /\ UNCHANGED <<screen, currentRoom, currentLight, loaded, RGBMode, dialVars, moved, under>>

TapSwitched ==
    /\ touch = "switch"
    /\ currentLight' = [currentLight EXCEPT !.on = target = Nothing]
    /\ touch' = "idle" /\ target' = Nothing
    /\ UNCHANGED <<screen, currentRoom, shownOn, loaded, RGBMode, dialVars, moved, under, mixed>>

Touch ==
    \/ \E r \in Rooms : TapRoom(r)
    \/ \E l \in Lights : TapLight(l)
    \/ ReplaceRoom \/ LoadLights \/ ShowLight
    \/ TapBack \/ BackToLight \/ TapMode \/ TapSwitch \/ TapSwitched

-----------------------------------------------------------------------------
(* encoderLoop.                                                            *)

screenVars == <<screen, touchVars, currentRoom, loaded, RGBMode>>

\* Mutant: the light of the room is taken, whatever the page shows.
EnterWithRoom ==
    /\ at = "loop"
    /\ at' = IF screen = "HOME" THEN "choose" ELSE IF screen = "ROOM" THEN "room" ELSE "adjust"
    /\ moved' = FALSE /\ under' = FALSE
    /\ IF screen = "HOME"
       THEN /\ counter' = lightCounter /\ chosen' = Nothing
            /\ UNCHANGED adjustVars
       ELSE IF screen = "ROOM"
       THEN UNCHANGED <<counter, chosen, adjustVars>>
       ELSE /\ lightId' = lightIds(0) /\ lightBrightness' = currentLight.brightness
            /\ hueCounter' = 0 /\ tempCounter' = TempStart
            /\ UNCHANGED <<counter, chosen>>
    /\ UNCHANGED <<screenVars, lightVars, dialTurned, missed, reads, mixed>>

\* A loop is entered for the screen type of now.
Enter ==
    /\ at = "loop"
    /\ at' = IF screen = "HOME" THEN "choose" ELSE IF screen = "ROOM" THEN "room" ELSE "adjust"
    /\ moved' = FALSE /\ under' = FALSE
    /\ IF screen = "HOME"
       THEN /\ counter' = lightCounter /\ chosen' = Nothing
            /\ UNCHANGED adjustVars
       ELSE IF screen = "ROOM"
       THEN UNCHANGED <<counter, chosen, adjustVars>>
       ELSE /\ lightId' = currentLight.id /\ lightBrightness' = currentLight.brightness
            /\ hueCounter' = 0 /\ tempCounter' = TempStart
            /\ UNCHANGED <<counter, chosen>>
    /\ UNCHANGED <<screenVars, lightVars, dialTurned, missed, reads, mixed>>

\* The locals of a loop are gone with it.
Leave ==
    /\ at' = "loop"
    /\ counter' = 0 /\ chosen' = Nothing /\ dialTurned' = FALSE /\ missed' = FALSE
    /\ lightId' = Nothing /\ lightBrightness' = 0 /\ hueCounter' = 0 /\ tempCounter' = 0
    /\ UNCHANGED <<screenVars, lightVars, reads, moved, under, mixed>>

\* chooseAndAlterLightInRoom looks at the screen type itself.
LeaveChoose == at = "choose" /\ screen # "HOME" /\ Leave
Choosing == at = "choose" /\ screen = "HOME"

\* Mutant: the counter may stop one behind the end.
turnCounterFurther(c, increase) ==
    IF increase THEN IF c > lightCounter THEN 0 ELSE c + 1
    ELSE IF c = 0 THEN lightCounter ELSE c - 1

\* The counter runs over the lights and the room as a whole, behind them.
turnCounter(c, increase) ==
    LET n == IF increase THEN c + 1 ELSE (c + U8 - 1) % U8
    IN  IF n <= lightCounter THEN n ELSE IF increase THEN 0 ELSE lightCounter

\* The counter moves; the light, or the room, flashes.
Turn(increase) ==
    /\ Choosing
    /\ dialTurned' = TRUE /\ missed' = FALSE
    /\ counter' = turnCounter(counter, increase)
    /\ at' = IF counter' = lightCounter THEN "choose" ELSE "flash"
    /\ UNCHANGED <<screenVars, lightVars, chosen, adjustVars, reads, moved, under, mixed>>

\* After the request the light is read from currentRoom as it is then;
\* setCurrentLight takes its state of the last refresh, if lightIds[] has it, and
\* otherwise leaves currentLight as it was.
Flashed ==
    /\ at = "flash"
    /\ chosen' = lightIds(counter)
    /\ \/ chosen' # Nothing /\ currentLight' \in Reported(chosen') /\ missed' = FALSE
       \/ missed' = TRUE /\ UNCHANGED currentLight
    /\ at' = "choose"
    /\ UNCHANGED <<screenVars, shownOn, counter, dialTurned, adjustVars, reads, moved, under, mixed>>

\* Ten seconds without a turn.
Forget ==
    /\ Choosing /\ dialTurned /\ dialTurned' = FALSE
    /\ UNCHANGED <<screenVars, lightVars, at, counter, chosen, missed, adjustVars, reads, moved, under, mixed>>

\* A press opens the light, if the dial chose it just now, and in any case goes on
\* to switch it.
Press ==
    /\ Choosing
    /\ IF dialTurned /\ counter # lightCounter
       THEN /\ currentLight' \in Drawn(chosen)
            /\ missed' = (missed /\ currentLight' = currentLight)
            /\ shownOn' = currentLight'.on /\ mixed' = TRUE
            /\ screen' = "LIGHT"
       ELSE UNCHANGED <<screen, lightVars, missed, mixed>>
    /\ at' = "toggle"
    /\ UNCHANGED <<touchVars, currentRoom, loaded, RGBMode, counter, chosen, dialTurned,
                   adjustVars, reads, moved, under>>

Toggle ==
    /\ at = "toggle"
    /\ currentLight' = IF counter = lightCounter THEN currentLight
                       ELSE [currentLight EXCEPT !.on = ~@]
    /\ at' = "choose"
    /\ UNCHANGED <<screenVars, shownOn, chooseVars, adjustVars, reads, moved, under, mixed>>

\* The other dial: the chosen light, or the room, which is left out.
ChosenBrightness(increase) ==
    /\ Choosing /\ counter # lightCounter
    /\ currentLight' = [currentLight EXCEPT !.brightness = calcBrightness(@, increase)]
    /\ UNCHANGED <<screenVars, shownOn, dialVars, moved, under, mixed>>

\* chooseLightInRoom only lets lights flash; what it counts is not used.
LeaveRoom == at = "room" /\ screen # "ROOM" /\ Leave

\* Mutant: the screen type is never noted again.
SampleNever == at = "sample" /\ at' = "adjust" /\
    UNCHANGED <<screenVars, lightVars, chooseVars, adjustVars, reads, moved, under, mixed>>

\* adjustLight notes the screen type at the end of an iteration.
Sample ==
    /\ at = "sample"
    /\ IF screen = "LIGHT"
       THEN at' = "adjust" /\ UNCHANGED <<screenVars, lightVars, chooseVars, adjustVars, reads, moved, under, mixed>>
       ELSE Leave

Idle ==
    /\ at = "adjust" /\ at' = "sample"
    /\ UNCHANGED <<screenVars, lightVars, chooseVars, adjustVars, reads, moved, under, mixed>>

AdjustBrightness(increase) ==
    /\ at = "adjust" /\ at' = "sample"
    /\ lightBrightness' = turnBrightness(lightBrightness, increase)
    /\ currentLight' = [currentLight EXCEPT !.brightness = calcBrightness(lightBrightness', increase)]
    /\ UNCHANGED <<screenVars, shownOn, chooseVars, lightId, hueCounter, tempCounter, reads, moved, under, mixed>>

AdjustHue(increase) ==
    /\ at = "adjust" /\ RGBMode /\ at' = "sample"
    /\ hueCounter' = turnHue(hueCounter, increase)
    /\ under' = (under \/ (~increase /\ hueCounter = 0))
    /\ UNCHANGED <<screenVars, lightVars, chooseVars, lightId, lightBrightness, tempCounter, reads, moved, mixed>>

AdjustTemp(increase) ==
    /\ at = "adjust" /\ ~RGBMode /\ at' = "sample"
    /\ tempCounter' = turnTemp(tempCounter, increase)
    /\ under' = (under \/ (~increase /\ tempCounter = 0))
    /\ UNCHANGED <<screenVars, lightVars, chooseVars, lightId, lightBrightness, hueCounter, reads, moved, mixed>>

\* Switch by the dial, of currentLight, in the steps of TapSwitch.
AdjustSwitch ==
    /\ at = "adjust" /\ at' = "switch"
    /\ reads' = currentLight.on /\ shownOn' = ~currentLight.on
    /\ mixed' = (mixed \/ touch = "switch")
    /\ UNCHANGED <<screenVars, currentLight, chooseVars, adjustVars, moved, under>>

\* Mutant: the state is not noted.
AdjustSwitchedAgain ==
    /\ at = "switch" /\ at' = "sample"
    /\ currentLight' = [currentLight EXCEPT !.on = reads] /\ reads' = FALSE
    /\ UNCHANGED <<screenVars, shownOn, chooseVars, adjustVars, moved, under, mixed>>

AdjustSwitched ==
    /\ at = "switch" /\ at' = "sample"
    /\ currentLight' = [currentLight EXCEPT !.on = ~reads] /\ reads' = FALSE
    /\ UNCHANGED <<screenVars, shownOn, chooseVars, adjustVars, moved, under, mixed>>

Returns == Enter \/ LeaveChoose \/ Flashed \/ Toggle \/ LeaveRoom \/ Sample \/ Idle \/ AdjustSwitched
Inputs ==
    \/ Forget \/ Press \/ AdjustSwitch
    \/ \E increase \in BOOLEAN :
          \/ Turn(increase) \/ ChosenBrightness(increase)
          \/ AdjustBrightness(increase) \/ AdjustHue(increase) \/ AdjustTemp(increase)

Next == Touch \/ Returns \/ Inputs

\* encoder_task runs again and again, and the bridge answers; nobody need turn.
Spec == Init /\ [][Next]_vars /\ WF_vars(Returns)

-----------------------------------------------------------------------------
(* Properties                                                              *)

\* Every variable keeps its type; brightness stays on its scale.
TypeOK ==
    /\ screen \in {"HOME", "ROOM", "LIGHT"}
    /\ touch \in {"idle", "room", "load", "light", "switch"}
    /\ target \in Rooms \cup {Nothing, 1}
    /\ currentRoom \in Rooms \cup {NoRoom} /\ loaded \in Rooms \cup {NoRoom}
    /\ currentLight \in [id : Lights \cup {Nothing}, on : BOOLEAN, brightness : Brightness]
    /\ shownOn \in BOOLEAN /\ RGBMode \in BOOLEAN
    /\ at \in {"loop", "choose", "flash", "toggle", "room", "adjust", "switch", "sample"}
    /\ counter \in Nat /\ chosen \in Lights \cup {Nothing} /\ dialTurned \in BOOLEAN
    /\ lightId \in Lights \cup {Nothing} /\ lightBrightness \in Brightness
    /\ hueCounter \in 0..(U8 - 1) /\ tempCounter \in 0..(U8 - 1)
    /\ reads \in BOOLEAN /\ missed \in BOOLEAN /\ moved \in BOOLEAN /\ under \in BOOLEAN /\ mixed \in BOOLEAN

\* The light that presses and the brightness dial act on is the one at the
\* counter of currentRoom, and currentLight is that light, unless a tap replaced
\* the room or the light under the loop, or the last turn chose a light that the
\* last refresh did not report: that one leaves currentLight the light before
\* (chooseAndAlterLightInRoom, setCurrentLight).
ActsOnChosen ==
    at \in {"choose", "toggle"} /\ counter # lightCounter /\ ~moved =>
        /\ chosen = lightIds(counter) /\ chosen # Nothing
        /\ currentLight.id = chosen \/ missed

\* adjustLight sends to the light of the page, unless a tap opened another one
\* before an iteration ended (lightId against currentLight).
AdjustsShownLight ==
    at \in {"adjust", "switch", "sample"} /\ ~moved => lightId = currentLight.id

\* Turning up never dims and turning down never brightens the light, unless a tap
\* replaced it: the tables, the step and the two brightnesses agree.
TurnsTheRightWay ==
    [][/\ AdjustBrightness(TRUE) /\ ~moved => currentLight'.brightness >= currentLight.brightness
       /\ AdjustBrightness(FALSE) /\ ~moved => currentLight'.brightness <= currentLight.brightness
       /\ ChosenBrightness(TRUE) => currentLight'.brightness > currentLight.brightness
                                    \/ currentLight.brightness = MaxBrightness
       /\ ChosenBrightness(FALSE) => currentLight'.brightness < currentLight.brightness
                                    \/ currentLight.brightness = 0]_vars

\* The counters stay on their scales, and the bridge accepts the temperature
\* asked for, unless a counter was turned below zero: it is unsigned.
OnScale ==
    at \in {"adjust", "switch", "sample"} /\ ~under =>
        /\ hueCounter <= HueGranularity /\ tempCounter <= TempSteps
        /\ Accepts(kelvinOf(tempCounter))

\* The bulb on the page shows the state of the light once no task switches it,
\* unless the dial opened the page (which switches the light it just drew), or a
\* tap drew the page or the bulb while the dial was at a request (Switch).
BulbShowsState ==
    screen = "LIGHT" /\ touch \notin {"switch", "light"} /\ at \notin {"switch", "toggle"}
        /\ ~mixed => shownOn = currentLight.on

\* The dial follows a page that stays: encoder_task gets to its loop and remains
\* there whatever is turned (the conditions of the loops, currentScreen).
DialFollowsPage ==
    /\ <>[](screen = "HOME") => <>[](at \in {"choose", "flash", "toggle"})
    /\ <>[](screen = "LIGHT") => <>[](at \in {"adjust", "switch", "sample"})
=============================================================================
