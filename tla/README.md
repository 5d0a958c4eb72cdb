# TLA+ specifications of T.HUE

T.HUE is the firmware of an ESP32 table-top device that controls Philips Hue
lights: an e-ink touch screen with pages and buttons, dials for brightness,
colour and temperature, "behaviours" (training, alarm, party) that stream colours
to the bridge over DTLS, and a log of the user's actions in Firebase. All of its
own code is in `src/main/`; `src/components/` is third-party.

The tasks of the firmware share globals without any lock. Almost everything that
can go wrong goes wrong there, and none of it is covered by a test in the
repository: it has none for `src/main/`. The specifications are about these
globals and the order in which the tasks touch them.

## 1. Inventory

### Tasks

| Task | Created in | Runs |
|---|---|---|
| `arduino_task` | `main.cpp` | `setup`, then touch handlers: every page, `toggleBehavior`, `goBack`, `fetchData` |
| `behavior_task` | `initEink` | `startBehavior`: polls `startBehaviorNow`, connects, plays |
| `firebase_task` | `initEink` | pushes the pending log message, waits |
| `encoder_task` | `initEink` | reads the dials, adjusts lights, opens the page of a light |
| updater tasks | the settings handlers in `pages.cpp` | `updateBehaviors`: wait until the behaviour is not active, then write changed settings into `behaviors[]` |
| `battery_task` | `initEink` | draws the battery |

### Components

| Component | State | Operations | Hard behaviour | What makes it correct |
|---|---|---|---|---|
| Behaviour session | `activated`, `startBehaviorNow`, `fest`, `lastBehaviorId`, `tls_context`, `entertainment_msg` | `toggleBehavior`, `startBehavior`, `connect`, `disconnect`, `setColorRGB`, `update` | three tasks, blocking calls of seconds between a test and its use, null and freed pointers | one behaviour at a time, STOP stops, a session ends, writes stay inside the message, the log gets its data object back |
| Page navigation | `pagePath`, `pagePageCounter`, `isGoingBack`, `currentRoomID`, `currentScreenType` | every `draw…` page, `goBack`, `drawHomeFromHomeButton`, `fetchData` | two tasks draw, a flag carries information between handlers, an array of fixed size | Back returns to the page that opened this one, accesses inside the array |
| Buttons and pagination | `buttons`, `buttonCount`, `topIndex`, `currentRoom`, `lastRoom` | `addButtonToArray`, the lists, `drawNextPage`, `drawPrevPage`, `onTouchEvent` | leftovers of the page before, counters of two kinds, a dial that clears the array under a tap | every button calls what it shows, lists are complete, reads inside the arrays |
| Light selection | `lightIds`, `lightCounter`, `isSelected` of the buttons | `selectLight`, `arrayShift` | the state is kept twice, value 0 is filler and data | a set of lights per behaviour, array bounds |
| Settings and updaters | `alarmEntries` and its like, `behaviors[].entriesCount`, the copy `lastBehavior`, one task handle | handlers of the counts, `updateBehaviors`, `initBehaviors` | stale copy, one handle for all tasks, 8-bit counts | the last setting wins, entries are filled, a playing behaviour keeps its count |
| Dials | `brightness`, `hueCounter`, `tempCounter`, chosen light, bulb on the page | `encoderLoop`, `chooseAndAlterLightInRoom`, `adjustLight`, `calcBrightness`, `Switch` | unsigned wrap, a light kept over a page change, two tasks that switch | commands stay in range and go to the light on the screen; the screen shows its state |
| Firebase log | shared fields, three flags, `timeSinceLastLog`, `fbdo` | `firebaseAppendUserAction…`, `firebaseTask`, `begin`, `firebaseEnd` | overwritten while read, object deleted while used, a clock that wraps | a message is pushed once and as it was logged |
| Credentials, configuration | user id, client key, UI level | `getNewIds`, `getUserId`, `getUILevel`, `Hue::begin` | two requests, one may fail | id and key belong together |
| Hue REST client | one `HTTPClient` | `Hue::` requests | shared by three tasks | request and response belong together |

Battery display, bitmaps, drawing primitives, WiFi connection and EEPROM helpers
keep no state that another part depends on.

### Interactions

A tap runs a handler to its end on `arduino_task`. Handlers and `encoder_task` draw
pages; every page goes through `drawHeader`, which records it and logs it. START and
STOP set flags that `behavior_task` polls; `behavior_task` presses STOP itself when it
is done, so `toggleBehavior` runs on two tasks. Since the heap cannot hold two TLS
sessions, START deletes the Firebase data object and STOP creates it again; the
refresh of the home page does both. The log uses that object from two tasks.

The settings pages start updater tasks, which write `behaviors[]` beside the task that
plays from it. The dials and the taps work on the same `currentRoom`, `currentLight` and
buttons, and both block for seconds on requests to the bridge.

`PROJECT.json` lists the hazards at their lines, with the properties that
cover them or the reason why none does.

## 2. Modules

| Module | What it is |
|---|---|
| `BehaviorSession` | START, STOP, play and log object, three tasks |
| `Handover` | abstract: the turns that START and STOP take with the log's data object |
| `MCBehaviorSession` | small instances of `BehaviorSession` |
| `BehaviorSessionProofs` | its theorems; that it implements `Handover` |
| `PageHistory` | abstract: what Back and Home promise |
| `Navigation` | the page history as the code keeps it, two tasks |
| `NavigationProofs`, `PageHistoryProofs` | its theorems; that it implements `PageHistory` |
| `Selection` | abstract: a set of lights per behaviour |
| `LightSelection` | buttons, lists page by page, the selected lights |
| `LightSelectionProofs`, `SelectionSoundProofs` | its theorems; that it implements `Selection` |
| `Settings`, `MCSettings` | counts of the behaviours and their updater tasks |
| `SettingsProofs` | its theorems |
| `FirebaseLog` | the shared fields and flags of the log, any number of writers |
| `FirebaseLogProofs` | its theorems |
| `DialScale` | the arithmetic of the dials |
| `LightDial`, `MCLightDial` | `encoder_task` against the touch task |
| `LightDialProofs` | its theorems, and those of `DialScale` |

`FirebaseLog` and `BehaviorSession` divide the log between them: what is in a message is the
subject of one, whether the data object is there the subject of the other. `Settings` takes from
`BehaviorSession` that START finds no active behaviour (the theorem `ExclusiveSafe`). `LightDial` and
`LightSelection` (`TrailLost`) take from `Navigation` that Back may lead to any page once the trail was lost.

### BehaviorSession and Handover

A step ends where the code makes a call that takes time (HTTP, DTLS, e-ink refresh,
`vTaskDelay`) or reads what another task writes. `pc[p]` is the place inside
`toggleBehavior`, `fetchData` or `startBehavior`; `arg[p]` is the id that
`toggleBehavior` was called with.

* `StopFlags`, `StopBegin`, `StopDisconnect`: the STOP branch of `toggleBehavior`, for
  either task. `StopCrash` is `disconnect()` through the null pointer, on memory
  that is not initialised yet, or while the other task is inside mbedtls.
* `StartLog` … `StartActivate`: the START branch. `PressStart` and `PressStop` have the
  guards of the early returns.
* `selectLight` changes `lightCounter` by one, up or down, in eight bits. Nothing in the code
  keeps it inside `lightIds`, so nothing does here; when it leaves the array is `LightSelection`'s subject.
* `PressRefresh`, `FetchIds` … `FetchInit`, `FetchLevel`: `fetchData`; `initBehaviors` and the wait
  for the UI level are steps of their own.
* `Poll` … `ClearStart`: `startBehavior`. The kind of the behaviour and its number of lights
  are read again at each use through `lastBehaviorId`, as the code
  does, so a page opened meanwhile changes them. `entriesCount` may be any byte at each test (`Entry`),
  since the updaters of the settings write it under the loop.
* `Tick`, `HoldAgain`, `HoldDone`, `AlarmDue`, `LengthenDelay`: the two waits. `elapsed` says that since
  the wait began every behaviour's delay has passed. The wait reads the delay again in each turn
  (`entertainment.cpp:418`, `429`), from whatever behaviour is on the screen, so it may end earlier, with the
  shorter delay of another page, and a tap on "+" of a delay (`pages.cpp:136`, `pages.cpp:94` on the training's page, `-` in `pages.cpp:212` on the party's) may make it last longer: `LengthenDelay` takes `elapsed` back.
* `StartPush`, `EndPush`, `PushCrash`: `firebase_task`, as far as it uses the data
  object.
* `Panic` and `Reboot`: the configured panic handler prints and reboots; all state here
  is in RAM.

Abstracted: colours, the lengths of the delays, the text of log messages and the path through the pages
(any handler can be the next tap).
`overlapped` is a history variable: both tasks were inside `toggleBehavior` at once.
Undefined behaviour is a choice: a deleted object that is used may panic or may go
on.

`Handover` is the promise: the session and the log take turns. A behaviour is activated only when
the data object is gone and no other is active, only STOP ends it, and only then the object
returns. From the moment the two tasks meet in `toggleBehavior`, until a reset, nothing is promised. `TakesTurns` in
`BehaviorSession` is the refinement.

### Navigation and PageHistory

`PageHistory` is the promise: a trail of pages that grows when a page is opened,
shrinks by one on Back, and starts again on Home; the dial may put a light on
it; it may be lost, and Home finds it again.

`Navigation` has `pagePath` and its counter (as one sequence), `isGoingBack`, and the
other globals that decide what is recorded. Drawing a page is the sequence
`DrawPage` (the page sets `currentRoomID` and `currentScreenType`), `drawHeader`
(clears the buttons, tests and resets `isGoingBack`), `addPageToPagePath`, `DrawBody` (adds
the buttons); the steps of the two tasks interleave. `DialPressed` is the press that opens
the light chosen with the dial; the choice itself is abstracted to "some room is
loaded" (`roomChosen`).

An access outside the array, or a race for one element, sets `wild`; nothing is
claimed after it until the device is reset. The trail is lost (`derailed`) when two tasks
draw at once, or when Back meets a page it has no branch for.

`uiLevel` is between 1 and 3: an assumption on the household's configuration in
Firebase, which the code does not test beyond its being an integer.

### LightSelection and Selection

`buttons` is the array as the code has it, `buttonCount` what its handlers set it to. A tap takes
two steps: `Tap` finds a button, `Calls` calls the handler that the button has by then
(`onTouchEvent` prints the button in between), so that `DialOpensLight` can clear the array in the
middle; `races` counts how often it did. `ShowList` and `TurnPage` are the first page of a list and the
pages after it, with the different counters they use. `arrayShift` takes one
step for each element it removes. Requests of `fetchData` may fail, which reads as zero. An access outside an array, or a call
through a cleared button, sets `crash` and ends the behaviour. Links are abstracted to the pages they
can lead to (`Leads`; with `TrailLost`, any page, since Back after a lost trail may draw any); drawing is one step, since its interleavings are `Navigation`'s subject.
The household has `uiLevel` 3, where all three lists exist.

What the bridge reports is not limited: `Groups`, `Known`, `Listed` and `RoomLights` are any numbers (the last two in
eight bits, as the code counts them), and the lights of the entertainment area are among those of the bridge
(`HouseholdAssumption`). No array is tested before an element is written: not `rooms` (`hue.cpp:338`), not `lightIds` of all lights
(`hue.cpp:305`), not `entertainmentLights` (`hue.cpp:588`); and the number of lights of a room or of the area is taken from the report
(`hue.cpp:337`, `361`), where `lightIds` of a room has 20 elements. `hue.h:14-15` speaks of 50 lights
and 64 groups of a bridge; `rooms` has 50 elements. `Overfull` says that the last refresh brought more groups, listed lights or known lights
than the arrays hold. `fetchDataWild` and `LoadRoomWild` are the refresh and the room that go behind an array: they set `crash` to `"store"`
and the model stops there, since what the memory behind holds is the compiler's choice. A household that is `Overfull` at the boot stops at once.
`LoadRoom` draws the header before the lights of the room are requested and the list after it (`drawRoomLights`); `LoadRoomWild` leaves the header out.

`Selection` is the promise of the page on which lights are chosen: a set per behaviour, of which each
tap changes one element.

### Settings

`setting` is the integer the pages count, `count` the eight bits in `behaviors[]`, `filled` how many
entries have a colour. The handler of a count takes two steps: `IncrementCount` or `DecrementCount` changes the
setting, and `CreateUpdater` calls `xTaskCreate`; between them stands `drawText`, a refresh of the e-ink screen that takes
seconds, and updaters, the playing task and the dial go on meanwhile. `handler` is the count whose handler draws. An updater is a task: `TestActive` is the loop that waits for the copy,
`TestKind` each of the three tests of the kind, `WriteCount`, `FillEntries`, and `Delete` through the shared
handle. `copy` is `lastBehavior` with the value of `activated` it was made with. The delays of the settings pages
are left out: each is written and read in one statement.

### FirebaseLog

A message is its number; the fields hold the number of the message they are of, so that a record mixed from two
messages shows. `interaction`, `action` and `context` are written and read in a row and stand as one
field. `Log` is the test of the limit, `Stamp` the store of the time after it, `WriteField` and
`RaiseFlag` the rest of the handlers; `Look` … `LowerFlag` are the loop of `firebaseTask`; `StartLog` and
`StartPush` are START's own way. An epoch, a history variable, lasts from a message that finds the log at rest until it
is at rest again; `crowded` are the messages that shared one.

### LightDial and DialScale

`DialScale` has the arithmetic: the search in the two tables, the step of the brightness, the two
counters in eight bits, and what they are mapped to. `MCLightDial` evaluates it at its real
size by `ASSUME`s.

`at` is where `encoder_task` is; a request to the bridge is a step boundary. `touch` is where the touch
task is in `drawRoom`, `drawLight` and `Switch`. `moved` records that a tap replaced what a running loop works on, `mixed`
that two tasks drew the bulb, `under` that a counter was turned below zero. One iteration of a loop handles one
input. `ReplaceRoom` keeps the empty room of the boot when the first room of the list is the first to be opened
(the finding of `first_room`): `lastRoom` already has its index. `BackToLight` is Back to `drawLight` on a lost trail:
there is no pressed light then, and the id searched for is the Back button's, or 0. Left out: the room as a whole (its switch and its brightness), the flashing of
`chooseLightInRoom`, and households with `uiLevel` 1. `setCurrentLight` searches `lights[]` as the last refresh filled it, and
leaves `currentLight` as it was when the light is not in it (`eink.cpp:282`; for example because `getLights` of the refresh failed,
`hue.cpp:309`). `Flashed`, and `Drawn` for the page of a light, have both outcomes; `missed` records that
the last turn chose a light that was not found.

## 3. Runs

| Run | Result | Shows |
|---|---|---|
| `session_safety` | pass, 2.7 million states | `TypeOK`, `LogObjectRestored`, `TakesTurns` (refinement of `Handover`), `WritesInsideMessage`, `PanicsNeedCause` |
| `session_liveness` | pass, 330 thousand states | `StopEndsParty`, `FiniteSessionEnds` |
| `navigation` | pass, 3.5 million states | `TypeOK`, `HistoryMatchesScreen`, `HistoryInBounds`, `BackReturnsToOpener` (refinement of `PageHistory`) |
| `selection` | pass, 2.1 million states | `TypeOK`, `SelectionSound`, `OverrunNeedsRace`, `ListReadsInside`, `ListComplete`, `ImplementsSelection` (refinement of `Selection`) |
| `settings` | pass, 710 thousand states | `TypeOK`, `OverlapPanics`, `CountFollowsSetting`, `EntriesFilled`, `CountKeptWhileActive`, `WaitingNeedsActiveCopy` |
| `firebase_log` | pass, 320 thousand states | `TypeOK`, `AlonePushedOnce`, `FieldsWritten`, `LimitExact`, `LogDrains` |
| `light_dial` | pass, 1.5 million states | `TypeOK`, `ActsOnChosen`, `AdjustsShownLight`, `OnScale`, `BulbShowsState`, `TurnsTheRightWay`, `DialFollowsPage` |
| `end_toggles` | violated | the closing STOP goes to whatever behaviour's page is open |
| `stopped_party` | violated | a STOP during connect is lost and the party cannot be stopped |
| `back_navigates` | violated | Back onto a settings page draws nothing and leaves `isGoingBack` set |
| `ghost_buttons` | violated | a short last page keeps the buttons of the page before |
| `first_room` | violated | the first room of the list is not loaded when it is tapped first |

The five violated properties state what a comment or a text on the screen says; the
findings in `PROJECT.json` quote it.

`session_safety`: `LogObjectRestored` is a statement over `begin` and `firebaseEnd` in
three handlers on two tasks. `TakesTurns` is worth a look because no line of the
code establishes it: a second START is stopped only by the panic on the missing data
object. `WritesInsideMessage` holds although the count of lights is read once for the size
of the message and again, seconds later, for each write. `PanicsNeedCause` says who is
to blame for a panic: for one in the DTLS code the touch task's STOP, for one in the log a session
that has its data object. That there are such panics is visible in the model.

`session_liveness`: an alarm or a training ends by itself (`FiniteSessionEnds`), whatever is tapped, with one exception that is a premise of the property: the taps
that make a delay longer must stop. While somebody taps "+" more often than the ten seconds each tap adds, the alarm does not end, and the model has
these behaviours. Pages, lights, entries and refreshes may go on for ever.

`navigation`: each refresh of the home page records home once more and nothing takes
it back except Home. `HistoryInBounds` says exactly how many refreshes the array
bears: with the ten elements of the code, up to five. Replacing 5 by 4 in it is
violated, so the bound is tight.

`selection`: `isSelected` of a button and the array `lightIds` say the same thing twice, and `selectLight`
trusts the button; `SelectionSound` says they agree on every button that can be hit, leftovers included.
There are two ways out of an array that is written: the dial overtook a tap, or the bridge reported more than fits, which needs no race
(`OverrunNeedsRace`). `ListReadsInside` and
`ListComplete` name the reasons for which a list is read outside its array, or ends early; more lights known than `entertainmentLights`
holds are such a reason, and so is a report that overfills an array.

`settings`: two updaters at once are always fatal, since one deletes the other through the handle and
then returns (`OverlapPanics`, both directions). `CountFollowsSetting` names what makes a setting get lost, and when the count may lag: while its handler draws, and while an updater works on it,
`CountKeptWhileActive` what makes the count of a playing behaviour change.

`firebase_log`: messages that meet may be mixed or lost, by design; `AlonePushedOnce` says that nothing
is lost, doubled or out of order otherwise, although two tasks push, and `FieldsWritten` that even a mixed record has only fields somebody wrote.
`LimitExact` gives the two ways in which the wrap of `millis()` opens the limit, or closes it for weeks.

`light_dial`: the properties about lights hold while no tap interferes (`~moved`), and nothing else may
interfere: the list of what replaces `currentLight` under a loop is complete. `ActsOnChosen` has one more cause: after a refresh
that failed, or for a light it did not report, the dial chooses a light and acts on the one before (`missed`).

Several properties have exemptions for what the code does not prevent. The exempted states are reached in the models; the
property shows that nothing else has the effect, and does not say that the effect is harmless:

| Property | What it exempts, and so names and does not catch |
|---|---|
| `CountFollowsSetting`, `CountKeptWhileActive` | an updater that writes another behaviour's count, or misses a START, because of the stale copy |
| `AlonePushedOnce` | messages that meet another: overwritten or mixed |
| `OnScale` | the states after a turn below zero |
| `BulbShowsState` | switches of both tasks that overlap |
| `HistoryMatchesScreen`, `BackReturnsToOpener` | the states after two tasks drew at once |
| `ActsOnChosen`, `AdjustsShownLight` | a tap under the loop; for the first, a light that is not found |
| `LogObjectRestored`, `TakesTurns` | a START that the closing STOP of `behavior_task` undoes (`entertainment.cpp:466`): the turns are kept, the START is lost |

### Bounds

* Session: behaviours 0, 1, 2 as the code creates them, bytes of two values: every guard on
  a count distinguishes only zero, in range and beyond, and "beyond" happens when the
  page changes from a behaviour with a light to one without, and back. With so small a byte `lightCounter` wraps
  at the second tap, and the number of entries is anything at each test.
* `session_liveness` has the alarm and the party, with the party's index first. `FiniteSessionEnds` was also checked with the training and
  the alarm (358 thousand states, no violation); all three at once are too many for the run.
* Navigation: `PathSize` 6 and `MaxRefreshes` 2: the array is filled by two refreshes and four pages,
  and left by one more; five pages fit without a refresh. The code's ten elements only
  shift this. `back_navigates` needs no refresh.
* Selection: pages of one item, arrays of two listed lights, three rooms and three known lights, eight bits of five values, one
  race. The bridge reports 3 or 4 groups, 1 to 3 listed lights, 3 or 4 known ones, and 2 or 3 lights in a room, so each array
  is both filled exactly and overfilled. First, middle and last pages occur, a failed request makes `roomsCount` wrap, and the bridge knows
  more lights than `entertainmentLights` holds. `TrailLost` is set, so nothing is assumed of the
  page history; the two violated runs do without it, and their counterexamples need no lost trail. Pages of two items were explored without
  a violation for 17 million states.
* Settings: two updaters; steps of 2 and counts of three values, so that the training's count
  (2 to 4) wraps; the alarm's goes down only.
* Log: two writers and two messages, an interval of 1 in a clock of 4 values: two messages make each
  kind of meeting, between writers and with a push; the clock wraps inside the interval and outside. Three messages
  were explored without a violation for 18 million states.
* Dial: two rooms that share a light, one with two lights; brightness 0 to 2 with different tables, steps of 1, counters
  of three values with scales that end at 1, so that a wrap leaves the scale; longer scales were run too, without a violation. The real tables are evaluated by `MCLightDial`.

The theorems hold for every number.

### Fairness

`BehaviorSession`: weak fairness for a handler on the touch task and for `behavior_task`: FreeRTOS runs a
ready task, and the HTTP and mbedtls calls in between have timeouts. Where START and `fetchData`
wait for `Firebase.ready()`, in a loop without a timeout, nothing is assumed (`WaitsForFirebase`). Weak fairness for
`Tick`: `millis()` goes on. It is not assumed that a wait ends: `Tick` sets `elapsed`, `LengthenDelay` may take it back as
often as the user taps, and a wait whose delay has passed ends because `behavior_task` runs and `HoldAgain` is disabled. There is no strong
fairness. Nothing is assumed of the user, of the log or of the reboot, except in `FiniteSessionEnds`, whose premise is that the
delays are lengthened only finitely often.
Loops over lights re-read their bound, which a tap can change; they still end because each
iteration advances the index and the bound is a byte.

`Settings`: weak fairness for each updater, which is a task of its own. `WaitingNeedsActiveCopy` is what
follows from it: an updater may wait for ever, but only on a copy that is active again and again.

`FirebaseLog`: weak fairness for each task's steps. The wait for the connection (`AwaitReady`) has none;
`LogDrains` states it as its assumption.

`LightDial`: weak fairness for the steps with which `encoder_task` returns from a request or a loop. Nobody need turn
a dial.

## 4. Theorems

All are checked by TLAPS, for every value of the constants that satisfies the assumptions
next to them.

`BehaviorSessionProofs`: `TypeCorrect`, `LogObjectSafe`, `ExclusiveSafe`, `WritesSafe`, `PanicsSafe`,
`TurnsImplemented`, `OneTlsUser`, `LoopsSafe`, `LoopsProgress`, `SessionEnds`. `TypeCorrect` gives `lightCounter` the bound of its
byte and no better one. `LogObjectRestored` is inductive together
with the types. `ExclusiveSession` is not: it needs that, as long as the tasks have not met in
`toggleBehavior`, an active behaviour keeps the data object away, that START and `fetchData` pass
their first use of the object only when none is active, and that STOP clears the one that is
(`ExclusiveInv`). `TurnsImplemented`, the refinement of `Handover`, needs `ExclusiveInv` too, and what a reset
leaves (`DownInv`); `OneTlsUser` then follows from the turns alone. `WritesInsideMessage` needs that the message
has room for exactly `entertainment_num_lights` lights (`MessageInv`). `PanicsSafe` needs at which places of
`behavior_task` the context is initialised (`ContextInv`) and at which places of the touch task the object is
there (`ObjectInv`). `LoopInv` bounds the loops of a training and an alarm although each test may look at
another behaviour. `LoopsProgress` and `SessionEnds` are steps towards liveness: inside a loop every step leads
nearer to its end, a party that was stopped goes through to the end of its iteration, and the closing
toggles are over ten steps later.

`NavigationProofs`: `TypeCorrect`, `HistoryBoundsSafe`, `HistoryMatchesSafe`, for a `pagePath` of
any size. The inductive invariant `NavInv` says, while the trail is not lost: at most
one task draws (`TrailOK`); entry number k shows a page that is at most k - refreshes links deep
(`Placed`, `Depth`), which is what bounds the array from above; below every page
other than home lies a home page (`Fits`), which is what bounds Back from below; the page that
is drawn either fits on top or, with `isGoingBack` set, is on top already (`Drawing`); and
what the header will record is the page's own id (`Recorded`). `OpenTrail`, `PushTrail` and
`PopTrail` are the facts about opening, recording and Back that each action's step cites.

`PageHistoryProofs`: `HistoryImplemented`, the refinement of `PageHistory`. It needs one more invariant, `LinkInv`: a page that a
task is about to record is linked from the page on top of the array. `Greatest` (from the well-founded order of
the numbers) gives the last home page that `Trail` is cut at; `SinceHome`, `SincePushed` and
`SincePopped` say what recording and Back do to the trail.

`LightSelectionProofs`: `TypeCorrect`, `SelectionImplemented` (the refinement of `Selection`), `ReadsSafe`, `CompleteSafe`, `GhostsPlaced`, `RoomSafe`, for any
sizes of the arrays and any household. `TypeOK` is not inductive: the pagers draw over what is there, so it
needs where pager buttons can be, and how far `topIndex` is when one of them is pressed (`PagersLead`), that
selecting buttons exist on the page of lights only and name a light (`ItemsOK`), and what a tap under way
has hit (`HitOK`). The refinement holds even where a light is in `lightIds` twice: `arrayShift` then takes
two rounds, and each step of the removal changes at most one light of the set (`ShiftSelects`, `DropSelects`).
`CompleteSafe` relates the page to the counters that decide whether a Next button is drawn (`FirstComplete`, `TurnComplete`). `GhostsPlaced` says where
the leftovers of the violated run `ghost_buttons` can be: behind the end of the list and nowhere else (`GhostInv`, with where each kind of
page puts its last element). `RoomSafe` does the same for `first_room`: no other room than the first is ever left out.

The household is any that the bridge can report. `ReadsSafe` needs the range of the numbers (`BridgeOK`, of every state that has not stopped), and
its last disjunct is reached from `fetchDataWild` and from the boot only.

`SelectionSoundProofs`: `SelectionSafe`, `OverrunSafe`. As long as no tap was overtaken (`SoundInv`): a tap under way still
points at the button it hit (`Aimed`), no light is twice in `lightIds` (`Distinct`) nor zero outside
`arrayShift` (`Filled`, `Shifting`), selecting buttons lie at indices that only a later page of lights
can leave over (`Placed`), and each of them knows whether its light is selected (`Told`). That `lightIds` cannot overrun
without a race follows by counting: as long as the report is not overfull, the lights that can be tapped fit the list, and distinct lights that leave one out are fewer than it holds.
Where the report is overfull, `OverrunSafe` says so.

`SettingsProofs`: `TypeCorrect`, `OverlapSafe`, `FilledSafe`, `CountSafe`, `KeptSafe`, `UpdatersAdvance`, for any number of
updaters and any width. Until two updaters overlap, the handle names the only one there is; after
that, one that is not named lives on, and it is the one that aborts. `FilledSafe` and `CountSafe` rest on this: without an
overlap nobody else writes between an updater's steps. `CountSafe` covers the time in which a handler draws: the setting is then
ahead of its count, the handler is the reason, and `CreateUpdater` hands the reason over to the updater. `KeptSafe` needs in addition that the copy of the page is
as active as its behaviour until a START or another page (`CopyTrue`). `UpdatersAdvance` counts the steps of an updater.

`FirebaseLogProofs`: `TypeCorrect`, `LimitSafe`, `FieldsSafe`, `AloneSafe`, `DrainAdvances`, for any number of writers, any
number of messages and any width of the clock. `LimitInv` relates the clock, the last stamp and the history of the time
passed. `FieldInv` says of each field, of what is read and of what is pushed that somebody
wrote it. `AloneInv` is the way of one message: which tasks can be busy while it is alone in its epoch (`Roles`), at which
stage it is between the first field and the lowered flag (`Stage`), and that at rest it has been
pushed (`DoneOnce`); `CrowdedTogether` and `Fresh` keep it apart from the others. That the order is kept
(`OrderInv`) rests on this: what is pushed is of the epoch, and who comes later is of it too. `DrainAdvances` counts the steps
between a raised flag and its end.

`LightDialProofs`: `TypeCorrect`, `ChosenSafe`, `AdjustSafe`, `TurnsSafe`, `ScaleSafe`, `BulbSafe`, `DialArrives`, for any two sorted
tables, any rooms, scales and widths. `ChosenSafe` needs
that whatever changes the room, the light or the counter under the loop leaves a trace: `moved`, or `missed` until the next turn or press finds
its light. `AboveIs` and `BelowIs` say what the search in a table finds, which
makes `calcBrightness` monotonic (`CalcUpMonotone`, `CalcDownMonotone`). `AdjustInv`: without a tap the
light is as bright as `lightBrightness` or one element of a table away from it, so a turn cannot go the wrong way.
`ScaleAccepted` computes what the bridge is sent for a counter on its scale. `BulbInv` says what the bulb shows
in the middle of each switch. `DialArrives` counts the steps to the loop of the page.

Every safety property and all three refinements of the passing runs are proved. Only model-checked: liveness
(`StopEndsParty`, `FiniteSessionEnds`, `WaitingNeedsActiveCopy`, `LogDrains`, `DialFollowsPage`), which is out of the prover's
reach. What each of them rests on is proved as an action property, `[][...]_vars`: a number of steps that
each step of the task makes smaller and nobody else makes larger.

| Liveness | Proved of it |
|---|---|
| `StopEndsParty` | `SessionEnds`, `LoopsSafe` |
| `FiniteSessionEnds` | `LoopsSafe`, `LoopsProgress`, `SessionEnds` |
| `WaitingNeedsActiveCopy` | `UpdatersAdvance` |
| `LogDrains` | `DrainAdvances` |
| `DialFollowsPage` | `DialArrives` |

What remains to TLC is that the task can take its next step, and that fairness makes it do so.

## 5. Not modelled

* Requests interleaved on the one `HTTPClient`: what they do is decided inside the HTTP library.
  `startStreaming` returns true whatever the bridge answered (`hue.cpp:789`), so `BehaviorSession` always goes on to the
  DTLS connection.
* Registration with the bridge: a sequence of requests on one task. User id and client key are stored by
  two of them; no state of the program tells whether they belong together.
* What a write behind an array does to the variables that lie there: the models stop at it (`crash`, `wild`).
* The widths of the settings' integers: `alarmDelay` and its like are `int`s that grow by 10 000 with a tap, so an overflow takes 214 000 of them.
* The TLS context that each session allocates and none deletes: heap exhaustion is outside the models.
* The WiFi connection: `firebaseEnd` switches automatic reconnection off, and only the boot switches it on. Whether the
  connection returns is `LogDrains`'s assumption.
* The window of the boot before the first steps of the tasks; battery display; drawing primitives, bitmaps,
  EEPROM helpers (which have no caller).
* Third-party code in `src/components`: the Arduino core, display and touch drivers, the Firebase client, mbedtls. What the program
  relies on is modelled from its use and marked external in the map, and `map()` by what it computes. These files, fonts
  and headers included, are more than nine tenths of the repository's lines, so the modelled share of the whole repository is
  small by nature; of `src/main` without bitmaps, the map covers the parts that keep control state.

Seen while modelling, and not the subject of a run, since no text of the repository says otherwise: the settings page of the alarm shows
`blinkingLightsEntries` (`pages.cpp:261`) where its handlers change `alarmEntries`; `calledFromEncoder` is never reset
(`pages.cpp:358`): lights opened by touch are not logged any more once one was opened with the
dial, and `BackToLight` searches for 0; `setCurrentLight` copies the state a light had at the last refresh.
