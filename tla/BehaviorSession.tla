--------------------------- MODULE BehaviorSession ---------------------------
(***************************************************************************)
(* A light behaviour ("TRAENING", "ALARM", "FEST") is started and stopped  *)
(* from the touch screen and played by a task of its own that streams      *)
(* colours to the bridge over DTLS.  Three FreeRTOS tasks share, without a *)
(* lock, the flags of the session, the DTLS context and the Firebase data  *)
(* object:                                                                 *)
(*   - "touch"    arduino_task: runs the handler of the button tapped      *)
(*                (toggleBehavior, the pages, selectLight, fetchData);     *)
(*   - "behavior" behavior_task: startBehavior, which polls                *)
(*                startBehaviorNow, connects, plays, and presses STOP      *)
(*                itself when the behaviour is over;                       *)
(*   - firebase_task: pushes the log message that is pending.              *)
(*                                                                         *)
(* A step ends where the code makes a call that takes time (HTTP, DTLS,    *)
(* e-ink refresh, vTaskDelay) or reads a variable another task writes.     *)
(* A null or dangling pointer that is used panics the chip, which prints   *)
(* and reboots.                                                            *)
(***************************************************************************)
EXTENDS Naturals, FiniteSets

CONSTANTS
    Behaviors,     \* indices of behaviors[]
    Kind,          \* Kind[b]: behaviors[b].behaviorId
    FirstBehavior, \* the index lastBehaviorId holds after boot
    U8             \* values of a uint8_t: 256

Kinds == {"training", "alarm", "party"}

ASSUME BehaviorsAssumption == FirstBehavior \in Behaviors
ASSUME KindAssumption == Kind \in [Behaviors -> Kinds]
ASSUME U8Assumption == U8 \in Nat \ {0}

VARIABLES
    pc, arg,                  \* per task: control location, id passed to toggleBehavior
    activated, lightCounter,  \* fields of behaviors[b]
    lastBehaviorId, startBehaviorNow, fest,
    round,                    \* behavior: which of the two closing toggles is running
    i, l,                     \* behavior: loop counters
    lightCount,               \* behavior: parameter of initEntertainmentMode
    elapsed,                  \* since the wait began, every behaviour's delay has passed
    tls,                      \* state of *tls_context
    entertainment_num_lights, msgSize,
    writeEnd,                 \* end offset of the last write for the message being filled
    fbdo,                     \* the Firebase data object
    sendMessage,              \* a log message is pending
    fbPc, pushStale,          \* firebase_task, and: its object was deleted under it
    overlapped,               \* history: both tasks were inside toggleBehavior at once
    fault                     \* what panicked, "none" while running

logVars     == <<fbdo, sendMessage, fbPc, pushStale>>
msgVars     == <<entertainment_num_lights, msgSize, writeEnd>>
loopVars    == <<round, i, l, lightCount, elapsed>>
flagVars    == <<startBehaviorNow, fest>>
sessionVars == <<activated, flagVars>>
streamVars  == <<tls, msgVars>>
screenVars  == <<lightCounter, lastBehaviorId>>
vars == <<screenVars, pc, arg, sessionVars, loopVars, streamVars, logVars,
          overlapped, fault>>

Tasks == {"touch", "behavior"}
Other(p) == IF p = "touch" THEN "behavior" ELSE "touch"

StopPc == {"stopDraw", "stopBegin", "stopWindow"}
StartPc == {"startLog", "startEnd", "startShow", "startWindow"}
FetchPc == {"fetchIds", "fetchEnd", "fetchBegin", "fetchInit", "fetchLevel"}
TouchPc == {"idle"} \cup StartPc \cup FetchPc \cup StopPc
PartyPc == {"festTest", "festLights", "festSend"}
BehaviorPc == {"poll", "init", "stream", "handshake", "isTraining", "isAlarm",
               "isParty", "alarmWait", "alarmSend", "alarmEntry",
               "alarmLights", "alarmFlash", "entry", "lights", "send", "hold",
               "festOn", "end", "clear"} \cup PartyPc \cup StopPc

\* Locations at which behavior_task is inside mbedtls with *tls_context.
UsingTls == {"handshake", "alarmSend", "alarmFlash", "send", "festSend",
             "stopWindow"}

HUE_ENTERTAINMENT_HEADER_SIZE == 16
HUE_ENTERTAINMENT_LIGHT_SIZE == 9

Init ==
    /\ pc = [p \in Tasks |-> IF p = "touch" THEN "idle" ELSE "poll"]
    /\ arg = [p \in Tasks |-> FirstBehavior]
    /\ activated = [b \in Behaviors |-> FALSE]
    /\ lightCounter = [b \in Behaviors |-> 0]
    /\ lastBehaviorId = FirstBehavior
    /\ startBehaviorNow = FALSE /\ fest = FALSE
    /\ round = 1 /\ i = 0 /\ l = 0 /\ lightCount = 0 /\ elapsed = FALSE
    /\ tls = "null"
    /\ entertainment_num_lights = 0 /\ msgSize = 0 /\ writeEnd = 0
    /\ fbdo = "live" /\ sendMessage = FALSE /\ fbPc = "wait" /\ pushStale = FALSE
    /\ overlapped = FALSE
    /\ fault = "none"

Goto(p, where) == pc' = [pc EXCEPT ![p] = where]
At(p, where) == pc[p] = where

\* Steps that only move a task's control or its loop counters.
ControlOnly ==
    UNCHANGED <<screenVars, arg, sessionVars, streamVars, logVars, overlapped,
                fault>>

\* The chip panics and all of this state is lost; nothing runs until it has
\* rebooted (CONFIG_ESP32_PANIC_PRINT_REBOOT).
Panic(what) ==
    /\ fault' = what
    /\ pc' = [p \in Tasks |-> IF p = "touch" THEN "idle" ELSE "poll"]
    /\ arg' = [p \in Tasks |-> FirstBehavior]
    /\ activated' = [b \in Behaviors |-> FALSE]
    /\ lightCounter' = [b \in Behaviors |-> 0]
    /\ lastBehaviorId' = FirstBehavior
    /\ startBehaviorNow' = FALSE /\ fest' = FALSE
    /\ round' = 1 /\ i' = 0 /\ l' = 0 /\ lightCount' = 0 /\ elapsed' = FALSE
    /\ tls' = "null"
    /\ entertainment_num_lights' = 0 /\ msgSize' = 0 /\ writeEnd' = 0
    /\ fbdo' = "live" /\ sendMessage' = FALSE /\ fbPc' = "wait" /\ pushStale' = FALSE
    /\ overlapped' = FALSE

-----------------------------------------------------------------------------
(* The log, as far as it shares fbdo with the session.                     *)

\* firebaseAppendUserAction: at most one message per second is accepted.
Log == sendMessage' \in {sendMessage, TRUE}

\* Mutant: the data object is not created again.
beginNothing == fbdo' = fbdo

\* begin(): a new data object, whatever became of the old one.
begin == fbdo' = "live"

\* Mutant: the log keeps its data object.
firebaseEndNothing == UNCHANGED <<fbdo, pushStale>>

\* firebaseEnd(), entered with an object: it is deleted, also under a push.
firebaseEnd ==
    /\ fbdo = "live"
    /\ fbdo' = "null"
    /\ pushStale' = (pushStale \/ fbPc = "push")

-----------------------------------------------------------------------------
(* toggleBehavior(id, STOP), run by either task.                           *)

InToggle(p) == pc[p] \in StopPc \cup StartPc

\* Control entered toggleBehavior: remember it if the other task is inside.
Enter(p) == overlapped' = (overlapped \/ InToggle(Other(p)))

\* The parameter is gone when the handler returns.
Leave(p) == arg' = [arg EXCEPT ![p] = FirstBehavior]

\* Mutant: STOP forgets fest.
StopFlagsKeepFest(p) ==
    /\ At(p, "stopDraw")
    /\ activated' = [activated EXCEPT ![arg[p]] = FALSE]
    /\ startBehaviorNow' = FALSE
    /\ Goto(p, "stopBegin")
    /\ UNCHANGED <<screenVars, arg, fest, loopVars, streamVars, logVars,
                   overlapped, fault>>

\* activated, startBehaviorNow and fest are assigned without a call between.
StopFlags(p) ==
    /\ At(p, "stopDraw")
    /\ activated' = [activated EXCEPT ![arg[p]] = FALSE]
    /\ startBehaviorNow' = FALSE
    /\ fest' = FALSE
    /\ Goto(p, "stopBegin")
    /\ UNCHANGED <<screenVars, arg, loopVars, streamVars, logVars, overlapped,
                   fault>>

StopBegin(p) ==
    /\ At(p, "stopBegin")
    /\ begin
    /\ Log
    /\ Goto(p, "stopWindow")
    /\ UNCHANGED <<screenVars, arg, sessionVars, loopVars, streamVars, fbPc,
                   pushStale, overlapped, fault>>

\* disconnect() after the e-ink refresh: close_notify and free.  A freed
\* context may be freed again; an uninitialised one keeps its garbage.
StopDisconnect(p) ==
    /\ At(p, "stopWindow")
    /\ tls # "null"
    /\ tls' = IF tls = "raw" THEN "raw" ELSE "freed"
    /\ Goto(p, IF p = "touch" THEN "idle" ELSE "clear")
    /\ Leave(p)
    /\ UNCHANGED <<screenVars, sessionVars, loopVars, msgVars,
                   logVars, overlapped, fault>>

\* disconnect() through the null pointer, on garbage, or under the feet of
\* the other task.
StopCrash(p) ==
    /\ At(p, "stopWindow")
    /\ \/ tls \in {"null", "raw"}
       \/ p = "touch" /\ pc["behavior"] \in UsingTls
       \/ p = "behavior" /\ At("touch", "stopWindow")
    /\ Panic("tls")

-----------------------------------------------------------------------------
(* The touch task: pages, light selection, START and STOP.  The path the   *)
(* user takes through the pages is left out: each handler is a few taps    *)
(* away from any other, and the taps between may all go unlogged.          *)

TouchIdle == At("touch", "idle")

\* Drawing a page: the pages of a behaviour (its own, its settings, its
\* lights) belong to lastBehaviorId, and every page logs the navigation.
drawPage(b) ==
    /\ TouchIdle
    /\ lastBehaviorId' = b
    /\ Log
    /\ UNCHANGED <<pc, arg, sessionVars, lightCounter, loopVars, streamVars,
                   fbdo, fbPc, pushStale, overlapped, fault>>

\* Mutant: the counter is wider than the parameter lightCount it is passed to.
selectLightWide ==
    /\ TouchIdle
    /\ lightCounter' = [lightCounter EXCEPT ![lastBehaviorId] = @ + 1]
    /\ Log
    /\ UNCHANGED <<pc, arg, sessionVars, lastBehaviorId, loopVars, streamVars,
                   fbdo, fbPc, pushStale, overlapped, fault>>

\* One more or one less light in the behaviour on the screen: no test keeps the
\* counter inside the array or from wrapping (see LightSelection).
selectLight ==
    /\ TouchIdle
    /\ \E step \in {1, U8 - 1} :
          lightCounter' = [lightCounter EXCEPT ![lastBehaviorId] = (@ + step) % U8]
    /\ Log
    /\ UNCHANGED <<pc, arg, sessionVars, lastBehaviorId, loopVars,
                   streamVars, fbdo, fbPc, pushStale, overlapped, fault>>

\* "+" on the settings of a training or an alarm, "-" on those of the party:
\* behaviors[].delay is longer at once, and the loop that waits reads it again.
LengthenDelay ==
    /\ TouchIdle
    /\ elapsed
    /\ elapsed' = FALSE
    /\ UNCHANGED <<pc, round, i, l, lightCount>>
    /\ ControlOnly

\* The tap on START or STOP of a behaviour's page; early returns do nothing.
Tap(where) ==
    /\ TouchIdle
    /\ arg' = [arg EXCEPT !["touch"] = lastBehaviorId]
    /\ Enter("touch")
    /\ Goto("touch", where)
    /\ UNCHANGED <<screenVars, sessionVars, loopVars, streamVars, logVars,
                   fault>>

PressStop ==
    /\ activated[lastBehaviorId]
    /\ Tap("stopDraw")

PressStart ==
    /\ lightCounter[lastBehaviorId] # 0
    /\ Tap("startLog")

\* runTaskFireBaseAppendUserActionWithWhat pushes on the caller's task.
StartLog ==
    /\ At("touch", "startLog")
    /\ fbdo = "live"
    /\ Goto("touch", "startEnd")
    /\ UNCHANGED loopVars
    /\ ControlOnly

StartEnd ==
    /\ At("touch", "startEnd")
    /\ firebaseEnd
    /\ Goto("touch", "startShow")
    /\ UNCHANGED <<screenVars, arg, sessionVars, loopVars, streamVars,
                   sendMessage, fbPc, overlapped, fault>>

StartShow ==
    /\ At("touch", "startShow")
    /\ activated' = [activated EXCEPT ![arg["touch"]] = TRUE]
    /\ Goto("touch", "startWindow")
    /\ UNCHANGED <<screenVars, arg, flagVars, loopVars, streamVars, logVars,
                   overlapped, fault>>

\* activateBehavior(), after the e-ink refresh.
StartActivate ==
    /\ At("touch", "startWindow")
    /\ startBehaviorNow' = TRUE
    /\ Goto("touch", "idle")
    /\ Leave("touch")
    /\ UNCHANGED <<screenVars, activated, fest, loopVars, streamVars,
                   logVars, overlapped, fault>>

-----------------------------------------------------------------------------
(* fetchData: the refresh button of the home page.                         *)

PressRefresh ==
    /\ TouchIdle
    /\ Goto("touch", "fetchIds")
    /\ UNCHANGED loopVars
    /\ ControlOnly

\* getNewIds reads the credentials through fbdo; the bridge is queried next.
FetchIds ==
    /\ At("touch", "fetchIds")
    /\ fbdo = "live"
    /\ Goto("touch", "fetchEnd")
    /\ UNCHANGED loopVars
    /\ ControlOnly

FetchEnd ==
    /\ At("touch", "fetchEnd")
    /\ firebaseEnd
    /\ Goto("touch", "fetchBegin")
    /\ UNCHANGED <<screenVars, arg, sessionVars, loopVars, streamVars,
                   sendMessage, fbPc, overlapped, fault>>

FetchBegin ==
    /\ At("touch", "fetchBegin")
    /\ begin
    /\ Goto("touch", "fetchInit")
    /\ UNCHANGED <<screenVars, arg, sessionVars, loopVars, streamVars,
                   sendMessage, fbPc, pushStale, overlapped, fault>>

\* initBehaviors.
FetchInit ==
    /\ At("touch", "fetchInit")
    /\ activated' = [b \in Behaviors |-> FALSE]
    /\ lightCounter' = [b \in Behaviors |-> 0]
    /\ Goto("touch", "fetchLevel")
    /\ UNCHANGED <<lastBehaviorId, arg, flagVars, loopVars, streamVars, logVars,
                   overlapped, fault>>

\* getUILevel, through fbdo, and drawHome.
FetchLevel ==
    /\ At("touch", "fetchLevel")
    /\ fbdo = "live"
    /\ Log
    /\ Goto("touch", "idle")
    /\ UNCHANGED <<screenVars, arg, sessionVars, loopVars, streamVars,
                   fbdo, fbPc, pushStale, overlapped, fault>>

\* The touch task uses fbdo while it is the null pointer.
TouchLogCrash ==
    /\ pc["touch"] \in {"startLog", "startEnd", "fetchIds", "fetchEnd", "fetchLevel"}
    /\ fbdo = "null"
    /\ Panic("log")

StopHandler(p) == StopFlags(p) \/ StopBegin(p) \/ StopDisconnect(p) \/ StopCrash(p)

TouchHandler ==
    \/ StopHandler("touch")
    \/ StartLog \/ StartEnd \/ StartShow \/ StartActivate
    \/ FetchIds \/ FetchEnd \/ FetchBegin \/ FetchInit \/ FetchLevel
    \/ TouchLogCrash

User ==
    \/ \E b \in Behaviors : drawPage(b)
    \/ selectLight \/ PressStart \/ PressStop \/ PressRefresh \/ LengthenDelay

-----------------------------------------------------------------------------
(* The behaviour task: startBehavior.                                      *)

Move(from, to) ==
    /\ At("behavior", from)
    /\ Goto("behavior", to)

\* while (startBehaviorNow): the light count is read before the call, and
\* initEntertainmentMode allocates a context of uninitialised memory.
Poll ==
    /\ startBehaviorNow
    /\ Move("poll", "init")
    /\ lightCount' = lightCounter[lastBehaviorId]
    /\ tls' = "raw"
    /\ UNCHANGED <<screenVars, arg, sessionVars, round, i, l, elapsed, msgVars,
                   logVars, overlapped, fault>>

\* Mutant: the mbedtls_*_init calls are missing.
InitWithoutTls ==
    /\ Move("init", "stream")
    /\ entertainment_num_lights' = lightCount
    /\ msgSize' = HUE_ENTERTAINMENT_HEADER_SIZE + lightCount * HUE_ENTERTAINMENT_LIGHT_SIZE
    /\ writeEnd' = 0
    /\ lightCount' = 0
    /\ UNCHANGED <<screenVars, arg, sessionVars, round, i, l, elapsed, tls,
                   logVars, overlapped, fault>>

\* The rest of initEntertainmentMode, after its startStreaming request.
InitEntertainment ==
    /\ Move("init", "stream")
    /\ entertainment_num_lights' = lightCount
    /\ msgSize' = HUE_ENTERTAINMENT_HEADER_SIZE + lightCount * HUE_ENTERTAINMENT_LIGHT_SIZE
    /\ writeEnd' = 0
    /\ lightCount' = 0
    /\ tls' = "ready"
    /\ UNCHANGED <<screenVars, arg, sessionVars, round, i, l, elapsed, logVars,
                   overlapped, fault>>

\* connect asks again to start streaming; whatever the bridge answers,
\* Hue::startStreaming returns true.
StartStreaming ==
    /\ Move("stream", "handshake")
    /\ UNCHANGED <<screenVars, arg, sessionVars, loopVars, tls, msgVars, logVars,
                   overlapped, fault>>

Connected ==
    /\ Move("handshake", "isTraining")
    /\ tls' = "connected"
    /\ round' = 1
    /\ UNCHANGED <<screenVars, arg, sessionVars, i, l, lightCount, elapsed, msgVars,
                   logVars, overlapped, fault>>

\* One of the calls of connect failed: only the last closing toggle runs.
ConnectFailed ==
    /\ Move("handshake", "end")
    /\ round' = 2
    /\ UNCHANGED <<screenVars, arg, sessionVars, i, l, lightCount, elapsed, tls,
                   msgVars, logVars, overlapped, fault>>

\* connect on a context that STOP has freed.
ConnectCrash ==
    /\ At("behavior", "handshake")
    /\ tls = "freed"
    /\ Panic("tls")

KindNow == Kind[lastBehaviorId]

\* The kind is read again by each "else if".
Dispatch ==
    /\ \/ Move("isTraining", IF KindNow = "training" THEN "entry" ELSE "isAlarm")
       \/ Move("isAlarm", IF KindNow = "alarm" THEN "alarmWait" ELSE "isParty")
       \/ Move("isParty", IF KindNow = "party" THEN "festOn" ELSE "end")
    /\ i' = 0
    /\ UNCHANGED <<round, l, lightCount, elapsed>>
    /\ ControlOnly

\* Mutant: the light index is not compared with entertainment_num_lights.
setColorRGBUnguarded ==
    /\ writeEnd' = HUE_ENTERTAINMENT_HEADER_SIZE + (l + 1) * HUE_ENTERTAINMENT_LIGHT_SIZE
    /\ UNCHANGED <<entertainment_num_lights, msgSize>>

\* setColorRGB(l, ...): refused beyond the lights the message was sized for.
setColorRGB ==
    /\ writeEnd' = IF l < entertainment_num_lights
                   THEN HUE_ENTERTAINMENT_HEADER_SIZE + (l + 1) * HUE_ENTERTAINMENT_LIGHT_SIZE
                   ELSE writeEnd
    /\ UNCHANGED <<entertainment_num_lights, msgSize>>

\* for (l = 0; l < lightCounter; l++) setColorRGB(l, ...); update();
Lights(from, sent) ==
    /\ IF l < lightCounter[lastBehaviorId]
       THEN /\ Move(from, from)
            /\ setColorRGB
            /\ l' = l + 1
       ELSE /\ Move(from, sent)
            /\ l' = 0
            /\ writeEnd' = 0
            /\ UNCHANGED <<entertainment_num_lights, msgSize>>
    /\ UNCHANGED <<screenVars, arg, sessionVars, round, i, lightCount, elapsed, tls,
                   logVars, overlapped, fault>>

\* update(): a write that fails, on a freed context too, is not reported.
Sent(from, to) ==
    /\ Move(from, to)
    /\ UNCHANGED loopVars
    /\ ControlOnly

\* for (i = 0; i < entriesCount; i++), with i already advanced.  An updater of
\* the settings may write any uint8_t into entriesCount between two tests
\* (Settings), and the page may change to another behaviour.
Entry(from, body) ==
    /\ \/ i < U8 - 1 /\ Move(from, body)
       \/ Move(from, "end")
    /\ UNCHANGED loopVars
    /\ ControlOnly

\* Mutant: i++ is missing.
SameEntry(from, to) ==
    /\ Move(from, to)
    /\ elapsed' = FALSE
    /\ UNCHANGED <<round, i, l, lightCount>>
    /\ ControlOnly

\* i++; the next wait begins with a new "now".
NextEntry(from, to) ==
    /\ Move(from, to)
    /\ i' = i + 1
    /\ elapsed' = FALSE
    /\ UNCHANGED <<round, l, lightCount>>
    /\ ControlOnly

\* while (millis() - now < delay * 10) update(); each turn looks at the delay
\* that the behaviour on the screen has now.
HoldAgain ==
    /\ ~elapsed
    /\ Sent("hold", "send") \/ Sent("alarmWait", "alarmSend")

HoldDone == NextEntry("hold", "entry")

AlarmDue ==
    /\ Move("alarmWait", "alarmEntry")
    /\ elapsed' = FALSE
    /\ UNCHANGED <<round, i, l, lightCount>>
    /\ ControlOnly

\* The places at which behavior_task may be since it noted "now".
TimedPc == {"lights", "send", "hold", "alarmWait", "alarmSend"}

\* millis() passes the longest delay that a behaviour has at the moment.
Tick ==
    /\ pc["behavior"] \in TimedPc
    /\ ~elapsed
    /\ elapsed' = TRUE
    /\ UNCHANGED <<pc, round, i, l, lightCount>>
    /\ ControlOnly

Training ==
    \/ Entry("entry", "lights")
    \/ Lights("lights", "send")
    \/ Sent("send", "hold")

Alarm ==
    \/ Sent("alarmSend", "alarmWait")
    \/ Entry("alarmEntry", "alarmLights")
    \/ Lights("alarmLights", "alarmFlash")
    \/ NextEntry("alarmFlash", "alarmEntry")

FestOn ==
    /\ Move("festOn", "festTest")
    /\ fest' = TRUE
    /\ UNCHANGED <<screenVars, arg, activated, startBehaviorNow, loopVars,
                   streamVars, logVars, overlapped, fault>>

Party ==
    \/ Sent("festTest", IF fest THEN "festLights" ELSE "end")
    \/ Lights("festLights", "festSend")
    \/ Sent("festSend", "festTest")

\* toggleBehavior(lastBehaviorId, 5), with the id read now.
EndToggle ==
    /\ At("behavior", "end")
    /\ i' = 0
    /\ IF activated[lastBehaviorId]
       THEN /\ Goto("behavior", "stopDraw")
            /\ arg' = [arg EXCEPT !["behavior"] = lastBehaviorId]
            /\ Enter("behavior")
       ELSE /\ Goto("behavior", "clear")
            /\ UNCHANGED <<arg, overlapped>>
    /\ UNCHANGED <<screenVars, sessionVars, round, l, lightCount, elapsed, streamVars,
                   logVars, fault>>

ClearStart ==
    /\ At("behavior", "clear")
    /\ startBehaviorNow' = FALSE
    /\ Goto("behavior", IF round = 1 THEN "end" ELSE "poll")
    /\ round' = IF round = 1 THEN 2 ELSE 1
    /\ UNCHANGED <<screenVars, arg, activated, fest, i, l, lightCount, elapsed,
                   streamVars, logVars, overlapped, fault>>

BehaviorTask ==
    \/ Poll \/ InitEntertainment \/ StartStreaming \/ Connected \/ ConnectFailed
    \/ ConnectCrash \/ Dispatch \/ HoldAgain \/ HoldDone \/ AlarmDue
    \/ Training \/ Alarm \/ FestOn \/ Party \/ EndToggle \/ ClearStart
    \/ StopHandler("behavior")

-----------------------------------------------------------------------------
(* firebase_task, and the reboot after a panic.                            *)

LogOnly == UNCHANGED <<screenVars, pc, arg, sessionVars, loopVars, streamVars,
                       overlapped, fbdo, fault>>

StartPush ==
    /\ fbPc = "wait" /\ sendMessage /\ fbdo = "live"
    /\ fbPc' = "push"
    /\ UNCHANGED <<sendMessage, pushStale>>
    /\ LogOnly

EndPush ==
    /\ fbPc = "push" /\ fbdo = "live"
    /\ fbPc' = "wait"
    /\ sendMessage' = FALSE
    /\ pushStale' = FALSE
    /\ LogOnly

\* The task dereferences the null pointer, or its object was deleted.
PushCrash ==
    /\ \/ fbPc = "wait" /\ sendMessage /\ fbdo = "null"
       \/ fbPc = "push" /\ (fbdo = "null" \/ pushStale)
    /\ Panic("log")

FirebaseTask == StartPush \/ EndPush \/ PushCrash

Reboot ==
    /\ fault # "none"
    /\ fault' = "none"
    /\ UNCHANGED <<pc, loopVars>>
    /\ UNCHANGED <<screenVars, arg, sessionVars, streamVars, logVars, overlapped>>

Running == TouchHandler \/ User \/ BehaviorTask \/ Tick \/ FirebaseTask

Next ==
    \/ fault = "none" /\ Running
    \/ Reboot

Spec == Init /\ [][Next]_vars

\* FreeRTOS runs a task that is ready, and the mbedtls and HTTP calls time
\* out; millis() goes on, so it passes every delay that is not made longer.
\* The handlers that wait for Firebase have no timeout and may wait for ever,
\* and the user and the log owe nothing either.
WaitsForFirebase == pc["touch"] \in {"startLog", "fetchIds", "fetchLevel"}

Fairness ==
    /\ WF_vars(fault = "none" /\ ~WaitsForFirebase /\ TouchHandler)
    /\ WF_vars(fault = "none" /\ BehaviorTask)
    /\ WF_vars(fault = "none" /\ Tick)

FairSpec == Spec /\ Fairness

-----------------------------------------------------------------------------
(* Properties                                                              *)

ControlOK ==
    /\ pc \in [Tasks -> TouchPc \cup BehaviorPc]
    /\ pc["touch"] \in TouchPc
    /\ pc["behavior"] \in BehaviorPc

FlagsOK ==
    /\ startBehaviorNow \in BOOLEAN /\ fest \in BOOLEAN
    /\ sendMessage \in BOOLEAN /\ pushStale \in BOOLEAN
    /\ overlapped \in BOOLEAN /\ elapsed \in BOOLEAN

DataOK ==
    /\ arg \in [Tasks -> Behaviors]
    /\ activated \in [Behaviors -> BOOLEAN]
    /\ lightCounter \in [Behaviors -> 0..(U8 - 1)]
    /\ lastBehaviorId \in Behaviors
    /\ round \in {1, 2} /\ i \in Nat /\ l \in Nat
    /\ lightCount \in 0..(U8 - 1)
    /\ tls \in {"null", "raw", "ready", "connected", "freed"}
    /\ entertainment_num_lights \in 0..(U8 - 1)
    /\ msgSize \in Nat /\ writeEnd \in Nat
    /\ fbdo \in {"live", "null"} /\ fbPc \in {"wait", "push"}
    /\ fault \in {"none", "log", "tls"}

\* Every variable keeps its type: the light counter that selectLight steps and
\* the two numbers initEntertainmentMode copies it to have the width of uint8_t,
\* and each task stays at its own locations (Behavior.lightCounter, toggleBehavior).
TypeOK == ControlOK /\ FlagsOK /\ DataOK

\* toggleBehavior is about to give the log its data object back, or has just
\* taken it away and not yet marked the behaviour active; or fetchData is
\* between firebaseEnd() and begin().
HandingOver ==
    \/ \E p \in Tasks : At(p, "stopBegin")
    \/ pc["touch"] \in {"startShow", "fetchBegin"}

\* The Firebase data object is missing only while a behaviour is active or a
\* handler is halfway: no order of START, STOP, refresh and the closing
\* toggles of behavior_task leaves the log without its object for good
\* (firebaseEnd and begin in toggleBehavior and fetchData).
LogObjectRestored ==
    fbdo = "null" => HandingOver \/ \E b \in Behaviors : activated[b]

\* Unless the two tasks were inside toggleBehavior at the same time, at most
\* one behaviour is active: the missing data object stops a second START.
ExclusiveSession ==
    ~overlapped => \A a, b \in Behaviors : activated[a] /\ activated[b] => a = b

Turns == INSTANCE Handover WITH
    active <- {b \in Behaviors : activated[b]},
    log <- fbdo = "live",
    state <- IF fault # "none" THEN "down" ELSE IF overlapped THEN "spoilt" ELSE "fine"

\* Three handlers on two tasks implement the turns that a behaviour and the data
\* object of the log take, until both are inside toggleBehavior at once
\* (toggleBehavior, fetchData, startBehavior).
TakesTurns == Turns!Spec

\* Colours never land outside entertainment_msg, although lightCounter and
\* lastBehaviorId change under the loop that writes them (setColorRGB).
WritesInsideMessage == writeEnd <= msgSize

\* The touch task's STOP frees the context, or had freed the one that connect
\* goes on with.
TlsCause ==
    \/ At("touch", "stopWindow")
    \/ At("behavior", "handshake") /\ tls = "freed"

\* The object was deleted under a push; or a session has it, and a message is
\* pending or START or refresh come to their first use of it.
LogCause ==
    \/ fbPc = "push" /\ pushStale
    \/ /\ HandingOver \/ \E b \in Behaviors : activated[b]
       /\ \/ fbPc = "wait" /\ sendMessage
          \/ pc["touch"] \in {"startLog", "fetchIds"}

\* behavior_task's own closing STOP never frees a context that is missing or
\* uninitialised: panics in the DTLS code need the touch task's STOP.  Panics of
\* the log need a session; a handler of the touch task that has used the data
\* object once keeps it until it deletes it (disconnect, firebaseEnd, begin).
PanicsNeedCause ==
    [][/\ fault = "none" /\ fault' = "tls" => TlsCause
       /\ fault = "none" /\ fault' = "log" => LogCause]_vars

\* STOP pressed while the party is playing ends it: behavior_task returns to
\* its polling loop (while (fest) in startBehavior).
StopEndsParty ==
    (At("touch", "stopDraw") /\ pc["behavior"] \in PartyPc) ~> At("behavior", "poll")

\* Once nobody makes a delay longer any more, a training or an alarm ends by
\* itself: other taps, the page, the lights and the number of entries may change
\* under its loops for ever (startBehavior, incrementAlarmDuration).
FiniteSessionEnds ==
    <>[][~LengthenDelay]_vars
        => (pc["behavior"] \in {"entry", "alarmWait"} ~> At("behavior", "poll"))

\* "Toggle behavior as if pressing on STOP": when behavior_task has pressed STOP
\* for the last time in a session, with nobody else in toggleBehavior, no
\* behaviour is left active.
EndTogglesStopSession ==
    At("behavior", "clear") /\ round = 2 /\ ~overlapped /\ TouchIdle
        => \A b \in Behaviors : ~activated[b]

\* "START ELLER STOP OPFOERSEL": a party that has been stopped does not play on
\* until somebody starts a behaviour again.
StoppedPartyEnds ==
    (pc["behavior"] \in PartyPc /\ \A b \in Behaviors : ~activated[b])
    ~> (pc["behavior"] \notin PartyPc \/ \E b \in Behaviors : activated[b])
=============================================================================
