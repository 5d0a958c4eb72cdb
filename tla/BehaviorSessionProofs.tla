----------------------- MODULE BehaviorSessionProofs -----------------------
(* Safety of BehaviorSession for any set of behaviours and any width of the *)
(* counters of lights and entries.                                          *)
EXTENDS BehaviorSession, TLAPS

USE BehaviorsAssumption, KindAssumption, U8Assumption

\* A jump of a task to one of its own locations keeps both control locations
\* in their sets.
LEMMA TouchGoto == ASSUME ControlOK, NEW w \in TouchPc, Goto("touch", w)
                   PROVE  ControlOK'
  BY DEF ControlOK, Goto, Tasks

LEMMA BehaviorGoto == ASSUME ControlOK, NEW w \in BehaviorPc, Goto("behavior", w)
                      PROVE  ControlOK'
  BY DEF ControlOK, Goto, Tasks

\* One step of one of the tasks keeps the control locations in their sets.
LEMMA ControlStep == ControlOK /\ [Next]_vars => ControlOK'
<1> SUFFICES ASSUME ControlOK, [Next]_vars PROVE ControlOK'
  OBVIOUS
<1>1. ASSUME NEW p \in Tasks,
             StopFlags(p) \/ StopBegin(p) \/ StopDisconnect(p)
      PROVE  ControlOK'
  <2>1. CASE p = "touch"
    BY <1>1, <2>1, TouchGoto DEF StopFlags, StopBegin, StopDisconnect, TouchPc, StopPc
  <2>2. CASE p = "behavior"
    BY <1>1, <2>2, BehaviorGoto DEF StopFlags, StopBegin, StopDisconnect, BehaviorPc, StopPc
  <2> QED
    BY <2>1, <2>2 DEF Tasks
<1>2. ASSUME NEW what, Panic(what) PROVE ControlOK'
  BY <1>2 DEF Panic, ControlOK, Tasks, TouchPc, BehaviorPc
<1>3. CASE TouchHandler
  <2>1. CASE StartLog \/ StartEnd \/ StartShow \/ StartActivate
    BY <2>1, TouchGoto DEF StartLog, StartEnd, StartShow, StartActivate, TouchPc, StartPc
  <2>2. CASE FetchIds \/ FetchEnd \/ FetchBegin \/ FetchInit \/ FetchLevel
    BY <2>2, TouchGoto DEF FetchIds, FetchEnd, FetchBegin, FetchInit, FetchLevel, TouchPc, FetchPc
  <2> QED
    BY <1>1, <1>2, <1>3, <2>1, <2>2 DEF TouchHandler, StopHandler, StopCrash, TouchLogCrash, Tasks
<1>4. CASE User
  <2>1. CASE \E b \in Behaviors : drawPage(b)
    BY <2>1 DEF drawPage, ControlOK
  <2>2. CASE selectLight \/ LengthenDelay
    BY <2>2 DEF selectLight, LengthenDelay, ControlOK
  <2>3. CASE PressStart \/ PressStop \/ PressRefresh
    BY <2>3, TouchGoto DEF PressStart, PressStop, PressRefresh, Tap, TouchPc, StartPc,
                           StopPc, FetchPc
  <2> QED
    BY <1>4, <2>1, <2>2, <2>3 DEF User
<1>5. CASE BehaviorTask
  <2> USE DEF Move
  <2>1. CASE Poll \/ InitEntertainment \/ StartStreaming \/ Connected \/ ConnectFailed
    BY <2>1, BehaviorGoto DEF Poll, InitEntertainment, StartStreaming, Connected,
                              ConnectFailed, BehaviorPc
  <2>2. CASE Dispatch
    BY <2>2, BehaviorGoto DEF Dispatch, BehaviorPc
  <2>3. ASSUME NEW from \in BehaviorPc, NEW to \in BehaviorPc,
               \/ Sent(from, to) \/ Entry(from, to) \/ NextEntry(from, to)
               \/ Lights(from, to)
        PROVE  ControlOK'
    <3>1. "end" \in BehaviorPc
      BY DEF BehaviorPc
    <3> QED
      BY <2>3, <3>1, BehaviorGoto DEF Sent, Entry, NextEntry, Lights
  <2>4. CASE FestOn \/ EndToggle \/ ClearStart
    BY <2>4, BehaviorGoto DEF FestOn, EndToggle, ClearStart, BehaviorPc, StopPc, PartyPc
  <2>5. {"hold", "send", "alarmWait", "alarmSend", "entry", "alarmEntry", "lights",
         "alarmLights", "alarmFlash", "festTest", "festLights", "festSend", "end"}
           \subseteq BehaviorPc
    BY DEF BehaviorPc, PartyPc
  <2>6. CASE HoldAgain \/ HoldDone \/ Training \/ Alarm \/ Party
    BY <2>3, <2>5, <2>6 DEF HoldAgain, HoldDone, Training, Alarm, Party
  <2>7. CASE AlarmDue
    BY <2>5, <2>7, BehaviorGoto DEF AlarmDue
  <2> QED
    BY <1>1, <1>2, <1>5, <2>1, <2>2, <2>4, <2>6, <2>7
       DEF BehaviorTask, StopHandler, StopCrash, ConnectCrash, Tasks
<1>6. CASE FirebaseTask
  BY <1>2, <1>6 DEF FirebaseTask, StartPush, EndPush, PushCrash, LogOnly, ControlOK
<1>7. CASE Tick \/ Reboot \/ UNCHANGED vars
  BY <1>7 DEF Tick, Reboot, vars, ControlOK
<1> QED
  BY <1>3, <1>4, <1>5, <1>6, <1>7 DEF Next, Running

\* One step of one of the tasks keeps the data in their types.
LEMMA DataStep == DataOK /\ [Next]_vars => DataOK'
<1> SUFFICES ASSUME DataOK, [Next]_vars PROVE DataOK'
  OBVIOUS
<1> USE DEF DataOK, Tasks, ControlOnly, loopVars, screenVars, sessionVars, flagVars,
            streamVars, msgVars, logVars
<1>1. ASSUME NEW p \in Tasks, StopFlags(p) PROVE DataOK'
  BY <1>1 DEF StopFlags
<1>2. ASSUME NEW p \in Tasks, StopBegin(p) PROVE DataOK'
  BY <1>2 DEF StopBegin, begin, Log
<1>3. ASSUME NEW p \in Tasks, StopDisconnect(p) PROVE DataOK'
  BY <1>3 DEF StopDisconnect, Leave
<1>4. ASSUME NEW what \in {"log", "tls"}, Panic(what) PROVE DataOK'
  BY <1>4 DEF Panic
<1>5. ASSUME NEW b \in Behaviors, drawPage(b) PROVE DataOK'
  BY <1>5 DEF drawPage, Log
<1>6. CASE selectLight
  BY <1>6 DEF selectLight, Log
<1>7. ASSUME NEW where, Tap(where) PROVE DataOK'
  BY <1>7 DEF Tap, Enter, InToggle
<1>8. CASE StartLog \/ PressRefresh \/ FetchIds
  BY <1>8 DEF StartLog, PressRefresh, FetchIds
<1>9. CASE StartEnd \/ FetchEnd
  BY <1>9 DEF StartEnd, FetchEnd, firebaseEnd
<1>10. CASE StartShow
  BY <1>10 DEF StartShow
<1>11. CASE StartActivate
  BY <1>11 DEF StartActivate, Leave
<1>12. CASE FetchBegin
  BY <1>12 DEF FetchBegin, begin
<1>26. CASE FetchInit
  BY <1>26 DEF FetchInit
<1>28. CASE FetchLevel
  BY <1>28 DEF FetchLevel
<1>27. CASE LengthenDelay \/ Tick \/ AlarmDue
  BY <1>27 DEF LengthenDelay, Tick, AlarmDue
<1>13. CASE Poll \/ StartStreaming \/ Connected \/ ConnectFailed
  BY <1>13 DEF Poll, StartStreaming, Connected, ConnectFailed
<1>14. CASE InitEntertainment
  BY <1>14 DEF InitEntertainment, HUE_ENTERTAINMENT_HEADER_SIZE,
               HUE_ENTERTAINMENT_LIGHT_SIZE
<1>15. CASE Dispatch
  BY <1>15 DEF Dispatch
<1>16. ASSUME NEW from, NEW to, Lights(from, to) PROVE DataOK'
  BY <1>16 DEF Lights, setColorRGB, HUE_ENTERTAINMENT_HEADER_SIZE,
               HUE_ENTERTAINMENT_LIGHT_SIZE
<1>17. ASSUME NEW from, NEW to, Sent(from, to) \/ Entry(from, to) \/ NextEntry(from, to)
       PROVE  DataOK'
  BY <1>17 DEF Sent, Entry, NextEntry
<1>18. CASE FestOn \/ ClearStart
  BY <1>18 DEF FestOn, ClearStart
<1>19. CASE EndToggle
  BY <1>19 DEF EndToggle, Enter, InToggle
<1>20. CASE StartPush \/ EndPush
  BY <1>20 DEF StartPush, EndPush, LogOnly
<1>21. CASE Tick \/ Reboot \/ UNCHANGED vars
  BY <1>21 DEF Tick, ControlOnly, Reboot, vars
<1>22. CASE TouchHandler
  BY <1>22, <1>1, <1>2, <1>3, <1>4, <1>8, <1>9, <1>10, <1>11, <1>12, <1>26, <1>28
     DEF TouchHandler, StopHandler, StopCrash, TouchLogCrash
<1>23. CASE User
  BY <1>23, <1>5, <1>6, <1>7, <1>8, <1>27 DEF User, PressStart, PressStop
<1>24. CASE BehaviorTask
  BY <1>24, <1>1, <1>2, <1>3, <1>4, <1>13, <1>14, <1>15, <1>16, <1>17, <1>18, <1>19, <1>27
     DEF BehaviorTask, StopHandler, StopCrash, ConnectCrash, HoldAgain, HoldDone, Training,
         Alarm, Party
<1>25. CASE FirebaseTask
  BY <1>25, <1>4, <1>20 DEF FirebaseTask, PushCrash
<1> QED
  BY <1>21, <1>22, <1>23, <1>24, <1>25, <1>27 DEF Next, Running

\* One step of one of the tasks keeps the flags Boolean.
LEMMA FlagsStep == FlagsOK /\ [Next]_vars => FlagsOK'
<1> SUFFICES ASSUME FlagsOK, [Next]_vars PROVE FlagsOK'
  OBVIOUS
<1> USE DEF FlagsOK, ControlOnly, loopVars, sessionVars, flagVars, streamVars, msgVars, logVars
<1>1. ASSUME NEW p, StopFlags(p) \/ StopBegin(p) \/ StopDisconnect(p) PROVE FlagsOK'
  BY <1>1, Zenon DEF StopFlags, StopBegin, StopDisconnect, Log
<1>2. ASSUME NEW what, Panic(what) PROVE FlagsOK'
  BY <1>2, Zenon DEF Panic
<1>3. CASE StartLog \/ PressRefresh \/ FetchIds \/ StartShow \/ StartActivate
  BY <1>3, Zenon DEF StartLog, PressRefresh, FetchIds, StartShow, StartActivate
<1>4. CASE StartEnd \/ FetchEnd
  BY <1>4, Zenon DEF StartEnd, FetchEnd, firebaseEnd
<1>5. CASE FetchBegin \/ FetchInit \/ FetchLevel
  BY <1>5, Zenon DEF FetchBegin, FetchInit, FetchLevel, Log
<1>6. CASE User
  <2>1. ASSUME NEW b, drawPage(b) PROVE FlagsOK'
    BY <2>1, Zenon DEF drawPage, Log
  <2>2. CASE selectLight \/ LengthenDelay
    BY <2>2, Zenon DEF selectLight, LengthenDelay, Log
  <2>3. ASSUME NEW where, Tap(where) PROVE FlagsOK'
    BY <2>3, Zenon DEF Tap, Enter
  <2> QED
    BY <1>3, <1>6, <2>1, <2>2, <2>3 DEF User, PressStart, PressStop
<1>7. CASE BehaviorTask
  <2>1. CASE Poll \/ InitEntertainment \/ StartStreaming \/ Connected \/ ConnectFailed
    BY <2>1, Zenon DEF Poll, InitEntertainment, StartStreaming, Connected, ConnectFailed
  <2>2. CASE Dispatch
    BY <2>2, Zenon DEF Dispatch
  <2>3. ASSUME NEW from, NEW to,
               \/ Sent(from, to) \/ Entry(from, to) \/ NextEntry(from, to)
               \/ Lights(from, to)
        PROVE  FlagsOK'
    BY <2>3, Zenon DEF Sent, Entry, NextEntry, Lights
  <2>4. CASE FestOn \/ ClearStart \/ AlarmDue
    BY <2>4, Zenon DEF FestOn, ClearStart, AlarmDue
  <2>5. CASE EndToggle
    BY <2>5, Zenon DEF EndToggle, Enter
  <2> QED
    BY <1>1, <1>2, <1>7, <2>1, <2>2, <2>3, <2>4, <2>5
       DEF BehaviorTask, StopHandler, StopCrash, ConnectCrash, HoldAgain, HoldDone, AlarmDue,
           Training, Alarm, Party
<1>8. CASE FirebaseTask
  <2>1. CASE StartPush \/ EndPush
    BY <2>1, Zenon DEF StartPush, EndPush, LogOnly
  <2> QED
    BY <1>2, <1>8, <2>1 DEF FirebaseTask, PushCrash
<1>9. CASE TouchHandler
  BY <1>1, <1>2, <1>3, <1>4, <1>5, <1>9 DEF TouchHandler, StopHandler, StopCrash, TouchLogCrash
<1>10. CASE Tick \/ Reboot \/ UNCHANGED vars
  BY <1>10, Zenon DEF Tick, ControlOnly, Reboot, vars
<1> QED
  BY <1>6, <1>7, <1>8, <1>9, <1>10 DEF Next, Running

\* Every variable keeps its type, whatever the three tasks and the user do.
THEOREM TypeCorrect == Spec => []TypeOK
<1>1. Init => FlagsOK
  BY Zenon DEF Init, FlagsOK
<1>2. Init => ControlOK /\ DataOK
  BY DEF Init, ControlOK, DataOK, Tasks, TouchPc, BehaviorPc
<1> QED
  BY <1>1, <1>2, ControlStep, FlagsStep, DataStep, PTL DEF Spec, TypeOK

-----------------------------------------------------------------------------

\* A handler that has used the data object still has it, and the object that a
\* push uses is missing only if it was deleted under the push.
ObjectInv ==
    /\ pc["touch"] \in {"startEnd", "fetchEnd", "fetchInit", "fetchLevel"} => fbdo = "live"
    /\ fbPc = "push" /\ fbdo = "null" => pushStale

\* One step keeps ObjectInv: only the touch task takes the object away.
LEMMA ObjectStep == TypeOK /\ ObjectInv /\ [Next]_vars => ObjectInv'
<1> SUFFICES ASSUME TypeOK, ObjectInv, [Next]_vars PROVE ObjectInv'
  OBVIOUS
<1> USE DEF TypeOK, ObjectInv, ControlOK, FlagsOK, DataOK, Tasks, At, Goto, Move, ControlOnly, logVars
<1>1. ASSUME NEW p \in Tasks, StopFlags(p) \/ StopBegin(p) \/ StopDisconnect(p)
      PROVE  ObjectInv'
  BY <1>1 DEF StopFlags, StopBegin, StopDisconnect, begin
<1>2. ASSUME NEW what, Panic(what) PROVE ObjectInv'
  BY <1>2 DEF Panic
<1>3. CASE TouchHandler
  <2>1. CASE StartLog \/ StartEnd \/ StartShow \/ StartActivate
    BY <2>1 DEF StartLog, StartEnd, StartShow, StartActivate, firebaseEnd
  <2>2. CASE FetchIds \/ FetchEnd \/ FetchBegin \/ FetchInit \/ FetchLevel
    BY <2>2 DEF FetchIds, FetchEnd, FetchBegin, FetchInit, FetchLevel, firebaseEnd, begin
  <2> QED
    BY <1>1, <1>2, <1>3, <2>1, <2>2 DEF TouchHandler, StopHandler, StopCrash, TouchLogCrash
<1>4. CASE User
  <2>1. ASSUME NEW where \in {"stopDraw", "startLog"}, Tap(where) PROVE ObjectInv'
    BY <2>1 DEF Tap
  <2>2. CASE selectLight \/ LengthenDelay \/ PressRefresh \/ \E b \in Behaviors : drawPage(b)
    BY <2>2 DEF selectLight, LengthenDelay, PressRefresh, drawPage
  <2> QED
    BY <1>4, <2>1, <2>2 DEF User, PressStart, PressStop
<1>5. CASE BehaviorTask
  <2>1. CASE Poll \/ InitEntertainment \/ StartStreaming \/ Connected \/ ConnectFailed
             \/ Dispatch \/ FestOn \/ AlarmDue \/ EndToggle \/ ClearStart
    BY <2>1 DEF Poll, InitEntertainment, StartStreaming, Connected, ConnectFailed, Dispatch,
       FestOn, AlarmDue, EndToggle, ClearStart
  <2>2. ASSUME NEW from, NEW to,
               Sent(from, to) \/ Entry(from, to) \/ NextEntry(from, to) \/ Lights(from, to)
        PROVE  ObjectInv'
    BY <2>2 DEF Sent, Entry, NextEntry, Lights
  <2> QED
    BY <1>1, <1>2, <1>5, <2>1, <2>2
       DEF BehaviorTask, StopHandler, StopCrash, ConnectCrash, HoldAgain, HoldDone, AlarmDue,
           Training, Alarm, Party
<1>6. CASE FirebaseTask
  BY <1>2, <1>6 DEF FirebaseTask, StartPush, EndPush, PushCrash, LogOnly
<1>7. CASE Tick \/ Reboot \/ UNCHANGED vars
  BY <1>7 DEF Tick, ControlOnly, Reboot, vars
<1> QED
  BY <1>3, <1>4, <1>5, <1>6, <1>7 DEF Next, Running

\* One step keeps LogObjectRestored: it is inductive once the control
\* locations are known to be in their sets, and initBehaviors to have the object.
LEMMA LogObjectStep ==
    TypeOK /\ ObjectInv /\ LogObjectRestored /\ [Next]_vars => LogObjectRestored'
<1> SUFFICES ASSUME ControlOK, DataOK, ObjectInv, LogObjectRestored, [Next]_vars
             PROVE  LogObjectRestored'
  BY DEF TypeOK
<1> USE DEF LogObjectRestored, HandingOver, ControlOK, DataOK, Tasks, At, Goto,
            ControlOnly, sessionVars, logVars
<1>1. ASSUME NEW p \in Tasks, StopFlags(p) PROVE LogObjectRestored'
  BY <1>1 DEF StopFlags
<1>2. ASSUME NEW p \in Tasks, StopBegin(p) PROVE LogObjectRestored'
  BY <1>2 DEF StopBegin, begin
<1>3. ASSUME NEW p \in Tasks, StopDisconnect(p) PROVE LogObjectRestored'
  BY <1>3 DEF StopDisconnect
<1>4. ASSUME NEW what, Panic(what) PROVE LogObjectRestored'
  BY <1>4 DEF Panic
<1>5. ASSUME NEW b, drawPage(b) PROVE LogObjectRestored'
  BY <1>5 DEF drawPage
<1>6. CASE selectLight \/ LengthenDelay
  BY <1>6 DEF selectLight, LengthenDelay
<1>7. ASSUME NEW where, Tap(where) PROVE LogObjectRestored'
  BY <1>7 DEF Tap, TouchIdle
<1>8. CASE StartLog \/ PressRefresh \/ FetchIds
  BY <1>8 DEF StartLog, PressRefresh, FetchIds, TouchIdle
<1>9. CASE StartEnd \/ FetchEnd
  BY <1>9 DEF StartEnd, FetchEnd, firebaseEnd
<1>10. CASE StartShow
  BY <1>10 DEF StartShow
<1>11. CASE StartActivate
  BY <1>11 DEF StartActivate
<1>12. CASE FetchBegin \/ FetchInit
  BY <1>12 DEF FetchBegin, FetchInit, begin, ObjectInv
<1>19. CASE FetchLevel
  BY <1>19 DEF FetchLevel
<1>13. ASSUME NEW from, NEW to, from # "stopBegin", Move(from, to),
              UNCHANGED <<activated, fbdo>>
       PROVE  LogObjectRestored'
  BY <1>13 DEF Move
<1>14. CASE BehaviorTask
  <2>1. CASE Poll \/ InitEntertainment \/ StartStreaming \/ Connected \/ ConnectFailed
             \/ FestOn \/ AlarmDue
    BY <1>13, <2>1 DEF Poll, InitEntertainment, StartStreaming, Connected, ConnectFailed,
                       FestOn, AlarmDue
  <2>2. CASE Dispatch
    BY <1>13, <2>2 DEF Dispatch
  <2>3. ASSUME NEW from, NEW to, from # "stopBegin",
               \/ Sent(from, to) \/ Entry(from, to) \/ NextEntry(from, to)
               \/ Lights(from, to)
        PROVE  LogObjectRestored'
    BY <1>13, <2>3 DEF Sent, Entry, NextEntry, Lights
  <2>4. CASE HoldAgain \/ HoldDone \/ Training \/ Alarm \/ Party
    BY <2>3, <2>4 DEF HoldAgain, HoldDone, Training, Alarm, Party
  <2>5. CASE EndToggle \/ ClearStart
    BY <2>5 DEF EndToggle, ClearStart
  <2> QED
    BY <1>1, <1>2, <1>3, <1>4, <1>14, <2>1, <2>2, <2>4, <2>5
       DEF BehaviorTask, StopHandler, StopCrash, ConnectCrash
<1>15. CASE TouchHandler
  BY <1>1, <1>2, <1>3, <1>4, <1>8, <1>9, <1>10, <1>11, <1>12, <1>15, <1>19
     DEF TouchHandler, StopHandler, StopCrash, TouchLogCrash
<1>16. CASE User
  BY <1>5, <1>6, <1>7, <1>8, <1>16 DEF User, PressStart, PressStop
<1>17. CASE FirebaseTask
  BY <1>4, <1>17 DEF FirebaseTask, StartPush, EndPush, PushCrash, LogOnly
<1>18. CASE Tick \/ Reboot \/ UNCHANGED vars
  BY <1>18 DEF Tick, ControlOnly, Reboot, vars
<1> QED
  BY <1>14, <1>15, <1>16, <1>17, <1>18 DEF Next, Running

\* The log never loses its data object for good: it is missing only while a
\* behaviour is active or a handler is between taking it away and the next
\* assignment (firebaseEnd, begin, toggleBehavior, fetchData).
THEOREM LogObjectSafe == Spec => []LogObjectRestored
<1>1. Init => LogObjectRestored /\ ObjectInv
  BY DEF Init, LogObjectRestored, ObjectInv, Tasks
<1> QED
  BY <1>1, TypeCorrect, LogObjectStep, ObjectStep, PTL DEF Spec

-----------------------------------------------------------------------------
\* What makes ExclusiveSession inductive: an active behaviour keeps the data
\* object away, START and fetchData pass their first use of it only when none
\* is active, and STOP clears the one that is.
NoneActive == \A b \in Behaviors : ~activated[b]
ExclusiveInv ==
    /\ pc["behavior"] \in StopPc /\ pc["touch"] \in StopPc \cup StartPc => overlapped
    /\ ~overlapped =>
         /\ ExclusiveSession
         /\ fbdo = "live" => NoneActive
         /\ pc["touch"] \in {"startEnd", "startShow", "fetchEnd", "fetchBegin", "fetchInit"}
               => NoneActive
         /\ At("touch", "startShow") => fbdo = "null"
         /\ \A p \in Tasks : At(p, "stopDraw") => activated[arg[p]]
         /\ \A p \in Tasks : At(p, "stopBegin") => NoneActive

\* One step keeps ExclusiveInv.
LEMMA ExclusiveStep == TypeOK /\ ExclusiveInv /\ [Next]_vars => ExclusiveInv'
<1> SUFFICES ASSUME ControlOK, FlagsOK, DataOK, ExclusiveInv, [Next]_vars
             PROVE  ExclusiveInv'
  BY DEF TypeOK
<1> USE DEF ExclusiveInv, ExclusiveSession, NoneActive, ControlOK, DataOK, Tasks, At, Goto,
            ControlOnly, sessionVars, logVars, StopPc, StartPc
<1>1. ASSUME NEW p \in Tasks, StopFlags(p) PROVE ExclusiveInv'
  BY <1>1 DEF StopFlags
<1>2. ASSUME NEW p \in Tasks, StopBegin(p) PROVE ExclusiveInv'
  BY <1>2 DEF StopBegin, begin
<1>3. ASSUME NEW p \in Tasks, StopDisconnect(p) PROVE ExclusiveInv'
  BY <1>3 DEF StopDisconnect, Leave
<1>4. ASSUME NEW what, Panic(what) PROVE ExclusiveInv'
  BY <1>4 DEF Panic
<1>5. ASSUME NEW b, drawPage(b) PROVE ExclusiveInv'
  BY <1>5 DEF drawPage
<1>6. CASE selectLight \/ LengthenDelay
  BY <1>6 DEF selectLight, LengthenDelay
<1>7. ASSUME NEW where \in {"stopDraw", "startLog"}, Tap(where),
             where = "stopDraw" => activated[lastBehaviorId]
      PROVE  ExclusiveInv'
  BY <1>7 DEF Tap, TouchIdle, Enter, InToggle, Other
<1>8. CASE StartLog \/ PressRefresh \/ FetchIds
  BY <1>8 DEF StartLog, PressRefresh, FetchIds, TouchIdle
<1>9. CASE StartEnd \/ FetchEnd
  BY <1>9 DEF StartEnd, FetchEnd, firebaseEnd
<1>10. CASE StartShow
  BY <1>10 DEF StartShow
<1>11. CASE StartActivate
  BY <1>11 DEF StartActivate, Leave
<1>12. CASE FetchBegin \/ FetchInit \/ FetchLevel
  BY <1>12 DEF FetchBegin, FetchInit, FetchLevel, begin
<1>13. ASSUME NEW from, NEW to, from \notin StopPc, to \notin StopPc, Move(from, to),
              UNCHANGED <<activated, fbdo, arg, overlapped>>
       PROVE  ExclusiveInv'
  BY <1>13 DEF Move, StopPc
<1>14. CASE BehaviorTask
  <2> USE DEF StopPc
  <2>1. CASE Poll \/ InitEntertainment \/ StartStreaming \/ Connected \/ ConnectFailed
             \/ FestOn \/ AlarmDue
    BY <1>13, <2>1 DEF Poll, InitEntertainment, StartStreaming, Connected, ConnectFailed,
                       FestOn, AlarmDue
  <2>2. CASE Dispatch
    BY <1>13, <2>2 DEF Dispatch
  <2>3. ASSUME NEW from, NEW to, from \notin StopPc, to \notin StopPc,
               \/ Sent(from, to) \/ Entry(from, to) \/ NextEntry(from, to)
               \/ Lights(from, to)
        PROVE  ExclusiveInv'
    BY <1>13, <2>3 DEF Sent, Entry, NextEntry, Lights
  <2>4. CASE HoldAgain \/ HoldDone \/ Training \/ Alarm \/ Party
    BY <2>3, <2>4 DEF HoldAgain, HoldDone, Training, Alarm, Party
  <2>5. CASE EndToggle
    BY <2>5 DEF EndToggle, Enter, InToggle, Other
  <2>6. CASE ClearStart
    BY <2>6 DEF ClearStart
  <2> QED
    BY <1>1, <1>2, <1>3, <1>4, <1>14, <2>1, <2>2, <2>4, <2>5, <2>6
       DEF BehaviorTask, StopHandler, StopCrash, ConnectCrash
<1>15. CASE TouchHandler
  BY <1>1, <1>2, <1>3, <1>4, <1>8, <1>9, <1>10, <1>11, <1>12, <1>15
     DEF TouchHandler, StopHandler, StopCrash, TouchLogCrash
<1>16. CASE User
  BY <1>5, <1>6, <1>7, <1>8, <1>16 DEF User, PressStart, PressStop
<1>17. CASE FirebaseTask
  BY <1>4, <1>17 DEF FirebaseTask, StartPush, EndPush, PushCrash, LogOnly
<1>18. CASE Tick \/ Reboot \/ UNCHANGED vars
  BY <1>18 DEF Tick, ControlOnly, Reboot, vars
<1> QED
  BY <1>14, <1>15, <1>16, <1>17, <1>18 DEF Next, Running

\* As long as behavior_task and the touch task have not been inside
\* toggleBehavior together, at most one behaviour is active.
THEOREM ExclusiveSafe == Spec => []ExclusiveSession
<1>1. Init => ExclusiveInv
  BY DEF Init, ExclusiveInv, ExclusiveSession, NoneActive, Tasks, At, StopPc, StartPc
<1>2. ExclusiveInv => ExclusiveSession
  BY DEF ExclusiveInv, ExclusiveSession
<1> QED
  BY <1>1, <1>2, TypeCorrect, ExclusiveStep, PTL DEF Spec

-----------------------------------------------------------------------------
\* The guard of setColorRGB protects the message because the buffer has room
\* for exactly entertainment_num_lights lights whenever there is one.
MessageInv ==
    /\ WritesInsideMessage
    /\ entertainment_num_lights > 0 =>
         msgSize = HUE_ENTERTAINMENT_HEADER_SIZE
                   + entertainment_num_lights * HUE_ENTERTAINMENT_LIGHT_SIZE

\* One step keeps MessageInv.
LEMMA MessageStep == TypeOK /\ MessageInv /\ [Next]_vars => MessageInv'
<1> SUFFICES ASSUME DataOK, MessageInv, [Next]_vars PROVE MessageInv'
  BY DEF TypeOK
<1> USE DEF MessageInv, WritesInsideMessage, HUE_ENTERTAINMENT_HEADER_SIZE,
            HUE_ENTERTAINMENT_LIGHT_SIZE
<1>1. CASE UNCHANGED msgVars
  BY <1>1 DEF msgVars
<1>2. ASSUME NEW what, Panic(what) PROVE MessageInv'
  BY <1>2 DEF Panic
<1>3. CASE InitEntertainment
  BY <1>3 DEF InitEntertainment, DataOK
<1>4. ASSUME NEW from, NEW sent, Lights(from, sent) PROVE MessageInv'
  BY <1>4 DEF Lights, setColorRGB, DataOK
<1>5. ASSUME NEW p, StopFlags(p) \/ StopBegin(p) \/ StopDisconnect(p) PROVE MessageInv'
  BY <1>1, <1>5 DEF StopFlags, StopBegin, StopDisconnect, streamVars
<1>6. CASE TouchHandler
  BY <1>1, <1>2, <1>5, <1>6
     DEF TouchHandler, StopHandler, StopCrash, StartLog, StartEnd, StartShow, StartActivate, FetchIds,
         FetchEnd, FetchBegin, FetchInit, FetchLevel, TouchLogCrash, ControlOnly, streamVars
<1>7. CASE User
  BY <1>1, <1>7 DEF User, drawPage, selectLight, LengthenDelay, PressStart, PressStop, PressRefresh, Tap,
                    ControlOnly, streamVars
<1>8. CASE BehaviorTask
  <2>1. CASE Poll \/ StartStreaming \/ Connected \/ ConnectFailed \/ Dispatch \/ FestOn
             \/ AlarmDue \/ EndToggle \/ ClearStart
    BY <1>1, <2>1 DEF Poll, StartStreaming, Connected, ConnectFailed, Dispatch, FestOn,
                      AlarmDue, EndToggle, ClearStart, ControlOnly, streamVars
  <2>2. ASSUME NEW from, NEW to, Sent(from, to) \/ Entry(from, to) \/ NextEntry(from, to)
        PROVE  MessageInv'
    BY <1>1, <2>2 DEF Sent, Entry, NextEntry, ControlOnly, streamVars
  <2> QED
    BY <1>2, <1>3, <1>4, <1>5, <1>8, <2>1, <2>2
       DEF BehaviorTask, StopHandler, StopCrash, ConnectCrash, HoldAgain, HoldDone, AlarmDue,
           Training, Alarm, Party
<1>9. CASE FirebaseTask
  BY <1>1, <1>2, <1>9 DEF FirebaseTask, StartPush, EndPush, PushCrash, LogOnly, streamVars
<1>10. CASE Tick \/ Reboot \/ UNCHANGED vars
  BY <1>1, <1>10 DEF Tick, ControlOnly, Reboot, vars, streamVars
<1> QED
  BY <1>6, <1>7, <1>8, <1>9, <1>10 DEF Next, Running

\* setColorRGB never writes outside entertainment_msg, although the light
\* count of its loop and lastBehaviorId change while it runs.
THEOREM WritesSafe == Spec => []WritesInsideMessage
<1>1. Init => MessageInv
  BY DEF Init, MessageInv, WritesInsideMessage
<1>2. MessageInv => WritesInsideMessage
  BY DEF MessageInv
<1> QED
  BY <1>1, <1>2, TypeCorrect, MessageStep, PTL DEF Spec

-----------------------------------------------------------------------------
\* Once behavior_task is past initEntertainmentMode, there is a context and
\* its parts are initialised.
ContextInv == pc["behavior"] \notin {"poll", "init"} => tls \notin {"null", "raw"}

\* One step keeps ContextInv.
LEMMA ContextStep == TypeOK /\ ContextInv /\ [Next]_vars => ContextInv'
<1> SUFFICES ASSUME ControlOK, ContextInv, [Next]_vars PROVE ContextInv'
  BY DEF TypeOK
<1> USE DEF ContextInv, ControlOK, Tasks, At, Goto, Move, streamVars, ControlOnly
<1>1. ASSUME NEW p \in Tasks, StopFlags(p) \/ StopBegin(p) \/ StopDisconnect(p)
      PROVE  ContextInv'
  BY <1>1 DEF StopFlags, StopBegin, StopDisconnect
<1>2. ASSUME NEW what, Panic(what) PROVE ContextInv'
  BY <1>2 DEF Panic
<1>3. CASE TouchHandler
  BY <1>1, <1>2, <1>3
     DEF TouchHandler, StopHandler, StopCrash, StartLog, StartEnd, StartShow, StartActivate, FetchIds,
         FetchEnd, FetchBegin, FetchInit, FetchLevel, TouchLogCrash
<1>4. CASE User
  BY <1>4 DEF User, drawPage, selectLight, LengthenDelay, PressStart, PressStop, PressRefresh, Tap
<1>5. CASE BehaviorTask
  <2>1. CASE Poll \/ InitEntertainment \/ StartStreaming \/ Connected \/ ConnectFailed
    BY <2>1 DEF Poll, InitEntertainment, StartStreaming, Connected, ConnectFailed
  <2>2. CASE Dispatch \/ FestOn \/ EndToggle \/ ClearStart
    BY <2>2 DEF Dispatch, FestOn, EndToggle, ClearStart
  <2>3. ASSUME NEW from, NEW to, from \notin {"poll", "init"},
               \/ Sent(from, to) \/ Entry(from, to) \/ NextEntry(from, to)
               \/ Lights(from, to)
        PROVE  ContextInv'
    BY <2>3 DEF Sent, Entry, NextEntry, Lights
  <2> QED
    BY <1>1, <1>2, <1>5, <2>1, <2>2, <2>3
       DEF BehaviorTask, StopHandler, StopCrash, ConnectCrash, HoldAgain, HoldDone, AlarmDue,
           Training, Alarm, Party
<1>6. CASE FirebaseTask
  BY <1>2, <1>6 DEF FirebaseTask, StartPush, EndPush, PushCrash, LogOnly
<1>7. CASE Tick \/ Reboot \/ UNCHANGED vars
  BY <1>7 DEF Tick, ControlOnly, Reboot, vars
<1> QED
  BY <1>3, <1>4, <1>5, <1>6, <1>7 DEF Next, Running

\* A running chip that panics is at one of five places.
LEMMA PanicPlace ==
    ASSUME [Next]_vars, fault = "none", fault' # "none"
    PROVE  \/ fault' = "tls" /\ (StopCrash("touch") \/ StopCrash("behavior") \/ ConnectCrash)
           \/ fault' = "log" /\ (TouchLogCrash \/ PushCrash)
<1>1. Running
  BY DEF Next, Reboot, vars
<1>2. StopCrash("touch") \/ StopCrash("behavior") \/ ConnectCrash \/ TouchLogCrash \/ PushCrash
  <2>1. CASE TouchHandler
    BY <2>1 DEF TouchHandler, StopHandler, StopFlags, StopBegin, StopDisconnect, StartLog, StartEnd,
       StartShow, StartActivate, FetchIds, FetchEnd, FetchBegin, FetchInit, FetchLevel, ControlOnly
  <2>2. CASE User
    BY <2>2 DEF User, drawPage, selectLight, LengthenDelay, PressStart, PressStop, PressRefresh, Tap,
       ControlOnly
  <2>3. CASE BehaviorTask
    <3>1. ~(Poll \/ InitEntertainment \/ StartStreaming \/ Connected \/ ConnectFailed
            \/ Dispatch \/ FestOn \/ AlarmDue \/ EndToggle \/ ClearStart)
      BY DEF Poll, InitEntertainment, StartStreaming, Connected, ConnectFailed,
         Dispatch, FestOn, AlarmDue, EndToggle, ClearStart, ControlOnly
    <3>2. ASSUME NEW from, NEW to
          PROVE  ~(Sent(from, to) \/ Entry(from, to) \/ NextEntry(from, to)
                   \/ Lights(from, to))
      BY DEF Sent, Entry, NextEntry, Lights, ControlOnly
    <3> QED
      BY <2>3, <3>1, <3>2 DEF BehaviorTask, StopHandler, StopFlags, StopBegin, StopDisconnect,
         HoldAgain, HoldDone, Training, Alarm, Party
  <2>4. CASE FirebaseTask \/ Tick
    BY <2>4 DEF FirebaseTask, StartPush, EndPush, LogOnly, Tick, ControlOnly
  <2> QED
    BY <1>1, <2>1, <2>2, <2>3, <2>4 DEF Running
<1> QED
  BY <1>2 DEF StopCrash, ConnectCrash, TouchLogCrash, PushCrash, Panic

\* A panic of the DTLS code has one of the causes TlsCause names.
LEMMA TlsPanicStep ==
    ASSUME ContextInv, [Next]_vars, fault = "none", fault' = "tls"
    PROVE  TlsCause
<1>1. StopCrash("touch") \/ StopCrash("behavior") \/ ConnectCrash
  BY PanicPlace
<1>2. CASE StopCrash("behavior")
  BY <1>2 DEF StopCrash, ContextInv, At, TlsCause
<1> QED
  BY <1>1, <1>2 DEF StopCrash, ConnectCrash, TlsCause

\* A panic of the log has one of the causes LogCause names.
LEMMA LogPanicStep ==
    ASSUME DataOK, LogObjectRestored, ObjectInv, [Next]_vars, fault = "none", fault' = "log"
    PROVE  LogCause
<1>1. TouchLogCrash \/ PushCrash
  BY PanicPlace
<1>2. CASE TouchLogCrash
  BY <1>2 DEF TouchLogCrash, ObjectInv, LogObjectRestored, LogCause
<1>3. CASE PushCrash
  BY <1>3 DEF PushCrash, ObjectInv, LogObjectRestored, LogCause
<1> QED
  BY <1>1, <1>2, <1>3

\* behavior_task never panics on its own context: a panic in the DTLS code
\* needs a STOP of the touch task (disconnect, free, connect).  A panic of the
\* log needs a session that has its object, or has had it during the push.
THEOREM PanicsSafe == Spec => PanicsNeedCause
<1>1. Init => ContextInv /\ ObjectInv
  BY DEF Init, ContextInv, ObjectInv, Tasks
<1>2. TypeOK /\ LogObjectRestored /\ ContextInv /\ ObjectInv /\ [Next]_vars =>
        [/\ fault = "none" /\ fault' = "tls" => TlsCause
         /\ fault = "none" /\ fault' = "log" => LogCause]_vars
  BY TlsPanicStep, LogPanicStep DEF TypeOK
<1> QED
  BY <1>1, <1>2, TypeCorrect, LogObjectSafe, ContextStep, ObjectStep, PTL
  DEF Spec, PanicsNeedCause

-----------------------------------------------------------------------------
(* The turns of a behaviour and the data object of the log.                *)

TurnStep == [Turns!Next]_(Turns!vars)

\* A step that leaves alone what the mapping reads is a stutter.
LEMMA TurnsKept ==
    ASSUME UNCHANGED <<activated, fbdo, overlapped, fault>>
    PROVE  TurnStep
  BY DEF TurnStep, Turns!vars

\* Once the turns are spoilt, every step but a panic wanders.
LEMMA TurnsSpoilt ==
    ASSUME fault = "none", fault' = "none", overlapped'
    PROVE  TurnStep
  BY DEF TurnStep, Turns!Next, Turns!Spoil

LEMMA TurnsPanic ==
    ASSUME NEW what \in {"log", "tls"}, Panic(what), fault = "none"
    PROVE  TurnStep
<1>1. {b \in Behaviors : activated'[b]} = {}
  BY DEF Panic
<1> QED
  BY <1>1 DEF Panic, TurnStep, Turns!Next, Turns!Panic

\* A step of a fine session keeps the turns if the active behaviours and the
\* data object change as one of the four turns says.
LEMMA TurnsFine ==
    ASSUME fault = "none", fault' = "none", ~overlapped, ~overlapped', DataOK, DataOK',
           \/ NoneActive /\ NoneActive'
           \/ NoneActive /\ fbdo = "null" /\ UNCHANGED fbdo
              /\ \E b \in Behaviors : activated' = [activated EXCEPT ![b] = TRUE]
           \/ ~NoneActive /\ NoneActive' /\ UNCHANGED fbdo
           \/ UNCHANGED <<activated, fbdo>>
    PROVE  TurnStep
<1> DEFINE A == {b \in Behaviors : activated[b]}
           B == {b \in Behaviors : activated'[b]}
<1>1. (A = {} <=> NoneActive) /\ (B = {} <=> NoneActive')
  BY DEF NoneActive
<1>2. CASE NoneActive /\ NoneActive'
  BY <1>1, <1>2 DEF TurnStep, Turns!vars, Turns!Next, Turns!TakeLog, Turns!GiveLog, Turns!Keep
<1>3. CASE /\ NoneActive /\ fbdo = "null" /\ UNCHANGED fbdo
           /\ \E b \in Behaviors : activated' = [activated EXCEPT ![b] = TRUE]
  <2>1. PICK b \in Behaviors : activated' = [activated EXCEPT ![b] = TRUE]
    BY <1>3
  <2>2. B = {b}
    BY <1>3, <2>1 DEF NoneActive, DataOK
  <2> QED
    BY <1>1, <1>3, <2>2 DEF TurnStep, Turns!Next, Turns!Start, Turns!Keep
<1>4. CASE ~NoneActive /\ NoneActive' /\ UNCHANGED fbdo
  BY <1>1, <1>4 DEF TurnStep, Turns!Next, Turns!Stop, Turns!Keep
<1>5. CASE UNCHANGED <<activated, fbdo>>
  BY <1>5 DEF TurnStep, Turns!vars
<1> QED
  BY <1>2, <1>3, <1>4, <1>5

\* A chip that is down has forgotten that the tasks met.
DownInv == fault # "none" => ~overlapped

\* The tasks of a running chip leave fault alone or panic.
LEMMA FaultStep ==
    ASSUME Running
    PROVE  UNCHANGED fault \/ \E what \in {"log", "tls"} : Panic(what)
<1>1. ASSUME NEW p \in Tasks, StopHandler(p)
      PROVE  UNCHANGED fault \/ Panic("tls")
  BY <1>1 DEF StopHandler, StopFlags, StopBegin, StopDisconnect, StopCrash
<1>2. CASE TouchHandler
  BY <1>1, <1>2 DEF TouchHandler, StartLog, StartEnd, StartShow, StartActivate, FetchIds,
     FetchEnd, FetchBegin, FetchInit, FetchLevel, TouchLogCrash, ControlOnly, Tasks
<1>3. CASE User
  BY <1>3 DEF User, drawPage, selectLight, LengthenDelay, PressStart, PressStop, PressRefresh, Tap,
     ControlOnly
<1>4. CASE BehaviorTask
  <2>1. CASE Poll \/ InitEntertainment \/ StartStreaming \/ Connected \/ ConnectFailed
             \/ Dispatch \/ FestOn \/ AlarmDue \/ EndToggle \/ ClearStart
    BY <2>1 DEF Poll, InitEntertainment, StartStreaming, Connected, ConnectFailed,
       Dispatch, FestOn, AlarmDue, EndToggle, ClearStart, ControlOnly
  <2>2. ASSUME NEW from, NEW to,
               Sent(from, to) \/ Entry(from, to) \/ NextEntry(from, to) \/ Lights(from, to)
        PROVE  UNCHANGED fault
    BY <2>2 DEF Sent, Entry, NextEntry, Lights, ControlOnly
  <2> QED
    BY <1>1, <1>4, <2>1, <2>2 DEF BehaviorTask, ConnectCrash, HoldAgain, HoldDone,
       Training, Alarm, Party, Tasks
<1>5. CASE FirebaseTask
  BY <1>5 DEF FirebaseTask, StartPush, EndPush, PushCrash, LogOnly
<1>6. CASE Tick
  BY <1>6 DEF Tick, ControlOnly
<1> QED
  BY <1>2, <1>3, <1>4, <1>5, <1>6 DEF Running

LEMMA DownStep == DownInv /\ [Next]_vars => DownInv'
<1>1. CASE fault = "none" /\ Running
  BY <1>1, FaultStep DEF DownInv, Panic
<1>2. CASE Reboot \/ UNCHANGED vars
  BY <1>2 DEF DownInv, Reboot, vars
<1> QED
  BY <1>1, <1>2 DEF Next

\* Every step takes a turn, spoils the turns, panics, reboots or stutters.
LEMMA TurnsNext == TypeOK /\ ExclusiveInv /\ DownInv /\ [Next]_vars => TurnStep
<1> SUFFICES ASSUME TypeOK, ExclusiveInv, DownInv, [Next]_vars PROVE TurnStep
  OBVIOUS
<1>1. DataOK /\ DataOK'
  BY DataStep DEF TypeOK
<1>2. CASE Reboot \/ UNCHANGED vars
  <2>1. CASE UNCHANGED vars
    BY <2>1, TurnsKept DEF vars, sessionVars, logVars
  <2>2. CASE Reboot
    <3>1. fault # "none" /\ fault' = "none" /\ UNCHANGED <<activated, fbdo, overlapped>>
      BY <2>2 DEF Reboot, sessionVars, logVars
    <3>2. ~overlapped
      BY <3>1 DEF DownInv
    <3> QED
      BY <3>1, <3>2 DEF TurnStep, Turns!Next, Turns!Reboot
  <2> QED
    BY <1>2, <2>1, <2>2
<1>3. ASSUME fault = "none", Running PROVE TurnStep
  <2> USE <1>3
  <2>1. ASSUME NEW p \in Tasks, StopFlags(p) PROVE TurnStep
    <3>1. CASE overlapped
      BY <2>1, <3>1, TurnsSpoilt DEF StopFlags
    <3>2. CASE ~overlapped
      <4>1. ~NoneActive /\ NoneActive'
        BY <1>1, <2>1, <3>2
        DEF StopFlags, DataOK, NoneActive, ExclusiveInv, ExclusiveSession, At
      <4> QED
        BY <1>1, <2>1, <3>2, <4>1, TurnsFine DEF StopFlags, logVars
    <3> QED
      BY <3>1, <3>2
  <2>2. ASSUME NEW p \in Tasks, StopBegin(p) PROVE TurnStep
    <3>1. CASE overlapped
      BY <2>2, <3>1, TurnsSpoilt DEF StopBegin
    <3>2. CASE ~overlapped
      BY <1>1, <2>2, <3>2, TurnsFine DEF StopBegin, sessionVars, NoneActive, ExclusiveInv
    <3> QED
      BY <3>1, <3>2
  <2>3. ASSUME NEW p \in Tasks, StopDisconnect(p) PROVE TurnStep
    BY <2>3, TurnsKept DEF StopDisconnect, sessionVars, logVars
  <2>4. ASSUME NEW where, Tap(where) PROVE TurnStep
    BY <2>4, TurnsKept, TurnsSpoilt DEF Tap, Enter, sessionVars, logVars, FlagsOK, TypeOK
  <2>5. CASE StartEnd \/ FetchEnd
    <3>1. CASE overlapped
      BY <2>5, <3>1, TurnsSpoilt DEF StartEnd, FetchEnd
    <3>2. CASE ~overlapped
      <4>1. NoneActive /\ UNCHANGED <<activated, overlapped, fault>>
        BY <2>5, <3>2 DEF StartEnd, FetchEnd, sessionVars, ExclusiveInv, At
      <4> QED
        BY <1>1, <3>2, <4>1, TurnsFine DEF NoneActive
    <3> QED
      BY <3>1, <3>2
  <2>6. CASE StartShow
    <3>1. CASE overlapped
      BY <2>6, <3>1, TurnsSpoilt DEF StartShow
    <3>2. CASE ~overlapped
      <4>1. NoneActive /\ fbdo = "null" /\ arg["touch"] \in Behaviors
        BY <1>1, <2>6, <3>2 DEF StartShow, ExclusiveInv, At, DataOK, Tasks
      <4> QED
        BY <1>1, <2>6, <3>2, <4>1, TurnsFine DEF StartShow, logVars
    <3> QED
      BY <3>1, <3>2
  <2>7. CASE FetchBegin \/ FetchInit
    <3>1. CASE overlapped
      BY <2>7, <3>1, TurnsSpoilt DEF FetchBegin, FetchInit
    <3>2. CASE ~overlapped
      <4>1. NoneActive /\ UNCHANGED <<overlapped, fault>>
        BY <2>7, <3>2 DEF FetchBegin, FetchInit, ExclusiveInv, At
      <4>2. NoneActive'
        BY <1>1, <2>7, <4>1 DEF FetchBegin, FetchInit, sessionVars, NoneActive, DataOK
      <4> QED
        BY <1>1, <3>2, <4>1, <4>2, TurnsFine
    <3> QED
      BY <3>1, <3>2
  <2>8. CASE StartLog \/ StartActivate \/ FetchIds \/ FetchLevel \/ PressRefresh
    BY <2>8, TurnsKept
    DEF StartLog, StartActivate, FetchIds, FetchLevel, PressRefresh, ControlOnly, sessionVars, logVars
  <2>9. CASE \/ selectLight \/ LengthenDelay \/ \E b \in Behaviors : drawPage(b)
    BY <2>9, TurnsKept DEF selectLight, LengthenDelay, ControlOnly, drawPage, sessionVars, logVars
  <2>10. CASE TouchHandler
    BY <2>1, <2>2, <2>3, <2>5, <2>6, <2>7, <2>8, <2>10, TurnsPanic
       DEF TouchHandler, StopHandler, StopCrash, TouchLogCrash, Tasks
  <2>11. CASE User
    BY <2>4, <2>8, <2>9, <2>11 DEF User, PressStart, PressStop
  <2>12. CASE BehaviorTask
    <3>1. CASE Poll \/ InitEntertainment \/ StartStreaming \/ Connected \/ ConnectFailed
               \/ Dispatch \/ FestOn \/ AlarmDue \/ ClearStart
      BY <3>1, TurnsKept DEF Poll, InitEntertainment, StartStreaming, Connected,
         ConnectFailed, Dispatch, FestOn, AlarmDue, ClearStart, ControlOnly, sessionVars, logVars
    <3>2. ASSUME NEW from, NEW to,
                 Sent(from, to) \/ Entry(from, to) \/ NextEntry(from, to) \/ Lights(from, to)
          PROVE  TurnStep
      <4>1. UNCHANGED <<sessionVars, logVars, overlapped, fault>>
        BY <3>2 DEF Sent, Entry, NextEntry, Lights, ControlOnly
      <4> QED
        BY <4>1, TurnsKept DEF sessionVars, logVars
    <3>3. CASE EndToggle
      <4>1. fault' = fault /\ (overlapped' \/ UNCHANGED overlapped)
        BY <3>3 DEF EndToggle, Enter, TypeOK, FlagsOK
      <4> QED
        BY <3>3, <4>1, TurnsKept, TurnsSpoilt DEF EndToggle, sessionVars, logVars
    <3>4. CASE HoldAgain \/ HoldDone \/ Training \/ Alarm \/ Party
      BY <3>2, <3>4 DEF HoldAgain, HoldDone, Training, Alarm, Party
    <3>5. CASE StopHandler("behavior") \/ ConnectCrash
      BY <2>1, <2>2, <2>3, <3>5, TurnsPanic DEF StopHandler, StopCrash, ConnectCrash, Tasks
    <3> QED
      BY <2>12, <3>1, <3>3, <3>4, <3>5 DEF BehaviorTask
  <2>13. CASE FirebaseTask
    BY <2>13, TurnsKept, TurnsPanic
       DEF FirebaseTask, StartPush, EndPush, PushCrash, LogOnly, sessionVars, logVars
  <2>14. CASE Tick
    BY <2>14, TurnsKept DEF Tick, ControlOnly, sessionVars, logVars
  <2> QED
    BY <2>10, <2>11, <2>12, <2>13, <2>14 DEF Running
<1> QED
  BY <1>2, <1>3 DEF Next

\* START, STOP, refresh and the closing toggles implement the turns that a
\* behaviour and the data object of the log take (Handover), as long as the two
\* tasks have not been inside toggleBehavior together.
THEOREM TurnsImplemented == Spec => TakesTurns
<1>1. Init => Turns!Init
  BY DEF Init, Turns!Init
<1>2. Init => ExclusiveInv /\ DownInv
  BY DEF Init, ExclusiveInv, ExclusiveSession, NoneActive, Tasks, At, StopPc, StartPc, DownInv
<1> QED
  BY <1>1, <1>2, TypeCorrect, ExclusiveStep, DownStep, TurnsNext, PTL
  DEF Spec, TakesTurns, Turns!Spec, TurnStep

\* Hence the heap never has to hold the data object and an active behaviour at
\* once, nor two behaviours: each turn of Handover keeps that.
THEOREM OneTlsUser == Spec => []Turns!OneAtATime
<1>1. Turns!Init => Turns!OneAtATime
  BY DEF Turns!Init, Turns!OneAtATime
<1>2. Turns!OneAtATime /\ [Turns!Next]_(Turns!vars) => Turns!OneAtATime'
  BY DEF Turns!OneAtATime, Turns!vars, Turns!Next, Turns!TakeLog, Turns!Start, Turns!Stop,
     Turns!GiveLog, Turns!Spoil, Turns!Panic, Turns!Reboot, Turns!Keep
<1> QED
  BY <1>1, <1>2, TurnsImplemented, PTL DEF TakesTurns, Turns!Spec

-----------------------------------------------------------------------------
(* Why the loops of a training and of an alarm end.                        *)

WaitPc == {"alarmWait", "alarmSend"}
PausePc == {"send", "hold", "alarmFlash"}
LoopPc == WaitPc \cup {"entry", "alarmEntry", "lights", "alarmLights"} \cup PausePc

\* How far an iteration has come.
Phase(where) ==
    IF where \in WaitPc THEN 0
    ELSE IF where \in {"entry", "alarmEntry"} THEN 1
    ELSE IF where \in {"lights", "alarmLights"} THEN 2 ELSE 3

\* The loop counters are ints that are compared with uint8_t fields, and each
\* test may look at another behaviour; yet neither counter passes what a uint8_t
\* can hold (startBehavior, entriesCount, lightCounter).
LoopsInside == l < U8 /\ i < U8

\* A step of behavior_task inside the two loops brings it nearer to their end:
\* to the next entry, to a later place of this one or to the next light; only
\* the waits, which millis() ends, go round (startBehavior).
LoopStepAdvances ==
    LET from == pc["behavior"]
        to == pc'["behavior"]
    IN  from \in LoopPc /\ to \in LoopPc =>
          \/ i' = i + 1
          \/ UNCHANGED i /\ Phase(to) > Phase(from)
          \/ UNCHANGED i /\ Phase(to) = Phase(from) /\ l' = l + 1
          \/ UNCHANGED <<i, l>> /\ from \in WaitPc /\ to \in WaitPc
          \/ UNCHANGED <<i, l>> /\ from \in PausePc /\ to \in PausePc
          \/ UNCHANGED <<i, l>> /\ to = from

\* So does every step of the program (startBehavior).
LoopsAdvance == [][LoopStepAdvances]_vars

\* In the body of a loop, i is an entry that some behaviour could have.
LoopInv ==
    /\ LoopsInside
    /\ pc["behavior"] \in {"lights", "alarmLights"} \cup PausePc => i < U8 - 1

\* One step keeps LoopInv: the body is entered after a test, and i is raised
\* only at its end.
LEMMA LoopStep == TypeOK /\ LoopInv /\ [Next]_vars => LoopInv'
<1> SUFFICES ASSUME ControlOK, DataOK, LoopInv, [Next]_vars PROVE LoopInv'
  BY DEF TypeOK
<1> USE DEF LoopInv, LoopsInside, PausePc
<1>1. ASSUME UNCHANGED <<i, l>>,
             pc'["behavior"] = pc["behavior"]
               \/ pc'["behavior"] \notin {"lights", "alarmLights"} \cup PausePc
               \/ pc["behavior"] \in {"lights", "alarmLights"} \cup PausePc
      PROVE  LoopInv'
  BY <1>1
<1>2. ASSUME NEW what, Panic(what) PROVE LoopInv'
  BY <1>2 DEF Panic, Tasks
<1>3. ASSUME NEW p \in Tasks, StopFlags(p) \/ StopBegin(p) \/ StopDisconnect(p)
      PROVE  LoopInv'
  BY <1>1, <1>3 DEF StopFlags, StopBegin, StopDisconnect, loopVars, Goto, Tasks, ControlOK
<1>4. CASE TouchHandler
  BY <1>1, <1>2, <1>3, <1>4
     DEF TouchHandler, StopHandler, StopCrash, StartLog, StartEnd, StartShow, StartActivate,
         FetchIds, FetchEnd, FetchBegin, FetchInit, FetchLevel, TouchLogCrash, ControlOnly, loopVars, Goto,
         Tasks, ControlOK
<1>5. CASE User
  BY <1>1, <1>5 DEF User, drawPage, selectLight, LengthenDelay, PressStart, PressStop, PressRefresh, Tap,
                    ControlOnly, loopVars, Goto, Tasks, ControlOK
<1>6. CASE BehaviorTask
  <2> USE DEF Move, Goto, Tasks, ControlOK
  <2>1. CASE Poll \/ InitEntertainment \/ StartStreaming \/ Connected \/ ConnectFailed
             \/ FestOn \/ AlarmDue
    BY <1>1, <2>1 DEF Poll, InitEntertainment, StartStreaming, Connected, ConnectFailed,
                      FestOn, AlarmDue, loopVars
  <2>2. CASE Dispatch \/ EndToggle \/ ClearStart
    BY <2>2, U8Assumption DEF Dispatch, EndToggle, ClearStart, DataOK
  <2>3. ASSUME NEW from, NEW to, Sent(from, to),
               to \notin {"lights", "alarmLights"} \cup PausePc
                 \/ from \in {"lights", "alarmLights"} \cup PausePc
        PROVE  LoopInv'
    BY <1>1, <2>3 DEF Sent, loopVars, At
  <2>4. ASSUME NEW from, NEW body, Entry(from, body) PROVE LoopInv'
    <3>1. UNCHANGED <<i, l>>
      BY <2>4 DEF Entry, loopVars
    <3>2. CASE i < U8 - 1
      BY <2>4, <3>1, <3>2
    <3>3. CASE Move(from, "end")
      BY <1>1, <3>1, <3>3
    <3> QED
      BY <2>4, <3>2, <3>3 DEF Entry
  <2>5. ASSUME NEW from, NEW to, NextEntry(from, to), from \in PausePc,
               to \notin {"lights", "alarmLights"} \cup PausePc
        PROVE  LoopInv'
    <3>1. i < U8 - 1
      BY <2>5 DEF NextEntry, At
    <3>2. i + 1 < U8 /\ i' = i + 1 /\ UNCHANGED l
      BY <2>5, <3>1, U8Assumption DEF NextEntry, DataOK
    <3>3. pc'["behavior"] = to
      BY <2>5 DEF NextEntry
    <3> QED
      BY <2>5, <3>2, <3>3
  <2>6. ASSUME NEW from, NEW sent, Lights(from, sent),
               \/ from \in {"lights", "alarmLights"}
               \/ from = "festLights" /\ sent = "festSend"
        PROVE  LoopInv'
    <3>1. UNCHANGED i /\ l' \in 0..(U8 - 1)
      BY <2>6, U8Assumption DEF Lights, DataOK
    <3>2. pc["behavior"] = from /\ pc'["behavior"] \in {from, sent}
      BY <2>6 DEF Lights, At
    <3>3. LoopsInside'
      BY <3>1, U8Assumption
    <3>4. pc'["behavior"] \in {"lights", "alarmLights"} \cup PausePc =>
            pc["behavior"] \in {"lights", "alarmLights"} \cup PausePc
      BY <2>6, <3>2
    <3> QED
      BY <3>1, <3>3, <3>4
  <2> HIDE DEF LoopInv, LoopsInside
  <2>7. CASE HoldAgain \/ HoldDone
    BY <2>3, <2>5, <2>7 DEF HoldAgain, HoldDone
  <2>8. CASE Training
    BY <2>3, <2>4, <2>6, <2>8 DEF Training
  <2>9. CASE Alarm
    <3>1. CASE Sent("alarmSend", "alarmWait") \/ Entry("alarmEntry", "alarmLights")
      BY <2>3, <2>4, <3>1
    <3>2. CASE Lights("alarmLights", "alarmFlash")
      BY <2>6, <3>2
    <3>3. CASE NextEntry("alarmFlash", "alarmEntry")
      BY <2>5, <3>3
    <3> QED
      BY <2>9, <3>1, <3>2, <3>3 DEF Alarm
  <2>10. CASE Party
    <3>1. (IF fest THEN "festLights" ELSE "end") \notin {"lights", "alarmLights"} \cup PausePc
      OBVIOUS
    <3>2. CASE Sent("festTest", IF fest THEN "festLights" ELSE "end")
      BY <2>3, <3>1, <3>2
    <3> QED
      BY <2>3, <2>6, <2>10, <3>2 DEF Party
  <2> QED
    BY <1>2, <1>3, <1>6, <2>1, <2>2, <2>7, <2>8, <2>9, <2>10
       DEF BehaviorTask, StopHandler, StopCrash, ConnectCrash
<1>7. CASE FirebaseTask
  BY <1>1, <1>2, <1>7 DEF FirebaseTask, StartPush, EndPush, PushCrash, LogOnly, loopVars
<1>8. CASE Tick \/ Reboot \/ UNCHANGED vars
  BY <1>1, <1>8 DEF Tick, ControlOnly, Reboot, vars, loopVars
<1> QED
  BY <1>4, <1>5, <1>6, <1>7, <1>8 DEF Next, Running

\* However the page, the lights and the number of entries change under the loops,
\* their counters stay below what the uint8_t they are compared with can hold
\* (startBehavior, lastBehaviorId, updateBehaviors).
THEOREM LoopsSafe == Spec => []LoopsInside
<1>1. Init => LoopInv
  BY U8Assumption DEF Init, LoopInv, LoopsInside, PausePc, Tasks
<1>2. LoopInv => LoopsInside
  BY DEF LoopInv
<1> QED
  BY <1>1, <1>2, TypeCorrect, LoopStep, PTL DEF Spec

\* Every step of behavior_task inside the loops of a training or an alarm brings
\* it nearer to their end; with LoopsSafe, a training or an alarm is over after
\* as many steps as entries and lights allow, but for the waits (startBehavior).
THEOREM LoopsProgress == Spec => LoopsAdvance
<1> USE DEF LoopPc, WaitPc, PausePc, Phase
<1>1. ASSUME UNCHANGED <<i, l>>,
             \/ pc'["behavior"] = pc["behavior"]
             \/ pc["behavior"] \notin LoopPc
             \/ pc'["behavior"] \notin LoopPc
      PROVE  LoopStepAdvances
  BY <1>1 DEF LoopStepAdvances
<1>2. ASSUME pc["behavior"] \notin LoopPc \/ pc'["behavior"] \notin LoopPc
      PROVE  LoopStepAdvances
  BY <1>2 DEF LoopStepAdvances
<1>3. ASSUME NEW what, Panic(what) PROVE LoopStepAdvances
  BY <1>2, <1>3 DEF Panic, Tasks
<1>4. ASSUME ControlOK, NEW p \in Tasks, StopFlags(p) \/ StopBegin(p) \/ StopDisconnect(p)
      PROVE  LoopStepAdvances
  BY <1>1, <1>4 DEF StopFlags, StopBegin, StopDisconnect, loopVars, Goto, At, Tasks, ControlOK
<1>5. ASSUME ControlOK, TouchHandler PROVE LoopStepAdvances
  BY <1>1, <1>3, <1>4, <1>5
     DEF TouchHandler, StopHandler, StopCrash, StartLog, StartEnd, StartShow, StartActivate,
         FetchIds, FetchEnd, FetchBegin, FetchInit, FetchLevel, TouchLogCrash, ControlOnly, loopVars, Goto,
         Tasks, ControlOK
<1>6. ASSUME ControlOK, User PROVE LoopStepAdvances
  BY <1>1, <1>6 DEF User, drawPage, selectLight, LengthenDelay, PressStart, PressStop, PressRefresh, Tap,
                    ControlOnly, loopVars, Goto, Tasks, ControlOK
<1>7. ASSUME ControlOK, DataOK, BehaviorTask PROVE LoopStepAdvances
  <2> USE DEF Move, Goto, At, Tasks, ControlOK
  <2>1. CASE Poll \/ InitEntertainment \/ StartStreaming \/ Connected \/ ConnectFailed
             \/ FestOn \/ EndToggle \/ ClearStart \/ Dispatch
    BY <1>2, <2>1 DEF Poll, InitEntertainment, StartStreaming, Connected, ConnectFailed,
                      FestOn, EndToggle, ClearStart, Dispatch
  <2>2. CASE HoldAgain \/ AlarmDue \/ Sent("send", "hold") \/ Sent("alarmSend", "alarmWait")
    BY <1>7, <2>2 DEF HoldAgain, AlarmDue, Sent, loopVars, LoopStepAdvances
  <2>3. CASE Entry("entry", "lights") \/ Entry("alarmEntry", "alarmLights")
    BY <1>7, <2>3 DEF Entry, loopVars, LoopStepAdvances
  <2>4. CASE HoldDone \/ NextEntry("alarmFlash", "alarmEntry")
    BY <1>7, <2>4 DEF HoldDone, NextEntry, LoopStepAdvances
  <2>5. CASE Lights("lights", "send") \/ Lights("alarmLights", "alarmFlash")
    BY <1>7, <2>5 DEF Lights, LoopStepAdvances
  <2>6. CASE Party
    BY <1>2, <1>7, <2>6 DEF Party, Sent, Lights
  <2> QED
    BY <1>3, <1>4, <1>7, <2>1, <2>2, <2>3, <2>4, <2>5, <2>6
       DEF BehaviorTask, StopHandler, StopCrash, ConnectCrash, Training, Alarm
<1>8. ASSUME FirebaseTask PROVE LoopStepAdvances
  BY <1>1, <1>3, <1>8 DEF FirebaseTask, StartPush, EndPush, PushCrash, LogOnly, loopVars
<1>9. ASSUME Reboot PROVE LoopStepAdvances
  BY <1>1, <1>9 DEF Reboot, loopVars
<1>11. ASSUME Tick PROVE LoopStepAdvances
  BY <1>1, <1>11 DEF Tick
<1>10. TypeOK /\ [Next]_vars => [LoopStepAdvances]_vars
  BY <1>5, <1>6, <1>7, <1>8, <1>9, <1>11 DEF TypeOK, Next, Running
<1> QED
  BY <1>10, TypeCorrect, PTL DEF Spec, LoopsAdvance

(* ------------------------------------------------------------------------ *)
(* What StopEndsParty and the end of every session rest on.                  *)

\* The places of the loop of the party, in the order of an iteration.
PartyMoves ==
    {<<"festLights", "festSend">>, <<"festSend", "festTest">>, <<"festTest", "end">>}

ClosingPc == {"end", "clear"} \cup StopPc

\* How many steps are left of the two closing toggles.
ClosingLeft ==
    LET where == pc["behavior"]
    IN  (IF round = 1 THEN 5 ELSE 0)
        + (IF where = "end" THEN 5 ELSE IF where = "stopDraw" THEN 4
           ELSE IF where = "stopBegin" THEN 3 ELSE IF where = "stopWindow" THEN 2 ELSE 1)

\* A step of behavior_task.
Plays == fault = "none" /\ BehaviorTask

\* A party whose fest is cleared goes on only to the end of its iteration, and
\* nobody sets fest again before.
PartyStepEnds ==
    LET from == pc["behavior"]
        to == pc'["behavior"]
    IN  from \in PartyPc /\ ~fest =>
          \/ to = "poll"
          \/ ~fest' /\ to = from /\ l' \in {l, l + 1} /\ (Plays => l' = l + 1)
          \/ ~fest' /\ <<from, to>> \in PartyMoves

\* After a loop, and after a connection that failed, each step of behavior_task
\* brings it nearer to the next poll, or the program panics.
ClosingStepEnds ==
    LET from == pc["behavior"]
        to == pc'["behavior"]
    IN  from \in ClosingPc =>
          \/ to = "poll"
          \/ to = from /\ round' = round /\ ~Plays
          \/ to \in ClosingPc /\ ClosingLeft' < ClosingLeft

SessionStepEnds == PartyStepEnds /\ ClosingStepEnds

\* Steps that behavior_task has no part in, and what others do to it.
LEMMA OthersKeepSession ==
    ASSUME TypeOK, [Next]_vars, ~Plays
    PROVE  \/ pc'["behavior"] = "poll"
           \/ /\ UNCHANGED <<round, i, l>> /\ pc'["behavior"] = pc["behavior"]
              /\ fest' = fest \/ ~fest'
<1>1. ASSUME NEW what, Panic(what) PROVE pc'["behavior"] = "poll"
  BY <1>1 DEF Panic, Tasks
<1>2. CASE TouchHandler
  BY <1>1, <1>2
     DEF TouchHandler, StopHandler, StopFlags, StopBegin, StopDisconnect, StopCrash, StartLog,
         StartEnd, StartShow, StartActivate, FetchIds, FetchEnd, FetchBegin, FetchInit, FetchLevel,
         TouchLogCrash, ControlOnly, Goto, Tasks, TypeOK, ControlOK, loopVars, sessionVars, flagVars
<1>3. CASE User
  BY <1>3 DEF User, drawPage, selectLight, LengthenDelay, PressStart, PressStop, PressRefresh, Tap,
              ControlOnly, Goto, Tasks, TypeOK, ControlOK, loopVars, sessionVars, flagVars
<1>4. CASE FirebaseTask
  BY <1>1, <1>4 DEF FirebaseTask, StartPush, EndPush, PushCrash, LogOnly, loopVars, sessionVars, flagVars
<1>5. CASE Tick \/ Reboot \/ UNCHANGED vars
  BY <1>5 DEF Tick, ControlOnly, Reboot, vars, loopVars, sessionVars, flagVars
<1> QED
  BY <1>2, <1>3, <1>4, <1>5 DEF Next, Running, Plays

\* A step of behavior_task in the party and in the closing toggles.
LEMMA PlayEndsSession ==
    ASSUME TypeOK, BehaviorTask
    PROVE  SessionStepEnds
<1> USE DEF ClosingPc, PartyPc, StopPc, PartyMoves, TypeOK, ControlOK
<1>1. ASSUME pc'["behavior"] = "poll" PROVE SessionStepEnds
  BY <1>1 DEF SessionStepEnds, PartyStepEnds, ClosingStepEnds
<1>2. ASSUME pc["behavior"] \notin PartyPc \cup ClosingPc PROVE SessionStepEnds
  BY <1>2 DEF SessionStepEnds, PartyStepEnds, ClosingStepEnds
<1>3. ASSUME NEW what, Panic(what) PROVE SessionStepEnds
  BY <1>1, <1>3 DEF Panic, Tasks
<1>4. CASE Poll \/ InitEntertainment \/ StartStreaming \/ Connected \/ ConnectFailed \/ Dispatch
           \/ HoldAgain \/ HoldDone \/ AlarmDue \/ Training \/ Alarm \/ FestOn
  <2>1. pc["behavior"] \notin PartyPc \cup ClosingPc
    BY <1>4 DEF Poll, InitEntertainment, StartStreaming, Connected, ConnectFailed, Dispatch, HoldAgain,
       HoldDone, AlarmDue, Training, Alarm, FestOn, Move, At, Sent, Entry, Lights, NextEntry
  <2> QED
    BY <1>2, <2>1
<1>5. CASE Party
  <2>1. fest' = fest /\ pc["behavior"] \in PartyPc
    BY <1>5 DEF Party, Sent, Lights, Move, At, ControlOnly, sessionVars, flagVars
  <2>2. ASSUME ~fest
        PROVE  \/ pc'["behavior"] = pc["behavior"] /\ l' = l + 1
               \/ <<pc["behavior"], pc'["behavior"]>> \in PartyMoves
    BY <1>5, <2>2 DEF Party, Sent, Lights, Move, At, Goto, Tasks
  <2> QED
    BY <2>1, <2>2 DEF SessionStepEnds, PartyStepEnds, ClosingStepEnds
<1>6. CASE EndToggle \/ ClearStart \/ StopHandler("behavior")
  <2>1. pc["behavior"] \in ClosingPc
    BY <1>6 DEF EndToggle, ClearStart, StopHandler, StopFlags, StopBegin, StopDisconnect, StopCrash, At
  <2>2. CASE EndToggle
    BY <2>1, <2>2 DEF EndToggle, At, Goto, Tasks, SessionStepEnds, PartyStepEnds, ClosingStepEnds, ClosingLeft
  <2>3. CASE ClearStart
    BY <2>1, <2>3 DEF ClearStart, At, Goto, Tasks, SessionStepEnds, PartyStepEnds, ClosingStepEnds, ClosingLeft
  <2>4. CASE StopFlags("behavior") \/ StopBegin("behavior") \/ StopDisconnect("behavior")
    BY <2>1, <2>4 DEF StopFlags, StopBegin, StopDisconnect, At, Goto, Tasks, loopVars,
       SessionStepEnds, PartyStepEnds, ClosingStepEnds, ClosingLeft
  <2> QED
    BY <1>3, <1>6, <2>2, <2>3, <2>4 DEF StopHandler, StopCrash
<1> QED
  BY <1>3, <1>4, <1>5, <1>6 DEF BehaviorTask, ConnectCrash

(* A party that was stopped leaves its loop at the end of the iteration, and *)
(* a session that left its loop is over within ten steps of behavior_task;   *)
(* nobody but a panic interferes (startBehavior, toggleBehavior).            *)
THEOREM SessionEnds == Spec => [][SessionStepEnds]_vars
<1>1. ASSUME TypeOK, [Next]_vars PROVE SessionStepEnds
  <2>1. CASE Plays
    BY <1>1, <2>1, PlayEndsSession DEF Plays
  <2>2. CASE ~Plays
    <3>1. CASE pc'["behavior"] = "poll"
      BY <3>1 DEF SessionStepEnds, PartyStepEnds, ClosingStepEnds
    <3>2. CASE UNCHANGED <<round, i, l>> /\ pc'["behavior"] = pc["behavior"] /\ (fest' = fest \/ ~fest')
      BY <2>2, <3>2 DEF SessionStepEnds, PartyStepEnds, ClosingStepEnds
    <3> QED
      BY <1>1, <2>2, <3>1, <3>2, OthersKeepSession
  <2> QED
    BY <2>1, <2>2
<1> QED
  BY <1>1, TypeCorrect, PTL DEF Spec
=============================================================================
