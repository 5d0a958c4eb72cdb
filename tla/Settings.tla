------------------------------- MODULE Settings -------------------------------
(***************************************************************************)
(* The settings of the behaviours and the tasks that apply them.  A change *)
(* of a count creates a task, updateBehaviors, that waits until            *)
(* lastBehavior, a copy of the behaviour made when a page of it was drawn, *)
(* is not active, then writes the count of the behaviour that the copy is  *)
(* of, fills its entries and deletes the task of the one handle they all   *)
(* share.  A task that deletes another one returns, which aborts.          *)
(***************************************************************************)
EXTENDS Integers, FiniteSets

CONSTANTS
    Updaters,      \* bound: updater tasks at the same time
    Step,          \* a tap changes a count by this: 10
    StartCount,    \* blinkingLightsEntries, alarmEntries and festEntries at boot
    MaxCount,      \* bounds: the counts are not raised above these
    U8             \* uint8_t counts modulo this: 256

Kinds == {"training", "alarm", "party"}
Counted == {"training", "alarm"}   \* with buttons for their count

ASSUME SettingsAssumption ==
    /\ IsFiniteSet(Updaters) /\ "none" \notin Updaters
    /\ Step \in Nat \ {0} /\ U8 \in Nat \ {0}
    /\ StartCount \in [Kinds -> Nat \ {0}]
    /\ MaxCount \in [Kinds -> Nat]

VARIABLES
    handler,       \* touch: the count whose handler has not created its task yet
    screen,        \* "behavior" or "settings": a page of copy.kind; "other"
    setting,       \* what the settings count, an int
    active, count, \* activated and entriesCount of behaviors[]
    filled,        \* entries ever given a colour since behaviors[] was set
    copy,          \* lastBehavior
    updater,       \* the tasks
    handle,        \* taskHandlerbehaviorUpdater; "none" when its task is gone
    left,          \* history: another behaviour was opened before its updater ran
    met,           \* history: START or a page came between an updater's steps
    overlapped,    \* history: an updater was created while another one lived
    panicked

behaviorVars == <<active, count, filled>>
taskVars == <<updater, handle, overlapped>>
vars == <<handler, screen, setting, behaviorVars, copy, taskVars, left, met, panicked>>

NoUpdater == [at |-> "none", from |-> "party", target |-> "party", value |-> 0]
Alive(u) == updater[u].at # "none"
Tests == {"alarm", "training", "party"}
Undecided(u) == updater[u].at \in Tests \cup {"waiting"}
Narrow(n) == n % U8

\* initBehaviors: the entries of the party are never filled, nor used.
FreshCount(s) == [b \in Kinds |-> Narrow(s[b])]
FreshFilled(s) == [b \in Kinds |-> IF b = "party" THEN 0 ELSE Narrow(s[b])]

Init ==
    /\ handler = "none" /\ screen = "other"
    /\ setting = StartCount
    /\ active = [b \in Kinds |-> FALSE]
    /\ count = FreshCount(StartCount) /\ filled = FreshFilled(StartCount)
    /\ copy = [kind |-> "none", active |-> FALSE]
    /\ updater = [u \in Updaters |-> NoUpdater] /\ handle = "none"
    /\ left = {} /\ met = FALSE /\ overlapped = FALSE /\ panicked = FALSE

-----------------------------------------------------------------------------
(* Pages and their buttons, one at a time: the touch task.  A handler of a *)
(* count draws, for seconds, before it creates the updater.                *)

Tapped == handler = "none" /\ UNCHANGED handler

\* Mutant: a page opened again keeps the copy.
OpenKeepsCopy(s, b) ==
    /\ Tapped
    /\ screen' = s
    /\ copy' = IF copy.kind = b THEN copy ELSE [kind |-> b, active |-> active[b]]
    /\ left' = left \cup {updater[u].from : u \in {v \in Updaters : Undecided(v) /\ updater[v].from # b}}
    /\ met' = (met \/ \E u \in Updaters : updater[u].at \in Tests \cup {"write"})
    /\ UNCHANGED <<setting, behaviorVars, taskVars, panicked>>

\* drawBehavior and the page of its settings copy the behaviour.
Open(s, b) ==
    /\ Tapped
    /\ screen' = s
    /\ copy' = [kind |-> b, active |-> active[b]]
    /\ left' = left \cup {updater[u].from : u \in {v \in Updaters : Undecided(v) /\ updater[v].from # b}}
    /\ met' = (met \/ \E u \in Updaters : updater[u].at \in Tests \cup {"write"})
    /\ UNCHANGED <<setting, behaviorVars, taskVars, panicked>>

OpenBehavior == \E b \in Kinds : Open("behavior", b)
OpenSettings == screen = "behavior" /\ Open("settings", copy.kind)

\* To another page; the dial opens one also while a handler draws.
LeavePages ==
    /\ screen # "other" /\ screen' = "other"
    /\ UNCHANGED <<handler, setting, behaviorVars, copy, taskVars, left, met, panicked>>

\* START sets activated; BehaviorSession shows that no other one is active.
Start ==
    /\ Tapped
    /\ screen = "behavior" /\ \A b \in Kinds : ~active[b]
    /\ active' = [active EXCEPT ![copy.kind] = TRUE]
    /\ met' = (met \/ \E u \in Updaters : Alive(u))
    /\ UNCHANGED <<screen, setting, count, filled, copy, taskVars, left, panicked>>

\* STOP, from the page or from the task that plays.
Stop(b) ==
    /\ active[b] /\ active' = [active EXCEPT ![b] = FALSE]
    /\ UNCHANGED <<handler, screen, setting, count, filled, copy, taskVars, left, met,
                   panicked>>

\* A button of the settings page: its handler has the count b.
TapCount(b) ==
    /\ handler = "none" /\ handler' = b
    /\ screen = "settings" /\ b = copy.kind
    /\ \E u \in Updaters : ~Alive(u)
    /\ UNCHANGED <<screen, behaviorVars, copy, taskVars, left, met, panicked>>

\* Mutant: the guard allows a count of zero and below.
DecrementCountBelow(b) ==
    /\ TapCount(b)
    /\ setting' = [setting EXCEPT ![b] = @ - Step]

IncrementCount(b) ==
    /\ TapCount(b)
    /\ setting[b] + Step <= MaxCount[b]
    /\ setting' = [setting EXCEPT ![b] = @ + Step]

DecrementCount(b) ==
    /\ TapCount(b)
    /\ setting' = IF setting[b] > Step THEN [setting EXCEPT ![b] = @ - Step] ELSE setting

\* After drawText the handler creates an updater, whether or not the setting changed.
CreateUpdater(u) ==
    /\ handler # "none" /\ handler' = "none"
    /\ \E v \in Updaters : ~Alive(v)
    /\ u = CHOOSE v \in Updaters : ~Alive(v)
    /\ updater' = [updater EXCEPT ![u] = [NoUpdater EXCEPT !.at = "waiting", !.from = handler]]
    /\ handle' = u
    /\ overlapped' = (overlapped \/ \E v \in Updaters : Alive(v))
    /\ UNCHANGED <<screen, setting, behaviorVars, copy, left, met, panicked>>

\* fetchData of the home page: initBehaviors, from the settings.
Refresh ==
    /\ Tapped
    /\ screen = "other"
    /\ active' = [b \in Kinds |-> FALSE]
    /\ count' = [FreshCount(setting) EXCEPT !["party"] = Narrow(StartCount["party"])]
    /\ filled' = FreshFilled(setting)
    /\ left' = {updater[u].from : u \in {v \in Updaters : Undecided(v)}} \cap left
    /\ UNCHANGED <<screen, setting, copy, taskVars, met, panicked>>

-----------------------------------------------------------------------------
(* updateBehaviors.                                                        *)

Goes(u, where) == updater' = [updater EXCEPT ![u].at = where]

\* Past the write: what led to it is forgotten.
Finish(u, where) ==
    updater' = [updater EXCEPT ![u] =
        [at |-> where, from |-> "party", value |-> 0,
         target |-> IF where = "fill" THEN updater[u].target ELSE "party"]]

\* Mutant: the loop looks at the behaviour itself.
TestActiveOfOrigin(u) ==
    /\ updater[u].at = "waiting" /\ ~active[updater[u].from]
    /\ Goes(u, "alarm")
    /\ UNCHANGED <<handler, screen, setting, behaviorVars, copy, handle, overlapped, left, met, panicked>>

\* The loop ends when the copy is not active; until then the task sleeps.
TestActive(u) ==
    /\ updater[u].at = "waiting" /\ ~copy.active
    /\ Goes(u, "alarm")
    /\ UNCHANGED <<handler, screen, setting, behaviorVars, copy, handle, overlapped, left, met, panicked>>

NextTest(k) == IF k = "alarm" THEN "training" ELSE "party"

\* One of the three tests of the kind; the setting is read next.  The party's
\* count is taken from the training's.
TestKind(u) ==
    /\ updater[u].at \in Tests
    /\ LET k == updater[u].at
       IN  updater' = [updater EXCEPT ![u] =
              IF copy.kind = k
              THEN [at |-> "write", from |-> @.from, target |-> k,
                    value |-> setting[IF k = "alarm" THEN k ELSE "training"]]
              ELSE IF k = "party" THEN [NoUpdater EXCEPT !.at = "delete"]
              ELSE [@ EXCEPT !.at = NextTest(k)]]
    /\ UNCHANGED <<handler, screen, setting, behaviorVars, copy, handle, overlapped, left, met, panicked>>

\* Mutant: the count of the wrong behaviour is written.
WriteCountSwapped(u) ==
    /\ updater[u].at = "write"
    /\ LET b == IF updater[u].target = "alarm" THEN "training" ELSE "alarm"
       IN  /\ count' = [count EXCEPT ![b] = Narrow(updater[u].value)]
           /\ Finish(u, "fill")
    /\ left' = left \ {updater[u].target}
    /\ UNCHANGED <<handler, screen, setting, active, filled, copy, handle, overlapped, met, panicked>>

WriteCount(u) ==
    /\ updater[u].at = "write"
    /\ LET b == updater[u].target
           others == {v \in Updaters \ {u} : Undecided(v) /\ updater[v].from = b}
       IN  /\ count' = [count EXCEPT ![b] = Narrow(updater[u].value)]
           /\ left' = IF others = {} THEN left \ {b} ELSE left
           /\ Finish(u, IF b = "party" THEN "delete" ELSE "fill")
    /\ UNCHANGED <<handler, screen, setting, active, filled, copy, handle, overlapped, met, panicked>>

\* Mutant: the last entry is not filled.
FillEntriesShort(u) ==
    /\ updater[u].at = "fill"
    /\ LET b == updater[u].target
       IN  filled' = [filled EXCEPT ![b] = IF @ >= count[b] THEN @ ELSE count[b] - 1]
    /\ Finish(u, "delete")
    /\ UNCHANGED <<handler, screen, setting, active, count, copy, handle, overlapped, left, met, panicked>>

\* updateAlarmLightsEntries, updateBlinkingLightsEntries.
FillEntries(u) ==
    /\ updater[u].at = "fill"
    /\ LET b == updater[u].target
       IN  filled' = [filled EXCEPT ![b] = IF @ >= count[b] THEN @ ELSE count[b]]
    /\ Finish(u, "delete")
    /\ UNCHANGED <<handler, screen, setting, active, count, copy, handle, overlapped, left, met, panicked>>

\* Mutant: each task deletes itself.
DeleteItself(u) ==
    /\ updater[u].at = "delete"
    /\ updater' = [updater EXCEPT ![u] = NoUpdater]
    /\ handle' = IF handle = u THEN "none" ELSE handle
    /\ met' = (met /\ \E v \in Updaters \ {u} : Alive(v))
    /\ UNCHANGED <<handler, screen, setting, behaviorVars, copy, overlapped, left, panicked>>

\* vTaskDelete(taskHandlerbehaviorUpdater): itself, or a task created later and
\* then the return from a task function, which aborts.
Delete(u) ==
    /\ updater[u].at = "delete"
    /\ IF handle = u
       THEN /\ updater' = [updater EXCEPT ![u] = NoUpdater]
            /\ handle' = "none"
            /\ met' = (met /\ \E v \in Updaters \ {u} : Alive(v))
            /\ UNCHANGED panicked
       ELSE panicked' = TRUE /\ UNCHANGED <<updater, handle, met>>
    /\ UNCHANGED <<handler, screen, setting, behaviorVars, copy, overlapped, left>>

UpdaterStep(u) ==
    \/ TestActive(u) \/ TestKind(u) \/ WriteCount(u) \/ FillEntries(u) \/ Delete(u)

\* The panic handler restarts the program, which begins anew.
Stopped == panicked /\ UNCHANGED vars

Touch ==
    \/ OpenBehavior \/ OpenSettings \/ LeavePages \/ Start
    \/ \E b \in Kinds : Stop(b)
    \/ \E b \in Counted : IncrementCount(b) \/ DecrementCount(b)
    \/ \E u \in Updaters : CreateUpdater(u)
    \/ Refresh

Next == (~panicked /\ (Touch \/ \E u \in Updaters : UpdaterStep(u))) \/ Stopped

\* The scheduler runs each updater again and again; the user owes nothing.
Fairness == \A u \in Updaters : WF_vars(~panicked /\ UpdaterStep(u))

Spec == Init /\ [][Next]_vars /\ Fairness

-----------------------------------------------------------------------------
(* Properties                                                              *)

Updater == [at : {"none", "waiting", "write", "fill", "delete"} \cup Tests,
            from : Kinds, target : Kinds, value : Nat]

\* Every variable keeps its type: the settings stay positive and the counts
\* fit a byte (the handlers of the counts, updateBehaviors).
TypeOK ==
    /\ handler \in Counted \cup {"none"}
    /\ screen \in {"behavior", "settings", "other"}
    /\ setting \in [Kinds -> Nat \ {0}]
    /\ active \in [Kinds -> BOOLEAN]
    /\ count \in [Kinds -> 0..(U8 - 1)] /\ filled \in [Kinds -> 0..(U8 - 1)]
    /\ copy \in [kind : Kinds \cup {"none"}, active : BOOLEAN]
    /\ screen # "other" => copy.kind \in Kinds
    /\ updater \in [Updaters -> Updater] /\ handle \in Updaters \cup {"none"}
    /\ left \subseteq Kinds
    /\ met \in BOOLEAN /\ overlapped \in BOOLEAN /\ panicked \in BOOLEAN

\* The shared handle kills the program exactly if two updaters were alive at
\* the same time: no panic without that, and once it was so the last updater
\* does not end in peace (updateBehaviors, the handlers of the counts).
OverlapPanics ==
    /\ panicked => overlapped
    /\ overlapped /\ (\A u \in Updaters : ~Alive(u)) => panicked

\* The entriesCount of training and alarm is the setting, narrowed to a byte,
\* when its handler does not draw before it creates an updater and no updater
\* works on it, unless a page of another behaviour was opened while its updater
\* waited (that one then writes the other behaviour's count) or two updaters
\* overlapped, which is fatal.
CountFollowsSetting ==
    \A b \in Counted :
        \/ count[b] = Narrow(setting[b])
        \/ handler = b
        \/ b \in left \/ overlapped
        \/ \E u \in Updaters : Alive(u) /\ b \in {updater[u].from, updater[u].target}

\* entries[] are filled up to entriesCount, except just before an updater that
\* raised the count fills them (initBehaviors, updateBehaviors).
EntriesFilled ==
    \A b \in Counted :
        count[b] > filled[b] =>
            \E u \in Updaters : updater[u].at = "fill" /\ updater[u].target = b

\* The count of an active behaviour, the bound of the loop that plays it, does
\* not change, unless a START or a page of a behaviour came between the steps
\* of an updater: the loop on the copy misses what happened since it was made.
CountKeptWhileActive ==
    [][\A b \in Kinds : active[b] /\ active'[b] /\ count'[b] # count[b] => met]_vars

\* An updater waits forever only if the copy is active again and again, whatever
\* the behaviours themselves do (the loop of updateBehaviors).
WaitingNeedsActiveCopy ==
    \A u \in Updaters :
        <>[](updater[u].at = "waiting") => []<>(copy.active \/ panicked)
=============================================================================
