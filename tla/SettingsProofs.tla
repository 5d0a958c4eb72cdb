---------------------------- MODULE SettingsProofs ----------------------------
(***************************************************************************)
(* Theorems about Settings, for any number of updaters and taps and for    *)
(* any width of the counts.                                                *)
(***************************************************************************)
EXTENDS Settings, TLAPS

(* A new updater is one that was not alive. *)
LEMMA CreateFresh ==
    ASSUME NEW u \in Updaters, CreateUpdater(u)
    PROVE  ~Alive(u)
<1>1. \E v \in Updaters : ~Alive(v)
  BY DEF CreateUpdater
<1>2. u = CHOOSE v \in Updaters : ~Alive(v)
  BY DEF CreateUpdater
<1> QED
  BY <1>1, <1>2, Zenon

LEMMA NarrowType ==
    ASSUME NEW n \in Nat
    PROVE  Narrow(n) \in 0..(U8 - 1)
  BY SettingsAssumption DEF Narrow

(* ------------------------------------------------------------------------ *)
(* Types.                                                                   *)

LEMMA TypeInit == Init => TypeOK
<1> SUFFICES ASSUME Init PROVE TypeOK
  OBVIOUS
<1>1. /\ FreshCount(StartCount) \in [Kinds -> 0..(U8 - 1)]
      /\ FreshFilled(StartCount) \in [Kinds -> 0..(U8 - 1)]
  BY SettingsAssumption, NarrowType DEF FreshCount, FreshFilled
<1> QED
  BY <1>1, SettingsAssumption DEF Init, TypeOK, NoUpdater, Updater, Kinds, Tests

LEMMA TypeNext ==
    ASSUME TypeOK, [Next]_vars
    PROVE  TypeOK'
<1> USE DEF TypeOK
<1>1. ASSUME NEW s \in {"behavior", "settings"}, NEW b \in Kinds, Open(s, b)
      PROVE  TypeOK'
  <2>1. left' \subseteq Kinds
    BY <1>1 DEF Open, Updater
  <2> QED
    BY <1>1, <2>1 DEF Open, Tapped, behaviorVars, taskVars
<1>2. ASSUME LeavePages PROVE TypeOK'
  BY <1>2 DEF LeavePages, behaviorVars, taskVars
<1>3. ASSUME Start PROVE TypeOK'
  BY <1>3 DEF Start, Tapped, taskVars
<1>4. ASSUME NEW b \in Kinds, Stop(b) PROVE TypeOK'
  BY <1>4 DEF Stop, taskVars
<1>5. ASSUME NEW u \in Updaters, CreateUpdater(u) PROVE TypeOK'
  <2>1. updater' \in [Updaters -> Updater]
    BY <1>5 DEF CreateUpdater, Updater, NoUpdater, Kinds, Counted
  <2> QED
    BY <1>5, <2>1 DEF CreateUpdater, behaviorVars
<1>6. ASSUME NEW b \in Counted, IncrementCount(b) \/ DecrementCount(b) PROVE TypeOK'
  <2>1. setting' \in [Kinds -> Nat \ {0}]
    BY <1>6, SettingsAssumption DEF IncrementCount, DecrementCount, Counted, Kinds
  <2>2. TapCount(b)
    BY <1>6 DEF IncrementCount, DecrementCount
  <2> QED
    BY <2>1, <2>2 DEF TapCount, behaviorVars, taskVars
<1>7. ASSUME Refresh PROVE TypeOK'
  <2>1. /\ FreshCount(setting) \in [Kinds -> 0..(U8 - 1)]
        /\ FreshFilled(setting) \in [Kinds -> 0..(U8 - 1)]
        /\ Narrow(StartCount["party"]) \in 0..(U8 - 1)
    BY SettingsAssumption, NarrowType DEF FreshCount, FreshFilled, Kinds
  <2>2. count' \in [Kinds -> 0..(U8 - 1)]
    BY <1>7, <2>1 DEF Refresh
  <2> QED
    BY <1>7, <2>1, <2>2 DEF Refresh, Tapped, taskVars
<1>8. ASSUME NEW u \in Updaters, TestActive(u) PROVE TypeOK'
  BY <1>8 DEF TestActive, Goes, Updater, behaviorVars, Tests
<1>9. ASSUME NEW u \in Updaters, TestKind(u) PROVE TypeOK'
  <2>1. updater' \in [Updaters -> Updater]
    BY <1>9 DEF TestKind, Updater, Tests, NextTest, NoUpdater, Kinds
  <2> QED
    BY <1>9, <2>1 DEF TestKind, behaviorVars
<1>10. ASSUME NEW u \in Updaters, WriteCount(u) PROVE TypeOK'
  <2>1. updater[u].target \in Kinds /\ Narrow(updater[u].value) \in 0..(U8 - 1)
    BY NarrowType DEF Updater
  <2>2. updater' \in [Updaters -> Updater]
    BY <1>10 DEF WriteCount, Finish, Updater, NoUpdater, Kinds, Tests
  <2> QED
    BY <1>10, <2>1, <2>2 DEF WriteCount
<1>11. ASSUME NEW u \in Updaters, FillEntries(u) PROVE TypeOK'
  <2>1. updater' \in [Updaters -> Updater]
    BY <1>11 DEF FillEntries, Finish, Updater, NoUpdater, Kinds, Tests
  <2>2. updater[u].target \in Kinds
    BY DEF Updater
  <2> QED
    BY <1>11, <2>1, <2>2 DEF FillEntries
<1>12. ASSUME NEW u \in Updaters, Delete(u) PROVE TypeOK'
  <2>1. updater' \in [Updaters -> Updater]
    BY <1>12 DEF Delete, Updater, NoUpdater, Kinds, Tests
  <2> QED
    BY <1>12, <2>1 DEF Delete, behaviorVars
<1>13. ASSUME UNCHANGED vars PROVE TypeOK'
  BY <1>13 DEF vars, behaviorVars, taskVars
<1> QED
  BY <1>1, <1>2, <1>3, <1>4, <1>5, <1>6, <1>7, <1>8, <1>9, <1>10, <1>11, <1>12, <1>13
  DEF Next, Touch, UpdaterStep, OpenBehavior, OpenSettings, Stopped

(* Every variable keeps its type: the settings stay positive, the counts    *)
(* fit a byte (the handlers of the counts, updateBehaviors).                *)
THEOREM TypeCorrect == Spec => []TypeOK
  BY TypeInit, TypeNext, PTL DEF Spec

(* ------------------------------------------------------------------------ *)
(* A test either decides, gives up after the last kind, or goes on.         *)

\* What a step makes of the record of an updater.
LEMMA Updated ==
    ASSUME TypeOK, NEW u \in Updaters, NEW X, updater' = [updater EXCEPT ![u] = X]
    PROVE  updater'[u] = X /\ \A v \in Updaters \ {u} : updater'[v] = updater[v]
  BY DEF TypeOK

LEMMA UpdaterFields ==
    ASSUME TypeOK, NEW u \in Updaters
    PROVE  /\ updater[u] \in Updater
           /\ updater[u].from \in Kinds /\ updater[u].target \in Kinds
           /\ updater[u].value \in Nat
           /\ updater[u] = [at |-> updater[u].at, from |-> updater[u].from,
                            target |-> updater[u].target, value |-> updater[u].value]
  BY DEF TypeOK, Updater

LEMMA TestKindStep ==
    ASSUME TypeOK, NEW u \in Updaters, TestKind(u)
    PROVE  /\ updater[u].at \in Tests
           /\ \A v \in Updaters \ {u} : updater'[v] = updater[v]
           /\ updater'[u].at = IF copy.kind = updater[u].at THEN "write"
                               ELSE IF updater[u].at = "party" THEN "delete"
                               ELSE NextTest(updater[u].at)
           /\ copy.kind = updater[u].at =>
                 /\ updater'[u].from = updater[u].from
                 /\ updater'[u].target = updater[u].at
                 /\ updater'[u].value =
                       setting[IF updater[u].at = "alarm" THEN updater[u].at ELSE "training"]
           /\ copy.kind # updater[u].at /\ updater[u].at # "party" =>
                 updater'[u].from = updater[u].from
<1> DEFINE k == updater[u].at
           X == IF copy.kind = k
                THEN [at |-> "write", from |-> updater[u].from, target |-> k,
                      value |-> setting[IF k = "alarm" THEN k ELSE "training"]]
                ELSE IF k = "party" THEN [NoUpdater EXCEPT !.at = "delete"]
                ELSE [updater[u] EXCEPT !.at = NextTest(k)]
<1>1. updater' = [updater EXCEPT ![u] = X] /\ k \in Tests
  BY DEF TestKind
<1> HIDE DEF X
<1>2. updater'[u] = X /\ \A v \in Updaters \ {u} : updater'[v] = updater[v]
  BY <1>1, Updated
<1>3. CASE copy.kind = k
  BY <1>1, <1>2, <1>3 DEF X
<1>4. CASE copy.kind # k /\ k = "party"
  BY <1>1, <1>2, <1>4 DEF X, NoUpdater
<1>5. CASE copy.kind # k /\ k # "party"
  <2>1. X = [updater[u] EXCEPT !.at = NextTest(k)]
    BY <1>5 DEF X
  <2>2. X.at = NextTest(k) /\ X.from = updater[u].from
    BY <2>1, UpdaterFields
  <2> QED
    BY <1>1, <1>2, <1>5, <2>2
<1> QED
  BY <1>3, <1>4, <1>5

LEMMA TestActiveStep ==
    ASSUME TypeOK, NEW u \in Updaters, TestActive(u)
    PROVE  /\ updater[u].at = "waiting" /\ updater'[u].at = "alarm"
           /\ updater'[u].from = updater[u].from
           /\ \A v \in Updaters \ {u} : updater'[v] = updater[v]
<1>1. updater' = [updater EXCEPT ![u].at = "alarm"] /\ updater[u].at = "waiting"
  BY DEF TestActive, Goes
<1> QED
  BY <1>1, UpdaterFields DEF TypeOK

\* After the write, and after the filling, only the target is kept.
LEMMA FinishStep ==
    ASSUME TypeOK, NEW u \in Updaters, NEW w, Finish(u, w)
    PROVE  /\ updater'[u].at = w
           /\ w = "fill" => updater'[u].target = updater[u].target
           /\ \A v \in Updaters \ {u} : updater'[v] = updater[v]
<1> DEFINE X == [at |-> w, from |-> "party",
                 target |-> IF w = "fill" THEN updater[u].target ELSE "party", value |-> 0]
<1>1. updater' = [updater EXCEPT ![u] = X]
  BY DEF Finish
<1> QED
  BY <1>1 DEF TypeOK

LEMMA WriteStep ==
    ASSUME TypeOK, NEW u \in Updaters, WriteCount(u)
    PROVE  /\ updater[u].at = "write"
           /\ updater'[u].at = IF updater[u].target = "party" THEN "delete" ELSE "fill"
           /\ updater'[u].at = "fill" => updater'[u].target = updater[u].target
           /\ \A v \in Updaters \ {u} : updater'[v] = updater[v]
  BY FinishStep DEF WriteCount

LEMMA FillStep ==
    ASSUME TypeOK, NEW u \in Updaters, FillEntries(u)
    PROVE  /\ updater[u].at = "fill" /\ updater'[u].at = "delete"
           /\ \A v \in Updaters \ {u} : updater'[v] = updater[v]
  BY FinishStep DEF FillEntries

LEMMA DeleteStep ==
    ASSUME TypeOK, NEW u \in Updaters, Delete(u)
    PROVE  /\ updater[u].at = "delete"
           /\ \/ handle = u /\ updater'[u].at = "none"
              \/ handle # u /\ panicked' /\ UNCHANGED <<updater, handle>>
           /\ \A v \in Updaters \ {u} : updater'[v] = updater[v]
  BY DEF Delete, NoUpdater, TypeOK

(* ------------------------------------------------------------------------ *)
(* The one handle.  As long as no two updaters met, the handle is that of   *)
(* the one that lives; once they met, one lives that the handle is not of.  *)

HandleInv ==
    /\ panicked => overlapped
    /\ ~overlapped => \A u \in Updaters : Alive(u) => handle = u
    /\ overlapped => \E v \in Updaters : Alive(v) /\ v # handle

LEMMA HandleInit == Init => HandleInv
  BY DEF Init, HandleInv, Alive, NoUpdater

\* A step of an updater that lives on, and steps of no updater, keep it.
LEMMA HandleKept ==
    ASSUME HandleInv, UNCHANGED <<handle, overlapped, panicked>>,
           \A u \in Updaters : Alive(u)' <=> Alive(u)
    PROVE  HandleInv'
  BY DEF HandleInv

LEMMA HandleNext ==
    ASSUME TypeOK, HandleInv, [Next]_vars
    PROVE  HandleInv'
<1>1. ASSUME NEW u \in Updaters, CreateUpdater(u) PROVE HandleInv'
  <2>1. /\ ~Alive(u) /\ Alive(u)' /\ handle' = u
        /\ \A v \in Updaters \ {u} : Alive(v)' <=> Alive(v)
        /\ overlapped' <=> overlapped \/ \E v \in Updaters : Alive(v)
    BY <1>1, CreateFresh DEF CreateUpdater, Alive, TypeOK, NoUpdater
  <2>2. ~overlapped' => \A v \in Updaters : Alive(v)' => handle' = v
    BY <2>1
  <2>3. overlapped' => \E v \in Updaters : Alive(v)' /\ v # handle'
    BY <2>1 DEF HandleInv
  <2> QED
    BY <1>1, <2>1, <2>2, <2>3 DEF HandleInv, CreateUpdater
<1>2. ASSUME NEW u \in Updaters, Delete(u) PROVE HandleInv'
  <2>1. Alive(u) /\ UNCHANGED overlapped
    BY <1>2 DEF Delete, Alive
  <2>2. CASE handle = u
    <3>1. /\ handle' = "none" /\ UNCHANGED panicked /\ ~Alive(u)'
          /\ \A v \in Updaters \ {u} : Alive(v)' <=> Alive(v)
      BY <1>2, <2>2 DEF Delete, Alive, TypeOK, NoUpdater
    <3>2. "none" \notin Updaters
      BY SettingsAssumption
    <3> QED
      BY <2>1, <2>2, <3>1, <3>2 DEF HandleInv
  <2>3. CASE handle # u
    <3>1. panicked' /\ UNCHANGED <<updater, handle>>
      BY <1>2, <2>3 DEF Delete
    <3>2. overlapped
      BY <2>1, <2>3 DEF HandleInv
    <3> QED
      BY <2>1, <3>1, <3>2 DEF HandleInv, Alive
  <2> QED
    BY <2>2, <2>3
<1>3. ASSUME NEW u \in Updaters, TestActive(u) \/ TestKind(u) \/ WriteCount(u) \/ FillEntries(u)
      PROVE  HandleInv'
  <2>1. UNCHANGED <<handle, overlapped, panicked>>
    BY <1>3 DEF TestActive, TestKind, WriteCount, FillEntries
  <2>2. /\ \A v \in Updaters \ {u} : updater'[v] = updater[v]
        /\ updater[u].at # "none" /\ updater'[u].at # "none"
    BY <1>3, TestActiveStep, TestKindStep, WriteStep, FillStep DEF NextTest, Tests
  <2> QED
    BY <2>1, <2>2, HandleKept DEF Alive
<1>4. ASSUME UNCHANGED <<updater, handle, overlapped, panicked>> PROVE HandleInv'
  BY <1>4, HandleKept DEF Alive
<1>5. CASE Touch
  <2>1. ASSUME OpenBehavior \/ OpenSettings \/ LeavePages \/ Start \/ Refresh
                 \/ (\E b \in Kinds : Stop(b))
                 \/ (\E b \in Counted : IncrementCount(b) \/ DecrementCount(b))
        PROVE  UNCHANGED <<updater, handle, overlapped, panicked>>
    BY <2>1 DEF OpenBehavior, OpenSettings, Open, LeavePages, Start, Refresh, Stop, IncrementCount,
                DecrementCount, TapCount, taskVars
  <2> QED
    BY <1>1, <1>4, <1>5, <2>1 DEF Touch
<1>6. CASE UNCHANGED vars
  BY <1>4, <1>6 DEF vars, taskVars
<1> QED
  BY <1>2, <1>3, <1>5, <1>6 DEF Next, UpdaterStep, Stopped

(* The shared handle kills the program exactly if two updaters were alive   *)
(* at the same time (vTaskDelete in updateBehaviors).                       *)
THEOREM OverlapSafe == Spec => []OverlapPanics
<1>1. Init => TypeOK /\ HandleInv
  BY TypeInit, HandleInit
<1>2. TypeOK /\ HandleInv /\ [Next]_vars => (TypeOK /\ HandleInv)'
  BY TypeNext, HandleNext
<1>3. TypeOK /\ HandleInv => OverlapPanics
  BY DEF HandleInv, OverlapPanics
<1> QED
  BY <1>1, <1>2, <1>3, PTL DEF Spec

(* ------------------------------------------------------------------------ *)
(* The entries.                                                             *)

LEMMA FilledInit == Init => EntriesFilled
<1> SUFFICES ASSUME Init PROVE EntriesFilled
  OBVIOUS
<1>1. \A b \in Counted : count[b] = filled[b] /\ count[b] \in Nat
  BY SettingsAssumption, NarrowType DEF Init, FreshCount, FreshFilled, Counted, Kinds
<1> QED
  BY <1>1 DEF EntriesFilled

\* An updater that fills goes on to fill.
Filling(b) == \E u \in Updaters : updater[u].at = "fill" /\ updater[u].target = b

LEMMA FilledKept ==
    ASSUME EntriesFilled, UNCHANGED <<count, filled>>,
           \A b \in Counted : Filling(b) => Filling(b)'
    PROVE  EntriesFilled'
  BY DEF EntriesFilled, Filling

LEMMA FilledNext ==
    ASSUME TypeOK, EntriesFilled, [Next]_vars
    PROVE  EntriesFilled'
<1>1. ASSUME NEW u \in Updaters, WriteCount(u) PROVE EntriesFilled'
  <2>1. /\ updater'[u].at = IF updater[u].target = "party" THEN "delete" ELSE "fill"
        /\ updater'[u].at = "fill" => updater'[u].target = updater[u].target
        /\ \A v \in Updaters \ {u} : updater'[v] = updater[v]
        /\ updater[u].at # "fill"
    BY <1>1, WriteStep
  <2>2. /\ UNCHANGED filled
        /\ \A b \in Kinds : b # updater[u].target => count'[b] = count[b]
    BY <1>1 DEF WriteCount, TypeOK
  <2> SUFFICES ASSUME NEW b \in Counted, count'[b] > filled'[b]
               PROVE  \E v \in Updaters : updater'[v].at = "fill" /\ updater'[v].target = b
    BY DEF EntriesFilled
  <2>3. CASE b = updater[u].target
    BY <2>1, <2>3 DEF Counted
  <2>4. CASE b # updater[u].target
    BY <2>1, <2>2, <2>4 DEF EntriesFilled, Counted, Kinds
  <2> QED
    BY <2>3, <2>4
<1>2. ASSUME NEW u \in Updaters, FillEntries(u) PROVE EntriesFilled'
  <2> DEFINE t == updater[u].target
  <2>1. /\ \A v \in Updaters \ {u} : updater'[v] = updater[v]
        /\ UNCHANGED count /\ t \in Kinds
        /\ filled' = [filled EXCEPT ![t] = IF @ >= count[t] THEN @ ELSE count[t]]
    BY <1>2 DEF FillEntries, Finish, TypeOK, Updater
  <2>2. \A b \in Kinds : count[b] \in Int /\ filled[b] \in Int
    BY DEF TypeOK
  <2>3. /\ filled'[t] >= count[t]
        /\ \A b \in Kinds : b # t => filled'[b] = filled[b]
    BY <2>1, <2>2 DEF TypeOK
  <2> SUFFICES ASSUME NEW b \in Counted, count'[b] > filled'[b]
               PROVE  \E v \in Updaters : updater'[v].at = "fill" /\ updater'[v].target = b
    BY DEF EntriesFilled
  <2>4. b \in Kinds /\ b # t
    BY <2>1, <2>2, <2>3 DEF Counted, Kinds, TypeOK
  <2>5. PICK v \in Updaters : updater[v].at = "fill" /\ updater[v].target = b
    BY <2>1, <2>3, <2>4 DEF EntriesFilled
  <2> QED
    BY <2>1, <2>4, <2>5
<1>3. ASSUME NEW u \in Updaters, Delete(u) \/ TestActive(u) \/ TestKind(u) PROVE EntriesFilled'
  <2>1. /\ UNCHANGED <<count, filled>> /\ updater[u].at # "fill"
        /\ \A v \in Updaters \ {u} : updater'[v] = updater[v]
    BY <1>3 DEF Delete, TestActive, TestKind, Goes, behaviorVars, Tests, TypeOK
  <2> QED
    BY <2>1, FilledKept DEF Filling
<1>4. ASSUME NEW u \in Updaters, CreateUpdater(u) PROVE EntriesFilled'
  <2>1. /\ UNCHANGED <<count, filled>> /\ updater[u].at # "fill"
        /\ \A v \in Updaters \ {u} : updater'[v] = updater[v]
    BY <1>4, CreateFresh DEF CreateUpdater, Alive, behaviorVars, TypeOK
  <2> QED
    BY <2>1, FilledKept DEF Filling
<1>5. ASSUME Refresh PROVE EntriesFilled'
  <2>1. \A b \in Counted : count'[b] = filled'[b] /\ count'[b] \in Nat
    BY <1>5, NarrowType DEF Refresh, FreshCount, FreshFilled, Counted, Kinds, TypeOK
  <2> QED
    BY <2>1 DEF EntriesFilled
<1>6. ASSUME UNCHANGED <<count, filled, updater>> PROVE EntriesFilled'
  BY <1>6, FilledKept DEF Filling
<1>7. CASE Touch
  BY <1>4, <1>5, <1>6, <1>7
  DEF Touch, OpenBehavior, OpenSettings, Open, LeavePages, Start, Stop, IncrementCount,
      DecrementCount, TapCount, taskVars, behaviorVars
<1>8. CASE UNCHANGED vars
  BY <1>6, <1>8 DEF vars, behaviorVars, taskVars
<1> QED
  BY <1>1, <1>2, <1>3, <1>7, <1>8 DEF Next, UpdaterStep, Stopped

(* entries[] are filled up to entriesCount, however many updaters and       *)
(* refreshes meet (initBehaviors, updateBehaviors).                         *)
THEOREM FilledSafe == Spec => []EntriesFilled
  BY TypeInit, TypeNext, FilledInit, FilledNext, PTL DEF Spec

(* ------------------------------------------------------------------------ *)
(* The counts.  While no two updaters met, one that has not decided what to *)
(* write works for a behaviour that was left, or the copy is of that        *)
(* behaviour and its test is still to come; one that has decided has the    *)
(* setting, and the behaviour it worked for is accounted for.  A handler    *)
(* that draws has changed a setting already: it is of the copy's behaviour. *)

Follows(b) == count[b] = Narrow(setting[b])
Draws(b) == handler = b
Works(b) == \E u \in Updaters :
    (Undecided(u) \/ updater[u].at = "write") /\ updater[u].from = b

UndecidedOK(u) ==
    Undecided(u) =>
        /\ updater[u].from \in Counted
        /\ \/ updater[u].from \in left
           \/ /\ copy.kind = updater[u].from
              /\ \/ updater[u].at \in {"waiting", "alarm"}
                 \/ updater[u].at = "training" /\ updater[u].from = "training"
WriteOK(u) ==
    updater[u].at = "write" =>
        /\ updater[u].from \in Counted
        /\ \/ updater[u].target = "party" \/ Draws(updater[u].target)
           \/ updater[u].value = setting[updater[u].target]
        /\ \/ updater[u].from = updater[u].target
           \/ updater[u].from \in left \/ Follows(updater[u].from) \/ Draws(updater[u].from)

FollowInv ==
    /\ handler # "none" => copy.kind = handler
    /\ ~overlapped =>
        /\ \A u \in Updaters : UndecidedOK(u) /\ WriteOK(u)
        /\ \A b \in Counted : Follows(b) \/ Draws(b) \/ b \in left \/ Works(b)

LEMMA FollowInit == Init => FollowInv
<1> SUFFICES ASSUME Init PROVE FollowInv
  OBVIOUS
<1>1. \A b \in Counted : Follows(b)
  BY DEF Init, Follows, FreshCount, Counted, Kinds
<1>2. \A u \in Updaters : updater[u].at = "none"
  BY DEF Init, NoUpdater
<1> QED
  BY <1>1, <1>2 DEF Init, FollowInv, UndecidedOK, WriteOK, Undecided, Tests

\* Only one updater lives as long as no two met.
LEMMA Alone ==
    ASSUME HandleInv, ~overlapped, NEW u \in Updaters, Alive(u)
    PROVE  \A v \in Updaters \ {u} : updater[v].at = "none"
  BY DEF HandleInv, Alive

\* Steps that touch neither counts nor settings nor updaters.
LEMMA FollowKept ==
    ASSUME FollowInv, UNCHANGED <<handler, updater, overlapped, setting>>,
           handler # "none" => copy' = copy,
           count' = count, left \subseteq left',
           \A u \in Updaters : ~overlapped /\ Undecided(u) =>
              updater[u].from \in left' \/ copy.kind' = copy.kind
    PROVE  FollowInv'
<1> SUFFICES ASSUME ~overlapped' PROVE FollowInv'
  BY DEF FollowInv
<1>1. /\ \A u \in Updaters : UndecidedOK(u) /\ WriteOK(u)
      /\ \A b \in Counted : Follows(b) \/ Draws(b) \/ b \in left \/ Works(b)
  BY DEF FollowInv
<1>2. \A u \in Updaters : UndecidedOK(u)'
  BY <1>1 DEF UndecidedOK, Undecided
<1>3. \A u \in Updaters : WriteOK(u)'
  BY <1>1 DEF WriteOK, Follows, Draws
<1>4. \A b \in Counted : Follows(b)' \/ Draws(b)' \/ b \in left' \/ Works(b)'
  BY <1>1 DEF Follows, Draws, Works, Undecided
<1> QED
  BY <1>2, <1>3, <1>4 DEF FollowInv

LEMMA FollowTouch ==
    ASSUME TypeOK, HandleInv, FollowInv, Touch
    PROVE  FollowInv'
<1>1. ASSUME NEW s \in {"behavior", "settings"}, NEW b \in Kinds, Open(s, b) PROVE FollowInv'
  <2>1. /\ UNCHANGED <<handler, updater, overlapped, setting, count>> /\ left \subseteq left'
        /\ handler = "none"
    BY <1>1 DEF Open, Tapped, taskVars, behaviorVars
  <2>2. \A u \in Updaters : ~overlapped /\ Undecided(u) =>
              updater[u].from \in left' \/ copy.kind' = copy.kind
    <3> SUFFICES ASSUME NEW u \in Updaters, ~overlapped, Undecided(u),
                        updater[u].from \notin left'
                 PROVE  copy.kind' = copy.kind
      OBVIOUS
    <3>1. updater[u].from = b /\ copy.kind' = b
      BY <1>1 DEF Open
    <3> QED
      BY <2>1, <3>1 DEF FollowInv, UndecidedOK
  <2> QED
    BY <2>1, <2>2, FollowKept
<1>2. ASSUME LeavePages \/ Start \/ \E b \in Kinds : Stop(b) PROVE FollowInv'
  <2>1. UNCHANGED <<handler, updater, overlapped, setting, count, left, copy>>
    BY <1>2 DEF LeavePages, Start, Stop, Tapped, taskVars, behaviorVars
  <2> QED
    BY <2>1, FollowKept
<1>3. ASSUME NEW b \in Counted, IncrementCount(b) \/ DecrementCount(b) PROVE FollowInv'
  <2>1. /\ TapCount(b)
        /\ \A c \in Kinds \ {b} : setting'[c] = setting[c]
    BY <1>3 DEF IncrementCount, DecrementCount, TypeOK
  <2>2. /\ handler = "none" /\ handler' = b /\ copy'.kind = b
        /\ UNCHANGED <<updater, overlapped, count, left, copy>>
    BY <2>1 DEF TapCount, taskVars, behaviorVars
  <2> SUFFICES ASSUME ~overlapped
               PROVE  /\ \A u \in Updaters : UndecidedOK(u)' /\ WriteOK(u)'
                      /\ \A c \in Counted : Follows(c)' \/ Draws(c)' \/ c \in left' \/ Works(c)'
    BY <2>2 DEF FollowInv
  <2>3. /\ \A u \in Updaters : UndecidedOK(u) /\ WriteOK(u)
        /\ \A c \in Counted : Follows(c) \/ c \in left \/ Works(c)
    BY <2>2 DEF FollowInv, Draws, Counted
  <2>4. \A u \in Updaters : UndecidedOK(u)'
    BY <2>2, <2>3 DEF UndecidedOK, Undecided
  <2>5. ASSUME NEW u \in Updaters PROVE WriteOK(u)'
    <3>1. updater[u].target \in Kinds /\ updater[u].from \in Kinds
      BY UpdaterFields
    <3>2. /\ updater[u].from \in Kinds \ {b} => (Follows(updater[u].from)' <=> Follows(updater[u].from))
          /\ ~Draws(updater[u].from) /\ ~Draws(updater[u].target)
      BY <2>1, <2>2, <3>1 DEF Follows, Draws, Kinds
    <3> QED
      BY <2>1, <2>2, <2>3, <3>1, <3>2 DEF WriteOK, Draws
  <2>6. \A c \in Counted : Follows(c)' \/ Draws(c)' \/ c \in left' \/ Works(c)'
    BY <2>1, <2>2, <2>3 DEF Follows, Draws, Works, Undecided, Counted, Kinds
  <2> QED
    BY <2>4, <2>5, <2>6
<1>4. ASSUME NEW u \in Updaters, CreateUpdater(u) PROVE FollowInv'
  <2>1. handler # "none" /\ handler' = "none" /\ copy.kind = handler /\ handler \in Counted
    BY <1>4 DEF CreateUpdater, FollowInv, TypeOK
  <2> SUFFICES ASSUME ~overlapped' PROVE FollowInv'
    BY <2>1 DEF FollowInv
  <2>2. \A v \in Updaters : updater[v].at = "none"
    BY <1>4 DEF CreateUpdater, Alive
  <2>3. /\ ~overlapped /\ UNCHANGED <<setting, count, left, copy>>
        /\ updater'[u].at = "waiting" /\ updater'[u].from = handler
        /\ \A v \in Updaters \ {u} : updater'[v] = updater[v]
    BY <1>4 DEF CreateUpdater, behaviorVars, TypeOK, NoUpdater
  <2>4. ASSUME NEW v \in Updaters PROVE UndecidedOK(v)' /\ WriteOK(v)'
    <3>1. CASE v = u
      <4>1. /\ updater'[v].at = "waiting" /\ updater'[v].from = handler
            /\ copy'.kind = handler
        BY <2>1, <2>3, <3>1
      <4>2. UndecidedOK(v)'
        BY <2>1, <4>1 DEF UndecidedOK
      <4>3. WriteOK(v)'
        BY <4>1 DEF WriteOK
      <4> QED
        BY <4>2, <4>3
    <3>2. CASE v # u
      BY <2>2, <2>3, <3>2 DEF UndecidedOK, WriteOK, Undecided, Tests
    <3> QED
      BY <3>1, <3>2
  <2>5. \A c \in Counted : Follows(c) \/ Draws(c) \/ c \in left
    BY <2>2, <2>3 DEF FollowInv, Works, Undecided, Tests
  <2>6. \A c \in Counted : Follows(c)' \/ Draws(c)' \/ c \in left' \/ Works(c)'
    BY <2>3, <2>5 DEF Follows, Draws, Works, Undecided
  <2> QED
    BY <2>1, <2>4, <2>6 DEF FollowInv
<1>5. ASSUME Refresh PROVE FollowInv'
  <2> SUFFICES ASSUME ~overlapped' PROVE FollowInv'
    BY <1>5 DEF FollowInv, Refresh, Tapped
  <2>1. ~overlapped /\ UNCHANGED <<handler, updater, setting, copy>>
    BY <1>5 DEF Refresh, Tapped, taskVars
  <2>2. \A c \in Counted : Follows(c)'
    BY <1>5 DEF Refresh, Follows, FreshCount, Counted, Kinds
  <2>3. \A v \in Updaters : UndecidedOK(v) /\ WriteOK(v)
    BY <2>1 DEF FollowInv
  <2>4. \A v \in Updaters : Undecided(v) /\ updater[v].from \in left => updater[v].from \in left'
    BY <1>5 DEF Refresh
  <2>5. \A v \in Updaters : UndecidedOK(v)'
    BY <2>1, <2>3, <2>4 DEF UndecidedOK, Undecided
  <2>6. \A v \in Updaters : WriteOK(v)'
    BY <2>1, <2>2, <2>3 DEF WriteOK, Draws
  <2> QED
    BY <2>1, <2>2, <2>5, <2>6 DEF FollowInv
<1> QED
  BY <1>1, <1>2, <1>3, <1>4, <1>5 DEF Touch, OpenBehavior, OpenSettings, TypeOK

LEMMA FollowUpdater ==
    ASSUME TypeOK, HandleInv, FollowInv, ~overlapped',
           NEW u \in Updaters, UpdaterStep(u)
    PROVE  FollowInv'
<1>1. /\ ~overlapped /\ UNCHANGED <<handler, setting, copy>> /\ Alive(u)
  BY DEF UpdaterStep, TestActive, TestKind, WriteCount, FillEntries, Delete, Alive, Tests
<1>2. \A v \in Updaters \ {u} : updater[v].at = "none" /\ updater'[v] = updater[v]
  <2>1. \A v \in Updaters \ {u} : updater[v].at = "none"
    BY <1>1, Alone
  <2>2. \A v \in Updaters \ {u} : updater'[v] = updater[v]
    BY TestActiveStep, TestKindStep, WriteStep, FillStep, DeleteStep DEF UpdaterStep
  <2> QED
    BY <2>1, <2>2
<1>3. \A v \in Updaters \ {u} : UndecidedOK(v)' /\ WriteOK(v)'
  BY <1>2 DEF UndecidedOK, WriteOK, Undecided, Tests
<1>4. /\ UndecidedOK(u) /\ WriteOK(u)
      /\ \A b \in Counted : Follows(b) \/ Draws(b) \/ b \in left
            \/ ((Undecided(u) \/ updater[u].at = "write") /\ updater[u].from = b)
  BY <1>1, <1>2 DEF FollowInv, Works, Undecided, Tests
<1>5. SUFFICES /\ UndecidedOK(u)' /\ WriteOK(u)'
               /\ \A b \in Counted : Follows(b)' \/ Draws(b)' \/ b \in left' \/ Works(b)'
  BY <1>1, <1>3 DEF FollowInv
<1>6. CASE TestActive(u)
  <2>1. /\ updater'[u].at = "alarm" /\ updater'[u].from = updater[u].from
        /\ updater[u].at = "waiting" /\ UNCHANGED <<count, left>>
    BY <1>6, TestActiveStep DEF TestActive, behaviorVars
  <2>2. UndecidedOK(u)' /\ WriteOK(u)'
    BY <1>1, <1>4, <2>1 DEF UndecidedOK, WriteOK, Draws, Undecided, Tests
  <2>3. \A b \in Counted : Follows(b)' \/ Draws(b)' \/ b \in left' \/ Works(b)'
    BY <1>1, <1>4, <2>1 DEF Follows, Draws, Works, Undecided, Tests
  <2> QED
    BY <2>2, <2>3
<1>7. CASE TestKind(u)
  <2> DEFINE k == updater[u].at
  <2>1. UNCHANGED <<count, left>> /\ k \in Tests /\ Undecided(u)
    BY <1>7 DEF TestKind, behaviorVars, Undecided
  <2>2. CASE copy.kind = k
    <3>1. /\ updater'[u].at = "write" /\ updater'[u].from = updater[u].from
          /\ updater'[u].target = k
          /\ updater'[u].value = setting[IF k = "alarm" THEN k ELSE "training"]
      BY <1>7, <2>2, TestKindStep
    <3>2. UndecidedOK(u)'
      BY <3>1 DEF UndecidedOK, Undecided, Tests
    <3>3. WriteOK(u)'
      BY <1>1, <1>4, <2>1, <2>2, <3>1 DEF UndecidedOK, WriteOK, Draws, Tests
    <3>4. \A b \in Counted : Follows(b)' \/ Draws(b)' \/ b \in left' \/ Works(b)'
      BY <1>1, <1>4, <2>1, <3>1 DEF Follows, Draws, Works
    <3> QED
      BY <3>2, <3>3, <3>4
  <2>3. CASE copy.kind # k /\ k = "party"
    <3>1. updater'[u].at = "delete"
      BY <1>7, <2>3, TestKindStep
    <3>2. updater[u].from \in left
      BY <1>4, <2>1, <2>3 DEF UndecidedOK
    <3>3. \A b \in Counted : Follows(b)' \/ Draws(b)' \/ b \in left'
      BY <1>1, <1>4, <2>1, <2>3, <3>2 DEF Follows, Draws
    <3> QED
      BY <3>1, <3>3 DEF UndecidedOK, WriteOK, Undecided, Tests
  <2>4. CASE copy.kind # k /\ k # "party"
    <3>1. updater'[u].at = NextTest(k) /\ updater'[u].from = updater[u].from
      BY <1>7, <2>4, TestKindStep
    <3>2. NextTest(k) = IF k = "alarm" THEN "training" ELSE "party"
      BY DEF NextTest
    <3>3. UndecidedOK(u)'
      BY <1>1, <1>4, <2>1, <2>4, <3>1, <3>2 DEF UndecidedOK, Undecided, Tests, Counted
    <3>4. WriteOK(u)'
      BY <3>1, <3>2 DEF WriteOK
    <3>5. \A b \in Counted : Follows(b)' \/ Draws(b)' \/ b \in left' \/ Works(b)'
      BY <1>1, <1>4, <2>1, <3>1, <3>2 DEF Follows, Draws, Works, Undecided, Tests
    <3> QED
      BY <3>3, <3>4, <3>5
  <2> QED
    BY <2>2, <2>3, <2>4
<1>8. CASE WriteCount(u)
  <2>0. PICK t \in Kinds : t = updater[u].target
    BY UpdaterFields
  <2>1. /\ updater[u].at = "write" /\ updater'[u].at \in {"fill", "delete"}
        /\ left' = left \ {t}
        /\ count' = [count EXCEPT ![t] = Narrow(updater[u].value)]
    <3>1. {v \in Updaters \ {u} : Undecided(v) /\ updater[v].from = t} = {}
      BY <1>2 DEF Undecided, Tests
    <3> QED
      BY <1>8, <2>0, <3>1, WriteStep DEF WriteCount
  <2>2. t # "party" => Follows(t)' \/ Draws(t)'
    <3>1. t # "party" => updater[u].value = setting[t] \/ Draws(t)
      BY <1>4, <2>0, <2>1 DEF WriteOK
    <3>2. count'[t] = Narrow(updater[u].value)
      BY <2>1 DEF TypeOK
    <3> QED
      BY <1>1, <3>1, <3>2 DEF Follows, Draws
  <2>3. \A b \in Counted : b # t => (Follows(b)' <=> Follows(b))
    BY <1>1, <2>1 DEF Follows, TypeOK, Counted, Kinds
  <2>4. UndecidedOK(u)' /\ WriteOK(u)'
    BY <2>1 DEF UndecidedOK, WriteOK, Undecided, Tests
  <2>5. ASSUME NEW b \in Counted PROVE Follows(b)' \/ Draws(b)' \/ b \in left'
    <3>1. CASE b = t
      BY <2>2, <3>1 DEF Counted
    <3>2. CASE b # t
      BY <1>1, <1>4, <2>0, <2>1, <2>3, <3>2 DEF WriteOK, Draws, Undecided, Tests
    <3> QED
      BY <3>1, <3>2
  <2> QED
    BY <2>4, <2>5
<1>9. CASE FillEntries(u) \/ Delete(u)
  <2>1. /\ updater[u].at \in {"fill", "delete"} /\ updater'[u].at \in {"delete", "none"}
        /\ UNCHANGED <<count, left>>
    <3>1. CASE FillEntries(u)
      BY <3>1, FillStep DEF FillEntries
    <3>2. CASE Delete(u)
      BY <3>2, DeleteStep DEF Delete, behaviorVars
    <3> QED
      BY <1>9, <3>1, <3>2
  <2>2. \A b \in Counted : Follows(b)' \/ Draws(b)' \/ b \in left'
    BY <1>1, <1>4, <2>1 DEF Follows, Draws, Undecided, Tests
  <2> QED
    BY <2>1, <2>2 DEF UndecidedOK, WriteOK, Undecided, Tests
<1> QED
  BY <1>5, <1>6, <1>7, <1>8, <1>9 DEF UpdaterStep

LEMMA FollowNext ==
    ASSUME TypeOK, HandleInv, FollowInv, [Next]_vars
    PROVE  FollowInv'
<1>1. CASE Touch
  BY <1>1, FollowTouch
<1>2. ASSUME NEW u \in Updaters, UpdaterStep(u) PROVE FollowInv'
  <2>1. CASE overlapped'
    <3>1. UNCHANGED <<handler, copy>>
      BY <1>2 DEF UpdaterStep, TestActive, TestKind, WriteCount, FillEntries, Delete
    <3> QED
      BY <2>1, <3>1 DEF FollowInv
  <2> QED
    BY <1>2, <2>1, FollowUpdater
<1>3. CASE UNCHANGED vars
  BY <1>3, FollowKept DEF vars, behaviorVars, taskVars
<1> QED
  BY <1>1, <1>2, <1>3 DEF Next, Stopped

(* A count is the setting, narrowed to a byte, whenever its handler does    *)
(* not draw and no updater works on it, unless another behaviour was opened *)
(* or two updaters overlapped (updateBehaviors; lastBehavior,               *)
(* blinkingLightsEntries, alarmEntries and their handlers).                 *)
THEOREM CountSafe == Spec => []CountFollowsSetting
<1>1. Init => TypeOK /\ HandleInv /\ FollowInv
  BY TypeInit, HandleInit, FollowInit
<1>2. TypeOK /\ HandleInv /\ FollowInv /\ [Next]_vars => (TypeOK /\ HandleInv /\ FollowInv)'
  BY TypeNext, HandleNext, FollowNext
<1>3. FollowInv => CountFollowsSetting
  BY DEF FollowInv, CountFollowsSetting, Follows, Draws, Works, Undecided, Alive, Tests
<1> QED
  BY <1>1, <1>2, <1>3, PTL DEF Spec

(* ------------------------------------------------------------------------ *)
(* The count of an active behaviour.  As long as no START and no page came  *)
(* between the steps of an updater, the copy it waits on is as active as    *)
(* the behaviour, and what it is about to write is not of an active one.    *)

CopyTrue == copy.kind \in Kinds /\ active[copy.kind] => copy.active
KeptFor(u) ==
    /\ updater[u].at = "waiting" => CopyTrue
    /\ updater[u].at \in Tests => (copy.kind \in Kinds => ~active[copy.kind])
    /\ updater[u].at = "write" => ~active[updater[u].target]
KeptInv ==
    /\ screen = "settings" \/ handler # "none" => CopyTrue
    /\ ~met => \A u \in Updaters : KeptFor(u)

LEMMA KeptInit == Init => KeptInv
  BY DEF Init, KeptInv, KeptFor, NoUpdater, Tests

\* An updater that keeps its record, while nothing is activated.
LEMMA KeptSame ==
    ASSUME TypeOK, NEW u \in Updaters, KeptFor(u), updater'[u] = updater[u], copy' = copy,
           \A b \in Kinds : active'[b] => active[b]
    PROVE  KeptFor(u)'
<1>1. updater[u].target \in Kinds
  BY UpdaterFields
<1> QED
  BY <1>1 DEF KeptFor, CopyTrue

LEMMA KeptNext ==
    ASSUME TypeOK, KeptInv, [Next]_vars
    PROVE  KeptInv'
<1>1. ASSUME NEW s \in {"behavior", "settings"}, NEW b \in Kinds, Open(s, b) PROVE KeptInv'
  <2>1. /\ UNCHANGED <<active, updater>> /\ copy' = [kind |-> b, active |-> active[b]]
        /\ ~met' => ~met /\ \A u \in Updaters : updater[u].at \notin Tests \cup {"write"}
    BY <1>1 DEF Open, behaviorVars, taskVars
  <2>2. CopyTrue'
    BY <2>1 DEF CopyTrue
  <2> QED
    BY <2>1, <2>2 DEF KeptInv, KeptFor
<1>2. ASSUME LeavePages \/ Refresh \/ \E b \in Kinds : Stop(b) PROVE KeptInv'
  <2>1. /\ UNCHANGED <<handler, updater, copy, met>> /\ screen' \in {screen, "other"}
        /\ \A b \in Kinds : active'[b] => active[b]
    BY <1>2 DEF LeavePages, Refresh, Stop, Tapped, behaviorVars, taskVars, TypeOK
  <2>2. screen' = "settings" \/ handler' # "none" => CopyTrue'
    BY <2>1 DEF KeptInv, CopyTrue
  <2>3. ~met' => \A u \in Updaters : KeptFor(u)'
    BY <2>1, KeptSame DEF KeptInv
  <2> QED
    BY <2>2, <2>3 DEF KeptInv
<1>3. ASSUME Start PROVE KeptInv'
  <2>1. /\ screen' = "behavior" /\ handler' = "none" /\ UNCHANGED updater
        /\ ~met' => \A u \in Updaters : updater[u].at = "none"
    BY <1>3 DEF Start, Tapped, taskVars, Alive
  <2> QED
    BY <2>1 DEF KeptInv, KeptFor, Tests
<1>4. ASSUME NEW u \in Updaters, CreateUpdater(u) PROVE KeptInv'
  <2>1. /\ UNCHANGED <<screen, active, copy, met>> /\ updater'[u].at = "waiting"
        /\ \A v \in Updaters \ {u} : updater'[v] = updater[v]
        /\ handler # "none"
    BY <1>4 DEF CreateUpdater, behaviorVars, TypeOK, NoUpdater
  <2>2. CopyTrue'
    BY <1>4, <2>1 DEF KeptInv, CopyTrue
  <2>3. KeptFor(u)'
    BY <2>1, <2>2 DEF KeptFor, Tests
  <2>4. ~met' => \A v \in Updaters \ {u} : KeptFor(v)'
    BY <2>1, KeptSame DEF KeptInv
  <2> QED
    BY <2>2, <2>3, <2>4 DEF KeptInv
<1>8. ASSUME NEW b \in Counted, IncrementCount(b) \/ DecrementCount(b) PROVE KeptInv'
  <2>1. /\ UNCHANGED <<screen, active, copy, met, updater>> /\ screen = "settings"
    BY <1>8 DEF IncrementCount, DecrementCount, TapCount, behaviorVars, taskVars
  <2>2. CopyTrue'
    BY <2>1 DEF KeptInv, CopyTrue
  <2>3. ~met' => \A v \in Updaters : KeptFor(v)'
    BY <2>1, KeptSame DEF KeptInv
  <2> QED
    BY <2>2, <2>3 DEF KeptInv
<1>5. ASSUME NEW u \in Updaters, TestActive(u) \/ TestKind(u) \/ WriteCount(u) \/ FillEntries(u)
      PROVE  KeptInv'
  <2>1. /\ UNCHANGED <<handler, screen, active, copy, met>>
        /\ \A v \in Updaters \ {u} : updater'[v] = updater[v]
    BY <1>5, TestActiveStep, TestKindStep, WriteStep, FillStep
    DEF TestActive, TestKind, WriteCount, FillEntries, behaviorVars
  <2>2. ASSUME ~met PROVE KeptFor(u)'
    <3>1. KeptFor(u)
      BY <2>2 DEF KeptInv
    <3>2. CASE TestActive(u)
      <4>1. updater[u].at = "waiting" /\ updater'[u].at = "alarm" /\ ~copy.active
        BY <3>2, TestActiveStep DEF TestActive
      <4> QED
        BY <2>1, <3>1, <4>1 DEF KeptFor, CopyTrue
    <3>3. CASE TestKind(u)
      <4>1. /\ updater[u].at \in Tests /\ updater'[u].at \in Tests \cup {"write", "delete"}
            /\ updater'[u].at = "write" => updater'[u].target = copy.kind
        BY <3>3, TestKindStep DEF NextTest, Tests
      <4>2. copy.kind \in Kinds => ~active[copy.kind]
        BY <3>1, <4>1 DEF KeptFor
      <4>3. updater'[u].at = "write" => copy.kind \in Kinds
        BY <3>3, TestKindStep DEF Tests, Kinds, NextTest
      <4> QED
        BY <2>1, <4>1, <4>2, <4>3 DEF KeptFor, Tests
    <3>4. CASE WriteCount(u) \/ FillEntries(u)
      <4>1. updater'[u].at \in {"fill", "delete"}
        BY <3>4, WriteStep, FillStep
      <4> QED
        BY <4>1 DEF KeptFor, Tests
    <3> QED
      BY <1>5, <3>2, <3>3, <3>4
  <2>3. ~met => \A v \in Updaters \ {u} : KeptFor(v)'
    BY <2>1, KeptSame DEF KeptInv
  <2> QED
    BY <2>1, <2>2, <2>3 DEF KeptInv, CopyTrue
<1>6. ASSUME NEW u \in Updaters, Delete(u) PROVE KeptInv'
  <2>1. /\ UNCHANGED <<handler, screen, active, copy>>
        /\ \A v \in Updaters \ {u} : updater'[v] = updater[v]
        /\ updater'[u].at \in {"none", "delete"}
    BY <1>6, DeleteStep DEF Delete, behaviorVars
  <2>2. ~met' => ~met \/ \A v \in Updaters \ {u} : updater[v].at = "none"
    BY <1>6 DEF Delete, Alive
  <2>3. ~met' => \A v \in Updaters \ {u} : KeptFor(v)'
    BY <2>1, <2>2, KeptSame DEF KeptInv, KeptFor, Tests
  <2>4. KeptFor(u)'
    BY <2>1 DEF KeptFor, Tests
  <2> QED
    BY <2>1, <2>3, <2>4 DEF KeptInv, CopyTrue
<1>7. ASSUME UNCHANGED vars PROVE KeptInv'
  BY <1>7, KeptSame DEF vars, behaviorVars, taskVars, KeptInv, CopyTrue
<1> QED
  BY <1>1, <1>2, <1>3, <1>4, <1>5, <1>6, <1>7, <1>8
  DEF Next, Touch, UpdaterStep, OpenBehavior, OpenSettings, Stopped, TypeOK

\* Only an updater writes a count without switching the behaviour off.
LEMMA KeptStep ==
    ASSUME TypeOK, KeptInv, [Next]_vars, NEW b \in Kinds, active[b], active'[b], count'[b] # count[b]
    PROVE  met
<1>1. ASSUME NEW u \in Updaters, WriteCount(u) PROVE met
  <2>1. b = updater[u].target /\ updater[u].at = "write"
    BY <1>1 DEF WriteCount, TypeOK
  <2> QED
    BY <2>1 DEF KeptInv, KeptFor
<1>2. ~Refresh
  BY DEF Refresh
<1> QED
  BY <1>1, <1>2
  DEF Next, Touch, UpdaterStep, OpenBehavior, OpenSettings, Open, LeavePages, Start, Stop,
      CreateUpdater, IncrementCount, DecrementCount, TapCount, TestActive, TestKind, FillEntries, Delete, Stopped,
      behaviorVars, vars

(* The count of an active behaviour does not change, unless a START or a    *)
(* page came between the steps of an updater (the loop of updateBehaviors   *)
(* on lastBehavior).                                                        *)
THEOREM KeptSafe == Spec => CountKeptWhileActive
<1>1. Init => TypeOK /\ KeptInv
  BY TypeInit, KeptInit
<1>2. TypeOK /\ KeptInv /\ [Next]_vars => (TypeOK /\ KeptInv)'
  BY TypeNext, KeptNext
<1>3. TypeOK /\ KeptInv /\ [Next]_vars =>
         [\A b \in Kinds : active[b] /\ active'[b] /\ count'[b] # count[b] => met]_vars
  BY KeptStep
<1> QED
  BY <1>1, <1>2, <1>3, PTL DEF Spec, CountKeptWhileActive

(* ------------------------------------------------------------------------ *)
(* What WaitingNeedsActiveCopy rests on: past its loop an updater has six    *)
(* steps at most, and nobody takes it back.                                  *)

StepsLeft(s) ==
    IF s = "waiting" THEN 7 ELSE IF s = "alarm" THEN 6 ELSE IF s = "training" THEN 5
    ELSE IF s = "party" THEN 4 ELSE IF s = "write" THEN 3 ELSE IF s = "fill" THEN 2
    ELSE IF s = "delete" THEN 1 ELSE 0

AdvanceStep ==
    \A u \in Updaters : Alive(u) =>
        /\ StepsLeft(updater'[u].at) <= StepsLeft(updater[u].at)
        /\ UpdaterStep(u) => StepsLeft(updater'[u].at) < StepsLeft(updater[u].at) \/ panicked'

Places == {"none", "waiting", "write", "fill", "delete"} \cup Tests

LEMMA LeftType == \A s \in Places : StepsLeft(s) \in 0..7
  BY DEF StepsLeft, Places, Tests

LEMMA UpdaterAdvances ==
    ASSUME TypeOK, NEW u \in Updaters, UpdaterStep(u)
    PROVE  /\ \/ StepsLeft(updater'[u].at) < StepsLeft(updater[u].at)
              \/ panicked' /\ updater' = updater
           /\ \A v \in Updaters \ {u} : updater'[v] = updater[v]
<1>1. CASE TestActive(u)
  BY <1>1, TestActiveStep DEF StepsLeft
<1>2. CASE TestKind(u)
  BY <1>2, TestKindStep DEF StepsLeft, Tests, NextTest
<1>3. CASE WriteCount(u)
  BY <1>3, WriteStep DEF StepsLeft
<1>4. CASE FillEntries(u)
  BY <1>4, FillStep DEF StepsLeft
<1>5. CASE Delete(u)
  BY <1>5, DeleteStep DEF StepsLeft
<1> QED
  BY <1>1, <1>2, <1>3, <1>4, <1>5 DEF UpdaterStep

(* An updater that runs comes to its end in seven steps, one of which waits *)
(* for the copy, or the program aborts; no page, no START, no other updater *)
(* sets it back (updateBehaviors, the handlers of the counts).              *)
THEOREM UpdatersAdvance == Spec => [][AdvanceStep]_vars
<1>1. ASSUME TypeOK, [Next]_vars PROVE AdvanceStep
  <2> SUFFICES ASSUME NEW u \in Updaters, Alive(u)
               PROVE  /\ StepsLeft(updater'[u].at) <= StepsLeft(updater[u].at)
                      /\ UpdaterStep(u) =>
                            StepsLeft(updater'[u].at) < StepsLeft(updater[u].at) \/ panicked'
    BY DEF AdvanceStep
  <2>1. StepsLeft(updater[u].at) \in 0..7
    BY <1>1, LeftType, UpdaterFields DEF Updater, Places
  <2>2. StepsLeft(updater'[u].at) \in 0..7
    <3>1. TypeOK'
      BY <1>1, TypeNext
    <3>2. updater'[u].at \in Places
      BY <3>1 DEF TypeOK, Updater, Places
    <3> QED
      BY <3>2, LeftType
  <2>3. CASE UpdaterStep(u)
    BY <1>1, <2>1, <2>2, <2>3, UpdaterAdvances
  <2>4. CASE ~UpdaterStep(u)
    <3>1. updater'[u] = updater[u]
      <4>1. ASSUME NEW v \in Updaters, UpdaterStep(v) PROVE updater'[u] = updater[u]
        BY <1>1, <2>4, <4>1, UpdaterAdvances
      <4>2. ASSUME NEW v \in Updaters, CreateUpdater(v) PROVE updater'[u] = updater[u]
        BY <1>1, <4>2, CreateFresh DEF CreateUpdater, TypeOK
      <4>3. ASSUME updater' = updater PROVE updater'[u] = updater[u]
        BY <4>3
      <4> QED
        BY <1>1, <4>1, <4>2, <4>3
        DEF Next, Touch, OpenBehavior, OpenSettings, Open, LeavePages, Start, Stop, IncrementCount,
            DecrementCount, TapCount, Refresh, Stopped, vars, taskVars
    <3> QED
      BY <2>1, <2>4, <3>1
  <2> QED
    BY <2>3, <2>4
<1> QED
  BY <1>1, TypeCorrect, PTL DEF Spec
=============================================================================
