--------------------------- MODULE FirebaseLogProofs ---------------------------
(***************************************************************************)
(* Theorems about FirebaseLog, for any number of tasks that log, any       *)
(* number of messages, any interval and any width of the clock.            *)
(***************************************************************************)
EXTENDS FirebaseLog, FiniteSetTheorems, TLAPS

AllKinds == Kinds \cup {"start"}
Stages == {"idle", "wait", "done", "lower"} \cup Fields
PushRecord == [at : Stages, kind : AllKinds, rec : [Fields -> Nat]]

LEMMA ConstantsType ==
    /\ Starter \in Writers /\ MaxMessages \in Nat
    /\ Interval \in Nat /\ Interval >= 1 /\ Wide \in Nat /\ Interval + 1 < Wide
  BY LogAssumption

LEMMA AfterType ==
    ASSUME NEW k, NEW f \in Fields
    PROVE  After(k, f) \in {"what", "value", "done"}
  BY DEF After, Fields

(* ------------------------------------------------------------------------ *)
(* What a step makes of the writers, the pushers and the messages.          *)

LEMMA WriterFields ==
    ASSUME TypeOK, NEW w \in Writers
    PROVE  /\ writer[w].at \in {"idle", "stamp", "done", "push"} \cup Fields
           /\ writer[w].kind \in AllKinds
           /\ writer[w].id \in Nat /\ writer[w].id <= Len(accepted)
           /\ writer[w] = [at |-> writer[w].at, kind |-> writer[w].kind, id |-> writer[w].id]
  BY DEF TypeOK, Writer, AllKinds

LEMMA PushFields ==
    ASSUME TypeOK, NEW p \in Pushers
    PROVE  /\ push[p].at \in Stages /\ push[p].kind \in AllKinds
           /\ push[p].rec \in [Fields -> Nat]
           /\ push[p] = [at |-> push[p].at, kind |-> push[p].kind, rec |-> push[p].rec]
  BY DEF TypeOK, AllKinds, Stages

LEMMA WriterUpdated ==
    ASSUME TypeOK, NEW w \in Writers, NEW X \in Writer, X.id <= Len(accepted),
           writer' = [writer EXCEPT ![w] = X]
    PROVE  /\ writer' \in [Writers -> Writer] /\ \A v \in Writers : writer'[v].id <= Len(accepted)
           /\ writer'[w] = X /\ \A v \in Writers \ {w} : writer'[v] = writer[v]
  BY DEF TypeOK

LEMMA PushUpdated ==
    ASSUME TypeOK, NEW p \in Pushers, NEW X \in PushRecord, push' = [push EXCEPT ![p] = X]
    PROVE  /\ push' \in [Pushers -> PushRecord]
           /\ push'[p] = X /\ \A q \in Pushers \ {p} : push'[q] = push[q]
  BY DEF TypeOK, PushRecord, AllKinds, Stages

LEMMA OneMore ==
    ASSUME NEW n \in Nat, NEW S \in SUBSET (1..n)
    PROVE  S \cup {n + 1} \in SUBSET (1..(n + 1)) /\ S \in SUBSET (1..(n + 1))
  OBVIOUS

\* A message that is accepted.
LEMMA AcceptStep ==
    ASSUME TypeOK, NEW k \in AllKinds, Accept(k)
    PROVE  /\ accepted' \in Seq(AllKinds)
           /\ Len(accepted') = Len(accepted) + 1
           /\ Len(accepted') <= MaxMessages
           /\ accepted'[Len(accepted) + 1] = k
           /\ \A m \in 1..Len(accepted) : accepted'[m] = accepted[m]
           /\ epoch' \subseteq 1..Len(accepted') /\ crowded' \subseteq 1..Len(accepted')
<1>1. accepted \in Seq(AllKinds) /\ Len(accepted) \in Nat
  BY DEF TypeOK, AllKinds
<1>2. /\ accepted' = Append(accepted, k) /\ Len(accepted) + 1 <= MaxMessages
      /\ epoch' = epoch \cup {Len(accepted) + 1}
      /\ crowded' = IF epoch = {} THEN crowded ELSE crowded \cup epoch \cup {Len(accepted) + 1}
  BY DEF Accept
<1>3. /\ accepted' \in Seq(AllKinds)
      /\ Len(accepted') = Len(accepted) + 1
      /\ accepted'[Len(accepted) + 1] = k
      /\ \A m \in 1..Len(accepted) : accepted'[m] = accepted[m]
  BY <1>1, <1>2
<1>4. epoch \subseteq 1..Len(accepted) /\ crowded \subseteq 1..Len(accepted)
  BY DEF TypeOK
<1>5. epoch' \in SUBSET (1..(Len(accepted) + 1))
  BY <1>1, <1>2, <1>4, OneMore
<1>6. crowded \cup epoch \in SUBSET (1..Len(accepted))
  BY <1>4
<1>7. crowded \cup epoch \cup {Len(accepted) + 1} \in SUBSET (1..(Len(accepted) + 1))
  BY <1>1, <1>6, OneMore
<1>8. crowded' \in SUBSET (1..(Len(accepted) + 1))
  BY <1>1, <1>2, <1>4, <1>7, OneMore
<1> QED
  BY <1>1, <1>2, <1>3, <1>5, <1>8

LEMMA MessageStep ==
    ASSUME TypeOK, NEW w \in Writers, NEW k \in AllKinds, NEW s \in {"stamp", "action"},
           Accept(k), Message(w, s, k)
    PROVE  /\ writer' \in [Writers -> Writer]
           /\ \A v \in Writers : writer'[v].id <= Len(accepted')
           /\ writer'[w] = [at |-> s, kind |-> k, id |-> Len(accepted) + 1]
           /\ writer'[w].at = s /\ writer'[w].kind = k /\ writer'[w].id = Len(accepted) + 1
           /\ \A v \in Writers \ {w} : writer'[v] = writer[v]
           /\ temp \in [Fields -> 0..Len(accepted')]
<1>1. Len(accepted') = Len(accepted) + 1 /\ Len(accepted) \in Nat
  BY AcceptStep DEF TypeOK
<1>2. DEFINE X == [at |-> s, kind |-> k, id |-> Len(accepted) + 1]
<1>3. X \in Writer /\ X.id = Len(accepted) + 1
  BY <1>1 DEF Writer, Fields, AllKinds
<1>4. writer' = [writer EXCEPT ![w] = X]
  BY DEF Message
<1> HIDE DEF X
<1>5. writer' \in [Writers -> Writer] /\ writer'[w] = X /\ \A v \in Writers \ {w} : writer'[v] = writer[v]
  BY <1>3, <1>4 DEF TypeOK
<1>6. \A v \in Writers : writer[v].id \in Nat /\ writer[v].id <= Len(accepted)
  BY WriterFields
<1>7. \A v \in Writers : writer'[v].id <= Len(accepted')
  BY <1>1, <1>3, <1>5, <1>6
<1>8. temp \in [Fields -> 0..Len(accepted')]
  BY <1>1 DEF TypeOK
<1> QED
  BY <1>5, <1>7, <1>8 DEF X

LEMMA Moved ==
    ASSUME NEW r \in Writer, NEW y
    PROVE  [r EXCEPT !.at = y] = [at |-> y, kind |-> r.kind, id |-> r.id]
  BY DEF Writer

LEMMA WriteFieldStep ==
    ASSUME TypeOK, NEW w \in Writers, WriteField(w)
    PROVE  /\ writer[w].at \in Fields
           /\ writer' \in [Writers -> Writer] /\ \A v \in Writers : writer'[v].id <= Len(accepted)
           /\ writer'[w].at = After(writer[w].kind, writer[w].at)
           /\ writer'[w].kind = writer[w].kind /\ writer'[w].id = writer[w].id
           /\ \A v \in Writers \ {w} : writer'[v] = writer[v]
           /\ temp' \in [Fields -> 0..Len(accepted)]
           /\ temp'[writer[w].at] = writer[w].id
           /\ \A f \in Fields \ {writer[w].at} : temp'[f] = temp[f]
<1>1. writer[w].at \in Fields
  BY DEF WriteField
<1>2. DEFINE X == [at |-> After(writer[w].kind, writer[w].at),
                   kind |-> writer[w].kind, id |-> writer[w].id]
<1>3. writer' = [writer EXCEPT ![w] = X]
  <2>1. writer' = [writer EXCEPT ![w].at = After(writer[w].kind, writer[w].at)]
    BY DEF WriteField
  <2>2. [writer[w] EXCEPT !.at = After(writer[w].kind, writer[w].at)] = X
    BY Moved DEF TypeOK
  <2> QED
    BY <2>1, <2>2
<1>4. X \in Writer /\ X.id = writer[w].id
  BY <1>1, WriterFields, AfterType DEF Writer, AllKinds, Fields
<1>5. writer[w].id \in 0..Len(accepted)
  BY WriterFields DEF TypeOK
<1>6. temp' = [temp EXCEPT ![writer[w].at] = writer[w].id] /\ temp \in [Fields -> 0..Len(accepted)]
  BY DEF WriteField, TypeOK
<1>7. /\ temp' \in [Fields -> 0..Len(accepted)]
      /\ temp'[writer[w].at] = writer[w].id
      /\ \A f \in Fields \ {writer[w].at} : temp'[f] = temp[f]
  BY <1>1, <1>5, <1>6
<1> HIDE DEF X
<1>8. /\ writer' \in [Writers -> Writer] /\ \A v \in Writers : writer'[v].id <= Len(accepted)
      /\ writer'[w] = X /\ \A v \in Writers \ {w} : writer'[v] = writer[v]
  <2>1. X \in Writer /\ X.id <= Len(accepted)
    BY <1>4, <1>5 DEF TypeOK
  <2> QED
    BY <1>3, <2>1, WriterUpdated
<1> QED
  BY <1>1, <1>7, <1>8 DEF X

LEMMA ReadFieldStep ==
    ASSUME TypeOK, NEW p \in Pushers, ReadField(p)
    PROVE  /\ push[p].at \in Fields
           /\ push' \in [Pushers -> PushRecord]
           /\ push'[p].at = After(push[p].kind, push[p].at)
           /\ push'[p].kind = push[p].kind
           /\ push'[p].rec[push[p].at] = temp[push[p].at]
           /\ \A f \in Fields \ {push[p].at} : push'[p].rec[f] = push[p].rec[f]
           /\ \A q \in Pushers \ {p} : push'[q] = push[q]
<1>1. push[p].at \in Fields
  BY DEF ReadField
<1>2. DEFINE r == [push[p].rec EXCEPT ![push[p].at] = temp[push[p].at]]
             X == [at |-> After(push[p].kind, push[p].at), kind |-> push[p].kind, rec |-> r]
<1>3. push' = [push EXCEPT ![p] = X]
  BY DEF ReadField
<1>4. temp[push[p].at] \in Nat /\ push[p].rec \in [Fields -> Nat]
  BY <1>1, PushFields DEF TypeOK
<1>5. /\ r \in [Fields -> Nat] /\ r[push[p].at] = temp[push[p].at]
      /\ \A f \in Fields \ {push[p].at} : r[f] = push[p].rec[f]
  BY <1>1, <1>4
<1> HIDE DEF r
<1>6. X.rec = r /\ X.kind = push[p].kind /\ X.at = After(push[p].kind, push[p].at)
  OBVIOUS
<1>7. After(push[p].kind, push[p].at) \in Stages
  BY <1>1, AfterType DEF Stages, Fields
<1>8. X \in PushRecord
  BY <1>5, <1>7, PushFields DEF PushRecord
<1> HIDE DEF X
<1> QED
  BY <1>1, <1>3, <1>5, <1>6, <1>8, PushUpdated

(* A task that logs goes to another place, with its message or without. *)
LEMMA PlaceStep ==
    ASSUME TypeOK, NEW w \in Writers, NEW y \in {"action", "push"},
           writer' = [writer EXCEPT ![w].at = y]
    PROVE  /\ writer' \in [Writers -> Writer] /\ \A v \in Writers : writer'[v].id <= Len(accepted)
           /\ writer'[w].at = y /\ writer'[w].kind = writer[w].kind /\ writer'[w].id = writer[w].id
           /\ \A v \in Writers \ {w} : writer'[v] = writer[v]
<1>1. DEFINE X == [at |-> y, kind |-> writer[w].kind, id |-> writer[w].id]
<1>2. [writer[w] EXCEPT !.at = y] = X
  BY Moved DEF TypeOK
<1>3. writer' = [writer EXCEPT ![w] = X]
  BY <1>2
<1>4. X \in Writer /\ X.id <= Len(accepted)
  BY WriterFields DEF Writer, AllKinds, Fields
<1> HIDE DEF X
<1>5. /\ writer' \in [Writers -> Writer] /\ \A v \in Writers : writer'[v].id <= Len(accepted)
      /\ writer'[w] = X /\ \A v \in Writers \ {w} : writer'[v] = writer[v]
  BY <1>3, <1>4, WriterUpdated
<1> QED
  BY <1>5 DEF X

LEMMA RestStep ==
    ASSUME TypeOK, NEW w \in Writers, writer' = [writer EXCEPT ![w] = NoMessage]
    PROVE  /\ writer' \in [Writers -> Writer] /\ \A v \in Writers : writer'[v].id <= Len(accepted)
           /\ writer'[w] = NoMessage
           /\ \A v \in Writers \ {w} : writer'[v] = writer[v]
<1>1. NoMessage \in Writer /\ NoMessage.id = 0 /\ 0 <= Len(accepted)
  BY DEF NoMessage, Writer, Kinds, TypeOK
<1> QED
  BY <1>1, WriterUpdated

LEMMA PushRecords ==
    /\ NoPush \in PushRecord /\ NoPush.at = "idle"
    /\ \A k \in AllKinds : Waiting(k) \in PushRecord /\ Waiting(k).at = "wait" /\ Waiting(k).kind = k
                             /\ Waiting(k).rec = [f \in Fields |-> 0]
  BY DEF NoPush, Waiting, PushRecord, Stages, AllKinds, Kinds

LEMMA AwaitStep ==
    ASSUME TypeOK, NEW p \in Pushers, NEW y \in {"action", "lower"},
           push' = [push EXCEPT ![p].at = y]
    PROVE  /\ push' \in [Pushers -> PushRecord]
           /\ push'[p].at = y /\ push'[p].kind = push[p].kind /\ push'[p].rec = push[p].rec
           /\ \A q \in Pushers \ {p} : push'[q] = push[q]
<1>1. DEFINE X == [push[p] EXCEPT !.at = y]
<1>2. push[p] \in PushRecord
  BY DEF TypeOK, PushRecord, AllKinds, Stages
<1>3. X \in PushRecord /\ X.at = y /\ X.kind = push[p].kind /\ X.rec = push[p].rec
  BY <1>2 DEF PushRecord, Stages, Fields
<1>4. push' = [push EXCEPT ![p] = X]
  OBVIOUS
<1> HIDE DEF X
<1> QED
  BY <1>3, <1>4, PushUpdated

\* What is pushed last.
LEMMA PushStep ==
    ASSUME TypeOK, NEW p \in Pushers, Push(p)
    PROVE  /\ pushed' \in Seq(Record) /\ Len(pushed') = Len(pushed) + 1
           /\ pushed'[Len(pushed) + 1] = [kind |-> push[p].kind, rec |-> push[p].rec]
           /\ \A i \in 1..Len(pushed) : pushed'[i] = pushed[i]
           /\ Len(pushed) \in Nat
<1>1. pushed \in Seq(Record) /\ Len(pushed) \in Nat
  BY DEF TypeOK
<1>2. [kind |-> push[p].kind, rec |-> push[p].rec] \in Record
  BY PushFields DEF Record, AllKinds
<1>3. pushed' = Append(pushed, [kind |-> push[p].kind, rec |-> push[p].rec])
  BY DEF Push
<1> QED
  BY <1>1, <1>2, <1>3

LEMMA TypeNext ==
    ASSUME TypeOK, [Next]_vars
    PROVE  TypeOK'
<1>0. epoch \subseteq 1..Len(accepted) /\ (Rest => epoch' \subseteq 1..Len(accepted))
  BY DEF TypeOK, Rest
<1>1. ASSUME Tick PROVE TypeOK'
  BY <1>1, ConstantsType DEF Tick, historyVars, TypeOK
<1>2. ASSUME NEW w \in Writers, NEW k \in Kinds, Log(w, k) PROVE TypeOK'
  <2>1. Accept(k) /\ Message(w, "stamp", k) /\ k \in AllKinds
    BY <1>2 DEF Log, AllKinds
  <2>2. /\ accepted' \in Seq(AllKinds) /\ Len(accepted') <= MaxMessages
        /\ epoch' \subseteq 1..Len(accepted') /\ crowded' \subseteq 1..Len(accepted')
    BY <2>1, AcceptStep
  <2>3. /\ writer' \in [Writers -> Writer]
        /\ \A v \in Writers : writer'[v].id <= Len(accepted')
        /\ temp \in [Fields -> 0..Len(accepted')]
    BY <2>1, MessageStep
  <2>4. elapsed' \in 0..(Interval + 1) /\ wrapped' \in BOOLEAN
    <3>1. elapsed' = 0 /\ wrapped' = FALSE
      BY <1>2 DEF Log
    <3>2. elapsed' \in 0..(Interval + 1)
      BY <3>1, ConstantsType
    <3>3. wrapped' \in BOOLEAN
      BY <3>1
    <3> QED
      BY <3>2, <3>3, Zenon
  <2>5. UNCHANGED <<now, timeSinceLastLog, temp, flag, push, turn, pushed>>
    BY <1>2 DEF Log
  <2> QED
    BY <2>2, <2>3, <2>4, <2>5 DEF TypeOK, AllKinds
<1>3. ASSUME NEW w \in Writers, Stamp(w) PROVE TypeOK'
  <2>1. writer' \in [Writers -> Writer] /\ \A v \in Writers : writer'[v].id <= Len(accepted)
    BY <1>3, PlaceStep DEF Stamp
  <2>2. /\ timeSinceLastLog' \in 0..(Wide - 1)
        /\ elapsed' \in 0..(Interval + 1) /\ wrapped' \in BOOLEAN
    <3>1. timeSinceLastLog' = now /\ elapsed' = 0 /\ wrapped' = FALSE
      BY <1>3 DEF Stamp
    <3>2. now \in 0..(Wide - 1)
      BY DEF TypeOK
    <3>3. timeSinceLastLog' \in 0..(Wide - 1) /\ elapsed' \in 0..(Interval + 1)
      BY <3>1, <3>2, ConstantsType
    <3>4. wrapped' \in BOOLEAN
      BY <3>1
    <3> QED
      BY <3>3, <3>4, Zenon
  <2>3. UNCHANGED <<now, temp, flag, push, turn, accepted, pushed, historyVars>>
    BY <1>3 DEF Stamp
  <2> QED
    BY <2>1, <2>2, <2>3 DEF historyVars, TypeOK
<1>4. ASSUME StartLog PROVE TypeOK'
  <2>1. /\ Accept("start") /\ Message(Starter, "action", "start")
        /\ Starter \in Writers /\ "start" \in AllKinds
    BY <1>4, LogAssumption DEF StartLog, AllKinds
  <2>2. /\ accepted' \in Seq(AllKinds) /\ Len(accepted') <= MaxMessages
        /\ epoch' \subseteq 1..Len(accepted') /\ crowded' \subseteq 1..Len(accepted')
    BY <2>1, AcceptStep
  <2>3. /\ writer' \in [Writers -> Writer]
        /\ \A v \in Writers : writer'[v].id <= Len(accepted')
        /\ temp \in [Fields -> 0..Len(accepted')]
    BY <2>1, MessageStep
  <2> QED
    BY <1>4, <2>2, <2>3 DEF StartLog, timeVars, TypeOK, AllKinds
<1>5. ASSUME NEW w \in Writers, WriteField(w) PROVE TypeOK'
  <2>1. /\ writer' \in [Writers -> Writer] /\ \A v \in Writers : writer'[v].id <= Len(accepted)
        /\ temp' \in [Fields -> 0..Len(accepted)]
    BY <1>5, WriteFieldStep
  <2> QED
    BY <1>5, <2>1 DEF WriteField, timeVars, historyVars, TypeOK
<1>6. ASSUME NEW w \in Writers, RaiseFlag(w) PROVE TypeOK'
  <2>1. writer' \in [Writers -> Writer] /\ \A v \in Writers : writer'[v].id <= Len(accepted)
    BY <1>6, RestStep DEF RaiseFlag
  <2> QED
    BY <1>6, <2>1 DEF RaiseFlag, timeVars, historyVars, TypeOK
<1>7. ASSUME StartPush PROVE TypeOK'
  <2>1. writer' \in [Writers -> Writer] /\ \A v \in Writers : writer'[v].id <= Len(accepted)
    BY <1>7, PlaceStep, LogAssumption DEF StartPush
  <2>2. push' \in [Pushers -> PushRecord]
    BY <1>7, PushRecords, PushUpdated DEF StartPush, Pushers, AllKinds
  <2> QED
    BY <1>7, <2>1, <2>2 DEF StartPush, timeVars, historyVars, TypeOK, PushRecord, Stages, AllKinds
<1>8. ASSUME Look PROVE TypeOK'
  <2>1. NextTurn \in Kinds /\ turn \in Kinds
    BY DEF NextTurn, Kinds, TypeOK
  <2>2. CASE flag[turn]
    <3>1. push' \in [Pushers -> PushRecord]
      BY <1>8, <2>1, <2>2, PushRecords, PushUpdated DEF Look, Pushers, AllKinds
    <3> QED
      BY <1>8, <2>2, <3>1 DEF Look, timeVars, historyVars, TypeOK, PushRecord, Stages, AllKinds
  <2>3. CASE ~flag[turn]
    BY <1>8, <2>1, <2>3 DEF Look, timeVars, historyVars, TypeOK
  <2> QED
    BY <2>2, <2>3
<1>9. ASSUME NEW p \in Pushers, AwaitReady(p) PROVE TypeOK'
  <2>1. push' \in [Pushers -> PushRecord]
    BY <1>9, AwaitStep DEF AwaitReady
  <2> QED
    BY <1>9, <2>1 DEF AwaitReady, timeVars, historyVars, TypeOK, PushRecord, Stages, AllKinds
<1>10. ASSUME NEW p \in Pushers, ReadField(p) PROVE TypeOK'
  <2>1. push' \in [Pushers -> PushRecord]
    BY <1>10, ReadFieldStep
  <2> QED
    BY <1>10, <2>1 DEF ReadField, timeVars, historyVars, TypeOK, PushRecord, Stages, AllKinds
<1>11. ASSUME NEW p \in Pushers, Push(p) PROVE TypeOK'
  <2>1. pushed' \in Seq(Record)
    BY <1>11, PushStep
  <2>2. CASE p = "server"
    <3>1. push' \in [Pushers -> PushRecord] /\ UNCHANGED writer
      BY <1>11, <2>2, AwaitStep DEF Push
    <3> QED
      BY <1>0, <1>11, <2>1, <3>1 DEF Push, timeVars, TypeOK, PushRecord, Stages, AllKinds
  <2>3. CASE p # "server"
    <3>1. push' \in [Pushers -> PushRecord]
      BY <1>11, <2>3, PushRecords, PushUpdated DEF Push
    <3>2. writer' \in [Writers -> Writer] /\ \A v \in Writers : writer'[v].id <= Len(accepted)
      BY <1>11, <2>3, RestStep, LogAssumption DEF Push
    <3> QED
      BY <1>0, <1>11, <2>1, <3>1, <3>2 DEF Push, timeVars, TypeOK, PushRecord, Stages, AllKinds
  <2> QED
    BY <2>2, <2>3
<1>12. ASSUME LowerFlag PROVE TypeOK'
  <2>1. NextTurn \in Kinds
    BY DEF NextTurn, Kinds
  <2>2. push' \in [Pushers -> PushRecord]
    BY <1>12, PushRecords, PushUpdated DEF LowerFlag, Pushers
  <2> QED
    BY <1>0, <1>12, <2>1, <2>2 DEF LowerFlag, timeVars, TypeOK, PushRecord, Stages, AllKinds
<1>13. ASSUME UNCHANGED vars PROVE TypeOK'
  BY <1>13 DEF vars, timeVars, historyVars, TypeOK
<1> QED
  BY <1>1, <1>2, <1>3, <1>4, <1>5, <1>6, <1>7, <1>8, <1>9, <1>10, <1>11, <1>12, <1>13
  DEF Next, Writing, Pushing, firebaseTask, Pushers

LEMMA TypeInit == Init => TypeOK
<1> SUFFICES ASSUME Init PROVE TypeOK
  OBVIOUS
<1>1. NoPush \in PushRecord
  BY PushRecords
<1>2. NoMessage \in Writer /\ NoMessage.id = 0
  BY DEF NoMessage, Writer, Kinds
<1>3. Len(accepted) = 0 /\ accepted \in Seq(Kinds \cup {"start"}) /\ pushed \in Seq(Record)
  BY DEF Init
<1>4. writer \in [Writers -> Writer] /\ \A w \in Writers : writer[w].id <= Len(accepted)
  BY <1>2, <1>3 DEF Init
<1>5. push \in [Pushers -> PushRecord]
  BY <1>1 DEF Init
<1>6. epoch \subseteq 1..Len(accepted) /\ crowded \subseteq 1..Len(accepted)
  BY DEF Init
<1>7. temp \in [Fields -> 0..Len(accepted)] /\ flag \in [Kinds -> BOOLEAN] /\ turn \in Kinds
  BY <1>3 DEF Init, Kinds
<1>8. /\ now \in 0..(Wide - 1) /\ timeSinceLastLog \in 0..(Wide - 1)
      /\ elapsed \in 0..(Interval + 1) /\ wrapped \in BOOLEAN /\ 0 <= MaxMessages
  <2>1. now = 0 /\ timeSinceLastLog = 0 /\ elapsed = 0 /\ wrapped = FALSE
    BY DEF Init
  <2>2. /\ now \in 0..(Wide - 1) /\ timeSinceLastLog \in 0..(Wide - 1)
        /\ elapsed \in 0..(Interval + 1) /\ 0 <= MaxMessages
    BY <2>1, ConstantsType
  <2>3. wrapped \in BOOLEAN
    BY <2>1
  <2> QED
    BY <2>2, <2>3, Zenon
<1> QED
  BY <1>3, <1>4, <1>5, <1>6, <1>7, <1>8 DEF TypeOK, PushRecord, Stages, AllKinds

(* Every variable keeps its type, and no number of a message is invented    *)
(* (firebaseAppendUserAction, firebaseTask).                                *)
THEOREM TypeCorrect == Spec => []TypeOK
  BY TypeInit, TypeNext, PTL DEF Spec

(* ------------------------------------------------------------------------ *)
(* The limit.                                                               *)

\* START pushes while its task is in the push.
StarterPushes == push["starter"].at # "idle" => writer[Starter].at = "push"

\* Without a wrap, the limit is over or the time stamp is as old as elapsed says.
LateEnough == ~wrapped => Passes \/ now - timeSinceLastLog >= elapsed

\* A time stamp that is not about to be written anew is not older than elapsed says.
EarlyEnough ==
    elapsed <= Interval =>
        now - timeSinceLastLog <= elapsed \/ \E w \in Writers : writer[w].at = "stamp"

LimitInv == StarterPushes /\ LateEnough /\ EarlyEnough

LEMMA Small ==
    ASSUME NEW a \in Nat, NEW b \in Nat, a < b
    PROVE  a % b = a
  OBVIOUS

LEMMA LimitFollows ==
    ASSUME TypeOK, LimitInv
    PROVE  LimitExact
<1>0. /\ now \in 0..(Wide - 1) /\ timeSinceLastLog \in 0..(Wide - 1)
      /\ elapsed \in 0..(Interval + 1) /\ wrapped \in BOOLEAN
  BY DEF TypeOK
<1>1. timeSinceLastLog + Interval < Wide =>
         (timeSinceLastLog + Interval) % Wide = timeSinceLastLog + Interval
  BY <1>0, ConstantsType, Small
<1>2. ~Passes => elapsed <= Interval \/ wrapped
  BY <1>0, <1>1, ConstantsType DEF LimitInv, LateEnough, Passes
<1>3. ASSUME Passes, elapsed <= Interval
      PROVE  \/ timeSinceLastLog + Interval >= Wide
             \/ \E w \in Writers : writer[w].at = "stamp"
  BY <1>0, <1>1, <1>3, ConstantsType DEF LimitInv, EarlyEnough, Passes
<1> QED
  BY <1>2, <1>3 DEF LimitExact

\* A step that leaves the clock, the time stamp and who stamps alone.
LEMMA LimitKept ==
    ASSUME LateEnough, EarlyEnough, UNCHANGED timeVars,
           \A w \in Writers : writer[w].at = "stamp" => writer'[w].at = "stamp"
    PROVE  LateEnough' /\ EarlyEnough'
  BY DEF LateEnough, EarlyEnough, Passes, timeVars

LEMMA LimitNext ==
    ASSUME TypeOK, LimitInv, [Next]_vars
    PROVE  LimitInv'
<1> USE DEF LimitInv
<1>0. /\ Starter \in Writers /\ "starter" \in Pushers /\ "server" \in Pushers
  BY LogAssumption DEF Pushers
<1>1. ASSUME Tick PROVE LimitInv'
  <2>1. now \in 0..(Wide - 1) /\ elapsed \in 0..(Interval + 1) /\ timeSinceLastLog \in 0..(Wide - 1)
    BY DEF TypeOK
  <2>2. now' = (now + 1) % Wide /\ (now + 1 < Wide => now' = now + 1) /\ (now + 1 = Wide => now' = 0)
    BY <1>1, <2>1, ConstantsType DEF Tick
  <2>3. (timeSinceLastLog + Interval) % Wide \in Int
    BY <2>1, LogAssumption
  <2>4. (~wrapped' => ~wrapped /\ now' # 0) /\ UNCHANGED timeSinceLastLog
    BY <1>1 DEF Tick
  <2>5. elapsed' <= elapsed + 1
    BY <1>1, <2>1, ConstantsType DEF Tick
  <2>6. ASSUME ~wrapped, now' # 0 PROVE Passes' \/ now' - timeSinceLastLog' >= elapsed'
    <3>1. now' = now + 1
      BY <2>1, <2>2, <2>6, ConstantsType
    <3>2. CASE Passes
      BY <2>1, <2>3, <2>4, <3>1, <3>2 DEF Passes
    <3>3. CASE now - timeSinceLastLog >= elapsed
      <4>1. elapsed' \in Int
        BY <1>1, <2>1, ConstantsType DEF Tick
      <4> QED
        BY <2>1, <2>4, <2>5, <3>1, <3>3, <4>1
    <3> QED
      BY <2>6, <3>2, <3>3 DEF LateEnough
  <2>7. LateEnough'
    BY <2>4, <2>6 DEF LateEnough
  <2>8. EarlyEnough'
    BY <1>1, <2>1, <2>2, ConstantsType DEF Tick, EarlyEnough
  <2>9. StarterPushes'
    BY <1>1 DEF Tick, StarterPushes
  <2> QED
    BY <2>7, <2>8, <2>9
<1>2. ASSUME NEW w \in Writers, NEW k \in Kinds, Log(w, k) PROVE LimitInv'
  <2>1. Accept(k) /\ Message(w, "stamp", k) /\ k \in AllKinds
    BY <1>2 DEF Log, AllKinds
  <2>2. writer'[w].at = "stamp" /\ \A v \in Writers \ {w} : writer'[v] = writer[v]
    BY <2>1, MessageStep
  <2>3. UNCHANGED <<now, timeSinceLastLog, push>> /\ Passes /\ writer[w].at = "idle"
    BY <1>2 DEF Log
  <2>4. LateEnough' /\ EarlyEnough'
    BY <2>2, <2>3 DEF LateEnough, EarlyEnough, Passes
  <2>5. StarterPushes'
    BY <1>0, <2>2, <2>3 DEF StarterPushes
  <2> QED
    BY <2>4, <2>5
<1>3. ASSUME NEW w \in Writers, Stamp(w) PROVE LimitInv'
  <2>1. /\ writer'[w].at = "action" /\ \A v \in Writers \ {w} : writer'[v] = writer[v]
        /\ writer[w].at = "stamp"
    BY <1>3, PlaceStep DEF Stamp
  <2>2. timeSinceLastLog' = now /\ now' = now /\ elapsed' = 0 /\ now \in Int /\ push' = push
    BY <1>3 DEF Stamp, TypeOK
  <2>3. LateEnough' /\ EarlyEnough'
    BY <2>2 DEF LateEnough, EarlyEnough
  <2>4. StarterPushes'
    BY <1>0, <2>1, <2>2 DEF StarterPushes
  <2> QED
    BY <2>3, <2>4
<1>4. ASSUME StartLog PROVE LimitInv'
  <2>1. /\ Accept("start") /\ Message(Starter, "action", "start") /\ "start" \in AllKinds
        /\ UNCHANGED <<timeVars, push>> /\ writer[Starter].at = "idle"
    BY <1>4 DEF StartLog, AllKinds
  <2>2. \A v \in Writers \ {Starter} : writer'[v] = writer[v]
    BY <1>0, <2>1, MessageStep
  <2>3. LateEnough' /\ EarlyEnough'
    BY <2>1, <2>2, LimitKept
  <2>4. StarterPushes'
    BY <2>1 DEF StarterPushes
  <2> QED
    BY <2>3, <2>4
<1>5. ASSUME NEW w \in Writers, WriteField(w) PROVE LimitInv'
  <2>1. /\ writer[w].at \in Fields /\ \A v \in Writers \ {w} : writer'[v] = writer[v]
        /\ UNCHANGED <<timeVars, push>>
    BY <1>5, WriteFieldStep DEF WriteField
  <2>2. writer[w].at # "stamp" /\ writer[w].at # "push"
    BY <2>1 DEF Fields
  <2>3. LateEnough' /\ EarlyEnough'
    BY <2>1, <2>2, LimitKept
  <2>4. StarterPushes'
    BY <1>0, <2>1, <2>2 DEF StarterPushes
  <2> QED
    BY <2>3, <2>4
<1>6. ASSUME NEW w \in Writers, RaiseFlag(w) PROVE LimitInv'
  <2>1. /\ writer[w].at = "done" /\ \A v \in Writers \ {w} : writer'[v] = writer[v]
        /\ UNCHANGED <<timeVars, push>>
    BY <1>6, RestStep DEF RaiseFlag
  <2>2. LateEnough' /\ EarlyEnough'
    BY <2>1, LimitKept
  <2>3. StarterPushes'
    BY <1>0, <2>1 DEF StarterPushes
  <2> QED
    BY <2>2, <2>3
<1>7. ASSUME StartPush PROVE LimitInv'
  <2>1. /\ writer'[Starter].at = "push" /\ writer[Starter].at = "done"
        /\ \A v \in Writers \ {Starter} : writer'[v] = writer[v]
        /\ UNCHANGED timeVars
    BY <1>0, <1>7, PlaceStep DEF StartPush
  <2>2. LateEnough' /\ EarlyEnough'
    BY <2>1, LimitKept
  <2> QED
    BY <2>1, <2>2 DEF StarterPushes
<1>8. ASSUME push'["starter"] = push["starter"], UNCHANGED <<timeVars, writer>> PROVE LimitInv'
  <2>1. LateEnough' /\ EarlyEnough'
    BY <1>8, LimitKept
  <2> QED
    BY <1>8, <2>1 DEF StarterPushes
<1>9. ASSUME Look PROVE LimitInv'
  <2>1. push'["starter"] = push["starter"]
    BY <1>9 DEF Look, TypeOK, Pushers
  <2> QED
    BY <1>8, <1>9, <2>1 DEF Look
<1>10. ASSUME NEW p \in Pushers, AwaitReady(p) \/ ReadField(p) PROVE LimitInv'
  <2>1. push[p].at # "idle" /\ \A q \in Pushers \ {p} : push'[q] = push[q]
    BY <1>10, AwaitStep, ReadFieldStep DEF AwaitReady, ReadField, Fields
  <2>2. UNCHANGED <<timeVars, writer>>
    BY <1>10 DEF AwaitReady, ReadField
  <2>3. LateEnough' /\ EarlyEnough'
    BY <2>2, LimitKept
  <2>4. StarterPushes'
    BY <1>0, <2>1, <2>2 DEF StarterPushes
  <2> QED
    BY <2>3, <2>4
<1>11. ASSUME NEW p \in Pushers, Push(p) PROVE LimitInv'
  <2>1. CASE p = "server"
    <3>1. \A q \in Pushers \ {p} : push'[q] = push[q]
      BY <1>11, <2>1, AwaitStep DEF Push
    <3> QED
      BY <1>0, <1>8, <1>11, <2>1, <3>1 DEF Push
  <2>2. CASE p # "server"
    <3>1. p = "starter" /\ push["starter"].at = "done"
      BY <1>11, <2>2 DEF Push, Pushers
    <3>2. writer[Starter].at = "push"
      BY <3>1 DEF StarterPushes
    <3>3. \A v \in Writers \ {Starter} : writer'[v] = writer[v]
      BY <1>0, <1>11, <2>2, RestStep DEF Push
    <3>4. push'["starter"].at = "idle"
      BY <1>0, <1>11, <2>2, <3>1, PushRecords, PushUpdated DEF Push
    <3>5. LateEnough' /\ EarlyEnough'
      BY <1>11, <3>2, <3>3, LimitKept DEF Push
    <3> QED
      BY <3>4, <3>5 DEF StarterPushes
  <2> QED
    BY <2>1, <2>2
<1>12. ASSUME LowerFlag PROVE LimitInv'
  <2>1. push'["starter"] = push["starter"]
    BY <1>12 DEF LowerFlag, TypeOK, Pushers
  <2> QED
    BY <1>8, <1>12, <2>1 DEF LowerFlag
<1>13. ASSUME UNCHANGED vars PROVE LimitInv'
  BY <1>8, <1>13 DEF vars
<1> QED
  BY <1>0, <1>1, <1>2, <1>3, <1>4, <1>5, <1>6, <1>7, <1>9, <1>10, <1>11, <1>12, <1>13
  DEF Next, Writing, Pushing, firebaseTask

LEMMA LimitInit == Init => LimitInv
<1> SUFFICES ASSUME Init PROVE LimitInv
  OBVIOUS
<1>1. now = 0 /\ timeSinceLastLog = 0 /\ elapsed = 0
  BY DEF Init
<1>2. LateEnough /\ EarlyEnough
  BY <1>1 DEF LateEnough, EarlyEnough
<1>3. push["starter"].at = "idle"
  BY PushRecords DEF Init, Pushers
<1> QED
  BY <1>2, <1>3 DEF LimitInv, StarterPushes

(* The limit refuses a message only within a second of the one before or    *)
(* once millis() began anew, and lets one pass earlier only if the sum      *)
(* wrapped or another task has not stamped the time yet                     *)
(* (millis() > timeSinceLastLog + 1000).                                    *)
THEOREM LimitSafe == Spec => []LimitExact
  BY LimitInit, TypeCorrect, LimitNext, LimitFollows, PTL DEF Spec

(* ------------------------------------------------------------------------ *)
(* The fields of what is pushed.                                            *)

\* Message m was accepted and has the field f.
Valid(f, m) == m \in 1..Len(accepted) /\ f \in FieldsOf(accepted[m])

\* The fields of kind k that come before the place s are f's.
Passed(k, s) ==
    IF s = "what" THEN {"action"} ELSE IF s = "value" THEN {"action", "what"}
    ELSE IF s \in {"done", "push"} THEN FieldsOf(k) ELSE {}

TempValid == \A f \in Fields : temp[f] # 0 => Valid(f, temp[f])

\* A message being written is one that was accepted; the fields it has passed are written.
WriterValid ==
    \A w \in Writers : writer[w].at # "idle" =>
        /\ writer[w].id # 0 /\ accepted[writer[w].id] = writer[w].kind
        /\ writer[w].at \in Fields => writer[w].at \in FieldsOf(writer[w].kind)
        /\ \A f \in Passed(writer[w].kind, writer[w].at) : temp[f] # 0

FlagValid == \A k \in Kinds : flag[k] => \A f \in FieldsOf(k) : temp[f] # 0

\* A push has all the fields it will read, and has read those it has passed.
PushValid ==
    \A p \in Pushers : push[p].at \notin {"idle", "lower"} =>
        /\ \A f \in FieldsOf(push[p].kind) : temp[f] # 0
        /\ push[p].at \in Fields => push[p].at \in FieldsOf(push[p].kind)
        /\ \A f \in Passed(push[p].kind, push[p].at) : Valid(f, push[p].rec[f])

PushedValid ==
    \A i \in DOMAIN pushed : \A f \in FieldsOf(pushed[i].kind) : Valid(f, pushed[i].rec[f])

FieldInv == TempValid /\ WriterValid /\ FlagValid /\ PushValid /\ PushedValid

LEMMA FieldsFacts ==
    ASSUME NEW k \in AllKinds
    PROVE  /\ FieldsOf(k) \subseteq Fields /\ "action" \in FieldsOf(k)
           /\ FieldsOf("start") = {"action", "what"}
           /\ \A s : Passed(k, s) \subseteq Fields
           /\ \A f \in FieldsOf(k) : /\ Passed(k, After(k, f)) \subseteq Passed(k, f) \cup {f}
                                     /\ After(k, f) \in Fields => After(k, f) \in FieldsOf(k)
  BY DEF FieldsOf, Fields, Passed, After, AllKinds, Kinds

LEMMA PassedNone ==
    ASSUME NEW k
    PROVE  Passed(k, "stamp") = {} /\ Passed(k, "action") = {} /\ Passed(k, "wait") = {}
           /\ Passed(k, "idle") = {} /\ Passed(k, "done") = FieldsOf(k) /\ Passed(k, "push") = FieldsOf(k)
  BY DEF Passed

\* What was accepted remains so.
LEMMA ValidKept ==
    ASSUME TypeOK, NEW k \in AllKinds, Accept(k), NEW f, NEW m, Valid(f, m)
    PROVE  Valid(f, m)'
<1>1. m \in 1..Len(accepted) /\ f \in FieldsOf(accepted[m]) /\ Len(accepted) \in Nat
  BY DEF Valid, TypeOK
<1>2. Len(accepted') = Len(accepted) + 1 /\ accepted'[m] = accepted[m]
  BY <1>1, AcceptStep
<1> QED
  BY <1>1, <1>2 DEF Valid

\* A step that leaves the messages and the fields alone.
LEMMA TempKept ==
    ASSUME FieldInv, UNCHANGED <<temp, accepted>>
    PROVE  TempValid'
  BY DEF FieldInv, TempValid, Valid

LEMMA FlagKept ==
    ASSUME FieldInv, UNCHANGED <<temp, flag>>
    PROVE  FlagValid'
  BY DEF FieldInv, FlagValid

LEMMA PushedKept ==
    ASSUME FieldInv, UNCHANGED <<accepted, pushed>>
    PROVE  PushedValid'
  BY DEF FieldInv, PushedValid, Valid

LEMMA PushKept ==
    ASSUME FieldInv, UNCHANGED <<temp, accepted, push>>
    PROVE  PushValid'
  BY DEF FieldInv, PushValid, Valid

LEMMA WriterKept ==
    ASSUME FieldInv, UNCHANGED <<temp, accepted, writer>>
    PROVE  WriterValid'
  BY DEF FieldInv, WriterValid

\* A message is accepted, and its task goes to a place with no field passed.
LEMMA FieldAccept ==
    ASSUME TypeOK, FieldInv, NEW w \in Writers, NEW k \in AllKinds, NEW s \in {"stamp", "action"},
           Accept(k), Message(w, s, k), UNCHANGED <<temp, flag, push, pushed>>
    PROVE  FieldInv'
<1>1. /\ writer'[w].at = s /\ writer'[w].kind = k /\ writer'[w].id = Len(accepted) + 1
      /\ \A v \in Writers \ {w} : writer'[v] = writer[v]
  BY MessageStep
<1>2. /\ accepted'[Len(accepted) + 1] = k /\ Len(accepted) \in Nat
      /\ \A m \in 1..Len(accepted) : accepted'[m] = accepted[m]
  BY AcceptStep DEF TypeOK
<1>3. TempValid'
  BY ValidKept DEF FieldInv, TempValid
<1>4. WriterValid'
  <2>1. /\ writer'[w].id # 0 /\ accepted'[writer'[w].id] = writer'[w].kind
        /\ writer'[w].at \in Fields => writer'[w].at \in FieldsOf(writer'[w].kind)
        /\ \A f \in Passed(writer'[w].kind, writer'[w].at) : temp'[f] # 0
    BY <1>1, <1>2, FieldsFacts, PassedNone DEF Fields
  <2>2. ASSUME NEW v \in Writers \ {w}, writer'[v].at # "idle"
        PROVE  /\ writer'[v].id # 0 /\ accepted'[writer'[v].id] = writer'[v].kind
               /\ writer'[v].at \in Fields => writer'[v].at \in FieldsOf(writer'[v].kind)
               /\ \A f \in Passed(writer'[v].kind, writer'[v].at) : temp'[f] # 0
    <3>1. writer'[v] = writer[v] /\ writer[v].id \in Nat /\ writer[v].id <= Len(accepted)
      BY <1>1, WriterFields
    <3>2. writer[v].id # 0 /\ accepted[writer[v].id] = writer[v].kind
      BY <2>2, <3>1 DEF FieldInv, WriterValid
    <3>3. accepted'[writer[v].id] = accepted[writer[v].id]
      BY <1>2, <3>1, <3>2
    <3> QED
      BY <2>2, <3>1, <3>2, <3>3 DEF FieldInv, WriterValid
  <2> QED
    BY <2>1, <2>2 DEF WriterValid
<1>5. FlagValid'
  BY FlagKept
<1>6. PushValid'
  BY ValidKept DEF FieldInv, PushValid
<1>7. PushedValid'
  BY ValidKept DEF FieldInv, PushedValid
<1> QED
  BY <1>3, <1>4, <1>5, <1>6, <1>7 DEF FieldInv

LEMMA FieldWrite ==
    ASSUME TypeOK, FieldInv, NEW w \in Writers, WriteField(w)
    PROVE  FieldInv'
<1> DEFINE g == writer[w].at
           k == writer[w].kind
<1>1. /\ g \in Fields /\ writer'[w].at = After(k, g)
      /\ writer'[w].kind = k /\ writer'[w].id = writer[w].id
      /\ \A v \in Writers \ {w} : writer'[v] = writer[v]
      /\ temp'[g] = writer[w].id /\ \A f \in Fields \ {g} : temp'[f] = temp[f]
  BY WriteFieldStep
<1>2. UNCHANGED <<accepted, flag, push, pushed>>
  BY DEF WriteField
<1>3. g # "idle" /\ k \in AllKinds /\ writer[w].id \in 1..Len(accepted)
  <2>1. g # "idle"
    BY <1>1 DEF Fields
  <2> QED
    BY <2>1, WriterFields DEF FieldInv, WriterValid, TypeOK
<1>4. accepted[writer[w].id] = k /\ g \in FieldsOf(k) /\ \A f \in Passed(k, g) : temp[f] # 0
  BY <1>1, <1>3 DEF FieldInv, WriterValid
<1>5. writer[w].id \in 1..Len(accepted') /\ g \in FieldsOf(accepted'[writer[w].id])
  BY <1>2, <1>3, <1>4
<1>6. \A f \in Fields : temp[f] # 0 => temp'[f] # 0
  BY <1>1, <1>3
<1>7. TempValid'
  <2> SUFFICES ASSUME NEW f \in Fields, temp'[f] # 0 PROVE Valid(f, temp[f])'
    BY DEF TempValid
  <2>1. CASE f = g
    BY <1>1, <1>5, <2>1 DEF Valid
  <2>2. CASE f # g
    BY <1>1, <1>2, <2>2 DEF FieldInv, TempValid, Valid
  <2> QED
    BY <2>1, <2>2
<1>8. WriterValid'
  <2>1. /\ writer'[w].id # 0 /\ accepted'[writer'[w].id] = writer'[w].kind
        /\ writer'[w].at \in Fields => writer'[w].at \in FieldsOf(writer'[w].kind)
        /\ \A f \in Passed(writer'[w].kind, writer'[w].at) : temp'[f] # 0
    BY <1>1, <1>2, <1>3, <1>4, <1>6, FieldsFacts
  <2>2. ASSUME NEW v \in Writers \ {w}, writer'[v].at # "idle"
        PROVE  /\ writer'[v].id # 0 /\ accepted'[writer'[v].id] = writer'[v].kind
               /\ writer'[v].at \in Fields => writer'[v].at \in FieldsOf(writer'[v].kind)
               /\ \A f \in Passed(writer'[v].kind, writer'[v].at) : temp'[f] # 0
    <3>1. writer'[v] = writer[v] /\ Passed(writer[v].kind, writer[v].at) \subseteq Fields
      BY <1>1, WriterFields, FieldsFacts
    <3> QED
      BY <1>2, <1>6, <2>2, <3>1 DEF FieldInv, WriterValid
  <2> QED
    BY <2>1, <2>2 DEF WriterValid
<1>9. FlagValid'
  <2>1. \A j \in Kinds : FieldsOf(j) \subseteq Fields
    BY FieldsFacts DEF AllKinds
  <2> QED
    BY <1>2, <1>6, <2>1 DEF FieldInv, FlagValid
<1>10. PushValid'
  <2>1. \A p \in Pushers : FieldsOf(push[p].kind) \subseteq Fields
    BY PushFields, FieldsFacts
  <2> QED
    BY <1>2, <1>6, <2>1 DEF FieldInv, PushValid, Valid
<1>11. PushedValid'
  BY <1>2, PushedKept
<1> QED
  BY <1>7, <1>8, <1>9, <1>10, <1>11 DEF FieldInv

LEMMA FieldRead ==
    ASSUME TypeOK, FieldInv, NEW p \in Pushers, ReadField(p)
    PROVE  FieldInv'
<1> DEFINE g == push[p].at
           k == push[p].kind
<1>1. /\ g \in Fields /\ push'[p].at = After(k, g) /\ push'[p].kind = k
      /\ push'[p].rec[g] = temp[g]
      /\ \A f \in Fields \ {g} : push'[p].rec[f] = push[p].rec[f]
      /\ \A q \in Pushers \ {p} : push'[q] = push[q]
  BY ReadFieldStep
<1>2. UNCHANGED <<temp, accepted, flag, writer, pushed>>
  BY DEF ReadField
<1>3. g \notin {"idle", "lower"} /\ k \in AllKinds
  BY <1>1, PushFields DEF Fields
<1>4. /\ \A f \in FieldsOf(k) : temp[f] # 0
      /\ g \in FieldsOf(k)
      /\ \A f \in Passed(k, g) : Valid(f, push[p].rec[f])
  BY <1>1, <1>3 DEF FieldInv, PushValid
<1>5. Valid(g, temp[g])
  BY <1>1, <1>4 DEF FieldInv, TempValid
<1>6. PushValid'
  <2>1. /\ \A f \in FieldsOf(push'[p].kind) : temp'[f] # 0
        /\ push'[p].at \in Fields => push'[p].at \in FieldsOf(push'[p].kind)
        /\ \A f \in Passed(push'[p].kind, push'[p].at) : Valid(f, push[p].rec[f])'
    <3>1. Passed(k, After(k, g)) \subseteq Passed(k, g) \cup {g} /\ Passed(k, g) \subseteq Fields
      BY <1>3, <1>4, FieldsFacts
    <3>2. After(k, g) \in Fields => After(k, g) \in FieldsOf(k)
      BY <1>3, <1>4, FieldsFacts
    <3>3. \A f \in Passed(k, g) \cup {g} : Valid(f, push'[p].rec[f])
      BY <1>1, <1>4, <1>5, <3>1
    <3>4. \A f \in Passed(k, After(k, g)) : Valid(f, push[p].rec[f])'
      BY <1>2, <3>1, <3>3 DEF Valid
    <3> QED
      BY <1>1, <1>2, <1>4, <3>2, <3>4
  <2>2. ASSUME NEW q \in Pushers \ {p}, push'[q].at \notin {"idle", "lower"}
        PROVE  /\ \A f \in FieldsOf(push'[q].kind) : temp'[f] # 0
               /\ push'[q].at \in Fields => push'[q].at \in FieldsOf(push'[q].kind)
               /\ \A f \in Passed(push'[q].kind, push'[q].at) : Valid(f, push[q].rec[f])'
    BY <1>1, <1>2, <2>2 DEF FieldInv, PushValid, Valid
  <2> QED
    BY <2>1, <2>2 DEF PushValid
<1>7. TempValid' /\ WriterValid' /\ FlagValid' /\ PushedValid'
  BY <1>2, TempKept, WriterKept, FlagKept, PushedKept
<1> QED
  BY <1>6, <1>7 DEF FieldInv

LEMMA FieldPush ==
    ASSUME TypeOK, FieldInv, NEW p \in Pushers, Push(p)
    PROVE  PushedValid'
<1>1. push[p].at = "done" /\ UNCHANGED accepted
  BY DEF Push
<1>2. /\ Len(pushed') = Len(pushed) + 1 /\ Len(pushed) \in Nat
      /\ pushed'[Len(pushed) + 1] = [kind |-> push[p].kind, rec |-> push[p].rec]
      /\ \A i \in 1..Len(pushed) : pushed'[i] = pushed[i]
      /\ DOMAIN pushed' = 1..Len(pushed') /\ DOMAIN pushed = 1..Len(pushed)
  BY PushStep DEF TypeOK
<1>3. \A f \in FieldsOf(push[p].kind) : Valid(f, push[p].rec[f])
  BY <1>1, PassedNone DEF FieldInv, PushValid
<1> SUFFICES ASSUME NEW i \in 1..(Len(pushed) + 1), NEW f \in FieldsOf(pushed'[i].kind)
             PROVE  Valid(f, pushed[i].rec[f])'
  BY <1>2 DEF PushedValid
<1>4. CASE i = Len(pushed) + 1
  BY <1>1, <1>2, <1>3, <1>4 DEF Valid
<1>5. CASE i # Len(pushed) + 1
  <2>1. i \in DOMAIN pushed /\ pushed'[i] = pushed[i]
    BY <1>2, <1>5
  <2> QED
    BY <1>1, <2>1 DEF FieldInv, PushedValid, Valid
<1> QED
  BY <1>4, <1>5

LEMMA FieldNext ==
    ASSUME TypeOK, FieldInv, [Next]_vars
    PROVE  FieldInv'
<1>0. Starter \in Writers /\ "starter" \in Pushers /\ "server" \in Pushers
  BY ConstantsType DEF Pushers
<1>1. CASE Tick
  BY <1>1, TempKept, WriterKept, FlagKept, PushKept, PushedKept DEF Tick, FieldInv
<1>2. ASSUME NEW w \in Writers, NEW k \in Kinds, Log(w, k) PROVE FieldInv'
  BY <1>2, FieldAccept DEF Log, AllKinds
<1>3. ASSUME NEW w \in Writers, Stamp(w) PROVE FieldInv'
  <2>1. /\ writer'[w].at = "action" /\ writer'[w].kind = writer[w].kind /\ writer'[w].id = writer[w].id
        /\ \A v \in Writers \ {w} : writer'[v] = writer[v]
        /\ writer[w].at = "stamp" /\ writer[w].kind \in AllKinds
    BY <1>3, PlaceStep, WriterFields DEF Stamp
  <2>2. UNCHANGED <<temp, flag, push, accepted, pushed>>
    BY <1>3 DEF Stamp
  <2>3. WriterValid'
    BY <2>1, <2>2, FieldsFacts, PassedNone DEF FieldInv, WriterValid
  <2> QED
    BY <2>2, <2>3, TempKept, FlagKept, PushKept, PushedKept DEF FieldInv
<1>4. CASE StartLog
  BY <1>0, <1>4, FieldAccept DEF StartLog, AllKinds
<1>5. ASSUME NEW w \in Writers, RaiseFlag(w) PROVE FieldInv'
  <2>1. /\ writer'[w].at = "idle" /\ writer[w].at = "done"
        /\ \A v \in Writers \ {w} : writer'[v] = writer[v]
    BY <1>5, RestStep DEF RaiseFlag, NoMessage
  <2>2. UNCHANGED <<temp, push, accepted, pushed>>
    BY <1>5 DEF RaiseFlag
  <2>3. WriterValid'
    BY <2>1, <2>2 DEF FieldInv, WriterValid
  <2>4. \A f \in FieldsOf(writer[w].kind) : temp[f] # 0
    BY <2>1, PassedNone DEF FieldInv, WriterValid
  <2>5. \A j \in Kinds : flag'[j] => flag[j] \/ j = writer[w].kind
    BY <1>5 DEF RaiseFlag, TypeOK
  <2>6. FlagValid'
    BY <2>2, <2>4, <2>5 DEF FieldInv, FlagValid
  <2> QED
    BY <2>2, <2>3, <2>6, TempKept, PushKept, PushedKept DEF FieldInv
<1>6. CASE StartPush
  <2>1. /\ writer'[Starter].at = "push" /\ writer'[Starter].kind = writer[Starter].kind
        /\ writer'[Starter].id = writer[Starter].id
        /\ \A v \in Writers \ {Starter} : writer'[v] = writer[v]
        /\ writer[Starter].at = "done" /\ writer[Starter].kind = "start"
    BY <1>0, <1>6, PlaceStep DEF StartPush
  <2>2. UNCHANGED <<temp, flag, accepted, pushed>>
    BY <1>6 DEF StartPush
  <2>3. \A f \in FieldsOf("start") : temp[f] # 0
    BY <1>0, <2>1, PassedNone DEF FieldInv, WriterValid
  <2>4. "push" \notin Fields
    BY DEF Fields
  <2>5. WriterValid'
    BY <2>1, <2>2, <2>4, PassedNone DEF FieldInv, WriterValid
  <2>6. /\ push'["starter"] = Waiting("start") /\ \A q \in Pushers \ {"starter"} : push'[q] = push[q]
    BY <1>0, <1>6, PushRecords, PushUpdated DEF StartPush, AllKinds
  <2>7. PushValid'
    BY <2>2, <2>3, <2>6, PushRecords, PassedNone DEF FieldInv, PushValid, Valid, Fields, AllKinds
  <2> QED
    BY <2>2, <2>5, <2>7, TempKept, FlagKept, PushedKept DEF FieldInv
<1>7. CASE Look
  <2>1. UNCHANGED <<temp, flag, writer, accepted, pushed>> /\ turn \in Kinds
    BY <1>7 DEF Look, TypeOK
  <2>2. CASE flag[turn]
    <3>1. /\ push'["server"] = Waiting(turn) /\ \A q \in Pushers \ {"server"} : push'[q] = push[q]
      BY <1>0, <1>7, <2>1, <2>2, PushRecords, PushUpdated DEF Look, AllKinds
    <3>2. \A f \in FieldsOf(turn) : temp[f] # 0
      BY <2>1, <2>2 DEF FieldInv, FlagValid
    <3>3. PushValid'
      BY <2>1, <3>1, <3>2, PushRecords, PassedNone DEF FieldInv, PushValid, Valid, Fields, AllKinds
    <3> QED
      BY <2>1, <3>3, TempKept, WriterKept, FlagKept, PushedKept DEF FieldInv
  <2>3. CASE ~flag[turn]
    BY <1>7, <2>1, <2>3, TempKept, WriterKept, FlagKept, PushKept, PushedKept DEF Look, FieldInv
  <2> QED
    BY <2>2, <2>3
<1>8. ASSUME NEW p \in Pushers, AwaitReady(p) PROVE FieldInv'
  <2>1. UNCHANGED <<temp, flag, writer, accepted, pushed>>
    BY <1>8 DEF AwaitReady
  <2>2. /\ push'[p].at = "action" /\ push'[p].kind = push[p].kind /\ push'[p].rec = push[p].rec
        /\ \A q \in Pushers \ {p} : push'[q] = push[q]
        /\ push[p].at = "wait" /\ push[p].kind \in AllKinds
    BY <1>8, AwaitStep, PushFields DEF AwaitReady
  <2>3. PushValid'
    BY <2>1, <2>2, FieldsFacts, PassedNone DEF FieldInv, PushValid, Valid
  <2> QED
    BY <2>1, <2>3, TempKept, WriterKept, FlagKept, PushedKept DEF FieldInv
<1>9. ASSUME NEW p \in Pushers, Push(p) PROVE FieldInv'
  <2>1. UNCHANGED <<temp, flag, accepted>>
    BY <1>9 DEF Push
  <2>2. PushedValid'
    BY <1>9, FieldPush
  <2>3. WriterValid'
    <3>1. CASE p = "server"
      BY <1>9, <2>1, <3>1, WriterKept DEF Push
    <3>2. CASE p # "server"
      <4>1. writer'[Starter].at = "idle" /\ \A v \in Writers \ {Starter} : writer'[v] = writer[v]
        BY <1>0, <1>9, <3>2, RestStep DEF Push, NoMessage
      <4> QED
        BY <2>1, <4>1 DEF FieldInv, WriterValid
    <3> QED
      BY <3>1, <3>2
  <2>4. push'[p].at \in {"idle", "lower"} /\ \A q \in Pushers \ {p} : push'[q] = push[q]
    <3>1. CASE p = "server"
      BY <1>9, <3>1, AwaitStep DEF Push
    <3>2. CASE p # "server"
      BY <1>9, <3>2, PushRecords, PushUpdated DEF Push
    <3> QED
      BY <3>1, <3>2
  <2>5. PushValid'
    BY <2>1, <2>4 DEF FieldInv, PushValid, Valid
  <2> QED
    BY <2>1, <2>2, <2>3, <2>5, TempKept, FlagKept DEF FieldInv
<1>10. CASE LowerFlag
  <2>1. UNCHANGED <<temp, writer, accepted, pushed>>
    BY <1>10 DEF LowerFlag
  <2>2. \A j \in Kinds : flag'[j] => flag[j]
    BY <1>10 DEF LowerFlag, TypeOK
  <2>3. push'["server"].at = "idle" /\ \A q \in Pushers \ {"server"} : push'[q] = push[q]
    BY <1>0, <1>10, PushRecords, PushUpdated DEF LowerFlag
  <2>4. FlagValid' /\ PushValid'
    BY <2>1, <2>2, <2>3 DEF FieldInv, FlagValid, PushValid, Valid
  <2> QED
    BY <2>1, <2>4, TempKept, WriterKept, PushedKept DEF FieldInv
<1>11. CASE UNCHANGED vars
  BY <1>11, TempKept, WriterKept, FlagKept, PushKept, PushedKept DEF vars, FieldInv
<1> QED
  BY <1>0, <1>1, <1>2, <1>3, <1>4, <1>5, <1>6, <1>7, <1>8, <1>9, <1>10, <1>11, FieldWrite, FieldRead
  DEF Next, Writing, Pushing, firebaseTask

LEMMA FieldInit == Init => FieldInv
<1> SUFFICES ASSUME Init PROVE FieldInv
  OBVIOUS
<1>1. /\ \A f \in Fields : temp[f] = 0
      /\ \A w \in Writers : writer[w].at = "idle"
      /\ \A k \in Kinds : ~flag[k]
      /\ \A p \in Pushers : push[p].at = "idle"
      /\ DOMAIN pushed = {}
  BY DEF Init, NoMessage, NoPush
<1> QED
  BY <1>1 DEF FieldInv, TempValid, WriterValid, FlagValid, PushValid, PushedValid

(* A record never has a field that was never written, nor one of a message  *)
(* that did not have that field (the order of the assignments and the flag  *)
(* in the three forms of firebaseAppendUserAction, firebaseTask).           *)
THEOREM FieldsSafe == Spec => []FieldsWritten
<1>2. TypeOK /\ FieldInv => FieldsWritten
  BY DEF FieldInv, PushedValid, Valid, FieldsWritten, TypeOK
<1> QED
  BY <1>2, FieldInit, TypeCorrect, FieldNext, PTL DEF Spec

(* ------------------------------------------------------------------------ *)
(* A message that meets no other is pushed once, as it was logged.          *)

\* Who is busy is so for a message of the epoch.
BusyEpoch == (Busy => epoch # {}) /\ (epoch # {} => Busy)

\* Messages that share an epoch are crowded.
CrowdedTogether == \A m \in epoch : m \in crowded \/ epoch = {m}

\* What is written, announced or being pushed is of messages of the epoch.
FreshWriter ==
    \A w \in Writers : writer[w].at # "idle" =>
        /\ writer[w].id \in epoch
        /\ \A f \in Passed(writer[w].kind, writer[w].at) : temp[f] \in epoch
FreshFlag == \A k \in Kinds : flag[k] => \A f \in FieldsOf(k) : temp[f] \in epoch
FreshPush ==
    \A p \in Pushers : push[p].at \notin {"idle", "lower"} =>
        /\ \A f \in FieldsOf(push[p].kind) : temp[f] \in epoch
        /\ \A f \in Passed(push[p].kind, push[p].at) : push[p].rec[f] \in epoch
Fresh == FreshWriter /\ FreshFlag /\ FreshPush

\* firebase_task pushes for the flag it looks at, which stays raised; START for itself.
Roles ==
    /\ push["server"].at # "idle" => flag[turn] /\ push["server"].kind = turn
    /\ push["starter"].at # "idle" => /\ push["starter"].kind = "start"
                                     /\ push["starter"].at # "lower"
                                     /\ writer[Starter].at = "push"
                                     /\ writer[Starter].kind = "start"
    /\ writer[Starter].at = "push" => push["starter"].at # "idle"
    /\ \A w \in Writers : writer[w].at = "push" => w = Starter

NotPushed(m) == \A i \in DOMAIN pushed : ~Holds(pushed[i], m)
PushedOnce(m) ==
    \E i \in DOMAIN pushed : /\ Of(pushed[i], m)
                            /\ \A j \in DOMAIN pushed : Holds(pushed[j], m) => j = i

Alone(m) == epoch = {m} /\ m \notin crowded

\* The stages of a message that is alone.
BeingWritten(m) ==
    /\ \E w \in Writers : /\ writer[w].at \notin {"idle", "push"}
                          /\ \A v \in Writers \ {w} : writer[v].at = "idle"
    /\ \A k \in Kinds : ~flag[k]
    /\ \A p \in Pushers : push[p].at = "idle"
    /\ NotPushed(m)
Announced(m) ==
    /\ \A w \in Writers : writer[w].at = "idle"
    /\ flag[accepted[m]] /\ accepted[m] \in Kinds
    /\ \A k \in Kinds \ {accepted[m]} : ~flag[k]
    /\ push["starter"].at = "idle"
    /\ IF push["server"].at = "lower" THEN PushedOnce(m) ELSE NotPushed(m)
Started(m) ==
    /\ writer[Starter].at = "push" /\ \A w \in Writers \ {Starter} : writer[w].at = "idle"
    /\ accepted[m] = "start"
    /\ \A k \in Kinds : ~flag[k]
    /\ push["server"].at = "idle"
    /\ NotPushed(m)

Stage == \A m \in 1..Len(accepted) : Alone(m) => BeingWritten(m) \/ Announced(m) \/ Started(m)
DoneOnce == \A m \in 1..Len(accepted) : m \notin crowded \cup epoch => PushedOnce(m)

AloneInv == BusyEpoch /\ CrowdedTogether /\ Fresh /\ Roles /\ Stage /\ DoneOnce

\* What is pushed does not change, nor the kind of a message.
LEMMA PushedKeptOnce ==
    ASSUME NEW m, UNCHANGED pushed, accepted'[m] = accepted[m]
    PROVE  (PushedOnce(m) => PushedOnce(m)') /\ (NotPushed(m) => NotPushed(m)')
  BY DEF PushedOnce, NotPushed, Of, Holds

\* A record is appended: of no field of message m, or of all of them.
LEMMA PushedAppended ==
    ASSUME TypeOK, NEW p \in Pushers, Push(p), NEW m
    PROVE  /\ (\A f \in FieldsOf(push[p].kind) : push[p].rec[f] # m) =>
                 (PushedOnce(m) => PushedOnce(m)')
           /\ (/\ \A f \in FieldsOf(push[p].kind) : push[p].rec[f] = m
               /\ push[p].kind = accepted[m] /\ NotPushed(m)) => PushedOnce(m)'
<1>0. PICK n \in Nat : n = Len(pushed) + 1
  BY DEF TypeOK
<1> DEFINE r == [kind |-> push[p].kind, rec |-> push[p].rec]
<1>1. /\ pushed'[n] = r /\ n \in Nat
      /\ \A i \in DOMAIN pushed : pushed'[i] = pushed[i] /\ i # n
      /\ DOMAIN pushed' = DOMAIN pushed \cup {n}
  <2>1. pushed'[n] = r /\ Len(pushed') = n /\ Len(pushed) \in Nat
    BY <1>0, PushStep
  <2>2. DOMAIN pushed' = 1..Len(pushed') /\ DOMAIN pushed = 1..Len(pushed)
    BY PushStep DEF TypeOK
  <2>3. \A i \in 1..Len(pushed) : pushed'[i] = pushed[i]
    BY PushStep
  <2> HIDE DEF r
  <2>4. 1..n = (1..Len(pushed)) \cup {n} /\ \A i \in 1..Len(pushed) : i # n
    BY <1>0, <2>1
  <2> QED
    BY <2>1, <2>2, <2>3, <2>4
<1>2. UNCHANGED accepted
  BY DEF Push
<1>3. r.kind = push[p].kind /\ r.rec = push[p].rec
  OBVIOUS
<1> HIDE DEF r
<1>4. ASSUME \A f \in FieldsOf(push[p].kind) : push[p].rec[f] # m, PushedOnce(m)
      PROVE  PushedOnce(m)'
  <2>1. PICK i \in DOMAIN pushed : /\ Of(pushed[i], m)
                                   /\ \A j \in DOMAIN pushed : Holds(pushed[j], m) => j = i
    BY <1>4 DEF PushedOnce
  <2>2. ~Holds(pushed'[n], m)
    BY <1>1, <1>3, <1>4 DEF Holds
  <2>3. i \in DOMAIN pushed' /\ pushed'[i] = pushed[i]
    BY <1>1
  <2>4. Of(pushed[i], m)'
    BY <1>2, <2>1, <2>3 DEF Of
  <2>5. \A j \in DOMAIN pushed' : Holds(pushed'[j], m) => j = i
    BY <1>1, <2>1, <2>2
  <2> QED
    BY <2>3, <2>4, <2>5 DEF PushedOnce, Holds
<1>5. ASSUME \A f \in FieldsOf(push[p].kind) : push[p].rec[f] = m,
             push[p].kind = accepted[m], NotPushed(m)
      PROVE  PushedOnce(m)'
  <2>1. n \in DOMAIN pushed'
    BY <1>1
  <2>2. Of(pushed[n], m)'
    BY <1>1, <1>2, <1>3, <1>5 DEF Of
  <2>3. \A j \in DOMAIN pushed' : Holds(pushed'[j], m) => j = n
    BY <1>1, <1>5 DEF NotPushed
  <2> QED
    BY <2>1, <2>2, <2>3 DEF PushedOnce, Holds
<1> QED
  BY <1>4, <1>5

\* Once or not at all is what counting says.
LEMMA OnceCounted ==
    ASSUME NEW m, PushedOnce(m), \A k : FieldsOf(k) # {}
    PROVE  /\ Cardinality({i \in DOMAIN pushed : Holds(pushed[i], m)}) = 1
           /\ \E i \in DOMAIN pushed : Of(pushed[i], m)
<1>1. PICK i \in DOMAIN pushed : /\ Of(pushed[i], m)
                                 /\ \A j \in DOMAIN pushed : Holds(pushed[j], m) => j = i
  BY DEF PushedOnce
<1>2. Holds(pushed[i], m)
  BY <1>1 DEF Of, Holds
<1>3. {j \in DOMAIN pushed : Holds(pushed[j], m)} = {i}
  BY <1>1, <1>2
<1> QED
  BY <1>1, <1>3, FS_Singleton

\* A message is accepted.
LEMMA AloneAccept ==
    ASSUME TypeOK, FieldInv, AloneInv, NEW w \in Writers, NEW k \in AllKinds,
           NEW s \in {"stamp", "action"}, writer[w].at = "idle",
           Accept(k), Message(w, s, k), UNCHANGED <<temp, flag, push, turn, pushed>>
    PROVE  AloneInv'
<1>0. epoch \subseteq 1..Len(accepted) /\ Len(accepted) \in Nat
  BY DEF TypeOK
<1>0a. PICK n \in Nat : n = Len(accepted) + 1
  BY <1>0
<1>1. /\ writer'[w].at = s /\ writer'[w].kind = k /\ writer'[w].id = n
      /\ \A v \in Writers \ {w} : writer'[v] = writer[v]
  BY <1>0a, MessageStep
<1>2. /\ Len(accepted') = n /\ accepted'[n] = k
      /\ \A m \in 1..Len(accepted) : accepted'[m] = accepted[m]
  BY <1>0a, AcceptStep
<1>3. /\ epoch' = epoch \cup {n}
      /\ epoch = {} => crowded' = crowded
      /\ epoch # {} => crowded' = crowded \cup epoch \cup {n}
  BY <1>0a DEF Accept
<1>4. s \notin {"idle", "push"} /\ Passed(k, s) = {}
  BY PassedNone
<1>5. BusyEpoch'
  BY <1>1, <1>3, <1>4 DEF BusyEpoch, Busy
<1>6. CrowdedTogether'
  BY <1>3 DEF CrowdedTogether
<1>7. Fresh'
  <2>1. FreshWriter'
    BY <1>1, <1>3, <1>4 DEF AloneInv, Fresh, FreshWriter
  <2>2. FreshFlag' /\ FreshPush'
    BY <1>3 DEF AloneInv, Fresh, FreshFlag, FreshPush
  <2> QED
    BY <2>1, <2>2 DEF Fresh
<1>8. Roles'
  <2>1. CASE w = Starter
    <3>1. push["starter"].at = "idle"
      BY <2>1 DEF AloneInv, Roles
    <3> QED
      BY <1>1, <1>4, <2>1, <3>1 DEF AloneInv, Roles
  <2>2. CASE w # Starter
    BY <1>1, <1>4, <2>2, ConstantsType DEF AloneInv, Roles
  <2> QED
    BY <2>1, <2>2
<1>9. NotPushed(n)'
  <2>1. ASSUME NEW i \in DOMAIN pushed, NEW f \in FieldsOf(pushed[i].kind)
        PROVE  pushed[i].rec[f] # n
    <3>1. pushed[i].rec[f] \in 1..Len(accepted)
      BY DEF FieldInv, PushedValid, Valid
    <3> QED
      BY <1>0, <1>0a, <3>1
  <2> QED
    BY <2>1 DEF NotPushed, Holds
<1>10. Stage'
  <2> SUFFICES ASSUME NEW m \in 1..Len(accepted'), Alone(m)'
               PROVE  BeingWritten(m)'
    BY DEF Stage
  <2>1. epoch = {} /\ m = n
    BY <1>3 DEF Alone
  <2>2. ~Busy
    BY <2>1 DEF AloneInv, BusyEpoch
  <2>3. \A v \in Writers \ {w} : writer'[v].at = "idle"
    BY <1>1, <2>2 DEF Busy
  <2>4. (\A j \in Kinds : ~flag'[j]) /\ \A p \in Pushers : push'[p].at = "idle"
    BY <2>2 DEF Busy
  <2> QED
    BY <1>1, <1>4, <1>9, <2>1, <2>3, <2>4 DEF BeingWritten
<1>11. DoneOnce'
  <2> SUFFICES ASSUME NEW m \in 1..Len(accepted'), m \notin crowded' \cup epoch'
               PROVE  PushedOnce(m)'
    BY DEF DoneOnce
  <2>1. m \in 1..Len(accepted) /\ m \notin crowded \cup epoch
    BY <1>0, <1>0a, <1>2, <1>3
  <2> QED
    BY <1>2, <2>1, PushedKeptOnce DEF AloneInv, DoneOnce
<1> QED
  BY <1>5, <1>6, <1>7, <1>8, <1>10, <1>11 DEF AloneInv

\* A step in the middle of an epoch.
LEMMA EpochKept ==
    ASSUME AloneInv, Busy, Busy', UNCHANGED <<epoch, crowded>>
    PROVE  BusyEpoch' /\ CrowdedTogether' /\ (\A m : Alone(m)' => Alone(m))
  BY DEF AloneInv, BusyEpoch, CrowdedTogether, Alone

LEMMA DoneKept ==
    ASSUME AloneInv, UNCHANGED <<epoch, crowded, accepted, pushed>>
    PROVE  DoneOnce'
  BY PushedKeptOnce DEF AloneInv, DoneOnce

\* A task goes on with its message; it may write a field.
LEMMA AloneWriting ==
    ASSUME TypeOK, FieldInv, AloneInv, NEW w \in Writers, Stamp(w) \/ WriteField(w)
    PROVE  AloneInv'
<1>1. /\ writer[w].at \notin {"idle", "push", "done"} /\ writer'[w].at \notin {"idle", "push"}
      /\ writer'[w].kind = writer[w].kind /\ writer'[w].id = writer[w].id
      /\ \A v \in Writers \ {w} : writer'[v] = writer[v]
  BY PlaceStep, WriteFieldStep, AfterType DEF Stamp, Fields
<1>2. UNCHANGED <<flag, push, turn, accepted, pushed, epoch, crowded>>
  BY DEF Stamp, WriteField, historyVars
<1>3. Busy /\ Busy'
  BY <1>1 DEF Busy
<1>4. writer[w].id \in epoch /\ \A f \in Passed(writer[w].kind, writer[w].at) : temp[f] \in epoch
  BY <1>1 DEF AloneInv, Fresh, FreshWriter
<1>5. \A f \in Fields : temp[f] \in epoch => temp'[f] \in epoch
  BY <1>4, WriteFieldStep DEF Stamp
<1>6. \A f \in Passed(writer'[w].kind, writer'[w].at) : temp'[f] \in epoch
  <2>1. CASE Stamp(w)
    BY <2>1, PlaceStep, PassedNone DEF Stamp
  <2>2. CASE WriteField(w)
    <3> DEFINE g == writer[w].at
               k == writer[w].kind
    <3>1. /\ g \in Fields /\ writer'[w].at = After(k, g) /\ writer'[w].kind = k
          /\ temp'[g] = writer[w].id
      BY <2>2, WriteFieldStep
    <3>2. k \in AllKinds /\ g \in FieldsOf(k)
      BY <1>1, <3>1, WriterFields DEF FieldInv, WriterValid
    <3>3. Passed(k, After(k, g)) \subseteq Passed(k, g) \cup {g} /\ Passed(k, g) \subseteq Fields
      BY <3>2, FieldsFacts
    <3> QED
      BY <1>4, <1>5, <3>1, <3>3
  <2> QED
    BY <2>1, <2>2
<1>7. Fresh'
  <2>1. /\ \A v \in Writers : Passed(writer[v].kind, writer[v].at) \subseteq Fields
        /\ \A k \in Kinds : FieldsOf(k) \subseteq Fields
        /\ \A p \in Pushers : FieldsOf(push[p].kind) \subseteq Fields
    BY WriterFields, PushFields, FieldsFacts DEF AllKinds
  <2>2. FreshWriter'
    BY <1>1, <1>2, <1>4, <1>5, <1>6, <2>1 DEF AloneInv, Fresh, FreshWriter
  <2>3. FreshFlag'
    BY <1>2, <1>5, <2>1 DEF AloneInv, Fresh, FreshFlag
  <2>4. FreshPush'
    BY <1>2, <1>5, <2>1 DEF AloneInv, Fresh, FreshPush
  <2> QED
    BY <2>2, <2>3, <2>4 DEF Fresh
<1>8. Roles'
  <2>1. CASE w = Starter
    <3>1. push["starter"].at = "idle"
      BY <1>1, <2>1 DEF AloneInv, Roles
    <3> QED
      BY <1>1, <1>2, <2>1, <3>1 DEF AloneInv, Roles
  <2>2. CASE w # Starter
    BY <1>1, <1>2, <2>2, ConstantsType DEF AloneInv, Roles
  <2> QED
    BY <2>1, <2>2
<1>9. Stage'
  <2> SUFFICES ASSUME NEW m \in 1..Len(accepted'), Alone(m)' PROVE BeingWritten(m)'
    BY DEF Stage
  <2>1. BeingWritten(m) \/ Announced(m) \/ Started(m)
    BY <1>2, <1>3, EpochKept DEF AloneInv, Stage
  <2>2. BeingWritten(m)
    BY <1>1, <2>1, ConstantsType DEF Announced, Started
  <2>3. \A v \in Writers \ {w} : writer[v].at = "idle"
    BY <1>1, <2>2 DEF BeingWritten
  <2>4. NotPushed(m)'
    BY <1>2, <2>2, PushedKeptOnce DEF BeingWritten
  <2> QED
    BY <1>1, <1>2, <2>2, <2>3, <2>4 DEF BeingWritten
<1> QED
  BY <1>2, <1>3, <1>7, <1>8, <1>9, EpochKept, DoneKept DEF AloneInv

LEMMA AloneRaise ==
    ASSUME TypeOK, FieldInv, AloneInv, NEW w \in Writers, RaiseFlag(w)
    PROVE  AloneInv'
<1> DEFINE k == writer[w].kind
<1>1. /\ writer[w].at = "done" /\ writer'[w].at = "idle"
      /\ \A v \in Writers \ {w} : writer'[v] = writer[v]
  BY RestStep DEF RaiseFlag, NoMessage
<1>2. UNCHANGED <<temp, push, turn, accepted, pushed, epoch, crowded>>
  BY DEF RaiseFlag, historyVars
<1>3. /\ k \in Kinds /\ flag'[k] /\ flag' = [flag EXCEPT ![k] = TRUE]
      /\ \A j \in Kinds \ {k} : flag'[j] = flag[j]
  BY WriterFields DEF RaiseFlag, AllKinds, TypeOK
<1>4. Busy /\ Busy'
  BY <1>1, <1>3 DEF Busy
<1>5. /\ writer[w].id \in epoch /\ accepted[writer[w].id] = k
      /\ \A f \in FieldsOf(k) : temp[f] \in epoch
  BY <1>1, PassedNone DEF AloneInv, Fresh, FreshWriter, FieldInv, WriterValid
<1>6. Fresh'
  <2>1. FreshWriter'
    BY <1>1, <1>2 DEF AloneInv, Fresh, FreshWriter
  <2>2. FreshFlag'
    BY <1>2, <1>3, <1>5 DEF AloneInv, Fresh, FreshFlag
  <2>3. FreshPush'
    BY <1>2 DEF AloneInv, Fresh, FreshPush
  <2> QED
    BY <2>1, <2>2, <2>3 DEF Fresh
<1>7. Roles'
  <2>1. turn \in Kinds /\ (flag[turn] => flag'[turn])
    BY <1>3 DEF TypeOK
  <2>2. w = Starter => push["starter"].at = "idle"
    BY <1>1 DEF AloneInv, Roles
  <2> QED
    BY <1>1, <1>2, <2>1, <2>2, ConstantsType DEF AloneInv, Roles
<1>8. Stage'
  <2> SUFFICES ASSUME NEW m \in 1..Len(accepted'), Alone(m)' PROVE Announced(m)'
    BY DEF Stage
  <2>1. Alone(m) /\ (BeingWritten(m) \/ Announced(m) \/ Started(m))
    BY <1>2, <1>4, EpochKept DEF AloneInv, Stage
  <2>2. BeingWritten(m)
    BY <1>1, <2>1, ConstantsType DEF Announced, Started
  <2>3. accepted[m] = k
    BY <1>5, <2>1 DEF Alone
  <2>4. \A v \in Writers : writer'[v].at = "idle"
    BY <1>1, <2>2 DEF BeingWritten
  <2>5. NotPushed(m)'
    BY <1>2, <2>2, PushedKeptOnce DEF BeingWritten
  <2>6. push["server"].at = "idle" /\ push["starter"].at = "idle" /\ \A j \in Kinds : ~flag[j]
    BY <2>2 DEF BeingWritten, Pushers
  <2> QED
    BY <1>2, <1>3, <2>3, <2>4, <2>5, <2>6 DEF Announced
<1> QED
  BY <1>2, <1>4, <1>6, <1>7, <1>8, EpochKept, DoneKept DEF AloneInv

LEMMA AloneStart ==
    ASSUME TypeOK, FieldInv, AloneInv, StartPush
    PROVE  AloneInv'
<1>0. Starter \in Writers /\ "starter" \in Pushers /\ "server" \in Pushers
  BY ConstantsType DEF Pushers
<1>1. /\ writer[Starter].at = "done" /\ writer'[Starter].at = "push"
      /\ writer[Starter].kind = "start" /\ writer'[Starter].kind = "start"
      /\ writer'[Starter].id = writer[Starter].id
      /\ \A v \in Writers \ {Starter} : writer'[v] = writer[v]
  BY <1>0, PlaceStep DEF StartPush
<1>2. UNCHANGED <<temp, flag, turn, accepted, pushed, epoch, crowded>>
  BY DEF StartPush, historyVars
<1>3. /\ push'["starter"].at = "wait" /\ push'["starter"].kind = "start"
      /\ push'["server"] = push["server"]
      /\ \A q \in Pushers \ {"starter"} : push'[q] = push[q]
  BY <1>0, PushRecords, PushUpdated DEF StartPush, AllKinds
<1>4. Busy /\ Busy'
  BY <1>0, <1>1 DEF Busy
<1>5. /\ writer[Starter].id \in epoch /\ accepted[writer[Starter].id] = "start"
      /\ \A f \in FieldsOf("start") : temp[f] \in epoch
  BY <1>0, <1>1, PassedNone DEF AloneInv, Fresh, FreshWriter, FieldInv, WriterValid
<1>6. Fresh'
  <2>1. FreshWriter'
    BY <1>0, <1>1, <1>2, <1>5, PassedNone DEF AloneInv, Fresh, FreshWriter
  <2>2. FreshFlag'
    BY <1>2 DEF AloneInv, Fresh, FreshFlag
  <2>3. FreshPush'
    BY <1>2, <1>3, <1>5, PassedNone DEF AloneInv, Fresh, FreshPush
  <2> QED
    BY <2>1, <2>2, <2>3 DEF Fresh
<1>7. Roles'
  BY <1>1, <1>2, <1>3 DEF AloneInv, Roles
<1>8. Stage'
  <2> SUFFICES ASSUME NEW m \in 1..Len(accepted'), Alone(m)' PROVE Started(m)'
    BY DEF Stage
  <2>1. Alone(m) /\ (BeingWritten(m) \/ Announced(m) \/ Started(m))
    BY <1>2, <1>4, EpochKept DEF AloneInv, Stage
  <2>2. BeingWritten(m)
    BY <1>0, <1>1, <2>1 DEF Announced, Started
  <2>3. accepted[m] = "start"
    BY <1>5, <2>1 DEF Alone
  <2>4. \A v \in Writers \ {Starter} : writer'[v].at = "idle"
    BY <1>0, <1>1, <2>2 DEF BeingWritten
  <2>5. NotPushed(m)'
    BY <1>2, <2>2, PushedKeptOnce DEF BeingWritten
  <2> QED
    BY <1>0, <1>1, <1>2, <1>3, <2>2, <2>3, <2>4, <2>5 DEF BeingWritten, Started
<1> QED
  BY <1>2, <1>4, <1>6, <1>7, <1>8, EpochKept, DoneKept DEF AloneInv

LEMMA AloneLook ==
    ASSUME TypeOK, AloneInv, Look
    PROVE  AloneInv'
<1>0. /\ "starter" \in Pushers /\ "server" \in Pushers /\ turn \in Kinds
      /\ Pushers = {"server", "starter"}
  BY DEF Pushers, TypeOK
<1>1. UNCHANGED <<temp, flag, writer, accepted, pushed, epoch, crowded>> /\ push["server"].at = "idle"
  BY DEF Look, historyVars
<1>2. CASE flag[turn]
  <2>1. /\ push'["server"].at = "wait" /\ push'["server"].kind = turn
        /\ \A q \in Pushers \ {"server"} : push'[q] = push[q]
        /\ push'["starter"] = push["starter"] /\ turn' = turn
    BY <1>0, <1>2, PushRecords, PushUpdated DEF Look, AllKinds
  <2>2. Busy /\ Busy'
    BY <1>0, <1>1, <1>2, <2>1 DEF Busy
  <2>3. Fresh'
    <3>1. \A f \in FieldsOf(turn) : temp[f] \in epoch
      BY <1>0, <1>2 DEF AloneInv, Fresh, FreshFlag
    <3>2. FreshWriter' /\ FreshFlag'
      BY <1>1 DEF AloneInv, Fresh, FreshWriter, FreshFlag
    <3>3. FreshPush'
      BY <1>1, <2>1, <3>1, PassedNone DEF AloneInv, Fresh, FreshPush
    <3> QED
      BY <3>2, <3>3 DEF Fresh
  <2>4. Roles'
    BY <1>1, <1>2, <2>1 DEF AloneInv, Roles
  <2>5. Stage'
    <3> SUFFICES ASSUME NEW m \in 1..Len(accepted'), Alone(m)' PROVE Announced(m)'
      BY DEF Stage
    <3>1. BeingWritten(m) \/ Announced(m) \/ Started(m)
      BY <1>1, <2>2, EpochKept DEF AloneInv, Stage
    <3>2. Announced(m)
      BY <1>0, <1>2, <3>1 DEF BeingWritten, Started
    <3>3. NotPushed(m)'
      BY <1>1, <3>2, PushedKeptOnce DEF Announced
    <3> QED
      BY <1>1, <2>1, <3>2, <3>3 DEF Announced
  <2> QED
    BY <1>1, <2>2, <2>3, <2>4, <2>5, EpochKept, DoneKept DEF AloneInv
<1>3. CASE ~flag[turn]
  <2>1. UNCHANGED push
    BY <1>3 DEF Look
  <2>2. BusyEpoch' /\ CrowdedTogether' /\ Fresh'
    BY <1>1, <2>1 DEF AloneInv, BusyEpoch, Busy, CrowdedTogether, Fresh, FreshWriter, FreshFlag, FreshPush
  <2>3. Roles'
    BY <1>1, <2>1 DEF AloneInv, Roles
  <2>4. Stage'
    BY <1>1, <2>1, PushedKeptOnce
    DEF AloneInv, Stage, Alone, BeingWritten, Announced, Started
  <2> QED
    BY <1>1, <2>2, <2>3, <2>4, DoneKept DEF AloneInv
<1> QED
  BY <1>2, <1>3

\* A push reads on.
LEMMA AloneReading ==
    ASSUME TypeOK, FieldInv, AloneInv, NEW p \in Pushers, AwaitReady(p) \/ ReadField(p)
    PROVE  AloneInv'
<1>0. Pushers = {"server", "starter"}
  BY DEF Pushers
<1>1. UNCHANGED <<temp, flag, writer, turn, accepted, pushed, epoch, crowded>>
  BY DEF AwaitReady, ReadField, historyVars
<1>2. /\ push[p].at \notin {"idle", "lower"} /\ push'[p].at \notin {"idle", "lower"}
      /\ push'[p].kind = push[p].kind /\ \A q \in Pushers \ {p} : push'[q] = push[q]
  BY AwaitStep, ReadFieldStep, AfterType DEF AwaitReady, Fields
<1>3. Busy /\ Busy'
  BY <1>2 DEF Busy
<1>4. /\ \A f \in FieldsOf(push[p].kind) : temp[f] \in epoch
      /\ \A f \in Passed(push[p].kind, push[p].at) : push[p].rec[f] \in epoch
  BY <1>2 DEF AloneInv, Fresh, FreshPush
<1>5. \A f \in Passed(push'[p].kind, push'[p].at) : push'[p].rec[f] \in epoch
  <2>1. CASE AwaitReady(p)
    BY <2>1, AwaitStep, PassedNone DEF AwaitReady
  <2>2. CASE ReadField(p)
    <3> DEFINE g == push[p].at
               k == push[p].kind
    <3>1. /\ g \in Fields /\ push'[p].at = After(k, g) /\ push'[p].kind = k
          /\ push'[p].rec[g] = temp[g]
          /\ \A f \in Fields \ {g} : push'[p].rec[f] = push[p].rec[f]
      BY <2>2, ReadFieldStep
    <3>2. k \in AllKinds /\ g \in FieldsOf(k)
      BY <1>2, <3>1, PushFields DEF FieldInv, PushValid
    <3>3. Passed(k, After(k, g)) \subseteq Passed(k, g) \cup {g} /\ Passed(k, g) \subseteq Fields
      BY <3>2, FieldsFacts
    <3> QED
      BY <1>4, <3>1, <3>2, <3>3
  <2> QED
    BY <2>1, <2>2
<1>6. Fresh'
  <2>1. FreshWriter' /\ FreshFlag'
    BY <1>1 DEF AloneInv, Fresh, FreshWriter, FreshFlag
  <2>2. FreshPush'
    BY <1>1, <1>2, <1>4, <1>5 DEF AloneInv, Fresh, FreshPush
  <2> QED
    BY <2>1, <2>2 DEF Fresh
<1>7. Roles'
  BY <1>0, <1>1, <1>2 DEF AloneInv, Roles
<1>8. Stage'
  <2> SUFFICES ASSUME NEW m \in 1..Len(accepted'), Alone(m)' PROVE Announced(m)' \/ Started(m)'
    BY DEF Stage
  <2>1. BeingWritten(m) \/ Announced(m) \/ Started(m)
    BY <1>1, <1>3, EpochKept DEF AloneInv, Stage
  <2>2. ~BeingWritten(m)
    BY <1>2 DEF BeingWritten
  <2>3. ASSUME Announced(m) PROVE Announced(m)'
    <3>1. p = "server"
      BY <1>0, <1>2, <2>3 DEF Announced
    <3>2. NotPushed(m)'
      BY <1>1, <1>2, <2>3, <3>1, PushedKeptOnce DEF Announced
    <3> QED
      BY <1>0, <1>1, <1>2, <2>3, <3>1, <3>2 DEF Announced
  <2>4. ASSUME Started(m) PROVE Started(m)'
    <3>1. p = "starter"
      BY <1>0, <1>2, <2>4 DEF Started
    <3>2. NotPushed(m)'
      BY <1>1, <2>4, PushedKeptOnce DEF Started
    <3> QED
      BY <1>0, <1>1, <1>2, <2>4, <3>1, <3>2 DEF Started
  <2> QED
    BY <2>1, <2>2, <2>3, <2>4
<1> QED
  BY <1>1, <1>3, <1>6, <1>7, <1>8, EpochKept, DoneKept DEF AloneInv

\* firebase_task pushes: its flag stays raised.
LEMMA AlonePushServer ==
    ASSUME TypeOK, AloneInv, Push("server")
    PROVE  AloneInv'
<1>0. Pushers = {"server", "starter"} /\ turn \in Kinds /\ "server" \in Pushers
  BY DEF Pushers, TypeOK
<1>1. /\ UNCHANGED <<temp, flag, writer, turn, accepted, crowded>> /\ Rest
      /\ push["server"].at = "done" /\ push' = [push EXCEPT !["server"].at = "lower"]
  BY DEF Push
<1>2. /\ push'["server"].at = "lower" /\ push'["server"].kind = push["server"].kind
      /\ push'["starter"] = push["starter"]
      /\ \A q \in Pushers \ {"server"} : push'[q] = push[q]
  BY <1>0, <1>1, AwaitStep
<1>3. flag[turn] /\ push["server"].kind = turn
  BY <1>1 DEF AloneInv, Roles
<1>4. Busy /\ Busy' /\ epoch' = epoch
  BY <1>0, <1>1, <1>3 DEF Busy, Rest
<1>5. \A f \in FieldsOf(turn) : push["server"].rec[f] \in epoch
  BY <1>0, <1>1, <1>3, PassedNone DEF AloneInv, Fresh, FreshPush
<1>6. Fresh'
  <2>1. FreshWriter' /\ FreshFlag'
    BY <1>1, <1>4 DEF AloneInv, Fresh, FreshWriter, FreshFlag
  <2>2. FreshPush'
    BY <1>1, <1>2, <1>4 DEF AloneInv, Fresh, FreshPush
  <2> QED
    BY <2>1, <2>2 DEF Fresh
<1>7. Roles'
  BY <1>1, <1>2, <1>3 DEF AloneInv, Roles
<1>8. Stage'
  <2> SUFFICES ASSUME NEW m \in 1..Len(accepted'), Alone(m)' PROVE Announced(m)'
    BY DEF Stage
  <2>1. Alone(m) /\ (BeingWritten(m) \/ Announced(m) \/ Started(m))
    BY <1>1, <1>4, EpochKept DEF AloneInv, Stage
  <2>2. Announced(m) /\ accepted[m] = turn /\ NotPushed(m)
    BY <1>0, <1>1, <1>3, <2>1 DEF BeingWritten, Announced, Started
  <2>3. \A f \in FieldsOf(turn) : push["server"].rec[f] = m
    BY <1>5, <2>1 DEF Alone
  <2>4. PushedOnce(m)'
    BY <1>0, <1>3, <2>2, <2>3, PushedAppended
  <2> QED
    BY <1>1, <1>2, <2>2, <2>4 DEF Announced
<1>9. DoneOnce'
  <2> SUFFICES ASSUME NEW m \in 1..Len(accepted), m \notin crowded \cup epoch
               PROVE  PushedOnce(m)'
    BY <1>1, <1>4 DEF DoneOnce
  <2>1. \A f \in FieldsOf(push["server"].kind) : push["server"].rec[f] # m
    BY <1>3, <1>5
  <2> QED
    BY <1>0, <2>1, PushedAppended DEF AloneInv, DoneOnce
<1> QED
  BY <1>1, <1>4, <1>6, <1>7, <1>8, <1>9, EpochKept DEF AloneInv

\* The end of an epoch.
LEMMA EpochEnds ==
    ASSUME AloneInv, Busy, Rest, UNCHANGED crowded
    PROVE  /\ BusyEpoch' /\ CrowdedTogether' /\ (\A m : Alone(m)' => Alone(m) /\ Busy')
           /\ Busy' => epoch' = epoch
           /\ ~Busy' => epoch' = {}
  BY DEF AloneInv, BusyEpoch, CrowdedTogether, Alone, Rest

LEMMA AlonePushStarter ==
    ASSUME TypeOK, AloneInv, Push("starter")
    PROVE  AloneInv'
<1>0. /\ Pushers = {"server", "starter"} /\ "starter" \in Pushers /\ Starter \in Writers
      /\ epoch \subseteq 1..Len(accepted)
  BY ConstantsType DEF Pushers, TypeOK
<1>1. /\ UNCHANGED <<temp, flag, turn, accepted, crowded>> /\ Rest
      /\ push["starter"].at = "done" /\ push' = [push EXCEPT !["starter"] = NoPush]
      /\ writer' = [writer EXCEPT ![Starter] = NoMessage]
  BY DEF Push
<1>2. /\ push'["starter"].at = "idle" /\ push'["server"] = push["server"]
      /\ \A q \in Pushers \ {"starter"} : push'[q] = push[q]
  BY <1>0, <1>1, PushRecords, PushUpdated
<1>3. /\ writer'[Starter].at = "idle" /\ \A v \in Writers \ {Starter} : writer'[v] = writer[v]
  BY <1>0, <1>1, RestStep DEF NoMessage
<1>4. writer[Starter].at = "push" /\ push["starter"].kind = "start"
  BY <1>1 DEF AloneInv, Roles
<1>5. Busy
  BY <1>0, <1>1 DEF Busy
<1>6. \A f \in FieldsOf("start") : push["starter"].rec[f] \in epoch
  BY <1>0, <1>1, <1>4, PassedNone DEF AloneInv, Fresh, FreshPush
<1>7. Fresh'
  <2>1. CASE Busy'
    <3>1. epoch' = epoch
      BY <1>1, <1>5, <2>1, EpochEnds
    <3> QED
      BY <1>1, <1>2, <1>3, <3>1 DEF AloneInv, Fresh, FreshWriter, FreshFlag, FreshPush
  <2>2. CASE ~Busy'
    BY <2>2 DEF Busy, Fresh, FreshWriter, FreshFlag, FreshPush
  <2> QED
    BY <2>1, <2>2
<1>8. Roles'
  BY <1>0, <1>1, <1>2, <1>3 DEF AloneInv, Roles
<1>9. \A m \in 1..Len(accepted) : Alone(m) => Started(m)
  BY <1>0, <1>4 DEF AloneInv, Stage, BeingWritten, Announced
<1>10. \A m \in 1..Len(accepted) : Alone(m) => ~Busy'
  BY <1>0, <1>1, <1>2, <1>3, <1>9 DEF Started, Busy
<1>11. Stage'
  BY <1>1, <1>5, <1>10, EpochEnds DEF Stage
<1>12. DoneOnce'
  <2> SUFFICES ASSUME NEW m \in 1..Len(accepted), m \notin crowded, m \notin epoch'
               PROVE  PushedOnce(m)'
    BY <1>1 DEF DoneOnce
  <2>1. CASE m \in epoch
    <3>1. Alone(m)
      BY <2>1 DEF AloneInv, CrowdedTogether, Alone
    <3>2. /\ accepted[m] = "start" /\ NotPushed(m)
          /\ \A f \in FieldsOf("start") : push["starter"].rec[f] = m
      BY <1>6, <1>9, <3>1 DEF Alone, Started
    <3> QED
      BY <1>0, <1>4, <3>2, PushedAppended
  <2>2. CASE m \notin epoch
    <3>1. \A f \in FieldsOf(push["starter"].kind) : push["starter"].rec[f] # m
      BY <1>4, <1>6, <2>2
    <3> QED
      BY <1>0, <2>2, <3>1, PushedAppended DEF AloneInv, DoneOnce
  <2> QED
    BY <2>1, <2>2
<1> QED
  BY <1>1, <1>5, <1>7, <1>8, <1>11, <1>12, EpochEnds DEF AloneInv

LEMMA AloneLower ==
    ASSUME TypeOK, AloneInv, LowerFlag
    PROVE  AloneInv'
<1>0. /\ Pushers = {"server", "starter"} /\ "server" \in Pushers /\ turn \in Kinds
      /\ epoch \subseteq 1..Len(accepted)
  BY DEF Pushers, TypeOK
<1>1. /\ UNCHANGED <<temp, writer, accepted, pushed, crowded>> /\ Rest
      /\ push["server"].at = "lower" /\ push' = [push EXCEPT !["server"] = NoPush]
      /\ flag' = [flag EXCEPT ![turn] = FALSE]
  BY DEF LowerFlag
<1>2. /\ push'["server"].at = "idle" /\ push'["starter"] = push["starter"]
      /\ \A q \in Pushers \ {"server"} : push'[q] = push[q]
  BY <1>0, <1>1, PushRecords, PushUpdated
<1>3. ~flag'[turn] /\ \A k \in Kinds \ {turn} : flag'[k] = flag[k]
  BY <1>0, <1>1 DEF TypeOK
<1>4. Busy /\ flag[turn]
  BY <1>0, <1>1 DEF Busy, AloneInv, Roles
<1>5. Fresh'
  <2>1. CASE Busy'
    <3>1. epoch' = epoch
      BY <1>1, <1>4, <2>1, EpochEnds
    <3> QED
      BY <1>1, <1>2, <1>3, <3>1 DEF AloneInv, Fresh, FreshWriter, FreshFlag, FreshPush
  <2>2. CASE ~Busy'
    BY <2>2 DEF Busy, Fresh, FreshWriter, FreshFlag, FreshPush
  <2> QED
    BY <2>1, <2>2
<1>6. Roles'
  BY <1>1, <1>2 DEF AloneInv, Roles
<1>7. \A m \in 1..Len(accepted) : Alone(m) => Announced(m) /\ PushedOnce(m)
  BY <1>0, <1>1, <1>4 DEF AloneInv, Stage, BeingWritten, Announced, Started
<1>8. \A m \in 1..Len(accepted) : Alone(m) => ~Busy'
  <2> SUFFICES ASSUME NEW m \in 1..Len(accepted), Announced(m) PROVE ~Busy'
    BY <1>7
  <2>1. \A k \in Kinds : ~flag'[k]
    BY <1>0, <1>3, <1>4 DEF Announced
  <2>2. \A p \in Pushers : push'[p].at = "idle"
    BY <1>0, <1>2 DEF Announced
  <2> QED
    BY <1>1, <2>1, <2>2 DEF Announced, Busy
<1>9. Stage'
  BY <1>1, <1>4, <1>8, EpochEnds DEF Stage
<1>10. DoneOnce'
  <2> SUFFICES ASSUME NEW m \in 1..Len(accepted), m \notin crowded
               PROVE  PushedOnce(m)' \/ m \in epoch'
    BY <1>1 DEF DoneOnce
  <2>1. m \in epoch => PushedOnce(m)
    BY <1>7 DEF AloneInv, CrowdedTogether, Alone
  <2>2. PushedOnce(m)
    BY <2>1 DEF AloneInv, DoneOnce
  <2> QED
    BY <1>1, <2>2, PushedKeptOnce
<1> QED
  BY <1>1, <1>4, <1>5, <1>6, <1>9, <1>10, EpochEnds DEF AloneInv

LEMMA AloneNext ==
    ASSUME TypeOK, FieldInv, AloneInv, [Next]_vars
    PROVE  AloneInv'
<1>0. Starter \in Writers /\ Pushers = {"server", "starter"}
  BY ConstantsType DEF Pushers
<1>1. ASSUME UNCHANGED <<temp, flag, writer, push, turn, accepted, pushed, epoch, crowded>>
      PROVE  AloneInv'
  <2>1. BusyEpoch' /\ CrowdedTogether' /\ Fresh'
    BY <1>1 DEF AloneInv, BusyEpoch, Busy, CrowdedTogether, Fresh, FreshWriter, FreshFlag, FreshPush
  <2>2. Roles'
    BY <1>1 DEF AloneInv, Roles
  <2>3. Stage'
    BY <1>1, PushedKeptOnce DEF AloneInv, Stage, Alone, BeingWritten, Announced, Started
  <2> QED
    BY <1>1, <2>1, <2>2, <2>3, DoneKept DEF AloneInv
<1>2. ASSUME NEW w \in Writers, NEW k \in Kinds, Log(w, k) PROVE AloneInv'
  BY <1>2, AloneAccept DEF Log, AllKinds
<1>3. CASE StartLog
  BY <1>0, <1>3, AloneAccept DEF StartLog, AllKinds
<1>4. ASSUME NEW w \in Writers, Writing(w) PROVE AloneInv'
  BY <1>4, AloneWriting, AloneRaise DEF Writing
<1>5. CASE Tick
  BY <1>1, <1>5 DEF Tick, historyVars
<1>6. CASE UNCHANGED vars
  BY <1>1, <1>6 DEF vars, historyVars
<1>7. ASSUME NEW p \in Pushers, AwaitReady(p) \/ Pushing(p) PROVE AloneInv'
  BY <1>0, <1>7, AloneReading, AlonePushServer, AlonePushStarter DEF Pushing
<1> QED
  BY <1>0, <1>2, <1>3, <1>4, <1>5, <1>6, <1>7, AloneStart, AloneLook, AloneLower
  DEF Next, firebaseTask

\* Messages that came after one of the epoch are of it too.
Closed == \A n \in epoch, m \in 1..Len(accepted) : n < m => m \in epoch

\* Messages that met no other are pushed in the order in which they were accepted.
InOrder ==
    \A n, m \in (1..Len(accepted)) \ crowded : n < m =>
        \A i, j \in DOMAIN pushed : Holds(pushed[i], n) /\ Holds(pushed[j], m) => i < j

OrderInv == Closed /\ InOrder

LEMMA OrderKept ==
    ASSUME OrderInv, UNCHANGED <<accepted, crowded, pushed>>, epoch' = epoch \/ epoch' = {}
    PROVE  OrderInv'
  BY DEF OrderInv, Closed, InOrder, Holds

LEMMA OrderAccept ==
    ASSUME TypeOK, FieldInv, OrderInv, NEW k \in AllKinds, Accept(k), UNCHANGED pushed
    PROVE  OrderInv'
<1>0. epoch \subseteq 1..Len(accepted) /\ Len(accepted) \in Nat
  BY DEF TypeOK
<1>1. PICK last \in Nat : last = Len(accepted) + 1
  BY <1>0
<1>2. Len(accepted') = last /\ epoch' = epoch \cup {last} /\ crowded \subseteq crowded'
  BY <1>1, AcceptStep DEF Accept
<1>3. \A m \in 1..last : m = last \/ m \in 1..Len(accepted)
  BY <1>0, <1>1
<1>4. \A m \in 1..last : ~(last < m)
  BY <1>1
<1>5. Closed'
  BY <1>2, <1>3, <1>4 DEF OrderInv, Closed
<1>6. ASSUME NEW i \in DOMAIN pushed PROVE ~Holds(pushed[i], last)
  <2>1. ASSUME NEW f \in FieldsOf(pushed[i].kind) PROVE pushed[i].rec[f] # last
    <3>1. pushed[i].rec[f] \in 1..Len(accepted)
      BY <2>1 DEF FieldInv, PushedValid, Valid
    <3> QED
      BY <1>0, <1>1, <3>1
  <2> QED
    BY <2>1 DEF Holds
<1>7. InOrder'
  BY <1>2, <1>3, <1>6 DEF OrderInv, InOrder, Holds
<1> QED
  BY <1>5, <1>7 DEF OrderInv

\* A record of messages of the epoch is appended.
LEMMA OrderPush ==
    ASSUME TypeOK, AloneInv, OrderInv, NEW p \in Pushers, Push(p)
    PROVE  OrderInv'
<1>1. PICK last \in Nat : last = Len(pushed) + 1
  BY DEF TypeOK
<1>2. /\ DOMAIN pushed' = 1..last /\ DOMAIN pushed = 1..Len(pushed) /\ Len(pushed) \in Nat
      /\ \A i \in DOMAIN pushed : pushed'[i] = pushed[i]
      /\ pushed'[last].kind = push[p].kind /\ pushed'[last].rec = push[p].rec
  <2>1. pushed'[last] = [kind |-> push[p].kind, rec |-> push[p].rec]
        /\ Len(pushed') = last /\ Len(pushed) \in Nat
    BY <1>1, PushStep
  <2>2. DOMAIN pushed' = 1..Len(pushed') /\ DOMAIN pushed = 1..Len(pushed)
    BY PushStep DEF TypeOK
  <2>3. \A i \in 1..Len(pushed) : pushed'[i] = pushed[i]
    BY PushStep
  <2> QED
    BY <2>1, <2>2, <2>3
<1>3. \A i \in DOMAIN pushed' : i = last \/ (i \in DOMAIN pushed /\ i < last)
  BY <1>1, <1>2
<1>4. UNCHANGED <<accepted, crowded>> /\ (epoch' = epoch \/ epoch' = {})
  BY DEF Push, Rest
<1>5. Closed'
  BY <1>4 DEF OrderInv, Closed
<1>6. ASSUME NEW m, Holds(pushed'[last], m) PROVE m \in epoch
  <2>1. push[p].at = "done"
    BY DEF Push
  <2>2. \A f \in FieldsOf(push[p].kind) : push[p].rec[f] \in epoch
    BY <2>1 DEF AloneInv, Fresh, FreshPush, Passed
  <2> QED
    BY <1>2, <1>6, <2>2 DEF Holds
<1>7. InOrder'
  <2> SUFFICES ASSUME NEW n \in (1..Len(accepted)) \ crowded, NEW m \in (1..Len(accepted)) \ crowded, n < m,
                      NEW i \in DOMAIN pushed', NEW j \in DOMAIN pushed',
                      Holds(pushed'[i], n), Holds(pushed'[j], m)
               PROVE  i < j
    BY <1>4 DEF InOrder, Holds
  <2>1. i # last
    <3> SUFFICES ASSUME i = last PROVE FALSE
      OBVIOUS
    <3>1. n \in epoch
      BY <1>6
    <3>2. m \in epoch
      BY <3>1 DEF OrderInv, Closed
    <3>3. n # m
      OBVIOUS
    <3> QED
      BY <3>1, <3>2, <3>3 DEF AloneInv, CrowdedTogether
  <2>2. i \in DOMAIN pushed /\ i < last
    BY <1>3, <2>1
  <2>3. CASE j = last
    BY <2>2, <2>3
  <2>4. CASE j \in DOMAIN pushed
    BY <1>2, <2>2, <2>4 DEF OrderInv, InOrder
  <2> QED
    BY <1>3, <2>3, <2>4
<1> QED
  BY <1>5, <1>7 DEF OrderInv

LEMMA OrderNext ==
    ASSUME TypeOK, FieldInv, AloneInv, OrderInv, [Next]_vars
    PROVE  OrderInv'
<1>1. ASSUME NEW k \in AllKinds, Accept(k), UNCHANGED pushed PROVE OrderInv'
  BY <1>1, OrderAccept
<1>2. ASSUME NEW p \in Pushers, Push(p) PROVE OrderInv'
  BY <1>2, OrderPush
<1>3. ASSUME UNCHANGED <<accepted, crowded, pushed>>, epoch' = epoch \/ epoch' = {} PROVE OrderInv'
  BY <1>3, OrderKept
<1>4. ASSUME NEW w \in Writers, NEW k \in Kinds, Log(w, k) PROVE OrderInv'
  BY <1>1, <1>4 DEF Log, AllKinds
<1>5. CASE StartLog
  BY <1>1, <1>5 DEF StartLog, AllKinds
<1>6. ASSUME NEW w \in Writers, Writing(w) PROVE OrderInv'
  BY <1>3, <1>6 DEF Writing, Stamp, WriteField, RaiseFlag, historyVars
<1>7. CASE Tick \/ StartPush \/ Look \/ LowerFlag \/ UNCHANGED vars
  BY <1>3, <1>7 DEF Tick, StartPush, Look, LowerFlag, Rest, vars, historyVars
<1>8. ASSUME NEW p \in Pushers, AwaitReady(p) \/ Pushing(p) PROVE OrderInv'
  BY <1>2, <1>3, <1>8 DEF AwaitReady, Pushing, ReadField, historyVars
<1> QED
  BY <1>4, <1>5, <1>6, <1>7, <1>8 DEF Next, firebaseTask, Pushers

LEMMA OrderFollows ==
    ASSUME TypeOK, AloneInv, OrderInv, NEW m \in 1..Len(accepted), m \notin crowded \cup epoch,
           NEW n \in 1..(m - 1), NEW i \in DOMAIN pushed, NEW j \in DOMAIN pushed,
           n \notin crowded, Holds(pushed[i], n), Holds(pushed[j], m)
    PROVE  i < j
<1>1. Len(accepted) \in Nat
  BY DEF TypeOK
<1>2. n \in 1..Len(accepted) /\ n < m
  BY <1>1
<1> QED
  BY <1>2 DEF OrderInv, InOrder

(* A message that found the log at rest, and was left alone until it was at *)
(* rest again, was pushed exactly once, with all its fields, and after      *)
(* those it followed (firebaseAppendUserAction, firebaseTask, START's push).*)
THEOREM AloneSafe == Spec => []AlonePushedOnce
<1>2. ASSUME Init PROVE AloneInv /\ OrderInv
  <2>1. /\ \A w \in Writers : writer[w].at = "idle"
        /\ \A k \in Kinds : ~flag[k]
        /\ \A p \in Pushers : push[p].at = "idle"
        /\ epoch = {} /\ Len(accepted) = 0
    BY <1>2 DEF Init, NoMessage, NoPush
  <2>2. Roles
    BY <2>1, ConstantsType DEF Roles, Pushers
  <2>3. BusyEpoch /\ CrowdedTogether /\ Fresh
    BY <2>1 DEF BusyEpoch, Busy, CrowdedTogether, Fresh, FreshWriter, FreshFlag, FreshPush
  <2>4. Stage /\ DoneOnce
    BY <2>1 DEF Stage, DoneOnce
  <2>5. OrderInv
    BY <2>1 DEF OrderInv, Closed, InOrder
  <2> QED
    BY <2>2, <2>3, <2>4, <2>5 DEF AloneInv
<1>3. TypeOK /\ AloneInv /\ OrderInv => AlonePushedOnce
  <2>1. \A k : FieldsOf(k) # {}
    BY DEF FieldsOf, Fields
  <2> QED
    BY <2>1, OnceCounted, OrderFollows DEF AloneInv, DoneOnce, AlonePushedOnce
<1> QED
  BY <1>2, <1>3, FieldInit, TypeCorrect, FieldNext, AloneNext, OrderNext, PTL DEF Spec

(* ------------------------------------------------------------------------ *)
(* What LogDrains rests on: a raised flag, and a START, wait for so many     *)
(* steps of the task that pushes and no more.                                *)

\* What is left of a push; one that has not begun has all its steps ahead.
Left(s) ==
    IF s = "lower" THEN 0 ELSE IF s = "done" THEN 1 ELSE IF s = "value" THEN 2
    ELSE IF s = "what" THEN 3 ELSE IF s = "action" THEN 4 ELSE IF s = "wait" THEN 5 ELSE 6

\* How many flags firebase_task looks at before it comes to k's.
Ahead(k) ==
    IF turn = k THEN 0
    ELSE IF <<turn, k>> \in {<<"plain", "what">>, <<"what", "value">>, <<"value", "plain">>} THEN 1 ELSE 2

StepsTo(k) == 7 * Ahead(k) + Left(push["server"].at)

DrainStep ==
    /\ \A k \in Kinds : flag[k] /\ flag'[k] =>
          /\ StepsTo(k)' <= StepsTo(k)
          /\ firebaseTask \/ AwaitReady("server") => StepsTo(k)' < StepsTo(k)
    /\ push["starter"].at # "idle" /\ push'["starter"].at # "idle" =>
          /\ Left(push'["starter"].at) <= Left(push["starter"].at)
          /\ Pushing("starter") \/ AwaitReady("starter") =>
                Left(push'["starter"].at) < Left(push["starter"].at)

LEMMA LeftFacts ==
    /\ \A s \in Stages : Left(s) \in 0..6
    /\ \A k \in AllKinds : \A f \in Fields : Left(After(k, f)) < Left(f)
    /\ Left("idle") = 6 /\ Left("wait") = 5 /\ Left("action") = 4 /\ Left("done") = 1 /\ Left("lower") = 0
  BY DEF Left, Stages, After, Fields, AllKinds, Kinds

LEMMA AheadFacts ==
    ASSUME turn \in Kinds, NEW k \in Kinds
    PROVE  /\ Ahead(k) \in 0..2
           /\ turn' = turn => Ahead(k)' = Ahead(k)
           /\ turn' = NextTurn /\ k # turn => Ahead(k)' = Ahead(k) - 1
  BY DEF Ahead, NextTurn, Kinds

LEMMA PlaceTypes ==
    /\ TypeOK => \A p \in Pushers : push[p].at \in Stages
    /\ TypeOK' => \A p \in Pushers : push'[p].at \in Stages
    /\ Pushers = {"server", "starter"}
  BY DEF TypeOK, Stages, Pushers

LEMMA StepsToNat ==
    ASSUME NEW k \in Kinds
    PROVE  (TypeOK => StepsTo(k) \in Nat) /\ (TypeOK' => StepsTo(k)' \in Nat)
<1>1. TypeOK => Left(push["server"].at) \in 0..6
  BY PlaceTypes, LeftFacts
<1>2. TypeOK' => Left(push'["server"].at) \in 0..6
  BY PlaceTypes, LeftFacts
<1>3. Ahead(k) \in 0..2 /\ Ahead(k)' \in 0..2
  BY DEF Ahead
<1>4. (TypeOK => StepsTo(k) \in Nat)
  BY <1>1, <1>3 DEF StepsTo
<1>5. StepsTo(k)' = 7 * Ahead(k)' + Left(push'["server"].at)
  BY DEF StepsTo
<1> QED
  BY <1>2, <1>3, <1>4, <1>5

\* One push goes on.
LEMMA PushingAdvances ==
    ASSUME TypeOK, NEW p \in Pushers, Pushing(p) \/ AwaitReady(p)
    PROVE  \/ Left(push'[p].at) < Left(push[p].at)
           \/ p = "starter" /\ push'[p].at = "idle"
<1>1. CASE ReadField(p)
  BY <1>1, ReadFieldStep, LeftFacts, PushFields DEF ReadField
<1>2. CASE AwaitReady(p)
  <2>1. push[p].at = "wait" /\ push' = [push EXCEPT ![p].at = "action"]
    BY <1>2 DEF AwaitReady
  <2>2. push'[p].at = "action"
    BY <2>1, AwaitStep
  <2> QED
    BY <2>1, <2>2, LeftFacts
<1>3. CASE Push(p)
  <2>1. CASE p = "server"
    BY <1>3, <2>1, AwaitStep, LeftFacts DEF Push
  <2>2. CASE p = "starter"
    BY <1>3, <2>2, PushRecords, PushUpdated DEF Push, Pushers
  <2> QED
    BY <2>1, <2>2 DEF Pushers
<1> QED
  BY <1>1, <1>2, <1>3 DEF Pushing

\* firebase_task comes nearer to the end of each raised flag.
LEMMA ServerAdvances ==
    ASSUME TypeOK, firebaseTask \/ AwaitReady("server"), NEW k \in Kinds, flag[k], flag'[k]
    PROVE  StepsTo(k)' < StepsTo(k)
<1>1. turn \in Kinds /\ "server" \in Pushers /\ "server" # "starter"
  BY DEF TypeOK, Pushers
<1>2. Ahead(k) \in 0..2 /\ Left(push["server"].at) \in 0..6
  BY <1>1, AheadFacts, LeftFacts, PushFields
<1>3. CASE Pushing("server") \/ AwaitReady("server")
  <2>1. UNCHANGED turn
    BY <1>3 DEF Pushing, ReadField, Push, AwaitReady
  <2>2. Left(push'["server"].at) < Left(push["server"].at) /\ Ahead(k)' = Ahead(k)
    BY <1>1, <1>3, <2>1, PushingAdvances, AheadFacts
  <2>3. push'["server"].at \in Stages
    <3>1. Next
      BY <1>1, <1>3 DEF Next, firebaseTask
    <3>2. TypeOK'
      BY <3>1, TypeNext
    <3> QED
      BY <3>2, PlaceTypes
  <2>4. Left(push'["server"].at) \in 0..6
    BY <2>3, LeftFacts
  <2> QED
    BY <1>2, <2>2, <2>4 DEF StepsTo
<1>4. CASE Look
  <2>1. push["server"].at = "idle"
    BY <1>4 DEF Look
  <2>2. CASE flag[turn]
    <3>1. push'["server"].at = "wait" /\ UNCHANGED turn
      BY <1>1, <1>4, <2>2, PushRecords, PushUpdated DEF Look, AllKinds
    <3> QED
      BY <1>1, <1>2, <2>1, <3>1, AheadFacts, LeftFacts DEF StepsTo
  <2>3. CASE ~flag[turn]
    <3>1. push' = push /\ turn' = NextTurn /\ k # turn
      BY <1>4, <2>3 DEF Look
    <3> QED
      BY <1>1, <1>2, <3>1, AheadFacts DEF StepsTo
  <2> QED
    BY <2>2, <2>3
<1>5. CASE LowerFlag
  <2>1. push["server"].at = "lower" /\ turn' = NextTurn /\ push'["server"].at = "idle" /\ k # turn
    BY <1>1, <1>5, PushRecords, PushUpdated DEF LowerFlag, TypeOK
  <2> QED
    BY <1>1, <1>2, <2>1, AheadFacts, LeftFacts DEF StepsTo
<1> QED
  BY <1>3, <1>4, <1>5 DEF firebaseTask

\* A push touches the other one's place not at all.
LEMMA PushesApart ==
    ASSUME TypeOK, NEW p \in Pushers, NEW q \in Pushers \ {p}, Pushing(p) \/ AwaitReady(p)
    PROVE  push'[q] = push[q] /\ UNCHANGED turn
<1>1. CASE ReadField(p)
  BY <1>1, ReadFieldStep DEF ReadField
<1>2. CASE AwaitReady(p)
  BY <1>2, AwaitStep DEF AwaitReady
<1>3. CASE Push(p)
  <2>1. CASE p = "server"
    BY <1>3, <2>1, AwaitStep DEF Push
  <2>2. CASE p = "starter"
    BY <1>3, <2>2, PushRecords, PushUpdated DEF Push, Pushers
  <2> QED
    BY <1>3, <2>1, <2>2 DEF Pushers
<1> QED
  BY <1>1, <1>2, <1>3 DEF Pushing

\* Nobody else takes firebase_task back, nor START.
LEMMA OthersWait ==
    ASSUME TypeOK, StarterPushes, [Next]_vars
    PROVE  /\ \/ firebaseTask \/ AwaitReady("server")
              \/ UNCHANGED turn /\ push'["server"] = push["server"]
           /\ \/ Pushing("starter") \/ AwaitReady("starter") \/ push["starter"].at = "idle"
              \/ push'["starter"] = push["starter"]
<1>0. Pushers = {"server", "starter"} /\ "server" # "starter"
  BY DEF Pushers
<1>1. CASE firebaseTask \/ AwaitReady("server")
  <2>1. CASE Pushing("server") \/ AwaitReady("server")
    BY <1>0, <1>1, <2>1, PushesApart
  <2>2. CASE Look
    <3>1. push' = push \/ push' = [push EXCEPT !["server"] = Waiting(turn)]
      BY <2>2 DEF Look
    <3> QED
      BY <1>0, <1>1, <3>1 DEF TypeOK
  <2>3. CASE LowerFlag
    BY <1>0, <1>1, <2>3, PushRecords, PushUpdated DEF LowerFlag
  <2> QED
    BY <1>1, <2>1, <2>2, <2>3 DEF firebaseTask
<1>2. CASE Pushing("starter") \/ AwaitReady("starter")
  BY <1>0, <1>2, PushesApart
<1>3. CASE StartPush
  <2>1. push["starter"].at = "idle"
    BY <1>3 DEF StartPush, StarterPushes
  <2>2. UNCHANGED turn /\ push' = [push EXCEPT !["starter"] = Waiting("start")]
    BY <1>3 DEF StartPush
  <2>3. push'["server"] = push["server"]
    BY <1>0, <2>2 DEF TypeOK
  <2> QED
    BY <2>1, <2>2, <2>3
<1>4. CASE UNCHANGED <<push, turn>>
  BY <1>4
<1>5. CASE Tick \/ StartLog \/ UNCHANGED vars
  BY <1>4, <1>5 DEF Tick, StartLog, vars
<1>6. ASSUME NEW w \in Writers, Writing(w) \/ \E k \in Kinds : Log(w, k)
      PROVE  UNCHANGED <<push, turn>>
  BY <1>6 DEF Writing, Stamp, WriteField, RaiseFlag, Log
<1> QED
  BY <1>0, <1>1, <1>2, <1>3, <1>4, <1>5, <1>6 DEF Next

(* Each step of firebase_task brings every raised flag nearer to its being  *)
(* lowered, within twenty steps and no matter what is logged meanwhile, and *)
(* nothing sets it back; the same holds of START's own push (firebaseTask). *)
THEOREM DrainAdvances == Spec => [][DrainStep]_vars
<1>1. ASSUME TypeOK, TypeOK', StarterPushes, [Next]_vars PROVE DrainStep
  <2>1. ASSUME NEW k \in Kinds, flag[k], flag'[k]
        PROVE  /\ StepsTo(k)' <= StepsTo(k)
               /\ firebaseTask \/ AwaitReady("server") => StepsTo(k)' < StepsTo(k)
    <3>1. StepsTo(k) \in Nat /\ StepsTo(k)' \in Nat
      BY <1>1, StepsToNat
    <3>2. CASE firebaseTask \/ AwaitReady("server")
      BY <1>1, <2>1, <3>1, <3>2, ServerAdvances
    <3>3. CASE ~(firebaseTask \/ AwaitReady("server"))
      <4>1. UNCHANGED turn /\ push'["server"] = push["server"]
        BY <1>1, <3>3, OthersWait
      <4>2. StepsTo(k)' = StepsTo(k)
        BY <4>1 DEF StepsTo, Ahead
      <4> QED
        BY <3>1, <3>3, <4>2
    <3> QED
      BY <3>2, <3>3
  <2>2. ASSUME push["starter"].at # "idle", push'["starter"].at # "idle"
        PROVE  /\ Left(push'["starter"].at) <= Left(push["starter"].at)
               /\ Pushing("starter") \/ AwaitReady("starter") =>
                     Left(push'["starter"].at) < Left(push["starter"].at)
    <3>1. Left(push["starter"].at) \in 0..6 /\ Left(push'["starter"].at) \in 0..6
      BY <1>1, LeftFacts, PlaceTypes
    <3>2. CASE Pushing("starter") \/ AwaitReady("starter")
      BY <1>1, <2>2, <3>1, <3>2, PushingAdvances DEF Pushers
    <3>3. CASE ~(Pushing("starter") \/ AwaitReady("starter"))
      <4>1. push'["starter"] = push["starter"]
        BY <1>1, <2>2, <3>3, OthersWait
      <4> QED
        BY <3>1, <3>3, <4>1
    <3> QED
      BY <3>2, <3>3
  <2> QED
    BY <2>1, <2>2 DEF DrainStep
<1>2. LimitInv => StarterPushes
  BY DEF LimitInv
<1> QED
  BY <1>1, <1>2, TypeCorrect, LimitInit, LimitNext, PTL DEF Spec
=============================================================================
