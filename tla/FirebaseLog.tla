----------------------------- MODULE FirebaseLog -----------------------------
(***************************************************************************)
(* The log of what the user does.  A task that logs writes the fields of   *)
(* its message to variables that all share and raises the flag of its kind *)
(* of message, at most one a second; firebase_task looks at the three      *)
(* flags in turn, builds a record of the fields as they are then, pushes   *)
(* it and lowers the flag.  START pushes from the touch task, without a    *)
(* flag and without the limit.  The data object and its deletion are the   *)
(* subject of BehaviorSession; here a push comes to an end.                *)
(***************************************************************************)
EXTENDS Integers, Sequences, FiniteSets

CONSTANTS
    Writers,       \* tasks that log: touch, encoder_task, behavior_task
    Starter,       \* the one of them that presses START: touch
    Interval,      \* no message within this after one: 1000 ms
    Wide,          \* millis() and its sums count modulo this: 2^32
    MaxMessages    \* bound: messages in a behaviour

ASSUME LogAssumption ==
    /\ Starter \in Writers
    /\ Interval \in Nat \ {0} /\ Wide \in Nat /\ Wide > Interval + 1
    /\ MaxMessages \in Nat

\* One field stands for interaction, action and context, written in a row.
Fields == {"action", "what", "value"}
Kinds == {"plain", "what", "value"}      \* one flag each
Pushers == {"server", "starter"}
FieldsOf(k) == IF k = "plain" THEN {"action"}
               ELSE IF k = "value" THEN Fields ELSE {"action", "what"}
\* What is written or read after a field; "done" ends both.
After(k, f) == IF f = "action" /\ k # "plain" THEN "what"
               ELSE IF f = "what" /\ k = "value" THEN "value" ELSE "done"

VARIABLES
    now, timeSinceLastLog,
    temp,          \* the shared fields: number of the message each is of
    flag,
    writer,        \* per task: location, kind and number of its message
    push,          \* per pushing task: location, kind, record
    turn,          \* the flag firebase_task looks at next
    accepted,      \* the kinds of the messages that passed the limit, in order
    pushed,        \* the records given to pushJSON, in order
    elapsed,       \* history: time since a message was accepted or stamped
    wrapped,       \* history: millis() began anew since then
    epoch,         \* history: messages accepted since the log was last at rest
    crowded        \* history: messages that were not alone in their epoch

timeVars == <<now, timeSinceLastLog, elapsed, wrapped>>
historyVars == <<epoch, crowded>>
vars == <<timeVars, temp, flag, writer, push, turn, accepted, pushed, historyVars>>

NoMessage == [at |-> "idle", kind |-> "plain", id |-> 0]
NoPush == [at |-> "idle", kind |-> "plain", rec |-> [f \in Fields |-> 0]]
Waiting(k) == [at |-> "wait", kind |-> k, rec |-> [f \in Fields |-> 0]]

Init ==
    /\ now = 0 /\ timeSinceLastLog = 0 /\ elapsed = 0 /\ wrapped = FALSE
    /\ temp = [f \in Fields |-> 0] /\ flag = [k \in Kinds |-> FALSE]
    /\ writer = [w \in Writers |-> NoMessage]
    /\ push = [p \in Pushers |-> NoPush] /\ turn = "plain"
    /\ accepted = <<>> /\ pushed = <<>>
    /\ epoch = {} /\ crowded = {}

Busy ==
    \/ \E k \in Kinds : flag[k]
    \/ \E w \in Writers : writer[w].at # "idle"
    \/ \E p \in Pushers : push[p].at # "idle"

\* A history action of every step that may bring the log to rest.
Rest == epoch' = IF Busy' THEN epoch ELSE {}

-----------------------------------------------------------------------------
(* The environment.                                                        *)

Tick ==
    /\ now' = (now + 1) % Wide
    /\ elapsed' = IF elapsed > Interval THEN elapsed ELSE elapsed + 1
    /\ wrapped' = (wrapped \/ now' = 0)
    /\ UNCHANGED <<timeSinceLastLog, temp, flag, writer, push, turn,
                   accepted, pushed, historyVars>>

-----------------------------------------------------------------------------
(* firebaseAppendUserAction, in its three forms, and START.                *)

\* Mutant: the limit lets a message pass a moment early.
PassesEarly == now >= (timeSinceLastLog + Interval) % Wide

\* millis() > timeSinceLastLog + 1000, all of 32 bits.
Passes == now > (timeSinceLastLog + Interval) % Wide

\* The message is numbered; if the log is not at rest it is crowded, and so are
\* the messages it meets.
Accept(k) ==
    LET m == Len(accepted) + 1
    IN  /\ m <= MaxMessages
        /\ accepted' = Append(accepted, k)
        /\ epoch' = epoch \cup {m}
        /\ crowded' = IF epoch = {} THEN crowded ELSE crowded \cup epoch \cup {m}

Message(w, where, k) ==
    writer' = [writer EXCEPT ![w] = [at |-> where, kind |-> k, id |-> Len(accepted) + 1]]

\* The limit lets the message pass; a refused one changes nothing.
Log(w, k) ==
    /\ writer[w].at = "idle" /\ Passes
    /\ Accept(k) /\ Message(w, "stamp", k)
    /\ elapsed' = 0 /\ wrapped' = FALSE
    /\ UNCHANGED <<now, timeSinceLastLog, temp, flag, push, turn, pushed>>

Stamp(w) ==
    /\ writer[w].at = "stamp"
    /\ timeSinceLastLog' = now /\ elapsed' = 0 /\ wrapped' = FALSE
    /\ writer' = [writer EXCEPT ![w].at = "action"]
    /\ UNCHANGED <<now, temp, flag, push, turn, accepted, pushed, historyVars>>

\* runTaskFireBaseAppendUserActionWithWhat.
StartLog ==
    /\ writer[Starter].at = "idle"
    /\ Accept("start") /\ Message(Starter, "action", "start")
    /\ UNCHANGED <<timeVars, temp, flag, push, turn, pushed>>

\* Mutant: tempValue is not assigned.
WriteFieldButValue(w) ==
    /\ writer[w].at \in Fields
    /\ temp' = IF writer[w].at = "value" THEN temp ELSE [temp EXCEPT ![writer[w].at] = writer[w].id]
    /\ writer' = [writer EXCEPT ![w].at = After(writer[w].kind, @)]
    /\ UNCHANGED <<timeVars, flag, push, turn, accepted, pushed, historyVars>>

WriteField(w) ==
    /\ writer[w].at \in Fields
    /\ temp' = [temp EXCEPT ![writer[w].at] = writer[w].id]
    /\ writer' = [writer EXCEPT ![w].at = After(writer[w].kind, @)]
    /\ UNCHANGED <<timeVars, flag, push, turn, accepted, pushed, historyVars>>

\* Mutant: the form with a value raises the flag of the form without.
RaiseFlagOfWhat(w) ==
    /\ writer[w].at = "done" /\ writer[w].kind # "start"
    /\ flag' = [flag EXCEPT ![IF writer[w].kind = "value" THEN "what" ELSE writer[w].kind] = TRUE]
    /\ writer' = [writer EXCEPT ![w] = NoMessage]
    /\ UNCHANGED <<timeVars, temp, push, turn, accepted, pushed, historyVars>>

RaiseFlag(w) ==
    /\ writer[w].at = "done" /\ writer[w].kind # "start"
    /\ flag' = [flag EXCEPT ![writer[w].kind] = TRUE]
    /\ writer' = [writer EXCEPT ![w] = NoMessage]
    /\ UNCHANGED <<timeVars, temp, push, turn, accepted, pushed, historyVars>>

\* START goes on to push what it wrote.
StartPush ==
    /\ writer[Starter].at = "done" /\ writer[Starter].kind = "start"
    /\ push' = [push EXCEPT !["starter"] = Waiting("start")]
    /\ writer' = [writer EXCEPT ![Starter].at = "push"]
    /\ UNCHANGED <<timeVars, temp, flag, turn, accepted, pushed, historyVars>>

-----------------------------------------------------------------------------
(* firebase_task, and the push that both tasks call.                       *)

\* Mutant: a fourth flag is looked at.
NextTurnRunsOn == IF turn = "plain" THEN "what" ELSE IF turn = "what" THEN "value" ELSE "start"

\* Mutant: the third flag is never looked at.
NextTurnSkips == IF turn = "plain" THEN "what" ELSE "plain"

NextTurn == IF turn = "plain" THEN "what" ELSE IF turn = "what" THEN "value" ELSE "plain"

Look ==
    /\ push["server"].at = "idle"
    /\ IF flag[turn]
       THEN /\ push' = [push EXCEPT !["server"] = Waiting(turn)]
            /\ UNCHANGED turn
       ELSE turn' = NextTurn /\ UNCHANGED push
    /\ UNCHANGED <<timeVars, temp, flag, writer, accepted, pushed, historyVars>>

\* while (!Firebase.ready()) {} takes as long as the connection wants.
AwaitReady(p) ==
    /\ push[p].at = "wait"
    /\ push' = [push EXCEPT ![p].at = "action"]
    /\ UNCHANGED <<timeVars, temp, flag, writer, turn, accepted, pushed, historyVars>>

ReadField(p) ==
    /\ push[p].at \in Fields
    /\ LET f == push[p].at
       IN  push' = [push EXCEPT ![p] =
              [at |-> After(@.kind, f), kind |-> @.kind, rec |-> [@.rec EXCEPT ![f] = temp[f]]]]
    /\ UNCHANGED <<timeVars, temp, flag, writer, turn, accepted, pushed, historyVars>>

\* pushJSON; an error of it is only printed.
Push(p) ==
    /\ push[p].at = "done"
    /\ pushed' = Append(pushed, [kind |-> push[p].kind, rec |-> push[p].rec])
    /\ IF p = "server"
       THEN push' = [push EXCEPT ![p].at = "lower"] /\ UNCHANGED writer
       ELSE /\ push' = [push EXCEPT ![p] = NoPush]
            /\ writer' = [writer EXCEPT ![Starter] = NoMessage]
    /\ UNCHANGED <<timeVars, temp, flag, turn, accepted, crowded>>
    /\ Rest

LowerFlag ==
    /\ push["server"].at = "lower"
    /\ flag' = [flag EXCEPT ![turn] = FALSE]
    /\ push' = [push EXCEPT !["server"] = NoPush] /\ turn' = NextTurn
    /\ UNCHANGED <<timeVars, temp, writer, accepted, pushed, crowded>>
    /\ Rest

Pushing(p) == ReadField(p) \/ Push(p)
firebaseTask == Look \/ Pushing("server") \/ LowerFlag
Writing(w) == Stamp(w) \/ WriteField(w) \/ RaiseFlag(w)

Next ==
    \/ Tick
    \/ \E w \in Writers : Writing(w) \/ \E k \in Kinds : Log(w, k)
    \/ StartLog \/ StartPush \/ Pushing("starter")
    \/ firebaseTask \/ \E p \in Pushers : AwaitReady(p)

\* Every task is scheduled; nobody owes a message or a connection.
Fairness ==
    /\ WF_vars(firebaseTask) /\ WF_vars(Pushing("starter")) /\ WF_vars(StartPush)
    /\ \A w \in Writers : WF_vars(Writing(w))

Spec == Init /\ [][Next]_vars /\ Fairness

-----------------------------------------------------------------------------
(* Properties                                                              *)

Writer == [at : {"idle", "stamp", "done", "push"} \cup Fields,
             kind : Kinds \cup {"start"}, id : Nat]
Record == [kind : Kinds \cup {"start"}, rec : [Fields -> Nat]]

\* Every variable keeps its type, and no number of a message is invented.
TypeOK ==
    /\ now \in 0..(Wide - 1) /\ timeSinceLastLog \in 0..(Wide - 1)
    /\ elapsed \in 0..(Interval + 1) /\ wrapped \in BOOLEAN
    /\ temp \in [Fields -> 0..Len(accepted)]
    /\ flag \in [Kinds -> BOOLEAN]
    /\ writer \in [Writers -> Writer]
    /\ \A w \in Writers : writer[w].id <= Len(accepted)
    /\ push \in [Pushers -> [at : {"idle", "wait", "done", "lower"} \cup Fields,
                             kind : Kinds \cup {"start"}, rec : [Fields -> Nat]]]
    /\ turn \in Kinds
    /\ accepted \in Seq(Kinds \cup {"start"}) /\ Len(accepted) <= MaxMessages
    /\ pushed \in Seq(Record)
    /\ epoch \subseteq 1..Len(accepted) /\ crowded \subseteq 1..Len(accepted)

Holds(r, m) == \E f \in FieldsOf(r.kind) : r.rec[f] = m
Of(r, m) == /\ r.kind = accepted[m]
            /\ \A f \in FieldsOf(r.kind) : r.rec[f] = m

\* Between messages that met others, one that found the log at rest and was left
\* alone until it was at rest again was pushed exactly once, as a record of its
\* kind with all its fields, and after those it followed, although START pushes
\* from a task of its own (firebaseAppendUserAction, firebaseTask).
AlonePushedOnce ==
    \A m \in 1..Len(accepted) : m \notin crowded \cup epoch =>
        /\ Cardinality({i \in DOMAIN pushed : Holds(pushed[i], m)}) = 1
        /\ \E i \in DOMAIN pushed : Of(pushed[i], m)
        /\ \A n \in 1..(m - 1), i, j \in DOMAIN pushed :
              n \notin crowded /\ Holds(pushed[i], n) /\ Holds(pushed[j], m) => i < j

\* A record never has a field that was never written: whatever flags, pushes
\* and messages met, every field of its kind is of some accepted message that
\* had that field (the order of the fields and the flag in each form).
FieldsWritten ==
    \A i \in DOMAIN pushed : \A f \in FieldsOf(pushed[i].kind) :
        LET m == pushed[i].rec[f]
        IN  m # 0 /\ f \in FieldsOf(accepted[m])

\* The limit refuses a message only within a second of the one before or once
\* millis() began anew, and lets one pass earlier only if the sum wrapped or
\* another task passed it too and has not stamped the time yet.
LimitExact ==
    /\ ~Passes => elapsed <= Interval \/ wrapped
    /\ Passes /\ elapsed <= Interval =>
          \/ timeSinceLastLog + Interval >= Wide
          \/ \E w \in Writers : writer[w].at = "stamp"

\* If the connection comes back whenever it is waited for, no flag stays raised
\* and no START hangs (firebaseTask, the loop on Firebase.ready).
LogDrains ==
    (\A p \in Pushers : WF_vars(AwaitReady(p))) =>
        /\ \A k \in Kinds : flag[k] ~> ~flag[k]
        /\ (writer[Starter].at = "push") ~> (writer[Starter].at # "push")
=============================================================================
