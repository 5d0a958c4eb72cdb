------------------------- MODULE SelectionSoundProofs -------------------------
(***************************************************************************)
(* Theorems about LightSelection, continued: what holds as long as the     *)
(* dial has not overtaken a tap.                                           *)
(***************************************************************************)
EXTENDS LightSelectionProofs

(* ------------------------------------------------------------------------ *)
(* The inductive invariant.                                                 *)

IsItem(i) == Live(i) /\ buttons[i].event = "selectLight"

(* What a tap hit is still there.                                           *)
Aimed ==
    /\ pc = "hit" => Live(hit)
    /\ pc \in {"select", "shift"} => IsItem(hit) /\ buttons[hit].id = pressed
    /\ pc = "shift" => buttons[hit].isSelected

(* The items of the first page follow each other, and lie behind the pager  *)
(* buttons; a later page draws light l at index 3 + (l - 1) % PerPage, and  *)
(* so did the page that left a button there.                                *)
FirstPlaced ==
    /\ \E c \in 2..(PerPage + 4) : \A i \in Slots : IsItem(i) => buttons[i].id = i - c + 1
    /\ (\E i \in Slots : buttons[i].event \in Pagers) =>
          \A i \in Slots : i < PerPage + 3 => buttons[i].event # "selectLight"

LaterPlaced ==
    \A i \in Slots : IsItem(i) =>
        i \in 3..(PerPage + 2) /\ \E k \in Nat : buttons[i].id = k * PerPage + i - 2

Placed == FirstPlaced \/ LaterPlaced

(* No light is in the ids of a behaviour twice.                             *)
Distinct ==
    \A b \in Behaviors : \A j, k \in DOMAIN lightIds[b] :
        lightIds[b][j] = lightIds[b][k] => j = k

(* Only a removal fills up with zero, at the end.                           *)
Filled ==
    \A b \in Behaviors : \A j \in DOMAIN lightIds[b] :
        lightIds[b][j] = 0 => b = lastBehaviorId /\ pc = "shift" /\ j = Len(lightIds[b])

(* It ends once the light has been replaced.                                *)
Shifting ==
    pc = "shift" => ((\E j \in DOMAIN Edited : Edited[j] = pressed)
                     <=> (\A j \in DOMAIN Edited : Edited[j] # 0))

Told ==
    \A i \in Slots : IsItem(i) /\ (pc = "shift" => i # hit) =>
        (buttons[i].isSelected <=> buttons[i].id \in Selected(lastBehaviorId))

IdsSound == Distinct /\ Filled /\ Shifting
ButtonsSound == Placed /\ Told
Sound == Aimed /\ IdsSound /\ ButtonsSound

Alone == Running /\ races = 0 /\ Sound

LEMMA AloneTypes ==
    ASSUME Alone
    PROVE  /\ ControlOK /\ ButtonsOK /\ BridgeOK /\ RoomsOK /\ LightsOK
           /\ ItemsOK /\ HitOK /\ PagersLead /\ hit \in Slots
           /\ Aimed /\ Distinct /\ Filled /\ Shifting /\ Placed /\ Told
  BY RunningParts DEF Alone, Running, StructOK, ControlOK, Sound, IdsSound, ButtonsSound

LEMMA Multiples ==
    ASSUME NEW k \in Nat, NEW m \in Nat, NEW d \in Int, k * PerPage = m * PerPage + d,
           d < PerPage, -d < PerPage
    PROVE  d = 0
<1>1. PerPage \in Nat /\ PerPage >= 1
  BY Sizes
<1>2. (k - m) * PerPage = d
  BY <1>1
<1>3. CASE k - m >= 1
  <2>1. (k - m) * PerPage >= PerPage
    BY <1>1, <1>3
  <2> QED
    BY <1>1, <1>2, <2>1
<1>4. CASE k - m <= -1
  <2>1. (m - k) * PerPage >= PerPage
    BY <1>1, <1>4
  <2>2. (m - k) * PerPage = -d
    BY <1>1, <1>2
  <2> QED
    BY <1>1, <2>1, <2>2
<1>5. CASE k - m = 0
  BY <1>1, <1>2, <1>5
<1> QED
  BY <1>3, <1>4, <1>5

(* Two buttons that react never select the same light.                      *)
LEMMA OneButtonPerLight ==
    ASSUME Placed, NEW i \in Slots, NEW j \in Slots, IsItem(i), IsItem(j),
           buttons[i].id = buttons[j].id
    PROVE  i = j
<1>1. i \in Nat /\ j \in Nat /\ PerPage \in Nat /\ PerPage >= 1
  BY Sizes DEF Slots
<1>2. CASE FirstPlaced
  <2>1. PICK c \in 2..(PerPage + 4) : \A n \in Slots : IsItem(n) => buttons[n].id = n - c + 1
    BY <1>2 DEF FirstPlaced
  <2> HIDE DEF IsItem
  <2>2. i - c + 1 = j - c + 1 /\ c \in Nat
    BY <2>1, <1>1
  <2> QED
    BY <1>1, <2>2
<1>3. CASE LaterPlaced
  <2>1. i \in 3..(PerPage + 2) /\ j \in 3..(PerPage + 2)
    BY <1>3 DEF LaterPlaced
  <2>2. PICK k \in Nat : buttons[i].id = k * PerPage + i - 2
    BY <1>3 DEF LaterPlaced
  <2>3. PICK m \in Nat : buttons[j].id = m * PerPage + j - 2
    BY <1>3 DEF LaterPlaced
  <2>4. k * PerPage \in Nat /\ m * PerPage \in Nat
    BY <1>1
  <2>5. k * PerPage = m * PerPage + (j - i) /\ j - i \in Int
        /\ j - i < PerPage /\ -(j - i) < PerPage
    <3>1. k * PerPage + i - 2 = m * PerPage + j - 2
      BY <2>2, <2>3
    <3> HIDE DEF IsItem
    <3> QED
      BY <1>1, <2>1, <2>4, <3>1
  <2>6. j - i = 0
    BY <2>5, Multiples
  <2> QED
    BY <1>1, <2>6
<1> QED
  BY <1>2, <1>3 DEF Placed

(* ------------------------------------------------------------------------ *)
(* The ids.                                                                 *)

LEMMA IdsKept ==
    ASSUME Distinct, Filled, UNCHANGED lightIds, pc # "shift", pc' # "shift"
    PROVE  IdsSound'
  BY DEF IdsSound, Distinct, Filled, Shifting

LEMMA IdsEmptied ==
    ASSUME lightIds' = [b \in Behaviors |-> <<>>], pc' # "shift"
    PROVE  IdsSound'
<1>1. DOMAIN <<>> = {}
  OBVIOUS
<1>2. \A b \in Behaviors : lightIds'[b] = <<>>
  OBVIOUS
<1> QED
  BY <1>1, <1>2 DEF IdsSound, Distinct, Filled, Shifting

LEMMA EditSound ==
    ASSUME LightsOK, Distinct, Filled, NEW ids, SetEdited(ids), UNCHANGED lastBehaviorId,
           \A j, k \in DOMAIN ids : ids[j] = ids[k] => j = k,
           \A j \in DOMAIN ids : ids[j] = 0 => pc' = "shift" /\ j = Len(ids)
    PROVE  Distinct' /\ Filled'
<1>1. \A b \in Behaviors : lightIds'[b] = IF b = lastBehaviorId THEN ids ELSE lightIds[b]
  BY DEF SetEdited, LightsOK
<1>2. Distinct'
  BY <1>1 DEF Distinct
<1>3. Filled'
  BY <1>1 DEF Filled
<1> QED
  BY <1>2, <1>3

LEMMA EditedSound ==
    ASSUME LightsOK, Distinct, Filled
    PROVE  /\ \A j, k \in 1..Len(Edited) : Edited[j] = Edited[k] => j = k
           /\ \A j \in 1..Len(Edited) : Edited[j] = 0 => pc = "shift" /\ j = Len(Edited)
  BY EditedType DEF Edited, Distinct, Filled, LightsOK

LEMMA AddSound ==
    ASSUME Alone, AddLight
    PROVE  IdsSound' /\ pressed \notin Selected(lastBehaviorId)
<1> DEFINE n == Len(Edited)
           ids == Append(Edited, pressed)
<1>1. Edited \in Seq(0..ListSize) /\ n \in Nat /\ pc = "select" /\ pressed \in Lights /\ lastBehaviorId \in Behaviors
  BY AloneTypes, EditedType DEF AddLight, HitOK, LightsOK
<1>2. pressed \in 0..ListSize /\ pressed # 0
  BY <1>1, Sizes DEF Lights
<1>3. pressed \notin Selected(lastBehaviorId)
  <2>1. IsItem(hit) /\ ~buttons[hit].isSelected /\ buttons[hit].id = pressed
    BY <1>1, AloneTypes DEF Aimed, AddLight
  <2>2. pc # "shift" /\ hit \in Slots
    BY <1>1, AloneTypes
  <2>3. Told
    BY AloneTypes
  <2> HIDE DEF Selected, IsItem
  <2> QED
    BY <2>1, <2>2, <2>3 DEF Told
<1>4. \A k \in 1..n : Edited[k] # pressed
  <2>1. LightsOK
    BY AloneTypes
  <2>2. pressed \in Selected(lastBehaviorId)
           <=> pressed # 0 /\ \E k \in 1..n : Edited[k] = pressed
    BY <1>1, <2>1, InSelected DEF Edited
  <2> QED
    BY <1>2, <1>3, <2>2
<1>5. /\ ids \in Seq(0..ListSize) /\ Len(ids) = n + 1
      /\ \A k \in 1..n : ids[k] = Edited[k]
      /\ ids[n + 1] = pressed
  BY <1>1, <1>2, AddIs
<1>6. SetEdited(ids) /\ UNCHANGED lastBehaviorId /\ pc' = "idle"
  BY DEF AddLight, Return
<1>7. DOMAIN ids = 1..(n + 1)
  BY <1>5, LenProperties
<1>8. \A k \in 1..(n + 1) : k \in 1..n \/ k = n + 1
  BY <1>1
<1>9. /\ \A j, k \in 1..n : Edited[j] = Edited[k] => j = k
      /\ \A j \in 1..n : Edited[j] # 0
  BY <1>1, EditedSound, AloneTypes
<1> HIDE DEF ids, n
<1>10. Distinct' /\ Filled'
  <2>1. \A j, k \in DOMAIN ids : ids[j] = ids[k] => j = k
    BY <1>4, <1>5, <1>7, <1>8, <1>9
  <2>2. \A j \in DOMAIN ids : ids[j] = 0 => pc' = "shift" /\ j = Len(ids)
    BY <1>2, <1>5, <1>7, <1>8, <1>9
  <2> QED
    BY <1>6, <2>1, <2>2, EditSound, AloneTypes
<1> QED
  BY <1>3, <1>6, <1>10 DEF IdsSound, Shifting

LEMMA ShiftSound ==
    ASSUME Alone, arrayShift, LightsOK'
    PROVE  IdsSound'
<1> DEFINE n == Len(Edited)
<1>1. Edited \in Seq(0..ListSize) /\ n \in Nat /\ DOMAIN Edited = 1..n /\ pc = "shift" /\ pressed \in Lights
      /\ lastBehaviorId \in Behaviors
  BY AloneTypes, EditedType DEF arrayShift, HitOK, LightsOK
<1>2. pressed # 0
  BY <1>1, Sizes DEF Lights
<1>3. PICK j \in 1..n : Edited[j] = pressed /\ SetEdited(ShiftFrom(Edited, j))
  BY <1>1 DEF arrayShift
<1> DEFINE ids == ShiftFrom(Edited, j)
<1>4. /\ ids \in Seq(0..ListSize) /\ Len(ids) = n
      /\ \A k \in 1..n : ids[k] =
            IF k < j THEN Edited[k] ELSE IF k < n THEN Edited[k + 1] ELSE 0
  BY <1>1, <1>3, ShiftIs
<1>5. \A k \in 1..n : Edited[k] # 0
  BY <1>1, <1>3, AloneTypes DEF Shifting
<1>6. \A i, k \in 1..n : Edited[i] = Edited[k] => i = k
  BY EditedSound, AloneTypes
<1>7. SetEdited(ids) /\ UNCHANGED <<lastBehaviorId, pc, pressed>>
  BY <1>3 DEF arrayShift, touchVars
<1>8. DOMAIN ids = 1..n
  BY <1>4, LenProperties
<1> HIDE DEF ids, n
<1>9. \A k \in 1..n : \/ k < j /\ ids[k] = Edited[k]
                      \/ ~(k < j) /\ k < n /\ k + 1 \in 1..n /\ ids[k] = Edited[k + 1]
                      \/ k = n /\ ids[k] = 0
  <2> TAKE k \in 1..n
  <2>1. CASE k < j
    BY <1>4, <2>1
  <2>2. CASE ~(k < j) /\ k < n
    <3>1. k + 1 \in 1..n
      BY <1>1, <2>2
    <3> QED
      BY <1>4, <2>2, <3>1
  <2>3. CASE ~(k < j) /\ ~(k < n)
    <3>1. k = n
      BY <1>1, <2>3
    <3> QED
      BY <1>4, <2>3, <3>1
  <2> QED
    BY <2>1, <2>2, <2>3
<1>10. \A i, k \in 1..n : ids[i] = ids[k] => i = k
  <2> SUFFICES ASSUME NEW i \in 1..n, NEW k \in 1..n, ids[i] = ids[k], i < k PROVE FALSE
    BY <1>1
  <2>1. i # n /\ ids[i] # 0
    BY <1>1, <1>5, <1>9
  <2>2. k # n \/ ids[k] # 0
    BY <2>1
  <2>3. \/ k < j /\ ids[k] = Edited[k]
        \/ ~(k < j) /\ k + 1 \in 1..n /\ ids[k] = Edited[k + 1]
    BY <1>9, <2>1
  <2>4. \/ i < j /\ ids[i] = Edited[i]
        \/ ~(i < j) /\ i + 1 \in 1..n /\ ids[i] = Edited[i + 1]
    BY <1>9, <2>1
  <2>5. CASE k < j /\ ids[k] = Edited[k]
    BY <1>1, <1>3, <1>6, <2>4, <2>5
  <2>6. CASE ~(k < j) /\ k + 1 \in 1..n /\ ids[k] = Edited[k + 1]
    <3>1. CASE i < j /\ ids[i] = Edited[i]
      <4>1. i = k + 1
        BY <1>6, <2>6, <3>1
      <4> QED
        BY <1>1, <4>1
    <3>2. CASE i + 1 \in 1..n /\ ids[i] = Edited[i + 1]
      <4>1. i + 1 = k + 1
        BY <1>6, <2>6, <3>2
      <4> QED
        BY <1>1, <4>1
    <3> QED
      BY <2>4, <3>1, <3>2
  <2> QED
    BY <2>3, <2>5, <2>6
<1>11. \A k \in 1..n : ids[k] # pressed
  <2> TAKE k \in 1..n
  <2>1. CASE k < j /\ ids[k] = Edited[k]
    BY <1>1, <1>3, <1>6, <2>1
  <2>2. CASE ~(k < j) /\ k + 1 \in 1..n /\ ids[k] = Edited[k + 1]
    <3>1. k + 1 # j
      BY <1>1, <1>3, <2>2
    <3> QED
      BY <1>3, <1>6, <2>2, <3>1
  <2> QED
    BY <1>2, <1>9, <2>1, <2>2
<1>12. n \in 1..n /\ ids[n] = 0
  <2>1. n \in 1..n /\ ~(n < j) /\ ~(n < n)
    BY <1>1, <1>3
  <2> QED
    BY <1>4, <2>1
<1>13. Distinct' /\ Filled'
  <2>1. \A i, k \in DOMAIN ids : ids[i] = ids[k] => i = k
    BY <1>8, <1>10
  <2>2. \A k \in DOMAIN ids : ids[k] = 0 => pc' = "shift" /\ k = Len(ids)
    BY <1>1, <1>4, <1>5, <1>7, <1>8, <1>9
  <2> QED
    BY <1>7, <2>1, <2>2, EditSound, AloneTypes
<1>14. Edited' = ids
  BY <1>1, <1>7, AloneTypes DEF SetEdited, Edited, LightsOK
<1>15. Shifting'
  BY <1>7, <1>8, <1>11, <1>12, <1>14 DEF Shifting
<1> QED
  BY <1>13, <1>15 DEF IdsSound

LEMMA DropSound ==
    ASSUME Alone, RemoveLight, LightsOK'
    PROVE  /\ IdsSound' /\ Selected(lastBehaviorId)' = Selected(lastBehaviorId)
           /\ pressed \notin Selected(lastBehaviorId)
<1> DEFINE n == Len(Edited)
           ids == SubSeq(Edited, 1, n - 1)
<1>0. PICK e \in Behaviors : e = lastBehaviorId /\ e = lastBehaviorId'
  BY AloneTypes DEF RemoveLight, LightsOK
<1>1. Edited \in Seq(0..ListSize) /\ n \in Nat /\ DOMAIN Edited = 1..n /\ pc = "shift"
      /\ LightsOK /\ Shifting
  BY AloneTypes, EditedType DEF RemoveLight
<1>2. \A k \in 1..n : Edited[k] # pressed
  BY <1>1 DEF RemoveLight
<1>3. /\ \A j, k \in 1..n : Edited[j] = Edited[k] => j = k
      /\ \A j \in 1..n : Edited[j] = 0 => j = n
  BY EditedSound, AloneTypes
<1>4. n \in 1..n /\ Edited[n] = 0
  <2>1. \E k \in 1..n : Edited[k] = 0
    BY <1>1, <1>2 DEF Shifting
  <2> QED
    BY <1>3, <2>1
<1>5. /\ ids \in Seq(0..ListSize) /\ Len(ids) = n - 1
      /\ \A k \in 1..(n - 1) : ids[k] = Edited[k]
  BY <1>1, <1>4, DropIs
<1>6. SetEdited(ids) /\ UNCHANGED lastBehaviorId /\ pc' = "idle"
  BY DEF RemoveLight, Return
<1>7. DOMAIN ids = 1..(n - 1)
  BY <1>5, LenProperties
<1>8. lightIds'[e] = ids /\ Edited = lightIds[e]
  BY <1>0, <1>1, <1>6 DEF SetEdited, LightsOK, Edited
<1>9. \A l : l \in Selected(e) <=> l # 0 /\ \E k \in 1..n : Edited[k] = l
  BY <1>0, <1>1, InSelected DEF Edited
<1>10. \A l : l \in Selected(e)' <=> l # 0 /\ \E k \in 1..(n - 1) : ids[k] = l
  <2> TAKE l
  <2>1. l \in Selected(e)' <=> l # 0 /\ \E k \in 1..Len(lightIds'[e]) : lightIds'[e][k] = l
    BY InSelectedNext
  <2> HIDE DEF ids, n
  <2> QED
    BY <1>5, <1>8, <2>1
<1> HIDE DEF ids, n, Selected, Edited
<1>11. \A k \in 1..(n - 1) : k \in 1..n /\ k # n
  BY <1>1
<1>12. \A k \in 1..n : k = n \/ k \in 1..(n - 1)
  BY <1>1
<1>13. Distinct' /\ Filled'
  <2>1. \A j, k \in DOMAIN ids : ids[j] = ids[k] => j = k
    BY <1>3, <1>5, <1>7, <1>11
  <2>2. \A j \in DOMAIN ids : ids[j] = 0 => pc' = "shift" /\ j = Len(ids)
    BY <1>3, <1>5, <1>7, <1>11
  <2> QED
    BY <1>6, <2>1, <2>2, EditSound, AloneTypes
<1>14. \A l : l \in Selected(e)' <=> l \in Selected(e)
  BY <1>4, <1>5, <1>9, <1>10, <1>11, <1>12
<1>15. Selected(e)' = Selected(e) /\ pressed \notin Selected(e)
  BY <1>2, <1>9, <1>14
<1>16. Selected(lastBehaviorId)' = Selected(e)' /\ Selected(lastBehaviorId) = Selected(e)
  BY <1>0 DEF Selected
<1> QED
  BY <1>6, <1>13, <1>15, <1>16 DEF IdsSound, Shifting

(* ------------------------------------------------------------------------ *)
(* The buttons.                                                             *)

LEMMA NoItems ==
    ASSUME \A i \in Slots : buttons'[i].event \in {"none", "plain"}
    PROVE  ButtonsSound'
<1>1. \A i \in Slots : ~IsItem(i)'
  BY DEF IsItem, Live
<1>2. LaterPlaced' /\ Told'
  BY <1>1 DEF LaterPlaced, Told
<1> QED
  BY <1>2 DEF ButtonsSound, Placed

LEMMA PlacedKept ==
    ASSUME Placed, buttonCount' = buttonCount,
           \A i \in Slots : buttons'[i].event = buttons[i].event /\ buttons'[i].id = buttons[i].id
    PROVE  Placed' /\ \A i \in Slots : (Live(i)' <=> Live(i)) /\ (IsItem(i)' <=> IsItem(i))
<1>1. \A i \in Slots : (Live(i)' <=> Live(i)) /\ (IsItem(i)' <=> IsItem(i))
  BY DEF IsItem, Live
<1>2. ASSUME FirstPlaced PROVE FirstPlaced'
  <2> HIDE DEF IsItem
  <2>1. \E c \in 2..(PerPage + 4) : \A i \in Slots : IsItem(i)' => buttons'[i].id = i - c + 1
    BY <1>1, <1>2 DEF FirstPlaced
  <2>2. (\E i \in Slots : buttons'[i].event \in Pagers) =>
           \A i \in Slots : i < PerPage + 3 => buttons'[i].event # "selectLight"
    BY <1>2 DEF FirstPlaced
  <2> QED
    BY <2>1, <2>2 DEF FirstPlaced
<1>3. ASSUME LaterPlaced PROVE LaterPlaced'
  BY <1>1, <1>3 DEF LaterPlaced
<1> QED
  BY <1>1, <1>2, <1>3 DEF Placed

LEMMA ButtonsKept ==
    ASSUME Placed, Told, UNCHANGED <<buttons, buttonCount, lightIds, lastBehaviorId>>,
           pc # "shift" \/ (pc' = "shift" /\ hit' = hit)
    PROVE  ButtonsSound'
<1>1. Placed' /\ \A i \in Slots : IsItem(i)' <=> IsItem(i)
  BY PlacedKept
<1>2. Told'
  <2> SUFFICES ASSUME NEW i \in Slots, IsItem(i)', pc' = "shift" => i # hit'
               PROVE  buttons'[i].isSelected <=> buttons'[i].id \in Selected(lastBehaviorId)'
    BY DEF Told
  <2>1. IsItem(i) /\ (pc = "shift" => i # hit)
    BY <1>1
  <2>2. Selected(lastBehaviorId)' = Selected(lastBehaviorId)
    BY DEF Selected
  <2> HIDE DEF Selected, IsItem
  <2> QED
    BY <2>1, <2>2 DEF Told
<1> QED
  BY <1>1, <1>2 DEF ButtonsSound

LEMMA AddKeepsButtons ==
    ASSUME Alone, AddLight, LightsOK'
    PROVE  ButtonsSound'
<1>1. /\ \A i \in Slots : /\ buttons'[i].event = buttons[i].event
                          /\ buttons'[i].id = buttons[i].id
                          /\ buttons'[i].isSelected = IF i = hit THEN TRUE ELSE buttons[i].isSelected
      /\ buttonCount' = buttonCount
  BY AloneTypes, SetKeeps DEF AddLight
<1>2. Placed' /\ \A i \in Slots : IsItem(i)' <=> IsItem(i)
  BY <1>1, AloneTypes, PlacedKept
<1>3. pressed \in Lights /\ IsItem(hit) /\ buttons[hit].id = pressed /\ pc = "select"
  BY AloneTypes DEF AddLight, HitOK, Aimed
<1>4. Selected(lastBehaviorId)' = Selected(lastBehaviorId) \cup {pressed}
  BY <1>3, AloneTypes, AddSelects
<1>5. Told'
  <2> SUFFICES ASSUME NEW i \in Slots, IsItem(i)'
               PROVE  buttons'[i].isSelected <=> buttons'[i].id \in Selected(lastBehaviorId)'
    BY DEF Told
  <2> HIDE DEF Selected, IsItem
  <2>1. CASE i = hit
    BY <1>1, <1>3, <1>4, <2>1
  <2>2. CASE i # hit
    <3>1. IsItem(i)
      BY <1>2
    <3>2. buttons[i].id # pressed
      BY <1>3, <2>2, <3>1, AloneTypes, OneButtonPerLight
    <3>3. buttons[i].isSelected <=> buttons[i].id \in Selected(lastBehaviorId)
      BY <1>3, <3>1, AloneTypes DEF Told
    <3> QED
      BY <1>1, <1>4, <2>2, <3>2, <3>3
  <2> QED
    BY <2>1, <2>2
<1> QED
  BY <1>2, <1>5 DEF ButtonsSound

LEMMA DropKeepsButtons ==
    ASSUME Alone, RemoveLight, LightsOK'
    PROVE  ButtonsSound'
<1>1. /\ \A i \in Slots : /\ buttons'[i].event = buttons[i].event
                          /\ buttons'[i].id = buttons[i].id
                          /\ buttons'[i].isSelected = IF i = hit THEN FALSE ELSE buttons[i].isSelected
      /\ buttonCount' = buttonCount
  BY AloneTypes, SetKeeps DEF RemoveLight
<1>2. Placed' /\ \A i \in Slots : IsItem(i)' <=> IsItem(i)
  BY <1>1, AloneTypes, PlacedKept
<1>3. buttons[hit].id = pressed /\ pc' = "idle"
  BY AloneTypes DEF RemoveLight, Return, Aimed
<1>4. Selected(lastBehaviorId)' = Selected(lastBehaviorId) /\ pressed \notin Selected(lastBehaviorId)
  BY DropSound
<1>5. Told'
  <2> SUFFICES ASSUME NEW i \in Slots, IsItem(i)'
               PROVE  buttons'[i].isSelected <=> buttons'[i].id \in Selected(lastBehaviorId)'
    BY DEF Told
  <2> HIDE DEF Selected, IsItem
  <2>1. CASE i = hit
    BY <1>1, <1>3, <1>4, <2>1
  <2>2. CASE i # hit
    <3>1. IsItem(i)
      BY <1>2
    <3>2. buttons[i].isSelected <=> buttons[i].id \in Selected(lastBehaviorId)
      BY <2>2, <3>1, AloneTypes DEF Told
    <3> QED
      BY <1>1, <1>4, <2>2, <3>2
  <2> QED
    BY <2>1, <2>2
<1> QED
  BY <1>2, <1>5 DEF ButtonsSound

LEMMA ShiftKeepsButtons ==
    ASSUME Alone, arrayShift, LightsOK'
    PROVE  ButtonsSound'
<1>1. UNCHANGED <<buttons, buttonCount, lastBehaviorId, pc, hit>> /\ pc = "shift"
  BY DEF arrayShift, buttonVars, touchVars
<1>2. Placed' /\ \A i \in Slots : IsItem(i)' <=> IsItem(i)
  BY <1>1, AloneTypes, PlacedKept
<1>3. pressed \in Lights /\ IsItem(hit) /\ buttons[hit].id = pressed
  BY <1>1, AloneTypes DEF HitOK, Aimed
<1>4. \/ Selected(lastBehaviorId)' = Selected(lastBehaviorId)
      \/ Selected(lastBehaviorId)' = Selected(lastBehaviorId) \ {pressed}
  BY <1>3, AloneTypes, ShiftSelects
<1>5. Told'
  <2> SUFFICES ASSUME NEW i \in Slots, IsItem(i)', i # hit
               PROVE  buttons'[i].isSelected <=> buttons'[i].id \in Selected(lastBehaviorId)'
    BY <1>1 DEF Told
  <2> HIDE DEF Selected, IsItem
  <2>1. IsItem(i)
    BY <1>2
  <2>2. buttons[i].id # pressed
    BY <1>3, <2>1, AloneTypes, OneButtonPerLight
  <2>3. buttons[i].isSelected <=> buttons[i].id \in Selected(lastBehaviorId)
    BY <2>1, AloneTypes DEF Told
  <2> QED
    BY <1>1, <1>4, <2>2, <2>3
<1> QED
  BY <1>2, <1>5 DEF ButtonsSound

LEMMA FirstSound ==
    ASSUME Running, NEW g \in Lists, ShowList(g),
           UNCHANGED <<bridgeVars, roomVars, lightIds, lastBehaviorId>>
    PROVE  ButtonsSound'
<1>1. BridgeOK /\ RoomsOK /\ LightsOK
  BY RunningParts
<1>2. /\ buttons' = [i \in Slots |-> FirstButton(g, i)]
      /\ buttonCount' = FirstAt(g) + FirstDrawn(g)
  BY ShowListIs
<1>3. Selected(lastBehaviorId)' = Selected(lastBehaviorId)
  BY DEF Selected
<1> HIDE DEF Selected
<1>4. ASSUME NEW i \in Slots, buttons'[i].event = "selectLight"
      PROVE  /\ i >= FirstAt(g)
             /\ buttons'[i].id = i - FirstAt(g) + 1
             /\ buttons'[i].isSelected <=> buttons'[i].id \in Selected(lastBehaviorId)
  <2>1. buttons'[i] = FirstButton(g, i)
    BY <1>2
  <2>2. /\ i \in FirstAt(g)..(FirstAt(g) + FirstDrawn(g) - 1)
        /\ FirstButton(g, i).id = i - FirstAt(g) + 1
        /\ FirstButton(g, i).isSelected <=> FirstButton(g, i).id \in Selected(lastBehaviorId)
    <3>1. FirstButton(g, i).event = "selectLight"
      BY <1>4, <2>1
    <3>2. FirstButton(g, i).event = "selectLight" =>
             /\ i \in FirstAt(g)..(FirstAt(g) + FirstDrawn(g) - 1)
             /\ FirstButton(g, i).id = i - FirstAt(g) + 1
             /\ FirstButton(g, i).isSelected
                   <=> FirstButton(g, i).id \in Selected(lastBehaviorId)
      BY <1>1, FirstButtons
    <3> QED
      BY <3>1, <3>2
  <2>3. FirstAt(g) \in Nat
    BY <1>1, FirstPage
  <2> QED
    BY <2>1, <2>2, <2>3
<1>5. Told'
  <2> SUFFICES ASSUME NEW i \in Slots, IsItem(i)'
               PROVE  buttons'[i].isSelected <=> buttons'[i].id \in Selected(lastBehaviorId)'
    BY DEF Told
  <2>1. buttons'[i].event = "selectLight"
    BY DEF IsItem
  <2> QED
    BY <1>3, <1>4, <2>1
<1>6. FirstPlaced'
  <2>1. FirstAt(g) \in 2..(PerPage + 4)
    BY <1>1, FirstPage
  <2>2. \A i \in Slots : IsItem(i)' => buttons'[i].id = i - FirstAt(g) + 1
    BY <1>4 DEF IsItem
  <2>3. ASSUME NEW j \in Slots, buttons'[j].event \in Pagers,
               NEW i \in Slots, i < PerPage + 3
        PROVE  buttons'[i].event # "selectLight"
    <3>1. FirstButton(g, j).event \in Pagers
      BY <1>2, <2>3
    <3>2. FirstNext(g)
      BY <1>1, <3>1, FirstButtons
    <3>3. FirstAt(g) = PerPage + 4
      BY <1>1, <3>2, FirstPage
    <3>4. i \in Nat /\ PerPage \in Nat
      BY Sizes DEF Slots
    <3> QED
      BY <1>4, <2>3, <3>3, <3>4
  <2> HIDE DEF IsItem
  <2>4. \E c \in 2..(PerPage + 4) : \A i \in Slots : IsItem(i)' => buttons'[i].id = i - c + 1
    <3> DEFINE c == FirstAt(g)
    <3>1. c \in 2..(PerPage + 4) /\ \A i \in Slots : IsItem(i)' => buttons'[i].id = i - c + 1
      BY <2>1, <2>2
    <3> HIDE DEF c
    <3> QED
      BY <3>1
  <2> QED
    BY <2>3, <2>4 DEF FirstPlaced
<1> QED
  BY <1>5, <1>6 DEF ButtonsSound, Placed

LEMMA TurnSound ==
    ASSUME Alone, NEW start, PageStart(start), TurnPage(start), pc = "hit",
           buttons[hit].event \in Pagers,
           UNCHANGED <<page, bridgeVars, roomVars, lightIds, lastBehaviorId>>
    PROVE  ButtonsSound'
<1>1. BridgeOK /\ RoomsOK /\ LightsOK /\ buttons \in [Slots -> Button] /\ hit \in Slots
  BY AloneTypes DEF ButtonsOK
<1>2. start \in Nat /\ page \in Lists
  BY DEF PageStart
<1>3. PICK k \in Nat : start = k * PerPage
  BY DEF PageStart
<1>4. /\ buttons' = [i \in Slots |-> TurnButton(start, i)]
      /\ buttonCount' = TurnCount(start)
  BY TurnPageIs
<1>5. Selected(lastBehaviorId)' = Selected(lastBehaviorId)
  BY DEF Selected
<1> HIDE DEF Selected
<1>6. hit >= PerPage + 3 /\ hit < buttonCount /\ hit \in Nat /\ PerPage \in Nat /\ buttonCount \in Nat
  <2>1. buttonCount \in Nat /\ PerPage \in Nat /\ hit \in Nat
    BY <1>1, AloneTypes, Sizes DEF ButtonsOK, Slots
  <2> QED
    BY <1>1, <2>1, AloneTypes DEF HitOK, PagersLead
<1>7. ASSUME NEW i \in Slots, IsItem(i)'
      PROVE  /\ i \in 3..(PerPage + 2) /\ \E m \in Nat : buttons'[i].id = m * PerPage + i - 2
             /\ buttons'[i].isSelected <=> buttons'[i].id \in Selected(lastBehaviorId)
  <2>1. buttons'[i] = TurnButton(start, i) /\ buttons'[i].event = "selectLight" /\ i < TurnCount(start)
        /\ i \in Nat
    BY <1>4, <1>7, Sizes DEF IsItem, Live, Slots
  <2>2. \/ TurnButton(start, i) = buttons[i]
        \/ /\ i \in 3..(PerPage + 2)
           /\ TurnButton(start, i).id = start + i - 2
           /\ TurnButton(start, i).isSelected <=> TurnButton(start, i).id \in Selected(lastBehaviorId)
    BY <1>1, <1>2, <2>1, TurnButtons
  <2>3. CASE TurnButton(start, i) = buttons[i]
    <3>1. ~(i >= PerPage + 3)
      <4> SUFFICES ASSUME i >= PerPage + 3 PROVE FALSE
        OBVIOUS
      <4>1. TurnButton(start, i).event \in Pagers
        BY <1>1, <1>2, <2>1, TurnButtons DEF Pagers
      <4> QED
        BY <2>1, <4>1 DEF Pagers
    <3>2. i < buttonCount /\ i < PerPage + 3
      BY <1>6, <2>1, <3>1
    <3>3. IsItem(i)
      BY <2>1, <2>3, <3>2 DEF IsItem, Live
    <3>4. ~FirstPlaced
      BY <1>1, <2>1, <2>3, <3>2 DEF FirstPlaced
    <3>5. LaterPlaced
      BY <3>4, AloneTypes DEF Placed
    <3>6. i \in 3..(PerPage + 2) /\ \E m \in Nat : buttons[i].id = m * PerPage + i - 2
      BY <3>3, <3>5 DEF LaterPlaced
    <3>7. buttons[i].isSelected <=> buttons[i].id \in Selected(lastBehaviorId)
      <4>1. Told /\ pc # "shift"
        BY AloneTypes
      <4> HIDE DEF IsItem
      <4> QED
        BY <3>3, <4>1 DEF Told
    <3> QED
      BY <2>1, <2>3, <3>6, <3>7
  <2>4. CASE /\ i \in 3..(PerPage + 2)
             /\ TurnButton(start, i).id = start + i - 2
             /\ TurnButton(start, i).isSelected <=> TurnButton(start, i).id \in Selected(lastBehaviorId)
    <3>1. \E m \in Nat : buttons'[i].id = m * PerPage + i - 2
      BY <1>3, <2>1, <2>4
    <3> QED
      BY <2>1, <2>4, <3>1
  <2> QED
    BY <2>2, <2>3, <2>4
<1> HIDE DEF IsItem
<1>8. LaterPlaced'
  BY <1>7 DEF LaterPlaced
<1>9. Told'
  BY <1>5, <1>7 DEF Told
<1> QED
  BY <1>8, <1>9 DEF ButtonsSound, Placed

(* ------------------------------------------------------------------------ *)
(* One step.                                                                *)

LEMMA ShowPlainSound ==
    ASSUME NEW g \in Pages, NEW n \in 2..6, ShowPlain(g, n)
    PROVE  ButtonsSound'
  BY ShowPlainDraws, NoItems

LEMMA NotShifting ==
    ASSUME pc' \in {"idle", "room"}
    PROVE  Aimed'
  BY DEF Aimed

LEMMA SoundKept ==
    ASSUME Sound, UNCHANGED <<pc, hit, pressed, buttons, buttonCount, lightIds, lastBehaviorId>>
    PROVE  Sound'
<1>1. Aimed'
  BY DEF Sound, Aimed, IsItem, Live
<1>2. IdsSound'
  BY DEF Sound, IdsSound, Distinct, Filled, Shifting, Edited
<1>3. ButtonsSound'
  BY ButtonsKept DEF Sound, ButtonsSound
<1> QED
  BY <1>1, <1>2, <1>3 DEF Sound

LEMMA SoundStep ==
    ASSUME Alone, Work, races' = 0, LightsOK'
    PROVE  Sound'
<1>1. /\ Aimed /\ Distinct /\ Filled /\ Shifting /\ Placed /\ Told /\ hit \in Slots /\ Running
  BY AloneTypes DEF Alone
<1>2. ASSUME NEW e, Calls(e) PROVE pc = "hit" /\ Live(hit)
  BY <1>1, <1>2 DEF Calls, Aimed
<1>3. CASE \E i \in Slots : Tap(i)
  <2>1. PICK i \in Slots : Tap(i)
    BY <1>3
  <2>2. UNCHANGED <<buttons, buttonCount, lightIds, lastBehaviorId>> /\ pc = "idle" /\ pc' = "hit"
        /\ hit' = i /\ Live(i)
    BY <2>1 DEF Tap, buttonVars, Live
  <2>3. Aimed'
    BY <2>2 DEF Aimed, Live
  <2> QED
    BY <1>1, <2>2, <2>3, IdsKept, ButtonsKept DEF Sound
<1>4. CASE CallNothing
  BY <1>2, <1>4 DEF CallNothing, Calls, Live
<1>5. CASE PressOther
  <2>1. UNCHANGED <<buttons, buttonCount, lightIds, lastBehaviorId>> /\ pc = "hit" /\ pc' = "idle"
    BY <1>5 DEF PressOther, buttonVars, Calls, Return
  <2> QED
    BY <1>1, <2>1, IdsKept, ButtonsKept, NotShifting DEF Sound
<1>6. CASE CallSelect
  <2>1. UNCHANGED <<hit, buttons, buttonCount, lightIds, lastBehaviorId>> /\ pc = "hit" /\ pc' = "select"
        /\ pressed' = buttons[hit].id /\ buttons[hit].event = "selectLight"
    BY <1>6 DEF CallSelect, buttonVars, Calls
  <2>2. Live(hit)
    BY <1>1, <2>1 DEF Aimed
  <2>3. Aimed'
    BY <2>1, <2>2 DEF Aimed, IsItem, Live
  <2> QED
    BY <1>1, <2>1, <2>3, IdsKept, ButtonsKept DEF Sound
<1>7. CASE StartRemoving
  <2>1. UNCHANGED <<hit, pressed, buttons, buttonCount, lightIds, lastBehaviorId>> /\ pc = "select"
        /\ pc' = "shift" /\ buttons[hit].isSelected
    BY <1>7 DEF StartRemoving, buttonVars
  <2>2. IsItem(hit) /\ buttons[hit].id = pressed
    BY <1>1, <2>1 DEF Aimed
  <2>3. Aimed'
    BY <2>1, <2>2 DEF Aimed, IsItem, Live
  <2>4. ButtonsSound'
    <3>1. Placed' /\ \A i \in Slots : IsItem(i)' <=> IsItem(i)
      BY <1>1, <2>1, PlacedKept
    <3>2. Selected(lastBehaviorId)' = Selected(lastBehaviorId)
      BY <2>1 DEF Selected
    <3> HIDE DEF Selected, IsItem
    <3>3. Told'
      BY <1>1, <2>1, <3>1, <3>2 DEF Told
    <3> QED
      BY <3>1, <3>3 DEF ButtonsSound
  <2>5. pressed \in Selected(lastBehaviorId)
    <3>1. Told /\ pc # "shift" /\ hit \in Slots
      BY <1>1, <2>1
    <3> HIDE DEF Selected, IsItem
    <3> QED
      BY <2>1, <2>2, <3>1 DEF Told
  <2>6. \E k \in DOMAIN Edited : Edited[k] = pressed
    BY <2>5 DEF Selected, Edited
  <2>7. \A k \in DOMAIN Edited : Edited[k] # 0
    BY <1>1, <2>1, AloneTypes DEF Filled, Edited, LightsOK
  <2>8. Edited' = Edited
    BY <2>1 DEF Edited
  <2>9. IdsSound'
    BY <1>1, <2>1, <2>6, <2>7, <2>8 DEF IdsSound, Distinct, Filled, Shifting
  <2> QED
    BY <2>3, <2>4, <2>9 DEF Sound
<1>8. CASE AddLight
  <2>1. pc' = "idle"
    BY <1>8 DEF AddLight, Return
  <2> QED
    BY <1>8, <2>1, AddSound, AddKeepsButtons, NotShifting DEF Sound
<1>9. CASE RemoveLight
  <2>1. pc' = "idle"
    BY <1>9 DEF RemoveLight, Return
  <2> QED
    BY <1>9, <2>1, DropSound, DropKeepsButtons, NotShifting DEF Sound
<1>10. CASE arrayShift
  <2>1. UNCHANGED <<touchVars, buttonVars>>
    BY <1>10 DEF arrayShift
  <2>2. Aimed'
    BY <1>1, <2>1 DEF touchVars, buttonVars, Aimed, IsItem, Live
  <2> QED
    BY <1>10, <2>2, ShiftSound, ShiftKeepsButtons DEF Sound
<1>11. CASE AddLightWild
  <2>1. UNCHANGED <<touchVars, buttons, buttonCount, lightIds, lastBehaviorId>> /\ pc = "select"
    BY <1>11 DEF AddLightWild, buttonVars
  <2>2. pc' = "select" /\ hit' = hit /\ pressed' = pressed
    BY <2>1 DEF touchVars
  <2>3. Aimed'
    BY <1>1, <2>1, <2>2 DEF Aimed, IsItem, Live
  <2> QED
    BY <1>1, <2>1, <2>2, <2>3, IdsKept, ButtonsKept DEF Sound
<1>12. CASE fetchData
  <2>1. ShowPlain("HJEM", 4) /\ pc' = "idle" /\ lightIds' = [b \in Behaviors |-> <<>>]
    BY <1>12 DEF fetchData, Return
  <2>2. "HJEM" \in Pages /\ 4 \in 2..6
    BY DEF Pages
  <2> QED
    BY <2>1, <2>2, ShowPlainSound, IdsEmptied, NotShifting DEF Sound
<1>13. CASE DialOpensLight
  <2>1. ShowPlain("light", 5) /\ UNCHANGED <<touchVars, lightIds>> /\ pc = "idle"
    <3>1. races = 0 /\ (pc # "idle" => races' = races + 1)
      BY <1>13 DEF DialOpensLight, Alone
    <3> QED
      BY <1>13, <3>1 DEF DialOpensLight
  <2>2. "light" \in Pages /\ 5 \in 2..6 /\ pc' = "idle"
    BY <2>1 DEF Pages, touchVars
  <2> QED
    BY <1>1, <2>1, <2>2, ShowPlainSound, IdsKept, NotShifting DEF Sound
<1>14. ASSUME NEW g \in Pages, OpenPlain(g) PROVE Sound'
  <2>1. ShowPlain(g, IF g = "HJEM" THEN 4 ELSE 6) /\ lightIds' = lightIds /\ pc = "hit" /\ pc' = "idle"
    BY <1>14 DEF OpenPlain, Calls, Return
  <2>2. (IF g = "HJEM" THEN 4 ELSE 6) \in 2..6
    OBVIOUS
  <2> QED
    BY <1>1, <2>1, <2>2, ShowPlainSound, IdsKept, NotShifting DEF Sound
<1>15. CASE (\E r : LoadRoom(r) /\ pc = "hit") \/ drawLight
  <2>1. /\ ShowPlain("RUM", 2) \/ ShowPlain("light", 5)
        /\ lightIds' = lightIds /\ pc = "hit" /\ pc' \in {"room", "idle"}
    BY <1>15 DEF LoadRoom, drawLight, Calls, Return
  <2>2. "RUM" \in Pages /\ "light" \in Pages /\ 2 \in 2..6 /\ 5 \in 2..6
    BY DEF Pages, Lists
  <2>3. ButtonsSound'
    BY <2>1, <2>2, ShowPlainSound
  <2> QED
    BY <1>1, <2>1, <2>3, IdsKept, NotShifting DEF Sound
<1>16. CASE (\E g \in Pages : OpenList(g)) \/ drawRoomLights
  <2>1. PICK g \in Lists : ShowList(g) /\ UNCHANGED <<bridgeVars, roomVars, lightIds, lastBehaviorId>>
                           /\ pc # "shift" /\ pc' = "idle"
    BY <1>16 DEF OpenList, drawRoomLights, Lists, Calls, Return
  <2> QED
    BY <1>1, <2>1, FirstSound, IdsKept, NotShifting DEF Sound
<1>17. CASE drawNextPage
  <2>1. Calls("drawNextPage") /\ Running /\ TurnPage(topIndex)
        /\ UNCHANGED <<page, bridgeVars, roomVars, lightIds, lastBehaviorId>> /\ pc' = "idle"
    BY <1>17 DEF drawNextPage, Return, Alone
  <2>2. PageStart(topIndex) /\ pc = "hit" /\ buttons[hit].event \in Pagers
    BY <2>1, NextStart DEF Calls, Pagers
  <2> QED
    BY <1>1, <2>1, <2>2, TurnSound, IdsKept, NotShifting DEF Sound
<1>18. CASE drawPrevPage
  <2>1. Calls("drawPrevPage") /\ Running /\ TurnPage(topIndex - 2 * PerPage)
        /\ UNCHANGED <<page, bridgeVars, roomVars, lightIds, lastBehaviorId>> /\ pc' = "idle"
    BY <1>18 DEF drawPrevPage, Return, Alone
  <2>2. PageStart(topIndex - 2 * PerPage) /\ pc = "hit" /\ buttons[hit].event \in Pagers
    BY <2>1, PrevStart DEF Calls, Pagers
  <2> QED
    BY <1>1, <2>1, <2>2, TurnSound, IdsKept, NotShifting DEF Sound
<1>19. CASE Storing
  <2>1. UNCHANGED <<pc, hit, pressed, buttons, buttonCount, lightIds, lastBehaviorId>>
    BY <1>19, StoringKeeps DEF touchVars, buttonVars
  <2> QED
    BY <1>1, <2>1, SoundKept DEF Alone
<1>20. CASE drawRoom \/ fetchDataWild
  BY <1>1, <1>15, <1>19, <1>20, drawRoomIs DEF Storing
<1> QED
  BY <1>3, <1>4, <1>5, <1>6, <1>7, <1>8, <1>9, <1>10, <1>11, <1>12, <1>13, <1>14, <1>15, <1>16,
     <1>17, <1>18, <1>20
  DEF Work

LEMMA FetchSound ==
    ASSUME fetchData
    PROVE  Sound'
<1>1. ShowPlain("HJEM", 4) /\ pc' = "idle" /\ lightIds' = [b \in Behaviors |-> <<>>]
  BY DEF fetchData, Return
<1>2. "HJEM" \in Pages /\ 4 \in 2..6
  BY DEF Pages
<1> QED
  BY <1>1, <1>2, ShowPlainSound, IdsEmptied, NotShifting DEF Sound

SoundInv == races = 0 => Sound

LEMMA RacesNat == TypeOK => races \in Nat
<1>1. TypeOK => races \in 0..MaxRaces
  BY TypeParts DEF ControlOK
<1> QED
  BY <1>1, Sizes

LEMMA SoundInit == Init => SoundInv
<1> SUFFICES ASSUME Init PROVE Sound
  BY DEF SoundInv
<1>1. \A i \in Slots : ~IsItem(i)
  BY PlainTypes DEF Init, IsItem, Live, Plain, Cleared
<1>2. \A b \in Behaviors : DOMAIN lightIds[b] = {}
  <2>1. DOMAIN <<>> = {}
    OBVIOUS
  <2> QED
    BY <2>1 DEF Init
<1>3. Distinct /\ Filled
  BY <1>2 DEF Distinct, Filled
<1>4. pc = "idle"
  BY DEF Init
<1>5. Placed /\ Told
  BY <1>1 DEF Placed, LaterPlaced, Told
<1> QED
  BY <1>3, <1>4, <1>5 DEF Sound, IdsSound, ButtonsSound, Aimed, Shifting

LEMMA SoundInvStep == TypeOK /\ StructOK /\ SoundInv /\ [Next]_vars => SoundInv'
<1> SUFFICES ASSUME TypeOK, StructOK, SoundInv, [Next]_vars, races' = 0 PROVE Sound'
  BY DEF SoundInv
<1>1. CASE UNCHANGED vars
  BY <1>1, SoundKept DEF SoundInv, vars, touchVars, buttonVars
<1>2. CASE crash = "" /\ Work /\ races = 0
  <2>1. Alone
    BY <1>2 DEF Alone, Running, SoundInv
  <2>2. LightsOK'
    BY <1>2, <2>1, LightsStep DEF Alone
  <2> QED
    BY <1>2, <2>1, <2>2, SoundStep
<1>3. CASE crash = "" /\ Work /\ races # 0
  <2>1. races \in Nat
    BY RacesNat
  <2>2. fetchData \/ DialOpensLight \/ races' = races
    BY <1>3
    DEF Work, Tap, CallNothing, PressOther, drawRoom, LoadRoom, LoadRoomWild, fetchDataWild, drawRoomLights, drawLight, OpenPlain,
        OpenList, drawNextPage, drawPrevPage, CallSelect, StartRemoving, AddLight, AddLightWild,
        arrayShift, RemoveLight
  <2>3. DialOpensLight => races' = races \/ races' = races + 1
    BY DEF DialOpensLight
  <2>4. races' # races /\ races' # races + 1
    <3>1. races # 0
      BY <1>3
    <3>2. races + 1 # 0
      BY <2>1
    <3> QED
      BY <3>1, <3>2
  <2>5. fetchData
    BY <2>2, <2>3, <2>4
  <2> QED
    BY <2>5, FetchSound
<1> QED
  BY <1>1, <1>2, <1>3 DEF Next, Stopped

(* ------------------------------------------------------------------------ *)
(* Overruns.                                                                *)

(* A list without repetitions that misses a light has room for it.          *)
LEMMA RoomForOneMore ==
    ASSUME NEW n \in Nat, NEW f \in [1..n -> Lights], NEW l \in Lights,
           \A j, k \in 1..n : f[j] = f[k] => j = k,
           \A j \in 1..n : f[j] # l
    PROVE  n < ListSize
<1>1. ListSize \in Nat /\ ListSize >= 1
  BY Sizes
<1>2. IsFiniteSet(Lights) /\ Cardinality(Lights) = ListSize
  BY <1>1, FS_Interval DEF Lights
<1> DEFINE T == Lights \ {l}
<1>3. IsFiniteSet(T) /\ Cardinality(T) = ListSize - 1
  BY <1>2, FS_RemoveElement
<1>4. IsFiniteSet(1..n) /\ Cardinality(1..n) = n
  BY FS_Interval
<1>5. f \in [1..n -> T]
  OBVIOUS
<1> HIDE DEF T
<1>6. ASSUME n >= ListSize PROVE FALSE
  <2>1. Cardinality(T) < Cardinality(1..n)
    BY <1>1, <1>3, <1>4, <1>6
  <2>2. \E x, y \in 1..n : x # y /\ f[x] = f[y]
    BY <1>3, <1>4, <1>5, <2>1, FS_PigeonHole
  <2> QED
    BY <2>2
<1> QED
  BY <1>1, <1>6

LEMMA OverrunStep ==
    TypeOK /\ StructOK /\ SoundInv /\ OverrunNeedsRace /\ [Next]_vars => OverrunNeedsRace'
<1> SUFFICES ASSUME TypeOK, StructOK, SoundInv, OverrunNeedsRace, [Next]_vars
             PROVE  OverrunNeedsRace'
  OBVIOUS
<1>0. races \in Nat
  BY RacesNat
<1>1. CASE UNCHANGED vars
  BY <1>1 DEF OverrunNeedsRace, Overfull, vars, bridgeVars
<1>2. CASE crash = "" /\ Work /\ crash' = "store"
  <2>1. CASE fetchDataWild
    BY <1>2, <2>1 DEF fetchDataWild, OverrunNeedsRace
  <2>2. CASE drawRoom
    <3>1. PICK r : LoadRoomWild(r)
      BY <1>2, <2>2 DEF drawRoom, LoadRoom
    <3> QED
      BY <1>2, <3>1 DEF LoadRoomWild, OverrunNeedsRace, bridgeVars
  <2> QED
    BY <1>2, <2>1, <2>2
    DEF Work, Tap, CallNothing, PressOther, drawRoomLights, drawLight, OpenPlain,
        OpenList, drawNextPage, drawPrevPage, TurnPage, CallSelect, StartRemoving, AddLight, AddLightWild,
        arrayShift, RemoveLight, fetchData, DialOpensLight
<1>3. CASE crash = "" /\ Work /\ crash' \in {"event", "ids"}
  <2>1. CallNothing \/ AddLightWild
    BY <1>3
    DEF Work, Tap, PressOther, drawRoom, LoadRoom, LoadRoomWild, fetchDataWild, drawRoomLights, drawLight, OpenPlain,
        OpenList, drawNextPage, drawPrevPage, TurnPage, CallSelect, StartRemoving, AddLight,
        arrayShift, RemoveLight, fetchData, DialOpensLight
  <2>2. races' = races
    BY <2>1 DEF CallNothing, AddLightWild
  <2>3. ASSUME races = 0 PROVE FALSE
    <3>1. Alone
      BY <1>3, <2>3 DEF Alone, Running, SoundInv
    <3>2. Aimed /\ Told /\ hit \in Slots /\ LightsOK
      BY <3>1, AloneTypes
    <3>3. CASE CallNothing
      BY <3>2, <3>3 DEF CallNothing, Calls, Aimed, Live
    <3>4. CASE AddLightWild
      <4> DEFINE n == Len(Edited)
      <4>1. pc = "select" /\ ~buttons[hit].isSelected /\ n >= ListSize
        BY <3>4 DEF AddLightWild
      <4>2. n \in Nat /\ \A k \in 1..n : Edited[k] \in 0..ListSize
        BY <3>2, EditedType
      <4>3. /\ \A j, k \in 1..n : Edited[j] = Edited[k] => j = k
            /\ \A j \in 1..n : Edited[j] # 0
        BY <3>1, <4>1, EditedSound, AloneTypes
      <4>4. IsItem(hit) /\ buttons[hit].id = pressed /\ pressed \in Lights
        BY <3>1, <4>1, AloneTypes DEF Aimed, HitOK
      <4>5. pressed \notin Selected(lastBehaviorId)
        <5> HIDE DEF Selected, IsItem
        <5> QED
          BY <3>2, <4>1, <4>4 DEF Told
      <4>6. \A k \in 1..n : Edited[k] # pressed
        <5>1. lastBehaviorId \in Behaviors /\ pressed # 0
          BY <3>2, <4>4, Sizes DEF LightsOK, Lights
        <5>2. pressed \in Selected(lastBehaviorId)
                 <=> pressed # 0 /\ \E k \in 1..n : Edited[k] = pressed
          BY <3>2, <5>1, InSelected DEF Edited
        <5> QED
          BY <4>5, <5>1, <5>2
      <4>7. \A k \in 1..n : Edited[k] \in Lights
        <5> HIDE DEF n
        <5>1. \A k \in 1..n : Edited[k] \in 0..ListSize /\ Edited[k] # 0
          BY <4>2, <4>3
        <5> QED
          BY <5>1, Sizes DEF Lights
      <4>8. Edited \in [1..n -> Lights]
        <5>1. Edited \in [1..n -> 0..ListSize]
          BY <3>2, EditedType, LenProperties
        <5> HIDE DEF n, Edited
        <5> QED
          BY <4>7, <5>1
      <4> HIDE DEF n, Edited
      <4>9. n < ListSize
        BY <4>2, <4>3, <4>4, <4>6, <4>8, RoomForOneMore
      <4> QED
        BY <4>1, <4>2, <4>9, Sizes
    <3> QED
      BY <2>1, <3>3, <3>4
  <2> QED
    <3>1. races' > 0
      BY <1>0, <2>2, <2>3
    <3>2. crash' # "store"
      BY <1>3
    <3> QED
      BY <3>1, <3>2 DEF OverrunNeedsRace
<1>4. CASE crash' \notin {"event", "ids", "store"}
  BY <1>4 DEF OverrunNeedsRace
<1> QED
  BY <1>1, <1>2, <1>3, <1>4 DEF Next, Stopped

(* ------------------------------------------------------------------------ *)
(* Theorems.                                                                *)

LEMMA SoundIs == TypeOK /\ SoundInv => SelectionSound
<1> SUFFICES ASSUME Sound, pc # "shift"
             PROVE  /\ \A b \in Behaviors : \A j, k \in DOMAIN lightIds[b] :
                          lightIds[b][j] = lightIds[b][k] => j = k
                    /\ \A i \in Slots : Live(i) /\ buttons[i].event = "selectLight" =>
                          (buttons[i].isSelected <=> buttons[i].id \in Selected(lastBehaviorId))
  BY DEF SelectionSound, SoundInv
<1>1. Distinct /\ Told
  BY DEF Sound, IdsSound, ButtonsSound
<1> HIDE DEF Selected
<1> QED
  BY <1>1 DEF Distinct, Told, IsItem

(* Unless the dial overtook a tap, every button that reacts knows whether   *)
(* its light is selected, and none is selected twice: for any sizes, any    *)
(* number of pages, and the buttons a fuller page left behind (selectLight, *)
(* arrayShift, drawNextPage).                                               *)
THEOREM SelectionSafe == Spec => []SelectionSound
<1>1. Init => TypeOK /\ StructOK /\ SoundInv
  BY StructInit, SoundInit
<1>2. TypeOK /\ StructOK /\ SoundInv /\ [Next]_vars => (TypeOK /\ StructOK /\ SoundInv)'
  BY StructStep, SoundInvStep
<1>3. TypeOK /\ SoundInv => SelectionSound
  BY SoundIs
<1> QED
  BY <1>1, <1>2, <1>3, PTL DEF Spec

(* For any sizes and any household, a cleared handler is called, or the     *)
(* lightIds of a behaviour overrun, only after the dial drew a light        *)
(* between a tap and its handler; otherwise memory is overrun only by what  *)
(* the bridge reported (onTouchEvent, selectLight, getGroups, getLightIds). *)
THEOREM OverrunSafe == Spec => []OverrunNeedsRace
<1>1. Init => TypeOK /\ StructOK /\ SoundInv /\ OverrunNeedsRace
  <2>1. Init => OverrunNeedsRace
    BY DEF Init, Overfull, OverrunNeedsRace
  <2> QED
    BY <2>1, StructInit, SoundInit
<1>2. TypeOK /\ StructOK /\ SoundInv /\ OverrunNeedsRace /\ [Next]_vars
         => (TypeOK /\ StructOK /\ SoundInv /\ OverrunNeedsRace)'
  BY StructStep, SoundInvStep, OverrunStep
<1> QED
  BY <1>1, <1>2, PTL DEF Spec
=============================================================================
