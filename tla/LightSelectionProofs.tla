-------------------------- MODULE LightSelectionProofs --------------------------
(***************************************************************************)
(* Theorems about LightSelection, for any sizes and any household.         *)
(***************************************************************************)
EXTENDS LightSelection, SequenceTheorems, FiniteSetTheorems, TLAPS

(* ------------------------------------------------------------------------ *)
(* Constants and numbers.                                                   *)

LEMMA Sizes ==
    /\ PerPage \in Nat /\ PerPage >= 1
    /\ RoomsSize \in Nat /\ RoomsSize >= PerPage
    /\ ListSize \in Nat /\ ListSize >= PerPage
    /\ LightsSize \in Nat
    /\ U8 \in Nat /\ U8 > RoomsSize + PerPage /\ U8 > ListSize + PerPage /\ U8 > LightsSize
    /\ ButtonsSize \in Nat
    /\ ButtonsSize >= 4 + 2 * PerPage /\ ButtonsSize >= ListSize + 2
    /\ ButtonsSize >= 6
    /\ MaxRaces \in Nat
<1>1. ListSize >= PerPage
  <2>1. PICK k \in 1..ListSize : ListSize = k * PerPage
    BY SizeAssumption
  <2>2. k \in Nat /\ k >= 1 /\ PerPage \in Nat
    BY <2>1, SizeAssumption
  <2>3. k * PerPage >= PerPage
    BY <2>2
  <2> QED
    BY <2>1, <2>3
<1> QED
  BY <1>1, SizeAssumption

LEMMA Household ==
    /\ Groups \subseteq Nat /\ RoomLights \subseteq 0..(U8 - 1)
    /\ Listed \subseteq 0..(U8 - 1) /\ Known \subseteq Nat
  BY HouseholdAssumption

LEMMA Remainder ==
    ASSUME NEW a \in Int, NEW m \in Nat, m >= 1
    PROVE  /\ a % m \in 0..(m - 1)
           /\ a >= 0 /\ a < m => a % m = a
  OBVIOUS

LEMMA CountType ==
    ASSUME groups \in 0..RoomsSize
    PROVE  /\ roomsCount \in 0..(U8 - 1)
           /\ groups >= 1 => roomsCount = groups - 1
<1>1. groups + U8 - 1 \in Int
  BY Sizes
<1>2. roomsCount \in 0..(U8 - 1)
  BY <1>1, Sizes, Remainder DEF roomsCount
<1>3. ASSUME groups >= 1 PROVE roomsCount = groups - 1
  <2>1. (groups - 1 + U8) % U8 = groups - 1
    BY <1>3, Sizes
  <2>2. groups + U8 - 1 = groups - 1 + U8
    BY Sizes
  <2> QED
    BY <2>1, <2>2 DEF roomsCount
<1> QED
  BY <1>2, <1>3

(* A multiple of PerPage above PerPage is at least twice as large.          *)
LEMMA TwoPages ==
    ASSUME NEW k \in Nat, k * PerPage >= PerPage, k * PerPage # PerPage
    PROVE  /\ k * PerPage >= 2 * PerPage
           /\ k - 2 \in Nat /\ k * PerPage - 2 * PerPage = (k - 2) * PerPage
           /\ k * PerPage + PerPage = (k + 1) * PerPage
<1>1. PerPage \in Nat /\ PerPage >= 1
  BY Sizes
<1>2. k # 0 /\ k # 1
  BY <1>1
<1>3. k >= 2 /\ k - 2 \in Nat
  BY <1>2
<1>4. (k - 2) * PerPage = k * PerPage - 2 * PerPage /\ (k + 1) * PerPage = k * PerPage + PerPage
  BY <1>1, <1>3
<1>5. (k - 2) * PerPage >= 0
  BY <1>1, <1>3
<1>6. k * PerPage \in Nat
  BY <1>1
<1> QED
  BY <1>1, <1>3, <1>4, <1>5, <1>6

(* ------------------------------------------------------------------------ *)
(* The lists.                                                               *)

Pagers == {"drawNextPage", "drawPrevPage"}

(* What the bridge reported, whether it fits the arrays or not.             *)
BridgeType ==
    /\ groups \in Nat /\ known \in Nat
    /\ listed \in 0..(U8 - 1) /\ roomLights \in 0..(U8 - 1)
    /\ filledRooms \in 0..RoomsSize /\ filledLights \in 0..ListSize
    /\ ~Overfull => groups <= filledRooms /\ listed <= filledLights
    /\ crash # "store" => ~Overfull

LEMMA CountIsNat ==
    ASSUME NEW n \in 0..(U8 - 1)
    PROVE  n \in Nat
<1>1. U8 \in Nat
  BY SizeAssumption
<1> QED
  BY <1>1

LEMMA ArraysAreNat == RoomsSize \in Nat /\ ListSize \in Nat
  BY SizeAssumption

LEMMA LeastIs ==
    ASSUME NEW a \in Nat, NEW m \in Nat
    PROVE  /\ Least(a, m) \in 0..m
           /\ a <= m => a <= Least(a, m)
  BY DEF Least

LEMMA LargestIs ==
    ASSUME NEW m \in Nat, NEW a \in 0..m, NEW b \in Nat, b <= m
    PROVE  Largest(a, b) \in 0..m /\ b <= Largest(a, b)
  BY DEF Largest

(* It fits.                                                                 *)
BridgeOK ==
    /\ groups \in 0..RoomsSize /\ filledRooms \in groups..RoomsSize
    /\ listed \in 0..ListSize /\ filledLights \in listed..ListSize
    /\ known \in 0..(U8 - 1) /\ roomLights \in 0..(U8 - 1)

LEMMA Fits == BridgeType /\ crash # "store" => BridgeOK
  BY Sizes DEF BridgeType, BridgeOK, Overfull

RoomsOK == lastRoom \in Nat /\ currentRoom \in [index : Nat, lights : 0..ListSize]

LightsOK ==
    /\ lastBehaviorId \in Behaviors
    /\ lightIds \in [Behaviors -> Seq(0..ListSize)]
    /\ \A b \in Behaviors : Len(lightIds[b]) <= ListSize

ControlOK ==
    /\ pc \in {"idle", "hit", "room", "select", "shift"}
    /\ hit \in Slots /\ pressed \in 0..ListSize
    /\ page \in Pages
    /\ currentScreenType \in {"HOME", "ROOMS", "ROOM", "LIGHT"}
    /\ races \in 0..MaxRaces
    /\ crash \in {"", "event", "list", "ids", "store"}

ButtonsOK ==
    /\ buttons \in [Slots -> Button]
    /\ buttonCount \in 0..ButtonsSize /\ shown \subseteq Slots
    /\ topIndex \in 0..(U8 - 1)

LEMMA TypeParts == TypeOK <=> ControlOK /\ ButtonsOK /\ BridgeType /\ RoomsOK /\ LightsOK
  BY DEF TypeOK, ControlOK, ButtonsOK, BridgeType, RoomsOK, LightsOK

LEMMA TypePartsNext ==
    TypeOK' <=> ControlOK' /\ ButtonsOK' /\ BridgeType' /\ RoomsOK' /\ LightsOK'
  BY DEF TypeOK, ControlOK, ButtonsOK, BridgeType, RoomsOK, LightsOK

LEMMA CounterTypes ==
    ASSUME BridgeOK, RoomsOK, NEW g \in Lists
    PROVE  /\ FirstCounter(g) \in 0..(U8 - 1) /\ LaterCounter(g) \in 0..(U8 - 1)
           /\ Limit(g) \in 0..ListEnd(g) /\ ListEnd(g) \in Nat
           /\ ListEnd(g) + PerPage < U8
           /\ Paginated(g) /\ PerPage < FirstCounter(g) => PerPage < LaterCounter(g)
<1>1. roomsCount \in 0..(U8 - 1)
  BY CountType DEF BridgeOK
<1>2. currentRoom.lights \in 0..ListSize
  BY DEF RoomsOK
<1>3. CASE g = "ALLE RUM"
  <2>1. FirstCounter(g) = roomsCount /\ LaterCounter(g) = roomsCount /\ Limit(g) = filledRooms
        /\ ListEnd(g) = RoomsSize
    BY <1>3 DEF FirstCounter, LaterCounter, Limit, ListEnd
  <2> HIDE DEF roomsCount
  <2> QED
    BY <2>1, <1>1, Sizes DEF BridgeOK
<1>4. CASE g = "RUM"
  <2>1. FirstCounter(g) = currentRoom.lights /\ LaterCounter(g) = currentRoom.lights
        /\ Limit(g) = currentRoom.lights /\ ListEnd(g) = ListSize
    BY <1>4 DEF FirstCounter, LaterCounter, Limit, ListEnd
  <2> QED
    BY <2>1, <1>2, Sizes
<1>5. CASE g = "ALLE LAMPER"
  <2>1. FirstCounter(g) = listed /\ LaterCounter(g) = known /\ Limit(g) = filledLights
        /\ ListEnd(g) = ListSize /\ (Paginated(g) <=> known > PerPage)
    BY <1>5 DEF FirstCounter, LaterCounter, Limit, ListEnd, Paginated
  <2> QED
    BY <2>1, Sizes DEF BridgeOK
<1> QED
  BY <1>3, <1>4, <1>5 DEF Lists

(* The items drawn exist, and there are no more than the loop may draw.     *)
LEMMA DrawnIs ==
    ASSUME BridgeOK, RoomsOK, NEW g \in Lists, NEW start \in Nat, NEW end \in Nat, start <= end
    PROVE  /\ Drawn(g, start, end) \in 0..(end - start)
           /\ Drawn(g, start, end) > 0 => start + Drawn(g, start, end) <= Limit(g)
  BY CounterTypes DEF Drawn, Least

(* The button of an item of a list is a button, of the list's own kind.       *)
LEMMA ItemType ==
    ASSUME LightsOK, NEW g \in Lists, NEW i \in Nat, i < ListEnd(g)
    PROVE  /\ Item(g, i) \in Button
           /\ Item(g, i).event \in {"drawRoom", "drawLight", "selectLight"}
           /\ Item(g, i).event = "selectLight" =>
                 /\ g = "ALLE LAMPER" /\ Item(g, i).id = i + 1 /\ i + 1 \in Lights
                 /\ Item(g, i).isSelected <=> i + 1 \in Selected(lastBehaviorId)
<1>1. CASE g = "ALLE LAMPER"
  <2> DEFINE s == i + 1 \in Selected(lastBehaviorId)
  <2>1. Item(g, i) = [event |-> "selectLight", id |-> i + 1, isSelected |-> s]
    BY <1>1 DEF Item
  <2>2. s \in BOOLEAN
    OBVIOUS
  <2>3. i + 1 \in Nat /\ i + 1 \in Lights
    <3>1. ListEnd(g) = ListSize
      BY <1>1 DEF ListEnd
    <3> QED
      BY <3>1, Sizes DEF Lights
  <2>4. s <=> i + 1 \in Selected(lastBehaviorId)
    OBVIOUS
  <2> HIDE DEF s
  <2>5. /\ Item(g, i) \in Button /\ Item(g, i).event = "selectLight"
        /\ Item(g, i).id = i + 1 /\ Item(g, i).isSelected = s
    BY <2>1, <2>2, <2>3 DEF Button, Events
  <2> QED
    BY <1>1, <2>3, <2>4, <2>5
<1>2. CASE g = "RUM"
  BY <1>2 DEF Item, NewButton, Button, Events
<1>3. CASE g = "ALLE RUM"
  BY <1>3 DEF Item, NewButton, Button, Events
<1> QED
  BY <1>1, <1>2, <1>3 DEF Lists

LEMMA PlainTypes == Plain \in Button /\ Cleared \in Button /\ Plain.event = "plain" /\ Cleared.event = "none"
  BY DEF Plain, Cleared, NewButton, Button, Events

LEMMA PagerTypes ==
    /\ NewButton("drawNextPage", 1) \in Button /\ NewButton("drawNextPage", 1).event = "drawNextPage"
    /\ NewButton("drawPrevPage", 1) \in Button /\ NewButton("drawPrevPage", 1).event = "drawPrevPage"
  BY DEF NewButton, Button, Events

(* ------------------------------------------------------------------------ *)
(* What the drawings leave.                                                 *)

LEMMA ShowPlainDraws ==
    ASSUME NEW g \in Pages, NEW n \in 2..6, ShowPlain(g, n)
    PROVE  /\ page' = g /\ buttons' \in [Slots -> Button]
           /\ buttonCount' = n /\ buttonCount' \in 0..ButtonsSize /\ shown' \subseteq Slots
           /\ \A i \in Slots : buttons'[i].event \in {"none", "plain"}
           /\ \A i \in Slots : i < n => buttons'[i].event = "plain"
<1>1. buttons' = [i \in Slots |-> IF i < n THEN Plain ELSE Cleared] /\ page' = g
      /\ buttonCount' = n /\ shown' = 0..(n - 1)
  BY DEF ShowPlain
<1>2. shown' \subseteq Slots
  BY <1>1, Sizes DEF Slots
<1> QED
  BY <1>1, <1>2, Sizes, PlainTypes

FirstEnd(g) == IF g = "ALLE LAMPER" /\ ~Paginated(g) THEN listed ELSE PerPage
FirstNext(g) == Paginated(g) /\ PerPage < FirstCounter(g)
FirstAt(g) == IF ~Paginated(g) THEN 2 ELSE IF FirstNext(g) THEN PerPage + 4 ELSE PerPage + 3
FirstDrawn(g) == Drawn(g, 0, FirstEnd(g))

LEMMA FirstPage ==
    ASSUME BridgeOK, RoomsOK, NEW g \in Lists
    PROVE  /\ FirstEnd(g) \in Nat /\ FirstEnd(g) \in 0..(U8 - 1)
           /\ FirstDrawn(g) \in 0..FirstEnd(g)
           /\ FirstDrawn(g) <= ListEnd(g) /\ ListEnd(g) \in Nat
           /\ FirstAt(g) \in 2..(PerPage + 4)
           /\ FirstAt(g) + FirstDrawn(g) <= ButtonsSize
           /\ FirstNext(g) => FirstAt(g) = PerPage + 4 /\ FirstEnd(g) = PerPage
                              /\ PerPage < LaterCounter(g)
           /\ Paginated(g) => FirstAt(g) >= PerPage + 3 /\ FirstEnd(g) = PerPage
<1>0. listed \in Nat /\ listed <= ListSize
  BY Sizes DEF BridgeOK
<1>1. FirstEnd(g) \in Nat /\ FirstEnd(g) \in 0..(U8 - 1)
  <2>1. FirstEnd(g) = listed \/ FirstEnd(g) = PerPage
    BY DEF FirstEnd
  <2> QED
    BY <1>0, <2>1, Sizes
<1>2. FirstDrawn(g) \in 0..(FirstEnd(g) - 0)
      /\ (FirstDrawn(g) > 0 => 0 + FirstDrawn(g) <= Limit(g))
  BY <1>1, DrawnIs DEF FirstDrawn
<1>3. Limit(g) \in 0..ListEnd(g) /\ ListEnd(g) \in Nat
      /\ (FirstNext(g) => PerPage < LaterCounter(g))
  BY CounterTypes DEF FirstNext
<1>4. FirstAt(g) \in 2..(PerPage + 4)
  BY Sizes DEF FirstAt
<1>5. /\ FirstNext(g) => Paginated(g) /\ FirstAt(g) = PerPage + 4
      /\ Paginated(g) => FirstAt(g) >= PerPage + 3 /\ FirstEnd(g) = PerPage
      /\ ~Paginated(g) => FirstAt(g) = 2 /\ FirstEnd(g) \in {listed, PerPage}
  <2>1. Paginated(g) => FirstEnd(g) = PerPage /\ (FirstAt(g) = PerPage + 3 \/ FirstAt(g) = PerPage + 4)
    BY DEF FirstAt, FirstEnd
  <2>2. FirstNext(g) => Paginated(g) /\ FirstAt(g) = PerPage + 4
    BY DEF FirstAt, FirstNext
  <2>3. ~Paginated(g) => FirstAt(g) = 2 /\ (FirstEnd(g) = listed \/ FirstEnd(g) = PerPage)
    BY DEF FirstAt, FirstEnd
  <2> QED
    BY <2>1, <2>2, <2>3, Sizes
<1>6. FirstAt(g) + FirstDrawn(g) <= ButtonsSize
  <2>1. CASE Paginated(g)
    BY <2>1, <1>1, <1>2, <1>4, <1>5, Sizes
  <2>2. CASE ~Paginated(g)
    BY <2>2, <1>0, <1>1, <1>2, <1>5, Sizes
  <2> QED
    BY <2>1, <2>2
<1>7. FirstDrawn(g) \in 0..FirstEnd(g) /\ FirstDrawn(g) <= ListEnd(g)
  BY <1>1, <1>2, <1>3
<1> QED
  BY <1>1, <1>3, <1>4, <1>5, <1>6, <1>7

FirstButton(g, i) ==
    IF i < 2 THEN Plain
    ELSE IF FirstNext(g) /\ i = PerPage + 3 THEN NewButton("drawNextPage", 1)
    ELSE IF i >= FirstAt(g) /\ i < FirstAt(g) + FirstDrawn(g) THEN Item(g, i - FirstAt(g))
    ELSE Cleared

LEMMA ShowListIs ==
    ASSUME NEW g \in Lists, ShowList(g)
    PROVE  /\ page' = g
           /\ buttons' = [i \in Slots |-> FirstButton(g, i)]
           /\ buttonCount' = FirstAt(g) + FirstDrawn(g)
           /\ shown' = {0, 1} \cup (IF FirstNext(g) THEN {PerPage + 3} ELSE {})
                         \cup FirstAt(g)..(FirstAt(g) + FirstDrawn(g) - 1)
           /\ topIndex' = FirstEnd(g)
  BY DEF ShowList, FirstEnd, FirstNext, FirstAt, FirstDrawn, FirstButton

(* The buttons of the first page of a list.                                 *)
LEMMA FirstButtons ==
    ASSUME BridgeOK, RoomsOK, LightsOK, NEW g \in Lists, NEW i \in Slots
    PROVE  /\ FirstButton(g, i) \in Button
           /\ FirstButton(g, i).event \in Pagers =>
                 FirstNext(g) /\ i = PerPage + 3 /\ FirstButton(g, i).event = "drawNextPage"
           /\ FirstButton(g, i).event = "selectLight" =>
                 /\ g = "ALLE LAMPER" /\ FirstButton(g, i) = Item(g, i - FirstAt(g))
                 /\ i \in FirstAt(g)..(FirstAt(g) + FirstDrawn(g) - 1)
                 /\ FirstButton(g, i).id = i - FirstAt(g) + 1
                 /\ FirstButton(g, i).id \in Lights
                 /\ FirstButton(g, i).isSelected
                       <=> FirstButton(g, i).id \in Selected(lastBehaviorId)
           /\ i < FirstAt(g) + FirstDrawn(g) /\ i >= FirstAt(g) => FirstButton(g, i) = Item(g, i - FirstAt(g))
<1>1. i \in Nat
  BY Sizes DEF Slots
<1>2. CASE i < 2
  <2>1. FirstButton(g, i) = Plain
    BY <1>2 DEF FirstButton
  <2>2. FirstAt(g) \in Nat /\ ~(i >= FirstAt(g))
    BY <1>1, <1>2, FirstPage, Sizes
  <2> QED
    BY <2>1, <2>2, PlainTypes DEF Pagers
<1>3. CASE ~(i < 2) /\ FirstNext(g) /\ i = PerPage + 3
  <2>1. FirstButton(g, i) = NewButton("drawNextPage", 1)
    BY <1>3 DEF FirstButton
  <2>2. ~(i >= FirstAt(g))
    BY <1>1, <1>3, FirstPage, Sizes
  <2> QED
    BY <1>3, <2>1, <2>2, PagerTypes DEF Pagers
<1>4. CASE ~(i < 2) /\ ~(FirstNext(g) /\ i = PerPage + 3)
           /\ i >= FirstAt(g) /\ i < FirstAt(g) + FirstDrawn(g)
  <2>1. FirstButton(g, i) = Item(g, i - FirstAt(g))
    BY <1>4 DEF FirstButton
  <2>2. i - FirstAt(g) \in Nat /\ i - FirstAt(g) < ListEnd(g)
        /\ i \in FirstAt(g)..(FirstAt(g) + FirstDrawn(g) - 1)
    BY <1>1, <1>4, FirstPage
  <2> DEFINE k == i - FirstAt(g)
  <2>3. k \in Nat /\ k < ListEnd(g) /\ FirstButton(g, i) = Item(g, k)
    BY <2>1, <2>2
  <2> HIDE DEF k
  <2>4. /\ Item(g, k) \in Button
        /\ Item(g, k).event \in {"drawRoom", "drawLight", "selectLight"}
        /\ Item(g, k).event = "selectLight" =>
              /\ g = "ALLE LAMPER" /\ Item(g, k).id = k + 1 /\ k + 1 \in Lights
              /\ Item(g, k).isSelected <=> k + 1 \in Selected(lastBehaviorId)
    BY <2>3, ItemType
  <2>5. k = i - FirstAt(g) /\ k + 1 = i - FirstAt(g) + 1
    BY DEF k
  <2> QED
    BY <2>2, <2>3, <2>4, <2>5 DEF Pagers
<1>5. CASE ~(i < 2) /\ ~(FirstNext(g) /\ i = PerPage + 3)
           /\ ~(i >= FirstAt(g) /\ i < FirstAt(g) + FirstDrawn(g))
  <2>1. FirstButton(g, i) = Cleared
    BY <1>5 DEF FirstButton
  <2> QED
    BY <2>1, <1>5, PlainTypes DEF Pagers
<1> QED
  BY <1>2, <1>3, <1>4, <1>5

TurnTop(start) == (start + PerPage) % U8
TurnDrawn(start) == Drawn(page, start, start + PerPage)
TurnPrev(start) == TurnTop(start) # PerPage
TurnNext(start) == TurnTop(start) < LaterCounter(page)
NextAt(start) == IF TurnPrev(start) THEN PerPage + 4 ELSE PerPage + 3
TurnCount(start) == IF TurnNext(start) THEN NextAt(start) + 1 ELSE NextAt(start)

TurnButton(start, i) ==
    IF i >= 3 /\ i < 3 + TurnDrawn(start) THEN Item(page, start + i - 3)
    ELSE IF TurnPrev(start) /\ i = PerPage + 3 THEN NewButton("drawPrevPage", 1)
    ELSE IF TurnNext(start) /\ i = NextAt(start) THEN NewButton("drawNextPage", 1)
    ELSE buttons[i]

LEMMA TurnPageIs ==
    ASSUME NEW start, TurnPage(start)
    PROVE  /\ buttons' = [i \in Slots |-> TurnButton(start, i)]
           /\ buttonCount' = TurnCount(start)
           /\ shown' = {0, 1} \cup 3..(2 + TurnDrawn(start))
                         \cup (PerPage + 3)..(TurnCount(start) - 1)
           /\ topIndex' = TurnTop(start)
           /\ crash' = IF ReadsOutside(page, start, start + PerPage) THEN "list" ELSE ""
  BY DEF TurnPage, TurnTop, TurnDrawn, TurnPrev, TurnNext, NextAt, TurnCount, TurnButton

LEMMA TurnNumbers ==
    ASSUME BridgeOK, RoomsOK, page \in Lists, NEW start \in Nat
    PROVE  /\ TurnTop(start) \in 0..(U8 - 1)
           /\ start + PerPage < U8 => TurnTop(start) = start + PerPage
           /\ TurnDrawn(start) \in 0..PerPage
           /\ TurnDrawn(start) > 0 => start + TurnDrawn(start) <= ListEnd(page)
           /\ ListEnd(page) \in Nat
           /\ NextAt(start) \in (PerPage + 3)..(PerPage + 4)
           /\ TurnCount(start) \in (PerPage + 3)..(PerPage + 5)
           /\ PerPage + 5 <= ButtonsSize
<1> DEFINE end == start + PerPage
<1>1. end \in Nat /\ end \in Int /\ end >= 0 /\ start <= end /\ end - start = PerPage
  BY Sizes
<1>0. TurnDrawn(start) = Drawn(page, start, end) /\ TurnTop(start) = end % U8
  BY DEF TurnDrawn, TurnTop
<1> HIDE DEF end
<1>2. /\ TurnDrawn(start) \in 0..PerPage
      /\ TurnDrawn(start) > 0 => start + TurnDrawn(start) <= Limit(page)
  <2>1. /\ Drawn(page, start, end) \in 0..(end - start)
        /\ Drawn(page, start, end) > 0 => start + Drawn(page, start, end) <= Limit(page)
    BY <1>1, DrawnIs
  <2> QED
    BY <2>1, <1>0, <1>1
<1>3. Limit(page) \in 0..ListEnd(page) /\ ListEnd(page) \in Nat
  BY CounterTypes
<1>4. TurnTop(start) \in 0..(U8 - 1) /\ (start + PerPage < U8 => TurnTop(start) = start + PerPage)
  <2>1. U8 \in Nat /\ U8 >= 1
    BY Sizes
  <2>2. end % U8 \in 0..(U8 - 1) /\ (end < U8 => end % U8 = end)
    BY <1>1, <2>1, Remainder
  <2> QED
    BY <1>0, <2>2 DEF end
<1>5. NextAt(start) \in (PerPage + 3)..(PerPage + 4)
  BY Sizes DEF NextAt
<1>6. TurnCount(start) \in (PerPage + 3)..(PerPage + 5)
  BY <1>5, Sizes DEF TurnCount
<1>7. PerPage + 5 <= ButtonsSize
  BY Sizes
<1>8. TurnDrawn(start) > 0 => start + TurnDrawn(start) <= ListEnd(page)
  BY <1>2, <1>3, Sizes
<1> QED
  BY <1>2, <1>3, <1>4, <1>5, <1>6, <1>7, <1>8

(* The buttons of a later page: drawn now, or left from before.             *)
LEMMA TurnButtons ==
    ASSUME BridgeOK, RoomsOK, LightsOK, buttons \in [Slots -> Button], page \in Lists,
           NEW start \in Nat, NEW i \in Slots
    PROVE  /\ TurnButton(start, i) \in Button
           /\ TurnButton(start, i).event \in Pagers =>
                 \/ TurnButton(start, i) = buttons[i]
                 \/ /\ i = PerPage + 3 /\ TurnPrev(start)
                    /\ TurnButton(start, i).event = "drawPrevPage"
                 \/ /\ i = NextAt(start) /\ TurnNext(start)
                    /\ TurnButton(start, i).event = "drawNextPage"
           /\ i >= PerPage + 3 /\ i < TurnCount(start) =>
                 \/ /\ i = PerPage + 3 /\ TurnPrev(start)
                    /\ TurnButton(start, i).event = "drawPrevPage"
                 \/ /\ i = NextAt(start) /\ TurnNext(start)
                    /\ TurnButton(start, i).event = "drawNextPage"
           /\ TurnButton(start, i).event = "selectLight" =>
                 \/ TurnButton(start, i) = buttons[i]
                 \/ /\ page = "ALLE LAMPER" /\ i \in 3..(PerPage + 2)
                    /\ TurnButton(start, i).id = start + i - 2
                    /\ TurnButton(start, i).id \in Lights
                    /\ TurnButton(start, i).isSelected
                          <=> TurnButton(start, i).id \in Selected(lastBehaviorId)
<1>1. i \in Nat
  BY Sizes DEF Slots
<1>2. CASE i >= 3 /\ i < 3 + TurnDrawn(start)
  <2>1. i \in 3..(PerPage + 2)
    BY <1>1, <1>2, TurnNumbers, Sizes
  <2> DEFINE k == start + i - 3
  <2>2. k \in Nat /\ k < ListEnd(page)
    BY <1>1, <1>2, TurnNumbers
  <2>3. k + 1 = start + i - 2
    BY <1>1
  <2>4. TurnButton(start, i) = Item(page, k)
    BY <1>2 DEF TurnButton
  <2> HIDE DEF k
  <2>5. /\ Item(page, k) \in Button
        /\ Item(page, k).event \in {"drawRoom", "drawLight", "selectLight"}
        /\ Item(page, k).event = "selectLight" =>
              /\ page = "ALLE LAMPER" /\ Item(page, k).id = k + 1 /\ k + 1 \in Lights
              /\ Item(page, k).isSelected <=> k + 1 \in Selected(lastBehaviorId)
    BY <2>2, ItemType
  <2>6. ~(i >= PerPage + 3)
    BY <2>1, Sizes
  <2> QED
    BY <2>1, <2>3, <2>4, <2>5, <2>6 DEF Pagers
<1>3. CASE ~(i >= 3 /\ i < 3 + TurnDrawn(start)) /\ TurnPrev(start) /\ i = PerPage + 3
  <2>1. TurnButton(start, i) = NewButton("drawPrevPage", 1)
    BY <1>3 DEF TurnButton
  <2> QED
    BY <1>3, <2>1, PagerTypes
<1>4. CASE /\ ~(i >= 3 /\ i < 3 + TurnDrawn(start)) /\ ~(TurnPrev(start) /\ i = PerPage + 3)
           /\ TurnNext(start) /\ i = NextAt(start)
  <2>1. TurnButton(start, i) = NewButton("drawNextPage", 1)
    BY <1>4 DEF TurnButton
  <2> QED
    BY <1>4, <2>1, PagerTypes
<1>5. CASE /\ ~(i >= 3 /\ i < 3 + TurnDrawn(start)) /\ ~(TurnPrev(start) /\ i = PerPage + 3)
           /\ ~(TurnNext(start) /\ i = NextAt(start))
  <2>1. TurnButton(start, i) = buttons[i]
    BY <1>5 DEF TurnButton
  <2>2. ASSUME i >= PerPage + 3, i < TurnCount(start) PROVE FALSE
    <3>1. CASE TurnNext(start)
      <4>1. TurnCount(start) = NextAt(start) + 1
        BY <3>1 DEF TurnCount
      <4>2. i # NextAt(start) /\ (TurnPrev(start) => i # PerPage + 3)
        BY <1>5, <3>1
      <4>3. NextAt(start) = PerPage + 3 \/ (TurnPrev(start) /\ NextAt(start) = PerPage + 4)
        BY DEF NextAt
      <4> QED
        BY <1>1, <2>2, <4>1, <4>2, <4>3, Sizes
    <3>2. CASE ~TurnNext(start)
      <4>1. TurnCount(start) = NextAt(start)
        BY <3>2 DEF TurnCount
      <4>2. TurnPrev(start) => i # PerPage + 3
        BY <1>5
      <4>3. NextAt(start) = PerPage + 3 \/ (TurnPrev(start) /\ NextAt(start) = PerPage + 4)
        BY DEF NextAt
      <4> QED
        BY <1>1, <2>2, <4>1, <4>2, <4>3, Sizes
    <3> QED
      BY <3>1, <3>2
  <2> QED
    BY <2>1, <2>2
<1> QED
  BY <1>2, <1>3, <1>4, <1>5

(* ------------------------------------------------------------------------ *)
(* The inductive invariant.                                                 *)

(* The pager buttons lie behind the room for a full page.  They lead to     *)
(* pages that exist, and only a later page than the first has a way back.   *)
PagersLead ==
    \A i \in Slots : buttons[i].event \in Pagers =>
        /\ i >= PerPage + 3
        /\ page \in Lists /\ Paginated(page) /\ PerPage < LaterCounter(page)
        /\ PerPage <= topIndex /\ topIndex < LaterCounter(page) + PerPage
        /\ \E k \in Nat : topIndex = k * PerPage
        /\ i < buttonCount =>
              /\ buttons[i].event = "drawNextPage" => topIndex < LaterCounter(page)
              /\ buttons[i].event = "drawPrevPage" => topIndex # PerPage

(* A button that selects a light knows which; it is on the page of lights.  *)
ItemsOK ==
    \A i \in Slots : buttons[i].event = "selectLight" =>
        buttons[i].id \in Lights /\ page = "ALLE LAMPER"

HitOK ==
    /\ pc = "hit" /\ buttons[hit].event \in Pagers => hit < buttonCount
    /\ pc \in {"select", "shift"} => pressed \in Lights

StructOK == ItemsOK /\ HitOK /\ (crash = "" => PagersLead)

Running == TypeOK /\ StructOK /\ crash = ""

LEMMA RunningParts ==
    Running => ControlOK /\ ButtonsOK /\ BridgeType /\ BridgeOK /\ RoomsOK /\ LightsOK
  BY TypeParts, Fits DEF Running

LEMMA CountersOf ==
    ASSUME NEW g, page' = g, UNCHANGED <<bridgeVars, roomVars>>
    PROVE  LaterCounter(page)' = LaterCounter(g) /\ (Paginated(page)' <=> Paginated(g))
  BY DEF LaterCounter, FirstCounter, Paginated, roomsCount, bridgeVars, roomVars

LEMMA PlainLeads ==
    ASSUME NEW g \in Pages, NEW n \in 2..6, ShowPlain(g, n)
    PROVE  PagersLead' /\ ItemsOK'
  BY ShowPlainDraws DEF PagersLead, ItemsOK, Pagers

LEMMA OneIsEnough == PerPage = 1 * PerPage /\ 1 \in Nat
  BY Sizes

LEMMA FirstLeads ==
    ASSUME Running, NEW g \in Lists, ShowList(g), UNCHANGED <<bridgeVars, roomVars>>
    PROVE  PagersLead' /\ ItemsOK' /\ (buttons \in [Slots -> Button])'
           /\ (buttonCount \in 0..ButtonsSize)' /\ (shown \subseteq Slots)'
           /\ (topIndex \in 0..(U8 - 1))'
<1>1. BridgeOK /\ RoomsOK /\ LightsOK
  BY RunningParts
<1>2. /\ page' = g
      /\ buttons' = [i \in Slots |-> FirstButton(g, i)]
      /\ buttonCount' = FirstAt(g) + FirstDrawn(g)
      /\ shown' = {0, 1} \cup (IF FirstNext(g) THEN {PerPage + 3} ELSE {})
                    \cup FirstAt(g)..(FirstAt(g) + FirstDrawn(g) - 1)
      /\ topIndex' = FirstEnd(g)
  BY ShowListIs
<1>3. LaterCounter(page)' = LaterCounter(g) /\ (Paginated(page)' <=> Paginated(g))
  BY <1>2, CountersOf
<1>4. ItemsOK' /\ (buttons \in [Slots -> Button])'
  BY <1>1, <1>2, FirstButtons DEF ItemsOK
<1>5. PagersLead'
  <2> SUFFICES ASSUME NEW i \in Slots, buttons'[i].event \in Pagers
               PROVE  /\ i >= PerPage + 3
                      /\ page' \in Lists /\ Paginated(page)' /\ PerPage < LaterCounter(page)'
                      /\ PerPage <= topIndex' /\ topIndex' < LaterCounter(page)' + PerPage
                      /\ \E k \in Nat : topIndex' = k * PerPage
                      /\ i < buttonCount' =>
                            /\ buttons'[i].event = "drawNextPage" => topIndex' < LaterCounter(page)'
                            /\ buttons'[i].event = "drawPrevPage" => topIndex' # PerPage
    BY DEF PagersLead
  <2>1. buttons'[i] = FirstButton(g, i)
    BY <1>2
  <2>2. FirstNext(g) /\ i = PerPage + 3 /\ buttons'[i].event = "drawNextPage"
    <3>1. FirstButton(g, i).event \in Pagers =>
             FirstNext(g) /\ i = PerPage + 3 /\ FirstButton(g, i).event = "drawNextPage"
      BY <1>1, FirstButtons
    <3> QED
      BY <2>1, <3>1
  <2>3. Paginated(g) /\ FirstEnd(g) = PerPage /\ PerPage < LaterCounter(g)
    BY <1>1, <2>2, FirstPage DEF FirstNext
  <2>4. LaterCounter(g) \in Nat /\ PerPage \in Nat /\ PerPage >= 1
    BY <1>1, CounterTypes, Sizes
  <2> HIDE DEF LaterCounter, Paginated, Lists
  <2> QED
    BY <1>2, <1>3, <2>2, <2>3, <2>4, OneIsEnough
<1>6. FirstAt(g) \in 2..(PerPage + 4) /\ FirstDrawn(g) \in Nat
      /\ FirstAt(g) + FirstDrawn(g) <= ButtonsSize /\ FirstEnd(g) \in 0..(U8 - 1)
  BY <1>1, FirstPage
<1>7. (shown \subseteq Slots)'
  BY <1>2, <1>6, Sizes DEF Slots
<1>8. (buttonCount \in 0..ButtonsSize)' /\ (topIndex \in 0..(U8 - 1))'
  BY <1>2, <1>6, Sizes
<1> QED
  BY <1>4, <1>5, <1>7, <1>8

(* Where a pager starts.                                                    *)
PageStart(start) ==
    /\ start \in Nat /\ \E k \in Nat : start = k * PerPage
    /\ start < LaterCounter(page)
    /\ page \in Lists /\ Paginated(page) /\ PerPage < LaterCounter(page)

LEMMA NextStart ==
    ASSUME Running, Calls("drawNextPage")
    PROVE  PageStart(topIndex)
<1>1. hit \in Slots /\ buttons[hit].event \in Pagers /\ hit < buttonCount /\ topIndex \in Nat
  <2>1. hit \in Slots /\ topIndex \in 0..(U8 - 1)
    BY TypeParts DEF Running, ControlOK, ButtonsOK
  <2>2. pc = "hit" /\ buttons[hit].event \in Pagers
    BY DEF Calls, Pagers
  <2>3. hit < buttonCount
    BY <2>2 DEF Running, StructOK, HitOK
  <2> QED
    BY <2>1, <2>2, <2>3, Sizes
<1>2. PagersLead
  BY DEF Running, StructOK
<1> QED
  BY <1>1, <1>2 DEF PagersLead, PageStart, Calls

LEMMA PrevStart ==
    ASSUME Running, Calls("drawPrevPage")
    PROVE  PageStart(topIndex - 2 * PerPage)
<1>1. hit \in Slots /\ buttons[hit].event \in Pagers /\ hit < buttonCount /\ topIndex \in Nat
  <2>1. hit \in Slots /\ topIndex \in 0..(U8 - 1)
    BY TypeParts DEF Running, ControlOK, ButtonsOK
  <2>2. pc = "hit" /\ buttons[hit].event \in Pagers
    BY DEF Calls, Pagers
  <2>3. hit < buttonCount
    BY <2>2 DEF Running, StructOK, HitOK
  <2> QED
    BY <2>1, <2>2, <2>3, Sizes
<1>2. /\ page \in Lists /\ Paginated(page) /\ PerPage < LaterCounter(page)
      /\ PerPage <= topIndex /\ topIndex < LaterCounter(page) + PerPage
      /\ \E k \in Nat : topIndex = k * PerPage
      /\ topIndex # PerPage
  BY <1>1 DEF Running, StructOK, PagersLead, Calls
<1>3. PICK k \in Nat : topIndex = k * PerPage
  BY <1>2
<1>4. k * PerPage >= 2 * PerPage /\ k - 2 \in Nat /\ k * PerPage - 2 * PerPage = (k - 2) * PerPage
  BY <1>2, <1>3, TwoPages
<1>5. LaterCounter(page) \in Nat /\ PerPage \in Nat
  <2>1. BridgeOK /\ RoomsOK
    BY RunningParts
  <2>2. LaterCounter(page) \in 0..(U8 - 1)
    BY <1>2, <2>1, CounterTypes
  <2> QED
    BY <2>2, Sizes
<1>6. topIndex - 2 * PerPage \in Nat /\ topIndex - 2 * PerPage < LaterCounter(page)
  BY <1>1, <1>2, <1>3, <1>4, <1>5
<1>7. topIndex - 2 * PerPage = (k - 2) * PerPage
  BY <1>3, <1>4
<1> QED
  BY <1>2, <1>4, <1>6, <1>7 DEF PageStart

LEMMA TurnLeads ==
    ASSUME Running, NEW start, PageStart(start), TurnPage(start),
           UNCHANGED <<page, bridgeVars, roomVars, lastBehaviorId, lightIds>>
    PROVE  /\ crash' = "" => PagersLead' /\ topIndex' = start + PerPage
           /\ ItemsOK' /\ (buttons \in [Slots -> Button])'
           /\ (buttonCount \in 0..ButtonsSize)' /\ (shown \subseteq Slots)'
           /\ (topIndex \in 0..(U8 - 1))' /\ crash' \in {"", "list"}
<1>1. BridgeOK /\ RoomsOK /\ LightsOK /\ buttons \in [Slots -> Button]
  BY RunningParts DEF ButtonsOK
<1>2. start \in Nat /\ page \in Lists
  BY DEF PageStart
<1>3. /\ buttons' = [i \in Slots |-> TurnButton(start, i)]
      /\ buttonCount' = TurnCount(start)
      /\ shown' = {0, 1} \cup 3..(2 + TurnDrawn(start))
                    \cup (PerPage + 3)..(TurnCount(start) - 1)
      /\ topIndex' = TurnTop(start)
      /\ crash' = IF ReadsOutside(page, start, start + PerPage) THEN "list" ELSE ""
  BY TurnPageIs
<1>4. LaterCounter(page)' = LaterCounter(page) /\ (Paginated(page)' <=> Paginated(page))
  BY CountersOf
<1>5. ItemsOK' /\ (buttons \in [Slots -> Button])'
  <2>1. ASSUME NEW i \in Slots
        PROVE  /\ TurnButton(start, i) \in Button
               /\ TurnButton(start, i).event = "selectLight" =>
                     TurnButton(start, i).id \in Lights /\ page = "ALLE LAMPER"
    <3>1. /\ TurnButton(start, i) \in Button
          /\ TurnButton(start, i).event = "selectLight" =>
                \/ TurnButton(start, i) = buttons[i]
                \/ page = "ALLE LAMPER" /\ TurnButton(start, i).id \in Lights
      BY <1>1, <1>2, TurnButtons
    <3>2. buttons[i].event = "selectLight" => buttons[i].id \in Lights /\ page = "ALLE LAMPER"
      BY DEF Running, StructOK, ItemsOK
    <3> QED
      BY <3>1, <3>2
  <2> QED
    BY <1>3, <2>1 DEF ItemsOK
<1>6. /\ TurnTop(start) \in 0..(U8 - 1)
      /\ start + PerPage < U8 => TurnTop(start) = start + PerPage
      /\ TurnDrawn(start) \in 0..PerPage
      /\ NextAt(start) \in (PerPage + 3)..(PerPage + 4)
      /\ TurnCount(start) \in (PerPage + 3)..(PerPage + 5)
      /\ PerPage + 5 <= ButtonsSize
  BY <1>1, <1>2, TurnNumbers
<1>7. (buttonCount \in 0..ButtonsSize)' /\ (shown \subseteq Slots)' /\ (topIndex \in 0..(U8 - 1))'
      /\ crash' \in {"", "list"}
  <2>1. TurnDrawn(start) \in 0..PerPage /\ TurnCount(start) \in 0..ButtonsSize
        /\ PerPage \in Nat /\ ButtonsSize \in Nat /\ PerPage + 5 <= ButtonsSize
    BY <1>6, Sizes
  <2>2. {0, 1} \subseteq Slots /\ 3..(2 + TurnDrawn(start)) \subseteq Slots
        /\ (PerPage + 3)..(TurnCount(start) - 1) \subseteq Slots
    BY <2>1 DEF Slots
  <2>3. shown' \subseteq Slots
    BY <1>3, <2>2
  <2>4. buttonCount' \in 0..ButtonsSize
    BY <1>3, <2>1
  <2>5. topIndex' \in 0..(U8 - 1)
    BY <1>3, <1>6
  <2>6. crash' \in {"", "list"}
    BY <1>3
  <2> QED
    BY <2>3, <2>4, <2>5, <2>6
<1>8. ASSUME crash' = "" PROVE PagersLead' /\ topIndex' = start + PerPage
  <2>1. start < ListEnd(page)
    <3>1. CASE page = "RUM"
      <4>1. LaterCounter(page) = currentRoom.lights /\ ListEnd(page) = ListSize
        BY <3>1 DEF LaterCounter, FirstCounter, ListEnd
      <4>2. currentRoom.lights \in 0..ListSize
        BY <1>1 DEF RoomsOK
      <4>3. start < LaterCounter(page)
        BY DEF PageStart
      <4> QED
        BY <1>2, <4>1, <4>2, <4>3, Sizes
    <3>2. CASE page # "RUM"
      <4>1. ~ReadsOutside(page, start, start + PerPage)
        BY <1>3, <1>8
      <4>2. start < start + PerPage
        BY <1>2, Sizes
      <4>3. ~(start >= ListEnd(page))
        BY <3>2, <4>1, <4>2 DEF ReadsOutside
      <4>4. ListEnd(page) \in Nat
        BY <1>1, <1>2, CounterTypes
      <4> QED
        BY <1>2, <4>3, <4>4
    <3> QED
      BY <3>1, <3>2
  <2>2. topIndex' = start + PerPage
    <3>1. ListEnd(page) \in Nat /\ ListEnd(page) + PerPage < U8
      BY <1>1, <1>2, CounterTypes
    <3>2. start + PerPage < U8
      BY <1>2, <2>1, <3>1, Sizes
    <3> QED
      BY <1>3, <1>6, <3>2
  <2>3. PICK k \in Nat : start = k * PerPage
    BY DEF PageStart
  <2>4. start + PerPage = (k + 1) * PerPage /\ k + 1 \in Nat
    BY <2>3, Sizes
  <2>5. PerPage <= topIndex' /\ topIndex' < LaterCounter(page) + PerPage
    <3>1. start < LaterCounter(page) /\ LaterCounter(page) \in 0..(U8 - 1)
      BY <1>1, <1>2, CounterTypes DEF PageStart
    <3> QED
      BY <1>2, <2>2, <3>1, Sizes
  <2>6. ASSUME NEW i \in Slots, buttons'[i].event \in Pagers
        PROVE  /\ i >= PerPage + 3
               /\ i < buttonCount' =>
                     /\ buttons'[i].event = "drawNextPage" => topIndex' < LaterCounter(page)
                     /\ buttons'[i].event = "drawPrevPage" => topIndex' # PerPage
    <3>1. buttons'[i] = TurnButton(start, i)
      BY <1>3
    <3>2. \/ TurnButton(start, i) = buttons[i]
          \/ /\ i = PerPage + 3 /\ TurnPrev(start)
             /\ TurnButton(start, i).event = "drawPrevPage"
          \/ /\ i = NextAt(start) /\ TurnNext(start)
             /\ TurnButton(start, i).event = "drawNextPage"
      BY <1>1, <1>2, <2>6, <3>1, TurnButtons
    <3>3. i >= PerPage + 3
      <4>1. ASSUME TurnButton(start, i) = buttons[i] PROVE i >= PerPage + 3
        BY <2>6, <3>1, <4>1 DEF Running, StructOK, PagersLead
      <4> QED
        BY <1>6, <3>2, <4>1, Sizes
    <3>4. ASSUME i < buttonCount'
          PROVE  \/ /\ TurnPrev(start) /\ TurnButton(start, i).event = "drawPrevPage"
                 \/ /\ TurnNext(start) /\ TurnButton(start, i).event = "drawNextPage"
      BY <1>1, <1>2, <1>3, <3>3, <3>4, TurnButtons
    <3> QED
      BY <1>3, <3>1, <3>3, <3>4 DEF TurnPrev, TurnNext
  <2>7. page' \in Lists /\ Paginated(page) /\ PerPage < LaterCounter(page)
    BY DEF PageStart
  <2>8. PagersLead'
    <3> SUFFICES ASSUME NEW i \in Slots, buttons'[i].event \in Pagers
                 PROVE  /\ i >= PerPage + 3
                        /\ page' \in Lists /\ Paginated(page)' /\ PerPage < LaterCounter(page)'
                        /\ PerPage <= topIndex' /\ topIndex' < LaterCounter(page)' + PerPage
                        /\ \E j \in Nat : topIndex' = j * PerPage
                        /\ i < buttonCount' =>
                              /\ buttons'[i].event = "drawNextPage" => topIndex' < LaterCounter(page)'
                              /\ buttons'[i].event = "drawPrevPage" => topIndex' # PerPage
      BY DEF PagersLead
    <3>1. \E j \in Nat : topIndex' = j * PerPage
      BY <2>2, <2>4
    <3> HIDE DEF LaterCounter, Paginated, Lists
    <3> QED
      BY <1>4, <2>5, <2>6, <2>7, <3>1
  <2> QED
    BY <2>2, <2>8
<1> QED
  BY <1>5, <1>7, <1>8

(* ------------------------------------------------------------------------ *)
(* Types.                                                                   *)

LEMMA ShiftIs ==
    ASSUME NEW ids \in Seq(0..ListSize), NEW j \in 1..Len(ids)
    PROVE  /\ ShiftFrom(ids, j) \in Seq(0..ListSize)
           /\ Len(ShiftFrom(ids, j)) = Len(ids)
           /\ \A k \in 1..Len(ids) : ShiftFrom(ids, j)[k] =
                 IF k < j THEN ids[k] ELSE IF k < Len(ids) THEN ids[k + 1] ELSE 0
<1> DEFINE S == 0..ListSize
<1> DEFINE n == Len(ids)
<1>1. n \in Nat /\ 0 \in S /\ j \in Nat
  BY Sizes
<1>2. \A k \in 1..n : ids[k] \in S
  BY ElementOfSeq
<1>3. \A k \in 1..n : (IF k < j THEN ids[k] ELSE IF k < n THEN ids[k + 1] ELSE 0) \in S
  <2> SUFFICES ASSUME NEW k \in 1..n
               PROVE  (IF k < j THEN ids[k] ELSE IF k < n THEN ids[k + 1] ELSE 0) \in S
    OBVIOUS
  <2> HIDE DEF S
  <2>1. k < n => k + 1 \in 1..n
    BY <1>1
  <2> QED
    BY <1>1, <1>2, <2>1
<1>4. ShiftFrom(ids, j) = [k \in 1..n |-> IF k < j THEN ids[k] ELSE IF k < n THEN ids[k + 1] ELSE 0]
  BY DEF ShiftFrom
<1>5. ShiftFrom(ids, j) \in [1..n -> S]
  <2> HIDE DEF S
  <2> QED
    BY <1>3, <1>4
<1>6. ShiftFrom(ids, j) \in Seq(S)
  BY <1>1, <1>5, SeqDef
<1>7. Len(ShiftFrom(ids, j)) = n
  <2>1. DOMAIN ShiftFrom(ids, j) = 1..n
    BY <1>5
  <2>2. DOMAIN ShiftFrom(ids, j) = 1..Len(ShiftFrom(ids, j)) /\ Len(ShiftFrom(ids, j)) \in Nat
    BY <1>6, LenProperties
  <2> QED
    BY <1>1, <2>1, <2>2
<1> QED
  BY <1>4, <1>6, <1>7

LEMMA DropIs ==
    ASSUME NEW ids \in Seq(0..ListSize)
    PROVE  /\ SubSeq(ids, 1, Len(ids) - 1) \in Seq(0..ListSize)
           /\ Len(SubSeq(ids, 1, Len(ids) - 1)) = IF Len(ids) > 0 THEN Len(ids) - 1 ELSE 0
           /\ \A k \in 1..(Len(ids) - 1) : SubSeq(ids, 1, Len(ids) - 1)[k] = ids[k]
<1> DEFINE n == Len(ids) - 1
<1>1. Len(ids) \in Nat /\ n \in Int /\ 1 \in Int
  OBVIOUS
<1>2. \A k \in 1..n : ids[k] \in 0..ListSize
  <2> TAKE k \in 1..n
  <2>1. k \in 1..Len(ids)
    BY <1>1
  <2> QED
    BY <2>1, ElementOfSeq
<1>3. /\ SubSeq(ids, 1, n) \in Seq(0..ListSize)
      /\ Len(SubSeq(ids, 1, n)) = IF 1 <= n THEN n - 1 + 1 ELSE 0
      /\ \A k \in 1..(n - 1 + 1) : SubSeq(ids, 1, n)[k] = ids[1 + k - 1]
  BY <1>1, <1>2, SubSeqProperties
<1> HIDE DEF n
<1>4. (IF 1 <= n THEN n - 1 + 1 ELSE 0) = (IF Len(ids) > 0 THEN Len(ids) - 1 ELSE 0)
      /\ n - 1 + 1 = n /\ \A k \in 1..n : 1 + k - 1 = k
  BY <1>1 DEF n
<1>5. \A k \in 1..n : SubSeq(ids, 1, n)[k] = ids[k]
  <2> TAKE k \in 1..n
  <2>1. SubSeq(ids, 1, n)[k] = ids[1 + k - 1] /\ 1 + k - 1 = k
    BY <1>3, <1>4
  <2> QED
    BY <2>1
<1> QED
  BY <1>3, <1>4, <1>5 DEF n

LEMMA AddIs ==
    ASSUME NEW ids \in Seq(0..ListSize), NEW l \in 0..ListSize
    PROVE  /\ Append(ids, l) \in Seq(0..ListSize) /\ Len(Append(ids, l)) = Len(ids) + 1
           /\ \A k \in 1..Len(ids) : Append(ids, l)[k] = ids[k]
           /\ Append(ids, l)[Len(ids) + 1] = l
  OBVIOUS

(* Every change of the ids leaves them in their array.                      *)
LEMMA EditTypes ==
    ASSUME LightsOK, NEW ids \in Seq(0..ListSize), Len(ids) <= ListSize, SetEdited(ids),
           UNCHANGED lastBehaviorId
    PROVE  /\ LightsOK'
           /\ \A b \in Behaviors : lightIds'[b] = IF b = lastBehaviorId THEN ids ELSE lightIds[b]
<1>1. lightIds' = [lightIds EXCEPT ![lastBehaviorId] = ids]
  BY DEF SetEdited
<1>2. lightIds' \in [Behaviors -> Seq(0..ListSize)]
  BY <1>1 DEF LightsOK
<1>3. \A b \in Behaviors : lightIds'[b] = IF b = lastBehaviorId THEN ids ELSE lightIds[b]
  BY <1>1 DEF LightsOK
<1>4. \A b \in Behaviors : Len(lightIds'[b]) <= ListSize
  BY <1>3 DEF LightsOK
<1> QED
  BY <1>2, <1>3, <1>4 DEF LightsOK

LEMMA EditedType ==
    ASSUME LightsOK
    PROVE  /\ Edited \in Seq(0..ListSize) /\ Len(Edited) \in Nat /\ Len(Edited) <= ListSize
           /\ DOMAIN Edited = 1..Len(Edited)
           /\ \A k \in 1..Len(Edited) : Edited[k] \in 0..ListSize
<1>1. Edited \in Seq(0..ListSize) /\ Len(Edited) <= ListSize
  BY DEF Edited, LightsOK
<1> HIDE DEF Edited
<1> QED
  BY <1>1, LenProperties, ElementOfSeq

LEMMA NoneChosen ==
    lightIds' = [b \in Behaviors |-> <<>>] =>
        /\ lightIds' \in [Behaviors -> Seq(0..ListSize)]
        /\ \A b \in Behaviors : lightIds'[b] = <<>> /\ Len(lightIds'[b]) <= ListSize
<1>1. <<>> \in Seq(0..ListSize) /\ Len(<<>>) <= ListSize
  BY EmptySeq, Sizes
<1> QED
  BY <1>1

(* The steps that leave the arrays, with which the model stops.             *)
Storing == fetchDataWild \/ \E r : LoadRoomWild(r)

LEMMA StoringKeeps ==
    Storing => /\ crash' = "store"
               /\ UNCHANGED <<touchVars, buttonVars, screenVars, roomVars, filledRooms, filledLights,
                              lightIds, lastBehaviorId, races>>
  BY DEF Storing, fetchDataWild, LoadRoomWild, bridgeVars

LEMMA drawRoomIs ==
    ASSUME Running, drawRoom
    PROVE  Storing \/ (pc = "hit" /\ \E r \in Nat : LoadRoom(r))
<1>1. buttons[hit].id \in Nat /\ lastRoom \in Nat
  BY RunningParts DEF ControlOK, ButtonsOK, Button, RoomsOK
<1> QED
  BY <1>1 DEF drawRoom, Storing, Calls

LEMMA LightsStep == Running /\ Work => LightsOK'
<1> SUFFICES ASSUME Running, Work PROVE LightsOK'
  OBVIOUS
<1>1. LightsOK /\ pressed \in 0..ListSize
  BY TypeParts DEF Running, ControlOK
<1>2. CASE UNCHANGED <<lightIds, lastBehaviorId>>
  BY <1>1, <1>2 DEF LightsOK
<1>3. CASE AddLight
  <2>1. Append(Edited, pressed) \in Seq(0..ListSize) /\ Len(Append(Edited, pressed)) = Len(Edited) + 1
    BY <1>1, EditedType, AddIs
  <2>2. Len(Append(Edited, pressed)) <= ListSize
    BY <1>1, <1>3, <2>1, EditedType, Sizes DEF AddLight
  <2> QED
    BY <1>1, <1>3, <2>1, <2>2, EditTypes DEF AddLight
<1>4. CASE arrayShift
  <2>1. PICK j \in DOMAIN Edited : SetEdited(ShiftFrom(Edited, j))
    BY <1>4 DEF arrayShift
  <2>2. ShiftFrom(Edited, j) \in Seq(0..ListSize) /\ Len(ShiftFrom(Edited, j)) <= ListSize
    BY <1>1, EditedType, ShiftIs
  <2> QED
    BY <1>1, <1>4, <2>1, <2>2, EditTypes DEF arrayShift
<1>5. CASE RemoveLight
  <2> DEFINE ids == SubSeq(Edited, 1, Len(Edited) - 1)
  <2>1. ids \in Seq(0..ListSize) /\ Len(ids) = IF Len(Edited) > 0 THEN Len(Edited) - 1 ELSE 0
    BY <1>1, EditedType, DropIs
  <2>2. Len(ids) <= ListSize
    BY <1>1, <2>1, EditedType, Sizes
  <2>3. SetEdited(ids) /\ UNCHANGED lastBehaviorId
    BY <1>5 DEF RemoveLight
  <2> HIDE DEF ids
  <2> QED
    BY <1>1, <2>1, <2>2, <2>3, EditTypes
<1>6. CASE fetchData
  BY <1>1, <1>6, NoneChosen DEF fetchData, LightsOK
<1>7. CASE \E g \in Pages : OpenPlain(g)
  BY <1>1, <1>7 DEF OpenPlain, LightsOK
<1>8. CASE drawRoom \/ fetchDataWild
  BY <1>2, <1>8, drawRoomIs, StoringKeeps DEF Storing, LoadRoom
<1> QED
  BY <1>2, <1>3, <1>4, <1>5, <1>6, <1>7, <1>8
  DEF Work, Tap, CallNothing, PressOther, drawRoomLights, drawLight, OpenList,
      drawNextPage, drawPrevPage, CallSelect, StartRemoving, AddLightWild, DialOpensLight

LEMMA SetKeeps ==
    ASSUME ButtonsOK, ItemsOK, hit \in Slots, NEW v \in BOOLEAN, SetSelected(v),
           UNCHANGED <<buttonCount, shown, screenVars, bridgeVars, roomVars>>
    PROVE  /\ ButtonsOK' /\ ItemsOK' /\ (PagersLead => PagersLead')
           /\ \A i \in Slots : /\ buttons'[i].event = buttons[i].event
                               /\ buttons'[i].id = buttons[i].id
                               /\ buttons'[i].isSelected = IF i = hit THEN v ELSE buttons[i].isSelected
<1>1. buttons' = [buttons EXCEPT ![hit].isSelected = v] /\ buttons \in [Slots -> Button]
  BY DEF SetSelected, ButtonsOK
<1>2. buttons' \in [Slots -> Button]
  BY <1>1 DEF Button
<1>3. \A i \in Slots : /\ buttons'[i].event = buttons[i].event
                       /\ buttons'[i].id = buttons[i].id
                       /\ buttons'[i].isSelected = IF i = hit THEN v ELSE buttons[i].isSelected
  BY <1>1 DEF Button
<1>4. ButtonsOK'
  BY <1>2 DEF ButtonsOK, screenVars
<1>5. ItemsOK'
  BY <1>3 DEF ItemsOK, screenVars
<1>6. page' = page
  BY DEF screenVars
<1>7. LaterCounter(page)' = LaterCounter(page) /\ (Paginated(page)' <=> Paginated(page))
  BY <1>6, CountersOf
<1>8. ASSUME PagersLead PROVE PagersLead'
  <2> HIDE DEF LaterCounter, Paginated, Lists, Pagers
  <2>1. topIndex' = topIndex /\ buttonCount' = buttonCount
    BY DEF screenVars
  <2> QED
    BY <1>3, <1>6, <1>7, <1>8, <2>1 DEF PagersLead
<1> QED
  BY <1>3, <1>4, <1>5, <1>8

LEMMA ButtonsSame ==
    ASSUME ButtonsOK, ItemsOK, UNCHANGED <<buttonVars, screenVars, bridgeVars, roomVars>>
    PROVE  ButtonsOK' /\ ItemsOK' /\ (PagersLead => PagersLead')
<1>1. page' = page /\ topIndex' = topIndex /\ buttons' = buttons /\ buttonCount' = buttonCount
      /\ shown' = shown
  BY DEF buttonVars, screenVars
<1>2. LaterCounter(page)' = LaterCounter(page) /\ (Paginated(page)' <=> Paginated(page))
  BY <1>1, CountersOf
<1>3. ButtonsOK' /\ ItemsOK'
  BY <1>1 DEF ButtonsOK, ItemsOK
<1>4. ASSUME PagersLead PROVE PagersLead'
  <2> HIDE DEF LaterCounter, Paginated, Lists, Pagers
  <2> QED
    BY <1>1, <1>2, <1>4 DEF PagersLead
<1> QED
  BY <1>3, <1>4

LEMMA PlainTypesKept ==
    ASSUME ButtonsOK, NEW g \in Pages, NEW n \in 2..6, ShowPlain(g, n), UNCHANGED topIndex
    PROVE  ButtonsOK' /\ ItemsOK' /\ PagersLead'
  BY ShowPlainDraws, PlainLeads DEF ButtonsOK

ButtonsGood == ButtonsOK /\ ItemsOK /\ (crash = "" => PagersLead)

LEMMA ButtonsStep == Running /\ Work => ButtonsGood'
<1> SUFFICES ASSUME Running, Work PROVE ButtonsGood'
  OBVIOUS
<1>1. ButtonsOK /\ ItemsOK /\ PagersLead /\ hit \in Slots
  BY TypeParts DEF Running, StructOK, ControlOK
<1>2. CASE UNCHANGED <<buttonVars, screenVars, bridgeVars, roomVars>>
  BY <1>1, <1>2, ButtonsSame DEF ButtonsGood
<1>3. CASE AddLight \/ RemoveLight
  <2>1. PICK v \in BOOLEAN : SetSelected(v)
    BY <1>3 DEF AddLight, RemoveLight
  <2>2. UNCHANGED <<buttonCount, shown, screenVars, bridgeVars, roomVars>>
    BY <1>3 DEF AddLight, RemoveLight
  <2> QED
    BY <1>1, <2>1, <2>2, SetKeeps DEF ButtonsGood
<1>4. CASE \E g \in Pages, n \in 2..6 : ShowPlain(g, n) /\ UNCHANGED topIndex
  BY <1>1, <1>4, PlainTypesKept DEF ButtonsGood
<1>5. ASSUME NEW g \in Lists, ShowList(g), UNCHANGED <<bridgeVars, roomVars>>
      PROVE  ButtonsGood'
  BY <1>5, FirstLeads DEF ButtonsGood, ButtonsOK
<1>6. CASE drawNextPage
  <2>1. PageStart(topIndex) /\ TurnPage(topIndex)
        /\ UNCHANGED <<page, bridgeVars, roomVars, lastBehaviorId, lightIds>>
    BY <1>6, NextStart DEF drawNextPage
  <2> QED
    BY <2>1, TurnLeads DEF ButtonsGood, ButtonsOK
<1>7. CASE drawPrevPage
  <2>1. PageStart(topIndex - 2 * PerPage) /\ TurnPage(topIndex - 2 * PerPage)
        /\ UNCHANGED <<page, bridgeVars, roomVars, lastBehaviorId, lightIds>>
    BY <1>7, PrevStart DEF drawPrevPage
  <2> QED
    BY <2>1, TurnLeads DEF ButtonsGood, ButtonsOK
<1>8. CASE \E g \in Pages : OpenPlain(g)
  <2>1. PICK g \in Pages : OpenPlain(g)
    BY <1>8
  <2>2. ShowPlain(g, IF g = "HJEM" THEN 4 ELSE 6) /\ UNCHANGED topIndex
    BY <2>1 DEF OpenPlain
  <2>3. (IF g = "HJEM" THEN 4 ELSE 6) \in 2..6
    OBVIOUS
  <2> QED
    BY <1>4, <2>2, <2>3
<1>9. CASE fetchData \/ DialOpensLight \/ drawLight \/ \E r : LoadRoom(r)
  <2>1. "HJEM" \in Pages /\ "light" \in Pages /\ "RUM" \in Pages
        /\ 2 \in 2..6 /\ 4 \in 2..6 /\ 5 \in 2..6
    BY DEF Pages, Lists
  <2>2. /\ ShowPlain("HJEM", 4) \/ ShowPlain("light", 5) \/ ShowPlain("RUM", 2)
        /\ UNCHANGED topIndex
    BY <1>9 DEF fetchData, DialOpensLight, drawLight, LoadRoom
  <2> QED
    BY <1>4, <2>1, <2>2
<1>10. CASE (\E g \in Pages : OpenList(g)) \/ drawRoomLights
  BY <1>5, <1>10 DEF OpenList, drawRoomLights, Lists
<1>11. CASE \/ \E i \in Slots : Tap(i)
            \/ CallNothing \/ PressOther \/ CallSelect \/ StartRemoving \/ AddLightWild \/ arrayShift
  BY <1>2, <1>11 DEF Tap, CallNothing, PressOther, CallSelect, StartRemoving, AddLightWild, arrayShift
<1>12. CASE Storing
  <2>1. crash' = "store" /\ UNCHANGED <<buttonVars, screenVars>>
    BY <1>12, StoringKeeps
  <2> QED
    BY <1>1, <2>1 DEF ButtonsGood, ButtonsOK, ItemsOK, buttonVars, screenVars
<1>13. CASE drawRoom \/ fetchDataWild
  BY <1>9, <1>12, <1>13, drawRoomIs DEF Storing
<1> QED
  BY <1>3, <1>6, <1>7, <1>8, <1>9, <1>10, <1>11, <1>13 DEF Work

LEMMA BridgeStep == Running /\ Work => BridgeType' /\ RoomsOK'
<1> SUFFICES ASSUME Running, Work PROVE BridgeType' /\ RoomsOK'
  OBVIOUS
<1>1. BridgeType /\ RoomsOK /\ crash = ""
  BY RunningParts DEF Running
<1>2. ASSUME UNCHANGED bridgeVars PROVE BridgeType'
  <2>1. /\ UNCHANGED <<groups, known, listed, roomLights, filledRooms, filledLights>>
        /\ ~Overfull /\ (Overfull' <=> Overfull)
    BY <1>1, <1>2 DEF bridgeVars, BridgeType, Overfull
  <2> QED
    BY <1>1, <2>1 DEF BridgeType
<1>3. CASE UNCHANGED <<bridgeVars, roomVars>>
  BY <1>1, <1>2, <1>3 DEF RoomsOK, roomVars
<1>4. ASSUME Fetched
      PROVE  groups' \in Nat /\ known' \in Nat /\ listed' \in 0..(U8 - 1) /\ roomLights' \in 0..(U8 - 1)
  BY <1>4, Household, Sizes DEF Fetched
<1>5. CASE fetchData
  <2>1. groups' \in Nat /\ known' \in Nat /\ listed' \in 0..(U8 - 1) /\ roomLights' \in 0..(U8 - 1)
    BY <1>4, <1>5 DEF fetchData
  <2>2. groups' <= RoomsSize /\ listed' <= ListSize /\ ~Overfull'
    BY <1>5, <2>1, Sizes DEF fetchData, Overfull
  <2>3. filledRooms' \in 0..RoomsSize /\ filledLights' \in 0..ListSize
        /\ groups' <= filledRooms' /\ listed' <= filledLights'
    <3>1. /\ RoomsSize \in Nat /\ ListSize \in Nat /\ groups' \in Nat /\ listed' \in Nat
          /\ filledRooms \in 0..RoomsSize /\ filledLights \in 0..ListSize
      BY <1>1, <2>1, ArraysAreNat, CountIsNat DEF BridgeType
    <3>2. filledRooms' = Largest(filledRooms, groups') /\ filledLights' = Largest(filledLights, listed')
      BY <1>5 DEF fetchData
    <3> QED
      BY <2>2, <3>1, <3>2, LargestIs
  <2>4. BridgeType'
    BY <2>1, <2>2, <2>3 DEF BridgeType
  <2> QED
    BY <1>1, <1>5, <2>4 DEF fetchData, RoomsOK, roomVars
<1>6. CASE fetchDataWild
  <2>1. groups' \in Nat /\ known' \in Nat /\ listed' \in 0..(U8 - 1) /\ roomLights' \in 0..(U8 - 1)
    BY <1>4, <1>6 DEF fetchDataWild
  <2>2. Overfull' /\ crash' = "store" /\ UNCHANGED <<filledRooms, filledLights, roomVars>>
    BY <1>6 DEF fetchDataWild
  <2> QED
    BY <1>1, <2>1, <2>2 DEF BridgeType, RoomsOK, roomVars
<1>7. CASE \E r \in Nat : LoadRoom(r)
  <2>1. PICK r \in Nat : LoadRoom(r)
    BY <1>7
  <2>2. BridgeType'
    BY <1>2, <2>1 DEF LoadRoom
  <2>3. lastRoom # r => [index |-> r, lights |-> roomLights] \in [index : Nat, lights : 0..ListSize]
    <3>1. lastRoom # r => roomLights \in 0..ListSize
      <4>1. ListSize \in Nat /\ roomLights \in Nat
        BY <1>1, ArraysAreNat, CountIsNat DEF BridgeType
      <4>2. lastRoom # r => roomLights <= ListSize
        BY <2>1 DEF LoadRoom
      <4> QED
        BY <4>1, <4>2
    <3> QED
      BY <3>1
  <2>4. RoomsOK'
    BY <1>1, <2>1, <2>3 DEF LoadRoom, RoomsOK
  <2> QED
    BY <2>2, <2>4
<1>8. CASE drawRoom
  <2>1. CASE \E r : LoadRoomWild(r)
    BY <1>3, <2>1 DEF LoadRoomWild
  <2> QED
    BY <1>6, <1>7, <1>8, <2>1, drawRoomIs DEF Storing
<1> QED
  BY <1>3, <1>5, <1>6, <1>8
  DEF Work, Tap, CallNothing, PressOther, drawRoomLights, drawLight, OpenPlain, OpenList,
      drawNextPage, drawPrevPage, CallSelect, StartRemoving, AddLight, AddLightWild, arrayShift,
      RemoveLight, DialOpensLight

LEMMA HitStep == Running /\ Work => HitOK'
<1> SUFFICES ASSUME Running, Work PROVE HitOK'
  OBVIOUS
<1>1. HitOK /\ hit \in Slots
  BY TypeParts DEF Running, StructOK, ControlOK
<1>2. CASE UNCHANGED <<touchVars, buttons, buttonCount>>
  BY <1>1, <1>2 DEF HitOK, touchVars
<1>3. CASE pc' \in {"idle", "room"}
  BY <1>3 DEF HitOK
<1>4. CASE \E i \in Slots : Tap(i)
  BY <1>4 DEF Tap, HitOK, buttonVars
<1>5. CASE CallSelect
  <2>1. buttons[hit].id \in Lights
    BY <1>1, <1>5 DEF CallSelect, Calls, Running, StructOK, ItemsOK
  <2> QED
    BY <1>5, <2>1 DEF CallSelect, HitOK
<1>6. CASE StartRemoving \/ arrayShift
  BY <1>1, <1>6 DEF StartRemoving, arrayShift, HitOK, touchVars
<1>7. CASE DialOpensLight
  <2>1. \A i \in Slots : buttons'[i].event \in {"none", "plain"}
    <3>1. "light" \in Pages /\ 5 \in 2..6
      BY DEF Pages
    <3>2. ShowPlain("light", 5)
      BY <1>7 DEF DialOpensLight
    <3> QED
      BY <3>1, <3>2, ShowPlainDraws
  <2>2. UNCHANGED touchVars
    BY <1>7 DEF DialOpensLight
  <2> QED
    BY <1>1, <2>1, <2>2 DEF HitOK, touchVars, Pagers
<1>8. CASE drawRoom \/ fetchDataWild
  <2>1. CASE Storing
    BY <1>2, <2>1, StoringKeeps DEF buttonVars
  <2> QED
    BY <1>3, <1>8, <2>1, drawRoomIs DEF Storing, LoadRoom
<1> QED
  BY <1>2, <1>3, <1>4, <1>5, <1>6, <1>7, <1>8
  DEF Work, CallNothing, PressOther, drawRoomLights, drawLight, OpenPlain, OpenList,
      drawNextPage, drawPrevPage, AddLight, AddLightWild, RemoveLight, fetchData, Return, buttonVars

LEMMA ControlStep == Running /\ Work => ControlOK'
<1> SUFFICES ASSUME Running, Work PROVE ControlOK'
  OBVIOUS
<1>1. ControlOK /\ ButtonsOK /\ HitOK /\ ItemsOK /\ 0 \in 0..ListSize /\ 0 \in Slots /\ crash = ""
  <2>1. 0 \in 0..ListSize /\ 0 \in Slots
    BY Sizes DEF Slots
  <2> QED
    BY <2>1, TypeParts DEF Running, StructOK
<1> DEFINE Touch == pc \in {"idle", "hit", "room", "select", "shift"} /\ hit \in Slots
                    /\ pressed \in 0..ListSize
           Screen == page \in Pages /\ currentScreenType \in {"HOME", "ROOMS", "ROOM", "LIGHT"}
           Rest == races \in 0..MaxRaces /\ crash \in {"", "event", "list", "ids", "store"}
<1>2. Touch /\ Screen /\ Rest
  BY <1>1 DEF ControlOK
<1>3. Touch'
  <2>1. CASE UNCHANGED touchVars \/ Return
    BY <1>1, <1>2, <2>1 DEF touchVars, Return
  <2>2. CASE \E i \in Slots : Tap(i)
    BY <1>2, <2>2 DEF Tap
  <2>3. CASE CallSelect
    <3>1. buttons[hit].id \in Lights
      BY <1>1, <2>3, <1>2 DEF CallSelect, Calls, ItemsOK
    <3>2. buttons[hit].id \in 0..ListSize
      BY <3>1, Sizes DEF Lights
    <3> QED
      BY <1>2, <2>3, <3>2 DEF CallSelect
  <2>4. CASE StartRemoving
    BY <1>2, <2>4 DEF StartRemoving
  <2>5. CASE drawRoom \/ fetchDataWild
    <3>1. UNCHANGED touchVars \/ \E r : LoadRoom(r)
      BY <2>5, drawRoomIs, StoringKeeps DEF Storing
    <3> QED
      BY <1>2, <2>1, <3>1 DEF LoadRoom
  <2> HIDE DEF Touch
  <2> QED
    BY <2>1, <2>2, <2>3, <2>4, <2>5
    DEF Work, CallNothing, PressOther, drawRoomLights, drawLight, OpenPlain, OpenList,
        drawNextPage, drawPrevPage, AddLight, AddLightWild, arrayShift, RemoveLight, fetchData, DialOpensLight
<1>4. Screen'
  <2>1. CASE UNCHANGED <<page, currentScreenType>>
    BY <1>2, <2>1
  <2>2. ASSUME NEW g \in Pages, OpenPlain(g) \/ OpenList(g) PROVE Screen'
    BY <1>2, <2>2 DEF OpenPlain, OpenList, ShowPlain, ShowList, ScreenTypeOf
  <2>3. CASE (\E r : LoadRoom(r)) \/ drawRoomLights \/ drawLight \/ fetchData \/ DialOpensLight
    BY <1>2, <2>3 DEF LoadRoom, drawRoomLights, drawLight, fetchData, DialOpensLight,
                      ShowPlain, ShowList, Pages, Lists
  <2>4. CASE drawRoom \/ fetchDataWild
    BY <2>1, <2>3, <2>4, drawRoomIs, StoringKeeps DEF Storing, screenVars
  <2> HIDE DEF Screen
  <2> QED
    BY <2>1, <2>2, <2>3, <2>4
    DEF Work, Tap, CallNothing, PressOther, drawNextPage, drawPrevPage, CallSelect, StartRemoving,
        AddLight, AddLightWild, arrayShift, RemoveLight, screenVars
<1>5. Rest'
  <2>1. CASE UNCHANGED <<races, crash>>
    BY <1>2, <2>1
  <2>2. CASE CallNothing \/ AddLightWild
    BY <1>2, <2>2 DEF CallNothing, AddLightWild
  <2>3. CASE drawNextPage \/ drawPrevPage
    BY <1>2, <2>3 DEF drawNextPage, drawPrevPage, TurnPage
  <2>4. CASE fetchData
    <3>1. races' = 0 /\ crash' = crash
      BY <2>4 DEF fetchData
    <3>2. 0 \in 0..MaxRaces
      BY Sizes
    <3> QED
      BY <1>1, <3>1, <3>2
  <2>5. CASE DialOpensLight
    <3>1. crash' = crash /\ races < MaxRaces /\ (races' = races \/ races' = races + 1)
      BY <2>5 DEF DialOpensLight
    <3>2. MaxRaces \in Nat /\ races \in 0..MaxRaces
      BY <1>2, Sizes
    <3>3. races' \in 0..MaxRaces
      BY <3>1, <3>2
    <3> QED
      BY <1>1, <3>1, <3>3
  <2>6. CASE drawRoom \/ fetchDataWild
    BY <1>2, <2>1, <2>6, drawRoomIs, StoringKeeps DEF Storing, LoadRoom
  <2> HIDE DEF Rest
  <2> QED
    BY <2>1, <2>2, <2>3, <2>4, <2>5, <2>6
    DEF Work, Tap, PressOther, drawRoomLights, drawLight, OpenPlain, OpenList,
        CallSelect, StartRemoving, AddLight, arrayShift, RemoveLight
<1> QED
  BY <1>3, <1>4, <1>5 DEF ControlOK

LEMMA StructInit == Init => TypeOK /\ StructOK
<1> SUFFICES ASSUME Init PROVE TypeOK /\ StructOK
  OBVIOUS
<1>1. ButtonsOK /\ \A i \in Slots : buttons[i].event \in {"none", "plain"}
  <2>1. {0, 1} \subseteq Slots /\ 0 \in 0..(U8 - 1) /\ 2 \in 0..ButtonsSize
    BY Sizes DEF Slots
  <2> QED
    BY <2>1, PlainTypes DEF Init, ButtonsOK
<1>2. BridgeType
  <2>1. /\ groups \in Nat /\ roomLights \in 0..(U8 - 1)
        /\ listed \in 0..(U8 - 1) /\ known \in Nat
        /\ filledRooms = Least(groups, RoomsSize) /\ filledLights = Least(listed, ListSize)
        /\ crash = IF Overfull THEN "store" ELSE ""
    BY Household DEF Init
  <2>0. RoomsSize \in Nat /\ ListSize \in Nat /\ groups \in Nat /\ listed \in Nat
    BY <2>1, ArraysAreNat, CountIsNat
  <2>2. filledRooms \in 0..RoomsSize /\ filledLights \in 0..ListSize
    BY <2>0, <2>1, LeastIs
  <2>3. ~Overfull => groups <= filledRooms /\ listed <= filledLights
    <3>1. ~Overfull => groups <= RoomsSize /\ listed <= ListSize
      BY <2>0 DEF Overfull
    <3> QED
      BY <2>0, <2>1, <3>1, LeastIs
  <2>4. crash # "store" => ~Overfull
    BY <2>1
  <2> QED
    BY <2>1, <2>2, <2>3, <2>4 DEF BridgeType
<1>3. RoomsOK
  <2>1. lastRoom = 0 /\ currentRoom = [index |-> RoomsSize, lights |-> 0]
    BY DEF Init, NoRoom
  <2>2. RoomsSize \in Nat /\ 0 \in Nat /\ 0 \in 0..ListSize
    BY Sizes
  <2> QED
    BY <2>1, <2>2 DEF RoomsOK
<1>4. LightsOK
  <2>1. <<>> \in Seq(0..ListSize) /\ Len(<<>>) <= ListSize
    BY EmptySeq, Sizes
  <2> QED
    BY <2>1, BehaviorsAssumption DEF Init, LightsOK
<1>5. ControlOK
  <2>1. 0 \in 0..ListSize /\ 0 \in Slots /\ 0 \in 0..MaxRaces
    BY Sizes DEF Slots
  <2> QED
    BY <2>1 DEF Init, ControlOK, Pages
<1>6. StructOK
  BY <1>1 DEF Init, StructOK, ItemsOK, HitOK, PagersLead, Pagers
<1> QED
  BY <1>1, <1>2, <1>3, <1>4, <1>5, <1>6, TypeParts

LEMMA StructStep == TypeOK /\ StructOK /\ [Next]_vars => (TypeOK /\ StructOK)'
<1> SUFFICES ASSUME TypeOK, StructOK, [Next]_vars PROVE (TypeOK /\ StructOK)'
  OBVIOUS
<1>1. CASE UNCHANGED vars
  <2>1. ControlOK' /\ ButtonsOK' /\ BridgeType' /\ RoomsOK' /\ LightsOK'
    BY <1>1, TypeParts
    DEF ControlOK, ButtonsOK, BridgeType, Overfull, RoomsOK, LightsOK, vars, touchVars, buttonVars, screenVars,
        bridgeVars, roomVars
  <2>2. ButtonsOK' /\ ItemsOK' /\ (PagersLead => PagersLead')
    BY <1>1, ButtonsSame, TypeParts DEF vars, StructOK
  <2>3. HitOK' /\ crash' = crash
    BY <1>1 DEF vars, touchVars, buttonVars, HitOK, StructOK
  <2>4. TypeOK'
    BY <2>1, TypePartsNext
  <2> QED
    BY <2>2, <2>3, <2>4 DEF StructOK
<1>2. CASE crash = "" /\ Work
  <2>1. Running
    BY <1>2 DEF Running
  <2>2. ControlOK' /\ ButtonsGood' /\ BridgeType' /\ RoomsOK' /\ LightsOK' /\ HitOK'
    BY <1>2, <2>1, ControlStep, ButtonsStep, BridgeStep, LightsStep, HitStep
  <2>3. TypeOK'
    BY <2>2, TypePartsNext DEF ButtonsGood
  <2> QED
    BY <2>2, <2>3 DEF ButtonsGood, StructOK
<1> QED
  BY <1>1, <1>2 DEF Next, Stopped

(* Every variable keeps its type, and the buttons drawn fit their array,    *)
(* whatever the bridge reports and however the dial and taps interleave     *)
(* (drawPaginationButtons, drawRoom, drawSelectableLightsFromArray).        *)
THEOREM TypeCorrect == Spec => []TypeOK
<1>1. Init => TypeOK /\ StructOK
  BY StructInit
<1>2. TypeOK /\ StructOK /\ [Next]_vars => (TypeOK /\ StructOK)'
  BY StructStep
<1> QED
  BY <1>1, <1>2, PTL DEF Spec

(* ------------------------------------------------------------------------ *)
(* The promise of the page.                                                 *)

Chosen == [b \in Behaviors |-> Selected(b)]

LEMMA InSelected ==
    ASSUME LightsOK, NEW b \in Behaviors, NEW l
    PROVE  l \in Selected(b) <=> l # 0 /\ \E k \in 1..Len(lightIds[b]) : lightIds[b][k] = l
<1>1. DOMAIN lightIds[b] = 1..Len(lightIds[b])
  BY LenProperties DEF LightsOK
<1> QED
  BY <1>1 DEF Selected

LEMMA InSelectedNext ==
    ASSUME LightsOK', NEW b \in Behaviors, NEW l
    PROVE  l \in Selected(b)' <=> l # 0 /\ \E k \in 1..Len(lightIds'[b]) : lightIds'[b][k] = l
<1>1. lightIds'[b] \in Seq(0..ListSize)
  BY DEF LightsOK
<1>2. DOMAIN lightIds'[b] = 1..Len(lightIds'[b])
  BY <1>1, LenProperties
<1> QED
  BY <1>2 DEF Selected

(* What one step does to the lights of the behaviour being edited.          *)
LEMMA AddSelects ==
    ASSUME LightsOK, LightsOK', pressed \in Lights, AddLight
    PROVE  Selected(lastBehaviorId)' = Selected(lastBehaviorId) \cup {pressed}
<1>0. PICK e \in Behaviors : e = lastBehaviorId /\ e = lastBehaviorId'
  BY DEF AddLight, LightsOK
<1>1. pressed \in 0..ListSize /\ pressed # 0
  BY Sizes DEF Lights
<1>2. Edited \in Seq(0..ListSize) /\ Len(Edited) \in Nat
  BY EditedType
<1>3. lightIds'[e] = Append(Edited, pressed)
  BY <1>0 DEF AddLight, SetEdited, LightsOK
<1>4. /\ Len(Append(Edited, pressed)) = Len(Edited) + 1
      /\ \A k \in 1..Len(Edited) : Append(Edited, pressed)[k] = Edited[k]
      /\ Append(Edited, pressed)[Len(Edited) + 1] = pressed
  BY <1>1, <1>2, AddIs
<1>5. ASSUME NEW l
      PROVE  l \in Selected(e)' <=> l \in Selected(e) \cup {pressed}
  <2>1. l \in Selected(e)' <=> l # 0 /\ \E k \in 1..Len(lightIds'[e]) : lightIds'[e][k] = l
    BY InSelectedNext
  <2>2. l \in Selected(e) <=> l # 0 /\ \E k \in 1..Len(Edited) : Edited[k] = l
    BY <1>0, InSelected DEF Edited
  <2> HIDE DEF Edited
  <2>3. (\E k \in 1..Len(lightIds'[e]) : lightIds'[e][k] = l)
           <=> (\E k \in 1..Len(Edited) : Edited[k] = l) \/ l = pressed
    <3>1. \A k \in 1..(Len(Edited) + 1) : k \in 1..Len(Edited) \/ k = Len(Edited) + 1
      BY <1>2
    <3>2. \A k \in 1..Len(Edited) : k \in 1..(Len(Edited) + 1)
      BY <1>2
    <3>3. Len(Edited) + 1 \in 1..(Len(Edited) + 1)
      BY <1>2
    <3> QED
      BY <1>3, <1>4, <3>1, <3>2, <3>3
  <2> QED
    BY <1>1, <2>1, <2>2, <2>3
<1>6. Selected(e)' = Selected(e) \cup {pressed}
  <2> HIDE DEF Selected
  <2> QED
    BY <1>5
<1> QED
  BY <1>0, <1>6 DEF Selected

LEMMA ShiftSelects ==
    ASSUME LightsOK, LightsOK', pressed \in Lights, arrayShift
    PROVE  \/ Selected(lastBehaviorId)' = Selected(lastBehaviorId)
           \/ Selected(lastBehaviorId)' = Selected(lastBehaviorId) \ {pressed}
<1>0. PICK e \in Behaviors : e = lastBehaviorId /\ e = lastBehaviorId'
  BY DEF arrayShift, LightsOK
<1> DEFINE n == Len(Edited)
<1>2. Edited \in Seq(0..ListSize) /\ n \in Nat /\ DOMAIN Edited = 1..n
  BY EditedType
<1>3. PICK j \in 1..n : Edited[j] = pressed /\ SetEdited(ShiftFrom(Edited, j))
  BY <1>2 DEF arrayShift
<1>4. lightIds'[e] = ShiftFrom(Edited, j)
  BY <1>0, <1>3 DEF SetEdited, LightsOK
<1>5. /\ Len(lightIds'[e]) = n
      /\ \A k \in 1..n : lightIds'[e][k] =
            IF k < j THEN Edited[k] ELSE IF k < n THEN Edited[k + 1] ELSE 0
  BY <1>2, <1>3, <1>4, ShiftIs
<1>6. ASSUME NEW l, l # pressed
      PROVE  l \in Selected(e)' <=> l \in Selected(e)
  <2>1. l \in Selected(e)' <=> l # 0 /\ \E k \in 1..Len(lightIds'[e]) : lightIds'[e][k] = l
    BY InSelectedNext
  <2>2. l \in Selected(e) <=> l # 0 /\ \E k \in 1..n : Edited[k] = l
    BY <1>0, InSelected DEF Edited
  <2> HIDE DEF n, Edited
  <2>3. ASSUME NEW k \in 1..n, lightIds'[e][k] = l, l # 0
        PROVE  \E i \in 1..n : Edited[i] = l
    <3>1. CASE k < j
      BY <1>5, <2>3, <3>1
    <3>2. CASE ~(k < j) /\ k < n
      <4>1. k + 1 \in 1..n
        BY <1>2, <3>2
      <4> QED
        BY <1>5, <2>3, <3>2, <4>1
    <3> QED
      BY <1>5, <2>3, <3>1, <3>2
  <2>4. ASSUME NEW k \in 1..n, Edited[k] = l
        PROVE  \E i \in 1..n : lightIds'[e][i] = l
    <3>1. CASE k < j
      BY <1>5, <2>4, <3>1
    <3>2. CASE ~(k < j)
      <4>1. k # j
        BY <1>3, <1>6, <2>4
      <4>2. k - 1 \in 1..n /\ ~(k - 1 < j) /\ k - 1 < n /\ (k - 1) + 1 = k
        BY <1>2, <3>2, <4>1
      <4>3. lightIds'[e][k - 1] = Edited[(k - 1) + 1]
        BY <1>5, <4>2
      <4> QED
        BY <2>4, <4>2, <4>3
    <3> QED
      BY <3>1, <3>2
  <2> QED
    BY <1>5, <2>1, <2>2, <2>3, <2>4
<1>7. pressed \in Selected(e)
  <2>1. pressed # 0
    BY Sizes DEF Lights
  <2> QED
    BY <1>0, <1>3, <2>1, InSelected DEF Edited
<1>8. Selected(e)' = Selected(e) \/ Selected(e)' = Selected(e) \ {pressed}
  <2> HIDE DEF Selected
  <2>1. CASE pressed \in Selected(e)'
    BY <1>6, <1>7, <2>1
  <2>2. CASE pressed \notin Selected(e)'
    BY <1>6, <1>7, <2>2
  <2> QED
    BY <2>1, <2>2
<1> QED
  BY <1>0, <1>8 DEF Selected

LEMMA DropSelects ==
    ASSUME LightsOK, LightsOK', RemoveLight
    PROVE  \/ Selected(lastBehaviorId)' = Selected(lastBehaviorId)
           \/ \E l \in Selected(lastBehaviorId) :
                 Selected(lastBehaviorId)' = Selected(lastBehaviorId) \ {l}
<1>0. PICK e \in Behaviors : e = lastBehaviorId /\ e = lastBehaviorId'
  BY DEF RemoveLight, LightsOK
<1> DEFINE n == Len(Edited)
<1>2. Edited \in Seq(0..ListSize) /\ n \in Nat
  BY EditedType
<1>3. lightIds'[e] = SubSeq(Edited, 1, n - 1)
  BY <1>0 DEF RemoveLight, SetEdited, LightsOK
<1>4. /\ Len(lightIds'[e]) = IF n > 0 THEN n - 1 ELSE 0
      /\ \A k \in 1..(n - 1) : lightIds'[e][k] = Edited[k]
  BY <1>2, <1>3, DropIs
<1>5. \A l : l \in Selected(e)' <=> l # 0 /\ \E k \in 1..(n - 1) : Edited[k] = l
  <2> TAKE l
  <2>1. l \in Selected(e)' <=> l # 0 /\ \E k \in 1..Len(lightIds'[e]) : lightIds'[e][k] = l
    BY InSelectedNext
  <2> HIDE DEF n, Edited
  <2>2. \A k : k \in 1..Len(lightIds'[e]) <=> k \in 1..(n - 1)
    BY <1>2, <1>4
  <2> QED
    BY <1>4, <2>1, <2>2
<1>6. \A l : l \in Selected(e) <=> l # 0 /\ \E k \in 1..n : Edited[k] = l
  BY <1>0, InSelected DEF Edited
<1> HIDE DEF Selected, Edited, n
<1>7. Selected(e)' = Selected(e) \/ \E l \in Selected(e) : Selected(e)' = Selected(e) \ {l}
  <2>1. CASE Selected(e)' = Selected(e)
    BY <2>1
  <2>2. CASE Selected(e)' # Selected(e)
    <3>1. \A k \in 1..(n - 1) : k \in 1..n
      BY <1>2
    <3>2. \A k \in 1..n : k \in 1..(n - 1) \/ k = n
      BY <1>2
    <3>3. \A l \in Selected(e)' : l \in Selected(e)
      BY <1>5, <1>6, <3>1
    <3>4. PICK l \in Selected(e) : l \notin Selected(e)'
      BY <2>2, <3>3
    <3>5. l = Edited[n]
      BY <1>5, <1>6, <3>2, <3>4
    <3>6. \A m \in Selected(e) : m # l => m \in Selected(e)'
      BY <1>5, <1>6, <3>2, <3>5
    <3>7. Selected(e)' = Selected(e) \ {l}
      BY <3>3, <3>4, <3>6
    <3> QED
      BY <3>4, <3>7
  <2> QED
    BY <2>1, <2>2
<1>8. Selected(lastBehaviorId)' = Selected(e)' /\ Selected(lastBehaviorId) = Selected(e)
  BY <1>0 DEF Selected
<1> QED
  BY <1>7, <1>8

LEMMA OthersKept ==
    ASSUME LightsOK, NEW ids, SetEdited(ids), UNCHANGED lastBehaviorId, NEW S,
           Selected(lastBehaviorId)' = S
    PROVE  Chosen' = [Chosen EXCEPT ![lastBehaviorId] = S]
<1>1. \A b \in Behaviors : b # lastBehaviorId => lightIds'[b] = lightIds[b]
  BY DEF SetEdited, LightsOK
<1>2. \A b \in Behaviors : b # lastBehaviorId => Selected(b)' = Selected(b)
  BY <1>1 DEF Selected
<1>3. PICK e \in Behaviors : e = lastBehaviorId /\ e = lastBehaviorId'
  BY DEF LightsOK
<1>4. Selected(e)' = S
  BY <1>3 DEF Selected
<1>5. Chosen' = [b \in Behaviors |-> Selected(b)']
  BY DEF Chosen
<1>6. Chosen = [b \in Behaviors |-> Selected(b)]
  BY DEF Chosen
<1> HIDE DEF Selected
<1> QED
  BY <1>2, <1>3, <1>4, <1>5, <1>6

LEMMA PromiseInit == Init => Promise!Init
<1> SUFFICES ASSUME Init PROVE Promise!Init
  OBVIOUS
<1>1. \A b \in Behaviors : Selected(b) = {}
  <2>1. \A b \in Behaviors : lightIds[b] = <<>>
    BY DEF Init
  <2>2. DOMAIN <<>> = {}
    OBVIOUS
  <2> QED
    BY <2>1, <2>2 DEF Selected
<1>2. lastBehaviorId \in Behaviors
  BY BehaviorsAssumption DEF Init
<1> HIDE DEF Selected
<1> QED
  BY <1>1, <1>2 DEF Promise!Init

LEMMA PromiseSame ==
    UNCHANGED <<lightIds, lastBehaviorId>> => UNCHANGED Promise!vars
  BY DEF Promise!vars, Selected

LEMMA PromiseSteps ==
    /\ Promise!Open <=> lastBehaviorId' \in Behaviors /\ UNCHANGED Chosen
    /\ Promise!Add <=> /\ \E l \in Lights \ Chosen[lastBehaviorId] :
                             Chosen' = [Chosen EXCEPT ![lastBehaviorId] = @ \cup {l}]
                       /\ UNCHANGED lastBehaviorId
    /\ Promise!Remove <=> /\ \E l \in Chosen[lastBehaviorId] :
                                Chosen' = [Chosen EXCEPT ![lastBehaviorId] = @ \ {l}]
                          /\ UNCHANGED lastBehaviorId
    /\ Promise!Clear <=> Chosen' = [b \in Behaviors |-> {}] /\ lastBehaviorId' \in Behaviors
  BY DEF Promise!Open, Promise!Add, Promise!Remove, Promise!Clear, Chosen

LEMMA PromiseStep == TypeOK /\ StructOK /\ [Next]_vars => [Promise!Next]_(Promise!vars)
<1> SUFFICES ASSUME TypeOK, StructOK, [Next]_vars, ~(UNCHANGED <<lightIds, lastBehaviorId>>)
             PROVE  Promise!Next
  BY PromiseSame
<1>1. crash = "" /\ Work /\ Running
  BY DEF Next, Stopped, vars, Running
<1>2. LightsOK /\ LightsOK'
  BY <1>1, LightsStep, TypeParts
<1>3. Chosen = [b \in Behaviors |-> Selected(b)] /\ Chosen' = [b \in Behaviors |-> Selected(b)']
  BY DEF Chosen
<1>4. lastBehaviorId \in Behaviors /\ lastBehaviorId' \in Behaviors
  BY <1>2 DEF LightsOK
<1>5. Chosen[lastBehaviorId] = Selected(lastBehaviorId)
  BY <1>3, <1>4
<1>6. ASSUME NEW ids, SetEdited(ids), UNCHANGED lastBehaviorId,
             Selected(lastBehaviorId)' = Selected(lastBehaviorId)
      PROVE  Chosen' = Chosen
  <2>1. Chosen' = [Chosen EXCEPT ![lastBehaviorId] = Selected(lastBehaviorId)]
    BY <1>2, <1>6, OthersKept
  <2> HIDE DEF Selected
  <2> QED
    BY <1>3, <1>4, <1>5, <2>1
<1>7. CASE AddLight
  <2>1. pressed \in Lights
    BY <1>7 DEF AddLight, StructOK, HitOK
  <2>2. Selected(lastBehaviorId)' = Selected(lastBehaviorId) \cup {pressed}
    BY <1>2, <1>7, <2>1, AddSelects
  <2>3. PICK ids : SetEdited(ids) /\ UNCHANGED lastBehaviorId
    BY <1>7 DEF AddLight
  <2>4. Chosen' = [Chosen EXCEPT ![lastBehaviorId] = Selected(lastBehaviorId) \cup {pressed}]
    BY <1>2, <2>2, <2>3, OthersKept
  <2> HIDE DEF Selected, Chosen
  <2>5. CASE pressed \in Selected(lastBehaviorId)
    <3>1. Selected(lastBehaviorId) \cup {pressed} = Selected(lastBehaviorId)
      BY <2>5
    <3>2. Chosen' = Chosen
      BY <1>6, <2>2, <2>3, <3>1
    <3> QED
      BY <1>4, <3>2, PromiseSteps DEF Promise!Next
  <2>6. CASE pressed \notin Selected(lastBehaviorId)
    BY <1>5, <2>1, <2>3, <2>4, <2>6, PromiseSteps DEF Promise!Next
  <2> QED
    BY <2>5, <2>6
<1>8. ASSUME NEW ids, SetEdited(ids), UNCHANGED lastBehaviorId,
             \/ Selected(lastBehaviorId)' = Selected(lastBehaviorId)
             \/ \E l \in Selected(lastBehaviorId) :
                   Selected(lastBehaviorId)' = Selected(lastBehaviorId) \ {l}
      PROVE  Promise!Next
  <2>1. CASE Selected(lastBehaviorId)' = Selected(lastBehaviorId)
    <3>1. Chosen' = Chosen
      BY <1>6, <1>8, <2>1
    <3> QED
      BY <1>4, <3>1, PromiseSteps DEF Promise!Next
  <2>2. CASE \E l \in Selected(lastBehaviorId) :
                Selected(lastBehaviorId)' = Selected(lastBehaviorId) \ {l}
    <3> HIDE DEF Selected, Chosen
    <3>1. PICK l \in Selected(lastBehaviorId) :
             Selected(lastBehaviorId)' = Selected(lastBehaviorId) \ {l}
      BY <2>2
    <3>2. Chosen' = [Chosen EXCEPT ![lastBehaviorId] = Selected(lastBehaviorId) \ {l}]
      BY <1>2, <1>8, <3>1, OthersKept
    <3> QED
      BY <1>5, <1>8, <3>1, <3>2, PromiseSteps DEF Promise!Next
  <2> QED
    BY <1>8, <2>1, <2>2
<1>9. CASE arrayShift
  <2>1. pressed \in Lights
    BY <1>9 DEF arrayShift, StructOK, HitOK
  <2>2. PICK ids : SetEdited(ids) /\ UNCHANGED lastBehaviorId
    BY <1>9 DEF arrayShift
  <2> HIDE DEF Selected
  <2>3. \/ Selected(lastBehaviorId)' = Selected(lastBehaviorId)
        \/ Selected(lastBehaviorId)' = Selected(lastBehaviorId) \ {pressed}
    BY <1>2, <1>9, <2>1, ShiftSelects
  <2>4. pressed \notin Selected(lastBehaviorId) =>
            Selected(lastBehaviorId) \ {pressed} = Selected(lastBehaviorId)
    OBVIOUS
  <2> QED
    BY <1>8, <2>2, <2>3, <2>4
<1>10. CASE RemoveLight
  <2>1. PICK ids : SetEdited(ids) /\ UNCHANGED lastBehaviorId
    BY <1>10 DEF RemoveLight
  <2> QED
    BY <1>2, <1>8, <1>10, <2>1, DropSelects
<1>11. CASE fetchData
  <2>1. \A b \in Behaviors : lightIds'[b] = <<>>
    BY <1>11 DEF fetchData
  <2>2. \A b \in Behaviors : Selected(b)' = {}
    <3>1. DOMAIN <<>> = {}
      OBVIOUS
    <3> QED
      BY <2>1, <3>1 DEF Selected
  <2>3. Chosen' = [b \in Behaviors |-> {}]
    BY <1>3, <2>2
  <2> QED
    BY <1>4, <2>3, PromiseSteps DEF Promise!Next
<1>12. CASE \E g \in Pages : OpenPlain(g)
  <2>1. lightIds' = lightIds
    BY <1>12 DEF OpenPlain
  <2>2. Chosen' = Chosen
    BY <2>1 DEF Chosen, Selected
  <2> QED
    BY <1>4, <2>2, PromiseSteps DEF Promise!Next
<1>13. CASE drawRoom \/ fetchDataWild
  BY <1>1, <1>13, drawRoomIs, StoringKeeps DEF Storing, LoadRoom
<1> QED
  BY <1>1, <1>7, <1>9, <1>10, <1>11, <1>12, <1>13
  DEF Work, Tap, CallNothing, PressOther, drawRoomLights, drawLight, OpenList,
      drawNextPage, drawPrevPage, CallSelect, StartRemoving, AddLightWild, DialOpensLight

(* The arrays of ids, the counters and the shifts that close a gap          *)
(* implement a set of lights per behaviour, even while lights are in a list *)
(* twice because the dial overtook a tap (selectLight, arrayShift).         *)
THEOREM SelectionImplemented == Spec => ImplementsSelection
<1>1. Init => Promise!Init
  BY PromiseInit
<1>2. Init => TypeOK /\ StructOK
  BY StructInit
<1>3. TypeOK /\ StructOK /\ [Next]_vars => (TypeOK /\ StructOK)'
  BY StructStep
<1>4. TypeOK /\ StructOK /\ [Next]_vars => [Promise!Next]_(Promise!vars)
  BY PromiseStep
<1> QED
  BY <1>1, <1>2, <1>3, <1>4, PTL DEF Spec, ImplementsSelection, Promise!Spec

(* ------------------------------------------------------------------------ *)
(* What the lists show.                                                     *)

(* Between two multiples of PerPage lies a page.                            *)
LEMMA PageBetween ==
    ASSUME NEW k \in Nat, NEW q \in Nat, k * PerPage < q * PerPage
    PROVE  k * PerPage + PerPage <= q * PerPage
<1>1. PerPage \in Nat /\ PerPage >= 1
  BY Sizes
<1>2. k < q
  <2>1. k >= q => k * PerPage >= q * PerPage
    BY <1>1
  <2>2. k * PerPage \in Nat /\ q * PerPage \in Nat
    BY <1>1
  <2> QED
    BY <2>1, <2>2
<1>3. (k + 1) * PerPage <= q * PerPage
  BY <1>1, <1>2
<1>4. (k + 1) * PerPage = k * PerPage + PerPage
  BY <1>1
<1> QED
  BY <1>3, <1>4

LEMMA WholePages ==
    ASSUME RoomsSize % PerPage = 0
    PROVE  \E q \in Nat : RoomsSize = q * PerPage
<1>1. PerPage \in Nat /\ PerPage >= 1 /\ RoomsSize \in Nat
  BY Sizes
<1>2. RoomsSize = (RoomsSize \div PerPage) * PerPage + (RoomsSize % PerPage)
  BY <1>1
<1>3. RoomsSize \div PerPage \in Nat
  BY <1>1
<1>4. RoomsSize = (RoomsSize \div PerPage) * PerPage
  BY <1>1, <1>2, <1>3
<1> QED
  BY <1>3, <1>4

(* If everything fits, a pager reads outside its list for one of three      *)
(* reasons only.                                                            *)
LEMMA ReadsInside ==
    ASSUME Running, NEW start, PageStart(start), ReadsOutside(page, start, start + PerPage)
    PROVE  \/ page = "ALLE RUM" /\ groups = 0
           \/ page = "ALLE RUM" /\ filledRooms = RoomsSize /\ RoomsSize % PerPage # 0
           \/ page = "ALLE LAMPER" /\ known > ListSize
<1>1. BridgeOK /\ RoomsOK
  BY RunningParts
<1>2. PICK k \in Nat : start = k * PerPage
  BY DEF PageStart
<1>3. /\ start \in Nat /\ start < LaterCounter(page) /\ page \in Lists
      /\ page # "RUM"
      /\ start >= ListEnd(page) \/ (Limit(page) = ListEnd(page) /\ start + PerPage > ListEnd(page))
  BY Sizes DEF PageStart, ReadsOutside
<1>4. CASE page = "ALLE RUM"
  <2> SUFFICES ASSUME groups # 0, filledRooms = RoomsSize => RoomsSize % PerPage = 0
               PROVE  FALSE
    BY <1>4
  <2>1. groups \in 0..RoomsSize /\ groups >= 1
    BY <1>1, Sizes DEF BridgeOK
  <2>2. LaterCounter(page) = groups - 1
    BY <1>4, <2>1, CountType DEF LaterCounter, FirstCounter
  <2>3. ListEnd(page) = RoomsSize /\ Limit(page) = filledRooms
    BY <1>4 DEF ListEnd, Limit
  <2>4. start < RoomsSize
    BY <1>3, <2>1, <2>2, Sizes
  <2>5. filledRooms = RoomsSize /\ start + PerPage > RoomsSize
    BY <1>3, <2>3, <2>4, Sizes
  <2>6. PICK q \in Nat : RoomsSize = q * PerPage
    BY <2>5, WholePages
  <2>7. start + PerPage <= RoomsSize
    BY <1>2, <2>4, <2>6, PageBetween
  <2> QED
    BY <1>3, <2>5, <2>7, Sizes
<1>5. CASE page = "ALLE LAMPER"
  <2> SUFFICES ASSUME ~(known > ListSize) PROVE FALSE
    BY <1>5
  <2>1. LaterCounter(page) = known /\ ListEnd(page) = ListSize
    BY <1>5 DEF LaterCounter, ListEnd
  <2>2. known \in Nat /\ ListSize \in Nat
    BY <1>1, Sizes DEF BridgeOK
  <2>3. start < ListSize
    BY <1>3, <2>1, <2>2
  <2>4. PICK q \in Nat : ListSize = q * PerPage
    BY SizeAssumption
  <2>5. start + PerPage <= ListSize
    BY <1>2, <2>3, <2>4, PageBetween
  <2> QED
    BY <1>3, <2>1, <2>3, <2>5, Sizes
<1> QED
  BY <1>3, <1>4, <1>5 DEF Lists

LEMMA ReadsStep == TypeOK /\ StructOK /\ ListReadsInside /\ [Next]_vars => ListReadsInside'
<1> SUFFICES ASSUME TypeOK, StructOK, ListReadsInside, [Next]_vars, crash' = "list"
             PROVE  \/ page' = "ALLE RUM" /\ groups' = 0
                    \/ page' = "ALLE RUM" /\ filledRooms' = RoomsSize /\ RoomsSize % PerPage # 0
                    \/ page' = "ALLE LAMPER" /\ known' > ListSize
                    \/ Overfull'
  BY DEF ListReadsInside
<1>1. CASE UNCHANGED vars
  BY <1>1 DEF ListReadsInside, Overfull, vars, screenVars, bridgeVars
<1>2. CASE crash = "" /\ Work
  <2>1. Running
    BY <1>2 DEF Running
  <2>5. ~(drawRoom \/ fetchDataWild)
    BY <1>2, <2>1, drawRoomIs, StoringKeeps DEF Storing, LoadRoom
  <2>2. drawNextPage \/ drawPrevPage
    BY <1>2, <2>5
    DEF Work, Tap, CallNothing, PressOther, drawRoomLights, drawLight, OpenPlain,
        OpenList, CallSelect, StartRemoving, AddLight, AddLightWild, arrayShift, RemoveLight,
        fetchData, DialOpensLight
  <2>3. PICK start : PageStart(start) /\ TurnPage(start) /\ UNCHANGED <<page, bridgeVars>>
    BY <2>1, <2>2, NextStart, PrevStart DEF drawNextPage, drawPrevPage
  <2>4. ReadsOutside(page, start, start + PerPage)
    BY <2>3, TurnPageIs
  <2> QED
    BY <2>1, <2>3, <2>4, ReadsInside DEF bridgeVars
<1> QED
  BY <1>1, <1>2 DEF Next, Stopped

(* For any sizes and any household, the pagers read outside a list for one  *)
(* of the three reasons only, unless the bridge reported more than the      *)
(* arrays hold and the refresh itself wrote behind them (drawNextPage,      *)
(* drawPrevPage, getGroups, getLightIds).                                   *)
THEOREM ReadsSafe == Spec => []ListReadsInside
<1>1. Init => TypeOK /\ StructOK /\ ListReadsInside
  <2>1. Init => ListReadsInside
    BY DEF Init, ListReadsInside
  <2> QED
    BY <2>1, StructInit
<1>2. TypeOK /\ StructOK /\ ListReadsInside /\ [Next]_vars
         => (TypeOK /\ StructOK /\ ListReadsInside)'
  BY StructStep, ReadsStep
<1> QED
  BY <1>1, <1>2, PTL DEF Spec

(* The bridge knows the lights it lists, unless a request failed.           *)
ListedKnown == known = 0 \/ listed <= known

(* No button offers the next page.                                          *)
LastPage == \A i \in Slots : Live(i) => buttons[i].event # "drawNextPage"

(* The page on the screen ends where its list does.                         *)
Complete ==
    IF page = "ALLE RUM" THEN groups <= topIndex \/ groups = topIndex + 1
    ELSE IF page = "RUM" THEN currentRoom.lights <= topIndex
    ELSE listed <= topIndex

CompleteInv == ListedKnown /\ (page \in Lists /\ pc # "room" /\ LastPage => Complete)

(* A first page without a Next button is the whole list.                    *)
LEMMA FirstComplete ==
    ASSUME BridgeOK, RoomsOK, LightsOK, NEW g \in Lists, ShowList(g),
           UNCHANGED <<bridgeVars, roomVars>>, LastPage'
    PROVE  Complete'
<1>1. /\ page' = g /\ topIndex' = FirstEnd(g)
      /\ buttons' = [i \in Slots |-> FirstButton(g, i)]
      /\ buttonCount' = FirstAt(g) + FirstDrawn(g)
  BY ShowListIs
<1>2. UNCHANGED <<groups, listed, currentRoom>>
  BY DEF bridgeVars, roomVars
<1>3. ~FirstNext(g)
  <2> SUFFICES ASSUME FirstNext(g) PROVE FALSE
    OBVIOUS
  <2>1. FirstAt(g) = PerPage + 4 /\ FirstDrawn(g) \in Nat /\ FirstAt(g) + FirstDrawn(g) <= ButtonsSize
    BY FirstPage
  <2> DEFINE i == PerPage + 3
  <2>2. i \in Slots /\ i < FirstAt(g) + FirstDrawn(g) /\ ~(i < 2)
    BY <2>1, Sizes DEF Slots
  <2>3. FirstButton(g, i) = NewButton("drawNextPage", 1)
    BY <2>2 DEF FirstButton
  <2>4. buttons'[i].event = "drawNextPage" /\ i < buttonCount'
    BY <1>1, <2>2, <2>3 DEF NewButton
  <2> HIDE DEF i
  <2> QED
    BY <2>2, <2>4 DEF LastPage, Live
<1>4. FirstEnd(g) = IF g = "ALLE LAMPER" /\ ~Paginated(g) THEN listed ELSE PerPage
  BY DEF FirstEnd
<1>5. ~Paginated(g) \/ ~(PerPage < FirstCounter(g))
  BY <1>3 DEF FirstNext
<1>6. CASE g = "ALLE RUM"
  <2>1. FirstCounter(g) = roomsCount /\ ~(roomsCount > PerPage)
    BY <1>5, <1>6 DEF FirstCounter, Paginated
  <2>2. groups \in Nat /\ (groups >= 1 => roomsCount = groups - 1)
    BY CountType, Sizes DEF BridgeOK
  <2> HIDE DEF roomsCount
  <2>3. groups <= PerPage \/ groups = PerPage + 1
    BY <2>1, <2>2, Sizes
  <2> QED
    BY <1>1, <1>2, <1>4, <1>6, <2>3 DEF Complete
<1>7. CASE g = "RUM"
  <2>1. ~(currentRoom.lights > PerPage)
    BY <1>5, <1>7 DEF FirstCounter, Paginated
  <2>2. currentRoom.lights <= PerPage
    BY <2>1, Sizes DEF RoomsOK
  <2> QED
    BY <1>1, <1>2, <1>4, <1>7, <2>2 DEF Complete
<1>8. CASE g = "ALLE LAMPER"
  <2>1. Paginated(g) => ~(PerPage < listed)
    BY <1>5, <1>8 DEF FirstCounter
  <2>2. listed \in Nat /\ PerPage \in Nat
    BY Sizes DEF BridgeOK
  <2>3. listed <= FirstEnd(g)
    <3>1. CASE Paginated(g)
      <4>1. FirstEnd(g) = PerPage /\ ~(PerPage < listed)
        BY <1>4, <2>1, <3>1, Zenon
      <4> QED
        BY <2>2, <4>1
    <3>2. CASE ~Paginated(g)
      <4>1. FirstEnd(g) = listed
        BY <1>4, <1>8, <3>2, Zenon
      <4> QED
        BY <2>2, <4>1
    <3> QED
      BY <3>1, <3>2
  <2> QED
    BY <1>1, <1>2, <1>8, <2>3 DEF Complete
<1> QED
  BY <1>6, <1>7, <1>8 DEF Lists

(* A later page without a Next button ends its list.                        *)
LEMMA TurnComplete ==
    ASSUME Running, ListedKnown, NEW start, PageStart(start), TurnPage(start),
           UNCHANGED <<page, bridgeVars, roomVars>>, LastPage'
    PROVE  Complete'
<1>1. BridgeOK /\ RoomsOK /\ LightsOK /\ buttons \in [Slots -> Button]
  BY RunningParts DEF ButtonsOK
<1>2. start \in Nat /\ page \in Lists /\ Paginated(page)
  BY DEF PageStart
<1>3. /\ buttons' = [i \in Slots |-> TurnButton(start, i)]
      /\ buttonCount' = TurnCount(start) /\ topIndex' = TurnTop(start)
  BY TurnPageIs
<1>4. /\ TurnTop(start) \in 0..(U8 - 1) /\ TurnDrawn(start) \in 0..PerPage
      /\ NextAt(start) \in (PerPage + 3)..(PerPage + 4) /\ PerPage + 5 <= ButtonsSize
  BY <1>1, <1>2, TurnNumbers
<1>5. ~TurnNext(start)
  <2> SUFFICES ASSUME TurnNext(start) PROVE FALSE
    OBVIOUS
  <2>1. TurnCount(start) = NextAt(start) + 1
    BY DEF TurnCount
  <2> DEFINE i == NextAt(start)
  <2>2. i \in Slots /\ i < TurnCount(start) /\ ~(i >= 3 /\ i < 3 + TurnDrawn(start))
    <3> HIDE DEF i
    <3> QED
      BY <1>4, <2>1, Sizes DEF Slots, i
  <2>3. ~(TurnPrev(start) /\ i = PerPage + 3)
    BY Sizes DEF NextAt
  <2>4. TurnButton(start, i) = NewButton("drawNextPage", 1)
    BY <2>2, <2>3 DEF TurnButton
  <2>5. TurnButton(start, i).event = "drawNextPage"
    BY <2>4 DEF NewButton
  <2> PICK j : j = i
    OBVIOUS
  <2>6. j \in Slots /\ buttons'[j].event = "drawNextPage" /\ j < buttonCount'
    <3> HIDE DEF i
    <3> QED
      BY <1>3, <2>2, <2>5
  <2> QED
    BY <2>6 DEF LastPage, Live
<1>6. LaterCounter(page) <= TurnTop(start)
  <2>1. LaterCounter(page) \in 0..(U8 - 1)
    BY <1>1, <1>2, CounterTypes
  <2> QED
    BY <1>4, <1>5, <2>1, Sizes DEF TurnNext
<1>7. UNCHANGED <<page, groups, listed, currentRoom>>
  BY DEF bridgeVars, roomVars
<1>8. TurnTop(start) \in Nat
  BY <1>4, Sizes
<1>9. CASE page = "ALLE RUM"
  <2>1. LaterCounter(page) = roomsCount
    BY <1>9 DEF LaterCounter, FirstCounter
  <2>2. groups \in Nat /\ (groups >= 1 => roomsCount = groups - 1)
    BY <1>1, CountType, Sizes DEF BridgeOK
  <2> HIDE DEF roomsCount
  <2>3. groups <= TurnTop(start) \/ groups = TurnTop(start) + 1
    BY <1>6, <1>8, <2>1, <2>2
  <2> QED
    BY <1>3, <1>7, <1>9, <2>3 DEF Complete
<1>10. CASE page = "RUM"
  <2>1. currentRoom.lights <= TurnTop(start)
    BY <1>6, <1>10 DEF LaterCounter, FirstCounter
  <2> QED
    BY <1>3, <1>7, <1>10, <2>1 DEF Complete
<1>11. CASE page = "ALLE LAMPER"
  <2>1. LaterCounter(page) = known /\ known > PerPage
    BY <1>2, <1>11 DEF LaterCounter, Paginated
  <2>2. listed \in Nat /\ known \in Nat /\ listed <= known
    BY <1>1, <2>1, Sizes DEF BridgeOK, ListedKnown
  <2>3. listed <= TurnTop(start)
    BY <1>6, <1>8, <2>1, <2>2
  <2> QED
    BY <1>3, <1>7, <1>11, <2>3 DEF Complete
<1> QED
  BY <1>2, <1>9, <1>10, <1>11 DEF Lists

(* A step that leaves the buttons and what they stand for as they are.      *)
LEMMA CompleteKept ==
    ASSUME CompleteInv,
           \A i \in Slots : buttons'[i].event = buttons[i].event,
           UNCHANGED <<buttonCount, screenVars, bridgeVars, roomVars>>, pc # "room"
    PROVE  CompleteInv'
<1>1. UNCHANGED <<page, topIndex, groups, listed, known, currentRoom, buttonCount>>
  BY DEF screenVars, bridgeVars, roomVars
<1>2. LastPage' => LastPage
  BY <1>1 DEF LastPage, Live
<1>3. Complete' <=> Complete
  BY <1>1 DEF Complete
<1>4. ListedKnown'
  BY <1>1 DEF CompleteInv, ListedKnown
<1> QED
  BY <1>1, <1>2, <1>3, <1>4 DEF CompleteInv

LEMMA CompleteStep == TypeOK /\ StructOK /\ CompleteInv /\ [Next]_vars => CompleteInv'
<1> SUFFICES ASSUME TypeOK, StructOK, CompleteInv, [Next]_vars PROVE CompleteInv'
  OBVIOUS
<1>1. CASE UNCHANGED vars
  BY <1>1 DEF vars, touchVars, buttonVars, screenVars, bridgeVars, roomVars, CompleteInv, ListedKnown,
     LastPage, Live, Complete
<1>2. CASE crash = "" /\ Work
  <2>1. Running /\ BridgeOK /\ RoomsOK /\ LightsOK /\ ButtonsOK /\ ItemsOK /\ hit \in Slots
    BY <1>2, RunningParts DEF Running, StructOK, ControlOK
  <2>2. CASE ListedKnown' /\ (page' \notin Lists \/ pc' = "room")
    BY <2>2 DEF CompleteInv
  <2>3. CASE (\E r : LoadRoom(r)) \/ drawLight \/ DialOpensLight \/ \E g \in Pages : OpenPlain(g)
    <3>1. page' \notin Lists \/ pc' = "room"
      BY <2>3 DEF LoadRoom, drawLight, DialOpensLight, OpenPlain, ShowPlain, Lists
    <3>2. UNCHANGED bridgeVars
      BY <2>3 DEF LoadRoom, drawLight, DialOpensLight, OpenPlain
    <3>3. ListedKnown'
      BY <3>2 DEF bridgeVars, CompleteInv, ListedKnown
    <3> QED
      BY <2>2, <3>1, <3>3
  <2>4. CASE fetchData
    <3>1. page' = "HJEM"
      BY <2>4 DEF fetchData, ShowPlain
    <3>2. listed' \in Listed \cup {0} /\ known' \in Known \cup {0}
      BY <2>4 DEF fetchData, Fetched
    <3>3. ListedKnown'
      BY <3>2, HouseholdAssumption DEF ListedKnown
    <3> QED
      BY <2>2, <3>1, <3>3 DEF Lists
  <2>5. ASSUME NEW g \in Lists, ShowList(g), UNCHANGED <<bridgeVars, roomVars>>
        PROVE  CompleteInv'
    <3>1. LastPage' => Complete'
      BY <2>1, <2>5, FirstComplete
    <3>2. ListedKnown'
      BY <2>5 DEF bridgeVars, CompleteInv, ListedKnown
    <3> QED
      BY <3>1, <3>2 DEF CompleteInv
  <2>6. CASE (\E g \in Pages : OpenList(g)) \/ drawRoomLights
    BY <2>5, <2>6 DEF OpenList, drawRoomLights, Lists
  <2>7. CASE drawNextPage \/ drawPrevPage
    <3>1. PICK start : /\ PageStart(start) /\ TurnPage(start)
                       /\ UNCHANGED <<page, bridgeVars, roomVars>>
      BY <2>1, <2>7, NextStart, PrevStart DEF drawNextPage, drawPrevPage
    <3>2. LastPage' => Complete'
      BY <2>1, <3>1, TurnComplete DEF CompleteInv
    <3>3. ListedKnown'
      BY <3>1 DEF bridgeVars, CompleteInv, ListedKnown
    <3> QED
      BY <3>2, <3>3 DEF CompleteInv
  <2>8. CASE AddLight \/ RemoveLight
    <3>1. PICK v \in BOOLEAN : SetSelected(v)
      BY <2>8 DEF AddLight, RemoveLight
    <3>2. /\ UNCHANGED <<buttonCount, shown, screenVars, bridgeVars, roomVars>>
          /\ pc # "room"
      BY <2>8 DEF AddLight, RemoveLight
    <3> QED
      BY <2>1, <3>1, <3>2, SetKeeps, CompleteKept
  <2>9. CASE \/ \E i \in Slots : Tap(i)
             \/ PressOther \/ CallSelect \/ StartRemoving \/ arrayShift
             \/ CallNothing \/ AddLightWild
    <3>1. UNCHANGED <<buttonVars, screenVars, bridgeVars, roomVars>> /\ pc # "room"
      BY <2>9 DEF Tap, PressOther, CallSelect, StartRemoving, arrayShift, CallNothing, AddLightWild, Calls
    <3>2. buttons' = buttons /\ UNCHANGED buttonCount
      BY <3>1 DEF buttonVars
    <3> QED
      BY <3>1, <3>2, CompleteKept
  <2>10. CASE fetchDataWild
    <3>1. /\ listed' \in Listed \cup {0} /\ known' \in Known \cup {0}
          /\ page = "HJEM" /\ page' = page
      BY <2>10 DEF fetchDataWild, Fetched, screenVars
    <3>2. ListedKnown'
      BY <3>1, HouseholdAssumption DEF ListedKnown
    <3> QED
      BY <2>2, <3>1, <3>2 DEF Lists
  <2>11. CASE drawRoom
    <3>1. CASE \E r : LoadRoomWild(r)
      <4>1. UNCHANGED <<buttonVars, screenVars, bridgeVars, roomVars>> /\ pc # "room"
        BY <2>11, <3>1 DEF LoadRoomWild, drawRoom, Calls
      <4>2. buttons' = buttons /\ UNCHANGED buttonCount
        BY <4>1 DEF buttonVars
      <4> QED
        BY <4>1, <4>2, CompleteKept
    <3> QED
      BY <2>1, <2>3, <2>10, <2>11, <3>1, drawRoomIs DEF Storing
  <2> QED
    BY <1>2, <2>3, <2>4, <2>6, <2>7, <2>8, <2>9, <2>10, <2>11 DEF Work
<1> QED
  BY <1>1, <1>2 DEF Next, Stopped

(* For any sizes and any household, a list without a Next button is         *)
(* complete, except for the last of 1 + k * PerPage groups (drawAllGroups,  *)
(* drawRoom, drawAllLights, drawPaginationButtons).                         *)
THEOREM CompleteSafe == Spec => []ListComplete
<1>1. Init => TypeOK /\ StructOK /\ CompleteInv
  <2>1. Init => CompleteInv
    <3> SUFFICES ASSUME Init PROVE CompleteInv
      OBVIOUS
    <3>1. page \notin Lists
      BY DEF Init, Lists
    <3>2. ListedKnown
      BY HouseholdAssumption DEF Init, ListedKnown
    <3> QED
      BY <3>1, <3>2 DEF CompleteInv
  <2> QED
    BY <2>1, StructInit
<1>2. TypeOK /\ StructOK /\ CompleteInv /\ [Next]_vars => (TypeOK /\ StructOK /\ CompleteInv)'
  BY StructStep, CompleteStep
<1>3. CompleteInv => ListComplete
  BY DEF CompleteInv, ListComplete, Complete, LastPage
<1> QED
  BY <1>1, <1>2, <1>3, PTL DEF Spec

(* ------------------------------------------------------------------------ *)
(* Buttons without an icon, and the room on the screen.                     *)

Ghost(i) == Live(i) /\ i \notin shown

(* A button that reacts although it has no icon is on a page of a list that *)
(* the list does not fill, where an element behind its end would be drawn   *)
(* (drawNextPage, drawPrevPage).                                            *)
GhostsBehindEnd ==
    crash = "" => \A i \in Slots : Ghost(i) =>
        /\ page \in Lists /\ pc # "room" /\ i \in 3..(PerPage + 2)
        /\ topIndex - PerPage + (i - 3) >= Limit(page)

(* A page that has pager buttons leaves the element before the items free.  *)
GhostInv ==
    /\ GhostsBehindEnd
    /\ crash = "" /\ (\E i \in Slots : buttons[i].event \in Pagers) => buttons[2].event = "none"

LEMMA LimitOf ==
    ASSUME NEW g, UNCHANGED <<bridgeVars, roomVars>>
    PROVE  Limit(g)' = Limit(g)
  BY DEF Limit, bridgeVars, roomVars

LEMMA TwoIsSlot == 2 \in Slots /\ 2 < PerPage + 3
  BY Sizes DEF Slots

(* A page without a list shows all its buttons.                             *)
LEMMA PlainGhosts ==
    ASSUME NEW g \in Pages, NEW n \in 2..6, ShowPlain(g, n)
    PROVE  GhostInv'
<1>1. /\ \A i \in Slots : buttons'[i].event \in {"none", "plain"}
      /\ buttonCount' = n /\ shown' = 0..(n - 1)
  BY ShowPlainDraws DEF ShowPlain
<1>2. ASSUME NEW i \in Slots, i < n PROVE i \in 0..(n - 1)
  BY <1>2, Sizes DEF Slots
<1> QED
  BY <1>1, <1>2 DEF GhostInv, GhostsBehindEnd, Ghost, Live, Pagers

(* So does the first page of a list.                                        *)
LEMMA FirstGhosts ==
    ASSUME BridgeOK, RoomsOK, LightsOK, NEW g \in Lists, ShowList(g)
    PROVE  GhostInv'
<1>1. /\ buttons' = [i \in Slots |-> FirstButton(g, i)]
      /\ buttonCount' = FirstAt(g) + FirstDrawn(g)
      /\ shown' = {0, 1} \cup (IF FirstNext(g) THEN {PerPage + 3} ELSE {})
                    \cup FirstAt(g)..(FirstAt(g) + FirstDrawn(g) - 1)
  BY ShowListIs
<1>2. /\ FirstAt(g) \in 2..(PerPage + 4) /\ FirstDrawn(g) \in Nat
      /\ FirstNext(g) => FirstAt(g) = PerPage + 4
  BY FirstPage
<1>3. ASSUME NEW i \in Slots PROVE ~Ghost(i)'
  <2>1. i \in Nat
    BY Sizes DEF Slots
  <2> SUFFICES ASSUME i \notin shown', i < buttonCount'
               PROVE  buttons'[i].event = "none"
    BY DEF Ghost, Live
  <2>2. i \notin {0, 1} /\ (FirstNext(g) => i # PerPage + 3)
        /\ ~(i >= FirstAt(g) /\ i < FirstAt(g) + FirstDrawn(g))
    <3>1. i \notin {0, 1} /\ (FirstNext(g) => i # PerPage + 3)
          /\ i \notin FirstAt(g)..(FirstAt(g) + FirstDrawn(g) - 1)
      BY <1>1
    <3> QED
      BY <1>2, <2>1, <3>1
  <2>3. ~(i < 2)
    BY <2>1, <2>2
  <2>4. FirstButton(g, i) = Cleared
    BY <2>2, <2>3 DEF FirstButton
  <2> QED
    BY <1>1, <2>4, PlainTypes
<1>4. ASSUME NEW i \in Slots, buttons'[i].event \in Pagers PROVE buttons'[2].event = "none"
  <2>1. FirstNext(g)
    BY <1>1, <1>4, FirstButtons
  <2>2. ~(2 >= FirstAt(g)) /\ 2 # PerPage + 3 /\ ~(2 < 2)
    BY <1>2, <2>1, Sizes
  <2>3. FirstButton(g, 2) = Cleared
    BY <2>2 DEF FirstButton
  <2> QED
    BY <1>1, <2>3, TwoIsSlot, PlainTypes
<1> QED
  BY <1>3, <1>4 DEF GhostInv, GhostsBehindEnd

(* A pager leaves ghosts behind the end of its list only.                   *)
LEMMA TurnGhosts ==
    ASSUME Running, GhostInv, NEW start, PageStart(start), TurnPage(start),
           UNCHANGED <<page, bridgeVars, roomVars, lastBehaviorId, lightIds>>,
           \E i \in Slots : buttons[i].event \in Pagers, pc' # "room"
    PROVE  GhostInv'
<1>1. BridgeOK /\ RoomsOK /\ LightsOK /\ buttons \in [Slots -> Button]
  BY RunningParts DEF ButtonsOK
<1>2. start \in Nat /\ page \in Lists /\ page' = page
  BY DEF PageStart
<1>3. /\ buttons' = [i \in Slots |-> TurnButton(start, i)]
      /\ buttonCount' = TurnCount(start)
      /\ shown' = {0, 1} \cup 3..(2 + TurnDrawn(start)) \cup (PerPage + 3)..(TurnCount(start) - 1)
  BY TurnPageIs
<1>4. /\ TurnDrawn(start) \in 0..PerPage
      /\ NextAt(start) \in (PerPage + 3)..(PerPage + 4)
      /\ TurnCount(start) \in (PerPage + 3)..(PerPage + 5)
  BY <1>1, <1>2, TurnNumbers
<1>5. crash' = "" => topIndex' = start + PerPage
  BY TurnLeads
<1>6. Limit(page)' = Limit(page) /\ Limit(page) \in Nat
  <2>1. Limit(page) \in 0..ListEnd(page) /\ ListEnd(page) \in Nat
    BY <1>1, <1>2, CounterTypes
  <2> QED
    BY <1>2, <2>1, LimitOf
<1>7. buttons'[2].event = "none"
  <2>1. buttons[2].event = "none"
    BY DEF GhostInv, Running
  <2>2. ~(2 >= 3) /\ 2 # PerPage + 3 /\ 2 # NextAt(start)
    BY <1>4, Sizes
  <2>3. TurnButton(start, 2) = buttons[2]
    BY <2>2 DEF TurnButton
  <2> QED
    BY <1>3, <2>1, <2>3, TwoIsSlot
<1>8. ASSUME NEW i \in Slots, i \notin shown', i < buttonCount', buttons'[i].event # "none",
             crash' = ""
      PROVE  i \in 3..(PerPage + 2) /\ topIndex' - PerPage + (i - 3) >= Limit(page)'
  <2>1. i \in Nat /\ PerPage \in Nat /\ PerPage >= 1
    BY Sizes DEF Slots
  <2>2. i # 0 /\ i # 1 /\ i # 2
    BY <1>3, <1>7, <1>8
  <2>3. ~(i \in 3..(2 + TurnDrawn(start))) /\ ~(i \in (PerPage + 3)..(TurnCount(start) - 1))
    BY <1>3, <1>8
  <2>4. i >= 3 + TurnDrawn(start) /\ i < PerPage + 3
    <3> DEFINE d == TurnDrawn(start)
               c == TurnCount(start)
    <3>1. i < c /\ d \in 0..PerPage /\ c \in (PerPage + 3)..(PerPage + 5)
      BY <1>3, <1>4, <1>8
    <3>2. ~(i \in 3..(2 + d)) /\ ~(i \in (PerPage + 3)..(c - 1))
      BY <2>3
    <3> HIDE DEF d, c
    <3>3. i >= 3 + d /\ i < PerPage + 3
      BY <2>1, <2>2, <3>1, <3>2
    <3> QED
      BY <3>3 DEF d
  <2> DEFINE end == start + PerPage
             most == Limit(page)
  <2>5. end \in Nat /\ most \in Nat /\ end - start = PerPage
    BY <1>2, <1>6, <2>1
  <2>6. TurnDrawn(start) = IF most <= start THEN 0 ELSE Least(end, most) - start
    BY DEF TurnDrawn, Drawn
  <2>7. Least(end, most) = IF end <= most THEN end ELSE most
    BY DEF Least
  <2> HIDE DEF end, most
  <2>8. \/ most <= start
        \/ TurnDrawn(start) = end - start
        \/ TurnDrawn(start) = most - start
    BY <2>6, <2>7, Zenon
  <2>9. start + (i - 3) >= most
    <3> DEFINE d == TurnDrawn(start)
    <3>1. d \in 0..PerPage /\ i >= 3 + d /\ i < PerPage + 3
          /\ (most <= start \/ d = end - start \/ d = most - start)
      BY <1>4, <2>4, <2>8
    <3> HIDE DEF d
    <3> QED
      BY <1>2, <2>1, <2>5, <3>1
  <2>10. topIndex' - PerPage = start
    <3>1. topIndex' = start + PerPage
      BY <1>5, <1>8
    <3> QED
      BY <1>2, <2>1, <3>1
  <2>11. most = Limit(page)'
    BY <1>6 DEF most
  <2>12. topIndex' - PerPage + (i - 3) >= Limit(page)'
    BY <2>9, <2>10, <2>11
  <2>13. i >= 3 /\ i <= PerPage + 2
    BY <2>1, <2>2, <2>4
  <2> QED
    BY <2>1, <2>12, <2>13
<1> QED
  BY <1>2, <1>7, <1>8 DEF GhostInv, GhostsBehindEnd, Ghost, Live

(* A step that leaves the buttons and what they stand for as they are.      *)
LEMMA GhostKept ==
    ASSUME GhostInv, crash = "",
           \A i \in Slots : buttons'[i].event = buttons[i].event,
           UNCHANGED <<buttonCount, shown, screenVars, bridgeVars, roomVars>>,
           pc' = "room" => pc = "room"
    PROVE  GhostInv'
<1>1. page' = page /\ topIndex' = topIndex
  BY DEF screenVars
<1>2. Limit(page)' = Limit(page)
  BY <1>1, LimitOf
<1>3. \A i \in Slots : Ghost(i)' <=> Ghost(i)
  BY DEF Ghost, Live
<1>4. GhostsBehindEnd'
  BY <1>1, <1>2, <1>3 DEF GhostInv, GhostsBehindEnd
<1> QED
  BY <1>4, TwoIsSlot DEF GhostInv

LEMMA GhostStep == TypeOK /\ StructOK /\ GhostInv /\ [Next]_vars => GhostInv'
<1> SUFFICES ASSUME TypeOK, StructOK, GhostInv, [Next]_vars PROVE GhostInv'
  OBVIOUS
<1>1. CASE UNCHANGED vars
  <2>1. UNCHANGED <<pc, buttons, buttonCount, shown, screenVars, bridgeVars, roomVars, crash>>
    BY <1>1 DEF vars, touchVars, buttonVars
  <2>2. CASE crash = ""
    BY <2>1, <2>2, GhostKept
  <2>3. CASE crash # ""
    BY <2>1, <2>3 DEF GhostInv, GhostsBehindEnd
  <2> QED
    BY <2>2, <2>3
<1>2. CASE crash = "" /\ Work
  <2>1. Running /\ BridgeOK /\ RoomsOK /\ LightsOK /\ ButtonsOK /\ ItemsOK /\ hit \in Slots
    BY <1>2, RunningParts DEF Running, StructOK, ControlOK
  <2>2. CASE (\E r : LoadRoom(r)) \/ drawLight \/ DialOpensLight \/ fetchData
    <3>1. "HJEM" \in Pages /\ "light" \in Pages /\ "RUM" \in Pages
          /\ 2 \in 2..6 /\ 4 \in 2..6 /\ 5 \in 2..6
      BY DEF Pages, Lists
    <3>2. ShowPlain("HJEM", 4) \/ ShowPlain("light", 5) \/ ShowPlain("RUM", 2)
      BY <2>2 DEF fetchData, DialOpensLight, drawLight, LoadRoom
    <3> QED
      BY <3>1, <3>2, PlainGhosts
  <2>3. CASE \E g \in Pages : OpenPlain(g)
    <3>1. PICK g \in Pages : OpenPlain(g)
      BY <2>3
    <3>2. ShowPlain(g, IF g = "HJEM" THEN 4 ELSE 6)
      BY <3>1 DEF OpenPlain
    <3>3. (IF g = "HJEM" THEN 4 ELSE 6) \in 2..6
      OBVIOUS
    <3> QED
      BY <3>2, <3>3, PlainGhosts
  <2>4. CASE (\E g \in Pages : OpenList(g)) \/ drawRoomLights
    BY <2>1, <2>4, FirstGhosts DEF OpenList, drawRoomLights, Lists
  <2>5. CASE drawNextPage \/ drawPrevPage
    <3>1. PICK start : /\ PageStart(start) /\ TurnPage(start)
                       /\ UNCHANGED <<page, bridgeVars, roomVars, lastBehaviorId, lightIds>>
      BY <2>1, <2>5, NextStart, PrevStart DEF drawNextPage, drawPrevPage
    <3>2. buttons[hit].event \in Pagers /\ pc' # "room"
      BY <2>5 DEF drawNextPage, drawPrevPage, Calls, Pagers, Return
    <3> QED
      BY <2>1, <3>1, <3>2, TurnGhosts
  <2>6. CASE AddLight \/ RemoveLight
    <3>1. PICK v \in BOOLEAN : SetSelected(v)
      BY <2>6 DEF AddLight, RemoveLight
    <3>2. UNCHANGED <<buttonCount, shown, screenVars, bridgeVars, roomVars>> /\ pc' # "room"
      BY <2>6 DEF AddLight, RemoveLight, Return
    <3> QED
      BY <1>2, <2>1, <3>1, <3>2, SetKeeps, GhostKept
  <2>7. CASE \/ \E i \in Slots : Tap(i)
             \/ PressOther \/ CallSelect \/ StartRemoving \/ arrayShift
             \/ CallNothing \/ AddLightWild
    <3>1. UNCHANGED <<buttonVars, screenVars, bridgeVars, roomVars>> /\ (pc' = "room" => pc = "room")
      BY <2>7
      DEF Tap, PressOther, CallSelect, StartRemoving, arrayShift, CallNothing, AddLightWild, Return, touchVars
    <3>2. UNCHANGED <<buttons, buttonCount, shown>>
      BY <3>1 DEF buttonVars
    <3> QED
      BY <1>2, <3>1, <3>2, GhostKept
  <2>8. CASE Storing
    BY <2>8, StoringKeeps DEF GhostInv, GhostsBehindEnd
  <2>9. CASE drawRoom \/ fetchDataWild
    BY <2>1, <2>2, <2>8, <2>9, drawRoomIs DEF Storing
  <2> QED
    BY <1>2, <2>2, <2>3, <2>4, <2>5, <2>6, <2>7, <2>9 DEF Work
<1> QED
  BY <1>1, <1>2 DEF Next, Stopped

(* For any sizes and any household, the buttons that a shorter page leaves  *)
(* over are in the places of elements behind the end of the list, and       *)
(* nowhere else: a page that its list fills has none (drawNextPage,         *)
(* drawPrevPage, drawPaginationButtons).                                    *)
THEOREM GhostsPlaced == Spec => []GhostsBehindEnd
<1>1. Init => TypeOK /\ StructOK /\ GhostInv
  <2>1. Init => GhostInv
    <3> SUFFICES ASSUME Init PROVE GhostInv
      OBVIOUS
    <3>1. \A i \in Slots : buttons[i].event \in {"none", "plain"} /\ (~(i < 2) => buttons[i].event = "none")
      <4>1. buttons = [i \in Slots |-> IF i < 2 THEN Plain ELSE Cleared]
        BY DEF Init
      <4>2. ASSUME NEW i \in Slots
            PROVE  buttons[i].event \in {"none", "plain"} /\ (~(i < 2) => buttons[i].event = "none")
        <5>1. buttons[i] = IF i < 2 THEN Plain ELSE Cleared
          BY <4>1, Zenon
        <5>2. CASE i < 2
          BY <5>1, <5>2, PlainTypes, Zenon
        <5>3. CASE ~(i < 2)
          BY <5>1, <5>3, PlainTypes, Zenon
        <5> QED
          BY <5>2, <5>3, Zenon
      <4> QED
        BY <4>2, Zenon
    <3>2. \A i \in Slots : i < 2 => i \in shown
      <4>1. shown = {0, 1}
        BY DEF Init
      <4>2. ASSUME NEW i \in Slots, i < 2 PROVE i = 0 \/ i = 1
        <5>1. i \in Nat
          BY Sizes DEF Slots
        <5> QED
          BY <4>2, <5>1
      <4> QED
        BY <4>1, <4>2, Zenon
    <3>3. ASSUME NEW i \in Slots PROVE ~Ghost(i)
      <4>1. i \in Nat
        BY Sizes DEF Slots
      <4>2. i < 2 \/ i >= 2
        BY <4>1
      <4> QED
        BY <3>1, <3>2, <4>2 DEF Ghost, Live
    <3> QED
      BY <3>1, <3>3 DEF GhostInv, GhostsBehindEnd, Pagers
  <2> QED
    BY <2>1, StructInit
<1>2. TypeOK /\ StructOK /\ GhostInv /\ [Next]_vars => (TypeOK /\ StructOK /\ GhostInv)'
  BY StructStep, GhostStep
<1>3. GhostInv => GhostsBehindEnd
  BY DEF GhostInv
<1> QED
  BY <1>1, <1>2, <1>3, PTL DEF Spec

(* The room in currentRoom is the one drawn last, or none was loaded and    *)
(* the first of the list was drawn (drawRoom).                              *)
RoomTrue == currentRoom.index = lastRoom \/ (lastRoom = 0 /\ currentRoom = NoRoom)

(* The page of a room shows another room, the empty one, only for the first *)
(* of the list while no other was ever loaded (drawRoom, goBack).           *)
THEOREM RoomSafe == Spec => []RoomTrue
<1>1. Init => RoomTrue
  BY DEF Init, RoomTrue
<1>2. RoomTrue /\ [Next]_vars => RoomTrue'
  <2> SUFFICES ASSUME RoomTrue, [Next]_vars PROVE RoomTrue'
    OBVIOUS
  <2>1. CASE UNCHANGED roomVars
    BY <2>1 DEF roomVars, RoomTrue, NoRoom
  <2>2. ASSUME NEW r, LoadRoom(r) PROVE RoomTrue'
    <3>1. CASE lastRoom # r
      BY <2>2, <3>1 DEF LoadRoom, RoomTrue
    <3>2. CASE lastRoom = r
      BY <2>2, <3>2 DEF LoadRoom, RoomTrue, NoRoom
    <3> QED
      BY <3>1, <3>2
  <2>3. CASE drawRoom
    BY <2>1, <2>2, <2>3 DEF drawRoom, LoadRoomWild
  <2>4. CASE Work
    BY <2>1, <2>3, <2>4
    DEF Work, Tap, CallNothing, PressOther, drawRoomLights, drawLight, OpenPlain, OpenList,
        drawNextPage, drawPrevPage, CallSelect, StartRemoving, AddLight, AddLightWild, arrayShift,
        RemoveLight, fetchData, fetchDataWild, DialOpensLight
  <2> QED
    BY <2>1, <2>4 DEF Next, Stopped, vars
<1> QED
  BY <1>1, <1>2, PTL DEF Spec
=============================================================================
