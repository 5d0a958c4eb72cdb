---------------------------- MODULE LightDialProofs ----------------------------
(***************************************************************************)
(* Theorems about LightDial, for any tables, rooms and widths.             *)
(***************************************************************************)
EXTENDS LightDial, WellFoundedInduction, TLAPS

(* ------------------------------------------------------------------------ *)
(* Numbers and tables.                                                      *)

(* A set of natural numbers that is not empty has a least element. *)
LEMMA LeastNat ==
    ASSUME NEW T, T \subseteq Nat, T # {}
    PROVE  \E x \in T : \A y \in T : x <= y
<1>1. IsWellFoundedOn(OpToRel(<, Nat), Nat)
  BY NatLessThanWellFounded
<1>2. \E x \in T : \A y \in T : ~(<<y, x>> \in OpToRel(<, Nat))
  BY <1>1, WFMin
<1>3. PICK x \in T : \A y \in T : ~(<<y, x>> \in OpToRel(<, Nat))
  BY <1>2
<1>4. ASSUME NEW y \in T PROVE x <= y
  <2>1. <<y, x>> \in Nat \X Nat /\ x \in Nat /\ y \in Nat
    OBVIOUS
  <2>2. y < x => <<y, x>> \in OpToRel(<, Nat)
    BY <2>1 DEF OpToRel
  <2>3. ~(y < x)
    BY <1>3, <2>2
  <2> QED
    BY <2>1, <2>3
<1> QED
  BY <1>4

LEMMA DivBound ==
    ASSUME NEW a \in Nat, NEW d \in Nat \ {0}, NEW k \in Nat, a <= k * d
    PROVE  a \div d \in 0..k
  OBVIOUS

LEMMA ScaleType ==
    /\ MaxBrightness \in Nat /\ MaxBrightness >= 1
    /\ IncrementSize \in Nat /\ IncrementSize >= 1 /\ IncrementSize <= MaxBrightness
    /\ HueGranularity \in Nat /\ HueGranularity >= 1 /\ HueGranularity <= U8 - 2
    /\ TempSteps \in Nat /\ TempSteps >= 1 /\ TempSteps <= U8 - 2
    /\ TempStart \in Nat /\ TempStart <= TempSteps
    /\ U8 \in Nat /\ U8 >= 3 /\ U16 \in Nat /\ U16 > 6500
  BY ScaleAssumption

LEMMA TableType ==
    ASSUME NEW arr, IsTable(arr)
    PROVE  /\ Len(arr) \in Nat /\ Len(arr) >= 2
           /\ \A i \in 1..Len(arr) : arr[i] \in Nat /\ arr[i] <= MaxBrightness
           /\ \A i, j \in 1..Len(arr) : i < j => arr[i] < arr[j]
           /\ arr[1] = 0 /\ arr[Len(arr)] = MaxBrightness
  BY ScaleType DEF IsTable, Brightness

(* Below the top, the next brightness upwards is the least one of the table *)
(* above the target.                                                        *)
LEMMA AboveIs ==
    ASSUME NEW arr, IsTable(arr), NEW b \in Brightness, b < MaxBrightness
    PROVE  /\ Above(arr, b) \in Brightness /\ Above(arr, b) > b
           /\ \A j \in 1..Len(arr) : arr[j] > b => Above(arr, b) <= arr[j]
<1>1. b \in Nat
  BY ScaleType DEF Brightness
<1> DEFINE T == {j \in 1..Len(arr) : arr[j] > b}
<1>2. T \subseteq Nat /\ T # {}
  BY TableType
<1>3. PICK j \in T : \A k \in T : j <= k
  BY <1>2, LeastNat
<1>4. j # 1
  BY <1>1, TableType
<1>5. j - 1 \in 1..(Len(arr) - 1) /\ arr[j - 1] <= b /\ b < arr[(j - 1) + 1]
  <2>1. j \in 1..Len(arr) /\ arr[j] > b
    BY <1>3
  <2>2. j - 1 \in 1..(Len(arr) - 1) /\ (j - 1) + 1 = j
    BY <2>1, <1>4, TableType
  <2>3. j - 1 \notin T
    BY <1>3, <2>1
  <2>4. ~(arr[j - 1] > b)
    BY <2>2, <2>3, TableType
  <2>5. arr[j - 1] \in Nat
    BY <2>2, TableType
  <2> QED
    BY <2>1, <2>2, <2>4, <2>5, <1>1
<1> DEFINE Inside(i) == arr[i] <= b /\ b < arr[i + 1]
<1>6. \E i \in 1..(Len(arr) - 1) : Inside(i)
  BY <1>5
<1>7. PICK i \in 1..(Len(arr) - 1) : Inside(i) /\ Above(arr, b) = arr[1 + i]
  <2> DEFINE c == CHOOSE i \in 1..(Len(arr) - 1) : Inside(i)
  <2>1. c \in 1..(Len(arr) - 1) /\ Inside(c)
    BY <1>6
  <2>2. Above(arr, b) = arr[1 + c]
    BY <1>6 DEF Above
  <2> QED
    BY <2>1, <2>2
<1>8. i \in 1..Len(arr) /\ 1 + i \in 1..Len(arr) /\ 1 + i = i + 1
  BY TableType
<1>9. Above(arr, b) \in Brightness /\ Above(arr, b) > b
  BY <1>1, <1>7, <1>8, TableType, ScaleType DEF Brightness
<1>10. ASSUME NEW k \in 1..Len(arr), arr[k] > b PROVE Above(arr, b) <= arr[k]
  <2>1. CASE k <= i
    <3>1. arr[k] <= arr[i]
      BY <2>1, <1>8, TableType
    <3>2. arr[k] \in Nat /\ arr[i] \in Nat
      BY <1>8, TableType
    <3> QED
      BY <3>1, <3>2, <1>1, <1>7, <1>10
  <2>2. CASE k = 1 + i
    BY <2>2, <1>7, TableType
  <2>3. CASE k > 1 + i
    <3>1. arr[1 + i] < arr[k] /\ arr[1 + i] \in Nat /\ arr[k] \in Nat
      BY <2>3, <1>8, TableType
    <3> QED
      BY <3>1, <1>7
  <2> QED
    BY <2>1, <2>2, <2>3, <1>8
<1> QED
  BY <1>9, <1>10

(* Above zero, the next brightness downwards is the greatest one of the *)
(* table below the target.                                              *)
LEMMA BelowIs ==
    ASSUME NEW arr, IsTable(arr), NEW b \in Brightness, b > 0
    PROVE  /\ Below(arr, b) \in Brightness /\ Below(arr, b) < b
           /\ \A j \in 1..Len(arr) : arr[j] < b => arr[j] <= Below(arr, b)
<1>1. b \in Nat /\ b <= MaxBrightness
  BY ScaleType DEF Brightness
<1> DEFINE T == {j \in 1..Len(arr) : arr[j] >= b}
<1>2. T \subseteq Nat /\ T # {}
  BY <1>1, TableType, ScaleType
<1>3. PICK j \in T : \A k \in T : j <= k
  BY <1>2, LeastNat
<1>4. j # 1
  BY <1>1, TableType
<1>5. j - 1 \in 1..(Len(arr) - 1) /\ arr[j - 1] < b /\ b <= arr[(j - 1) + 1]
  <2>1. j \in 1..Len(arr) /\ arr[j] >= b
    BY <1>3
  <2>2. j - 1 \in 1..(Len(arr) - 1) /\ (j - 1) + 1 = j
    BY <2>1, <1>4, TableType
  <2>3. j - 1 \notin T
    BY <1>3, <2>1
  <2>4. ~(arr[j - 1] >= b)
    BY <2>2, <2>3, TableType
  <2>5. arr[j - 1] \in Nat
    BY <2>2, TableType
  <2> QED
    BY <2>1, <2>2, <2>4, <2>5, <1>1
<1> DEFINE Inside(i) == arr[i] < b /\ b <= arr[i + 1]
<1>6. \E i \in 1..(Len(arr) - 1) : Inside(i)
  BY <1>5
<1>7. PICK i \in 1..(Len(arr) - 1) : Inside(i) /\ Below(arr, b) = arr[i]
  <2> DEFINE c == CHOOSE i \in 1..(Len(arr) - 1) : Inside(i)
  <2>1. c \in 1..(Len(arr) - 1) /\ Inside(c)
    BY <1>6
  <2>2. Below(arr, b) = arr[c]
    BY <1>6 DEF Below
  <2> QED
    BY <2>1, <2>2
<1>8. i \in 1..Len(arr) /\ i + 1 \in 1..Len(arr)
  BY TableType
<1>9. Below(arr, b) \in Brightness /\ Below(arr, b) < b
  BY <1>1, <1>7, <1>8, TableType, ScaleType DEF Brightness
<1>10. ASSUME NEW k \in 1..Len(arr), arr[k] < b PROVE arr[k] <= Below(arr, b)
  <2>1. CASE k > i
    <3>1. arr[i + 1] <= arr[k]
      BY <2>1, <1>8, TableType
    <3>2. arr[k] \in Nat /\ arr[i + 1] \in Nat
      BY <1>8, TableType
    <3> QED
      BY <3>1, <3>2, <1>1, <1>7, <1>10
  <2>2. CASE k = i
    BY <2>2, <1>7, TableType
  <2>3. CASE k < i
    <3>1. arr[k] < arr[i] /\ arr[i] \in Nat /\ arr[k] \in Nat
      BY <2>3, <1>8, TableType
    <3> QED
      BY <3>1, <1>7
  <2> QED
    BY <2>1, <2>2, <2>3, <1>8
<1> QED
  BY <1>9, <1>10

(* At the top nothing is above, at zero nothing is below. *)
LEMMA AboveTop ==
    ASSUME NEW arr, IsTable(arr)
    PROVE  Above(arr, MaxBrightness) = 0
<1>1. ~\E i \in 1..(Len(arr) - 1) : arr[i] <= MaxBrightness /\ MaxBrightness < arr[i + 1]
  BY TableType, ScaleType
<1> QED
  BY <1>1 DEF Above

LEMMA BelowZero ==
    ASSUME NEW arr, IsTable(arr)
    PROVE  Below(arr, 0) = 0
<1>1. ~\E i \in 1..(Len(arr) - 1) : arr[i] < 0 /\ 0 <= arr[i + 1]
  BY TableType
<1> QED
  BY <1>1 DEF Below

(* The two directions, by name. *)
Brighter(b) == calcBrightness(b, TRUE)
Darker(b) == calcBrightness(b, FALSE)

(* calcBrightness stays on the scale and changes the brightness until an end. *)
LEMMA CalcUp ==
    ASSUME NEW b \in Brightness
    PROVE  /\ Brighter(b) \in Brightness /\ b <= Brighter(b)
           /\ b < Brighter(b) \/ b = MaxBrightness
<1>1. b \in Nat /\ b <= MaxBrightness /\ MaxBrightness \in Brightness
  BY ScaleType DEF Brightness
<1>2. CASE b = MaxBrightness
  <2>1. Brighter(b) = MaxBrightness
    BY <1>2, AboveTop, ScaleAssumption DEF Brighter, Darker, calcBrightness
  <2> QED
    BY <1>1, <1>2, <2>1
<1>3. CASE b < MaxBrightness
  <2>1. Above(IncArr, b) \in Brightness /\ Above(IncArr, b) > b
    BY <1>3, AboveIs, ScaleAssumption
  <2>2. Above(IncArr, b) # 0
    BY <1>1, <2>1
  <2>3. Brighter(b) = Above(IncArr, b)
    BY <2>2 DEF Brighter, Darker, calcBrightness
  <2> QED
    BY <1>1, <2>1, <2>3 DEF Brightness
<1> QED
  BY <1>1, <1>2, <1>3

LEMMA CalcDown ==
    ASSUME NEW b \in Brightness
    PROVE  /\ Darker(b) \in Brightness /\ Darker(b) <= b
           /\ Darker(b) < b \/ b = 0
<1>1. b \in Nat /\ 0 \in Brightness
  BY ScaleType DEF Brightness
<1>2. Darker(b) = Below(DecArr, b)
  BY DEF Brighter, Darker, calcBrightness
<1>3. CASE b = 0
  BY <1>1, <1>2, <1>3, BelowZero, ScaleAssumption
<1>4. CASE b > 0
  <2>1. Below(DecArr, b) \in Brightness /\ Below(DecArr, b) < b
    BY <1>4, BelowIs, ScaleAssumption
  <2> QED
    BY <1>1, <1>2, <2>1 DEF Brightness
<1> QED
  BY <1>1, <1>3, <1>4

(* A brighter start ends at least as bright. *)
LEMMA CalcUpMonotone ==
    ASSUME NEW b \in Brightness, NEW c \in Brightness, b <= c
    PROVE  Brighter(b) <= Brighter(c)
<1>1. /\ b \in Nat /\ c \in Nat /\ c <= MaxBrightness /\ MaxBrightness \in Nat
  BY ScaleType DEF Brightness
<1>2. /\ Brighter(b) \in Nat /\ Brighter(b) <= MaxBrightness
      /\ Brighter(c) \in Nat /\ c <= Brighter(c)
  BY CalcUp DEF Brightness
<1>3. CASE c = MaxBrightness
  BY <1>1, <1>2, <1>3
<1>4. CASE c < MaxBrightness
  <2>1. /\ Above(IncArr, c) \in Brightness /\ Above(IncArr, c) > c
        /\ Above(IncArr, b) \in Brightness /\ Above(IncArr, b) > b
        /\ \A j \in 1..Len(IncArr) : IncArr[j] > b => Above(IncArr, b) <= IncArr[j]
    BY <1>1, <1>4, AboveIs, ScaleAssumption
  <2>2. /\ Brighter(b) = Above(IncArr, b)
        /\ Brighter(c) = Above(IncArr, c)
    BY <1>1, <2>1 DEF Brighter, Darker, calcBrightness, Brightness
  <2>3. PICK j \in 1..Len(IncArr) : Above(IncArr, c) = IncArr[j]
    <3>1. Above(IncArr, c) # 0
      BY <1>1, <2>1
    <3>2. \E i \in 1..(Len(IncArr) - 1) : IncArr[i] <= c /\ c < IncArr[i + 1]
      BY <3>1 DEF Above
    <3> DEFINE i == CHOOSE i \in 1..(Len(IncArr) - 1) : IncArr[i] <= c /\ c < IncArr[i + 1]
    <3>3. i \in 1..(Len(IncArr) - 1)
      BY <3>2
    <3>4. Above(IncArr, c) = IncArr[1 + i]
      BY <3>2 DEF Above
    <3>5. 1 + i \in 1..Len(IncArr)
      BY <3>3, TableType, ScaleAssumption
    <3> QED
      BY <3>4, <3>5
  <2>4. IncArr[j] > b
    BY <1>1, <2>1, <2>3 DEF Brightness
  <2> QED
    BY <2>1, <2>2, <2>3, <2>4
<1> QED
  BY <1>1, <1>3, <1>4

(* A darker start ends at most as bright. *)
LEMMA CalcDownMonotone ==
    ASSUME NEW b \in Brightness, NEW c \in Brightness, b <= c
    PROVE  Darker(b) <= Darker(c)
<1>1. b \in Nat /\ c \in Nat
  BY ScaleType DEF Brightness
<1>2. /\ Darker(b) = Below(DecArr, b) /\ Darker(c) = Below(DecArr, c)
      /\ Below(DecArr, b) \in Nat /\ Below(DecArr, c) \in Nat
  BY CalcDown DEF Brighter, Darker, calcBrightness, Brightness
<1>3. CASE Below(DecArr, b) = 0
  BY <1>2, <1>3
<1>4. CASE Below(DecArr, b) # 0
  <2>1. b > 0
    BY <1>1, <1>4, BelowZero, ScaleAssumption
  <2>2. /\ Below(DecArr, b) < b
        /\ \A j \in 1..Len(DecArr) : DecArr[j] < c => DecArr[j] <= Below(DecArr, c)
    BY <1>1, <2>1, BelowIs, ScaleAssumption
  <2>3. PICK j \in 1..Len(DecArr) : Below(DecArr, b) = DecArr[j]
    <3>1. \E i \in 1..(Len(DecArr) - 1) : DecArr[i] < b /\ b <= DecArr[i + 1]
      BY <1>4 DEF Below
    <3> DEFINE i == CHOOSE i \in 1..(Len(DecArr) - 1) : DecArr[i] < b /\ b <= DecArr[i + 1]
    <3>2. i \in 1..(Len(DecArr) - 1)
      BY <3>1
    <3>3. Below(DecArr, b) = DecArr[i]
      BY <3>1 DEF Below
    <3>4. i \in 1..Len(DecArr)
      BY <3>2, TableType, ScaleAssumption
    <3> QED
      BY <3>3, <3>4
  <2>4. DecArr[j] < c
    BY <1>1, <1>2, <2>2, <2>3
  <2> QED
    BY <1>2, <2>2, <2>3, <2>4
<1> QED
  BY <1>3, <1>4

LEMMA TurnType ==
    ASSUME NEW b \in Brightness, NEW increase \in BOOLEAN
    PROVE  turnBrightness(b, increase) \in Brightness
  BY ScaleType DEF turnBrightness, Brightness

LEMMA CountersType ==
    ASSUME NEW c \in 0..(U8 - 1), NEW increase \in BOOLEAN
    PROVE  turnHue(c, increase) \in 0..(U8 - 1) /\ turnTemp(c, increase) \in 0..(U8 - 1)
  BY ScaleType DEF turnHue, turnTemp

LEMMA CalcType ==
    ASSUME NEW b \in Brightness, NEW increase \in BOOLEAN
    PROVE  calcBrightness(b, increase) \in Brightness
<1>1. CASE increase = TRUE
  BY <1>1, CalcUp DEF Brighter
<1>2. CASE increase = FALSE
  BY <1>2, CalcDown DEF Darker
<1> QED
  BY <1>1, <1>2

(* ------------------------------------------------------------------------ *)
(* Rooms.                                                                   *)

LEMMA RoomType ==
    ASSUME NEW r \in Rooms \cup {NoRoom}
    PROVE  /\ LightsOf(r) \in Seq(Nat \ {Nothing}) /\ Len(LightsOf(r)) \in Nat
           /\ \A i \in 1..Len(LightsOf(r)) : LightsOf(r)[i] \in Lights /\ LightsOf(r)[i] # Nothing
<1>1. CASE r = NoRoom
  BY <1>1 DEF LightsOf
<1>2. CASE r \in Rooms
  <2>1. LightsOf(r) = RoomLights[r] /\ RoomLights[r] \in Seq(Nat \ {Nothing})
    BY <1>2, RoomAssumption DEF LightsOf
  <2>2. ASSUME NEW i \in 1..Len(RoomLights[r])
        PROVE  RoomLights[r][i] \in Lights /\ RoomLights[r][i] # Nothing
    <3>1. i \in DOMAIN RoomLights[r] /\ RoomLights[r][i] \in Nat \ {Nothing}
      BY <2>1
    <3>2. RoomLights[r][i] \in {RoomLights[r][k] : k \in DOMAIN RoomLights[r]}
      BY <3>1
    <3> QED
      BY <1>2, <3>1, <3>2 DEF Lights
  <2> QED
    BY <2>1, <2>2
<1> QED
  BY <1>1, <1>2

LEMMA CounterType ==
    ASSUME currentRoom \in Rooms \cup {NoRoom}
    PROVE  /\ lightCounter \in Nat
           /\ \A i \in Nat : lightIds(i) \in Lights \cup {Nothing}
           /\ \A i \in Nat : i < lightCounter => lightIds(i) # Nothing
<1>1. lightCounter = Len(LightsOf(currentRoom)) /\ lightCounter \in Nat
  BY RoomType DEF lightCounter
<1>2. ASSUME NEW i \in Nat, i < lightCounter
      PROVE  lightIds(i) \in Lights /\ lightIds(i) # Nothing
  <2>1. i + 1 \in 1..Len(LightsOf(currentRoom)) /\ lightIds(i) = LightsOf(currentRoom)[i + 1]
    BY <1>1, <1>2 DEF lightIds
  <2> QED
    BY <2>1, RoomType
<1>3. ASSUME NEW i \in Nat, ~(i < lightCounter)
      PROVE  lightIds(i) = Nothing
  BY <1>3 DEF lightIds
<1> QED
  BY <1>1, <1>2, <1>3

(* The counter of the lights never passes the element for the room. *)
LEMMA TurnCounterRange ==
    ASSUME currentRoom \in Rooms \cup {NoRoom}, NEW c \in Nat, NEW increase \in BOOLEAN
    PROVE  turnCounter(c, increase) \in 0..lightCounter
<1>1. lightCounter \in Nat
  BY CounterType
<1>2. (IF increase THEN c + 1 ELSE (c + U8 - 1) % U8) \in Nat
  BY ScaleType
<1> QED
  BY <1>1, <1>2 DEF turnCounter

(* ------------------------------------------------------------------------ *)
(* Types: a room that is opened is one of the rooms.                        *)

Light == [id : Lights \cup {Nothing}, on : BOOLEAN, brightness : Brightness]

PlaceType ==
    /\ screen \in {"HOME", "ROOM", "LIGHT"}
    /\ touch \in {"idle", "room", "load", "light", "switch"}
    /\ target \in Rooms \cup {Nothing, 1} /\ (touch = "room" => target \in Rooms)
    /\ currentRoom \in Rooms \cup {NoRoom} /\ loaded \in Rooms \cup {NoRoom}
FlagType ==
    /\ shownOn \in BOOLEAN /\ RGBMode \in BOOLEAN /\ dialTurned \in BOOLEAN
    /\ reads \in BOOLEAN /\ missed \in BOOLEAN /\ moved \in BOOLEAN /\ under \in BOOLEAN /\ mixed \in BOOLEAN
DialType ==
    /\ at \in {"loop", "choose", "flash", "toggle", "room", "adjust", "switch", "sample"}
    /\ counter \in Nat /\ chosen \in Lights \cup {Nothing} /\ lightId \in Lights \cup {Nothing}
CounterTypes ==
    /\ lightBrightness \in Brightness
    /\ hueCounter \in 0..(U8 - 1) /\ tempCounter \in 0..(U8 - 1)
TypeInv == PlaceType /\ currentLight \in Light /\ FlagType /\ DialType /\ CounterTypes

LEMMA TypeParts == TypeInv => TypeOK
  BY DEF TypeInv, PlaceType, Light, FlagType, DialType, CounterTypes, TypeOK

LEMMA NotBoolean ==
    ASSUME NEW b \in BOOLEAN
    PROVE  (~b) \in BOOLEAN
  OBVIOUS

LEMMA TypeInit == Init => TypeInv
<1> SUFFICES ASSUME Init PROVE TypeInv
  OBVIOUS
<1>1. 0 \in Brightness /\ TempStart \in 0..(U8 - 1) /\ 0 \in 0..(U8 - 1)
  BY ScaleType DEF Brightness
<1>2. currentLight \in Light
  BY <1>1 DEF Init, Light, NoLight
<1> QED
  BY <1>1, <1>2 DEF Init, TypeInv, PlaceType, FlagType, DialType, CounterTypes, Nothing

LEMMA ReportedType ==
    ASSUME NEW l \in Lights, NEW c \in Reported(l)
    PROVE  /\ c \in Light
           /\ c.id = l
  BY DEF Reported, Light

(* drawLight takes the light it is called for, or leaves currentLight. *)
LEMMA DrawnType ==
    ASSUME currentLight \in Light, NEW l \in Lights \cup {Nothing}, NEW c \in Drawn(l)
    PROVE  /\ c \in Light
           /\ c.id = l \/ c = currentLight
<1>1. 0 \in Brightness
  BY ScaleType DEF Brightness
<1>2. NoLight \in Light /\ NoLight.id = Nothing
  BY <1>1 DEF NoLight, Light
<1>3. CASE l = Nothing
  BY <1>2, <1>3 DEF Drawn
<1>4. CASE l \in Lights /\ l # Nothing
  BY <1>4, ReportedType DEF Drawn
<1> QED
  BY <1>3, <1>4

LEMMA LeaveType ==
    ASSUME TypeInv, Leave
    PROVE  TypeInv'
<1>1. 0 \in Brightness /\ 0 \in 0..(U8 - 1)
  BY ScaleType DEF Brightness
<1>2. /\ screen' = screen /\ touch' = touch /\ target' = target /\ currentRoom' = currentRoom
      /\ loaded' = loaded /\ currentLight' = currentLight /\ shownOn' = shownOn
      /\ RGBMode' = RGBMode /\ reads' = reads /\ moved' = moved /\ under' = under
      /\ mixed' = mixed
  BY DEF Leave, screenVars, lightVars, touchVars
<1>3. /\ at' = "loop" /\ counter' = 0 /\ chosen' = Nothing /\ dialTurned' = FALSE
      /\ missed' = FALSE /\ lightId' = Nothing /\ lightBrightness' = 0 /\ hueCounter' = 0 /\ tempCounter' = 0
  BY DEF Leave
<1>4. PlaceType' /\ currentLight' \in Light
  BY <1>2 DEF TypeInv, PlaceType
<1>5. FlagType'
  BY <1>2, <1>3 DEF TypeInv, FlagType
<1>6. DialType' /\ CounterTypes'
  BY <1>1, <1>3 DEF DialType, CounterTypes
<1> QED
  BY <1>4, <1>5, <1>6 DEF TypeInv

LEMMA TypeTouch ==
    ASSUME TypeInv, Touch
    PROVE  TypeInv'
<1> USE DEF TypeInv, PlaceType, Light, FlagType, DialType, CounterTypes, lightVars, dialVars, chooseVars, adjustVars, touchVars
<1>1. ASSUME NEW r \in Rooms, TapRoom(r) PROVE TypeInv'
  BY <1>1 DEF TapRoom
<1>2. ASSUME NEW l \in Lights, TapLight(l) PROVE TypeInv'
  <2>1. currentLight' \in Light
    BY <1>2, DrawnType DEF TapLight
  <2>2. moved' \in BOOLEAN
    BY <1>2, Zenon DEF TapLight, Looping
  <2> QED
    BY <1>2, <2>1, <2>2 DEF TapLight
<1>3. ASSUME ReplaceRoom PROVE TypeInv'
  <2>1. moved' \in BOOLEAN
    BY <1>3, Zenon DEF ReplaceRoom, Looping
  <2> QED
    BY <1>3, <2>1 DEF ReplaceRoom
<1>4. ASSUME LoadLights PROVE TypeInv'
  BY <1>4 DEF LoadLights
<1>5. ASSUME ShowLight PROVE TypeInv'
  <2>1. mixed' = TRUE \/ mixed' = FALSE
    BY <1>5 DEF ShowLight
  <2> QED
    BY <1>5, <2>1 DEF ShowLight
<1>6. ASSUME TapBack PROVE TypeInv'
  BY <1>6 DEF TapBack
<1>10. ASSUME BackToLight PROVE TypeInv'
  <2>1. currentLight' \in Light
    BY <1>10, DrawnType DEF BackToLight
  <2>2. moved' \in BOOLEAN
    BY <1>10, Zenon DEF BackToLight, Looping
  <2> QED
    BY <1>10, <2>1, <2>2 DEF BackToLight
<1>7. ASSUME TapMode PROVE TypeInv'
  BY <1>7 DEF TapMode
<1>8. ASSUME TapSwitch PROVE TypeInv'
  <2>1. mixed' \in BOOLEAN
    BY <1>8, Zenon DEF TapSwitch
  <2>2. shownOn' \in BOOLEAN
    BY <1>8, Zenon DEF TapSwitch
  <2> QED
    BY <1>8, <2>1, <2>2 DEF TapSwitch
<1>9. ASSUME TapSwitched PROVE TypeInv'
  <2>1. (target = Nothing) \in BOOLEAN
    BY Zenon
  <2>2. PlaceType' /\ currentLight' \in Light
    BY <1>9, <2>1 DEF TapSwitched
  <2>3. FlagType'
    BY <1>9, <2>1 DEF TapSwitched
  <2>4. DialType' /\ CounterTypes'
    BY <1>9, <2>1 DEF TapSwitched
  <2> QED
    BY <2>2, <2>3, <2>4
<1> QED
  BY <1>1, <1>2, <1>3, <1>4, <1>5, <1>6, <1>7, <1>8, <1>9, <1>10 DEF Touch

LEMMA TypeDial ==
    ASSUME TypeInv, Returns \/ Inputs
    PROVE  TypeInv'
<1> USE DEF TypeInv, PlaceType, Light, FlagType, DialType, CounterTypes, screenVars, lightVars, chooseVars, adjustVars, touchVars
<1>1. ASSUME Enter PROVE TypeInv'
  <2>1. lightCounter \in Nat /\ 0 \in 0..(U8 - 1) /\ TempStart \in 0..(U8 - 1)
    BY CounterType, ScaleType
  <2>2. PlaceType' /\ currentLight' \in Light
    BY <1>1, <2>1 DEF Enter
  <2>3. FlagType'
    BY <1>1, <2>1 DEF Enter
  <2>4. DialType' /\ CounterTypes'
    BY <1>1, <2>1 DEF Enter
  <2> QED
    BY <2>2, <2>3, <2>4
<1>2. ASSUME Leave PROVE TypeInv'
  BY <1>2, LeaveType
<1>3. ASSUME Flashed PROVE TypeInv'
  <2>1. chosen' \in Lights \cup {Nothing}
    BY <1>3, CounterType DEF Flashed
  <2>2. currentLight' \in Light
    BY <1>3, <2>1, ReportedType DEF Flashed
  <2>3. missed' \in BOOLEAN
    BY <1>3, Zenon DEF Flashed
  <2>4. PlaceType' /\ DialType' /\ CounterTypes'
    BY <1>3, <2>1 DEF Flashed
  <2>5. FlagType'
    BY <1>3, <2>3 DEF Flashed
  <2> QED
    BY <2>2, <2>4, <2>5
<1>4. ASSUME Toggle PROVE TypeInv'
  <2>1. (~currentLight.on) \in BOOLEAN
    BY NotBoolean
  <2>2. PlaceType' /\ currentLight' \in Light
    BY <1>4, <2>1 DEF Toggle
  <2>3. FlagType'
    BY <1>4, <2>1 DEF Toggle
  <2>4. DialType' /\ CounterTypes'
    BY <1>4, <2>1 DEF Toggle
  <2> QED
    BY <2>2, <2>3, <2>4
<1>5. ASSUME Idle PROVE TypeInv'
  BY <1>5 DEF Idle
<1>6. ASSUME AdjustSwitched PROVE TypeInv'
  <2>1. (~reads) \in BOOLEAN
    BY NotBoolean
  <2>2. PlaceType' /\ currentLight' \in Light
    BY <1>6, <2>1 DEF AdjustSwitched
  <2>3. FlagType'
    BY <1>6, <2>1 DEF AdjustSwitched
  <2>4. DialType' /\ CounterTypes'
    BY <1>6, <2>1 DEF AdjustSwitched
  <2> QED
    BY <2>2, <2>3, <2>4
<1>7. ASSUME Sample PROVE TypeInv'
  BY <1>2, <1>7 DEF Sample
<1>8. ASSUME Forget PROVE TypeInv'
  <2>1. PlaceType' /\ currentLight' \in Light
    BY <1>8 DEF Forget
  <2>2. FlagType'
    BY <1>8 DEF Forget
  <2>3. DialType' /\ CounterTypes'
    BY <1>8 DEF Forget
  <2> QED
    BY <2>1, <2>2, <2>3
<1>9. ASSUME Press PROVE TypeInv'
  <2>1. currentLight' \in Light
    BY <1>9, DrawnType DEF Press
  <2>2. missed' \in BOOLEAN
    BY <1>9, Zenon DEF Press
  <2>3. shownOn' \in BOOLEAN /\ mixed' \in BOOLEAN /\ screen' \in {"HOME", "ROOM", "LIGHT"}
    BY <1>9, <2>1 DEF Press
  <2>4. PlaceType' /\ DialType' /\ CounterTypes'
    BY <1>9, <2>3 DEF Press
  <2>5. FlagType'
    BY <1>9, <2>2, <2>3 DEF Press
  <2> QED
    BY <2>1, <2>4, <2>5
<1>10. ASSUME AdjustSwitch PROVE TypeInv'
  <2>1. mixed' \in BOOLEAN /\ shownOn' \in BOOLEAN
    BY <1>10, Zenon DEF AdjustSwitch
  <2> QED
    BY <1>10, <2>1 DEF AdjustSwitch
<1>11. ASSUME NEW increase \in BOOLEAN, Turn(increase) PROVE TypeInv'
  <2>1. counter' \in Nat
    BY <1>11, TurnCounterRange, CounterType DEF Turn
  <2>2. PlaceType' /\ currentLight' \in Light
    BY <1>11 DEF Turn
  <2>3. FlagType'
    BY <1>11 DEF Turn
  <2>4. DialType' /\ CounterTypes'
    BY <1>11, <2>1 DEF Turn
  <2> QED
    BY <2>2, <2>3, <2>4
<1>12. ASSUME NEW increase \in BOOLEAN, ChosenBrightness(increase) PROVE TypeInv'
  <2>1. calcBrightness(currentLight.brightness, increase) \in Brightness
    BY CalcType
  <2> QED
    BY <1>12, <2>1 DEF ChosenBrightness, dialVars
<1>13. ASSUME NEW increase \in BOOLEAN, AdjustBrightness(increase) PROVE TypeInv'
  <2>1. lightBrightness' \in Brightness
    BY <1>13, TurnType DEF AdjustBrightness
  <2>2. calcBrightness(lightBrightness', increase) \in Brightness
    BY <2>1, CalcType
  <2> QED
    BY <1>13, <2>1, <2>2 DEF AdjustBrightness
<1>14. ASSUME NEW increase \in BOOLEAN, AdjustHue(increase) \/ AdjustTemp(increase) PROVE TypeInv'
  <2>1. hueCounter' \in 0..(U8 - 1) /\ tempCounter' \in 0..(U8 - 1)
    BY <1>14, CountersType DEF AdjustHue, AdjustTemp
  <2>2. under' \in BOOLEAN
    BY <1>14, Zenon DEF AdjustHue, AdjustTemp
  <2> QED
    BY <1>14, <2>1, <2>2 DEF AdjustHue, AdjustTemp
<1> QED
  BY <1>1, <1>2, <1>3, <1>4, <1>5, <1>6, <1>7, <1>8, <1>9, <1>10, <1>11, <1>12, <1>13, <1>14
  DEF Returns, Inputs, LeaveChoose, LeaveRoom

LEMMA TypeStep ==
    ASSUME TypeInv, [Next]_vars
    PROVE  TypeInv'
<1>1. CASE UNCHANGED vars
  BY <1>1 DEF TypeInv, PlaceType, FlagType, DialType, CounterTypes, vars, touchVars, lightVars, dialVars, chooseVars, adjustVars
<1> QED
  BY <1>1, TypeTouch, TypeDial DEF Next

LEMMA TypeInvHolds == Spec => []TypeInv
  BY TypeInit, TypeStep, PTL DEF Spec

(* Every variable keeps its type, whatever the tables and the rooms are:    *)
(* no turn leaves the scale of the brightness (turnBrightness,              *)
(* calcBrightness), and no chosen element lies outside the lights.          *)
THEOREM TypeCorrect == Spec => []TypeOK
  BY TypeParts, TypeInvHolds, PTL

(* ------------------------------------------------------------------------ *)
(* What the dial acts on while it chooses.                                  *)

ChosenInv ==
    ~moved =>
        /\ at \in {"choose", "toggle"} =>
              /\ counter <= lightCounter
              /\ counter # lightCounter =>
                    /\ chosen = lightIds(counter) /\ chosen # Nothing
                    /\ currentLight.id = chosen \/ missed
        /\ at = "flash" => counter < lightCounter

LEMMA ChosenStep ==
    ASSUME TypeInv, ChosenInv, [Next]_vars
    PROVE  ChosenInv'
<1> USE DEF dialVars, chooseVars, adjustVars, screenVars, touchVars, lightVars
<1> DEFINE Kept ==
      /\ at' = at /\ counter' = counter /\ chosen' = chosen /\ currentRoom' = currentRoom
      /\ currentLight'.id = currentLight.id /\ missed' = missed /\ moved' = moved
<1>1. ASSUME Kept PROVE ChosenInv'
  <2>1. lightCounter' = lightCounter /\ lightIds(counter)' = lightIds(counter)
    BY <1>1 DEF lightCounter, lightIds
  <2> QED
    BY <1>1, <2>1 DEF ChosenInv
<1>2. ASSUME at' \notin {"choose", "toggle", "flash"} PROVE ChosenInv'
  BY <1>2 DEF ChosenInv
<1>3. ASSUME moved' = TRUE PROVE ChosenInv'
  BY <1>3 DEF ChosenInv
<1>4. ASSUME NEW c, currentLight' = [currentLight EXCEPT !.on = c] PROVE currentLight'.id = currentLight.id
  BY <1>4 DEF TypeInv, Light
<1>5. CASE UNCHANGED vars
  BY <1>1, <1>5 DEF vars
<1>6. ASSUME NEW r \in Rooms, TapRoom(r) PROVE ChosenInv'
  BY <1>1, <1>6 DEF TapRoom
<1>7. ASSUME at' = at, moved' = (moved \/ Looping) PROVE ChosenInv'
  <2>1. CASE at = "loop"
    BY <1>2, <1>7, <2>1
  <2>2. CASE at # "loop"
    BY <2>2, <1>3, <1>7, Zenon DEF Looping
  <2> QED
    BY <2>1, <2>2
<1>8. ASSUME (\E l \in Lights : TapLight(l)) \/ BackToLight PROVE ChosenInv'
  BY <1>7, <1>8 DEF TapLight, BackToLight
<1>9. ASSUME ReplaceRoom PROVE ChosenInv'
  <2>1. CASE currentRoom' = currentRoom
    <3>1. moved' <=> moved
      BY <1>9, <2>1, Zenon DEF ReplaceRoom
    <3> QED
      BY <1>1, <1>9, <2>1, <3>1 DEF ReplaceRoom, TypeInv, FlagType
  <2>2. CASE currentRoom' # currentRoom
    <3>1. moved' <=> moved \/ Looping
      BY <1>9, <2>2, Zenon DEF ReplaceRoom
    <3> QED
      BY <1>7, <1>9, <3>1 DEF ReplaceRoom
  <2> QED
    BY <2>1, <2>2
<1>10. ASSUME LoadLights \/ ShowLight \/ TapBack \/ TapMode \/ TapSwitch PROVE ChosenInv'
  BY <1>1, <1>10 DEF LoadLights, ShowLight, TapBack, TapMode, TapSwitch
<1>11. ASSUME TapSwitched PROVE ChosenInv'
  BY <1>1, <1>4, <1>11 DEF TapSwitched
<1>12. ASSUME Enter PROVE ChosenInv'
  <2>1. CASE screen = "HOME"
    <3>1. counter' = lightCounter /\ lightCounter' = lightCounter /\ at' = "choose"
      BY <1>12, <2>1 DEF Enter, lightCounter
    <3>2. lightCounter \in Nat
      BY CounterType DEF TypeInv, PlaceType
    <3> QED
      BY <3>1, <3>2 DEF ChosenInv
  <2>2. CASE screen # "HOME"
    BY <1>2, <1>12, <2>2 DEF Enter
  <2> QED
    BY <2>1, <2>2
<1>13. ASSUME Leave PROVE ChosenInv'
  BY <1>2, <1>13 DEF Leave
<1>14. ASSUME NEW increase \in BOOLEAN, Turn(increase) PROVE ChosenInv'
  <2>1. /\ lightCounter' = lightCounter /\ lightCounter \in Nat
        /\ counter' \in 0..lightCounter
    BY <1>14, CounterType, TurnCounterRange DEF Turn, TypeInv, PlaceType, DialType, lightCounter
  <2>2. /\ at' \in {"choose", "flash"}
        /\ at' = "choose" => counter' = lightCounter
        /\ at' = "flash" => counter' # lightCounter
    BY <1>14 DEF Turn
  <2> QED
    BY <2>1, <2>2 DEF ChosenInv
<1>15. ASSUME Flashed PROVE ChosenInv'
  <2>1. /\ at = "flash" /\ at' = "choose" /\ counter' = counter /\ moved' = moved
        /\ lightCounter' = lightCounter /\ lightIds(counter)' = lightIds(counter)
        /\ chosen' = lightIds(counter)
    BY <1>15 DEF Flashed, lightCounter, lightIds
  <2>2. CASE moved
    BY <2>1, <2>2 DEF ChosenInv
  <2>3. CASE ~moved
    <3>1. counter \in Nat /\ lightCounter \in Nat /\ counter < lightCounter
      BY <2>1, <2>3, CounterType DEF ChosenInv, TypeInv, PlaceType, DialType
    <3>2. chosen' \in Lights /\ chosen' # Nothing
      BY <2>1, <3>1, CounterType DEF TypeInv, PlaceType
    <3>3. currentLight'.id = chosen' \/ missed'
      BY <1>15, <3>2, ReportedType DEF Flashed
    <3> QED
      BY <2>1, <3>1, <3>2, <3>3 DEF ChosenInv
  <2> QED
    BY <2>2, <2>3
<1>16. ASSUME Forget PROVE ChosenInv'
  BY <1>1, <1>16 DEF Forget
<1>17. ASSUME Press PROVE ChosenInv'
  <2>1. /\ at = "choose" /\ at' = "toggle" /\ counter' = counter /\ chosen' = chosen
        /\ moved' = moved /\ lightCounter' = lightCounter
        /\ lightIds(counter)' = lightIds(counter)
    BY <1>17 DEF Press, Choosing, lightCounter, lightIds
  <2>2. currentLight'.id = chosen \/ (currentLight' = currentLight /\ missed' = missed)
    <3>1. CASE dialTurned /\ counter # lightCounter
      <4>1. currentLight' \in Drawn(chosen) /\ missed' = (missed /\ currentLight' = currentLight)
        BY <1>17, <3>1 DEF Press
      <4>2. currentLight'.id = chosen \/ currentLight' = currentLight
        BY <4>1, DrawnType DEF TypeInv, DialType
      <4> QED
        BY <4>1, <4>2 DEF TypeInv, FlagType
    <3>2. CASE ~(dialTurned /\ counter # lightCounter)
      BY <1>17, <3>2 DEF Press
    <3> QED
      BY <3>1, <3>2
  <2> QED
    BY <2>1, <2>2 DEF ChosenInv
<1>18. ASSUME Toggle PROVE ChosenInv'
  <2>1. /\ at = "toggle" /\ at' = "choose" /\ counter' = counter /\ chosen' = chosen
        /\ moved' = moved /\ missed' = missed /\ lightCounter' = lightCounter
        /\ lightIds(counter)' = lightIds(counter)
    BY <1>18 DEF Toggle, lightCounter, lightIds
  <2>2. currentLight'.id = currentLight.id
    BY <1>4, <1>18 DEF Toggle
  <2> QED
    BY <2>1, <2>2 DEF ChosenInv
<1>19. ASSUME NEW increase \in BOOLEAN, ChosenBrightness(increase) PROVE ChosenInv'
  <2>1. currentLight'.id = currentLight.id
    BY <1>19 DEF ChosenBrightness, TypeInv, Light
  <2> QED
    BY <1>1, <1>19, <2>1 DEF ChosenBrightness
<1>20. ASSUME Sample PROVE ChosenInv'
  BY <1>2, <1>13, <1>20 DEF Sample
<1>21. ASSUME Idle \/ AdjustSwitch \/ AdjustSwitched PROVE ChosenInv'
  BY <1>2, <1>21 DEF Idle, AdjustSwitch, AdjustSwitched
<1>22. ASSUME NEW increase \in BOOLEAN,
              AdjustBrightness(increase) \/ AdjustHue(increase) \/ AdjustTemp(increase)
       PROVE  ChosenInv'
  BY <1>2, <1>22 DEF AdjustBrightness, AdjustHue, AdjustTemp
<1> QED
  BY <1>5, <1>6, <1>8, <1>9, <1>10, <1>11, <1>12, <1>13, <1>14, <1>15, <1>16, <1>17, <1>18,
     <1>19, <1>20, <1>21, <1>22
  DEF Next, Touch, Returns, Inputs, LeaveChoose, LeaveRoom

(* The dial switches, dims and opens the light at its counter, unless a tap *)
(* replaced the room or the light under the loop, or the last refresh did   *)
(* not report that light (chooseAndAlterLightInRoom, setCurrentLight,       *)
(* drawRoom, drawLight).                                                    *)
THEOREM ChosenSafe == Spec => []ActsOnChosen
<1>1. Init => ChosenInv
  BY DEF Init, ChosenInv
<1>2. TypeInv /\ ChosenInv /\ [Next]_vars => ChosenInv'
  BY ChosenStep
<1>3. ChosenInv => ActsOnChosen
  BY DEF ChosenInv, ActsOnChosen
<1> QED
  BY <1>1, <1>2, <1>3, TypeInvHolds, PTL DEF Spec

(* ------------------------------------------------------------------------ *)
(* What the dial adjusts on the page of a light.                            *)

Adjusting == at \in {"adjust", "switch", "sample"}

AdjustInv ==
    Adjusting /\ ~moved =>
        /\ lightId = currentLight.id
        /\ currentLight.brightness \in {lightBrightness, Brighter(lightBrightness), Darker(lightBrightness)}

LEMMA AdjustStep ==
    ASSUME TypeInv, AdjustInv, [Next]_vars
    PROVE  AdjustInv'
<1> USE DEF dialVars, chooseVars, adjustVars, screenVars, touchVars, lightVars
<1> DEFINE Kept ==
      /\ Adjusting' => Adjusting /\ lightId' = lightId /\ lightBrightness' = lightBrightness
      /\ currentLight'.id = currentLight.id
      /\ currentLight'.brightness = currentLight.brightness
      /\ moved' = moved
<1>1. ASSUME Kept PROVE AdjustInv'
  BY <1>1 DEF AdjustInv, Brighter, Darker
<1>2. ASSUME at' \notin {"adjust", "switch", "sample"} PROVE AdjustInv'
  BY <1>2 DEF AdjustInv, Adjusting
<1>3. ASSUME moved' = TRUE PROVE AdjustInv'
  BY <1>3 DEF AdjustInv
<1>4. ASSUME NEW c, currentLight' = [currentLight EXCEPT !.on = c]
      PROVE  /\ currentLight'.id = currentLight.id
             /\ currentLight'.brightness = currentLight.brightness
  BY <1>4 DEF TypeInv, Light
<1>5. CASE UNCHANGED vars
  BY <1>1, <1>5 DEF vars, Adjusting
<1>6. ASSUME NEW r \in Rooms, TapRoom(r) PROVE AdjustInv'
  BY <1>1, <1>6 DEF TapRoom, Adjusting
<1>7. ASSUME at' = at, moved' = (moved \/ Looping) PROVE AdjustInv'
  <2>1. CASE at = "loop"
    BY <1>2, <1>7, <2>1
  <2>2. CASE at # "loop"
    BY <2>2, <1>3, <1>7, Zenon DEF Looping
  <2> QED
    BY <2>1, <2>2
<1>8. ASSUME (\E l \in Lights : TapLight(l)) \/ BackToLight PROVE AdjustInv'
  BY <1>7, <1>8 DEF TapLight, BackToLight
<1>9. ASSUME ReplaceRoom PROVE AdjustInv'
  <2>1. CASE currentRoom' = currentRoom
    <3>1. moved' <=> moved
      BY <1>9, <2>1, Zenon DEF ReplaceRoom
    <3> QED
      BY <1>1, <1>9, <2>1, <3>1 DEF ReplaceRoom, TypeInv, FlagType, Adjusting
  <2>2. CASE currentRoom' # currentRoom
    <3>1. moved' <=> moved \/ Looping
      BY <1>9, <2>2, Zenon DEF ReplaceRoom
    <3> QED
      BY <1>7, <1>9, <3>1 DEF ReplaceRoom
  <2> QED
    BY <2>1, <2>2
<1>10. ASSUME LoadLights \/ ShowLight \/ TapBack \/ TapMode \/ TapSwitch PROVE AdjustInv'
  BY <1>1, <1>10 DEF LoadLights, ShowLight, TapBack, TapMode, TapSwitch, Adjusting
<1>11. ASSUME TapSwitched PROVE AdjustInv'
  BY <1>1, <1>4, <1>11 DEF TapSwitched, Adjusting
<1>12. ASSUME Enter PROVE AdjustInv'
  <2>1. CASE screen \in {"HOME", "ROOM"}
    BY <1>2, <1>12, <2>1 DEF Enter
  <2>2. CASE screen \notin {"HOME", "ROOM"}
    <3>1. /\ lightId' = currentLight'.id /\ lightBrightness' = currentLight'.brightness
      BY <1>12, <2>2 DEF Enter
    <3> QED
      BY <3>1 DEF AdjustInv
  <2> QED
    BY <2>1, <2>2
<1>13. ASSUME Leave PROVE AdjustInv'
  BY <1>2, <1>13 DEF Leave
<1>14. ASSUME NEW increase \in BOOLEAN, Turn(increase) \/ ChosenBrightness(increase) PROVE AdjustInv'
  BY <1>2, <1>14 DEF Turn, ChosenBrightness, Choosing
<1>15. ASSUME Flashed \/ Forget \/ Press \/ Toggle PROVE AdjustInv'
  BY <1>2, <1>15 DEF Flashed, Forget, Press, Toggle, Choosing
<1>16. ASSUME Idle \/ AdjustSwitch PROVE AdjustInv'
  BY <1>1, <1>16 DEF Idle, AdjustSwitch, Adjusting
<1>17. ASSUME AdjustSwitched PROVE AdjustInv'
  BY <1>1, <1>4, <1>17 DEF AdjustSwitched, Adjusting
<1>18. ASSUME Sample PROVE AdjustInv'
  BY <1>1, <1>13, <1>18 DEF Sample, Adjusting
<1>19. ASSUME NEW increase \in BOOLEAN, AdjustHue(increase) \/ AdjustTemp(increase) PROVE AdjustInv'
  BY <1>1, <1>19 DEF AdjustHue, AdjustTemp, Adjusting
<1>20. ASSUME NEW increase \in BOOLEAN, AdjustBrightness(increase) PROVE AdjustInv'
  <2>1. /\ Adjusting /\ lightId' = lightId /\ moved' = moved
        /\ currentLight'.id = currentLight.id
        /\ currentLight'.brightness = calcBrightness(lightBrightness', increase)
    BY <1>20 DEF AdjustBrightness, TypeInv, Light, Adjusting
  <2>2. currentLight'.brightness \in {Brighter(lightBrightness'), Darker(lightBrightness')}
    <3>1. CASE increase = TRUE
      BY <2>1, <3>1 DEF Brighter
    <3>2. CASE increase = FALSE
      BY <2>1, <3>2 DEF Darker
    <3> QED
      BY <3>1, <3>2
  <2> QED
    BY <2>1, <2>2 DEF AdjustInv, Brighter, Darker
<1> QED
  BY <1>5, <1>6, <1>8, <1>9, <1>10, <1>11, <1>12, <1>13, <1>14, <1>15, <1>16, <1>17, <1>18,
     <1>19, <1>20
  DEF Next, Touch, Returns, Inputs, LeaveChoose, LeaveRoom

LEMMA AdjustInvHolds == Spec => []AdjustInv
<1>1. Init => AdjustInv
  BY DEF Init, AdjustInv, Adjusting
<1>2. TypeInv /\ AdjustInv /\ [Next]_vars => AdjustInv'
  BY AdjustStep
<1> QED
  BY <1>1, <1>2, TypeInvHolds, PTL DEF Spec

(* adjustLight sends to the light on the page, unless a tap opened another  *)
(* one under it: no dial step replaces currentLight there.                  *)
THEOREM AdjustSafe == Spec => []AdjustsShownLight
<1>1. AdjustInv => AdjustsShownLight
  BY DEF AdjustInv, AdjustsShownLight, Adjusting
<1> QED
  BY <1>1, AdjustInvHolds, PTL

(* The step of lightBrightness keeps its direction, except from zero. *)
LEMMA TurnMonotone ==
    ASSUME NEW b \in Brightness
    PROVE  /\ b <= turnBrightness(b, TRUE)
           /\ turnBrightness(b, FALSE) <= b \/ (b = 0 /\ turnBrightness(b, FALSE) = 1)
  BY ScaleType DEF turnBrightness, Brightness

(* Neither dial turns the wrong way, with any two tables and any step, as   *)
(* long as no tap replaces the light: calcBrightness is monotonic, and what *)
(* the light has is lightBrightness or one element of a table away from it  *)
(* (adjustLight, calcBrightness).                                           *)
THEOREM TurnsSafe == Spec => TurnsTheRightWay
<1>1. ASSUME TypeInv, AdjustInv, [Next]_vars
      PROVE  [/\ AdjustBrightness(TRUE) /\ ~moved => currentLight'.brightness >= currentLight.brightness
              /\ AdjustBrightness(FALSE) /\ ~moved => currentLight'.brightness <= currentLight.brightness
              /\ ChosenBrightness(TRUE) => currentLight'.brightness > currentLight.brightness
                                           \/ currentLight.brightness = MaxBrightness
              /\ ChosenBrightness(FALSE) => currentLight'.brightness < currentLight.brightness
                                           \/ currentLight.brightness = 0]_vars
  <2> DEFINE b == currentLight.brightness
             c == currentLight'.brightness
             d == lightBrightness
             e == lightBrightness'
  <2>1. b \in Brightness /\ d \in Brightness
    BY <1>1 DEF TypeInv, Light, CounterTypes
  <2>2. ASSUME ~moved, at = "adjust" PROVE b \in {d, Brighter(d), Darker(d)}
    BY <1>1, <2>2 DEF AdjustInv, Adjusting
  <2>3. /\ Brighter(d) \in Nat /\ Darker(d) \in Nat /\ d \in Nat
        /\ d <= Brighter(d) /\ Darker(d) <= d
    BY <2>1, CalcUp, CalcDown DEF Brightness
  <2>4. ASSUME AdjustBrightness(TRUE), ~moved PROVE c >= b
    <3>1. c = Brighter(e) /\ at = "adjust"
      BY <1>1, <2>4 DEF AdjustBrightness, TypeInv, Light, Brighter
    <3>6. e = turnBrightness(d, TRUE)
      BY <2>4 DEF AdjustBrightness
    <3>2. e \in Brightness /\ d <= e
      BY <2>1, <3>6, TurnType, TurnMonotone
    <3>3. Brighter(d) <= Brighter(e) /\ Brighter(e) \in Nat
      BY <2>1, <3>2, CalcUp, CalcUpMonotone DEF Brightness
    <3>4. b \in {d, Brighter(d), Darker(d)}
      BY <2>2, <2>4, <3>1, Zenon
    <3>5. b <= Brighter(d)
      BY <2>3, <3>4
    <3> HIDE DEF b, c, d, e
    <3> QED
      BY <2>1, <2>3, <3>1, <3>3, <3>5 DEF Brightness
  <2>5. ASSUME AdjustBrightness(FALSE), ~moved PROVE c <= b
    <3>1. c = Darker(e) /\ at = "adjust"
      BY <1>1, <2>5 DEF AdjustBrightness, TypeInv, Light, Darker
    <3>6. e = turnBrightness(d, FALSE)
      BY <2>5 DEF AdjustBrightness
    <3>2. e \in Brightness /\ (e <= d \/ e = 1)
      BY <2>1, <3>6, TurnType, TurnMonotone
    <3>3. Darker(e) \in Nat
      BY <3>2, CalcDown DEF Brightness
    <3>4. CASE e <= d
      <4>1. Darker(e) <= Darker(d)
        BY <2>1, <3>2, <3>4, CalcDownMonotone
      <4>2. b \in {d, Brighter(d), Darker(d)}
        BY <2>2, <2>5, <3>1, Zenon
      <4>3. Darker(d) <= b
        BY <2>3, <4>2
      <4> HIDE DEF b, c, d, e
      <4> QED
        BY <2>1, <2>3, <3>1, <3>3, <4>1, <4>3 DEF Brightness
    <3>5. CASE e = 1
      <4>1. Darker(e) = 0
        BY <3>2, <3>3, <3>5, CalcDown
      <4>2. b \in Nat
        BY <2>1 DEF Brightness
      <4> HIDE DEF b, c, d, e
      <4> QED
        BY <3>1, <4>1, <4>2
    <3> QED
      BY <3>2, <3>4, <3>5
  <2>6. ASSUME ChosenBrightness(TRUE) PROVE c > b \/ b = MaxBrightness
    <3>1. c = Brighter(b)
      BY <1>1, <2>6 DEF ChosenBrightness, TypeInv, Light, Brighter
    <3> QED
      BY <2>1, <3>1, CalcUp
  <2>7. ASSUME ChosenBrightness(FALSE) PROVE c < b \/ b = 0
    <3>1. c = Darker(b)
      BY <1>1, <2>7 DEF ChosenBrightness, TypeInv, Light, Darker
    <3> QED
      BY <2>1, <3>1, CalcDown
  <2> QED
    BY <2>4, <2>5, <2>6, <2>7, Zenon
<1> QED
  BY <1>1, AdjustInvHolds, TypeInvHolds, PTL DEF Spec, TurnsTheRightWay

(* ------------------------------------------------------------------------ *)
(* The scales of hue and temperature.                                       *)

ScaleInv ==
    Adjusting /\ ~under => hueCounter <= HueGranularity /\ tempCounter <= TempSteps

LEMMA CountersStay ==
    ASSUME NEW c \in 0..(U8 - 1), NEW increase \in BOOLEAN, increase \/ c # 0
    PROVE  /\ c <= HueGranularity => turnHue(c, increase) <= HueGranularity
           /\ c <= TempSteps => turnTemp(c, increase) <= TempSteps
<1>1. CASE increase
  BY <1>1, ScaleType DEF turnHue, turnTemp
<1>2. CASE ~increase
  <2>1. c \in Nat /\ c >= 1 /\ c <= U8 - 1
    BY <1>2, ScaleType
  <2>2. (c + U8 - 1) % U8 = c - 1
    <3>1. c + U8 - 1 = 1 * U8 + (c - 1) /\ c - 1 \in 0..(U8 - 1)
      BY <2>1, ScaleType
    <3> QED
      BY <2>1, <3>1, ScaleType
  <2> QED
    BY <1>2, <2>1, <2>2, ScaleType DEF turnHue, turnTemp
<1> QED
  BY <1>1, <1>2

LEMMA ScaleStep ==
    ASSUME TypeInv, ScaleInv, [Next]_vars
    PROVE  ScaleInv'
<1> USE DEF dialVars, chooseVars, adjustVars, screenVars, touchVars, lightVars
<1> DEFINE Kept ==
      /\ Adjusting' => Adjusting
      /\ hueCounter' = hueCounter /\ tempCounter' = tempCounter /\ under' = under
<1>1. ASSUME Kept PROVE ScaleInv'
  BY <1>1 DEF ScaleInv
<1>2. ASSUME at' \notin {"adjust", "switch", "sample"} PROVE ScaleInv'
  BY <1>2 DEF ScaleInv, Adjusting
<1>3. CASE UNCHANGED vars
  BY <1>1, <1>3 DEF vars, Adjusting
<1>4. CASE Touch
  BY <1>1, <1>4 DEF Touch, TapRoom, TapLight, ReplaceRoom, LoadLights, ShowLight, TapBack, BackToLight,
     TapMode, TapSwitch, TapSwitched, Adjusting
<1>5. ASSUME Enter PROVE ScaleInv'
  <2>1. CASE screen \in {"HOME", "ROOM"}
    BY <1>2, <1>5, <2>1 DEF Enter
  <2>2. CASE screen \notin {"HOME", "ROOM"}
    BY <1>5, <2>2, ScaleType DEF Enter, ScaleInv
  <2> QED
    BY <2>1, <2>2
<1>6. ASSUME Leave PROVE ScaleInv'
  BY <1>2, <1>6 DEF Leave
<1>7. ASSUME NEW increase \in BOOLEAN, Turn(increase) \/ ChosenBrightness(increase) PROVE ScaleInv'
  BY <1>2, <1>7 DEF Turn, ChosenBrightness, Choosing
<1>8. ASSUME Flashed \/ Forget \/ Press \/ Toggle PROVE ScaleInv'
  BY <1>2, <1>8 DEF Flashed, Forget, Press, Toggle, Choosing
<1>9. ASSUME Idle \/ AdjustSwitch \/ AdjustSwitched PROVE ScaleInv'
  BY <1>1, <1>9 DEF Idle, AdjustSwitch, AdjustSwitched, Adjusting
<1>10. ASSUME Sample PROVE ScaleInv'
  BY <1>1, <1>6, <1>10 DEF Sample, Adjusting
<1>11. ASSUME NEW increase \in BOOLEAN, AdjustBrightness(increase) PROVE ScaleInv'
  BY <1>1, <1>11 DEF AdjustBrightness, Adjusting
<1>12. ASSUME NEW increase \in BOOLEAN, AdjustHue(increase) PROVE ScaleInv'
  <2>1. /\ Adjusting /\ hueCounter' = turnHue(hueCounter, increase) /\ tempCounter' = tempCounter
    BY <1>12 DEF AdjustHue, Adjusting
  <2>2. ~under' => ~under /\ (increase \/ hueCounter # 0)
    BY <1>12, Zenon DEF AdjustHue
  <2> QED
    BY <2>1, <2>2, CountersStay DEF ScaleInv, TypeInv, CounterTypes
<1>13. ASSUME NEW increase \in BOOLEAN, AdjustTemp(increase) PROVE ScaleInv'
  <2>1. /\ Adjusting /\ tempCounter' = turnTemp(tempCounter, increase) /\ hueCounter' = hueCounter
    BY <1>13 DEF AdjustTemp, Adjusting
  <2>2. ~under' => ~under /\ (increase \/ tempCounter # 0)
    BY <1>13, Zenon DEF AdjustTemp
  <2> QED
    BY <2>1, <2>2, CountersStay DEF ScaleInv, TypeInv, CounterTypes
<1> QED
  BY <1>3, <1>4, <1>5, <1>6, <1>7, <1>8, <1>9, <1>10, <1>11, <1>12, <1>13
  DEF Next, Returns, Inputs, LeaveChoose, LeaveRoom

LEMMA NegZero ==
    ASSUME NEW a \in Int, a <= 0, a >= 0
    PROVE  a = 0 /\ -a = a
  OBVIOUS

LEMMA SpanType ==
    ASSUME NEW x \in 0..4500
    PROVE  x * 347 \in Nat /\ x * 347 <= 347 * 4500
<1>1. 347 * 4500 = 1561500
  OBVIOUS
<1>2. x * 347 \in Nat /\ x * 347 <= 1561500
  OBVIOUS
<1> QED
  BY <1>1, <1>2

(* A counter on its scale stands for a temperature the bridge takes. *)
LEMMA ScaleAccepted ==
    ASSUME NEW c \in Nat, c <= TempSteps
    PROVE  Accepts(kelvinOf(c))
<1>1. PICK q \in 0..4500 : q = (4500 * c) \div TempSteps
  <2>1. 4500 * c \in Nat /\ 4500 * c <= 4500 * TempSteps
    BY ScaleType
  <2> QED
    BY <2>1, DivBound, ScaleType
<1>2. map(c, 0, TempSteps, 6500, 2000) = 6500 - q
  <2>1. (c - 0) * (2000 - 6500) = -(4500 * c) /\ TempSteps - 0 = TempSteps
    BY ScaleType
  <2>2. Quotient(-(4500 * c), TempSteps) = -q
    <3>1. CASE c = 0
      <4>1. 4500 * c \in Int /\ 4500 * c <= 0 /\ 4500 * c >= 0
        BY <3>1
      <4>2. 0 \div TempSteps \in 0..0
        BY DivBound, ScaleType
      <4>3. 4500 * c = 0 /\ -(4500 * c) = 4500 * c
        BY <4>1, NegZero
      <4>4. q = 0 /\ 0 \div TempSteps = 0
        BY <1>1, <4>2, <4>3
      <4>5. q \in Int /\ q <= 0 /\ q >= 0
        BY <4>4
      <4>6. -q = q
        BY <4>5, NegZero
      <4> QED
        BY <4>3, <4>4, <4>6 DEF Quotient
    <3>2. CASE c # 0
      BY <1>1, <3>2, ScaleType DEF Quotient
    <3> QED
      BY <3>1, <3>2
  <2> QED
    BY <1>1, <2>1, <2>2 DEF map
<1>3. kelvinOf(c) = 6500 - q
  BY <1>1, <1>2, ScaleType DEF kelvinOf
<1>4. PICK p \in 0..4500 : p = 4500 - q
  OBVIOUS
<1>5. p * 347 \in Nat /\ p * 347 <= 347 * 4500
  BY SpanType
<1>6. map(6500 - q, 2000, 6500, 153, 500) = (p * 347) \div 4500 + 153
  <2>1. (6500 - q) - 2000 = p /\ 500 - 153 = 347 /\ 6500 - 2000 = 4500
    BY <1>1, <1>4
  <2>2. p * 347 >= 0
    BY <1>5
  <2> QED
    BY <2>1, <2>2 DEF map, Quotient
<1>7. (p * 347) \div 4500 \in 0..347
  BY <1>5, DivBound
<1>8. PICK k \in 0..347 : k = (p * 347) \div 4500
  BY <1>7
<1>9. ctOf(kelvinOf(c)) = (k + 153) % U16
  BY <1>3, <1>6, <1>8 DEF ctOf
<1>10. (k + 153) % U16 = k + 153
  BY ScaleType
<1> QED
  BY <1>9, <1>10 DEF Accepts

(* Hue and temperature stay where the bridge accepts them until a counter   *)
(* is turned below zero: no other turn leaves the scale (adjustLight,       *)
(* colorTemp).                                                              *)
THEOREM ScaleSafe == Spec => []OnScale
<1>1. Init => ScaleInv
  BY DEF Init, ScaleInv, Adjusting
<1>2. TypeInv /\ ScaleInv /\ [Next]_vars => ScaleInv'
  BY ScaleStep
<1>3. TypeInv /\ ScaleInv => OnScale
  <2>1. ASSUME TypeInv PROVE tempCounter \in Nat
    BY <2>1, ScaleType DEF TypeInv, CounterTypes
  <2> QED
    BY <2>1, ScaleAccepted DEF ScaleInv, OnScale, Adjusting
<1> QED
  BY <1>1, <1>2, <1>3, TypeInvHolds, PTL DEF Spec

(* ------------------------------------------------------------------------ *)
(* The bulb.                                                                *)

(* Where the touch task is on the way to a page, and who is switching; the  *)
(* bulb shows what the switch under way will have set.                      *)
TouchInv ==
    /\ touch \in {"room", "load"} => screen = "ROOM"
    /\ touch = "switch" => screen = "LIGHT"
BulbInv ==
    screen = "LIGHT" /\ ~mixed =>
        /\ at \notin {"flash", "toggle"}
        /\ touch = "switch" => at # "switch" /\ (shownOn <=> target = Nothing)
        /\ at = "switch" => (shownOn <=> ~reads)
        /\ touch \notin {"switch", "light"} /\ at # "switch" => (shownOn <=> currentLight.on)

LEMMA TouchStep ==
    ASSUME TypeInv, TouchInv, [Next]_vars
    PROVE  TouchInv'
<1> USE DEF screenVars, touchVars, TouchInv
<1>1. CASE UNCHANGED vars
  BY <1>1 DEF vars
<1>2. CASE Touch
  BY <1>2 DEF Touch, TapRoom, TapLight, ReplaceRoom, LoadLights, ShowLight, TapBack, BackToLight,
     TapMode, TapSwitch, TapSwitched
<1>3. ASSUME Leave PROVE TouchInv'
  BY <1>3 DEF Leave
<1>4. CASE Returns
  BY <1>3, <1>4 DEF Returns, Enter, LeaveChoose, Flashed, Toggle, LeaveRoom, Sample, Idle, AdjustSwitched
<1>5. ASSUME Press PROVE TouchInv'
  BY <1>5 DEF Press, Choosing
<1>6. CASE Inputs
  BY <1>5, <1>6 DEF Inputs, Forget, AdjustSwitch, Turn, ChosenBrightness, AdjustBrightness,
     AdjustHue, AdjustTemp
<1> QED
  BY <1>1, <1>2, <1>4, <1>6 DEF Next

LEMMA BulbStep ==
    ASSUME TypeInv, TouchInv, BulbInv, [Next]_vars
    PROVE  BulbInv'
<1> USE DEF dialVars, chooseVars, adjustVars, screenVars, touchVars, lightVars
<1> DEFINE Kept ==
      /\ screen' = screen /\ touch' = touch /\ target' = target /\ shownOn' = shownOn
      /\ mixed' = mixed /\ currentLight'.on = currentLight.on
<1>1. ASSUME Kept,
             (at' = at /\ reads' = reads) \/ (at' \notin {"flash", "toggle", "switch"} /\ at # "switch")
      PROVE  BulbInv'
  BY <1>1 DEF BulbInv
<1>2. ASSUME screen' # "LIGHT" PROVE BulbInv'
  BY <1>2 DEF BulbInv
<1>3. ASSUME mixed' = TRUE PROVE BulbInv'
  BY <1>3 DEF BulbInv
<1>4. CASE UNCHANGED vars
  BY <1>1, <1>4 DEF vars
<1>5. ASSUME NEW r \in Rooms, TapRoom(r) PROVE BulbInv'
  BY <1>2, <1>5 DEF TapRoom
<1>6. ASSUME (\E l \in Lights : TapLight(l)) \/ BackToLight PROVE BulbInv'
  <2>1. /\ touch = "idle" /\ touch' = "light"
        /\ UNCHANGED <<screen, shownOn, at, reads, mixed>>
    BY <1>6 DEF TapLight, BackToLight, dialVars
  <2> QED
    BY <2>1 DEF BulbInv
<1>7. ASSUME ReplaceRoom \/ LoadLights PROVE BulbInv'
  BY <1>2, <1>7 DEF ReplaceRoom, LoadLights, TouchInv
<1>8. ASSUME ShowLight PROVE BulbInv'
  <2>1. CASE at \in {"switch", "toggle", "flash"}
    BY <1>3, <1>8, <2>1 DEF ShowLight
  <2>2. CASE at \notin {"switch", "toggle", "flash"}
    BY <1>8, <2>2 DEF ShowLight, BulbInv
  <2> QED
    BY <2>1, <2>2
<1>9. ASSUME TapBack PROVE BulbInv'
  BY <1>2, <1>9 DEF TapBack
<1>10. ASSUME TapMode PROVE BulbInv'
  BY <1>1, <1>10 DEF TapMode
<1>11. ASSUME TapSwitch PROVE BulbInv'
  <2>1. CASE at \in {"switch", "toggle"}
    BY <1>3, <1>11, <2>1, Zenon DEF TapSwitch
  <2>2. CASE at \notin {"switch", "toggle"}
    <3>1. mixed' <=> mixed
      BY <1>11, <2>2, Zenon DEF TapSwitch
    <3>2. /\ screen' = "LIGHT" /\ screen = "LIGHT" /\ at' = at /\ touch' = "switch"
          /\ target' = IF currentLight.on THEN 1 ELSE Nothing
      BY <1>11 DEF TapSwitch
    <3>3. shownOn' <=> ~currentLight.on
      BY <1>11, Zenon DEF TapSwitch
    <3>4. shownOn' <=> target' = Nothing
      BY <3>2, <3>3 DEF Nothing
    <3> QED
      BY <2>2, <3>1, <3>2, <3>4 DEF BulbInv
  <2> QED
    BY <2>1, <2>2
<1>12. ASSUME TapSwitched PROVE BulbInv'
  <2>1. /\ touch = "switch" /\ touch' = "idle" /\ screen' = screen /\ mixed' = mixed
        /\ shownOn' = shownOn /\ at' = at /\ reads' = reads
    BY <1>12 DEF TapSwitched
  <2>2. currentLight'.on = (target = Nothing)
    BY <1>12 DEF TapSwitched, TypeInv, Light
  <2> QED
    BY <2>1, <2>2 DEF BulbInv
<1>13. ASSUME Enter PROVE BulbInv'
  BY <1>1, <1>13 DEF Enter
<1>14. ASSUME Leave, at # "switch" PROVE BulbInv'
  BY <1>1, <1>14 DEF Leave
<1>15. ASSUME LeaveChoose \/ LeaveRoom PROVE BulbInv'
  BY <1>14, <1>15 DEF LeaveChoose, LeaveRoom
<1>16. ASSUME Flashed \/ Toggle PROVE BulbInv'
  <2>1. (screen # "LIGHT" \/ mixed) /\ screen' = screen /\ mixed' = mixed
    BY <1>16 DEF BulbInv, Flashed, Toggle
  <2> QED
    BY <2>1 DEF BulbInv
<1>17. ASSUME Forget PROVE BulbInv'
  BY <1>1, <1>17 DEF Forget
<1>18. ASSUME Press PROVE BulbInv'
  BY <1>2, <1>3, <1>18 DEF Press, Choosing
<1>19. ASSUME NEW increase \in BOOLEAN, Turn(increase) \/ ChosenBrightness(increase) PROVE BulbInv'
  BY <1>2, <1>19 DEF Turn, ChosenBrightness, Choosing
<1>20. ASSUME NEW increase \in BOOLEAN, AdjustHue(increase) \/ AdjustTemp(increase) PROVE BulbInv'
  BY <1>1, <1>20 DEF AdjustHue, AdjustTemp
<1>21. ASSUME NEW increase \in BOOLEAN, AdjustBrightness(increase) PROVE BulbInv'
  <2>1. currentLight'.on = currentLight.on
    BY <1>21 DEF AdjustBrightness, TypeInv, Light
  <2> QED
    BY <1>1, <1>21, <2>1 DEF AdjustBrightness
<1>22. ASSUME Idle PROVE BulbInv'
  BY <1>1, <1>22 DEF Idle
<1>23. ASSUME Sample PROVE BulbInv'
  BY <1>1, <1>14, <1>23 DEF Sample
<1>24. ASSUME AdjustSwitch PROVE BulbInv'
  <2>1. CASE touch = "switch"
    BY <1>3, <1>24, <2>1, Zenon DEF AdjustSwitch
  <2>2. CASE touch # "switch"
    <3>1. /\ screen' = screen /\ touch' = touch /\ at' = "switch"
      BY <1>24 DEF AdjustSwitch
    <3>2. shownOn' <=> ~reads'
      BY <1>24 DEF AdjustSwitch
    <3> QED
      BY <2>2, <3>1, <3>2 DEF BulbInv
  <2> QED
    BY <2>1, <2>2
<1>25. ASSUME AdjustSwitched PROVE BulbInv'
  <2>1. /\ at = "switch" /\ at' = "sample" /\ screen' = screen /\ touch' = touch /\ mixed' = mixed
        /\ shownOn' = shownOn
    BY <1>25 DEF AdjustSwitched
  <2>2. currentLight'.on = (~reads)
    BY <1>25 DEF AdjustSwitched, TypeInv, Light
  <2> QED
    BY <2>1, <2>2 DEF BulbInv
<1> QED
  BY <1>4, <1>5, <1>6, <1>7, <1>8, <1>9, <1>10, <1>11, <1>12, <1>13, <1>15, <1>16, <1>17,
     <1>18, <1>19, <1>20, <1>21, <1>22, <1>23, <1>24, <1>25
  DEF Next, Touch, Returns, Inputs

(* The bulb shows the state of the light once nobody switches it, unless two *)
(* drew it at once: both Switch functions draw before they ask the bridge,   *)
(* and a tap and the dial may do so together (Switch, drawLight).            *)
THEOREM BulbSafe == Spec => []BulbShowsState
<1>1. Init => TouchInv /\ BulbInv
  BY DEF Init, TouchInv, BulbInv
<1>2. TypeInv /\ TouchInv /\ BulbInv /\ [Next]_vars => TouchInv' /\ BulbInv'
  BY TouchStep, BulbStep
<1>3. TypeInv /\ BulbInv => BulbShowsState
  <2>1. ASSUME TypeInv PROVE shownOn \in BOOLEAN /\ currentLight.on \in BOOLEAN
    BY <2>1 DEF TypeInv, FlagType, Light
  <2> QED
    BY <2>1 DEF BulbInv, BulbShowsState
<1> QED
  BY <1>1, <1>2, <1>3, TypeInvHolds, PTL DEF Spec

(* ------------------------------------------------------------------------ *)
(* What DialFollowsPage rests on: encoder_task is at most four steps away     *)
(* from the loop of the page that is shown.                                  *)

LoopOf(s) ==
    IF s = "HOME" THEN {"choose", "flash", "toggle"}
    ELSE IF s = "ROOM" THEN {"room"} ELSE {"adjust", "switch", "sample"}

\* The steps to the loop of page s; a loop ends only at its own test.
StepsTo(s) ==
    IF at \in LoopOf(s) THEN 0
    ELSE IF at = "loop" THEN 1
    ELSE IF at \in {"choose", "room", "sample"} THEN 2
    ELSE IF at = "adjust" THEN 4 ELSE 3

FollowStep ==
    screen' = screen =>
        /\ StepsTo(screen)' <= StepsTo(screen)
        /\ (Returns \/ Inputs) /\ StepsTo(screen) # 0 => StepsTo(screen)' < StepsTo(screen)

\* Where a step of encoder_task leads; what is in its loop stays there.
LEMMA DialMoves ==
    ASSUME TypeInv, Returns \/ Inputs, screen' = screen
    PROVE  \/ at = "loop" /\ at' \in LoopOf(screen)
           \/ at = "choose" /\ screen = "HOME" /\ at' \in {"choose", "flash", "toggle"}
           \/ at \in {"flash", "toggle"} /\ at' = "choose"
           \/ at = "adjust" /\ at' \in {"switch", "sample"}
           \/ at = "switch" /\ at' = "sample"
           \/ at = "sample" /\ screen = "LIGHT" /\ at' = "adjust"
           \/ at \in {"choose", "room", "sample"} /\ at \notin LoopOf(screen) /\ at' = "loop"
<1>1. CASE Enter
  BY <1>1 DEF Enter, LoopOf
<1>2. CASE LeaveChoose \/ LeaveRoom
  BY <1>2 DEF LeaveChoose, LeaveRoom, Leave, LoopOf
<1>3. CASE Sample
  BY <1>3 DEF Sample, Leave, LoopOf, TypeInv, PlaceType
<1>4. CASE Flashed \/ Toggle \/ Idle \/ AdjustSwitched
  BY <1>4 DEF Flashed, Toggle, Idle, AdjustSwitched
<1>5. CASE Forget \/ Press
  <2>1. at = "choose" /\ screen = "HOME" /\ at' \in {"choose", "toggle"}
    BY <1>5 DEF Forget, Press, Choosing
  <2> QED
    BY <2>1
<1>8. CASE AdjustSwitch
  BY <1>8 DEF AdjustSwitch
<1>6. ASSUME NEW increase \in BOOLEAN, Turn(increase) \/ ChosenBrightness(increase)
      PROVE  at = "choose" /\ screen = "HOME" /\ at' \in {"choose", "flash", "toggle"}
  BY <1>6 DEF Turn, ChosenBrightness, Choosing, dialVars
<1>7. ASSUME NEW increase \in BOOLEAN,
             AdjustBrightness(increase) \/ AdjustHue(increase) \/ AdjustTemp(increase)
      PROVE  at = "adjust" /\ at' \in {"switch", "sample"}
  BY <1>7 DEF AdjustBrightness, AdjustHue, AdjustTemp
<1> QED
  BY <1>1, <1>2, <1>3, <1>4, <1>5, <1>6, <1>7, <1>8 DEF Returns, Inputs

(* While a page stays, each step of encoder_task brings it nearer to the    *)
(* loop of that page, four steps at most, whatever is turned or pressed and *)
(* whatever is tapped meanwhile; once there it stays there (encoderLoop and *)
(* the conditions of its loops).                                            *)
THEOREM DialArrives == Spec => [][FollowStep]_vars
<1>1. ASSUME TypeInv, [Next]_vars PROVE FollowStep
  <2> SUFFICES ASSUME screen' = screen
               PROVE  /\ StepsTo(screen)' <= StepsTo(screen)
                      /\ (Returns \/ Inputs) /\ StepsTo(screen) # 0 =>
                            StepsTo(screen)' < StepsTo(screen)
    BY DEF FollowStep
  <2>1. screen \in {"HOME", "ROOM", "LIGHT"}
    BY <1>1 DEF TypeInv, PlaceType
  <2>2. CASE Returns \/ Inputs
    BY <1>1, <2>1, <2>2, DialMoves DEF StepsTo, LoopOf
  <2>3. CASE ~(Returns \/ Inputs)
    <3>1. at' = at
      BY <1>1, <2>3
      DEF Next, Touch, TapRoom, TapLight, ReplaceRoom, LoadLights, ShowLight, TapBack, BackToLight,
          TapMode, TapSwitch, TapSwitched, vars, dialVars
    <3>2. StepsTo(screen)' = StepsTo(screen) /\ StepsTo(screen) \in Nat
      BY <3>1 DEF StepsTo
    <3> QED
      BY <2>3, <3>2
  <2> QED
    BY <2>2, <2>3
<1> QED
  BY <1>1, TypeInvHolds, PTL DEF Spec
=============================================================================
