------------------------------- MODULE DialScale -------------------------------
(***************************************************************************)
(* The arithmetic of the dials: the two tables that give the next          *)
(* brightness, the counters of hue and temperature, eight bits wide, and   *)
(* what they are mapped to.                                                *)
(***************************************************************************)
EXTENDS Integers, Sequences

CONSTANTS
    IncArr, DecArr,   \* increaseBrightnessArr, decreaseBrightnessArr
    MaxBrightness,    \* 254
    IncrementSize,    \* 20
    HueGranularity,   \* 20
    TempSteps,        \* 20
    TempStart,        \* 10
    U8, U16           \* integer widths: 2^8, 2^16

Brightness == 0..MaxBrightness

\* A table: sorted, from 0 to the highest brightness.
IsTable(arr) ==
    /\ arr \in Seq(Brightness) /\ Len(arr) >= 2
    /\ arr[1] = 0 /\ arr[Len(arr)] = MaxBrightness
    /\ \A i, j \in 1..Len(arr) : i < j => arr[i] < arr[j]

ASSUME ScaleAssumption ==
    /\ MaxBrightness \in Nat \ {0}
    /\ IsTable(IncArr) /\ IsTable(DecArr)
    /\ IncrementSize \in 1..MaxBrightness
    /\ U8 \in Nat /\ HueGranularity \in 1..(U8 - 2)
    /\ TempSteps \in 1..(U8 - 2) /\ TempStart \in 0..TempSteps
    /\ U16 \in Nat /\ U16 > 6500

\* getNearestElementInSortedArray; 0 if no interval holds the target.
Above(arr, target) ==
    IF \E i \in 1..(Len(arr) - 1) : arr[i] <= target /\ target < arr[i + 1]
    THEN arr[1 + CHOOSE i \in 1..(Len(arr) - 1) : arr[i] <= target /\ target < arr[i + 1]]
    ELSE 0
Below(arr, target) ==
    IF \E i \in 1..(Len(arr) - 1) : arr[i] < target /\ target <= arr[i + 1]
    THEN arr[CHOOSE i \in 1..(Len(arr) - 1) : arr[i] < target /\ target <= arr[i + 1]]
    ELSE 0

calcBrightness(b, increase) ==
    IF ~increase THEN Below(DecArr, b)
    ELSE IF Above(IncArr, b) = 0 THEN MaxBrightness ELSE Above(IncArr, b)

\* Mutant: the lower limit is missing.
turnBrightnessFree(b, increase) ==
    IF increase
    THEN IF b + IncrementSize > MaxBrightness THEN MaxBrightness ELSE b + IncrementSize
    ELSE b - IncrementSize

\* Mutant: below the lower limit it begins at the top again.
turnBrightnessWraps(b, increase) ==
    IF increase
    THEN IF b + IncrementSize > MaxBrightness THEN MaxBrightness ELSE b + IncrementSize
    ELSE IF b - IncrementSize < 1 THEN MaxBrightness ELSE b - IncrementSize

\* lightBrigthness: one turn, within the limits.
turnBrightness(b, increase) ==
    IF increase
    THEN IF b + IncrementSize > MaxBrightness THEN MaxBrightness ELSE b + IncrementSize
    ELSE IF b - IncrementSize < 1 THEN 1 ELSE b - IncrementSize

\* hueCounter: the wrap of a decrement at zero comes before the test.
turnHue(c, increase) ==
    IF increase
    THEN IF (c + 1) % U8 >= HueGranularity THEN 0 ELSE (c + 1) % U8
    ELSE IF (c + U8 - 1) % U8 = 0 THEN HueGranularity ELSE (c + U8 - 1) % U8

\* Mutant: the upper limit is tested before the increment.
turnTempLate(c, increase) ==
    IF increase THEN IF c > TempSteps THEN TempSteps ELSE (c + 1) % U8
    ELSE (c + U8 - 1) % U8

\* tempCounter: unsigned, so never negative.
turnTemp(c, increase) ==
    IF increase
    THEN IF (c + 1) % U8 > TempSteps THEN TempSteps ELSE (c + 1) % U8
    ELSE (c + U8 - 1) % U8

\* C division, for a positive divisor.
Quotient(a, d) == IF a >= 0 THEN a \div d ELSE -((-a) \div d)
map(x, inMin, inMax, outMin, outMax) ==
    Quotient((x - inMin) * (outMax - outMin), inMax - inMin) + outMin

hueOf(c) == map(c, 0, HueGranularity, 0, U16 - 1) % U16
kelvinOf(c) == map(c, 0, TempSteps, 6500, 2000) % U16

\* colorTemp sends a temperature only in the range of the bridge.
ctOf(kelvin) == map(kelvin, 2000, 6500, 153, 500) % U16
Accepts(kelvin) == ctOf(kelvin) \in 153..500
=============================================================================
