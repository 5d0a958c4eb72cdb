------------------------------ MODULE MCLightDial ------------------------------
(* A small instance of LightDial for TLC; the ASSUMEs evaluate the arithmetic *)
(* of DialScale at its real size.                                             *)
EXTENDS LightDial

MCRoomLights == <<<<1, 2>>, <<2>>>>
MCIncArr == <<0, 2>>
MCDecArr == <<0, 1, 2>>

Real == INSTANCE DialScale WITH
    IncArr <- <<0, 15, 35, 54, 72, 90, 106, 122, 136, 150, 163, 175, 186, 196, 205,
                214, 221, 228, 234, 239, 242, 246, 248, 254>>,
    DecArr <- <<0, 6, 10, 14, 16, 18, 23, 31, 42, 55, 71, 89, 109, 132, 158, 186,
                217, 250, 254>>,
    MaxBrightness <- 254, IncrementSize <- 20, HueGranularity <- 20,
    TempSteps <- 20, TempStart <- 10, U8 <- 256, U16 <- 65536

\* The real tables are tables; a turn changes the brightness until an end.
ASSUME Real!ScaleAssumption
ASSUME \A b \in 0..254 :
    /\ Real!calcBrightness(b, TRUE) > b \/ b = 254
    /\ Real!calcBrightness(b, FALSE) < b \/ b = 0

\* The bridge accepts exactly the temperatures of counters on the scale.
ASSUME \A c \in 0..255 : Real!Accepts(Real!kelvinOf(c)) <=> c <= 20
=============================================================================
