--------------------------- MODULE MCDeviceBridge ---------------------------
(* Small instances of DeviceBridge: one machine that may enroll twice, two or *)
(* three commands, one relay token.                                           *)
EXTENDS DeviceBridge

CONSTANTS t1

OneDevice == 1 .. 1
TwoDevices == 1 .. 2
OneToken == {t1}
OneCommand == 1 .. 1
TwoCommands == 1 .. 2
ThreeCommands == 1 .. 3
=============================================================================
