---------------------------- MODULE MCHostRound ----------------------------
\* Instances of HostRound for TLC.  The second VM has the higher priority and
\* the larger block.
EXTENDS HostRound

TwoPriorities == <<1, 2>>
TwoDevices == <<3, 4>>
TwoBlocks == <<1, 2>>
TwoMinima == <<1, 0>>
TwoMaxima == <<3, 3>>
=============================================================================
