--------------------------- MODULE MCGuardedProbe ---------------------------
EXTENDS GuardedProbe

MCSettings == {"unset", "", "0", "0 and more", "other"}
MCTimeouts == {0, 20, 61}
MCFault == {4, 6, 7, 11}
MCHostStop == {140, 150, 152}
=============================================================================
