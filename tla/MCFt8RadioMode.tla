---------------------------- MODULE MCFt8RadioMode ----------------------------
EXTENDS Ft8RadioMode

TwoModes == {<<2, 1>>, <<6, 2>>}
=============================================================================
