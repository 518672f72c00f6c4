---------------------------- MODULE MCDigitalTx ----------------------------
EXTENDS DigitalTx

\* One transmission and two chances to stop it or lose the connection.
OneStop == {[gen |-> 1, stop |-> 2, ptt |-> 0]}

\* Three transmissions of either source and one stop; or one transmission, one
\* stop and a voice PTT.
Several == {[gen |-> 3, stop |-> 1, ptt |-> 0], [gen |-> 1, stop |-> 1, ptt |-> 1]}

\* One transmission and a voice PTT.
OnePtt == {[gen |-> 1, stop |-> 0, ptt |-> 1]}
=============================================================================
