------------------------------ MODULE MCKeying ------------------------------
EXTENDS Keying

\* Two paddles pressed and released; or one, with a device that goes and comes
\* back, or goes while a setting changes; or with two settings changed.
Careful == {[move |-> 4, link |-> 0, change |-> 0], [move |-> 2, link |-> 2, change |-> 0],
            [move |-> 2, link |-> 1, change |-> 1], [move |-> 2, link |-> 0, change |-> 2]}
Taps == {[move |-> 4, link |-> 0, change |-> 0]}

\* The left paddle's note unmapped, and the right one's taken for the left.
Exchanged == {[left |-> "right", right |-> "none"]}
=============================================================================
