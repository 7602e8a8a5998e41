------------------------------- MODULE MCInput -------------------------------
EXTENDS InputPath

\* Two opposite directions have keys; the third bit of the mask has none, so that the
\* order of bits and its reverse differ.
TwoKeys == {0, 1}
Pairs == [b \in Buttons |-> IF b \in TwoKeys THEN TwoKeys \ {b} ELSE {}]
=============================================================================
