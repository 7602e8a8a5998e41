---------------------------- MODULE MCWidescreen ----------------------------
EXTENDS WidescreenCursor

\* One direction of each kind, both of an axis, and each button alone and with one.
SomeInputs == {{}, {"left"}, {"right"}, {"left", "right"}, {"right", "X"}, {"up"}, {"down"},
               {"left", "A"}, {"A"}, {"B"}, {"right", "YSelect"}, {"left", "LR"}}
=============================================================================
