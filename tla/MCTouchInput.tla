------------------------------ MODULE MCTouchInput ------------------------------
EXTENDS TouchInput

\* Three fingers, to get past the listener's two slots.
MCFingers == 0..2

\* One position with every bit of x and none of y, one outside twelve bits.
MCPositions == {<<4095, 0>>, <<-1, 5>>}
=============================================================================
