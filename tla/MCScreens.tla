----------------------------- MODULE MCScreens -----------------------------
EXTENDS Screens

MCLimit == [WAIT |-> 2, LOW_BATTERY |-> 1, SHIPPING |-> 1, DOWNLOAD |-> 2, ERROR |-> 2, FORCE |-> 1]

\* On the two lower rows of boxes, on the signs of the back and the information buttons, and on
\* the secret area.
MCPoints ==
  {[x |-> 88, y |-> 160], [x |-> 88, y |-> 240], [x |-> 168, y |-> 188], [x |-> 20, y |-> 30], [x |-> 160, y |-> 40],
   [x |-> 88, y |-> 100]}
=============================================================================
