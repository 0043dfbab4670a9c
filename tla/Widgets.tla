------------------------------- MODULE Widgets -------------------------------
(***************************************************************************)
(* The buttons of the screens, and what a touch does to them: the widget   *)
(* tables of gui/screens/*.c and guiCore_processButton of gui_core.c.      *)
(***************************************************************************)
EXTENDS Naturals, Sequences

\* A button with a text is drawn as a box and acts when the finger leaves it.
Box(y, act) == [x |-> 8, y |-> y, w |-> 160, h |-> 32, boxed |-> TRUE, when |-> "released", act |-> act]

\* The others lie under a sign and act when the finger arrives.
Area(x, y, w, h, act) ==
  [x |-> x, y |-> y, w |-> w, h |-> h, boxed |-> FALSE, when |-> "pressed", act |-> act]

Upper == 152
Middle == 188
Lower == 8 + 216

Button ==
  [noMFDownload |-> Box(Middle, "download"), noMFOff |-> Box(Lower, "SHIPPING"),
   exit |-> Box(Middle, "later"), download |-> Box(Upper, "download"), off |-> Box(Lower, "SHIPPING"),
   lowBack |-> Area(8, 20, 30, 24, "WAIT"), lowOff |-> Box(Lower, "SHIPPING"),
   infoBack |-> Area(8, 20, 30, 24, "WAIT"), info |-> Area(140, 20, 30, 30, "MORE_INFO"),
   next |-> Box(Lower, "DOWNLOAD"),
   qrBack |-> Area(145, 25, 30, 30, "INFO"), close |-> Box(Lower, "INFO"),
   downloadBack |-> Area(8, 20, 30, 24, "INFO"),
   continue |-> Box(Lower, "continue"),
   secret |-> Area(43 + 8, 72 + 7, 73, 70, "hold")]

\* The order in which the poll function of a screen looks at its buttons.  The screen that
\* waits for the user has two tables, for a device with a valid MF and for one without.
Table ==
  [noMF |-> <<"noMFDownload", "noMFOff">>, started |-> <<"exit", "download", "off">>,
   LOW_BATTERY |-> <<"lowBack", "lowOff">>, INFO |-> <<"infoBack", "info", "next">>,
   MORE_INFO |-> <<"qrBack", "close">>, DOWNLOAD |-> <<"downloadBack">>, ERROR |-> <<"continue">>,
   FORCE |-> <<"secret">>, SHIPPING |-> <<>>, UPDATING |-> <<>>]

ButtonsOf(t) == {Table[t][i] : i \in DOMAIN Table[t]}
Boxes(bs) == {b \in bs : Button[b].boxed}
SamePlace(a, b) == Button[a].x = Button[b].x /\ Button[a].y = Button[b].y

\* A touch on the border counts.
Hits(b, p) ==
  /\ p.x \in Button[b].x..(Button[b].x + Button[b].w)
  /\ p.y \in Button[b].y..(Button[b].y + Button[b].h)

(* guiCore_processButton for the buttons bs: the flags afterwards, and the     *)
(* buttons whose handler is called.  A touch is [state, at].                   *)

PressedAfter(bs, touch, pressed) ==
  LET hit == {b \in bs : Hits(b, touch.at)}
  IN CASE touch.state = "none" -> pressed \ bs
       [] touch.state = "pressed" -> (pressed \ bs) \cup hit
       [] touch.state = "released" -> pressed \cup hit

Called(bs, touch, pressed) ==
  {b \in bs : /\ touch.state # "none" /\ Hits(b, touch.at)
              /\ Button[b].when = touch.state
              /\ touch.state = "pressed" => b \notin pressed}
==============================================================================
