------------------------------ MODULE MCPaint ------------------------------
(***************************************************************************)
(* A display of 24 by 10 pixels for TLC.                                   *)
(***************************************************************************)
EXTENDS Paint

MCXs == {0, 1, 5, 8, Width - 1, Width}
MCYs == {0, 1, 5, Height - 1}
MCTextXs == {0, 8, 9}
MCTextYs == {0, Height - LineHeight - 1}

\* Two bits of three are set, which is enough to tell the places apart.
Bitmap(w, h, o) == [width |-> w, height |-> h, sym_offset |-> o,
                    bits |-> {b \in 0..(8 * ((w + 7) \div 8) * h) : b % 3 # 0}]
Glyph(w, h, o, ox, oy) == [width |-> w, height |-> h, sym_offset |-> o, ofs_x |-> ox, ofs_y |-> oy,
                           bits |-> {b \in 0..(w * h) : b % 3 # 0}]

\* A tall and a wide glyph, the latter off the corner of its place; the space has no ink.
MCFont == [narrow |-> Glyph(2, 3, 1, 0, -1), wide |-> Glyph(3, 1, 1, 1, 0), space |-> Glyph(1, 1, 1, 0, 0)]

\* With lines of 16, 15, 8 and 6 pixels there are words that fit, words that do not, and breaks at and
\* between any of them.
MCTexts == UNION {[1..n -> {"narrow", "wide", "space", "newline"}] : n \in 0..4}
             \cup [1..5 -> {"wide", "space"}]

MCPercents == {-1, 0, 50, 99, 100, 255}

\* Images with and without a part of a byte at the end of a row, and symbols.
MCImages == {Bitmap(6, 3, 0), Bitmap(8, 2, 0), Bitmap(11, 2, 0),
             Bitmap(5, 4, 1), Bitmap(3, 7, 2), Bitmap(8, 4, 1)}
=============================================================================
