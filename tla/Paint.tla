-------------------------------- MODULE Paint --------------------------------
(***************************************************************************)
(* gui_paint.c and fonts.c: the framebuffer of the display, the shapes,    *)
(* bitmaps and texts painted into it.                                      *)
(*                                                                         *)
(* The framebuffer is the set of its bits that are 1; bit 8 * a + i is bit *)
(* i, from the left, of byte a.  The screens paint in ROTATE_0 and         *)
(* MIRROR_NONE only.  A bitmap is the function that says which of its bits *)
(* are 1.  A loop of the code is a function of the number of its rounds.   *)
(***************************************************************************)
EXTENDS Integers, Sequences, FiniteSets, FiniteSetsExt

CONSTANTS
  Width, Height,         \* paint.width, paint.height: the display in pixels
  LineHeight, BaseLine,  \* line_height and base_line of the font
  Font,                  \* the glyph of every symbol of the font
  Xs, Ys,                \* columns and rows of shapes
  TextXs, TextYs,        \* where the texts begin
  Texts,                 \* the texts that are painted: sequences of symbols
  Percents,              \* values of the bars
  Images                 \* bitmaps

Symbols == DOMAIN Font
Bitmaps == [width : Nat \ {0}, height : Nat \ {0}, sym_offset : Nat, bits : SUBSET Nat]

\* Shapes may reach the column behind the display.
ASSUME DisplayAssumption ==
  /\ {Width, Height, LineHeight} \subseteq Nat \ {0} /\ Width % 8 = 0 /\ BaseLine \in Nat
  /\ Xs \subseteq 0..Width /\ Ys \subseteq 0..(Height - 1)
  /\ TextXs \subseteq 0..(Width - 1) /\ TextYs \subseteq 0..(Height - 1)
  /\ Percents \subseteq Int /\ Images \subseteq Bitmaps

\* A glyph is within the height of the line and within the place up to the next symbol; the
\* three fonts have that of each of their glyphs.
ASSUME FontAssumption ==
  /\ "space" \in Symbols /\ {"newline", "end"} \cap Symbols = {}
  /\ Texts \subseteq Seq(Symbols \cup {"newline"})
  /\ \A s \in Symbols :
       LET g == Font[s] IN
       /\ g \in [width : Nat \ {0}, height : Nat \ {0}, sym_offset : Nat \ {0},
                 ofs_x : Nat, ofs_y : Int, bits : SUBSET Nat]
       /\ g.width < Width /\ g.ofs_x <= g.sym_offset
       /\ g.ofs_y + BaseLine >= 0 /\ g.height + g.ofs_y + BaseLine <= LineHeight

\* What the code counts in 8 bits (the symbols of a text) and in 16 bits (columns, rows and the
\* pixels of a symbol) does not wrap around.
ASSUME CounterAssumption ==
  /\ Width < 2^15 /\ Height < 2^15
  /\ \A text \in Texts : Len(text) < 2^8
  /\ \A dsc \in Images \cup {Font[s] : s \in Symbols} :
       dsc.sym_offset < 32 /\ (dsc.sym_offset # 0 => dsc.width * dsc.height <= 2^16)

\* What a loop that begins with a has come to after n rounds; F[<<n, s>>] is the n-th round.
Rounds(F, a) == LET after[n \in Nat] == IF n = 0 THEN a ELSE F[<<n, after[n - 1]>>] IN after

\* paint.width_in_bytes
WidthInBytes == IF Width % 8 = 0 THEN Width \div 8 ELSE Width \div 8 + 1
Framebuffer == 0..(8 * WidthInBytes * Height - 1)

VARIABLES
  image,   \* the bits of the framebuffer that are 1, and of the byte behind it
  color,   \* paint.color: 0 or 1 stand for 0 and 0xFF
  drawn,   \* the last request
  before   \* history: the image before it

vars == <<image, color, drawn, before>>

-----------------------------------------------------------------------------
(* Pixels. *)

\* Mutant: a pixel of any column is accepted.
PaintedAnyColumn(x, y) ==
  ~(y > Height) /\ x \div 8 + y * WidthInBytes <= WidthInBytes * Height

\* Mutant: nothing keeps a point below the display out of the framebuffer.
PaintedAnyRow(x, y) == ~(x > Width)

\* The early returns of paint_setPixel and paint_setPixelInvert.
Painted(x, y) ==
  ~(x > Width \/ y > Height) /\ x \div 8 + y * WidthInBytes <= WidthInBytes * Height

Bit(x, y) == 8 * (x \div 8 + y * WidthInBytes) + (x % 8)
Bits(points) == {Bit(p[1], p[2]) : p \in {q \in points : Painted(q[1], q[2])}}

SetPixels(img, points, c) == IF c # 0 THEN img \cup Bits(points) ELSE img \ Bits(points)
InvertPixels(img, points) == (img \ Bits(points)) \cup (Bits(points) \ img)

\* paint_clear
Clear(c) == IF c # 0 THEN Framebuffer ELSE {}

Box(x1, y1, x2, y2) == (x1..x2) \X (y1..y2)
Fits(x1, y1, x2, y2) == ~(x1 > Width \/ y1 > Height \/ x2 > Width \/ y2 > Height)

\* paint_clearWindow: its last column and row are painted too.
ClearWindow(img, x1, y1, w, h) == SetPixels(img, Box(x1, y1, x1 + w, y1 + h), 1 - color)

FilledRectangle(img, x1, y1, x2, y2, c) ==
  IF Fits(x1, y1, x2, y2) THEN SetPixels(img, Box(x1, y1, x2, y2), c) ELSE img

-----------------------------------------------------------------------------
(* Lines: xAddr, yAddr and the cumulative error of paint_drawLine.           *)

Distance(a, b) == IF a <= b THEN b - a ELSE a - b
Direction(a, b) == IF a < b THEN 1 ELSE -1

\* The place of the pen and the cumulative error.
Pen == [x : Int, y : Int, e : Int]

\* One round.  The pen of a line that has come to its end stays where it is.
MovePen(p, x1, y1, x2, y2) ==
  LET dx == Distance(x1, x2)
      dy == -Distance(y1, y2)
      goX == 2 * p.e >= dy
      eX == IF goX THEN p.e + dy ELSE p.e
      goY == 2 * eX <= dx
  IN  IF (goX /\ p.x = x2) \/ (goY /\ p.y = y2) THEN p
      ELSE [x |-> IF goX THEN p.x + Direction(x1, x2) ELSE p.x,
            y |-> IF goY THEN p.y + Direction(y1, y2) ELSE p.y,
            e |-> IF goY THEN eX + dx ELSE eX]

Pens(x1, y1, x2, y2) ==
  Rounds([r \in Nat \X Pen |-> MovePen(r[2], x1, y1, x2, y2)],
         [x |-> x1, y |-> y1, e |-> Distance(x1, x2) - Distance(y1, y2)])

\* Every round moves the pen by a column or a row.
LinePoints(x1, y1, x2, y2) ==
  LET pens == Pens(x1, y1, x2, y2)
  IN  {<<pens[n].x, pens[n].y>> : n \in 0..(Distance(x1, x2) + Distance(y1, y2))}

Line(img, x1, y1, x2, y2, c) ==
  IF Fits(x1, y1, x2, y2) THEN SetPixels(img, LinePoints(x1, y1, x2, y2), c) ELSE img

\* Mutant: the lower side ends where it begins.
RectangleOpen(img, x1, y1, x2, y2, c) ==
  IF ~Fits(x1, y1, x2, y2) THEN img
  ELSE LET top == Line(img, x1, y1, x2, y1, c)
           left == Line(top, x1, y1, x1, y2, c)
           right == Line(left, x2, y2, x2, y1, c)
       IN  Line(right, x2, y2, x2, y2, c)

Rectangle(img, x1, y1, x2, y2, c) ==
  IF ~Fits(x1, y1, x2, y2) THEN img
  ELSE LET top == Line(img, x1, y1, x2, y1, c)
           left == Line(top, x1, y1, x1, y2, c)
           right == Line(left, x2, y2, x2, y1, c)
       IN  Line(right, x2, y2, x1, y2, c)

-----------------------------------------------------------------------------
(* The progress bar, horizontal and with its background, and the battery.    *)

Percent(p) == IF p > 100 THEN 100 ELSE IF p < 0 THEN 0 ELSE p

\* Columns x..last of the inside of a bar, as vertical lines.
Columns(img, x, last, y1, y2, c) ==
  SetPixels(img, UNION {LinePoints(i, y1, i, y2) : i \in x..last}, c)

\* Mutant: the rest of the bar is not painted over.
ProgressBarKeepsRest(img, x, y, w, h, p) ==
  IF ~Fits(x, y, x + w, y + h) THEN img
  ELSE LET o == IF w > 4 /\ h > 4 THEN 2 ELSE 0
           x1 == x + o
           x2 == x + w - o
           end == ((x2 - x1) * Percent(p)) \div 100 + x1
       IN  Columns(Rectangle(img, x, y, x + w, y + h, color), x1, end, y + o, y + h - o, color)

ProgressBar(img, x, y, w, h, p) ==
  IF ~Fits(x, y, x + w, y + h) THEN img
  ELSE LET o == IF w > 4 /\ h > 4 THEN 2 ELSE 0
           x1 == x + o
           x2 == x + w - o
           end == ((x2 - x1) * Percent(p)) \div 100 + x1
           filled == Columns(Rectangle(img, x, y, x + w, y + h, color),
                             x1, end, y + o, y + h - o, color)
       IN  Columns(filled, end + 1, x2, y + o, y + h - o, 1 - color)

Battery(img, x, y, p) ==
  Line(ProgressBar(img, x, y, 12, 7, p), x + 13, y + 2, x + 13, y + 5, color)

-----------------------------------------------------------------------------
(* Bitmaps.  A symbol of a font has an offset and its pixels follow each      *)
(* other without a gap; the rows of an image begin with a byte of their own. *)

\* Mutant: every row begins with a byte of its own.
SourceBitAligned(dsc, row, col) == 8 * (row * ((dsc.width + 7) \div 8)) + col

\* The bit of the bitmap a pixel is taken from.
SourceBit(dsc, row, col) ==
  IF dsc.sym_offset # 0 THEN row * dsc.width + col
  ELSE 8 * (row * ((dsc.width + 7) \div 8)) + col

Ink(dsc, row, col) == SourceBit(dsc, row, col) \in dsc.bits

BitMap(img, x, y, dsc, style) ==
  LET pixels == (0..(dsc.height - 1)) \X (0..(dsc.width - 1))
      inked == {<<x + p[2], y + p[1]>> : p \in {q \in pixels : Ink(dsc, q[1], q[2])}}
      empty == {<<x + p[2], y + p[1]>> : p \in {q \in pixels : ~Ink(dsc, q[1], q[2])}}
      under == IF style = "background" THEN SetPixels(img, empty, 1 - color) ELSE img
  IN  IF x >= Width \/ y >= Height THEN img
      ELSE IF style = "invert" THEN InvertPixels(under, inked)
      ELSE SetPixels(under, inked, color)

-----------------------------------------------------------------------------
(* Fonts: font_getWidth, font_getSymOffset, font_initializeSymbolBitmapDsc.  *)

\* Neither the end of a text nor a newline has a symbol.
CharWidth(s) == IF s \in Symbols THEN Font[s].width ELSE 0
SymOffset(s) == IF s \in Symbols THEN Font[s].sym_offset ELSE 0
Advance(s) == CharWidth(s) + SymOffset(s)

DrawChar(img, x, y, s, style) ==
  LET dsc == Font[s]
      symbol == BitMap(img, x + dsc.ofs_x, y + LineHeight - BaseLine - dsc.height - dsc.ofs_y,
                       dsc, style)
      rest == Box(x + dsc.width, y, x + dsc.width + dsc.sym_offset - 1, y + LineHeight - 1)
      corner == Box(x, y, x + dsc.ofs_x - 1, y + dsc.ofs_y - 1)
  IN  IF x > Width \/ y > Height \/ s \notin Symbols THEN img
      ELSE IF style = "background" THEN SetPixels(symbol, rest \cup corner, 1 - color) ELSE symbol

-----------------------------------------------------------------------------
(* paint_drawStringEn: the lines a text is broken into.  A line is the        *)
(* symbols first..(last - 1), painted from (x, y) on.                        *)

At(text, i) == IF i \in 1..Len(text) THEN text[i] ELSE "end"

\* How far symbols 1..n reach, and symbols i..(n - 1).
Reach(text) == Rounds([r \in Nat \X Nat |-> r[2] + Advance(At(text, r[1]))], 0)
Extent(text, i, n) == Reach(text)[n - 1] - Reach(text)[i - 1]

\* Mutant: one margin is forgotten.
PixPerLineOneMargin(x1, align) == Width - x1

PixPerLine(x1, align) == Width - (IF align = "left" THEN x1 ELSE 2 * x1)

\* The symbol that ends the line or does not fit on it any more.
LineStop(text, from, x1, align) ==
  Min({n \in from..(Len(text) + 1) : \/ At(text, n) \in {"newline", "end"}
                                     \/ Extent(text, from, n + 1) > PixPerLine(x1, align)})

\* A space that begins a text is no place to break it: its index is 0 in the code, which
\* means "none".
LastSpace(text, from, stop) ==
  LET spaces == {i \in from..(stop - 1) : i > 1 /\ At(text, i) = "space"}
  IN  IF spaces = {} THEN 0 ELSE Max(spaces)

\* Mutant: the line is broken in the middle of a word.
BreakAtWord(text, num, lastSpace) == num

\* Where a line ends that has come to symbol num: at its last space, unless it has none.
BreakAt(text, num, lastSpace) ==
  IF At(text, num) \notin {"space", "newline", "end"} /\ lastSpace # 0 THEN lastSpace ELSE num

CenteredX(lineWidth, x1) ==
  LET x == (Width - lineWidth) \div 2 IN IF lineWidth <= Width /\ x # 0 THEN x ELSE x1

TextLine == [first : Nat, last : Nat, x : Int, y : Int]
\* The loop at the beginning of a line: the lines so far, the next symbol and its row.
Layout == [lines : Seq(TextLine), next : Nat, y : Int, done : BOOLEAN]

LineAt(text, from, y, x1, align) ==
  LET stop == LineStop(text, from, x1, align)
      last == BreakAt(text, stop, LastSpace(text, from, stop))
      \* a space at the break does not count; a symbol the line has no space before does
      width == Extent(text, from, IF At(text, last) = "space" THEN last ELSE last + 1)
  IN  [first |-> from, last |-> last, y |-> y,
       x |-> IF align = "center" THEN CenteredX(width, x1) ELSE x1]

NextLine(s, text, x1, align) ==
  LET line == LineAt(text, s.next, s.y, x1, align)
      sym == At(text, line.last)
  IN  IF s.done THEN s
      ELSE [lines |-> Append(s.lines, line), next |-> line.last + 1,
            y |-> s.y + LineHeight + SymOffset(sym),
            done |-> s.y + LineHeight > Height \/ sym = "end"]

\* A line has a symbol, a newline or the end of the text.
Layouts(text, x1, y1, align) ==
  Rounds([r \in Nat \X Layout |-> NextLine(r[2], text, x1, align)],
         [lines |-> <<>>, next |-> 1, y |-> y1, done |-> FALSE])
Lines(text, x1, y1, align) == Layouts(text, x1, y1, align)[Len(text) + 1].lines

\* A text that does not begin with a space and whose words fit on a line.
Words(text) == {w \in (DOMAIN text) \X (DOMAIN text) :
                  w[1] <= w[2] /\ \A i \in w[1]..w[2] : text[i] \notin {"space", "newline"}}
Ordinary(text, x1, align) ==
  /\ text # <<>> => text[1] # "space"
  /\ \A w \in Words(text) : Extent(text, w[1], w[2] + 1) <= PixPerLine(x1, align)

\* Symbol i of a text, if it is on one of the lines.
DrawSymbol(img, text, i, lines, style) ==
  LET on == {k \in DOMAIN lines : i \in lines[k].first..(lines[k].last - 1)}
      l == lines[CHOOSE k \in on : TRUE]
  IN  IF on = {} THEN img
      ELSE DrawChar(img, l.x + Extent(text, l.first, i), l.y, At(text, i), style)

DrawString(img, text, x1, y1, align, style) ==
  LET lines == Lines(text, x1, y1, align)
      drawing == Rounds([r \in Nat \X SUBSET Int |-> DrawSymbol(r[2], text, r[1], lines, style)],
                        img)
  IN  IF x1 > Width \/ y1 > Height THEN img ELSE drawing[Len(text)]

-----------------------------------------------------------------------------
(* paint_drawButton: the text is centred between newlines, and inverts what   *)
(* is below it.                                                              *)

LinesOf(text) == 1 + Cardinality({i \in DOMAIN text : text[i] = "newline"})
\* Mutant: every text has one line.
TextTopOneLine(y, h, text) == y + (h - LineHeight) \div 2

TextTop(y, h, text) == LET free == h - LineHeight * LinesOf(text)
                       IN  IF free > 0 THEN y + free \div 2 ELSE y

ButtonFill(base, pressed) == LET c == IF pressed THEN 1 - base ELSE base
                             IN  IF c # 0 THEN color ELSE 1 - color

Button(img, x, y, w, h, text, base, pressed) ==
  DrawString(FilledRectangle(img, x, y, x + w, y + h, ButtonFill(base, pressed)),
             text, x, TextTop(y, h, text), "center", "invert")

-----------------------------------------------------------------------------
(* Requests.  Every request is made on a clear display; a bar and a battery   *)
(* are painted again in place, as the screens do.                            *)

Nothing == [kind |-> "nothing"]
Request(kind, img, box) ==
  /\ image' = img
  /\ drawn' = [kind |-> kind, box |-> box]
  /\ before' = image /\ UNCHANGED color

Init == image = Clear(1) /\ color = 0 /\ drawn = Nothing /\ before = image

PaintClear ==
  /\ drawn # Nothing
  /\ \E c \in {0, 1} : image' = Clear(c) /\ before' = Clear(c)
  /\ drawn' = Nothing /\ UNCHANGED color

SelectColor == drawn = Nothing /\ color' = 1 - color /\ UNCHANGED <<image, drawn, before>>

\* The screens paint inside of the display, but for windows that reach its right edge, and
\* may be wider than what is left of the display.
PaintShape ==
  /\ drawn = Nothing
  /\ \E x1, x2 \in Xs, y1, y2 \in Ys :
       /\ x1 <= x2 /\ y1 <= y2 /\ (x2 = Width => y2 < Height - 1)
       /\ \/ Request("rectangle", Rectangle(image, x1, y1, x2, y2, color), <<x1, y1, x2, y2>>)
          \/ Request("filled", FilledRectangle(image, x1, y1, x2, y2, color), <<x1, y1, x2, y2>>)
          \/ \E more \in {0, 6} :
               /\ y2 < Height - 1
               /\ Request("window", ClearWindow(image, x1, y1, x2 - x1 + more, y2 - y1),
                          <<x1, y1, x2 + more, y2>>)

PaintBar ==
  \/ drawn = Nothing
     /\ \E x1, x2 \in Xs, y1, y2 \in Ys, p \in Percents :
          /\ x1 < x2 /\ x2 < Width /\ y1 < y2
          /\ image' = ProgressBar(image, x1, y1, x2 - x1, y2 - y1, p)
          /\ drawn' = [kind |-> "bar", box |-> <<x1, y1, x2, y2>>, percent |-> p]
          /\ before' = image /\ UNCHANGED color
  \/ drawn.kind = "bar"
     /\ \E p \in Percents :
          LET b == drawn.box IN
          /\ image' = ProgressBar(image, b[1], b[2], b[3] - b[1], b[4] - b[2], p)
          /\ drawn' = [drawn EXCEPT !.percent = p]
          /\ UNCHANGED <<before, color>>

PaintBattery ==
  \/ drawn = Nothing
     /\ \E x \in Xs, y \in Ys, p \in Percents :
          /\ x + 13 < Width /\ y + 7 < Height
          /\ image' = Battery(image, x, y, p)
          /\ drawn' = [kind |-> "battery", box |-> <<x, y, x + 13, y + 7>>, percent |-> p]
          /\ before' = image /\ UNCHANGED color
  \/ drawn.kind = "battery"
     /\ \E p \in Percents :
          /\ image' = Battery(image, drawn.box[1], drawn.box[2], p)
          /\ drawn' = [drawn EXCEPT !.percent = p]
          /\ UNCHANGED <<before, color>>

PaintBitMap ==
  /\ drawn = Nothing
  /\ \E x \in Xs, y \in Ys, dsc \in Images, style \in {"color", "background", "invert"} :
       /\ x + dsc.width <= Width /\ y + dsc.height <= Height
       /\ image' = BitMap(image, x, y, dsc, style)
       /\ drawn' = [kind |-> "bitmap", box |-> <<x, y, x + dsc.width - 1, y + dsc.height - 1>>,
                    dsc |-> dsc]
       /\ before' = image /\ UNCHANGED color

\* The texts of the screens are of words that fit and begin at column 8 or later, or they end
\* above the bottom of the display: below it, the columns up to 8 lie behind the framebuffer.
PaintString ==
  /\ drawn = Nothing
  /\ \E text \in Texts, x1 \in TextXs, y1 \in TextYs,
        align \in {"left", "center"}, style \in {"color", "background"} :
       /\ align = "center" => 2 * x1 <= Width
       /\ \/ x1 >= 8 /\ Ordinary(text, x1, align)
          \/ LET lines == Lines(text, x1, y1, align)
             IN  \A k \in DOMAIN lines : lines[k].y + LineHeight <= Height
       /\ image' = DrawString(image, text, x1, y1, align, style)
       /\ drawn' = [kind |-> "text", box |-> <<0, y1, Width - 1, Height - 1>>,
                    text |-> text, x |-> x1, y |-> y1, align |-> align]
       /\ before' = image /\ UNCHANGED color

\* Buttons are in the middle of the display, at column 8 or later, and high enough for their
\* texts, which are not wrapped.
PaintButton ==
  /\ drawn = Nothing
  /\ \E text \in Texts, x \in TextXs, y1, y2 \in Ys, base \in {0, 1}, pressed \in BOOLEAN :
       LET w == Width - 2 * x
           h == y2 - y1
           lines == Lines(text, x, TextTop(y1, h, text), "center")
       IN  /\ x >= 8 /\ w > 0 /\ LineHeight * LinesOf(text) <= h + 1
           /\ Ordinary(text, x, "center")
           /\ \A k \in DOMAIN lines : At(text, lines[k].last) \in {"newline", "end"}
           /\ image' = Button(image, x, y1, w, h, text, base, pressed)
           /\ drawn' = [kind |-> "button", box |-> <<x, y1, x + w, y2>>, text |-> text,
                        fill |-> ButtonFill(base, pressed)]
           /\ before' = image /\ UNCHANGED color

Next == PaintClear \/ SelectColor \/ PaintShape \/ PaintBar \/ PaintBattery \/ PaintBitMap
        \/ PaintString \/ PaintButton

Spec == Init /\ [][Next]_vars

-----------------------------------------------------------------------------
(* Properties. *)

TypeOK ==
  /\ image \subseteq Framebuffer /\ before \subseteq Framebuffer
  /\ color \in {0, 1}
  /\ drawn.kind \in {"nothing", "rectangle", "filled", "window", "bar", "battery", "bitmap",
                     "text", "button"}

\* What a request changes lies in its box and in the framebuffer.  The one exception is a box
\* that reaches the column behind the display, which the bounds checks accept: that column is
\* the first one of the row below (paint_setPixel; the window of the battery indicator).
OnlyTheShape ==
  drawn # Nothing =>
    LET box == drawn.box
        changed == (image \ before) \cup (before \ image)
        inside == Bits(Box(box[1], box[2], IF box[3] < Width THEN box[3] ELSE Width - 1, box[4]))
        behind == IF box[3] < Width THEN {} ELSE Bits({Width} \X (box[2]..box[4]))
    IN  changed \subseteq inside \cup behind /\ image \subseteq Framebuffer

\* A bar or a battery that is painted again looks like one painted on a clear display: nothing
\* of a higher value is left; and it is full at 100 percent and over and at no other value
\* (paint_drawProgressBar, paint_drawBattery; the bars of the screens are never cleared).
RedrawsClean ==
  drawn.kind \in {"bar", "battery"} =>
    LET b == drawn.box
        Fresh(p) == IF drawn.kind = "bar"
                    THEN ProgressBar(before, b[1], b[2], b[3] - b[1], b[4] - b[2], p)
                    ELSE Battery(before, b[1], b[2], p)
    IN  /\ image = Fresh(drawn.percent)
        /\ drawn.kind = "battery" =>
             (image = Fresh(100) <=> drawn.percent >= 100)

\* An outline is closed: all of the border, and nothing inside of it
\* (paint_drawRectangle by four calls of paint_drawLine).
OutlineIsClosed ==
  drawn.kind = "rectangle" /\ drawn.box[3] < Width =>
    LET b == drawn.box
        border == {p \in Box(b[1], b[2], b[3], b[4]) :
                     p[1] \in {b[1], b[3]} \/ p[2] \in {b[2], b[4]}}
    IN  image = SetPixels(before, border, color)

\* Every byte of a bitmap is used and no byte behind it, and no two pixels share a bit
\* (paint_drawBitMap with the two layouts of converter.py and of the font generator).
ReadsTheBitmap ==
  drawn.kind = "bitmap" =>
    LET d == drawn.dsc
        pixels == (0..(d.height - 1)) \X (0..(d.width - 1))
        used == {SourceBit(d, p[1], p[2]) : p \in pixels}
        size == IF d.sym_offset # 0 THEN (d.width * d.height + 7) \div 8
                ELSE ((d.width + 7) \div 8) * d.height
    IN  Cardinality(used) = d.width * d.height /\ {b \div 8 : b \in used} = 0..(size - 1)

\* Words no wider than a line are painted whole: of a text that does not begin with a space
\* and that the display has room for, only spaces and newlines are left out, each at the end
\* of a line (paint_drawStringEn: the walk back to the last space).
TextComplete ==
  drawn.kind = "text" =>
    LET text == drawn.text
        lines == Lines(text, drawn.x, drawn.y, drawn.align)
        painted == UNION {lines[i].first..(lines[i].last - 1) : i \in DOMAIN lines}
    IN  /\ Ordinary(text, drawn.x, drawn.align)
        /\ lines[Len(lines)].last > Len(text)
        => \A i \in DOMAIN text \ painted : text[i] \in {"space", "newline"}

\* No line of such a text leaves the margins, which are those of x1 on both sides of a centred
\* text, and the lines of a text never overlap (paint_drawStringEn, get_centeredX).
LinesFit ==
  drawn.kind = "text" /\ Ordinary(drawn.text, drawn.x, drawn.align) =>
    LET text == drawn.text
        lines == Lines(text, drawn.x, drawn.y, drawn.align)
    IN  \A i \in DOMAIN lines :
          LET l == lines[i] IN
          /\ l.x >= drawn.x
          /\ l.x + Extent(text, l.first, l.last) <= drawn.x + PixPerLine(drawn.x, drawn.align)
          /\ i > 1 => l.y >= lines[i - 1].y + LineHeight

\* A symbol one sees something of.
Visible(s) == \E row \in 0..(Font[s].height - 1), col \in 0..(Font[s].width - 1) :
                Ink(Font[s], row, col)

\* The text of a button is inside of it, in the middle or from its top on, and can be read: it
\* has the other colour, pressed or not (paint_drawButton).
ButtonReadable ==
  drawn.kind = "button" =>
    LET b == drawn.box
        plain == SetPixels(before, Box(b[1], b[2], b[3], b[4]), drawn.fill)
        text == drawn.text
    IN  /\ (image \ plain) \cup (plain \ image) \subseteq Bits(Box(b[1], b[2], b[3], b[4]))
        /\ (\E i \in DOMAIN text : text[i] \notin {"space", "newline"} /\ Visible(text[i]))
             => image # plain
=============================================================================
